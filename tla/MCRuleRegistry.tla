--------------------------- MODULE MCRuleRegistry ---------------------------
(* Instances of RuleRegistry for TLC. *)
EXTENDS RuleRegistry, TLC

CONSTANTS u1, u2, u3, rate, relief, w1, l1

ThreeRules  == {u1, u2, u3}
TwoKeys     == {rate, relief}
\* For the first period only, from the first on and from the second on; 3 is
\* later than every period's end, as no effective_to is.
SomeWindows == {<<1, 1>>, <<1, 3>>, <<2, 3>>}
OneOfEach   == {w1, l1}
WorkbenchRun == {w1}
PeriodEnds  == [r \in Runs |-> IF r = w1 THEN 1 ELSE 2]

\* The ids of rules are alike, and so are keys.
Likeness == Permutations(Rules) \cup Permutations(Keys)
=============================================================================
