----------------------------- MODULE MCBilling -----------------------------
(* Instances of Billing for TLC. *)
EXTENDS Billing, TLC

CONSTANTS r1, r2, r3, r4, r5, s1, s2

FiveRuns    == {r1, r2, r3, r4, r5}
TwoSessions == {s1, s2}
PaidOrNot   == {"active", "past_due"}
OneRunAMonth == {1}
LowLimit     == {0}

\* Runs are alike, and so are connections.
Likeness == Permutations(Runs) \cup Permutations(Sessions)
=============================================================================
