--------------------------- MODULE MCProvisionRun ---------------------------
(* Instances of ProvisionRun for TLC. *)
EXTENDS ProvisionRun, TLC

CONSTANTS ann, pat, pam, r1, r2, gap, age, year, p1, in1, s1, s2

\* A reviewer and one or two partners, who are alike.
MCUsers  == {ann, pat, pam}
Partnered == {pat, pam}
MCRoleOf == [u \in Users |-> IF u = ann THEN "reviewer" ELSE "partner"]
Partnership == Permutations({pat, pam})

OneRun == {r1}

\* A high and a medium item of the first run, and a tax-period review.
NoItems          == {}
HighItem         == {gap}
HighItemAndPeriod == {gap, year}

MCRunOf  == [i \in Items |-> IF i = year THEN NoRun ELSE r1]
MCKindOf == [i \in Items |-> CASE i = gap -> "missing_mapping"
                               [] i = age -> "missing_depreciation_metadata"
                               [] i = year -> PeriodKind]

OneProposal == {p1}
NoProposals == {}
OneInput    == {in1}
NoInputs    == {}
OneSession  == {s1}
TwoSessions == {s1, s2}

\* A bound on what happens beside each other: two requests, an item and a proposal as
\* long as the tax period has no review; one request at a time once it has, and no other
\* item or proposal.  (The run of RunGates has all of them together.)
Undisturbed ==
  /\ \E s \in Sessions : \A t \in Sessions \ {s} : session[t] = Idle
  /\ \A i \in Items : KindOf[i] # PeriodKind => status[i] = "absent"
  /\ pending = {}
Bounded == Undisturbed \/ \A i \in Items : KindOf[i] = PeriodKind => status[i] = "absent"
=============================================================================
