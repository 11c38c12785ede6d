-------------------------- MODULE MCWorkbenchJobs --------------------------
(* Instances of WorkbenchJobs for TLC. *)
EXTENDS WorkbenchJobs, TLC

CONSTANTS k1, k2, d1, d2, a1, a2, s1, s2

TwoKeys     == {k1, k2}
TwoDocs     == {d1, d2}
TwoAccounts == {a1, a2}
TwoSessions == {s1, s2}

\* The same accounts in opposite orders.
Opposite == d1 :> <<a1, a2>> @@ d2 :> <<a2, a1>>
=============================================================================
