------------------------- MODULE MCMappingVersions -------------------------
(* Instances of MappingVersions for TLC. *)
EXTENDS MappingVersions, TLC

CONSTANTS a1, a2, p1, p2, j1, j2, s1, s2, w1, w2

OneAccount   == {a1}
TwoAccounts  == {a1, a2}
TwoProposals == {p1, p2}
OneJob       == {j1}
TwoJobs      == {j1, j2}
TwoSessions  == {s1, s2}
TwoWorkers   == {w1, w2}

\* A bound on what happens beside each other: two transactions, of requests, of workers
\* or of one of each, and beside a worker that lost its job and the one that has it now
\* a request.
Busy    == {c \in Connections : tx[c] # NoTx}
Bounded == Cardinality(Busy) <= 2 \/ Cardinality(Busy \cap Sessions) <= 1
=============================================================================
