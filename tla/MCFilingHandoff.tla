-------------------------- MODULE MCFilingHandoff --------------------------
(* Instances of FilingHandoff for TLC. *)
EXTENDS FilingHandoff, TLC

CONSTANTS r1, r2, d1, d2, d3, u1, u2, yes

TwoRuns    == {r1, r2}
ThreeDocs  == {d1, d2, d3}
TwoUploads == {u1, u2}
Yes        == {yes}

\* Runs are alike, and so are the ids of documents and the connections.
Likeness == Permutations(Runs) \cup Permutations(Docs) \cup Permutations(Uploads)

\* A bound on what happens beside each other: with one run, three documents and uploads
\* that overlap, as two replaces of one document do; with two runs, one lock of each
\* and two documents, of which the uploads do not overlap.
OneRun  == \E r \in Runs : \A q \in Runs \ {r} : ~Exists(q)
Little  == /\ \A r \in Runs : run[r].lock <= 1
           /\ Cardinality({d \in Docs : ~Unused(d)}) <= 2
           /\ Cardinality({u \in Uploads : upload[u] # NoUpload}) <= 1
Bounded == OneRun \/ Little
=============================================================================
