----------------------------- MODULE MCRunGates -----------------------------
(* The instance of RunGates for TLC: one reviewer, one partner, and two     *)
(* connections, which are alike.                                            *)
EXTENDS MCProvisionRun, RunGates

ReviewerAndPartner == {ann, pat}
Connections        == Permutations({s1, s2})
=============================================================================
