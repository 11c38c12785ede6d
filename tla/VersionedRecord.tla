-------------------------- MODULE VersionedRecord --------------------------
(***************************************************************************)
(* What a table with a version column and an "in force" flag promises: the *)
(* versions of a key are numbered 1, 2, 3 ... with none skipped and none   *)
(* given twice, and a new version, which may be put on several keys at     *)
(* once, takes the place of the one before it.  tax_mappings keeps its     *)
(* rows this way (accounts are the keys), and so do uk_rules.              *)
(***************************************************************************)
EXTENDS Naturals

CONSTANTS Keys, MaxVersion

VARIABLES
  latest,   \* the number of versions each key has had
  inForce   \* the versions of each key that are in force

Init ==
  /\ latest = [k \in Keys |-> 0]
  /\ inForce = [k \in Keys |-> {}]

\* The next version of some keys, each alone in force for its key.
Supersede ==
  \E written \in (SUBSET Keys) \ {{}} :
    /\ \A k \in written : latest[k] < MaxVersion
    /\ latest' = [k \in Keys |-> IF k \in written THEN latest[k] + 1 ELSE latest[k]]
    /\ inForce' = [k \in Keys |-> IF k \in written THEN {latest[k] + 1} ELSE inForce[k]]

Spec == Init /\ [][Supersede]_<<latest, inForce>>
=============================================================================
