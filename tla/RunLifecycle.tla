---------------------------- MODULE RunLifecycle ----------------------------
(***************************************************************************)
(* What the product promises about a provision run, in the terms of the    *)
(* lifecycle badge it shows (deriveLifecycleStage in modules/handoff): a   *)
(* run is worked on, approved, locked, marked filing-ready and filed; it   *)
(* is locked only when approved, made ready only when locked, filed only   *)
(* when ready; unlocking takes it back to approved and a filing is final.  *)
(* The working stages (draft, calculated, needs_...) are one stage here.   *)
(***************************************************************************)
CONSTANT Runs

VARIABLE stage

Stages == {"absent", "working", "approved", "locked", "filing_ready", "filed_externally"}

\* The moves a run may make between two different stages.
Moves ==
  {<<"absent", "working">>,
   <<"working", "approved">>,
   <<"approved", "working">>,             \* submitted again
   <<"approved", "locked">>,
   <<"locked", "filing_ready">>,
   <<"filing_ready", "filed_externally">>,
   <<"locked", "approved">>,              \* unlocked
   <<"filing_ready", "approved">>}        \* unlocked

Init == stage = [r \in Runs |-> "absent"]

Move(r, to) ==
  /\ <<stage[r], to>> \in Moves
  /\ stage' = [stage EXCEPT ![r] = to]

Next == \E r \in Runs, to \in Stages : Move(r, to)

Spec == Init /\ [][Next]_stage
=============================================================================
