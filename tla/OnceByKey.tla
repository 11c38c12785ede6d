----------------------------- MODULE OnceByKey -----------------------------
(* What an idempotency key promises its caller: the work asked for under a
   key takes effect once, with one outcome that every later answer repeats. *)
EXTENDS Naturals

CONSTANTS Keys, Outcomes, NoOutcome

VARIABLES
  outcome,   \* what has been recorded for each key
  effects    \* how often the work of each key has taken effect

Init ==
  /\ outcome = [k \in Keys |-> NoOutcome]
  /\ effects = [k \in Keys |-> 0]

Settle(k, o) ==
  /\ outcome[k] = NoOutcome
  /\ outcome' = [outcome EXCEPT ![k] = o]
  /\ effects' = [effects EXCEPT ![k] = @ + 1]

Next == \E k \in Keys, o \in Outcomes : Settle(k, o)

Spec == Init /\ [][Next]_<<outcome, effects>>
=============================================================================
