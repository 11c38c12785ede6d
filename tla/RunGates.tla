------------------------------ MODULE RunGates ------------------------------
(***************************************************************************)
(* What the finalize, lock and item handlers of ProvisionRun may rely on   *)
(* when requests overlap.  They read items and proposals without locking   *)
(* them, check, and write later; the repository's comments speak as if     *)
(* what was checked still held at the write.  It need not.  The history    *)
(* variable since records what the other requests changed under each       *)
(* request in flight, and the properties say exactly how far the comments  *)
(* fail: only through what is recorded there.  The variable is observed    *)
(* only: it takes no step and prevents none.                               *)
(***************************************************************************)
EXTENDS ProvisionRun

VARIABLES since  \* what changed since each connection's handler read

gateVars == <<vars, since>>

\* opened: items written to an unresolved status, and proposed: mapping proposals
\* made, since a finalize or a lock read its gates; closed: items that became final
\* since an item route read its item.
Nothing == [opened |-> {}, proposed |-> {}, closed |-> {}]

Opened   == {i \in Items : status'[i] \in OpenStatuses /\ status'[i] # status[i]}
Proposed == pending' \ pending
Closed   == {i \in Items : status[i] \notin FinalStatuses /\ status'[i] \in FinalStatuses}

Observed(s) ==
  IF session'[s] # session[s] THEN Nothing
  ELSE IF session[s].op \in {"finalize", "lock"}
       THEN [since[s] EXCEPT !.opened = @ \cup Opened, !.proposed = @ \cup Proposed]
  ELSE IF session[s].op \in ItemRoutes
       THEN [since[s] EXCEPT !.closed = @ \cup (Closed \cap session[s].items)]
  ELSE Nothing

GatesInit == Init /\ since = [s \in Sessions |-> Nothing]
GatesNext == Next /\ since' = [s \in Sessions |-> Observed(s)]
GatesSpec == GatesInit /\ [][GatesNext]_gateVars

-----------------------------------------------------------------------------
(* Properties. *)

Finishing(s, op) == session[s].op = op /\ session'[s] = Idle

OpenHigh(r)       == {i \in OpenIn(r) : High(i)}
OpenPeriodReviews == {i \in Items : KindOf[i] = PeriodKind /\ status[i] = "open"}

\* The item routes that write a status which is not final.
WorkingRoutes == {"start", "request_evidence", "attach_evidence"}

\* POST /runs/:runId/finalize: "block finalize on ANY non-final review state ...
\* everything else must be closed" (provision.routes.ts).  A run does become
\* finalized with unresolved items: only when each of them was opened while
\* that finalize was between its reading of the items and its write.
FinalizeClosesReview ==
  [][\A r \in Runs :
       run[r].status # "finalized" /\ run'[r].status = "finalized" =>
         \E s \in Sessions : /\ Finishing(s, "finalize") /\ session[s].run = r
                             /\ Unresolved(r) \subseteq since[s].opened]_gateVars

\* evaluateApprovalGates: "Gates that must pass before a run may be finalized or
\* locked" (workbench/gates.ts).  A workbench run does become final with a
\* proposal pending, a high item open or its period's review open: only when
\* the proposal was made, or the item or the review opened, after that handler
\* had read its gates.
WorkbenchLockGated ==
  [][\A r \in Runs :
       run[r].workbench /\ run'[r].status # run[r].status /\ run'[r].status \in {"finalized", "locked"} =>
         \E s \in Sessions :
           /\ Finishing(s, "finalize") \/ Finishing(s, "lock")
           /\ session[s].run = r
           /\ pending \subseteq since[s].proposed
           /\ OpenHigh(r) \subseteq since[s].opened
           /\ run[r].nonStandard => OpenPeriodReviews \subseteq since[s].opened]_gateVars

\* review.routes.ts: "An item can never return from a final status ... except via
\* an explicit human reopen".  It does: only when start, request-evidence or
\* attach-evidence had read the item before another request closed it.
FinalLeftOnlyByReopen ==
  [][\A i \in Items :
       status[i] \in FinalStatuses /\ status'[i] \notin FinalStatuses =>
         \E s \in Sessions :
           /\ \/ Finishing(s, "reopen")
              \/ (\E op \in WorkingRoutes : Finishing(s, op)) /\ i \in since[s].closed
           /\ i \in session[s].items]_gateVars
=============================================================================
