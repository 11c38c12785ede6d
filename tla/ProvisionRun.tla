---------------------------- MODULE ProvisionRun ----------------------------
(***************************************************************************)
(* The provision run of one tenant and one entity: creation (modules/      *)
(* provision and modules/workbench), review, finalize, submit, partner     *)
(* approval, lock, unlock, filing-ready handoff and the record of an       *)
(* external filing (modules/handoff), with the review items of             *)
(* ReviewLifecycle, the mapping proposals and the tax-period reviews their *)
(* gates look at, and the usage ledger finalize and lock write.            *)
(*                                                                         *)
(* A handler that first takes the run's row FOR UPDATE and then reads rows *)
(* it has not locked (items, proposals) is two actions: the reads and      *)
(* checks, which leave a request holding the run row, and the commit.  The *)
(* handlers that decide on the run row alone are one action, possible only *)
(* while nobody holds that row.                                            *)
(***************************************************************************)
EXTENDS ReviewLifecycle

CONSTANTS
  KindOf,        \* item_type of each item
  Proposals,     \* mapping proposals the entity may have pending at once
  Inputs,        \* what POST /provision/run finds: a period and the inputDataHash of its rows
  NoInput,       \* of a workbench run, whose hash is of another object and never equal
  MakerChecker   \* tenants.maker_checker_enabled

PeriodKind   == "non_standard_period"
MappingKinds == {"missing_mapping", "low_confidence_mapping"}
ItemKinds    == MappingKinds \cup {PeriodKind, "missing_depreciation_metadata"}

\* A tax-period review is about the entity: the insert names no run.
ASSUME KindsAssumption ==
  /\ KindOf \in [Items -> ItemKinds]
  /\ \A i \in Items : KindOf[i] = PeriodKind => RunOf[i] = NoRun
ASSUME InputsAssumption == NoInput \notin Inputs
ASSUME MakerCheckerAssumption == MakerChecker \in BOOLEAN

High(i) == KindOf[i] = "missing_mapping"

VARIABLES
  run,      \* the provision_runs rows
  pending,  \* the entity's mapping proposals awaiting a decision
  usage     \* usage_events rows: the run billed and the milestone that billed it

runVars == <<run, pending, usage>>
vars    == <<reviewVars, runVars>>

(***************************************************************************)
(* A run row.  workbench: it has a correlation id, a source document and   *)
(* its entity.  nonStandard: its tax period has a non-standard duration.   *)
(* finalized: finalized_at is set.                                         *)
(***************************************************************************)
NoRow ==
  [status |-> "absent", workbench |-> FALSE, nonStandard |-> FALSE, input |-> NoInput,
   approval |-> "not_required", requestedBy |-> Nobody, submittedBy |-> Nobody,
   approvedBy |-> Nobody, lockedBy |-> Nobody, readyBy |-> Nobody, filedBy |-> Nobody,
   finalized |-> FALSE]

WorkingStatuses == {"needs_review", "calculated", "workpapers_generated", "draft"}
Approvals       == {"not_required", "pending", "pending_partner_review", "approved"}

Exists(r)  == run[r].status # "absent"
Locked(r)  == run[r].status = "locked"
Mutable(r) == Exists(r) /\ ~Locked(r)      \* assertRunIsMutable
Ready(r)   == run[r].readyBy # Nobody      \* handoff_ready_at is set
Filed(r)   == run[r].filedBy # Nobody      \* filed_externally_at is set

CreatedItems(r) == {i \in ItemsOf(r) : status[i] # "absent"}
OpenIn(r)       == {i \in ItemsOf(r) : status[i] = "open"}
Unresolved(r)   == {i \in CreatedItems(r) : status[i] \notin FinalStatuses}

\* hasOpenNonStandardPeriodItem: only the status 'open' counts.
PeriodReviewOpen == \E i \in Items : KindOf[i] = PeriodKind /\ status[i] = "open"
PeriodReviewed   == \E i \in Items : KindOf[i] = PeriodKind /\ status[i] # "absent"

-----------------------------------------------------------------------------
(* Gates. *)

\* evaluateRunGates of proposals and period; entity, evidence and rules are given.
RunGates(proposals, periodUnresolved) == proposals = {} /\ ~periodUnresolved

\* evaluateApprovalGates: runs not made by the workbench pass.
RunApprovalGates(isWorkbenchRun, openCritical, proposals, periodUnresolved) ==
  isWorkbenchRun => openCritical = {} /\ proposals = {} /\ ~periodUnresolved

\* evaluateRunCreationGates: a workbench calculation may be created.
CreationGates(nonStandard) == RunGates(pending, nonStandard /\ PeriodReviewOpen)

\* assertWorkbenchApprovalGates
ApprovalGates(r) ==
  RunApprovalGates(run[r].workbench, {i \in OpenIn(r) : High(i)}, pending,
                   run[r].nonStandard /\ PeriodReviewOpen)

\* evaluateHandoffGates; a run without source document never passes.
HandoffGates(r) ==
  /\ Locked(r) /\ run[r].workbench
  /\ OpenIn(r) = {} /\ pending = {}
  /\ ~Ready(r)

\* evaluateFilingGate
FilingGate(r) == Locked(r) /\ Ready(r)

\* Wrong on purpose: maker-checker looks at who submitted the run.
DisqualifiedSubmitter(u, r) == MakerChecker /\ run[r].submittedBy = u

\* violatesMakerChecker: the run's creator is out when the tenant asks for it.
Disqualified(u, r) == MakerChecker /\ run[r].requestedBy = u

\* assertPartnerCanApprove
MayApprove(u, r) == u \notin {run[r].submittedBy, run[r].requestedBy}

\* Wrong on purpose: the idempotency key names the milestone.
BillEach(r, milestone) == usage' = usage \cup {[run |-> r, at |-> milestone]}

\* billRunOnce: the first milestone inserts the run's only row.
Bill(r, milestone) ==
  usage' = IF \E e \in usage : e.run = r THEN usage
           ELSE usage \cup {[run |-> r, at |-> milestone]}

-----------------------------------------------------------------------------
Init ==
  /\ ReviewInit
  /\ run     = [r \in Runs |-> NoRow]
  /\ pending = {}
  /\ usage   = {}

(***************************************************************************)
(* Creation.  The whole calculation is one transaction, which reads what   *)
(* it depends on first (an approved run of the same input, or the gates)   *)
(* and inserts the run and its review items at the end, as other handlers  *)
(* see it.                                                                 *)
(***************************************************************************)
\* A run of the same period and input hash is approved: the new one gets no mapping
\* items.
ApprovedBefore(in) == \E q \in Runs : run[q].input = in /\ run[q].approval = "approved"

Calculate(s, u, op, arg) ==
  /\ session[s] = Idle
  /\ RoleOf[u] \in Preparers
  /\ session' = [session EXCEPT ![s] =
       [op |-> op, run |-> NoRun, items |-> {}, by |-> u, arg |-> arg]]
  /\ UNCHANGED <<status, resolvedBy, runVars>>

\* POST /provision/run
ReadRun(s, u, in) ==
  Calculate(s, u, IF ApprovedBefore(in) THEN "run_reusing" ELSE "run_fresh", in)

\* POST /workbench/runs, and recalculate, which also makes a new run.
ReadWorkbenchRun(s, u, duration) ==
  /\ duration = "non_standard" => PeriodReviewed
  /\ CreationGates(duration = "non_standard")
  /\ Calculate(s, u, "workbench_run", duration)

InsertRun(s, r, new, row) ==
  /\ ~Exists(r)
  /\ InsertItems(new)
  /\ run' = [run EXCEPT ![r] = [row EXCEPT !.requestedBy = session[s].by]]
  /\ session' = [session EXCEPT ![s] = Idle]
  /\ UNCHANGED <<pending, usage>>

\* The last write of the status counts the mapping items only; an item for
\* missing depreciation metadata still makes the approval pending.
CommitRun(s, r, new) ==
  LET counted == {i \in new : KindOf[i] \in MappingKinds} IN
  /\ session[s].op \in {"run_fresh", "run_reusing"}
  /\ session[s].op = "run_reusing" => counted = {}
  /\ InsertRun(s, r, new,
       [NoRow EXCEPT !.status = IF counted # {} THEN "needs_review" ELSE "workpapers_generated",
                     !.approval = IF new # {} THEN "pending" ELSE "not_required",
                     !.input = session[s].arg])

CommitWorkbenchRun(s, r, new) ==
  /\ session[s].op = "workbench_run"
  /\ InsertRun(s, r, new,
       [NoRow EXCEPT !.status = IF new # {} THEN "needs_review" ELSE "calculated",
                     !.approval = IF new # {} THEN "pending" ELSE "not_required",
                     !.workbench = TRUE, !.nonStandard = (session[s].arg = "non_standard")])

CreationStep ==
  \E s \in Sessions :
    \/ \E u \in Users, in \in Inputs : ReadRun(s, u, in)
    \/ \E u \in Users, duration \in {"standard", "non_standard"} : ReadWorkbenchRun(s, u, duration)
    \/ \E r \in Runs : \E new \in SUBSET ItemsOf(r) :
         CommitRun(s, r, new) \/ CommitWorkbenchRun(s, r, new)

\* POST /periods/tax with a non-standard duration.
CreateTaxPeriod ==
  /\ \E i \in Items : KindOf[i] = PeriodKind /\ OpenItems({i})
  /\ UNCHANGED runVars

\* POST /mapping/proposals, carry-forward, and decide.
Propose(p) == p \notin pending /\ pending' = pending \cup {p}
Decide(p)  == p \in pending /\ pending' = pending \ {p}

ProposalStep ==
  /\ Connected
  /\ \E p \in Proposals : Propose(p) \/ Decide(p)
  /\ UNCHANGED <<reviewVars, run, usage>>

-----------------------------------------------------------------------------
(***************************************************************************)
(* Handlers that hold the run row between what they check and what they    *)
(* write.                                                                  *)
(***************************************************************************)
Hold(s, r, op, u) ==
  /\ session[s] = Idle
  /\ RowFree(r)
  /\ session' = [session EXCEPT ![s] =
       [op |-> op, run |-> r, items |-> {}, by |-> u, arg |-> "none"]]
  /\ UNCHANGED <<status, resolvedBy, runVars>>

\* Wrong on purpose: finalize looks for open items only.
ReadFinalizeOpenOnly(s, r) ==
  /\ \E u \in Users : RoleOf[u] \in Preparers
  /\ Mutable(r)
  /\ ApprovalGates(r)
  /\ OpenIn(r) = {}
  /\ Hold(s, r, "finalize", Nobody)

\* Finalize stores no user.
ReadFinalize(s, r) ==
  /\ \E u \in Users : RoleOf[u] \in Preparers
  /\ Mutable(r)
  /\ ApprovalGates(r)
  /\ Unresolved(r) = {}
  /\ Hold(s, r, "finalize", Nobody)

\* Wrong on purpose: lock leaves the gates to finalize.
ReadLockUngated(s, u, r) ==
  /\ RoleOf[u] \in Partners
  /\ Exists(r) /\ run[r].approval = "approved"
  /\ ~Disqualified(u, r)
  /\ Hold(s, r, "lock", u)

\* Wrong on purpose: lock takes any run, approved or not.
ReadLockUnapproved(s, u, r) ==
  /\ RoleOf[u] \in Partners
  /\ Exists(r)
  /\ ApprovalGates(r)
  /\ ~Disqualified(u, r)
  /\ Hold(s, r, "lock", u)

ReadLock(s, u, r) ==
  /\ RoleOf[u] \in Partners
  /\ Exists(r) /\ run[r].approval = "approved"
  /\ ApprovalGates(r)
  /\ ~Disqualified(u, r)
  /\ Hold(s, r, "lock", u)

ReadHandoffReady(s, u, r) ==
  /\ RoleOf[u] \in Partners
  /\ ~Disqualified(u, r)
  /\ HandoffGates(r)
  /\ Hold(s, r, "handoff_ready", u)

ReadRecordFiling(s, u, r) ==
  /\ RoleOf[u] \in Partners
  /\ FilingGate(r)
  /\ ~Disqualified(u, r)
  /\ Hold(s, r, "record_filing", u)

Committing(s, op) == session[s].op = op /\ session' = [session EXCEPT ![s] = Idle]

CommitFinalize(s) ==
  LET r == session[s].run IN
  /\ Committing(s, "finalize")
  /\ run' = [run EXCEPT ![r].status = "finalized", ![r].finalized = TRUE]
  /\ Bill(r, "finalize")
  /\ UNCHANGED <<status, resolvedBy, pending>>

CommitLock(s) ==
  LET r == session[s].run IN
  /\ Committing(s, "lock")
  /\ run' = [run EXCEPT ![r].status = "locked", ![r].finalized = TRUE,
                        ![r].lockedBy = session[s].by]
  /\ Bill(r, "lock")
  /\ UNCHANGED <<status, resolvedBy, pending>>

CommitHandoffReady(s) ==
  /\ Committing(s, "handoff_ready")
  /\ run' = [run EXCEPT ![session[s].run].readyBy = session[s].by]
  /\ UNCHANGED <<status, resolvedBy, pending, usage>>

CommitRecordFiling(s) ==
  /\ Committing(s, "record_filing")
  /\ run' = [run EXCEPT ![session[s].run].filedBy = session[s].by]
  /\ UNCHANGED <<status, resolvedBy, pending, usage>>

RunHandlerStep ==
  \E s \in Sessions :
    \/ \E r \in Runs : ReadFinalize(s, r)
    \/ \E u \in Users, r \in Runs :
         ReadLock(s, u, r) \/ ReadHandoffReady(s, u, r) \/ ReadRecordFiling(s, u, r)
    \/ CommitFinalize(s) \/ CommitLock(s) \/ CommitHandoffReady(s) \/ CommitRecordFiling(s)

(***************************************************************************)
(* Handlers that decide on the run row alone.                              *)
(***************************************************************************)
\* Wrong on purpose: submit does not ask whether the run is locked.
SubmitLocked(u, r) ==
  /\ RoleOf[u] \in Reviewers /\ Exists(r)
  /\ run' = [run EXCEPT ![r].approval = "pending_partner_review", ![r].submittedBy = u]

Submit(u, r) ==
  /\ RoleOf[u] \in Reviewers /\ Mutable(r)
  /\ run' = [run EXCEPT ![r].approval = "pending_partner_review", ![r].submittedBy = u]

PartnerApprove(u, r) ==
  /\ RoleOf[u] \in Partners /\ Mutable(r)
  /\ MayApprove(u, r)
  /\ ~Disqualified(u, r)
  /\ run' = [run EXCEPT ![r].approval = "approved", ![r].approvedBy = u]

\* Unlock keeps the approval and finalized_at.
Unlock(u, r) ==
  /\ RoleOf[u] \in Partners
  /\ Locked(r) /\ ~Filed(r)
  /\ run' = [run EXCEPT ![r].status = "draft", ![r].lockedBy = Nobody, ![r].readyBy = Nobody]

\* Wrong on purpose: these handlers do not wait for the run row.
RunRowStepUnlocked ==
  /\ Connected
  /\ \E u \in Users, r \in Runs : Submit(u, r) \/ PartnerApprove(u, r) \/ Unlock(u, r)
  /\ UNCHANGED <<reviewVars, pending, usage>>

RunRowStep ==
  /\ Connected
  /\ \E u \in Users, r \in Runs :
       RowFree(r) /\ (Submit(u, r) \/ PartnerApprove(u, r) \/ Unlock(u, r))
  /\ UNCHANGED <<reviewVars, pending, usage>>

(***************************************************************************)
(* The review item handlers.  Only the two resolve endpoints look at the   *)
(* run, which must not be locked; the item routes never do.                *)
(***************************************************************************)
ItemStep ==
  /\ \/ \E s \in Sessions, u \in Users, op \in ItemRoutes, i \in Items : ReadItem(s, u, op, i)
     \/ \E s \in Sessions, u \in Users, r \in Runs, to \in {"resolved", "rejected"} :
          Mutable(r) /\ ReadOpenItems(s, u, r, to)
     \/ \E u \in Users, i \in Items, to \in {"resolved", "rejected"} :
          RunOf[i] # NoRun /\ Mutable(RunOf[i]) /\ ResolveItem(u, i, to)
     \/ \E s \in Sessions : WriteItems(s) \/ Rollback(s)
  /\ UNCHANGED runVars

Next ==
  \/ CreationStep
  \/ CreateTaxPeriod
  \/ ProposalStep
  \/ RunHandlerStep
  \/ RunRowStep
  \/ ItemStep

Spec == Init /\ [][Next]_vars

-----------------------------------------------------------------------------
(* Properties. *)

PartnerOps == {"lock", "handoff_ready", "record_filing"}

FinalizeRequests ==
  [op : {"finalize"}, run : Runs, items : {{}}, by : {Nobody}, arg : {"none"}]
PartnerRequests ==
  [op : PartnerOps, run : Runs, items : {{}}, by : Users, arg : {"none"}]

RunRequests ==
  [op : {"run_fresh", "run_reusing"}, run : {NoRun}, items : {{}}, by : Users, arg : Inputs]
WorkbenchRequests ==
  [op : {"workbench_run"}, run : {NoRun}, items : {{}}, by : Users,
   arg : {"standard", "non_standard"}]

Requests ==
  {Idle} \cup ItemRequests \cup BulkRequests \cup FinalizeRequests \cup PartnerRequests
         \cup RunRequests \cup WorkbenchRequests

RunRows ==
  [status : WorkingStatuses \cup {"absent", "finalized", "locked"},
   workbench : BOOLEAN, nonStandard : BOOLEAN, input : Inputs \cup {NoInput},
   approval : Approvals,
   requestedBy : Users \cup {Nobody}, submittedBy : Users \cup {Nobody},
   approvedBy : Users \cup {Nobody}, lockedBy : Users \cup {Nobody},
   readyBy : Users \cup {Nobody}, filedBy : Users \cup {Nobody},
   finalized : BOOLEAN]

UsageRows == [run : Runs, at : {"finalize", "lock"}]

TypeOK ==
  /\ ItemsTypeOK
  /\ session \in [Sessions -> Requests]
  /\ run \in [Runs -> RunRows]
  /\ pending \in SUBSET Proposals
  /\ usage \in SUBSET UsageRows

\* What a handler checked of the run row is still so when it writes: the row
\* lock (FOR UPDATE in lock, handoff-ready, record-filing and
\* assertRunIsMutable) keeps every other handler from changing it meanwhile.
CheckedRowHolds ==
  \A s \in Sessions : LET r == session[s].run IN
    /\ session[s].op \in {"finalize", "bulk_resolve"} => Mutable(r)
    /\ session[s].op = "lock" => Exists(r) /\ run[r].approval = "approved"
    /\ session[s].op = "handoff_ready" => Locked(r) /\ ~Ready(r)
    /\ session[s].op = "record_filing" => FilingGate(r)
    /\ session[s].op \in PartnerOps => ~Disqualified(session[s].by, r)

\* Segregation of duties (README, rbac.ts): an approval in force was given by a
\* partner or admin who neither requested the run nor submitted it, whatever
\* was submitted, approved, unlocked and submitted again; and no run is locked
\* without such an approval.
SignedOff ==
  \A r \in Runs :
    /\ run[r].approval = "approved" =>
         /\ RoleOf[run[r].approvedBy] \in Partners
         /\ run[r].approvedBy \notin {run[r].submittedBy, run[r].requestedBy}
    /\ Locked(r) => run[r].approval = "approved" /\ run[r].finalized

\* Maker-checker: where the tenant enables it, the run's creator is none of
\* those who approved, locked, handed off or recorded the filing.
MakerIsNotChecker ==
  MakerChecker =>
    \A r \in Runs : Exists(r) =>
      run[r].requestedBy \notin {run[r].approvedBy, run[r].lockedBy, run[r].readyBy, run[r].filedBy}

\* The handoff columns never outlive the lock: a ready run is locked by
\* someone, a filed one is still locked and ready (unlock refuses it).
HandoffChain ==
  \A r \in Runs :
    /\ Locked(r) <=> run[r].lockedBy # Nobody
    /\ Ready(r) => Locked(r) /\ run[r].workbench
    /\ Filed(r) => Ready(r)

\* Billing policy (billRunOnce): a run has one usage row exactly when it has
\* been finalized or locked, however often it was unlocked and locked again.
BilledOnce ==
  \A r \in Runs :
    Cardinality({e \in usage : e.run = r}) = IF run[r].finalized THEN 1 ELSE 0

\* While a run stays locked its sign-off columns do not change; and a filed run
\* is never unlocked, reopened for approval or un-filed.
LockedSignOffFrozen ==
  [][\A r \in Runs :
       /\ Locked(r) /\ Locked(r)' =>
            /\ run'[r].approval = run[r].approval
            /\ run'[r].approvedBy = run[r].approvedBy
            /\ run'[r].submittedBy = run[r].submittedBy
       /\ Filed(r) => Locked(r)' /\ Ready(r)' /\ Filed(r)']_vars

\* deriveLifecycleStage, the working stages as one.
Stage(r) ==
  IF Filed(r) THEN "filed_externally"
  ELSE IF Ready(r) THEN "filing_ready"
  ELSE IF Locked(r) THEN "locked"
  ELSE IF run[r].approval = "approved" THEN "approved"
  ELSE IF Exists(r) THEN "working" ELSE "absent"

Lifecycle == INSTANCE RunLifecycle WITH stage <- [r \in Runs |-> Stage(r)]

\* The code implements the lifecycle: no interleaving of handlers skips a stage.
ImplementsLifecycle == Lifecycle!Spec

=============================================================================
