--------------------------- MODULE FilingHandoff ---------------------------
(***************************************************************************)
(* The handoff of locked runs (apps/api/src/modules/handoff): the evidence *)
(* manifest, its export, and the external filings that record its          *)
(* checksum.  The documents the manifest indexes are those of              *)
(* DocumentStore.  Who may do what is ProvisionRun's subject; here every   *)
(* run has passed its approval and the run row goes through the locks,     *)
(* unlocks and marks ProvisionRun allows.                                  *)
(*                                                                         *)
(* A checksum is its manifest: sha256 is taken to be injective.  A time    *)
(* stamp is the number of the lock it belongs to.  Of the manifest, what   *)
(* never changes once a run is made (its figures, rules and hashes) is     *)
(* left out, as are the name and currency of the entity.                   *)
(***************************************************************************)
EXTENDS DocumentStore

CONSTANTS
  Runs,
  NoRun,
  NoManifest,
  Decisions,  \* what a review item's decision may say: who, when, which note
  OpenItem,
  MaxLocks,   \* bound: how often a run is locked
  MaxFilings, \* bound: filings recorded
  MaxEvents   \* bound: events in the trail of a run after its creation

ASSUME HandoffAssumption ==
  /\ NoRun \notin Runs /\ OpenItem \notin Decisions
  /\ MaxLocks \in Nat /\ MaxFilings \in Nat /\ MaxEvents \in Nat

VARIABLES
  run,      \* provision_runs: status, source document, lock, ready and filed stamps
  item,     \* the one review item of each run: open, or its decision
  trail,    \* provision_events of each run, after its creation: how many of each
  held,     \* the manifest the accountant took away last
  filings,  \* external_filings
  tx        \* a record-filing in flight, between its check and its commit

handoffVars == <<run, item, trail, held, filings, tx>>
vars == <<docs, files, upload, run, item, trail, held, filings, tx>>

\* Events a locked run may still get; the export of a workpaper stands for those
\* of the CT600 and CTO figures and for Xero's journals_pushed too.  The events
\* of locks and unlocks come with the lock stamp.
EventTypes == {"export.workpaper", "export.handoff_package", "run.handoff_ready",
               "run.filed_externally"}

NoTx     == [run |-> NoRun, confirmation |-> NoDoc, checksum |-> NoManifest]
Absent   == [status |-> "absent", source |-> NoDoc, lock |-> 0, ready |-> 0, filed |-> FALSE]
NoEvents == [e \in EventTypes |-> 0]

Exists(r)     == run[r].status # "absent"
Locked(r)     == run[r].status = "locked"
Ready(r)      == run[r].ready # 0
FilingsOf(r)  == {f \in filings : f.run = r}
Nameable      == {NoDoc} \cup {d \in Docs : HasRow(d)}
RowFree(r)    == tx.run # r   \* record-filing holds the run row FOR UPDATE
Exportable(r) == run[r].status \in {"locked", "finalized"}

-----------------------------------------------------------------------------
(* The manifest. *)

\* Wrong on purpose: the trail of the package has the events of its own export.
AuditExcludedNone == {}

AuditExcluded == {"export.handoff_package", "run.handoff_ready", "run.filed_externally"}

\* Only current documents are loaded for the evidence index.
Indexed(d) == IF Current(d) THEN d ELSE NoDoc

\* The stamps of locks are null unless the run is locked.
LockedAt(r) == IF Locked(r) THEN run[r].lock ELSE 0

\* loadPackageInput.  The approvals never show a filing.
PackageInput(r, confirmation) ==
  [run |-> r,
   evidenceIndex |-> [source |-> Indexed(run[r].source), confirmation |-> Indexed(confirmation)],
   approvals |-> [locked |-> LockedAt(r), ready |-> run[r].ready, filed |-> FALSE],
   reviewDecision |-> item[r],
   auditEntries |-> [e \in EventTypes \ AuditExcluded |-> trail[r][e]]]

\* buildHandoffManifest.  The trail and the index are files of the package, whose
\* hashes are its exports; the moment is the lock's.
Manifest(r, confirmation) ==
  LET input == PackageInput(r, confirmation)
  IN  [generatedAt |-> input.approvals.locked, run |-> input.run,
       approvals |-> input.approvals, reviewDecision |-> input.reviewDecision,
       exports |-> [index |-> input.evidenceIndex, trail |-> input.auditEntries]]

-----------------------------------------------------------------------------
(* What the gates and the view make of a run. *)

\* evaluateHandoffGatesDb, which of its codes hold; no proposal is pending, and
\* the CT600 and iXBRL figures are taken to be valid.
Blockers(r) ==
  [run_not_locked     |-> ~Locked(r),
   evidence_required  |-> run[r].source = NoDoc,
   open_review_items  |-> item[r] = OpenItem,
   already_handed_off |-> Ready(r)]

\* deriveLifecycleStage of an approved run.
Stage(r) ==
  CASE run[r].filed -> "filed_externally"
    [] ~run[r].filed /\ Ready(r) -> "filing_ready"
    [] ~run[r].filed /\ ~Ready(r) -> IF Locked(r) THEN "locked" ELSE "approved"

\* GET /runs/:id: what the workbench shows of the handoff.
View(r) ==
  [lifecycle |-> Stage(r), blockers |-> Blockers(r), externalFilings |-> FilingsOf(r),
   lockedAt |-> LockedAt(r), reviewDecision |-> item[r], approvalEvents |-> trail[r]]

-----------------------------------------------------------------------------
(* The run. *)

\* recordProvisionEvent.  An event the manifest leaves out is counted up to the
\* bound; one it has is not recorded beyond the bound.
Record(r, e) ==
  /\ trail[r][e] < MaxEvents \/ e \in AuditExcluded
  /\ trail' = [trail EXCEPT ![r][e] = IF @ < MaxEvents THEN @ + 1 ELSE @]

\* A workbench run names a document, current or not; a legacy run names none.
Create(r, d) ==
  /\ ~Exists(r)
  /\ run' = [run EXCEPT ![r] = [Absent EXCEPT !.status = "open", !.source = d]]
  /\ UNCHANGED <<item, trail, held, filings, tx>>

Finalize(r) ==
  /\ RowFree(r) /\ run[r].status = "open"
  /\ run' = [run EXCEPT ![r].status = "finalized"]
  /\ UNCHANGED <<item, trail, held, filings, tx>>

\* Lock never asks whether the run is locked already.
Lock(r) ==
  /\ RowFree(r) /\ Exists(r) /\ run[r].lock < MaxLocks
  /\ run' = [run EXCEPT ![r].status = "locked", ![r].lock = @ + 1]
  /\ UNCHANGED <<item, trail, held, filings, tx>>

\* Wrong on purpose: unlock does not ask whether the run was filed.
UnlockFiled(r) ==
  /\ RowFree(r) /\ Locked(r)
  /\ run' = [run EXCEPT ![r].status = "open", ![r].ready = 0]
  /\ UNCHANGED <<item, trail, held, filings, tx>>

\* locked_at becomes null; the number of locks goes on.
Unlock(r) ==
  /\ RowFree(r) /\ Locked(r) /\ ~run[r].filed
  /\ run' = [run EXCEPT ![r].status = "open", ![r].ready = 0]
  /\ UNCHANGED <<item, trail, held, filings, tx>>

\* The item routes do not look at the run.
Decide(r, d) ==
  /\ Exists(r) /\ item[r] = OpenItem
  /\ item' = [item EXCEPT ![r] = d]
  /\ UNCHANGED <<run, trail, held, filings, tx>>

Reopen(r) ==
  /\ item[r] # OpenItem
  /\ item' = [item EXCEPT ![r] = OpenItem]
  /\ UNCHANGED <<run, trail, held, filings, tx>>

HandoffReady(r) ==
  /\ RowFree(r) /\ Exists(r)
  /\ \A code \in DOMAIN Blockers(r) : ~Blockers(r)[code]
  /\ run' = [run EXCEPT ![r].ready = run[r].lock]
  /\ Record(r, "run.handoff_ready")
  /\ UNCHANGED <<item, held, filings, tx>>

\* GET /results/:id/export and the like, at any time.
ExportWorkpaper(r) ==
  /\ Exists(r)
  /\ Record(r, "export.workpaper")
  /\ UNCHANGED <<run, item, held, filings, tx>>

\* GET /manifest and /package: the accountant takes the manifest away, or it is
\* somebody else who looks.
ExportPackage(r) ==
  /\ Exportable(r)
  /\ held' \in {held, Manifest(r, NoDoc)}
  /\ Record(r, "export.handoff_package")
  /\ UNCHANGED <<run, item, filings, tx>>

-----------------------------------------------------------------------------
(* Recording a filing. *)

\* Wrong on purpose: the checksum is stored as it was sent.
ReadFilingUnchecked(r, confirmation) ==
  /\ tx = NoTx /\ Cardinality(filings) < MaxFilings /\ Locked(r) /\ Ready(r) /\ held # NoManifest
  /\ tx' = [run |-> r, confirmation |-> confirmation, checksum |-> held]
  /\ UNCHANGED <<run, item, trail, held, filings>>

\* POST /record-filing up to its insert: assertFilingRecordable locks the row and
\* the manifest is made again, with the confirmation, to be compared.
ReadFiling(r, confirmation) ==
  /\ tx = NoTx /\ Cardinality(filings) < MaxFilings /\ Locked(r) /\ Ready(r) /\ held # NoManifest
  /\ Manifest(r, confirmation) = held
  /\ tx' = [run |-> r, confirmation |-> confirmation, checksum |-> held]
  /\ UNCHANGED <<run, item, trail, held, filings>>

\* The insert, the stamps of the run, the event and the commit.
CommitFiling ==
  /\ tx # NoTx
  /\ filings' = filings \cup {tx}
  /\ run' = [run EXCEPT ![tx.run].filed = TRUE]
  /\ Record(tx.run, "run.filed_externally")
  /\ tx' = NoTx
  /\ UNCHANGED <<item, held>>

AbortFiling ==
  /\ tx # NoTx /\ tx' = NoTx
  /\ UNCHANGED <<run, item, trail, held, filings>>

Init ==
  /\ StoreInit
  /\ run = [r \in Runs |-> Absent]
  /\ item = [r \in Runs |-> OpenItem]
  /\ trail = [r \in Runs |-> NoEvents]
  /\ held = NoManifest
  /\ filings = {}
  /\ tx = NoTx

RunStep ==
  \E r \in Runs :
    \/ \E d \in Nameable : Create(r, d) \/ ReadFiling(r, d)
    \/ Finalize(r) \/ Lock(r) \/ Unlock(r)
    \/ \E d \in Decisions : Decide(r, d)
    \/ Reopen(r) \/ HandoffReady(r) \/ ExportWorkpaper(r) \/ ExportPackage(r)

Next ==
  \/ StoreNext /\ UNCHANGED handoffVars
  \/ (RunStep \/ CommitFiling \/ AbortFiling) /\ UNCHANGED storeVars

Spec == Init /\ [][Next]_vars

-----------------------------------------------------------------------------
(* Properties. *)

Approvals == [locked : 0 .. MaxLocks, ready : 0 .. MaxLocks, filed : {FALSE}]
Manifests ==
  [generatedAt : 0 .. MaxLocks, run : Runs, approvals : Approvals,
   reviewDecision : Decisions \cup {OpenItem},
   exports : [index : [source : Docs \cup {NoDoc}, confirmation : Docs \cup {NoDoc}],
              trail : [EventTypes \ AuditExcluded -> 0 .. MaxEvents]]]
Filings ==
  [run : Runs, confirmation : Docs \cup {NoDoc}, checksum : Manifests]

RunRows ==
  [status : {"absent", "open", "finalized", "locked"}, source : Docs \cup {NoDoc},
   lock : 0 .. MaxLocks, ready : 0 .. MaxLocks, filed : BOOLEAN]

TypeOK ==
  /\ StoreTypeOK
  /\ run \in [Runs -> RunRows]
  /\ item \in [Runs -> Decisions \cup {OpenItem}]
  /\ trail \in [Runs -> [EventTypes -> 0 .. MaxEvents]]
  /\ held \in Manifests \cup {NoManifest}
  /\ filings \in SUBSET Filings
  /\ tx \in Filings \cup {NoTx}

\* A filing is evidence about the run it is recorded for, in the handoff it was
\* recorded in: its checksum is of a manifest of that run, with that run's
\* document or none, made after the ready mark the run still carries.  It takes
\* the comparison, the lock on the row and the refusal to unlock a filed run.
\* And what the comparison does to a filing with a confirmation: exports never
\* have one, so the checksums agree only if the confirmation is not indexed,
\* which is when another version has replaced it.  The view is honest about it:
\* a run is shown as filed exactly if it has a filing, which stays so, and as
\* ready for filing only in the lock the mark was made in.
FilingDescribesItsRun ==
  /\ \A f \in filings :
       /\ f.checksum.run = f.run
       /\ f.checksum.exports.index.source \in {NoDoc, run[f.run].source}
       /\ Locked(f.run) /\ Ready(f.run) /\ f.checksum.approvals.ready = run[f.run].ready
       /\ f.confirmation # NoDoc => ~Current(f.confirmation)
  /\ \A r \in Runs :
       LET v == View(r)
       IN  /\ (v.lifecycle = "filed_externally") = (v.externalFilings # {})
           /\ v.lifecycle = "filing_ready" => v.lockedAt # 0

\* The comment of loadPackageInput: looking at a package and recording a filing
\* change no manifest, for the trail of the package leaves their events out and
\* the filing's stamps are pinned as null.
FilingKeepsManifest ==
  [][\A r \in Runs :
       \A e \in {"export.handoff_package", "run.filed_externally"} :
         trail[r][e] # trail'[r][e] => Manifest(r, NoDoc)' = Manifest(r, NoDoc)]_vars
=============================================================================
