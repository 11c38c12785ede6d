------------------------- MODULE ProvisionRunProofs -------------------------
(***************************************************************************)
(* Proofs about ProvisionRun for every set of users, runs, items and       *)
(* sessions.  The inductive invariant is the type invariant together with  *)
(* the row lock (one holder per run), what each holder has checked of the  *)
(* row it holds, and the properties of the rows themselves.  The last part *)
(* is about what handlers read of rows they have not locked: when they     *)
(* write, it has changed only by what RunGates recorded in since.          *)
(***************************************************************************)
EXTENDS RunGates, FiniteSetTheorems, TLAPS

-----------------------------------------------------------------------------
(***************************************************************************)
(* The review items by themselves.  DecisionSigned is not inductive alone: *)
(* a waiver stores the user its handler read before, so the invariant also *)
(* says what each request in flight will write, for whom, and that its     *)
(* items exist.                                                            *)
(***************************************************************************)
\* What one item is, and what the writes of one request in flight will be.
ItemSigned(i) ==
  /\ status[i] \in FinalStatuses => resolvedBy[i] # Nobody
  /\ status[i] = "waived" => RoleOf[resolvedBy[i]] \in Partners
  /\ status[i] \in {"open", "absent"} => resolvedBy[i] = Nobody

RequestSigned(s) ==
  /\ \A i \in session[s].items : status[i] # "absent"
  /\ session[s].op \in ItemRoutes => session[s].arg = Target[session[s].op]
  /\ session[s].op = "waive" => session[s].by \in Users /\ RoleOf[session[s].by] \in Partners
  /\ session[s].op = "reopen" => session[s].by = Nobody

ReviewInv ==
  /\ ReviewTypeOK
  /\ \A i \in Items : ItemSigned(i)
  /\ \A s \in Sessions : RequestSigned(s)

-----------------------------------------------------------------------------
\* At first there is no item and no request.
LEMMA InitReviewInv == ReviewInit => ReviewInv
<1> SUFFICES ASSUME ReviewInit PROVE ReviewInv
  OBVIOUS
<1>1. ReviewTypeOK
  BY DEF ReviewInit, ReviewTypeOK, ItemsTypeOK
<1>2. \A i \in Items : ItemSigned(i)
  BY DEF ReviewInit, ItemSigned, FinalStatuses
<1>3. \A s \in Sessions : RequestSigned(s)
  BY DEF ReviewInit, RequestSigned, Idle, ItemRoutes
<1> QED
  BY <1>1, <1>2, <1>3 DEF ReviewInv

\* A request stays signed as long as no item disappears.
LEMMA RequestKept ==
  ASSUME ReviewInv, NEW s \in Sessions, session'[s] = session[s],
         \A i \in Items : status[i] # "absent" => status'[i] # "absent"
  PROVE  RequestSigned(s)'
<1>1. session[s].items \in SUBSET Items /\ RequestSigned(s)
  BY DEF ReviewInv, ReviewTypeOK, Idle, ItemRequests, BulkRequests
<1> QED
  BY <1>1 DEF RequestSigned

\* An idle connection will write nothing.
LEMMA IdleSigned ==
  ASSUME NEW s \in Sessions, session'[s] = Idle
  PROVE  RequestSigned(s)'
BY DEF RequestSigned, Idle, ItemRoutes

\* The insert of new items.
LEMMA OpenItemsOK ==
  ASSUME ReviewInv, NEW new \in SUBSET Items, OpenItems(new)
  PROVE  ReviewInv'
<1>1. ReviewTypeOK'
  BY DEF ReviewInv, ReviewTypeOK, ItemsTypeOK, OpenItems, InsertItems, Statuses, OpenStatuses
<1>2. \A i \in Items : ItemSigned(i)'
  BY DEF ReviewInv, OpenItems, InsertItems, ItemSigned, FinalStatuses
<1>3. \A s \in Sessions : RequestSigned(s)'
  BY RequestKept DEF OpenItems, InsertItems
<1> QED
  BY <1>1, <1>2, <1>3 DEF ReviewInv

\* A read leaves a signed request in its session and touches no item.
LEMMA RequestMade ==
  ASSUME ReviewInv, NEW s \in Sessions, NEW req \in ItemRequests \cup BulkRequests \cup {Idle},
         session' = [session EXCEPT ![s] = req], UNCHANGED <<status, resolvedBy>>,
         \A i \in req.items : status[i] # "absent",
         req.op \in ItemRoutes => req.arg = Target[req.op],
         req.op = "waive" => req.by \in Users /\ RoleOf[req.by] \in Partners,
         req.op = "reopen" => req.by = Nobody
  PROVE  ReviewInv'
<1>1. session \in [Sessions -> {Idle} \cup ItemRequests \cup BulkRequests]
  BY DEF ReviewInv, ReviewTypeOK
<1>2. ReviewTypeOK'
  BY <1>1 DEF ReviewInv, ReviewTypeOK, ItemsTypeOK
<1>3. \A i \in Items : ItemSigned(i)'
  BY DEF ReviewInv, ItemSigned
<1>4. ASSUME NEW t \in Sessions PROVE RequestSigned(t)'
  <2>1. CASE t = s
    BY <1>1, <2>1 DEF RequestSigned
  <2>2. CASE t # s
    BY <1>1, <2>2, RequestKept
  <2> QED
    BY <2>1, <2>2
<1> QED
  BY <1>2, <1>3, <1>4 DEF ReviewInv

\* The commit of a request: signed items, and an idle connection.
LEMMA WriteItemsOK ==
  ASSUME ReviewInv, NEW s \in Sessions, WriteItems(s)
  PROVE  ReviewInv'
<1> DEFINE req == session[s]
<1>1. /\ session \in [Sessions -> {Idle} \cup ItemRequests \cup BulkRequests]
      /\ status \in [Items -> Statuses \cup {"absent"}]
      /\ resolvedBy \in [Items -> Users \cup {Nobody}]
      /\ RequestSigned(s)
  BY DEF ReviewInv, ReviewTypeOK, ItemsTypeOK
<1>2. /\ req.op \in ItemRoutes \cup {"bulk_resolve"} /\ req.arg \in Statuses
      /\ req.by \in Users \cup {Nobody} /\ req.items \in SUBSET Items
      /\ req.op = "bulk_resolve" => req.by \in Users /\ req.arg \in {"resolved", "rejected"}
  BY <1>1 DEF WriteItems, Idle, ItemRequests, BulkRequests, ItemRoutes, Statuses, FinalStatuses
<1>3. ReviewTypeOK'
  BY <1>1, <1>2 DEF WriteItems, ReviewTypeOK, ItemsTypeOK
<1>4. ASSUME NEW i \in Items PROVE ItemSigned(i)'
  <2>1. ItemSigned(i)
    BY DEF ReviewInv
  <2>2. CASE i \notin req.items
    <3>1. status'[i] = status[i] /\ resolvedBy'[i] = resolvedBy[i]
      BY <1>1, <2>2 DEF WriteItems
    <3> QED
      BY <2>1, <3>1 DEF ItemSigned
  <2>3. CASE i \in req.items /\ req.op \in SigningOps
    <3>1. status'[i] = req.arg /\ resolvedBy'[i] = req.by
      BY <1>1, <2>3 DEF WriteItems
    <3> QED
      BY <1>1, <1>2, <2>3, <3>1, UsersAssumption
      DEF ItemSigned, RequestSigned, SigningOps, ItemRoutes, Target, FinalStatuses, Partners
  <2>4. CASE i \in req.items /\ req.op \notin SigningOps
    <3>1. status'[i] = req.arg /\ req.op \in ItemRoutes
      BY <1>1, <1>2, <2>4 DEF WriteItems, SigningOps
    <3> QED
      BY <1>1, <2>4, <3>1 DEF ItemSigned, RequestSigned, SigningOps, ItemRoutes, Target, FinalStatuses
  <2> QED
    BY <2>2, <2>3, <2>4
<1>5. \A i \in Items : status[i] # "absent" => status'[i] # "absent"
  BY <1>1, <1>2 DEF WriteItems, Statuses, OpenStatuses, FinalStatuses
<1>6. ASSUME NEW t \in Sessions PROVE RequestSigned(t)'
  <2>1. CASE t = s
    BY <1>1, <2>1, IdleSigned DEF WriteItems
  <2>2. CASE t # s
    BY <1>1, <1>5, <2>2, RequestKept DEF WriteItems
  <2> QED
    BY <2>1, <2>2
<1> QED
  BY <1>3, <1>4, <1>6 DEF ReviewInv

\* The resolve endpoint signs whatever the item was.
LEMMA ResolveItemOK ==
  ASSUME ReviewInv, NEW u \in Users, NEW i \in Items, NEW to \in {"resolved", "rejected"},
         ResolveItem(u, i, to)
  PROVE  ReviewInv'
<1>1. ReviewTypeOK'
  BY DEF ReviewInv, ReviewTypeOK, ItemsTypeOK, ResolveItem, Statuses, FinalStatuses
<1>2. \A j \in Items : ItemSigned(j)'
  BY UsersAssumption DEF ReviewInv, ReviewTypeOK, ItemsTypeOK, ResolveItem, ItemSigned
<1>3. \A j \in Items : status[j] # "absent" => status'[j] # "absent"
  BY DEF ReviewInv, ReviewTypeOK, ItemsTypeOK, ResolveItem
<1>4. \A s \in Sessions : RequestSigned(s)'
  BY <1>3, RequestKept DEF ResolveItem
<1> QED
  BY <1>1, <1>2, <1>4 DEF ReviewInv

\* Every step keeps the invariant.
LEMMA NextReviewInv == ReviewInv /\ [ReviewNext]_reviewVars => ReviewInv'
<1> SUFFICES ASSUME ReviewInv, [ReviewNext]_reviewVars PROVE ReviewInv'
  OBVIOUS
<1>1. ASSUME NEW s \in Sessions, NEW u \in Users, NEW op \in ItemRoutes, NEW i \in Items,
             ReadItem(s, u, op, i)
      PROVE  ReviewInv'
  <2> DEFINE req == [op |-> op, run |-> NoRun, items |-> {i}, arg |-> Target[op],
                     by |-> IF op = "waive" THEN u ELSE Nobody]
  <2>1. Target[op] \in Statuses
    BY DEF ItemRoutes, Target, Statuses, OpenStatuses, FinalStatuses
  <2>2. req \in ItemRequests
    BY <2>1 DEF ItemRequests
  <2>3. op = "waive" => RoleOf[u] \in Partners
    BY <1>1 DEF ReadItem, Callers
  <2>4. /\ \A j \in req.items : status[j] # "absent"
        /\ req.op \in ItemRoutes => req.arg = Target[req.op]
        /\ req.op = "waive" => req.by \in Users /\ RoleOf[req.by] \in Partners
        /\ req.op = "reopen" => req.by = Nobody
    BY <1>1, <2>3 DEF ReadItem
  <2>5. session' = [session EXCEPT ![s] = req] /\ UNCHANGED <<status, resolvedBy>>
    BY <1>1 DEF ReadItem
  <2> HIDE DEF req
  <2> QED
    BY <2>2, <2>4, <2>5, RequestMade
<1>2. ASSUME NEW s \in Sessions, NEW u \in Users, NEW r \in Runs, NEW to \in {"resolved", "rejected"},
             ReadOpenItems(s, u, r, to)
      PROVE  ReviewInv'
  <2> DEFINE req == [op |-> "bulk_resolve", run |-> r, by |-> u, arg |-> to,
                     items |-> {i \in ItemsOf(r) : status[i] = "open"}]
  <2>1. req \in BulkRequests
    BY DEF BulkRequests, ItemsOf
  <2>2. req.op \notin ItemRoutes /\ \A i \in req.items : status[i] # "absent"
    BY DEF ItemRoutes
  <2>3. session' = [session EXCEPT ![s] = req] /\ UNCHANGED <<status, resolvedBy>>
    BY <1>2 DEF ReadOpenItems
  <2> HIDE DEF req
  <2> QED
    BY <2>1, <2>2, <2>3, RequestMade DEF ItemRoutes
<1>3. ASSUME NEW s \in Sessions, Rollback(s) PROVE ReviewInv'
  <2>1. Idle.items = {} /\ Idle.op \notin ItemRoutes
    BY DEF Idle, ItemRoutes
  <2> QED
    BY <1>3, <2>1, RequestMade DEF Rollback, ItemRoutes
<1>4. CASE UNCHANGED reviewVars
  <2>1. ReviewTypeOK' /\ \A i \in Items : ItemSigned(i)'
    BY <1>4 DEF ReviewInv, reviewVars, ReviewTypeOK, ItemsTypeOK, ItemSigned
  <2>2. \A s \in Sessions : RequestSigned(s)'
    BY <1>4, RequestKept DEF reviewVars
  <2> QED
    BY <2>1, <2>2 DEF ReviewInv
<1>5. ASSUME NEW i \in Items, OpenItems({i}) PROVE ReviewInv'
  BY <1>5, OpenItemsOK
<1> QED
  BY <1>1, <1>2, <1>3, <1>4, <1>5, WriteItemsOK, ResolveItemOK DEF ReviewNext

\* The inductive invariant holds in every behaviour of the review handlers.
THEOREM ReviewInvariance == ReviewSpec => []ReviewInv
BY InitReviewInv, NextReviewInv, PTL DEF ReviewSpec

\* The item columns and the requests in flight keep their shape.
THEOREM ReviewTypeCorrect == ReviewSpec => []ReviewTypeOK
<1>1. ReviewInv => ReviewTypeOK
  BY DEF ReviewInv
<1> QED
  BY <1>1, ReviewInvariance, PTL

\* A closed item names who closed it, a waived one names a partner or an admin
\* (the waive route's requireRole), an open one names nobody, however the
\* handlers that decided on a stale read interleave.
THEOREM DecisionsSigned == ReviewSpec => []DecisionSigned
<1>1. ReviewInv => DecisionSigned
  BY DEF ReviewInv, ItemSigned, DecisionSigned
<1> QED
  BY <1>1, ReviewInvariance, PTL

-----------------------------------------------------------------------------
(* The run rows. *)

\* What one handler in flight has checked of the run row it holds.
Checked(s) ==
  LET r == session[s].run IN
    /\ session[s].op \in {"finalize", "bulk_resolve"} => Mutable(r)
    /\ session[s].op = "lock" => Exists(r) /\ run[r].approval = "approved"
    /\ session[s].op = "handoff_ready" => Locked(r) /\ ~Ready(r) /\ run[r].workbench
    /\ session[s].op = "record_filing" => FilingGate(r)
    /\ session[s].op \in PartnerOps => ~Disqualified(session[s].by, r)

\* What is so of one run row.
RowOK(r) ==
  /\ Exists(r) <=> run[r].requestedBy # Nobody
  /\ ~Exists(r) => run[r].approval # "approved"
  /\ run[r].approval = "approved" =>
       /\ RoleOf[run[r].approvedBy] \in Partners
       /\ run[r].approvedBy \notin {run[r].submittedBy, run[r].requestedBy}
  /\ Locked(r) => run[r].approval = "approved" /\ run[r].finalized
  /\ MakerChecker /\ Exists(r) =>
       run[r].requestedBy \notin {run[r].approvedBy, run[r].lockedBy, run[r].readyBy, run[r].filedBy}
  /\ Locked(r) <=> run[r].lockedBy # Nobody
  /\ Ready(r) => Locked(r) /\ run[r].workbench
  /\ Filed(r) => Ready(r)

\* What a connection does without holding a run row.
FreeOps == ItemRoutes \cup {"idle", "run_fresh", "run_reusing", "workbench_run"}

IInv ==
  /\ TypeOK
  /\ RowLockExclusive
  /\ \A s \in Sessions : Checked(s)
  /\ \A r \in Runs : RowOK(r)

-----------------------------------------------------------------------------
(* The invariant gives the properties the runs check. *)

\* The invariant gives the safety properties the runs check.
LEMMA IInvGives ==
  ASSUME IInv
  PROVE  /\ TypeOK /\ RowLockExclusive /\ CheckedRowHolds
         /\ SignedOff /\ HandoffChain /\ MakerIsNotChecker
<1>1. CheckedRowHolds
  BY DEF IInv, Checked, CheckedRowHolds
<1>2. SignedOff /\ HandoffChain /\ MakerIsNotChecker
  BY DEF IInv, RowOK, SignedOff, HandoffChain, MakerIsNotChecker
<1> QED
  BY <1>1, <1>2 DEF IInv

\* Whoever holds a row holds the row of a run that exists.
LEMMA HeldRowExists ==
  ASSUME IInv, NEW s \in Sessions, NEW r \in Runs, HoldsRow(s, r)
  PROVE  Exists(r)
<1>1. session[s] \in Requests /\ session[s].run = r
  BY DEF IInv, TypeOK, HoldsRow
<1>2. session[s].op \in {"finalize", "bulk_resolve"} \cup PartnerOps
  BY <1>1, ItemsAssumption
  DEF Requests, Idle, ItemRequests, BulkRequests, FinalizeRequests, PartnerRequests,
      RunRequests, WorkbenchRequests
<1> QED
  BY <1>1, <1>2 DEF IInv, Checked, Mutable, Exists, Locked, FilingGate, PartnerOps

\* No run, no request: the invariant holds at first.
LEMMA InitIInv == Init => IInv
<1> SUFFICES ASSUME Init PROVE IInv
  OBVIOUS
<1> USE DEF Init, ReviewInit
<1>1. NoRow \in RunRows
  BY DEF NoRow, RunRows, Approvals
<1>2. TypeOK
  BY <1>1 DEF TypeOK, ItemsTypeOK, Requests
<1>3. RowLockExclusive
  BY DEF RowLockExclusive, Idle
<1>4. \A s \in Sessions : Checked(s)
  BY DEF Checked, Idle, PartnerOps
<1>5. \A r \in Runs : RowOK(r)
  BY DEF RowOK, NoRow, Exists, Locked, Ready, Filed
<1> QED
  BY <1>2, <1>3, <1>4, <1>5 DEF IInv

-----------------------------------------------------------------------------
(* Two ways a step may disturb the lock discipline. *)

Discipline == RowLockExclusive /\ (\A s \in Sessions : Checked(s)) /\ (\A r \in Runs : RowOK(r))

\* A step writes one row that nobody holds once it is done, and starts nothing.
LEMMA RowWritten ==
  ASSUME IInv, NEW r \in Runs,
         \A q \in Runs : q # r => run'[q] = run[q],
         \A s \in Sessions : session'[s] \in {session[s], Idle} /\ session'[s].run # r,
         RowOK(r)'
  PROVE  Discipline'
<1>1. RowLockExclusive'
  BY DEF IInv, RowLockExclusive, Idle
<1>2. ASSUME NEW s \in Sessions PROVE Checked(s)'
  <2>1. CASE session'[s] = Idle
    BY <2>1 DEF Checked, Idle, PartnerOps
  <2>2. CASE session'[s] = session[s]
    <3>1. Checked(s) /\ session[s] \in Requests
      BY DEF IInv, TypeOK
    <3>2. session[s].run \in Runs \/ session[s].op \in FreeOps
      BY <3>1 DEF Requests, Idle, ItemRequests, BulkRequests, FinalizeRequests, PartnerRequests,
                  RunRequests, WorkbenchRequests, FreeOps
    <3>3. CASE session[s].run \in Runs
      <4>1. run'[session[s].run] = run[session[s].run]
        BY <2>2, <3>3
      <4> QED
        BY <2>2, <3>1, <4>1 DEF Checked, Mutable, Exists, Locked, Ready, FilingGate, Disqualified
    <3>4. CASE session[s].op \in FreeOps
      BY <2>2, <3>4 DEF Checked, FreeOps, ItemRoutes, PartnerOps
    <3> QED
      BY <3>2, <3>3, <3>4
  <2> QED
    BY <2>1, <2>2
<1>3. ASSUME NEW q \in Runs PROVE RowOK(q)'
  <2>1. CASE q = r
    BY <2>1
  <2>2. CASE q # r
    <3>1. RowOK(q) /\ run'[q] = run[q]
      BY <2>2 DEF IInv
    <3> QED
      BY <3>1 DEF RowOK, Exists, Locked, Ready, Filed
  <2> QED
    BY <2>1, <2>2
<1> QED
  BY <1>1, <1>2, <1>3 DEF Discipline

\* A step leaves the rows alone and puts one session in a new state.
LEMMA SessionMoved ==
  ASSUME IInv, UNCHANGED run, NEW s \in Sessions, NEW req \in Requests,
         session' = [session EXCEPT ![s] = req],
         req.run = NoRun \/ RowFree(req.run),
         Checked(s)'
  PROVE  Discipline'
<1>0. session \in [Sessions -> Requests]
  BY DEF IInv, TypeOK
<1>1. RowLockExclusive'
  BY <1>0 DEF IInv, RowLockExclusive, RowFree, HoldsRow
<1>2. ASSUME NEW t \in Sessions PROVE Checked(t)'
  <2>1. CASE t = s
    BY <2>1
  <2>2. CASE t # s
    <3>1. Checked(t) /\ session'[t] = session[t]
      BY <1>0, <2>2 DEF IInv
    <3> QED
      BY <3>1 DEF Checked, Mutable, Exists, Locked, Ready, FilingGate, Disqualified
  <2> QED
    BY <2>1, <2>2
<1>3. ASSUME NEW q \in Runs PROVE RowOK(q)'
  BY DEF IInv, RowOK, Exists, Locked, Ready, Filed
<1> QED
  BY <1>1, <1>2, <1>3 DEF Discipline

\* A step that touches neither the rows nor the sessions.
LEMMA Untouched ==
  ASSUME IInv, UNCHANGED <<run, session>>
  PROVE  Discipline'
<1>1. RowLockExclusive'
  BY DEF IInv, RowLockExclusive
<1>2. ASSUME NEW s \in Sessions PROVE Checked(s)'
  BY DEF IInv, Checked, Mutable, Exists, Locked, Ready, FilingGate, Disqualified
<1>3. ASSUME NEW r \in Runs PROVE RowOK(r)'
  BY DEF IInv, RowOK, Exists, Locked, Ready, Filed
<1> QED
  BY <1>1, <1>2, <1>3 DEF Discipline

-----------------------------------------------------------------------------
(* Every step preserves the invariant, action by action. *)

\* RowFree, as the other lemmas use it.
LEMMA NobodyHolds ==
  ASSUME IInv, NEW r \in Runs, RowFree(r)
  PROVE  \A s \in Sessions : session[s].run # r
BY DEF RowFree, HoldsRow

\* Inserting review items keeps their columns in shape.
LEMMA ItemsInserted ==
  ASSUME IInv, NEW new \in SUBSET Items, InsertItems(new)
  PROVE  ItemsTypeOK'
BY DEF IInv, TypeOK, ItemsTypeOK, InsertItems, Statuses, OpenStatuses

\* A calculation begins: a request that holds no row.
LEMMA CalculationRead ==
  ASSUME IInv, NEW s \in Sessions, NEW u \in Users, NEW op, NEW arg,
         Calculate(s, u, op, arg),
         \/ op \in {"run_fresh", "run_reusing"} /\ arg \in Inputs
         \/ op = "workbench_run" /\ arg \in {"standard", "non_standard"}
  PROVE  IInv'
<1> DEFINE req == [op |-> op, run |-> NoRun, items |-> {}, by |-> u, arg |-> arg]
<1>1. session' = [session EXCEPT ![s] = req] /\ UNCHANGED <<status, resolvedBy, run, pending, usage>>
  BY DEF Calculate, runVars
<1>2. req \in Requests
  BY DEF Requests, RunRequests, WorkbenchRequests
<1>3. req.op \in FreeOps /\ req.run = NoRun
  BY DEF FreeOps
<1> HIDE DEF req
<1>4. session \in [Sessions -> Requests]
  BY DEF IInv, TypeOK
<1>5. TypeOK'
  BY <1>1, <1>2, <1>4 DEF IInv, TypeOK, ItemsTypeOK
<1>6. Checked(s)'
  BY <1>1, <1>3, <1>4 DEF Checked, FreeOps, ItemRoutes, PartnerOps
<1>7. Discipline'
  BY <1>1, <1>2, <1>3, <1>6, SessionMoved
<1> QED
  BY <1>5, <1>7 DEF IInv, Discipline

\* What the two kinds of calculation insert.
InsertedRow(row, u) ==
  /\ row \in RunRows
  /\ row.status \in WorkingStatuses /\ row.approval # "approved" /\ row.requestedBy = u
  /\ row.approvedBy = Nobody /\ row.lockedBy = Nobody
  /\ row.readyBy = Nobody /\ row.filedBy = Nobody /\ row.finalized = FALSE

\* The commit of a calculation, of either kind, inserts its run and items and
\* leaves the charges as they were.
LEMMA CalculationCommits ==
  ASSUME IInv, NEW s \in Sessions, NEW r \in Runs, NEW new \in SUBSET ItemsOf(r),
         CommitRun(s, r, new) \/ CommitWorkbenchRun(s, r, new)
  PROVE  /\ session[s].by \in Users /\ session' = [session EXCEPT ![s] = Idle]
         /\ ~Exists(r) /\ InsertItems(new) /\ UNCHANGED <<pending, usage>>
         /\ \E row : InsertedRow(row, session[s].by) /\ run' = [run EXCEPT ![r] = row]
<1>1. session[s] \in Requests
  BY DEF IInv, TypeOK
<1>2. CASE CommitRun(s, r, new)
  <2>1. session[s].by \in Users /\ session[s].arg \in Inputs
    BY <1>1, <1>2 DEF CommitRun, Requests, Idle, ItemRequests, BulkRequests, FinalizeRequests,
                      PartnerRequests, RunRequests, WorkbenchRequests, PartnerOps, ItemRoutes
  <2> DEFINE counted == {i \in new : KindOf[i] \in MappingKinds}
             base == [NoRow EXCEPT
                       !.status = IF counted # {} THEN "needs_review" ELSE "workpapers_generated",
                       !.approval = IF new # {} THEN "pending" ELSE "not_required",
                       !.input = session[s].arg]
             row == [base EXCEPT !.requestedBy = session[s].by]
  <2>2. InsertRun(s, r, new, base)
    BY <1>2 DEF CommitRun
  <2>3. InsertedRow(row, session[s].by)
    BY <2>1 DEF InsertedRow, NoRow, RunRows, WorkingStatuses, Approvals
  <2> HIDE DEF base
  <2> QED
    BY <2>1, <2>2, <2>3 DEF InsertRun
<1>3. CASE CommitWorkbenchRun(s, r, new)
  <2>1. session[s].by \in Users
    BY <1>1, <1>3 DEF CommitWorkbenchRun, Requests, Idle, ItemRequests, BulkRequests,
                      FinalizeRequests, PartnerRequests, RunRequests, WorkbenchRequests,
                      PartnerOps, ItemRoutes
  <2> DEFINE base == [NoRow EXCEPT
                       !.status = IF new # {} THEN "needs_review" ELSE "calculated",
                       !.approval = IF new # {} THEN "pending" ELSE "not_required",
                       !.workbench = TRUE, !.nonStandard = (session[s].arg = "non_standard")]
             row == [base EXCEPT !.requestedBy = session[s].by]
  <2>2. InsertRun(s, r, new, base)
    BY <1>3 DEF CommitWorkbenchRun
  <2>3. InsertedRow(row, session[s].by)
    BY <2>1 DEF InsertedRow, NoRow, RunRows, WorkingStatuses, Approvals
  <2> HIDE DEF base
  <2> QED
    BY <2>1, <2>2, <2>3 DEF InsertRun
<1> QED
  BY <1>2, <1>3

\* A new row is inserted for a run that did not exist, which nobody can hold.
LEMMA CalculationCommitted ==
  ASSUME IInv, NEW s \in Sessions, NEW r \in Runs, NEW new \in SUBSET ItemsOf(r),
         CommitRun(s, r, new) \/ CommitWorkbenchRun(s, r, new)
  PROVE  IInv'
<1>1. /\ session[s].by \in Users /\ session' = [session EXCEPT ![s] = Idle]
      /\ ~Exists(r) /\ InsertItems(new) /\ UNCHANGED <<pending, usage>>
      /\ \E row : InsertedRow(row, session[s].by) /\ run' = [run EXCEPT ![r] = row]
  BY CalculationCommits
<1> PICK row : InsertedRow(row, session[s].by) /\ run' = [run EXCEPT ![r] = row]
  BY <1>1
<1>2. run \in [Runs -> RunRows] /\ session \in [Sessions -> Requests] /\ Idle \in Requests
  BY DEF IInv, TypeOK, Requests
<1>3. ItemsTypeOK'
  BY <1>1, ItemsInserted DEF ItemsOf
<1>4. TypeOK'
  BY <1>1, <1>2, <1>3 DEF IInv, TypeOK, InsertedRow
<1>5. \A t \in Sessions : session[t].run # r
  BY <1>1, HeldRowExists DEF HoldsRow
<1>6. \A t \in Sessions : session'[t] \in {session[t], Idle} /\ session'[t].run # r
  BY <1>1, <1>2, <1>5, ItemsAssumption DEF Idle
<1>7. run'[r] = row /\ \A q \in Runs : q # r => run'[q] = run[q]
  BY <1>2
<1>8. RowOK(r)'
  BY <1>1, <1>7, UsersAssumption
  DEF InsertedRow, RowOK, Exists, Locked, Ready, Filed, WorkingStatuses
<1>9. Discipline'
  BY <1>6, <1>7, <1>8, RowWritten
<1> QED
  BY <1>4, <1>9 DEF IInv, Discipline

\* POST /provision/run and POST /workbench/runs.
LEMMA CreationStepOK == IInv /\ CreationStep => IInv'
<1> SUFFICES ASSUME IInv, NEW s \in Sessions,
                    \/ \E u \in Users, in \in Inputs : ReadRun(s, u, in)
                    \/ \E u \in Users, duration \in {"standard", "non_standard"} :
                         ReadWorkbenchRun(s, u, duration)
                    \/ \E r \in Runs : \E new \in SUBSET ItemsOf(r) :
                         CommitRun(s, r, new) \/ CommitWorkbenchRun(s, r, new)
             PROVE  IInv'
  BY DEF CreationStep
<1>1. ASSUME NEW u \in Users, NEW in \in Inputs, ReadRun(s, u, in) PROVE IInv'
  BY <1>1, CalculationRead DEF ReadRun
<1>2. ASSUME NEW u \in Users, NEW duration \in {"standard", "non_standard"},
             ReadWorkbenchRun(s, u, duration)
      PROVE  IInv'
  BY <1>2, CalculationRead DEF ReadWorkbenchRun
<1> QED
  BY <1>1, <1>2, CalculationCommitted

\* Tax periods and mapping proposals.
LEMMA EntityStep == IInv /\ (CreateTaxPeriod \/ ProposalStep) => IInv'
<1> SUFFICES ASSUME IInv, CreateTaxPeriod \/ ProposalStep PROVE IInv'
  OBVIOUS
<1>1. CASE CreateTaxPeriod
  <2> PICK i \in Items : OpenItems({i})
    BY <1>1 DEF CreateTaxPeriod
  <2>1. ItemsTypeOK' /\ UNCHANGED <<session, run, pending, usage>>
    BY <1>1, ItemsInserted DEF CreateTaxPeriod, OpenItems, runVars
  <2>2. TypeOK'
    BY <2>1 DEF IInv, TypeOK
  <2> QED
    BY <2>1, <2>2, Untouched DEF IInv, Discipline
<1>2. CASE ProposalStep
  <2>1. UNCHANGED <<status, resolvedBy, session, run, usage>>
    BY <1>2 DEF ProposalStep, reviewVars
  <2>2. pending' \in SUBSET Proposals
    BY <1>2 DEF IInv, TypeOK, ProposalStep, Propose, Decide
  <2>3. TypeOK'
    BY <2>1, <2>2 DEF IInv, TypeOK, ItemsTypeOK
  <2> QED
    BY <2>1, <2>3, Untouched DEF IInv, Discipline
<1> QED
  BY <1>1, <1>2

\* A handler that takes the run row and has checked it.
LEMMA RowTaken ==
  ASSUME IInv, NEW s \in Sessions, NEW r \in Runs, NEW op, NEW by,
         Hold(s, r, op, by),
         \/ op = "finalize" /\ by = Nobody /\ Mutable(r)
         \/ /\ op \in PartnerOps /\ by \in Users /\ ~Disqualified(by, r)
            /\ op = "lock" => Exists(r) /\ run[r].approval = "approved"
            /\ op = "handoff_ready" => Locked(r) /\ ~Ready(r) /\ run[r].workbench
            /\ op = "record_filing" => FilingGate(r)
  PROVE  IInv'
<1> DEFINE req == [op |-> op, run |-> r, items |-> {}, by |-> by, arg |-> "none"]
<1>1. /\ session' = [session EXCEPT ![s] = req] /\ RowFree(r)
      /\ UNCHANGED <<status, resolvedBy, run, pending, usage>>
  BY DEF Hold, runVars
<1>2. req \in Requests
  BY DEF Requests, FinalizeRequests, PartnerRequests, RunRequests, WorkbenchRequests
<1>3. req.op = op /\ req.run = r /\ req.by = by
  OBVIOUS
<1> HIDE DEF req
<1>4. session \in [Sessions -> Requests]
  BY DEF IInv, TypeOK
<1>5. TypeOK'
  BY <1>1, <1>2, <1>4 DEF IInv, TypeOK, ItemsTypeOK
<1>6. session'[s] = req /\ run' = run
  BY <1>1, <1>4
<1>7. Checked(s)'
  BY <1>3, <1>6 DEF Checked, Mutable, Exists, Locked, Ready, FilingGate, Disqualified, PartnerOps
<1>8. Discipline'
  BY <1>1, <1>2, <1>3, <1>7, SessionMoved
<1> QED
  BY <1>5, <1>8 DEF IInv, Discipline

\* A handler writes the row it holds and lets it go.
LEMMA RowReleased ==
  ASSUME IInv, NEW s \in Sessions, NEW r \in Runs, session[s].run = r,
         session' = [session EXCEPT ![s] = Idle],
         run' \in [Runs -> RunRows],
         \A q \in Runs : q # r => run'[q] = run[q],
         RowOK(r)',
         UNCHANGED <<status, resolvedBy, pending>>, usage' \in SUBSET UsageRows
  PROVE  IInv'
<1>1. session \in [Sessions -> Requests] /\ Idle \in Requests
  BY DEF IInv, TypeOK, Requests
<1>2. TypeOK'
  BY <1>1 DEF IInv, TypeOK, ItemsTypeOK
<1>3. \A t \in Sessions : session'[t] \in {session[t], Idle} /\ session'[t].run # r
  BY <1>1, ItemsAssumption DEF IInv, RowLockExclusive, Idle
<1>4. Discipline'
  BY <1>3, RowWritten
<1> QED
  BY <1>2, <1>4 DEF IInv, Discipline

\* A usage row is a run and a milestone.
LEMMA Billed ==
  ASSUME IInv, NEW r \in Runs, NEW milestone \in {"finalize", "lock"}, Bill(r, milestone)
  PROVE  usage' \in SUBSET UsageRows
BY DEF IInv, TypeOK, Bill, UsageRows

\* finalize, lock, handoff-ready and record-filing, their checks and their commits.
LEMMA RunHandlerStepOK == IInv /\ RunHandlerStep => IInv'
<1> SUFFICES ASSUME IInv, NEW s \in Sessions,
                    \/ \E r \in Runs : ReadFinalize(s, r)
                    \/ \E u \in Users, r \in Runs :
                         ReadLock(s, u, r) \/ ReadHandoffReady(s, u, r) \/ ReadRecordFiling(s, u, r)
                    \/ CommitFinalize(s) \/ CommitLock(s)
                    \/ CommitHandoffReady(s) \/ CommitRecordFiling(s)
             PROVE  IInv'
  BY DEF RunHandlerStep
<1>1. ASSUME NEW q \in Runs, ReadFinalize(s, q) PROVE IInv'
  BY <1>1, RowTaken DEF ReadFinalize
<1>2. ASSUME NEW u \in Users, NEW q \in Runs, ReadLock(s, u, q) PROVE IInv'
  BY <1>2, RowTaken DEF ReadLock, PartnerOps
<1>3. ASSUME NEW u \in Users, NEW q \in Runs, ReadHandoffReady(s, u, q) PROVE IInv'
  BY <1>3, RowTaken DEF ReadHandoffReady, HandoffGates, PartnerOps
<1>4. ASSUME NEW u \in Users, NEW q \in Runs, ReadRecordFiling(s, u, q) PROVE IInv'
  BY <1>4, RowTaken DEF ReadRecordFiling, PartnerOps
<1>5. session \in [Sessions -> Requests] /\ run \in [Runs -> RunRows]
  BY DEF IInv, TypeOK
<1>6. Checked(s) /\ \A q \in Runs : RowOK(q)
  BY DEF IInv
<1>7. ASSUME session[s].op \in {"finalize"} \cup PartnerOps
      PROVE  /\ session[s].run \in Runs
             /\ session[s].op \in PartnerOps => session[s].by \in Users
  BY <1>5, <1>7 DEF Requests, Idle, ItemRequests, BulkRequests, FinalizeRequests, PartnerRequests,
                    RunRequests, WorkbenchRequests,
                    PartnerOps, ItemRoutes
<1>8. CASE CommitFinalize(s)
  <2>0. session[s].op = "finalize" /\ session' = [session EXCEPT ![s] = Idle]
    BY <1>8 DEF CommitFinalize, Committing
  <2> PICK r \in Runs : r = session[s].run
    BY <1>7, <2>0 DEF PartnerOps
  <2>1. Mutable(r) /\ RowOK(r)
    BY <1>6, <1>7, <2>0 DEF Checked, PartnerOps
  <2>2. run' \in [Runs -> RunRows] /\ \A q \in Runs : q # r => run'[q] = run[q]
    BY <1>5, <1>8, <2>1 DEF CommitFinalize, RunRows
  <2>3. /\ run'[r].status = "finalized" /\ run'[r].finalized = TRUE
        /\ run'[r].workbench = run[r].workbench /\ run'[r].approval = run[r].approval
        /\ run'[r].requestedBy = run[r].requestedBy /\ run'[r].submittedBy = run[r].submittedBy
        /\ run'[r].approvedBy = run[r].approvedBy /\ run'[r].lockedBy = run[r].lockedBy
        /\ run'[r].readyBy = run[r].readyBy /\ run'[r].filedBy = run[r].filedBy
    BY <1>5, <1>8 DEF CommitFinalize, RunRows
  <2>4. RowOK(r)'
    BY <1>5, <2>1, <2>3, UsersAssumption DEF RowOK, Mutable, Exists, Locked, Ready, Filed
  <2>5. usage' \in SUBSET UsageRows
    BY <1>8, Billed DEF CommitFinalize
  <2>6. UNCHANGED <<status, resolvedBy, pending>>
    BY <1>8 DEF CommitFinalize
  <2> QED
    BY <2>0, <2>2, <2>4, <2>5, <2>6, RowReleased
<1>9. CASE CommitLock(s)
  <2>0. session[s].op = "lock" /\ session' = [session EXCEPT ![s] = Idle]
    BY <1>9 DEF CommitLock, Committing
  <2> PICK r \in Runs : r = session[s].run
    BY <1>7, <2>0 DEF PartnerOps
  <2>1. /\ session[s].by \in Users /\ ~Disqualified(session[s].by, r) /\ RowOK(r)
        /\ Exists(r) /\ run[r].approval = "approved"
    BY <1>6, <1>7, <2>0 DEF Checked, PartnerOps
  <2>2. run' \in [Runs -> RunRows] /\ \A q \in Runs : q # r => run'[q] = run[q]
    BY <1>5, <1>9, <2>1 DEF CommitLock, RunRows
  <2>3. /\ run'[r].status = "locked" /\ run'[r].finalized = TRUE /\ run'[r].lockedBy = session[s].by
        /\ run'[r].workbench = run[r].workbench /\ run'[r].approval = run[r].approval
        /\ run'[r].requestedBy = run[r].requestedBy /\ run'[r].submittedBy = run[r].submittedBy
        /\ run'[r].approvedBy = run[r].approvedBy /\ run'[r].readyBy = run[r].readyBy
        /\ run'[r].filedBy = run[r].filedBy
    BY <1>5, <1>9 DEF CommitLock, RunRows
  <2>4. RowOK(r)'
    BY <1>5, <2>1, <2>3, UsersAssumption DEF RowOK, Disqualified, Exists, Locked, Ready, Filed
  <2>5. usage' \in SUBSET UsageRows
    BY <1>9, Billed DEF CommitLock
  <2>6. UNCHANGED <<status, resolvedBy, pending>>
    BY <1>9 DEF CommitLock
  <2> QED
    BY <2>0, <2>2, <2>4, <2>5, <2>6, RowReleased
<1>10. CASE CommitHandoffReady(s)
  <2>0. session[s].op = "handoff_ready" /\ session' = [session EXCEPT ![s] = Idle]
    BY <1>10 DEF CommitHandoffReady, Committing
  <2> PICK r \in Runs : r = session[s].run
    BY <1>7, <2>0 DEF PartnerOps
  <2>1. /\ session[s].by \in Users /\ ~Disqualified(session[s].by, r) /\ RowOK(r)
        /\ Locked(r) /\ run[r].workbench
    BY <1>6, <1>7, <2>0 DEF Checked, PartnerOps
  <2>2. run' \in [Runs -> RunRows] /\ \A q \in Runs : q # r => run'[q] = run[q]
    BY <1>5, <1>10, <2>1 DEF CommitHandoffReady, RunRows
  <2>3. /\ run'[r].readyBy = session[s].by
        /\ run'[r].status = run[r].status /\ run'[r].workbench = run[r].workbench
        /\ run'[r].approval = run[r].approval /\ run'[r].requestedBy = run[r].requestedBy
        /\ run'[r].submittedBy = run[r].submittedBy /\ run'[r].approvedBy = run[r].approvedBy
        /\ run'[r].lockedBy = run[r].lockedBy /\ run'[r].filedBy = run[r].filedBy
        /\ run'[r].finalized = run[r].finalized
    BY <1>5, <1>10 DEF CommitHandoffReady, RunRows
  <2>4. RowOK(r)'
    BY <1>5, <2>1, <2>3, UsersAssumption DEF RowOK, Disqualified, Exists, Locked, Ready, Filed
  <2>5. usage' \in SUBSET UsageRows
    BY <1>10, <1>5 DEF CommitHandoffReady, IInv, TypeOK
  <2>6. UNCHANGED <<status, resolvedBy, pending>>
    BY <1>10 DEF CommitHandoffReady
  <2> QED
    BY <2>0, <2>2, <2>4, <2>5, <2>6, RowReleased
<1>11. CASE CommitRecordFiling(s)
  <2>0. session[s].op = "record_filing" /\ session' = [session EXCEPT ![s] = Idle]
    BY <1>11 DEF CommitRecordFiling, Committing
  <2> PICK r \in Runs : r = session[s].run
    BY <1>7, <2>0 DEF PartnerOps
  <2>1. /\ session[s].by \in Users /\ ~Disqualified(session[s].by, r) /\ RowOK(r)
        /\ FilingGate(r)
    BY <1>6, <1>7, <2>0 DEF Checked, PartnerOps
  <2>2. run' \in [Runs -> RunRows] /\ \A q \in Runs : q # r => run'[q] = run[q]
    BY <1>5, <1>11, <2>1 DEF CommitRecordFiling, RunRows
  <2>3. /\ run'[r].filedBy = session[s].by
        /\ run'[r].status = run[r].status /\ run'[r].workbench = run[r].workbench
        /\ run'[r].approval = run[r].approval /\ run'[r].requestedBy = run[r].requestedBy
        /\ run'[r].submittedBy = run[r].submittedBy /\ run'[r].approvedBy = run[r].approvedBy
        /\ run'[r].lockedBy = run[r].lockedBy /\ run'[r].readyBy = run[r].readyBy
        /\ run'[r].finalized = run[r].finalized
    BY <1>5, <1>11 DEF CommitRecordFiling, RunRows
  <2>4. RowOK(r)'
    BY <1>5, <2>1, <2>3, UsersAssumption DEF RowOK, Disqualified, FilingGate, Exists, Locked, Ready, Filed
  <2>5. usage' \in SUBSET UsageRows
    BY <1>11, <1>5 DEF CommitRecordFiling, IInv, TypeOK
  <2>6. UNCHANGED <<status, resolvedBy, pending>>
    BY <1>11 DEF CommitRecordFiling
  <2> QED
    BY <2>0, <2>2, <2>4, <2>5, <2>6, RowReleased
<1> QED
  BY <1>1, <1>2, <1>3, <1>4, <1>8, <1>9, <1>10, <1>11

\* submit, partner-approve and unlock, which wait for the run row.
LEMMA RowStepOK == IInv /\ RunRowStep => IInv'
<1> SUFFICES ASSUME IInv, NEW u \in Users, NEW r \in Runs, RowFree(r),
                    Submit(u, r) \/ PartnerApprove(u, r) \/ Unlock(u, r),
                    UNCHANGED <<reviewVars, pending, usage>>
             PROVE  IInv'
  BY DEF RunRowStep
<1>1. run \in [Runs -> RunRows] /\ session \in [Sessions -> Requests] /\ RowOK(r)
  BY DEF IInv, TypeOK
<1>2. run' \in [Runs -> RunRows] /\ \A q \in Runs : q # r => run'[q] = run[q]
  BY <1>1 DEF Submit, PartnerApprove, Unlock, RunRows, Approvals, WorkingStatuses
<1>3. TypeOK'
  BY <1>2 DEF IInv, TypeOK, ItemsTypeOK, reviewVars
<1>4. /\ run'[r].requestedBy = run[r].requestedBy
      /\ run'[r].workbench = run[r].workbench /\ run'[r].finalized = run[r].finalized
      /\ run'[r].filedBy = run[r].filedBy
  BY <1>1 DEF Submit, PartnerApprove, Unlock, RunRows
<1>5. ASSUME Submit(u, r) PROVE RowOK(r)'
  <2>1. /\ Mutable(r) /\ run'[r].approval = "pending_partner_review"
        /\ run'[r].status = run[r].status /\ run'[r].approvedBy = run[r].approvedBy
        /\ run'[r].lockedBy = run[r].lockedBy /\ run'[r].readyBy = run[r].readyBy
    BY <1>1, <1>5 DEF Submit, RunRows
  <2> QED
    BY <1>1, <1>4, <2>1 DEF RowOK, Mutable, Exists, Locked, Ready, Filed
<1>6. ASSUME PartnerApprove(u, r) PROVE RowOK(r)'
  <2>1. /\ Mutable(r) /\ MayApprove(u, r) /\ ~Disqualified(u, r) /\ RoleOf[u] \in Partners
        /\ run'[r].approval = "approved" /\ run'[r].approvedBy = u
        /\ run'[r].status = run[r].status /\ run'[r].submittedBy = run[r].submittedBy
        /\ run'[r].lockedBy = run[r].lockedBy /\ run'[r].readyBy = run[r].readyBy
    BY <1>1, <1>6 DEF PartnerApprove, RunRows
  <2> QED
    BY <1>1, <1>4, <2>1 DEF RowOK, MayApprove, Disqualified, Mutable, Exists, Locked, Ready, Filed
<1>7. ASSUME Unlock(u, r) PROVE RowOK(r)'
  <2>1. /\ Locked(r) /\ ~Filed(r)
        /\ run'[r].status = "draft" /\ run'[r].lockedBy = Nobody /\ run'[r].readyBy = Nobody
        /\ run'[r].approval = run[r].approval /\ run'[r].approvedBy = run[r].approvedBy
        /\ run'[r].submittedBy = run[r].submittedBy
    BY <1>1, <1>7 DEF Unlock, RunRows
  <2> QED
    BY <1>1, <1>4, <2>1 DEF RowOK, Exists, Locked, Ready, Filed
<1>8. RowOK(r)'
  BY <1>5, <1>6, <1>7
<1>9. \A s \in Sessions : session'[s] = session[s] /\ session[s].run # r
  BY NobodyHolds DEF reviewVars
<1>10. Discipline'
  BY <1>2, <1>8, <1>9, RowWritten
<1> QED
  BY <1>3, <1>10 DEF IInv, Discipline

\* An item handler puts its session into a request that holds no row, or the
\* free row of a run that is not locked.
LEMMA ItemRequestMade ==
  ASSUME IInv, NEW s \in Sessions, NEW req \in {Idle} \cup ItemRequests \cup BulkRequests,
         session' = [session EXCEPT ![s] = req],
         req.op = "bulk_resolve" => RowFree(req.run) /\ Mutable(req.run),
         UNCHANGED runVars, ItemsTypeOK'
  PROVE  IInv'
<1>1. req \in Requests /\ session \in [Sessions -> Requests]
  BY DEF IInv, TypeOK, Requests
<1>2. TypeOK'
  BY <1>1 DEF IInv, TypeOK, runVars
<1>3. req.op \in ItemRoutes \cup {"idle", "bulk_resolve"}
  BY DEF Idle, ItemRequests, BulkRequests
<1>4. req.op # "bulk_resolve" => req.run = NoRun
  BY DEF Idle, ItemRequests, BulkRequests
<1>5. session'[s] = req /\ run' = run
  BY <1>1 DEF runVars
<1>6. Checked(s)'
  BY <1>3, <1>5 DEF Checked, Mutable, Exists, Locked, PartnerOps, ItemRoutes
<1>7. Discipline'
  BY <1>1, <1>4, <1>5, <1>6, SessionMoved
<1> QED
  BY <1>2, <1>7 DEF IInv, Discipline

\* The review item handlers.
LEMMA ItemStepOK == IInv /\ ItemStep => IInv'
<1> SUFFICES ASSUME IInv, ItemStep PROVE IInv'
  OBVIOUS
<1>0. UNCHANGED runVars
  BY DEF ItemStep
<1>1. session \in [Sessions -> Requests] /\ ItemsTypeOK
  BY DEF IInv, TypeOK
<1>2. ASSUME NEW s \in Sessions, NEW u \in Users, NEW op \in ItemRoutes, NEW i \in Items,
             ReadItem(s, u, op, i)
      PROVE  IInv'
  <2> DEFINE req == [op |-> op, run |-> NoRun, items |-> {i}, arg |-> Target[op],
                     by |-> IF op = "waive" THEN u ELSE Nobody]
  <2>1. Target[op] \in Statuses
    BY DEF ItemRoutes, Target, Statuses, OpenStatuses, FinalStatuses
  <2>2. req \in ItemRequests
    BY <2>1 DEF ItemRequests
  <2>3. req.op # "bulk_resolve"
    BY DEF ItemRoutes
  <2>4. session' = [session EXCEPT ![s] = req] /\ ItemsTypeOK'
    BY <1>1, <1>2 DEF ReadItem, ItemsTypeOK
  <2> HIDE DEF req
  <2> QED
    BY <1>0, <2>2, <2>3, <2>4, ItemRequestMade
<1>3. ASSUME NEW s \in Sessions, NEW u \in Users, NEW r \in Runs, NEW to \in {"resolved", "rejected"},
             Mutable(r), ReadOpenItems(s, u, r, to)
      PROVE  IInv'
  <2> DEFINE req == [op |-> "bulk_resolve", run |-> r, by |-> u, arg |-> to,
                     items |-> {i \in ItemsOf(r) : status[i] = "open"}]
  <2>1. req \in BulkRequests
    BY DEF BulkRequests, ItemsOf
  <2>2. req.run = r /\ RowFree(r)
    BY <1>3 DEF ReadOpenItems
  <2>3. session' = [session EXCEPT ![s] = req] /\ ItemsTypeOK'
    BY <1>1, <1>3 DEF ReadOpenItems, ItemsTypeOK
  <2> HIDE DEF req
  <2> QED
    BY <1>0, <1>3, <2>1, <2>2, <2>3, ItemRequestMade
<1>4. ASSUME NEW u \in Users, NEW i \in Items, NEW to \in {"resolved", "rejected"},
             ResolveItem(u, i, to)
      PROVE  IInv'
  <2>1. ItemsTypeOK' /\ UNCHANGED <<session, run, pending, usage>>
    BY <1>0, <1>1, <1>4 DEF ResolveItem, ItemsTypeOK, Statuses, FinalStatuses, runVars
  <2>2. TypeOK'
    BY <2>1 DEF IInv, TypeOK
  <2> QED
    BY <2>1, <2>2, Untouched DEF IInv, Discipline
<1>5. ASSUME NEW s \in Sessions, WriteItems(s) PROVE IInv'
  <2>1. session[s] \in ItemRequests \cup BulkRequests
    BY <1>1, <1>5 DEF WriteItems, Requests, Idle, FinalizeRequests, PartnerRequests, RunRequests,
           WorkbenchRequests, PartnerOps, ItemRoutes
  <2>2. session[s].arg \in Statuses /\ session[s].by \in Users \cup {Nobody}
    BY <2>1 DEF ItemRequests, BulkRequests, Statuses, FinalStatuses
  <2>3. ItemsTypeOK'
    BY <1>1, <1>5, <2>2 DEF WriteItems, ItemsTypeOK
  <2>4. session' = [session EXCEPT ![s] = Idle]
    BY <1>5 DEF WriteItems
  <2> QED
    BY <1>0, <2>3, <2>4, ItemRequestMade DEF Idle
<1>6. ASSUME NEW s \in Sessions, Rollback(s) PROVE IInv'
  BY <1>0, <1>1, <1>6, ItemRequestMade DEF Rollback, Idle, ItemsTypeOK
<1> QED
  BY <1>2, <1>3, <1>4, <1>5, <1>6 DEF ItemStep

-----------------------------------------------------------------------------
(* The invariant holds in every behaviour, and the properties with it. *)

\* Every step keeps the invariant.
LEMMA NextIInv == IInv /\ [Next]_vars => IInv'
<1>1. IInv /\ UNCHANGED vars => IInv'
  <2> SUFFICES ASSUME IInv, UNCHANGED <<status, resolvedBy, session, run, pending, usage>> PROVE IInv'
    BY DEF vars, reviewVars, runVars
  <2>1. TypeOK'
    BY DEF IInv, TypeOK, ItemsTypeOK
  <2> QED
    BY <2>1, Untouched DEF IInv, Discipline
<1> QED
  BY <1>1, CreationStepOK, EntityStep, RunHandlerStepOK, RowStepOK, ItemStepOK DEF Next

\* The inductive invariant holds in every behaviour.
THEOREM Invariance == Spec => []IInv
BY InitIInv, NextIInv, PTL DEF Spec

\* The rows, the ledger and the requests in flight keep their shape.
THEOREM TypeCorrect == Spec => []TypeOK
BY Invariance, IInvGives, PTL

\* Two handlers never hold the same run row (FOR UPDATE).
THEOREM RowLocksExclusive == Spec => []RowLockExclusive
BY Invariance, IInvGives, PTL

\* What finalize, lock, handoff-ready and record-filing checked of the run row
\* is still so when they write it.
THEOREM ChecksStayTrue == Spec => []CheckedRowHolds
BY Invariance, IInvGives, PTL

\* Segregation of duties: an approval in force was given by a partner or admin
\* other than the requester and the submitter, and a locked run has one.
THEOREM RunsSignedOff == Spec => []SignedOff
BY Invariance, IInvGives, PTL

\* Maker-checker: the creator of a run approved, locked, handed off and filed
\* none of it where the tenant asks for that.
THEOREM MakersAreNotCheckers == Spec => []MakerIsNotChecker
BY Invariance, IInvGives, PTL

\* Filed implies filing-ready implies locked, whatever is unlocked and relocked.
THEOREM HandoffInOrder == Spec => []HandoffChain
BY Invariance, IInvGives, PTL

-----------------------------------------------------------------------------
(* What a step does to the one row it writes: it makes a move of the        *)
(* lifecycle or none, and respects a lock that stays.                       *)

RowMove(r) ==
  /\ Stage(r)' = Stage(r) \/ <<Stage(r), Stage(r)'>> \in Lifecycle!Moves
  /\ Locked(r) /\ Locked(r)' => /\ run'[r].approval = run[r].approval
                                /\ run'[r].approvedBy = run[r].approvedBy
                                /\ run'[r].submittedBy = run[r].submittedBy
  /\ Filed(r) => Locked(r)' /\ Ready(r)' /\ Filed(r)'

OnlyRow(r) == \A q \in Runs : q # r => run'[q] = run[q]

\* A new row is the move from absent to working.
LEMMA CalculationMoves ==
  ASSUME IInv, NEW s \in Sessions, NEW r \in Runs, NEW new \in SUBSET ItemsOf(r),
         CommitRun(s, r, new) \/ CommitWorkbenchRun(s, r, new)
  PROVE  RowMove(r) /\ OnlyRow(r)
<1> PICK row : InsertedRow(row, session[s].by) /\ run' = [run EXCEPT ![r] = row]
  BY CalculationCommits
<1>1. run \in [Runs -> RunRows] /\ RowOK(r) /\ ~Exists(r)
  BY CalculationCommits DEF IInv, TypeOK
<1>2. run'[r] = row /\ OnlyRow(r)
  BY <1>1 DEF OnlyRow
<1>3. ~Filed(r) /\ ~Ready(r) /\ ~Locked(r) /\ Stage(r) = "absent"
  BY <1>1 DEF RowOK, Exists, Locked, Stage
<1>4. Stage(r)' = "working"
  BY <1>2 DEF InsertedRow, Stage, Filed, Ready, Locked, Exists, WorkingStatuses
<1> QED
  BY <1>2, <1>3, <1>4 DEF RowMove, Lifecycle!Moves

\* The handlers that decide on the run row alone.
LEMMA RowStepMoves ==
  ASSUME IInv, NEW u \in Users, NEW r \in Runs,
         Submit(u, r) \/ PartnerApprove(u, r) \/ Unlock(u, r)
  PROVE  RowMove(r) /\ OnlyRow(r)
<1>1. run \in [Runs -> RunRows] /\ RowOK(r)
  BY DEF IInv, TypeOK
<1>2. OnlyRow(r) /\ run'[r].filedBy = run[r].filedBy
  BY <1>1 DEF Submit, PartnerApprove, Unlock, OnlyRow, RunRows
<1>3. CASE Submit(u, r) \/ PartnerApprove(u, r)
  <2>1. /\ Mutable(r) /\ run'[r].status = run[r].status /\ run'[r].readyBy = run[r].readyBy
        /\ run'[r].approval \in {"pending_partner_review", "approved"}
    BY <1>1, <1>3 DEF Submit, PartnerApprove, RunRows
  <2>2. ~Filed(r) /\ ~Ready(r) /\ ~Locked(r) /\ Stage(r) \in {"working", "approved"}
    BY <1>1, <2>1 DEF RowOK, Mutable, Stage
  <2>3. ~Locked(r)' /\ Stage(r)' \in {"working", "approved"}
    BY <1>2, <2>1, <2>2 DEF Mutable, Exists, Filed, Ready, Locked, Stage
  <2> QED
    BY <1>2, <2>2, <2>3 DEF RowMove, Lifecycle!Moves
<1>4. CASE Unlock(u, r)
  <2>1. /\ Locked(r) /\ ~Filed(r) /\ run'[r].approval = run[r].approval
        /\ run'[r].status = "draft" /\ run'[r].readyBy = Nobody
    BY <1>1, <1>4 DEF Unlock, RunRows
  <2>2. run[r].approval = "approved" /\ Stage(r) \in {"locked", "filing_ready"}
    BY <1>1, <2>1 DEF RowOK, Stage
  <2>3. ~Locked(r)' /\ Stage(r)' = "approved"
    BY <1>2, <2>1, <2>2 DEF Filed, Ready, Locked, Stage
  <2> QED
    BY <1>2, <2>1, <2>2, <2>3 DEF RowMove, Lifecycle!Moves
<1> QED
  BY <1>3, <1>4

\* The commits, whose checks still hold when they write.
LEMMA CommitMoves ==
  ASSUME IInv, NEW s \in Sessions,
         \/ CommitFinalize(s) \/ CommitLock(s)
         \/ CommitHandoffReady(s) \/ CommitRecordFiling(s)
  PROVE  \E r \in Runs : RowMove(r) /\ OnlyRow(r)
<1>1. run \in [Runs -> RunRows] /\ session[s] \in Requests /\ Checked(s)
  BY DEF IInv, TypeOK
<1>2. session[s].op \in {"finalize"} \cup PartnerOps
  BY DEF CommitFinalize, CommitLock, CommitHandoffReady, CommitRecordFiling, Committing, PartnerOps
<1>3. session[s].run \in Runs /\ (session[s].op \in PartnerOps => session[s].by \in Users)
  BY <1>1, <1>2 DEF Requests, Idle, ItemRequests, BulkRequests, FinalizeRequests, PartnerRequests,
                    RunRequests, WorkbenchRequests,
                    PartnerOps, ItemRoutes
<1> PICK r \in Runs : r = session[s].run
  BY <1>3
<1>4. RowOK(r)
  BY DEF IInv
<1>5. /\ OnlyRow(r) /\ run'[r].approval = run[r].approval
      /\ run'[r].approvedBy = run[r].approvedBy /\ run'[r].submittedBy = run[r].submittedBy
  BY <1>1 DEF CommitFinalize, CommitLock, CommitHandoffReady, CommitRecordFiling, OnlyRow, RunRows
<1>6. ASSUME CommitFinalize(s) PROVE RowMove(r)
  <2>1. /\ Mutable(r) /\ run'[r].status = "finalized"
        /\ run'[r].readyBy = run[r].readyBy /\ run'[r].filedBy = run[r].filedBy
    BY <1>1, <1>6 DEF CommitFinalize, Committing, Checked, RunRows
  <2>2. ~Filed(r) /\ ~Ready(r) /\ ~Locked(r) /\ Exists(r)
    BY <1>4, <2>1 DEF RowOK, Mutable
  <2>3. ~Locked(r)' /\ Exists(r)' /\ ~Ready(r)' /\ ~Filed(r)'
    BY <2>1, <2>2 DEF Filed, Ready, Locked, Exists
  <2> QED
    BY <1>5, <2>2, <2>3 DEF RowMove, Stage
<1>7. ASSUME CommitLock(s) PROVE RowMove(r)
  <2>1. /\ run[r].approval = "approved" /\ run'[r].status = "locked"
        /\ run'[r].readyBy = run[r].readyBy /\ run'[r].filedBy = run[r].filedBy
    BY <1>1, <1>7 DEF CommitLock, Committing, Checked, RunRows
  <2>2. Locked(r)' /\ (Ready(r)' <=> Ready(r)) /\ (Filed(r)' <=> Filed(r))
    BY <2>1 DEF Filed, Ready, Locked
  <2>3. Stage(r)' = Stage(r) \/ (Stage(r) = "approved" /\ Stage(r)' = "locked")
    BY <2>1, <2>2 DEF Stage
  <2> QED
    BY <1>4, <1>5, <2>2, <2>3 DEF RowMove, RowOK, Lifecycle!Moves
<1>8. ASSUME CommitHandoffReady(s) PROVE RowMove(r)
  <2>1. /\ Locked(r) /\ ~Ready(r) /\ session[s].by \in Users
        /\ run'[r].status = run[r].status
        /\ run'[r].readyBy = session[s].by /\ run'[r].filedBy = run[r].filedBy
    BY <1>1, <1>3, <1>8 DEF CommitHandoffReady, Committing, Checked, PartnerOps, RunRows
  <2>2. ~Filed(r) /\ ~Filed(r)' /\ Ready(r)' /\ Locked(r)'
    BY <1>4, <2>1, UsersAssumption DEF RowOK, Filed, Ready, Locked
  <2> QED
    BY <1>5, <2>1, <2>2 DEF RowMove, Stage, Lifecycle!Moves
<1>9. ASSUME CommitRecordFiling(s) PROVE RowMove(r)
  <2>1. /\ FilingGate(r) /\ session[s].by \in Users
        /\ run'[r].status = run[r].status
        /\ run'[r].filedBy = session[s].by /\ run'[r].readyBy = run[r].readyBy
    BY <1>1, <1>3, <1>9 DEF CommitRecordFiling, Committing, Checked, PartnerOps, RunRows
  <2>2. Filed(r)' /\ Ready(r) /\ Ready(r)' /\ Locked(r) /\ Locked(r)'
    BY <2>1, UsersAssumption DEF FilingGate, Filed, Ready, Locked
  <2> QED
    BY <1>5, <2>1, <2>2 DEF RowMove, Stage, Lifecycle!Moves
<1> QED
  BY <1>5, <1>6, <1>7, <1>8, <1>9

\* A step of the system changes no row, or moves one.
LEMMA StepMovesOneRow ==
  IInv /\ [Next]_vars => UNCHANGED run \/ \E r \in Runs : RowMove(r) /\ OnlyRow(r)
<1> SUFFICES ASSUME IInv, [Next]_vars
             PROVE  UNCHANGED run \/ \E r \in Runs : RowMove(r) /\ OnlyRow(r)
  OBVIOUS
<1>1. CASE CreationStep
  BY <1>1, CalculationMoves DEF CreationStep, ReadRun, ReadWorkbenchRun, Calculate, runVars
<1>2. CASE CreateTaxPeriod \/ ProposalStep \/ ItemStep \/ UNCHANGED vars
  BY <1>2 DEF CreateTaxPeriod, ProposalStep, ItemStep, runVars, vars
<1>3. CASE RunRowStep
  BY <1>3, RowStepMoves DEF RunRowStep
<1>4. CASE RunHandlerStep
  <2> PICK s \in Sessions :
         \/ \E r \in Runs : ReadFinalize(s, r)
         \/ \E u \in Users, r \in Runs :
              ReadLock(s, u, r) \/ ReadHandoffReady(s, u, r) \/ ReadRecordFiling(s, u, r)
         \/ CommitFinalize(s) \/ CommitLock(s) \/ CommitHandoffReady(s) \/ CommitRecordFiling(s)
    BY <1>4 DEF RunHandlerStep
  <2>1. ASSUME NEW op, NEW by, NEW r \in Runs, Hold(s, r, op, by) PROVE UNCHANGED run
    BY <2>1 DEF Hold, runVars
  <2> QED
    BY <2>1, CommitMoves DEF ReadFinalize, ReadLock, ReadHandoffReady, ReadRecordFiling
<1> QED
  BY <1>1, <1>2, <1>3, <1>4 DEF Next

\* While a run stays locked its approval, approver and submitter do not change,
\* and a filed run is never unlocked or un-filed (submit, partner-approve, lock,
\* unlock, handoff-ready and record-filing).
THEOREM SignOffFrozen == Spec => LockedSignOffFrozen
<1>1. IInv /\ [Next]_vars =>
        [\A r \in Runs :
           /\ Locked(r) /\ Locked(r)' =>
                /\ run'[r].approval = run[r].approval
                /\ run'[r].approvedBy = run[r].approvedBy
                /\ run'[r].submittedBy = run[r].submittedBy
           /\ Filed(r) => Locked(r)' /\ Ready(r)' /\ Filed(r)']_vars
  <2> SUFFICES ASSUME IInv, [Next]_vars, NEW r \in Runs
               PROVE  /\ Locked(r) /\ Locked(r)' =>
                           /\ run'[r].approval = run[r].approval
                           /\ run'[r].approvedBy = run[r].approvedBy
                           /\ run'[r].submittedBy = run[r].submittedBy
                      /\ Filed(r) => Locked(r)' /\ Ready(r)' /\ Filed(r)'
    OBVIOUS
  <2>1. CASE run'[r] = run[r]
    BY <2>1 DEF IInv, RowOK, Filed, Ready, Locked
  <2>2. CASE RowMove(r)
    BY <2>2 DEF RowMove
  <2> QED
    BY <2>1, <2>2, StepMovesOneRow DEF OnlyRow
<1> QED
  BY <1>1, Invariance, PTL DEF Spec, LockedSignOffFrozen

\* Whatever handlers interleave, a run goes through the stages of RunLifecycle
\* (deriveLifecycleStage): each step of the code is one move of it or none.
THEOREM Refinement == Spec => ImplementsLifecycle
<1>1. Init => Lifecycle!Init
  BY DEF Init, Lifecycle!Init, Stage, NoRow, Filed, Ready, Locked, Exists
<1>2. IInv /\ [Next]_vars => [Lifecycle!Next]_([r \in Runs |-> Stage(r)])
  <2> SUFFICES ASSUME IInv, [Next]_vars
               PROVE  Lifecycle!Next \/ UNCHANGED [r \in Runs |-> Stage(r)]
    OBVIOUS
  <2>1. ASSUME NEW q \in Runs, run'[q] = run[q] PROVE Stage(q)' = Stage(q)
    BY <2>1 DEF Stage, Filed, Ready, Locked, Exists
  <2>2. CASE UNCHANGED run
    BY <2>1, <2>2
  <2>3. ASSUME NEW r \in Runs, RowMove(r), OnlyRow(r)
        PROVE  Lifecycle!Next \/ UNCHANGED [q \in Runs |-> Stage(q)]
    <3>1. \A q \in Runs : q # r => Stage(q)' = Stage(q)
      BY <2>1, <2>3 DEF OnlyRow
    <3>2. CASE Stage(r)' = Stage(r)
      BY <3>1, <3>2
    <3>3. CASE <<Stage(r), Stage(r)'>> \in Lifecycle!Moves
      <4>1. Stage(r)' \in Lifecycle!Stages
        BY DEF Stage, Lifecycle!Stages
      <4>2. [q \in Runs |-> Stage(q)]' = [[q \in Runs |-> Stage(q)] EXCEPT ![r] = Stage(r)']
        BY <3>1
      <4> QED
        BY <3>3, <4>1, <4>2 DEF Lifecycle!Next, Lifecycle!Move
    <3> QED
      BY <2>3, <3>2, <3>3 DEF RowMove
  <2> QED
    BY <2>2, <2>3, StepMovesOneRow
<1> QED
  BY <1>1, <1>2, Invariance, PTL DEF Spec, ImplementsLifecycle, Lifecycle!Spec

-----------------------------------------------------------------------------
(* Billing: one usage row for each finalized run, and for no other. *)

BillInv ==
  /\ \A r \in Runs : run[r].finalized = TRUE <=> \E e \in usage : e.run = r
  /\ \A r \in Runs : run[r].finalized = TRUE => Exists(r)
  /\ \A e, f \in usage : e.run = f.run => e = f

\* One row for each finalized run, in terms of cardinality.
LEMMA BillInvGives == IInv /\ BillInv => BilledOnce
<1> SUFFICES ASSUME IInv, BillInv, NEW r \in Runs
             PROVE  Cardinality({e \in usage : e.run = r}) = IF run[r].finalized THEN 1 ELSE 0
  BY DEF BilledOnce
<1>0. run[r].finalized \in BOOLEAN
  BY DEF IInv, TypeOK, RunRows
<1>1. CASE run[r].finalized = TRUE
  <2> PICK e \in usage : e.run = r
    BY <1>1 DEF BillInv
  <2>1. {f \in usage : f.run = r} = {e}
    BY DEF BillInv
  <2> QED
    BY <1>1, <2>1, FS_Singleton
<1>2. CASE run[r].finalized = FALSE
  <2>1. {f \in usage : f.run = r} = {}
    BY <1>2 DEF BillInv
  <2> QED
    BY <1>2, <2>1, FS_EmptySet
<1> QED
  BY <1>0, <1>1, <1>2

\* A step that bills nothing and finalizes nothing.
LEMMA NothingBilled ==
  ASSUME BillInv, UNCHANGED usage,
         \A q \in Runs : run'[q].finalized = run[q].finalized /\ (Exists(q) => Exists(q)')
  PROVE  BillInv'
BY DEF BillInv

\* billRunOnce: the first milestone adds the row, the second finds it.
LEMMA RunBilled ==
  ASSUME IInv, BillInv, NEW r \in Runs, NEW milestone \in {"finalize", "lock"}, Bill(r, milestone),
         OnlyRow(r), run'[r].finalized = TRUE, Exists(r)'
  PROVE  BillInv'
<1>1. \A q \in Runs : q # r => run'[q].finalized = run[q].finalized /\ (Exists(q) => Exists(q)')
  BY DEF OnlyRow, Exists
<1>2. CASE \E e \in usage : e.run = r
  BY <1>1, <1>2 DEF Bill, BillInv
<1>3. CASE ~\E e \in usage : e.run = r
  <2> DEFINE row == [run |-> r, at |-> milestone]
  <2>1. usage' = usage \cup {row} /\ row.run = r
    BY <1>3 DEF Bill
  <2> HIDE DEF row
  <2>2. \A q \in Runs : (\E e \in usage' : e.run = q) <=> (q = r \/ \E e \in usage : e.run = q)
    BY <2>1
  <2>3. \A e, f \in usage' : e.run = f.run => e = f
    BY <1>3, <2>1 DEF BillInv
  <2>4. ASSUME NEW q \in Runs
        PROVE  /\ run'[q].finalized = TRUE <=> \E e \in usage' : e.run = q
               /\ run'[q].finalized = TRUE => Exists(q)'
    BY <1>1, <2>2 DEF BillInv
  <2> QED
    BY <2>3, <2>4 DEF BillInv
<1> QED
  BY <1>2, <1>3

\* Every step keeps the ledger in line with the runs.
LEMMA NextBillInv == IInv /\ BillInv /\ [Next]_vars => BillInv'
<1> SUFFICES ASSUME IInv, BillInv, [Next]_vars PROVE BillInv'
  OBVIOUS
<1>0. run \in [Runs -> RunRows]
  BY DEF IInv, TypeOK
<1>1. CASE CreationStep
  <2> PICK s \in Sessions :
         \/ \E u \in Users, in \in Inputs : ReadRun(s, u, in)
         \/ \E u \in Users, duration \in {"standard", "non_standard"} :
              ReadWorkbenchRun(s, u, duration)
         \/ \E r \in Runs : \E new \in SUBSET ItemsOf(r) :
              CommitRun(s, r, new) \/ CommitWorkbenchRun(s, r, new)
    BY <1>1 DEF CreationStep
  <2>1. ASSUME NEW u, NEW op, NEW arg, Calculate(s, u, op, arg) PROVE BillInv'
    BY <2>1, NothingBilled DEF Calculate, runVars, Exists
  <2>2. ASSUME NEW r \in Runs, NEW new \in SUBSET ItemsOf(r),
               CommitRun(s, r, new) \/ CommitWorkbenchRun(s, r, new)
        PROVE  BillInv'
    <3> PICK row : InsertedRow(row, session[s].by) /\ run' = [run EXCEPT ![r] = row]
      BY <2>2, CalculationCommits
    <3>1. ~Exists(r) /\ UNCHANGED usage
      BY <2>2, CalculationCommits
    <3>2. run'[r].finalized = FALSE /\ OnlyRow(r)
      BY <1>0 DEF InsertedRow, OnlyRow
    <3>3. run[r].finalized = FALSE
      BY <1>0, <3>1 DEF BillInv, RunRows
    <3>4. \A q \in Runs : run'[q].finalized = run[q].finalized /\ (Exists(q) => Exists(q)')
      BY <3>1, <3>2, <3>3 DEF OnlyRow, Exists
    <3> QED
      BY <3>1, <3>4, NothingBilled
  <2> QED
    BY <2>1, <2>2 DEF ReadRun, ReadWorkbenchRun
<1>2. CASE CreateTaxPeriod \/ ProposalStep \/ ItemStep \/ UNCHANGED vars
  BY <1>2, NothingBilled DEF CreateTaxPeriod, ProposalStep, ItemStep, runVars, vars, Exists
<1>3. CASE RunRowStep
  <2> PICK u \in Users, r \in Runs : Submit(u, r) \/ PartnerApprove(u, r) \/ Unlock(u, r)
    BY <1>3 DEF RunRowStep
  <2>1. OnlyRow(r) /\ run'[r].finalized = run[r].finalized
    BY <1>0 DEF Submit, PartnerApprove, Unlock, OnlyRow, RunRows
  <2>2. Exists(r)'
    BY <1>0 DEF Submit, PartnerApprove, Unlock, Mutable, Locked, Exists, RunRows
  <2> QED
    BY <1>3, <2>1, <2>2, NothingBilled DEF RunRowStep, OnlyRow, Exists
<1>4. CASE RunHandlerStep
  <2> PICK s \in Sessions :
         \/ \E r \in Runs : ReadFinalize(s, r)
         \/ \E u \in Users, r \in Runs :
              ReadLock(s, u, r) \/ ReadHandoffReady(s, u, r) \/ ReadRecordFiling(s, u, r)
         \/ CommitFinalize(s) \/ CommitLock(s) \/ CommitHandoffReady(s) \/ CommitRecordFiling(s)
    BY <1>4 DEF RunHandlerStep
  <2>1. ASSUME NEW op, NEW by, NEW r \in Runs, Hold(s, r, op, by) PROVE BillInv'
    BY <2>1, NothingBilled DEF Hold, runVars, Exists
  <2>2. session[s] \in Requests
    BY DEF IInv, TypeOK
  <2>3. session[s].op \in {"finalize"} \cup PartnerOps => session[s].run \in Runs
    BY <2>2 DEF Requests, Idle, ItemRequests, BulkRequests, FinalizeRequests, PartnerRequests,
                    RunRequests, WorkbenchRequests,
                PartnerOps, ItemRoutes
  <2>4. CASE CommitFinalize(s) \/ CommitLock(s)
    <3> PICK r \in Runs : r = session[s].run
      BY <2>3, <2>4 DEF CommitFinalize, CommitLock, Committing, PartnerOps
    <3>1. \E milestone \in {"finalize", "lock"} : Bill(r, milestone)
      BY <2>4 DEF CommitFinalize, CommitLock
    <3>2. /\ OnlyRow(r) /\ run'[r].finalized = TRUE
          /\ run'[r].status \in {"finalized", "locked"}
      BY <1>0, <2>4 DEF CommitFinalize, CommitLock, OnlyRow, RunRows
    <3> QED
      BY <3>1, <3>2, RunBilled DEF Exists
  <2>5. CASE CommitHandoffReady(s) \/ CommitRecordFiling(s)
    <3> PICK r \in Runs : r = session[s].run
      BY <2>3, <2>5 DEF CommitHandoffReady, CommitRecordFiling, Committing, PartnerOps
    <3>1. OnlyRow(r) /\ run'[r].finalized = run[r].finalized /\ run'[r].status = run[r].status
      BY <1>0, <2>5 DEF CommitHandoffReady, CommitRecordFiling, OnlyRow, RunRows
    <3> QED
      BY <2>5, <3>1, NothingBilled DEF CommitHandoffReady, CommitRecordFiling, OnlyRow, Exists
  <2> QED
    BY <2>1, <2>4, <2>5 DEF ReadFinalize, ReadLock, ReadHandoffReady, ReadRecordFiling
<1> QED
  BY <1>1, <1>2, <1>3, <1>4 DEF Next

\* A run has exactly one usage row once finalize or lock has been reached, and
\* none before, however often it is unlocked, finalized and locked again
\* (billRunOnce and its idempotency key).
THEOREM BilledOncePerRun == Spec => []BilledOnce
<1>1. Init => BillInv
  BY DEF Init, NoRow, BillInv
<1> QED
  BY <1>1, NextBillInv, BillInvGives, Invariance, PTL DEF Spec

-----------------------------------------------------------------------------
(***************************************************************************)
(* The unlocked readings.  Between a handler's reading of items and        *)
(* proposals and its write, other handlers may change them; the invariant  *)
(* says that whatever no longer is as it was read is in the handler's      *)
(* entry of since.  A step that leaves a request alone adds to its entry   *)
(* just what the step changes, whatever the step is; only the steps of the *)
(* request itself need the handlers' code.                                 *)
(***************************************************************************)
\* What a finalize or a lock of run r read of the gates, as far as it changed.
GatesRead(s, r) ==
  /\ pending \subseteq since[s].proposed
  /\ OpenHigh(r) \subseteq since[s].opened
  /\ run[r].nonStandard => OpenPeriodReviews \subseteq since[s].opened

ReadKept(s) ==
  LET r == session[s].run IN
  /\ session[s].op = "finalize" => Unresolved(r) \subseteq since[s].opened
  /\ session[s].op \in {"finalize", "lock"} /\ run[r].workbench => GatesRead(s, r)
  /\ session[s].op \in WorkingRoutes =>
       \A i \in session[s].items : status[i] \in FinalStatuses => i \in since[s].closed
  /\ session[s].op \in ItemRoutes => session[s].arg = Target[session[s].op]

Observations == [opened : SUBSET Items, proposed : SUBSET Proposals, closed : SUBSET Items]

GatesInv ==
  /\ IInv
  /\ since \in [Sessions -> Observations]
  /\ \A s \in Sessions : ReadKept(s)

\* A connection that is idle, or serves another handler, has read none of it.
LEMMA NothingRead ==
  ASSUME NEW s \in Sessions, session'[s].op \notin ItemRoutes \cup {"finalize", "lock"}
  PROVE  ReadKept(s)'
<1>1. session'[s].op \notin WorkingRoutes
  BY DEF WorkingRoutes, ItemRoutes
<1> QED
  BY <1>1 DEF ReadKept

\* A run that exists stays what it was made as.
LEMMA KindFixed ==
  ASSUME IInv, [Next]_vars, NEW r \in Runs, Exists(r)
  PROVE  run'[r].workbench = run[r].workbench /\ run'[r].nonStandard = run[r].nonStandard
<1>1. run \in [Runs -> RunRows]
  BY DEF IInv, TypeOK
<1>2. CASE CreationStep
  <2>1. CASE \E s \in Sessions, q \in Runs : \E new \in SUBSET ItemsOf(q) : CommitRun(s, q, new) \/ CommitWorkbenchRun(s, q, new)
    <3> PICK s \in Sessions, q \in Runs : \E new \in SUBSET ItemsOf(q) : CommitRun(s, q, new) \/ CommitWorkbenchRun(s, q, new)
      BY <2>1
    <3> PICK row : ~Exists(q) /\ run' = [run EXCEPT ![q] = row]
      BY CalculationCommits
    <3> QED
      BY <1>1
  <2> QED
    BY <1>2, <2>1 DEF CreationStep, ReadRun, ReadWorkbenchRun, Calculate, runVars
<1>3. CASE CreateTaxPeriod \/ ProposalStep \/ ItemStep \/ UNCHANGED vars
  BY <1>3 DEF CreateTaxPeriod, ProposalStep, ItemStep, runVars, vars
<1>4. CASE RunRowStep
  <2>1. PICK u \in Users, q \in Runs : Submit(u, q) \/ PartnerApprove(u, q) \/ Unlock(u, q)
    BY <1>4 DEF RunRowStep
  <2> QED
    BY <1>1, <2>1 DEF Submit, PartnerApprove, Unlock, RunRows
<1>5. CASE RunHandlerStep
  <2>1. PICK s \in Sessions :
         \/ \E q \in Runs : ReadFinalize(s, q)
         \/ \E u \in Users, q \in Runs :
              ReadLock(s, u, q) \/ ReadHandoffReady(s, u, q) \/ ReadRecordFiling(s, u, q)
         \/ CommitFinalize(s) \/ CommitLock(s) \/ CommitHandoffReady(s) \/ CommitRecordFiling(s)
    BY <1>5 DEF RunHandlerStep
  <2>2. ASSUME NEW op, NEW by, NEW q \in Runs, Hold(s, q, op, by) PROVE UNCHANGED run
    BY <2>2 DEF Hold, runVars
  <2>3. CASE CommitFinalize(s) \/ CommitLock(s) \/ CommitHandoffReady(s) \/ CommitRecordFiling(s)
    BY <1>1, <2>3 DEF CommitFinalize, CommitLock, CommitHandoffReady, CommitRecordFiling, RunRows
  <2> QED
    BY <2>1, <2>2, <2>3 DEF ReadFinalize, ReadLock, ReadHandoffReady, ReadRecordFiling
<1> QED
  BY <1>2, <1>3, <1>4, <1>5 DEF Next

\* A step of others: what it changes under a request is added to the request's entry.
LEMMA OthersObserved ==
  ASSUME GatesInv, GatesNext, NEW s \in Sessions, session'[s] = session[s]
  PROVE  ReadKept(s)'
<1> DEFINE r == session[s].run
<1>1. /\ IInv /\ [Next]_vars /\ IInv' /\ since[s] \in Observations /\ ReadKept(s)
      /\ since'[s] = Observed(s) /\ session[s] \in Requests
  BY NextIInv DEF GatesInv, GatesNext, IInv, TypeOK
<1>2. /\ status \in [Items -> Statuses \cup {"absent"}]
      /\ status' \in [Items -> Statuses \cup {"absent"}]
  BY <1>1 DEF IInv, TypeOK, ItemsTypeOK
<1>3. CASE session[s].op \in {"finalize", "lock"}
  <2>1. since'[s].opened = since[s].opened \cup Opened /\ since'[s].proposed = since[s].proposed \cup Proposed
    BY <1>1, <1>3 DEF Observed, Observations
  <2>2. r \in Runs /\ Exists(r)
    <3>1. r \in Runs
      BY <1>1, <1>3 DEF Requests, Idle, ItemRequests, BulkRequests, FinalizeRequests, PartnerRequests,
                        RunRequests, WorkbenchRequests, ItemRoutes, PartnerOps
    <3> QED
      BY <1>1, <3>1, HeldRowExists DEF HoldsRow
  <2>3. run'[r].workbench = run[r].workbench /\ run'[r].nonStandard = run[r].nonStandard
    BY <1>1, <2>2, KindFixed
  <2>4. /\ Unresolved(r)' \subseteq Unresolved(r) \cup Opened
        /\ OpenHigh(r)' \subseteq OpenHigh(r) \cup Opened
        /\ OpenPeriodReviews' \subseteq OpenPeriodReviews \cup Opened
    BY <1>2 DEF Unresolved, CreatedItems, OpenHigh, OpenIn, OpenPeriodReviews, ItemsOf, Opened, Statuses, OpenStatuses
  <2>5. pending' \subseteq pending \cup Proposed
    BY DEF Proposed
  <2>6. session[s].op \notin ItemRoutes \cup WorkingRoutes
    BY <1>3 DEF ItemRoutes, WorkingRoutes
  <2>7. session'[s].run = r /\ session'[s].op = session[s].op
    OBVIOUS
  <2>8. session[s].op = "finalize" => Unresolved(r)' \subseteq since'[s].opened
    BY <1>1, <2>1, <2>4 DEF ReadKept
  <2>9. ASSUME run'[r].workbench PROVE GatesRead(s, r)'
    <3>1. run[r].workbench
      BY <2>3, <2>9
    <3>2. GatesRead(s, r)
      BY <1>1, <1>3, <3>1 DEF ReadKept
    <3>3. pending' \subseteq since'[s].proposed /\ OpenHigh(r)' \subseteq since'[s].opened
      BY <2>1, <2>4, <2>5, <3>2 DEF GatesRead
    <3>4. ASSUME run'[r].nonStandard PROVE OpenPeriodReviews' \subseteq since'[s].opened
      <4>1. run[r].nonStandard
        BY <2>3, <3>4
      <4> QED
        BY <2>1, <2>4, <3>2, <4>1 DEF GatesRead
    <3>5. /\ pending' \subseteq since'[s].proposed /\ OpenHigh(session[s].run)' \subseteq since'[s].opened
          /\ run'[session[s].run].nonStandard => OpenPeriodReviews' \subseteq since'[s].opened
      BY <3>3, <3>4
    <3> QED
      BY <3>5 DEF GatesRead
  <2> QED
    BY <2>6, <2>7, <2>8, <2>9 DEF ReadKept
<1>4. CASE session[s].op \in ItemRoutes
  <2>1. since'[s].closed = since[s].closed \cup (Closed \cap session[s].items)
    <3>1. session[s].op \notin {"finalize", "lock"}
      BY <1>4 DEF ItemRoutes
    <3> QED
      BY <1>1, <1>4, <3>1 DEF Observed, Observations
  <2>2. session[s].items \subseteq Items
    BY <1>1, <1>4 DEF Requests, Idle, ItemRequests, BulkRequests, FinalizeRequests, PartnerRequests,
                      RunRequests, WorkbenchRequests
  <2>3. session[s].op \in WorkingRoutes =>
          \A i \in session[s].items : status'[i] \in FinalStatuses => i \in since'[s].closed
    BY <1>1, <2>1, <2>2 DEF ReadKept, Closed
  <2>4. session[s].op \notin {"finalize", "lock"}
    BY <1>4 DEF ItemRoutes
  <2> QED
    BY <1>1, <1>4, <2>3, <2>4 DEF ReadKept
<1>5. CASE session[s].op \notin ItemRoutes \cup {"finalize", "lock"}
  BY <1>5, NothingRead
<1> QED
  BY <1>3, <1>4, <1>5

\* The gates read rows that a handler leaves alone while it only reads.
LEMMA GatesUntouched ==
  ASSUME UNCHANGED <<status, run, pending>>, NEW r
  PROVE  /\ Unresolved(r)' = Unresolved(r)
         /\ ApprovalGates(r) /\ run'[r].workbench =>
              /\ pending' = {} /\ OpenHigh(r)' = {}
              /\ run'[r].nonStandard => OpenPeriodReviews' = {}
<1>1. Unresolved(r)' = Unresolved(r) /\ OpenHigh(r)' = OpenHigh(r) /\ OpenPeriodReviews' = OpenPeriodReviews
  BY DEF Unresolved, CreatedItems, OpenHigh, OpenIn, OpenPeriodReviews
<1>2. ApprovalGates(r) /\ run[r].workbench =>
        /\ pending = {} /\ OpenHigh(r) = {}
        /\ run[r].nonStandard => OpenPeriodReviews = {}
  BY DEF ApprovalGates, RunApprovalGates, OpenHigh, PeriodReviewOpen, OpenPeriodReviews
<1> QED
  BY <1>1, <1>2

\* A read leaves in the session what the handler checked.
LEMMA RowRead ==
  ASSUME GatesInv, NEW s \in Sessions, NEW r \in Runs, NEW op, NEW u, Hold(s, r, op, u),
         op \in {"finalize", "lock", "handoff_ready", "record_filing"},
         op = "finalize" => Unresolved(r) = {},
         op \in {"finalize", "lock"} => ApprovalGates(r)
  PROVE  ReadKept(s)'
<1>1. session \in [Sessions -> Requests]
  BY DEF GatesInv, IInv, TypeOK
<1>2. session'[s].op = op /\ session'[s].run = r
  BY <1>1 DEF Hold
<1>3. UNCHANGED <<status, run, pending>>
  BY DEF Hold, runVars
<1>4. op \notin ItemRoutes /\ op \notin WorkingRoutes
  BY DEF ItemRoutes, WorkingRoutes
<1>5. op = "finalize" => Unresolved(r)' = {}
  BY <1>3, GatesUntouched
<1>6. ASSUME op \in {"finalize", "lock"}, run'[r].workbench PROVE GatesRead(s, r)'
  <2>1. pending' = {} /\ OpenHigh(r)' = {} /\ (run'[r].nonStandard => OpenPeriodReviews' = {})
    BY <1>3, <1>6, GatesUntouched
  <2> QED
    BY <2>1 DEF GatesRead
<1>7. op = "finalize" => Unresolved(session[s].run)' = {}
  BY <1>2, <1>5 DEF Unresolved, CreatedItems, ItemsOf
<1>8. ASSUME op \in {"finalize", "lock"}, run'[r].workbench PROVE GatesRead(s, session[s].run)'
  BY <1>2, <1>6, <1>8 DEF GatesRead, OpenHigh, OpenIn, ItemsOf, OpenPeriodReviews
<1> QED
  BY <1>2, <1>4, <1>7, <1>8 DEF ReadKept

\* A step of the request's own.
LEMMA OwnStepRead ==
  ASSUME GatesInv, GatesNext, NEW s \in Sessions, session'[s] # session[s]
  PROVE  ReadKept(s)'
<1>1. /\ session \in [Sessions -> Requests] /\ IInv /\ Next
      /\ since'[s] = Nothing
  BY DEF GatesInv, GatesNext, IInv, TypeOK, Observed
<1>2. ASSUME session'[s] = Idle PROVE ReadKept(s)'
  BY <1>2, NothingRead DEF Idle, ItemRoutes
<1>3. CASE CreationStep
  <2>1. ASSUME NEW t \in Sessions, NEW u, NEW op \in {"run_fresh", "run_reusing", "workbench_run"}, NEW arg, Calculate(t, u, op, arg)
        PROVE  ReadKept(s)'
    <3>1. session'[s].op = op
      BY <1>1, <2>1 DEF Calculate
    <3> QED
      BY <3>1, NothingRead DEF ItemRoutes
  <2>2. ASSUME NEW t \in Sessions, NEW u, NEW in, ReadRun(t, u, in) PROVE ReadKept(s)'
    <3>1. CASE ApprovedBefore(in)
      BY <2>1, <2>2, <3>1 DEF ReadRun
    <3>2. CASE ~ApprovedBefore(in)
      BY <2>1, <2>2, <3>2 DEF ReadRun
    <3> QED
      BY <3>1, <3>2
  <2>3. ASSUME NEW t \in Sessions, NEW u, NEW duration, ReadWorkbenchRun(t, u, duration) PROVE ReadKept(s)'
    BY <2>1, <2>3 DEF ReadWorkbenchRun
  <2>4. ASSUME NEW t \in Sessions, NEW r, NEW new, CommitRun(t, r, new) \/ CommitWorkbenchRun(t, r, new) PROVE ReadKept(s)'
    <3>1. session' = [session EXCEPT ![t] = Idle]
      BY <2>4 DEF CommitRun, CommitWorkbenchRun, InsertRun
    <3> QED
      BY <1>1, <1>2, <3>1
  <2> QED
    BY <1>3, <2>2, <2>3, <2>4 DEF CreationStep
<1>4. CASE CreateTaxPeriod \/ ProposalStep \/ RunRowStep
  BY <1>4 DEF CreateTaxPeriod, ProposalStep, RunRowStep, OpenItems, reviewVars
<1>5. CASE RunHandlerStep
  <2>0. ASSUME NEW t \in Sessions, NEW r, NEW op, NEW u, Hold(t, r, op, u) PROVE t = s
    BY <1>1, <2>0 DEF Hold
  <2>1. ASSUME NEW t \in Sessions, NEW r \in Runs, ReadFinalize(t, r) PROVE ReadKept(s)'
    <3>1. Hold(s, r, "finalize", Nobody) /\ Unresolved(r) = {} /\ ApprovalGates(r)
      BY <2>0, <2>1 DEF ReadFinalize
    <3> QED
      BY <3>1, RowRead
  <2>2. ASSUME NEW t \in Sessions, NEW u, NEW r \in Runs, ReadLock(t, u, r) PROVE ReadKept(s)'
    <3>1. Hold(s, r, "lock", u) /\ ApprovalGates(r)
      BY <2>0, <2>2 DEF ReadLock
    <3> QED
      BY <3>1, RowRead
  <2>3. ASSUME NEW t \in Sessions, NEW u, NEW r \in Runs, ReadHandoffReady(t, u, r) \/ ReadRecordFiling(t, u, r) PROVE ReadKept(s)'
    <3>1. Hold(s, r, "handoff_ready", u) \/ Hold(s, r, "record_filing", u)
      BY <2>0, <2>3 DEF ReadHandoffReady, ReadRecordFiling
    <3> QED
      BY <3>1, RowRead
  <2>4. ASSUME NEW t \in Sessions, CommitFinalize(t) \/ CommitLock(t) \/ CommitHandoffReady(t) \/ CommitRecordFiling(t)
        PROVE  ReadKept(s)'
    <3>1. session' = [session EXCEPT ![t] = Idle]
      BY <2>4 DEF CommitFinalize, CommitLock, CommitHandoffReady, CommitRecordFiling, Committing
    <3> QED
      BY <1>1, <1>2, <3>1
  <2> QED
    BY <1>5, <2>1, <2>2, <2>3, <2>4 DEF RunHandlerStep
<1>6. CASE ItemStep
  <2>1. ASSUME NEW t \in Sessions, NEW u, NEW op \in ItemRoutes, NEW i \in Items, ReadItem(t, u, op, i) PROVE ReadKept(s)'
    <3>1. /\ session'[s].op = op /\ session'[s].items = {i} /\ session'[s].arg = Target[op]
          /\ status' = status /\ status[i] \in Sources[op]
      BY <1>1, <2>1 DEF ReadItem, Accepts
    <3>2. op \notin {"finalize", "lock"}
      BY DEF ItemRoutes
    <3>3. op \in WorkingRoutes => status[i] \notin FinalStatuses
      BY <3>1 DEF WorkingRoutes, Sources, FinalStatuses
    <3> QED
      BY <3>1, <3>2, <3>3 DEF ReadKept
  <2>2. ASSUME NEW t \in Sessions, NEW u, NEW r, NEW to, ReadOpenItems(t, u, r, to) PROVE ReadKept(s)'
    <3>1. session'[s].op = "bulk_resolve"
      BY <1>1, <2>2 DEF ReadOpenItems
    <3> QED
      BY <3>1, NothingRead DEF ItemRoutes
  <2>3. ASSUME NEW u, NEW i, NEW to, ResolveItem(u, i, to) PROVE ReadKept(s)'
    BY <2>3 DEF ResolveItem
  <2>4. ASSUME NEW t \in Sessions, WriteItems(t) \/ Rollback(t) PROVE ReadKept(s)'
    <3>1. session' = [session EXCEPT ![t] = Idle]
      BY <2>4 DEF WriteItems, Rollback
    <3> QED
      BY <1>1, <1>2, <3>1
  <2> QED
    BY <1>6, <2>1, <2>2, <2>3, <2>4 DEF ItemStep
<1> QED
  BY <1>1, <1>3, <1>4, <1>5, <1>6 DEF Next

\* The observations stay sets of items and of proposals.
LEMMA ObservationsTyped ==
  ASSUME GatesInv, GatesNext
  PROVE  since' \in [Sessions -> Observations]
<1>1. since \in [Sessions -> Observations] /\ pending' \subseteq Proposals
  BY NextIInv DEF GatesInv, GatesNext, IInv, TypeOK
<1>2. Nothing \in Observations /\ Opened \subseteq Items /\ Closed \subseteq Items /\ Proposed \subseteq Proposals
  BY <1>1 DEF Nothing, Observations, Opened, Closed, Proposed
<1>3. ASSUME NEW s \in Sessions PROVE Observed(s) \in Observations
  <2>1. since[s] \in Observations
    BY <1>1
  <2> QED
    BY <1>2, <2>1 DEF Observed, Observations
<1> QED
  BY <1>3 DEF GatesNext

\* Every step keeps the readings, whoever takes it and however requests overlap.
LEMMA NextGatesInv == GatesInv /\ [GatesNext]_gateVars => GatesInv'
<1> SUFFICES ASSUME GatesInv, [GatesNext]_gateVars PROVE GatesInv'
  OBVIOUS
<1>1. CASE GatesNext
  <2>1. IInv'
    BY <1>1, NextIInv DEF GatesInv, GatesNext
  <2>2. \A s \in Sessions : ReadKept(s)'
    BY <1>1, OthersObserved, OwnStepRead
  <2> QED
    BY <1>1, <2>1, <2>2, ObservationsTyped DEF GatesInv
<1>2. CASE UNCHANGED gateVars
  <2>1. UNCHANGED vars /\ UNCHANGED <<status, run, pending, session, since>>
    BY <1>2 DEF gateVars, vars, reviewVars, runVars
  <2>2. IInv'
    BY <2>1, NextIInv DEF GatesInv
  <2>3. \A s \in Sessions : ReadKept(s)'
    BY <2>1 DEF GatesInv, ReadKept, GatesRead, Unresolved, CreatedItems, OpenHigh, OpenIn, OpenPeriodReviews
  <2> QED
    BY <2>1, <2>2, <2>3 DEF GatesInv
<1> QED
  BY <1>1, <1>2

LEMMA GatesInvariance == GatesSpec => []GatesInv
<1>1. GatesInit => GatesInv
  <2> SUFFICES ASSUME GatesInit PROVE GatesInv
    OBVIOUS
  <2>1. IInv /\ since \in [Sessions -> Observations]
    BY InitIInv DEF GatesInit, Nothing, Observations
  <2>2. \A s \in Sessions : ReadKept(s)
    BY DEF GatesInit, Init, ReviewInit, Idle, ReadKept, ItemRoutes, WorkingRoutes
  <2> QED
    BY <2>1, <2>2 DEF GatesInv
<1> QED
  BY <1>1, NextGatesInv, PTL DEF GatesSpec

\* Only finalize makes a run finalized, and only lock locks it.
LEMMA StatusWritten ==
  ASSUME IInv, [Next]_vars, NEW r \in Runs, run'[r].status # run[r].status,
         run'[r].status \in {"finalized", "locked"}
  PROVE  \E s \in Sessions : /\ session[s].run = r
                             /\ \/ CommitFinalize(s) /\ run'[r].status = "finalized"
                                \/ CommitLock(s) /\ run'[r].status = "locked"
<1>1. run \in [Runs -> RunRows] /\ session \in [Sessions -> Requests]
  BY DEF IInv, TypeOK
<1>2. CASE CreationStep
  <2>1. PICK s \in Sessions, q \in Runs : \E new \in SUBSET ItemsOf(q) : CommitRun(s, q, new) \/ CommitWorkbenchRun(s, q, new)
    BY <1>2 DEF CreationStep, ReadRun, ReadWorkbenchRun, Calculate, runVars
  <2>2. PICK row : InsertedRow(row, session[s].by) /\ run' = [run EXCEPT ![q] = row]
    BY <2>1, CalculationCommits
  <2>3. row.status \notin {"finalized", "locked"}
    BY <2>2 DEF InsertedRow, WorkingStatuses
  <2> QED
    BY <1>1, <2>2, <2>3
<1>3. CASE CreateTaxPeriod \/ ProposalStep \/ ItemStep \/ UNCHANGED vars
  BY <1>3 DEF CreateTaxPeriod, ProposalStep, ItemStep, runVars, vars
<1>4. CASE RunRowStep
  <2>1. PICK u \in Users, q \in Runs : Submit(u, q) \/ PartnerApprove(u, q) \/ Unlock(u, q)
    BY <1>4 DEF RunRowStep
  <2>2. run'[r].status \in {run[r].status, "draft"}
    BY <1>1, <2>1 DEF Submit, PartnerApprove, Unlock, RunRows
  <2> QED
    BY <2>2
<1>5. CASE RunHandlerStep
  <2>1. PICK s \in Sessions :
         \/ \E q \in Runs : ReadFinalize(s, q)
         \/ \E u \in Users, q \in Runs :
              ReadLock(s, u, q) \/ ReadHandoffReady(s, u, q) \/ ReadRecordFiling(s, u, q)
         \/ CommitFinalize(s) \/ CommitLock(s) \/ CommitHandoffReady(s) \/ CommitRecordFiling(s)
    BY <1>5 DEF RunHandlerStep
  <2>2. ASSUME NEW op, NEW by, NEW q \in Runs, Hold(s, q, op, by) PROVE UNCHANGED run
    BY <2>2 DEF Hold, runVars
  <2>3. CASE CommitHandoffReady(s) \/ CommitRecordFiling(s)
    <3>1. run'[r].status = run[r].status
      BY <1>1, <2>3 DEF CommitHandoffReady, CommitRecordFiling, RunRows
    <3> QED
      BY <3>1
  <2>4. CASE CommitFinalize(s)
    <3>1. session[s].run = r /\ run'[r].status = "finalized"
      BY <1>1, <2>4 DEF CommitFinalize, RunRows
    <3> QED
      BY <2>4, <3>1
  <2>5. CASE CommitLock(s)
    <3>1. session[s].run = r /\ run'[r].status = "locked"
      BY <1>1, <2>5 DEF CommitLock, RunRows
    <3> QED
      BY <2>5, <3>1
  <2> QED
    BY <2>1, <2>2, <2>3, <2>4, <2>5 DEF ReadFinalize, ReadLock, ReadHandoffReady, ReadRecordFiling
<1> QED
  BY <1>2, <1>3, <1>4, <1>5 DEF Next

\* POST /runs/:runId/finalize ("block finalize on ANY non-final review state"): an
\* item of a run that becomes finalized is unresolved only if some request opened it
\* after that finalize had read the items, however many requests overlap.
THEOREM FinalizedReviewed == GatesSpec => FinalizeClosesReview
<1>1. GatesInv /\ [GatesNext]_gateVars =>
        [\A r \in Runs :
           run[r].status # "finalized" /\ run'[r].status = "finalized" =>
             \E s \in Sessions : /\ Finishing(s, "finalize") /\ session[s].run = r
                                 /\ Unresolved(r) \subseteq since[s].opened]_gateVars
  <2> SUFFICES ASSUME GatesInv, [GatesNext]_gateVars, NEW r \in Runs,
                      run[r].status # "finalized", run'[r].status = "finalized"
               PROVE  \E s \in Sessions : /\ Finishing(s, "finalize") /\ session[s].run = r
                                          /\ Unresolved(r) \subseteq since[s].opened
    OBVIOUS
  <2>1. IInv /\ [Next]_vars /\ session \in [Sessions -> Requests]
    BY DEF GatesInv, GatesNext, gateVars, IInv, TypeOK
  <2>2. PICK s \in Sessions : session[s].run = r /\ CommitFinalize(s)
    BY <2>1, StatusWritten
  <2>3. Finishing(s, "finalize") /\ ReadKept(s)
    BY <2>1, <2>2 DEF GatesInv, CommitFinalize, Committing, Finishing
  <2> QED
    BY <2>2, <2>3 DEF ReadKept, Finishing
<1> QED
  BY <1>1, GatesInvariance, PTL DEF GatesSpec, FinalizeClosesReview

\* evaluateApprovalGates ("Gates that must pass before a run may be finalized or
\* locked"): a gate of a workbench run is not met when finalize or lock writes only if
\* the proposal, the item or the period review came after that handler's reading.
THEOREM GatesMet == GatesSpec => WorkbenchLockGated
<1>1. GatesInv /\ [GatesNext]_gateVars =>
        [\A r \in Runs :
           run[r].workbench /\ run'[r].status # run[r].status /\ run'[r].status \in {"finalized", "locked"} =>
             \E s \in Sessions :
               /\ Finishing(s, "finalize") \/ Finishing(s, "lock")
               /\ session[s].run = r
               /\ pending \subseteq since[s].proposed
               /\ OpenHigh(r) \subseteq since[s].opened
               /\ run[r].nonStandard => OpenPeriodReviews \subseteq since[s].opened]_gateVars
  <2> SUFFICES ASSUME GatesInv, [GatesNext]_gateVars, NEW r \in Runs, run[r].workbench,
                      run'[r].status # run[r].status, run'[r].status \in {"finalized", "locked"}
               PROVE  \E s \in Sessions :
                        /\ Finishing(s, "finalize") \/ Finishing(s, "lock")
                        /\ session[s].run = r
                        /\ pending \subseteq since[s].proposed
                        /\ OpenHigh(r) \subseteq since[s].opened
                        /\ run[r].nonStandard => OpenPeriodReviews \subseteq since[s].opened
    OBVIOUS
  <2>1. IInv /\ [Next]_vars /\ session \in [Sessions -> Requests]
    BY DEF GatesInv, GatesNext, gateVars, IInv, TypeOK
  <2>2. PICK s \in Sessions : session[s].run = r /\ (CommitFinalize(s) \/ CommitLock(s))
    BY <2>1, StatusWritten
  <2>3. /\ Finishing(s, "finalize") \/ Finishing(s, "lock")
        /\ session[s].op \in {"finalize", "lock"}
    BY <2>1, <2>2 DEF CommitFinalize, CommitLock, Committing, Finishing
  <2>4. GatesRead(s, r)
    BY <2>2, <2>3 DEF GatesInv, ReadKept
  <2> QED
    BY <2>2, <2>3, <2>4 DEF GatesRead
<1> QED
  BY <1>1, GatesInvariance, PTL DEF GatesSpec, WorkbenchLockGated

\* review.routes.ts ("An item can never return from a final status ... except via an
\* explicit human reopen"): it returns otherwise only by the late write of a start,
\* request-evidence or attach-evidence that had read it before it was closed.
THEOREM FinalStays == GatesSpec => FinalLeftOnlyByReopen
<1> DEFINE Excused(i) ==
      \E s \in Sessions :
        /\ \/ Finishing(s, "reopen")
           \/ (\E op \in WorkingRoutes : Finishing(s, op)) /\ i \in since[s].closed
        /\ i \in session[s].items
<1>1. GatesInv /\ [GatesNext]_gateVars =>
        [\A i \in Items : status[i] \in FinalStatuses /\ status'[i] \notin FinalStatuses => Excused(i)]_gateVars
  <2> SUFFICES ASSUME GatesInv, [GatesNext]_gateVars, NEW i \in Items,
                      status[i] \in FinalStatuses, status'[i] \notin FinalStatuses
               PROVE  Excused(i)
    OBVIOUS
  <2>1. /\ status \in [Items -> Statuses \cup {"absent"}] /\ session \in [Sessions -> Requests]
        /\ [Next]_vars /\ \A s \in Sessions : ReadKept(s)
    BY DEF GatesInv, GatesNext, gateVars, IInv, TypeOK, ItemsTypeOK
  <2>2. ASSUME NEW new, InsertItems(new) PROVE FALSE
    BY <2>2 DEF InsertItems, FinalStatuses
  <2>3. ASSUME UNCHANGED status PROVE FALSE
    BY <2>3
  <2>4. CASE CreationStep
    BY <2>2, <2>3, <2>4 DEF CreationStep, ReadRun, ReadWorkbenchRun, Calculate, CommitRun, CommitWorkbenchRun, InsertRun
  <2>5. CASE CreateTaxPeriod
    BY <2>2, <2>5 DEF CreateTaxPeriod, OpenItems
  <2>6. CASE ProposalStep \/ RunRowStep \/ UNCHANGED vars
    BY <2>3, <2>6 DEF ProposalStep, RunRowStep, reviewVars, vars
  <2>7. CASE RunHandlerStep
    BY <2>3, <2>7 DEF RunHandlerStep, ReadFinalize, ReadLock, ReadHandoffReady, ReadRecordFiling, Hold,
                      CommitFinalize, CommitLock, CommitHandoffReady, CommitRecordFiling
  <2>8. CASE ItemStep
    <3>1. ASSUME NEW u, NEW j, NEW to \in {"resolved", "rejected"}, ResolveItem(u, j, to)
          PROVE  FALSE
      BY <2>1, <3>1 DEF ResolveItem, FinalStatuses
    <3>2. ASSUME NEW s \in Sessions, WriteItems(s) PROVE Excused(i)
      <4>1. i \in session[s].items /\ status'[i] = session[s].arg
        BY <2>1, <3>2 DEF WriteItems
      <4>2. session'[s] = Idle
        BY <2>1, <3>2 DEF WriteItems
      <4>3. CASE session[s].op = "bulk_resolve"
        <5>1. session[s].arg \in {"resolved", "rejected"}
          BY <2>1, <4>3 DEF Requests, Idle, ItemRequests, BulkRequests, FinalizeRequests, PartnerRequests,
                            RunRequests, WorkbenchRequests, ItemRoutes, PartnerOps
        <5> QED
          BY <4>1, <5>1 DEF FinalStatuses
      <4>4. CASE session[s].op \in ItemRoutes
        <5>1. session[s].arg = Target[session[s].op]
          BY <2>1, <4>4 DEF ReadKept
        <5>2. session[s].op # "waive"
          BY <4>1, <5>1 DEF Target, FinalStatuses
        <5>3. session[s].op = "reopen" \/ session[s].op \in WorkingRoutes
          BY <4>4, <5>2 DEF ItemRoutes, WorkingRoutes
        <5>4. session[s].op \in WorkingRoutes => i \in since[s].closed
          BY <2>1, <4>1 DEF ReadKept
        <5> QED
          BY <4>1, <4>2, <5>3, <5>4 DEF Finishing
      <4> QED
        BY <3>2, <4>3, <4>4 DEF WriteItems
    <3> QED
      BY <2>3, <2>8, <3>1, <3>2 DEF ItemStep, ReadItem, ReadOpenItems, Rollback
  <2> QED
    BY <2>1, <2>4, <2>5, <2>6, <2>7, <2>8 DEF Next
<1> QED
  BY <1>1, GatesInvariance, PTL DEF GatesSpec, FinalLeftOnlyByReopen
=============================================================================
