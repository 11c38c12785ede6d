--------------------------- MODULE ReviewLifecycle ---------------------------
(***************************************************************************)
(* The life of a review item (apps/api/src/modules/review and the two      *)
(* resolve endpoints of modules/provision), with the API's request         *)
(* handlers running concurrently.                                          *)
(*                                                                         *)
(* Every handler is one READ COMMITTED transaction.  The item routes read  *)
(* the item without locking it, decide, and then update it by primary key  *)
(* whatever it has become; such a handler is two actions here, a read that *)
(* leaves a request in its session and the write that commits it.  A       *)
(* handler whose only reads are of rows it has locked is one action.       *)
(***************************************************************************)
EXTENDS Naturals, FiniteSets

CONSTANTS
  Users,     \* authenticated users of one tenant
  RoleOf,    \* the role in each user's token
  Nobody,    \* the NULL of a user column
  Runs,      \* ids a provision run may get
  NoRun,     \* the NULL of a run column
  Items,     \* ids a review item may get
  RunOf,     \* the run an item belongs to, or NoRun
  Sessions   \* database connections serving requests

Preparers == {"preparer", "reviewer", "partner", "admin"}
Reviewers == {"reviewer", "partner", "admin"}
Partners  == {"partner", "admin"}
Roles     == Preparers \cup {"client_readonly", "auditor"}

ASSUME UsersAssumption == RoleOf \in [Users -> Roles] /\ Nobody \notin Users
ASSUME ItemsAssumption == RunOf \in [Items -> Runs \cup {NoRun}] /\ NoRun \notin Runs

OpenStatuses  == {"open", "in_progress", "waiting_for_evidence"}
FinalStatuses == {"resolved", "rejected", "waived"}
Statuses      == OpenStatuses \cup FinalStatuses

VARIABLES
  status,      \* status column of each item, "absent" before it is inserted
  resolvedBy,  \* resolved_by_user_id of each item
  session      \* what each connection's handler has read and will write

reviewVars == <<status, resolvedBy, session>>

ItemsOf(r) == {i \in Items : RunOf[i] = r}

(***************************************************************************)
(* A request in flight: the run row it holds FOR UPDATE (or NoRun), the    *)
(* items it will write, the user it will store and the value it will       *)
(* write.                                                                  *)
(***************************************************************************)
Idle == [op |-> "idle", run |-> NoRun, items |-> {}, by |-> Nobody, arg |-> "none"]

HoldsRow(s, r) == session[s].run = r
RowFree(r)     == \A s \in Sessions : ~HoldsRow(s, r)

\* A handler that is one action still needs a connection to run on.
Connected == \E s \in Sessions : session[s] = Idle

-----------------------------------------------------------------------------
(* The status machine of review-lifecycle.ts. *)

Transitions ==
  [open                 |-> {"in_progress", "waiting_for_evidence"} \cup FinalStatuses,
   in_progress          |-> {"waiting_for_evidence"} \cup FinalStatuses,
   waiting_for_evidence |-> {"in_progress"} \cup FinalStatuses,
   resolved             |-> {},
   rejected             |-> {},
   waived               |-> {}]

ItemRoutes == {"start", "request_evidence", "attach_evidence", "waive", "reopen"}

\* Wrong on purpose: start also picks up a resolved item.
SourcesStartClosed ==
  [start            |-> {"open", "waiting_for_evidence", "resolved"},
   request_evidence |-> {"in_progress", "open"},
   attach_evidence  |-> {"waiting_for_evidence", "in_progress", "resolved"},
   waive            |-> OpenStatuses,
   reopen           |-> FinalStatuses]

\* The statuses each route accepts, the one it writes, and who may call it.
Sources ==
  [start            |-> {"open", "waiting_for_evidence"},
   request_evidence |-> {"in_progress", "open"},
   attach_evidence  |-> {"waiting_for_evidence", "in_progress"},
   waive            |-> OpenStatuses,
   reopen           |-> FinalStatuses]

Target ==
  [start            |-> "in_progress",
   request_evidence |-> "waiting_for_evidence",
   attach_evidence  |-> "in_progress",
   waive            |-> "waived",
   reopen           |-> "open"]

Callers ==
  [start            |-> Preparers,
   request_evidence |-> Preparers,
   attach_evidence  |-> Preparers,
   waive            |-> Partners,
   reopen           |-> Reviewers]

\* The routes that go through assertTransition, hence through the table too.
TableRoutes == {"start", "request_evidence", "waive"}

Accepts(op, from) ==
  /\ from \in Sources[op]
  /\ op \in TableRoutes => Target[op] \in Transitions[from]

\* Wrong on purpose: reopen forgets to clear the resolver.
SigningOpsNoClear == {"waive", "bulk_resolve"}

\* The writes that set resolved_by_user_id: a decision signs, a reopen clears.
SigningOps == {"waive", "bulk_resolve", "reopen"}

-----------------------------------------------------------------------------
ReviewInit ==
  /\ status     = [i \in Items |-> "absent"]
  /\ resolvedBy = [i \in Items |-> Nobody]
  /\ session    = [s \in Sessions |-> Idle]

\* Wrong on purpose: the insert leaves the status to the client.
InsertItemsUnchecked(new) ==
  /\ \A i \in new : status[i] = "absent"
  /\ status' = [i \in Items |-> IF i \in new THEN "pending" ELSE status[i]]
  /\ UNCHANGED resolvedBy

\* Rows inserted with status 'open' and no resolver.
InsertItems(new) ==
  /\ \A i \in new : status[i] = "absent"
  /\ status' = [i \in Items |-> IF i \in new THEN "open" ELSE status[i]]
  /\ UNCHANGED resolvedBy

OpenItems(new) == Connected /\ InsertItems(new) /\ UNCHANGED session

\* start, request-evidence, attach-evidence, waive and reopen, up to the check.
\* Only a waiver stores the caller in the item.
ReadItem(s, u, op, i) ==
  /\ session[s] = Idle
  /\ RoleOf[u] \in Callers[op]
  /\ status[i] # "absent"
  /\ Accepts(op, status[i])
  /\ session' = [session EXCEPT ![s] =
       [op |-> op, run |-> NoRun, items |-> {i}, arg |-> Target[op],
        by |-> IF op = "waive" THEN u ELSE Nobody]]
  /\ UNCHANGED <<status, resolvedBy>>

\* bulk-resolve, up to the list of the run's open items; it keeps the run row.
ReadOpenItems(s, u, r, to) ==
  /\ session[s] = Idle
  /\ RoleOf[u] \in Preparers
  /\ RowFree(r)
  /\ session' = [session EXCEPT ![s] =
       [op |-> "bulk_resolve", run |-> r, by |-> u, arg |-> to,
        items |-> {i \in ItemsOf(r) : status[i] = "open"}]]
  /\ UNCHANGED <<status, resolvedBy>>

\* The updates by primary key that end these handlers, and their commit.
WriteItems(s) ==
  LET req == session[s] IN
  /\ req.op \in ItemRoutes \cup {"bulk_resolve"}
  /\ status' = [i \in Items |-> IF i \in req.items THEN req.arg ELSE status[i]]
  /\ resolvedBy' = IF req.op \in SigningOps
                   THEN [i \in Items |-> IF i \in req.items THEN req.by ELSE resolvedBy[i]]
                   ELSE resolvedBy
  /\ session' = [session EXCEPT ![s] = Idle]

\* A handler that throws, or whose connection is lost, rolls back.
Rollback(s) ==
  /\ session[s] # Idle
  /\ session' = [session EXCEPT ![s] = Idle]
  /\ UNCHANGED <<status, resolvedBy>>

\* POST review-items/:itemId/resolve holds the run row and never looks at the
\* status the item has.
ResolveItem(u, i, to) ==
  /\ Connected
  /\ RoleOf[u] \in Preparers
  /\ RunOf[i] # NoRun /\ RowFree(RunOf[i])
  /\ status[i] # "absent"
  /\ status'     = [status EXCEPT ![i] = to]
  /\ resolvedBy' = [resolvedBy EXCEPT ![i] = u]
  /\ UNCHANGED session

ReviewNext ==
  \/ \E i \in Items : OpenItems({i})
  \/ \E s \in Sessions, u \in Users, op \in ItemRoutes, i \in Items : ReadItem(s, u, op, i)
  \/ \E s \in Sessions, u \in Users, r \in Runs, to \in {"resolved", "rejected"} :
       ReadOpenItems(s, u, r, to)
  \/ \E s \in Sessions : WriteItems(s)
  \/ \E s \in Sessions : Rollback(s)
  \/ \E u \in Users, i \in Items, to \in {"resolved", "rejected"} : ResolveItem(u, i, to)

ReviewSpec == ReviewInit /\ [][ReviewNext]_reviewVars

-----------------------------------------------------------------------------
(* Properties. *)

ItemRequests ==
  [op : ItemRoutes, run : {NoRun}, items : SUBSET Items, by : Users \cup {Nobody},
   arg : Statuses]
BulkRequests ==
  [op : {"bulk_resolve"}, run : Runs, items : SUBSET Items, by : Users,
   arg : {"resolved", "rejected"}]

ItemsTypeOK ==
  /\ status \in [Items -> Statuses \cup {"absent"}]
  /\ resolvedBy \in [Items -> Users \cup {Nobody}]

\* The columns and the requests in flight have the shape the code gives them.
ReviewTypeOK ==
  /\ ItemsTypeOK
  /\ session \in [Sessions -> {Idle} \cup ItemRequests \cup BulkRequests]

\* However the handlers interleave, a closed item names who closed it, a waived
\* one names a partner or an admin (waive route, requireRole), and an item that
\* is open names nobody (reopen clears the resolver).
DecisionSigned ==
  \A i \in Items :
    /\ status[i] \in FinalStatuses => resolvedBy[i] # Nobody
    /\ status[i] = "waived" => RoleOf[resolvedBy[i]] \in Partners
    /\ status[i] = "open" => resolvedBy[i] = Nobody

\* One row lock per run: two handlers never hold the same run row.
RowLockExclusive ==
  \A s, t \in Sessions : session[s].run # NoRun /\ session[s].run = session[t].run => s = t
=============================================================================
