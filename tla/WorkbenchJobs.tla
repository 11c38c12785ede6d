--------------------------- MODULE WorkbenchJobs ---------------------------
(***************************************************************************)
(* The job ledger of the workbench (apps/api/src/modules/workbench: jobs,  *)
(* operations, workbench.routes).  A request imports a trial balance or    *)
(* calculates a run inside one transaction, under an idempotency key that  *)
(* is unique in workbench_jobs: a request whose key another transaction    *)
(* has inserted waits until that one ends, and is then answered with the   *)
(* recorded result or does the work itself.                                *)
(*                                                                         *)
(* An import creates the accounts it does not know and writes one row of   *)
(* trial_balance for each of its rows, in the order of the request.  The   *)
(* rows it has written stay locked until it ends, so imports wait for each *)
(* other and may wait in a circle; the database then aborts one of them.   *)
(* All imports are of one entity and period.                               *)
(***************************************************************************)
EXTENDS Naturals, Sequences, FiniteSets

CONSTANTS
  Keys,      \* idempotency keys
  NoKey,
  Docs,      \* source documents
  NoDoc,
  Accounts,  \* external ids of accounts
  Rows,      \* per document, the accounts its import sends, in order
  Sessions   \* connections serving requests

ASSUME JobsAssumption ==
  /\ Rows \in [Docs -> Seq(Accounts)]
  /\ \A d \in Docs : Rows[d] # <<>>
  /\ NoKey \notin Keys /\ NoDoc \notin Docs

VARIABLES
  job,      \* workbench_jobs, by key: the results recorded
  effects,  \* how often the work of each key has been committed
  known,    \* the accounts that exist
  tb,       \* trial_balance: the document each account's row is from
  runs,     \* provision_runs made by calculations, with the rows they read
  tx        \* what each session's transaction is doing

vars == <<job, effects, known, tb, runs, tx>>

NoJob == [kind |-> "none", doc |-> NoDoc, short |-> FALSE]
NoTx  == [op |-> "none", phase |-> "none", key |-> NoKey, doc |-> NoDoc, todo |-> <<>>,
          seen |-> {}, made |-> {}, written |-> {}, short |-> FALSE]

RowsOf(d)     == {Rows[d][i] : i \in DOMAIN Rows[d]}
Succeeded(k)  == job[k] # NoJob
End(c)        == tx' = [tx EXCEPT ![c] = NoTx]
Idle(c)       == tx[c] = NoTx
Read(d)       == {a \in Accounts : tb[a] = d}

-----------------------------------------------------------------------------
(* The key. *)

\* POST /import, /runs and /runs/:id/recalculate: a request with any key.
Request(c, op, k, d) ==
  /\ Idle(c)
  /\ tx' = [tx EXCEPT ![c] = [NoTx EXCEPT !.op = op, !.phase = "key", !.key = k, !.doc = d]]
  /\ UNCHANGED <<job, effects, known, tb, runs>>

\* Wrong on purpose: the key is looked up and not inserted.
UnheldKey(k) == FALSE

\* Another transaction has inserted the key and has not ended.
KeyHeld(k) == \E c \in Sessions : tx[c].key = k /\ tx[c].phase \in {"work", "loaded"}

\* createWorkbenchJob finds the key: the recorded result is the answer, whatever
\* the request asks for.
Replay(c) ==
  /\ tx[c].phase = "key" /\ ~KeyHeld(tx[c].key) /\ Succeeded(tx[c].key)
  /\ End(c)
  /\ UNCHANGED <<job, effects, known, tb, runs>>

\* runTrialBalanceImport goes through the rows twice: for their accounts, then to
\* write them.
Steps(d) == [i \in DOMAIN Rows[d] |-> <<"account", Rows[d][i]>>]
              \o [i \in DOMAIN Rows[d] |-> <<"row", Rows[d][i]>>]

\* createWorkbenchJob inserts the key and executeWorkbenchJob begins the work: the
\* import reads which of its accounts exist.
TakeKey(c) ==
  /\ tx[c].phase = "key" /\ ~KeyHeld(tx[c].key) /\ ~Succeeded(tx[c].key)
  /\ tx' = [tx EXCEPT ![c].phase = "work", ![c].seen = known \cap RowsOf(tx[c].doc),
                      ![c].todo = IF tx[c].op = "import" THEN Steps(tx[c].doc) ELSE <<>>]
  /\ UNCHANGED <<job, effects, known, tb, runs>>

-----------------------------------------------------------------------------
(* runTrialBalanceImport. *)

Importing(c) == tx[c].op = "import" /\ tx[c].phase = "work"
NextStep(c)  == Head(tx[c].todo)

\* The account keys and rows this transaction has locked.
Locked(c) == {<<"account", a>> : a \in tx[c].made} \cup {<<"row", a>> : a \in tx[c].written}

\* The next statement would write what another transaction has locked.
Waits(c, d) ==
  /\ Importing(c) /\ c # d /\ tx[c].todo # <<>>
  /\ NextStep(c) \in Locked(d)

\* Wrong on purpose: an account that has appeared is tried again.
CreateAccountRetries(c) ==
  LET a == NextStep(c)[2] IN
  /\ Importing(c) /\ tx[c].todo # <<>> /\ NextStep(c)[1] = "account"
  /\ a \notin tx[c].seen \cup tx[c].made
  /\ \A d \in Sessions : ~Waits(c, d)
  /\ a \notin known
  /\ tx' = [tx EXCEPT ![c].todo = Tail(@), ![c].made = @ \cup {a}]
  /\ UNCHANGED <<job, effects, known, tb, runs>>

\* The accounts it has, in the map of those it read and those it created.
Has(c, a) == a \in tx[c].seen \cup tx[c].made

\* An account it has is passed over.
SkipAccount(c) ==
  /\ Importing(c) /\ tx[c].todo # <<>> /\ NextStep(c)[1] = "account"
  /\ Has(c, NextStep(c)[2])
  /\ tx' = [tx EXCEPT ![c].todo = Tail(@)]
  /\ UNCHANGED <<job, effects, known, tb, runs>>

\* INSERT INTO accounts ... ON CONFLICT DO NOTHING: an account that has appeared
\* since is not inserted, and not read either.
CreateAccount(c) ==
  LET a == NextStep(c)[2] IN
  /\ Importing(c) /\ tx[c].todo # <<>> /\ NextStep(c)[1] = "account"
  /\ ~Has(c, a)
  /\ \A d \in Sessions : ~Waits(c, d)
  /\ tx' = [tx EXCEPT ![c].todo = Tail(@), ![c].made = IF a \in known THEN @ ELSE @ \cup {a}]
  /\ UNCHANGED <<job, effects, known, tb, runs>>

\* The upsert of one row; the rows of an account it does not have are passed over.
WriteRow(c) ==
  LET a == NextStep(c)[2] IN
  /\ Importing(c) /\ tx[c].todo # <<>> /\ NextStep(c)[1] = "row"
  /\ IF Has(c, a)
     THEN /\ \A d \in Sessions : ~Waits(c, d)
          /\ tx' = [tx EXCEPT ![c].todo = Tail(@), ![c].written = @ \cup {a}]
     ELSE tx' = [tx EXCEPT ![c].todo = Tail(@), ![c].short = TRUE]
  /\ UNCHANGED <<job, effects, known, tb, runs>>

\* Wrong on purpose: only rows without a document are taken over.
TakesFree(c, a) == a \in tx[c].written /\ tb[a] = NoDoc

\* ON CONFLICT DO UPDATE: the row is the importing document's from now on.
Takes(c, a) == a \in tx[c].written

\* executeWorkbenchJob records the result and the transaction commits.
CommitImport(c) ==
  /\ Importing(c) /\ tx[c].todo = <<>>
  /\ tb' = [a \in Accounts |-> IF Takes(c, a) THEN tx[c].doc ELSE tb[a]]
  /\ known' = known \cup tx[c].made
  /\ job' = [job EXCEPT ![tx[c].key] = [kind |-> "import", doc |-> tx[c].doc, short |-> tx[c].short]]
  /\ effects' = [effects EXCEPT ![tx[c].key] = @ + 1]
  /\ End(c)
  /\ UNCHANGED runs

-----------------------------------------------------------------------------
(* runWorkbenchCalculationJob. *)

\* Wrong on purpose: rows of an import that has not committed are read too.
DirtyRows(d) == Read(d) \cup UNION {tx[c].written : c \in {s \in Sessions : tx[s].doc = d}}

\* loadWorkbenchData: the rows linked to the document.
LoadedRows(d) == Read(d)

\* Wrong on purpose: the job goes on without rows.
LoadAnyRows(c) ==
  /\ tx[c].op = "calculate" /\ tx[c].phase = "work"
  /\ tx' = [tx EXCEPT ![c].phase = "loaded", ![c].seen = LoadedRows(tx[c].doc)]
  /\ UNCHANGED <<job, effects, known, tb, runs>>

\* The rows are read; without one the job fails.
LoadRows(c) ==
  /\ tx[c].op = "calculate" /\ tx[c].phase = "work"
  /\ LoadedRows(tx[c].doc) # {}
  /\ tx' = [tx EXCEPT ![c].phase = "loaded", ![c].seen = LoadedRows(tx[c].doc)]
  /\ UNCHANGED <<job, effects, known, tb, runs>>

\* The run, its result and its items are inserted.
CommitCalculation(c) ==
  /\ tx[c].phase = "loaded"
  /\ runs' = runs \cup {[key |-> tx[c].key, doc |-> tx[c].doc, rows |-> tx[c].seen]}
  /\ job' = [job EXCEPT ![tx[c].key] = [kind |-> "calculate", doc |-> tx[c].doc, short |-> FALSE]]
  /\ effects' = [effects EXCEPT ![tx[c].key] = @ + 1]
  /\ End(c)
  /\ UNCHANGED <<known, tb>>

-----------------------------------------------------------------------------
\* The handler throws (no rows, a blocked gate, an error) or the server stops: the
\* key and everything else it has written are gone.
Rollback(c) ==
  /\ ~Idle(c) /\ End(c)
  /\ UNCHANGED <<job, effects, known, tb, runs>>

\* The sessions that wait, however far, for what c has locked.
WaitsInCircle(c) ==
  \E cycle \in SUBSET Sessions :
    c \in cycle /\ \A s \in cycle : \E d \in cycle : Waits(s, d)

\* PostgreSQL aborts a transaction of a circle.
BreakDeadlock(c) == WaitsInCircle(c) /\ Rollback(c)

Init ==
  /\ job = [k \in Keys |-> NoJob]
  /\ effects = [k \in Keys |-> 0]
  /\ known \in SUBSET Accounts
  /\ tb = [a \in Accounts |-> NoDoc]
  /\ runs = {}
  /\ tx = [c \in Sessions |-> NoTx]

\* What a handler does by itself.
Work(c) ==
  \/ Replay(c) \/ TakeKey(c)
  \/ SkipAccount(c) \/ CreateAccount(c) \/ WriteRow(c) \/ CommitImport(c)
  \/ LoadRows(c) \/ CommitCalculation(c)

\* A calculation that finds no rows throws.
NoRows(c) == tx[c].op = "calculate" /\ tx[c].phase = "work" /\ LoadedRows(tx[c].doc) = {} /\ Rollback(c)

Next ==
  \/ \E c \in Sessions : Work(c) \/ NoRows(c) \/ Rollback(c) \/ BreakDeadlock(c)
  \/ \E c \in Sessions, op \in {"import", "calculate"}, k \in Keys, d \in Docs : Request(c, op, k, d)

Spec == Init /\ [][Next]_vars

\* A handler that can go on, or that can go on again and again because what it
\* waits for becomes free, does; the database breaks every circle.  No request has
\* to come, and none has to fail otherwise.
Fairness == \A c \in Sessions : SF_vars(Work(c)) /\ WF_vars(NoRows(c)) /\ WF_vars(BreakDeadlock(c))

FairSpec == Spec /\ Fairness

-----------------------------------------------------------------------------
(* Properties. *)

\* Every variable has its type.
TypeOK ==
  /\ job \in [Keys -> [kind : {"none", "import", "calculate"}, doc : Docs \cup {NoDoc}, short : BOOLEAN]]
  /\ effects \in [Keys -> Nat] /\ known \subseteq Accounts
  /\ tb \in [Accounts -> Docs \cup {NoDoc}]
  /\ runs \subseteq [key : Keys, doc : Docs, rows : (SUBSET Accounts) \ {{}}]
  /\ tx \in [Sessions -> [op : {"none", "import", "calculate"}, phase : {"none", "key", "work", "loaded"},
                          key : Keys \cup {NoKey}, doc : Docs \cup {NoDoc},
                          todo : Seq({"account", "row"} \X Accounts), short : BOOLEAN,
                          seen : SUBSET Accounts, made : SUBSET Accounts, written : SUBSET Accounts]]

\* A key's work takes effect once, and what is recorded for it stays.
Ledger == INSTANCE OnceByKey WITH
  outcome <- job, effects <- effects, NoOutcome <- NoJob,
  Outcomes <- [kind : {"import", "calculate"}, doc : Docs, short : BOOLEAN]

OnceByKey == Ledger!Spec

\* The import of document d is recorded, complete or short.
Imported(d, short) == \E k \in Keys : job[k] = [kind |-> "import", doc |-> d, short |-> short]

\* An import that counts every row of its request as inserted leaves its document
\* owning all of them, whatever was imported before and beside it.
CompleteImportOwnsItsRows ==
  [][\A k \in Keys :
       job[k] = NoJob /\ job'[k].kind = "import" /\ ~job'[k].short
         => {a \in Accounts : tb'[a] = job'[k].doc} = RowsOf(job'[k].doc)]_vars

\* A run was calculated from all the rows of its document, unless another document's
\* import has taken rows over or the document's own import was short.
PartialInputExplained ==
  /\ TypeOK
  /\ \A r \in runs : r.rows # RowsOf(r.doc) =>
       Imported(r.doc, TRUE) \/ \E e \in Docs \ {r.doc} : RowsOf(e) \cap RowsOf(r.doc) # {}
                                                        /\ (Imported(e, FALSE) \/ Imported(e, TRUE))

\* Every request ends: with an answer, or because it failed.
RequestsEnd == \A c \in Sessions : ~Idle(c) ~> Idle(c)
=============================================================================
