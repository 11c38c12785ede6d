-------------------------- MODULE MappingVersions --------------------------
(***************************************************************************)
(* How an account gets its tax mapping (apps/api/src/modules/mapping,      *)
(* import and upload).  tax_mappings keeps every version of an account's   *)
(* mapping and flags the one in force.  Users override a mapping or decide *)
(* proposals; two queues of background jobs map the accounts that have no  *)
(* mapping.  No route locks a mapping: each reads the latest version,      *)
(* takes it out of force and inserts the next one, and what keeps two of   *)
(* them apart is UNIQUE (tenant, account, version), which fails the        *)
(* transaction that comes second.                                          *)
(*                                                                         *)
(* A queue delivers a job again when its worker loses the lock on it, once *)
(* at most and whether or not the first worker is still running; it does   *)
(* not retry a job that failed.                                            *)
(***************************************************************************)
EXTENDS Naturals, FiniteSets

CONSTANTS
  Accounts,    \* accounts of one tenant
  NoAccount,
  Proposals,   \* ids of mapping proposals
  NoProposal,
  Jobs,        \* ids of queued jobs
  NoJob,
  Sessions,    \* connections serving requests
  Workers,     \* connections of the background workers
  MaxVersion   \* bound on the versions of an account

ASSUME MappingAssumption ==
  /\ IsFiniteSet(Accounts) /\ IsFiniteSet(Sessions) /\ IsFiniteSet(Proposals)
  /\ NoAccount \notin Accounts /\ NoProposal \notin Proposals /\ NoJob \notin Jobs
  /\ Sessions \cap Workers = {}
  /\ {"ai", "override"} \cap Proposals = {}
  /\ MaxVersion \in Nat \ {0}

VARIABLES
  accounts,   \* the accounts an import has committed
  mappings,   \* tax_mappings rows; by is "ai", "override" or the proposal approved
  proposal,   \* mapping_proposals, by id; source is "carried" with carriesForward
  job,        \* the two queues' jobs, by id
  throttled,  \* queues inside the deduplication window of their last job
  tx          \* what each connection's transaction has read

vars == <<accounts, mappings, proposal, job, throttled, tx>>

Queues      == {"ai", "auto"}
Connections == Sessions \cup Workers

NoTx  == [op |-> "none", account |-> NoAccount, base |-> 0, proposal |-> NoProposal,
          job |-> NoJob, todo |-> {}]
NoRow == [account |-> NoAccount, source |-> "none", status |-> "none"]
NoEntry == [queue |-> "none", state |-> "none", stalled |-> FALSE]

RowsOf(a) == {r \in mappings : r.account = a}
Mapped    == {r.account : r \in mappings}

\* The latest version of an account's mapping, 0 without one.
Latest(a) == IF RowsOf(a) = {} THEN 0
             ELSE (CHOOSE r \in RowsOf(a) : \A q \in RowsOf(a) : q.version <= r.version).version

\* Wrong on purpose: the version is not unique.
NeverTaken(a, v) == FALSE

\* UNIQUE (tenant_id, account_id, version)
Taken(a, v) == \E r \in mappings : r.account = a /\ r.version = v

\* Wrong on purpose: the row read is left in force.
NextVersionBeside(a, base, by) ==
  mappings \cup {[account |-> a, version |-> base + 1, active |-> TRUE, by |-> by]}

\* Wrong on purpose: a number is skipped.
NextVersionSkips(a, base, by) ==
  {[r EXCEPT !.active = r.active /\ r.account # a] : r \in mappings}
    \cup {[account |-> a, version |-> base + 2, active |-> TRUE, by |-> by]}

\* The row read is taken out of force and the next version inserted.
NextVersion(a, base, by) ==
  {IF r.account = a /\ r.version = base THEN [r EXCEPT !.active = FALSE] ELSE r : r \in mappings}
    \cup {[account |-> a, version |-> base + 1, active |-> TRUE, by |-> by]}

Idle(c) == tx[c] = NoTx
End(c)  == tx' = [tx EXCEPT ![c] = NoTx]

-----------------------------------------------------------------------------
(* The queues. *)

\* addMappingJob, addAutoMappingJob: inside the window no job is added.
Enqueue(q) ==
  IF q \in throttled THEN UNCHANGED <<job, throttled>>
  ELSE /\ \E j \in Jobs : /\ job[j] = NoEntry
                          /\ job' = [job EXCEPT ![j] = [NoEntry EXCEPT !.queue = q, !.state = "waiting"]]
       /\ throttled' = throttled \cup {q}

WindowEnds(q) ==
  /\ q \in throttled
  /\ throttled' = throttled \ {q}
  /\ UNCHANGED <<accounts, mappings, proposal, job, tx>>

\* POST /mappings/run-ai
RunAi ==
  /\ Enqueue("ai")
  /\ UNCHANGED <<accounts, mappings, proposal, tx>>

\* A worker takes a job, begins its transaction and reads which accounts have
\* no mapping; then it classifies them, which may take minutes.
PickUp(w, j) ==
  /\ Idle(w) /\ job[j].state = "waiting"
  /\ job' = [job EXCEPT ![j].state = "active"]
  /\ tx' = [tx EXCEPT ![w] = [NoTx EXCEPT !.op = job[j].queue, !.job = j, !.todo = accounts \ Mapped]]
  /\ UNCHANGED <<accounts, mappings, proposal, throttled>>

\* Wrong on purpose: stalls are not counted.
StallUncounted(j) ==
  /\ job[j].state = "active"
  /\ job' = [job EXCEPT ![j].state = "waiting"]
  /\ UNCHANGED <<accounts, mappings, proposal, throttled, tx>>

\* The lock on an active job is lost.  The first time the job waits again,
\* the second time it has failed.
Stall(j) ==
  /\ job[j].state = "active"
  /\ job' = [job EXCEPT ![j].state = IF job[j].stalled THEN "failed" ELSE "waiting",
                        ![j].stalled = TRUE]
  /\ UNCHANGED <<accounts, mappings, proposal, throttled, tx>>

\* A worker that lost the lock cannot finish the job.
Finish(j, state) ==
  job' = IF job[j].state = "active" THEN [job EXCEPT ![j].state = state] ELSE job

\* classifyAccountsAI, fallbackClassify: the model may leave accounts out, the
\* rules give every account a class.
Classified(w) == SUBSET tx[w].todo

\* The rows the AI worker inserts.
AiInserts(w, got) ==
  {[account |-> a, version |-> 1, active |-> TRUE, by |-> "ai"] : a \in got}

\* Wrong on purpose: what is classified supersedes what the account has by now.
CommitAiSupersedes(w) ==
  /\ tx[w].op = "ai"
  /\ mappings' = {[r EXCEPT !.active = r.active /\ r.account \notin tx[w].todo] : r \in mappings}
       \cup {[account |-> a, version |-> Latest(a) + 1, active |-> TRUE, by |-> "ai"] : a \in tx[w].todo}
  /\ Finish(tx[w].job, "completed")
  /\ End(w)
  /\ UNCHANGED <<accounts, proposal, throttled>>

\* startMappingWorker, the inserts and the commit.  An insert that fails is
\* caught, but it has aborted the transaction: no row is kept, and the job
\* completes all the same.
CommitAi(w) ==
  /\ tx[w].op = "ai"
  /\ \/ \E got \in Classified(w) :
          /\ \A r \in AiInserts(w, got) : ~Taken(r.account, r.version)
          /\ mappings' = mappings \cup AiInserts(w, got)
     \/ UNCHANGED mappings
  /\ Finish(tx[w].job, "completed")
  /\ End(w)
  /\ UNCHANGED <<accounts, proposal, throttled>>

\* startAutoMappingWorker.  The first account's draft is followed by an event
\* whose provisionRunId is '', which is no uuid: with an account to map the
\* transaction is rolled back and the job fails.  No draft is ever committed,
\* so PATCH /mappings/:accountId/reject finds none.
CommitAuto(w) ==
  /\ tx[w].op = "auto"
  /\ Finish(tx[w].job, IF tx[w].todo = {} THEN "completed" ELSE "failed")
  /\ End(w)
  /\ UNCHANGED <<accounts, mappings, proposal, throttled>>

\* The language model or the database fails: the job fails.
WorkerFails(w) ==
  /\ tx[w].job # NoJob
  /\ Finish(tx[w].job, "failed")
  /\ End(w)
  /\ UNCHANGED <<accounts, mappings, proposal, throttled>>

-----------------------------------------------------------------------------
(* Imports of a trial balance. *)

\* POST /trial-balance: the rows are upserted; nobody else sees the account
\* before the commit.
BeginImport(s, a) ==
  /\ Idle(s) /\ a \notin accounts
  /\ tx' = [tx EXCEPT ![s] = [NoTx EXCEPT !.op = "import", !.account = a]]
  /\ UNCHANGED <<accounts, mappings, proposal, job, throttled>>

\* POST /upload/trial-balance: the same once the file has been parsed elsewhere.
BeginUpload(s, a) ==
  /\ Idle(s) /\ a \notin accounts
  /\ tx' = [tx EXCEPT ![s] = [NoTx EXCEPT !.op = "upload", !.account = a]]
  /\ UNCHANGED <<accounts, mappings, proposal, job, throttled>>

\* The job is queued before the commit, and stays queued without one.
EnqueueImport(s) ==
  /\ tx[s].op \in {"import", "upload"}
  /\ Enqueue("auto")
  /\ tx' = [tx EXCEPT ![s].op = "imported"]
  /\ UNCHANGED <<accounts, mappings, proposal>>

\* An upload is kept when the queue cannot be reached.
CommitImport(s) ==
  /\ tx[s].op \in {"imported", "upload"}
  /\ accounts' = accounts \cup {tx[s].account}
  /\ End(s)
  /\ UNCHANGED <<mappings, proposal, job, throttled>>

-----------------------------------------------------------------------------
(* The routes of a mapping and of a proposal. *)

\* POST /mappings/:accountId/override
ReadOverride(s, a) ==
  /\ Idle(s) /\ a \in accounts
  /\ tx' = [tx EXCEPT ![s] = [NoTx EXCEPT !.op = "override", !.account = a, !.base = Latest(a)]]
  /\ UNCHANGED <<accounts, mappings, proposal, job, throttled>>

CommitOverride(s) ==
  /\ tx[s].op = "override"
  /\ tx[s].base < MaxVersion /\ ~Taken(tx[s].account, tx[s].base + 1)
  /\ mappings' = NextVersion(tx[s].account, tx[s].base, "override")
  /\ End(s)
  /\ UNCHANGED <<accounts, proposal, job, throttled>>

\* POST /proposals: any caller may name "carry_forward" as the source.
Propose(p, a, source) ==
  /\ proposal[p] = NoRow /\ a \in accounts \cup {NoAccount}
  /\ proposal' = [proposal EXCEPT ![p] = [account |-> a, source |-> source, status |-> "pending"]]
  /\ UNCHANGED <<accounts, mappings, job, throttled, tx>>

\* FOR UPDATE: a proposal being decided is held by one connection.
Deciding(p) == \E s \in Sessions : tx[s].op = "decide" /\ tx[s].proposal = p

\* POST /proposals/:id/decide
ReadDecide(s, p) ==
  /\ Idle(s) /\ ~Deciding(p) /\ proposal[p].status = "pending"
  /\ tx' = [tx EXCEPT ![s] = [NoTx EXCEPT !.op = "decide", !.proposal = p,
                              !.account = proposal[p].account, !.base = Latest(proposal[p].account)]]
  /\ UNCHANGED <<accounts, mappings, proposal, job, throttled>>

CommitApprove(s) ==
  /\ tx[s].op = "decide"
  /\ proposal' = [proposal EXCEPT ![tx[s].proposal].status = "approved"]
  /\ IF tx[s].account = NoAccount THEN UNCHANGED mappings
     ELSE /\ tx[s].base < MaxVersion /\ ~Taken(tx[s].account, tx[s].base + 1)
          /\ mappings' = NextVersion(tx[s].account, tx[s].base, tx[s].proposal)
  /\ End(s)
  /\ UNCHANGED <<accounts, job, throttled>>

CommitReject(s) ==
  /\ tx[s].op = "decide"
  /\ proposal' = [proposal EXCEPT ![tx[s].proposal].status = "rejected"]
  /\ End(s)
  /\ UNCHANGED <<accounts, mappings, job, throttled>>

OpenOf(a, sources) ==
  {p \in Proposals : /\ proposal[p].account = a /\ proposal[p].status = "pending"
                     /\ proposal[p].source \in sources}

\* Wrong on purpose: accounts with a pending carry-forward are not skipped.
ToCarryAll == {a \in accounts : \E r \in RowsOf(a) : r.active}

\* The accounts in force that have no carry-forward pending.
ToCarry == {a \in accounts : (\E r \in RowsOf(a) : r.active) 
                           /\ OpenOf(a, {"carried", "carry_forward"}) = {}}

\* POST /proposals/carry-forward
ReadCarry(s) ==
  /\ Idle(s) /\ ToCarry # {}
  /\ tx' = [tx EXCEPT ![s] = [NoTx EXCEPT !.op = "carry", !.todo = ToCarry]]
  /\ UNCHANGED <<accounts, mappings, proposal, job, throttled>>

CommitCarry(s) ==
  /\ tx[s].op = "carry"
  /\ \E id \in [tx[s].todo -> {p \in Proposals : proposal[p] = NoRow}] :
       /\ \A a, b \in tx[s].todo : id[a] = id[b] => a = b
       /\ proposal' = [p \in Proposals |->
            IF \E a \in tx[s].todo : id[a] = p
              THEN [account |-> CHOOSE a \in tx[s].todo : id[a] = p,
                    source |-> "carried", status |-> "pending"]
              ELSE proposal[p]]
  /\ End(s)
  /\ UNCHANGED <<accounts, mappings, job, throttled>>

\* A request fails: a version already taken, a deadlock, a lost connection.
Rollback(s) ==
  /\ ~Idle(s)
  /\ End(s)
  /\ UNCHANGED <<accounts, mappings, proposal, job, throttled>>

-----------------------------------------------------------------------------
Init ==
  /\ accounts = {} /\ mappings = {}
  /\ proposal = [p \in Proposals |-> NoRow]
  /\ job = [j \in Jobs |-> NoEntry]
  /\ throttled = {}
  /\ tx = [c \in Connections |-> NoTx]

WorkerEnds(w) == CommitAi(w) \/ CommitAuto(w) \/ WorkerFails(w)

Request(s) ==
  \/ \E a \in Accounts : BeginImport(s, a) \/ BeginUpload(s, a)
  \/ EnqueueImport(s) \/ CommitImport(s)
  \/ \E a \in Accounts : ReadOverride(s, a)
  \/ CommitOverride(s)
  \/ \E p \in Proposals : ReadDecide(s, p)
  \/ CommitApprove(s) \/ CommitReject(s)
  \/ ReadCarry(s) \/ CommitCarry(s)
  \/ Rollback(s)

Next ==
  \/ \E s \in Sessions : Request(s)
  \/ \E p \in Proposals, a \in Accounts \cup {NoAccount}, src \in {"user", "carry_forward"} :
       Propose(p, a, src)
  \/ RunAi
  \/ \E q \in Queues : WindowEnds(q)
  \/ \E w \in Workers, j \in Jobs : PickUp(w, j)
  \/ \E j \in Jobs : Stall(j)
  \/ \E w \in Workers : WorkerEnds(w)

Spec == Init /\ [][Next]_vars

\* startAllWorkers: while the process runs, a waiting job is taken and a taken
\* one ends, the calls to the language model having a time limit.
Fairness ==
  /\ \A j \in Jobs : WF_vars(\E w \in Workers : PickUp(w, j))
  /\ \A w \in Workers : WF_vars(WorkerEnds(w))

FairSpec == Spec /\ Fairness

-----------------------------------------------------------------------------
(* Properties. *)

MappingRows ==
  [account : Accounts, version : 1 .. MaxVersion, active : BOOLEAN,
   by : {"ai", "override"} \cup Proposals]

ProposalRows ==
  [account : Accounts \cup {NoAccount}, source : {"user", "carry_forward", "carried"},
   status : {"pending", "approved", "rejected"}]

QueueEntries ==
  [queue : Queues, state : {"waiting", "active", "completed", "failed"}, stalled : BOOLEAN]

Transactions ==
  [op : {"none", "ai", "auto", "import", "upload", "imported", "override", "decide", "carry"},
   account : Accounts \cup {NoAccount}, base : 0 .. MaxVersion,
   proposal : Proposals \cup {NoProposal}, job : Jobs \cup {NoJob}, todo : SUBSET Accounts]

TypeOK ==
  /\ accounts \subseteq Accounts
  /\ mappings \subseteq MappingRows
  /\ proposal \in [Proposals -> {NoRow} \cup ProposalRows]
  /\ job \in [Jobs -> {NoEntry} \cup QueueEntries]
  /\ throttled \subseteq Queues
  /\ tx \in [Connections -> Transactions]

\* The calculation keys the rows in force by account, so of two for one account
\* an arbitrary one would decide: whoever overlaps, an account has at most one
\* row in force, and it is the newest.  And a decision is applied exactly once,
\* sent twice or not: an approved proposal with an account is behind one version
\* of its mapping, any other proposal behind none.
OneActivePerAccount ==
  /\ TypeOK
  /\ \A r, q \in mappings :
       r.account = q.account /\ r.active => q = r \/ (q.version < r.version /\ ~q.active)
  /\ \A p \in Proposals :
       Cardinality({r \in mappings : r.by = p}) =
         IF proposal[p].status = "approved" /\ proposal[p].account # NoAccount THEN 1 ELSE 0

\* Two carry-forward requests may each find nothing pending; but an account
\* never has more carried proposals waiting, or about to be, than requests can
\* overlap (proposals a user files under that source aside).
CarryForwardBounded ==
  \A a \in Accounts :
    Cardinality(OpenOf(a, {"carried"}))
      + Cardinality({s \in Sessions : tx[s].op = "carry" /\ a \in tx[s].todo}) <= Cardinality(Sessions)

\* What a person decided is replaced by another person's decision only: no
\* worker, late or run twice, takes a human mapping out of force.
HumanDecisionStands ==
  [][\A r \in mappings : r.by # "ai" /\ r.active /\ r \notin mappings' =>
       \E q \in mappings' : q.account = r.account /\ q.active /\ q.by # "ai"]_vars

\* A job that is queued is completed or has failed in the end, delivered twice
\* or not: GET /mappings/status/:jobId, which the client polls, comes to a result.
QueuedJobEnds ==
  \A j \in Jobs : job[j].state = "waiting" ~> job[j].state \in {"completed", "failed"}

\* tax_mappings implements a versioned record with accounts as keys.
Versions == INSTANCE VersionedRecord WITH
  Keys    <- Accounts,
  latest  <- [a \in Accounts |-> Latest(a)],
  inForce <- [a \in Accounts |-> {r.version : r \in {q \in RowsOf(a) : q.active}}]

MappingsAreVersioned == Versions!Spec
=============================================================================
