----------------------------- MODULE AgentTrace -----------------------------
(* The agents of a provision calculation and the trace they leave.
   POST /provision/run works in one transaction on one client of the pool: it
   asks the Eve agent for the figures, falls back to the ledger's own when the
   agent fails, stores the result, starts the three subagents without waiting
   for them, and commits.  A subagent is handed the transaction: when its
   language model has answered, it writes its outcome on that client, whoever
   uses the client by then.  The runtime role is subject to row-level security
   (bootstrap-roles.sql): a statement sees and writes the rows of the tenant
   that the client's current transaction has set, and none without one. *)
EXTENDS Naturals, FiniteSets

CONSTANTS Calcs,        \* POST /provision/run requests
          Tenants,      \* whose users make the requests
          Clients,      \* the pool's clients (config/db.ts: max)
          Swarm,        \* the subagents that a calculation starts
          NoCalc, NoClient

Subagents == {"mapping_agent", "audit_defense", "credit_miner"}
Analysis  == "eve_provision_analysis"
Workflows == Swarm \cup {Analysis}

ASSUME SwarmAssumption == Swarm \subseteq Subagents
ASSUME AnalysisAssumption == Analysis \notin Swarm
ASSUME NobodyAssumption == NoCalc \notin Calcs /\ NoClient \notin Clients

Settled == {"completed", "failed", "timeout", "fallback_used"}

VARIABLES client,   \* [Clients -> who has it, is its tenant set, is its transaction aborted]
          calc,     \* [Calcs -> the request's tenant, where it is, and its client]
          result,   \* [Calcs -> the mode of the run and where its figures come from]
          trace,    \* [Calcs -> [Workflows -> the ai_runs row, committed and written]]
          event,    \* [Calcs -> [Workflows -> the provision_events row of the outcome]]
          agent     \* [Calcs -> [Swarm -> where the subagent is, and its answer]]

vars == <<client, calc, result, trace, event, agent>>

Idle     == [holder |-> NoCalc, tenant |-> FALSE, aborted |-> FALSE]
Waiting  == [tenant : Tenants, at : {"waiting"}, client : {NoClient}]
NoResult == [mode |-> "none", figures |-> "none"]
NoRow    == [saved |-> "absent", staged |-> "absent"]
NoAgent  == [at |-> "idle", answer |-> "none"]

Init ==
  /\ client = [c \in Clients |-> Idle]
  /\ calc \in [Calcs -> Waiting]
  /\ result = [q \in Calcs |-> NoResult]
  /\ trace = [q \in Calcs |-> [w \in Workflows |-> NoRow]]
  /\ event = [q \in Calcs |-> [w \in Workflows |-> NoRow]]
  /\ agent = [q \in Calcs |-> [w \in Swarm |-> NoAgent]]

Ended(q)     == calc[q].at \in {"committed", "lost", "failed"}
Committed(q) == calc[q].at = "committed"
Free(c)      == client[c].holder = NoCalc
Works(q, at) == calc[q].at = at /\ ~client[calc[q].client].aborted

Move(q, at) == calc' = [calc EXCEPT ![q].at = at]

\* What a transaction on the client c has written becomes the rows' committed
\* value, or is forgotten.
OnClient(c, q) == calc[q].client = c
Keep(rows, c) ==
  [q \in Calcs |-> [w \in Workflows |->
     IF OnClient(c, q) THEN [rows[q][w] EXCEPT !.saved = rows[q][w].staged] ELSE rows[q][w]]]
Forget(rows, c) ==
  [q \in Calcs |-> [w \in Workflows |->
     IF OnClient(c, q) THEN [rows[q][w] EXCEPT !.staged = rows[q][w].saved] ELSE rows[q][w]]]

-----------------------------------------------------------------------------
(* The request. *)

\* withTenantContext: a client of the pool, BEGIN ...
CheckOut(q) ==
  /\ calc[q].at = "waiting"
  /\ \E c \in Clients :
       /\ Free(c)
       /\ client' = [client EXCEPT ![c].holder = q]
       /\ calc' = [calc EXCEPT ![q].at = "begun", ![q].client = c]
  /\ UNCHANGED <<result, trace, event, agent>>

\* ... and set_config; then the run's row, in the mode the query asks for.
CreateRun(q, mode) ==
  /\ Works(q, "begun")
  /\ client' = [client EXCEPT ![calc[q].client].tenant = TRUE]
  /\ result' = [result EXCEPT ![q].mode = mode]
  /\ Move(q, IF mode = "eve" THEN "analysing" ELSE "calculating")
  /\ UNCHANGED <<trace, event, agent>>

\* buildAgentCalculationInput starts its ai_runs row; analyzeProvision looks
\* for patterns of earlier overrides, on a second client of the pool.
LookUpPatterns(q) ==
  /\ Works(q, "analysing")
  /\ \E c \in Clients : Free(c)
  /\ trace' = [trace EXCEPT ![q][Analysis].staged = "started"]
  /\ Move(q, "asking")
  /\ UNCHANGED <<client, result, event, agent>>

\* callJsonModel: an answer that its schema accepts, or the last error after the
\* retries of what can be retried (429, 5xx, time and network).
ModelAnswers == {"parsed", "error"}

\* analyzeProvision turns the error into success: false, which the caller throws.
Succeeds(answer) == answer = "parsed"

\* Wrong on purpose: the fallback does not record that the analysis failed.
AnalysedUnrecorded(q, answer) ==
  LET ok == Succeeds(answer) IN
  /\ Works(q, "asking")
  /\ trace' = IF ok THEN [trace EXCEPT ![q][Analysis].staged = "completed"] ELSE trace
  /\ event' = IF ok THEN [event EXCEPT ![q][Analysis].staged = "completed"] ELSE event
  /\ result' = [result EXCEPT ![q].figures = IF ok THEN "model" ELSE "ledger"]
  /\ Move(q, "calculating")
  /\ UNCHANGED <<client, agent>>

\* The language model's figures, or the ledger's.
Analysed(q, answer) ==
  LET ok == Succeeds(answer)
      outcome == IF ok THEN "completed" ELSE "failed" IN
  /\ Works(q, "asking")
  /\ trace' = [trace EXCEPT ![q][Analysis].staged = outcome]
  /\ event' = [event EXCEPT ![q][Analysis].staged = outcome]
  /\ result' = [result EXCEPT ![q].figures = IF ok THEN "model" ELSE "ledger"]
  /\ Move(q, "calculating")
  /\ UNCHANGED <<client, agent>>

\* The calculation.  Then the subagents are started on the transaction: their
\* ai_runs rows are inserted before the request's next statement, and they
\* call their models.
Calculate(q) ==
  /\ Works(q, "calculating")
  /\ result' = [result EXCEPT ![q].figures = IF @ = "none" THEN "ledger" ELSE @]
  /\ trace' = [trace EXCEPT ![q] =
       [w \in Workflows |-> IF w \in Swarm THEN [@[w] EXCEPT !.staged = "started"] ELSE @[w]]]
  /\ agent' = [agent EXCEPT ![q] = [w \in Swarm |-> [at |-> "executing", answer |-> "none"]]]
  /\ Move(q, "answering")
  /\ UNCHANGED <<client, event>>

\* COMMIT: what the client's transaction wrote, late statements of other
\* calculations' subagents included.  In an aborted transaction PostgreSQL
\* answers a COMMIT by rolling back, and the request is answered all the same.
Commit(q) ==
  LET c == calc[q].client IN
  /\ calc[q].at = "answering"
  /\ IF client[c].aborted
     THEN trace' = Forget(trace, c) /\ event' = Forget(event, c) /\ Move(q, "lost")
     ELSE trace' = Keep(trace, c) /\ event' = Keep(event, c) /\ Move(q, "committed")
  /\ client' = [client EXCEPT ![c] = Idle]
  /\ result' = IF client[c].aborted THEN [result EXCEPT ![q] = NoResult] ELSE result
  /\ UNCHANGED agent

\* Wrong on purpose: the client of a failed transaction is not released.
FailKeepsClient(q) ==
  LET c == calc[q].client IN
  /\ ~Ended(q) /\ calc[q].at # "waiting"
  /\ trace' = Forget(trace, c) /\ event' = Forget(event, c)
  /\ Move(q, "failed")
  /\ result' = [result EXCEPT ![q] = NoResult]
  /\ UNCHANGED <<client, agent>>

\* A statement fails: the handler's own mark ('failed', run.failed) is rolled
\* back with everything else, for it throws the error on.
Fail(q) ==
  LET c == calc[q].client IN
  /\ ~Ended(q) /\ calc[q].at # "waiting"
  /\ trace' = Forget(trace, c) /\ event' = Forget(event, c)
  /\ client' = [client EXCEPT ![c] = Idle]
  /\ Move(q, "failed")
  /\ result' = [result EXCEPT ![q] = NoResult]
  /\ UNCHANGED agent

-----------------------------------------------------------------------------
(* A subagent. *)

\* runMappingAgent and mineCredits catch what their model throws and say
\* success: false; draftAuditMemo returns a memo like any other.
RunMappingAgent(answer) == IF Succeeds(answer) THEN "completed" ELSE "fallback_used"
MineCredits(answer)     == IF Succeeds(answer) THEN "completed" ELSE "fallback_used"
DraftAuditMemo(answer)  == "completed"

Execute(w, answer) == CASE w = "mapping_agent" -> RunMappingAgent(answer)
                        [] w = "audit_defense" -> DraftAuditMemo(answer)
                        [] w = "credit_miner"  -> MineCredits(answer)

Endings(w) == {Execute(w, answer) : answer \in ModelAnswers} \cup {"timeout"}

\* The race of the agent and its timeout: the first of them is the answer.
Answer(q, w, outcome) ==
  /\ agent[q][w].at = "executing"
  /\ agent' = [agent EXCEPT ![q][w] = [at |-> "answered", answer |-> outcome]]
  /\ UNCHANGED <<client, calc, result, trace, event>>

\* Can a statement of q's subagents be made on the client; does it see q's rows.
Usable(q)  == calc[q].client # NoClient /\ ~client[calc[q].client].aborted
Visible(q) ==
  LET cl == client[calc[q].client] IN
  cl.tenant /\ cl.holder # NoCalc /\ calc[cl.holder].tenant = calc[q].tenant

Goes(q, w, at) == agent' = [agent EXCEPT ![q][w].at = at]

\* updateAiRunStatus, the update: the request's COMMIT was sent before.
Update(q, w) ==
  /\ agent[q][w].at = "answered" /\ Ended(q)
  /\ IF ~Usable(q) THEN Goes(q, w, "ended") /\ UNCHANGED trace
     ELSE /\ Goes(q, w, "updated")
          /\ trace' = IF Visible(q) /\ trace[q][w].saved # "absent"
                      THEN [trace EXCEPT ![q][w].staged = agent[q][w].answer] ELSE trace
  /\ UNCHANGED <<client, calc, result, event>>

\* The select: without the row there is no event to record.
ReadBack(q, w) ==
  /\ agent[q][w].at = "updated"
  /\ Goes(q, w, IF Usable(q) /\ Visible(q) /\ trace[q][w].saved # "absent"
                THEN "recording" ELSE "ended")
  /\ UNCHANGED <<client, calc, result, trace, event>>

\* The event.  Its error is caught, but one in somebody's transaction has
\* aborted that transaction.
Record(q, w) ==
  /\ agent[q][w].at = "recording"
  /\ Goes(q, w, "ended")
  /\ event' = IF Usable(q) /\ Visible(q)
              THEN [event EXCEPT ![q][w].staged = agent[q][w].answer] ELSE event
  /\ client' = IF Usable(q) /\ ~Visible(q) /\ ~Free(calc[q].client)
               THEN [client EXCEPT ![calc[q].client].aborted = TRUE] ELSE client
  /\ UNCHANGED <<calc, result, trace>>

\* The pool ends a client that has been idle for ten seconds, and opens a new
\* one in its place when it needs it.
IdleTimeout(c) ==
  /\ Free(c)
  /\ \E q \in Calcs, w \in Swarm : calc[q].client = c /\ agent[q][w].at # "ended"
  /\ calc' = [q \in Calcs |-> IF calc[q].client = c THEN [calc[q] EXCEPT !.client = NoClient] ELSE calc[q]]
  /\ UNCHANGED <<client, result, trace, event, agent>>

-----------------------------------------------------------------------------
RequestStep(q) ==
  \/ CheckOut(q)
  \/ \E mode \in {"eve", "direct"} : CreateRun(q, mode)
  \/ LookUpPatterns(q)
  \/ \E answer \in ModelAnswers : Analysed(q, answer)
  \/ Calculate(q)
  \/ Commit(q)
  \/ Fail(q)

AgentStep(q, w) ==
  \/ \E outcome \in Endings(w) : Answer(q, w, outcome)
  \/ Update(q, w)
  \/ ReadBack(q, w)
  \/ Record(q, w)

Next ==
  \/ \E q \in Calcs : RequestStep(q)
  \/ \E q \in Calcs, w \in Swarm : AgentStep(q, w)
  \/ \E c \in Clients : IdleTimeout(c)

\* A request goes on (a model call ends after its retries and their timeouts,
\* a free client is given to who waits first), but no statement has to fail
\* unless its transaction is aborted; an agent is timed out.
Progress(q) ==
  \/ CheckOut(q)
  \/ \E mode \in {"eve", "direct"} : CreateRun(q, mode)
  \/ LookUpPatterns(q)
  \/ \E answer \in ModelAnswers : Analysed(q, answer)
  \/ Calculate(q)
  \/ Commit(q)
  \/ ~Ended(q) /\ calc[q].client # NoClient /\ client[calc[q].client].aborted /\ Fail(q)

Fairness ==
  /\ \A q \in Calcs : WF_vars(Progress(q))
  /\ \A q \in Calcs, w \in Swarm : WF_vars(AgentStep(q, w))

Spec == Init /\ [][Next]_vars /\ Fairness

-----------------------------------------------------------------------------
(* Properties. *)

Places == {"waiting", "begun", "analysing", "asking", "calculating", "answering",
           "committed", "lost", "failed"}

ClientStates == [holder : Calcs \cup {NoCalc}, tenant : BOOLEAN, aborted : BOOLEAN]
CalcStates   == [tenant : Tenants, at : Places, client : Clients \cup {NoClient}]
Results      == [mode : {"none", "eve", "direct"}, figures : {"none", "model", "ledger"}]
TraceRows    == [saved : Settled \cup {"absent", "started"}, staged : Settled \cup {"absent", "started"}]
EventRows    == [saved : Settled \cup {"absent"}, staged : Settled \cup {"absent"}]
AgentStates  == [at : {"idle", "executing", "answered", "updated", "recording", "ended"},
                 answer : Settled \cup {"none"}]

TypeOK ==
  /\ client \in [Clients -> ClientStates]
  /\ calc \in [Calcs -> CalcStates]
  /\ result \in [Calcs -> Results]
  /\ trace \in [Calcs -> [Workflows -> TraceRows]]
  /\ event \in [Calcs -> [Workflows -> EventRows]]
  /\ agent \in [Calcs -> [Swarm -> AgentStates]]

\* provision.routes.ts keeps the trace in the run's own transaction: a run that
\* is stored has the row of every subagent it started, and one that was rolled
\* back has none, whatever its subagents write afterwards on its client.
TraceBelongsToItsRun ==
  \A q \in Calcs, w \in Swarm : Committed(q) <=> trace[q][w].saved # "absent"

\* Where the figures of a stored run come from can be told from its trace: the
\* model's figures have a completed analysis and its event, the ledger's in
\* Eve's mode a failed one, and a direct run none.
FiguresTraced ==
  \A q \in Calcs : Committed(q) =>
    LET row == trace[q][Analysis].saved IN
    /\ result[q].figures = "model" <=> row = "completed"
    /\ row = "failed" <=> result[q].mode = "eve" /\ result[q].figures = "ledger"
    /\ row = event[q][Analysis].saved

\* An outcome that is recorded, in the row or in the event, is the one answer
\* its subagent gave: what a timed-out agent says later changes nothing, and
\* the client's next transactions commit it or lose it but never another's.  It may
\* be lost: that the trace then stays 'started' for ever is TraceSettles's matter.
OutcomeIsTheAnswer ==
  \A q \in Calcs, w \in Swarm :
    /\ trace[q][w].saved \in {"absent", "started", agent[q][w].answer}
    /\ event[q][w].saved \in {"absent", agent[q][w].answer}

\* A reader of the trace (GET /runs/:id/ai-findings, the handoff package) is
\* told nothing that did not happen, in whatever order requests and late answers used
\* the pool's clients; of a subagent's outcome he may be told nothing at all.
TraceTellsTheRun == TraceBelongsToItsRun /\ FiguresTraced /\ OutcomeIsTheAnswer

\* Every client is held by a calculation that waits for a second one.
PoolExhausted ==
  \A c \in Clients : ~Free(c) /\ calc[client[c].holder].at = "analysing"

\* Every calculation ends, unless all clients come to be held by calculations
\* that each wait for another client: the patterns are looked up through the
\* pool while the request keeps its own client.
CalculationsEnd ==
  (\A q \in Calcs : <>Ended(q)) \/ <>[]PoolExhausted

\* README.md:187, the trace of an AI run goes from started to an outcome.
TraceSettles ==
  \A q \in Calcs, w \in Swarm : trace[q][w].saved = "started" ~> trace[q][w].saved \in Settled
=============================================================================
