---------------------------- MODULE RuleRegistry ----------------------------
(***************************************************************************)
(* The registry of UK rules (apps/api/src/modules/rules) and the snapshot  *)
(* of it that a run records.  Rules are proposed, approved, rolled back    *)
(* and superseded, each by a handler that is one statement or holds the    *)
(* row it decides on; a calculation reads the approved rules of its        *)
(* period's end and inserts its run, with them, some time later.           *)
(***************************************************************************)
EXTENDS Naturals, FiniteSets

CONSTANTS
  Rules,        \* ids of rows of uk_rules
  NoRule,
  Keys,         \* rule keys
  Windows,      \* pairs of effective_from and effective_to a proposal may have
  MaxVersion,   \* bound: versions a rule key may have
  Runs,
  Workbench,    \* the runs of the workbench; the others are of POST /run
  AsOf          \* the period end of each run

ASSUME RulesAssumption ==
  /\ NoRule \notin Rules
  /\ Windows \subseteq Nat \X Nat
  /\ MaxVersion \in Nat /\ Workbench \subseteq Runs
  /\ AsOf \in [Runs -> Nat]

VARIABLES
  rule,    \* uk_rules
  reading, \* the rules each calculation in flight has read
  run      \* provision_runs.rules_used of the runs that exist

registryVars == <<rule, reading, run>>

States == {"proposal", "approved", "superseded", "rolled_back"}

NoEntry == [state |-> "absent"]
None    == [phase |-> "none"]

Rows       == {i \in Rules : rule[i] # NoEntry}
Entry(row) == [key |-> row.key, version |-> row.version, window |-> row.window]

\* Wrong on purpose: no unique index.
TakenNever(k, v) == FALSE

\* UNIQUE(tenant_id, rule_key, version): the insert would fail.
Taken(k, v) == \E i \in Rows : rule[i].key = k /\ rule[i].version = v

\* A row is inserted as a proposal; signed says that approved_by_user_id is set.
Inserted(i, k, v, w, old) ==
  [key |-> k, version |-> v, window |-> w, state |-> "proposal", signed |-> FALSE,
   supersedes |-> old]

\* POST /rules/proposals: the caller says which version it is.
Propose(i, k, v, w) ==
  /\ i \notin Rows /\ ~Taken(k, v)
  /\ rule' = [rule EXCEPT ![i] = Inserted(i, k, v, w, NoRule)]
  /\ UNCHANGED <<reading, run>>

\* Wrong on purpose: approving overwrites what the rule was approved for.
ApproveAnew(i) ==
  /\ i \in Rows
  /\ \E w \in Windows :
       rule' = [rule EXCEPT ![i].state = "approved", ![i].signed = TRUE, ![i].window = w]
  /\ UNCHANGED <<reading, run>>

\* POST /rules/:id/approve, whatever state the rule is in.
Approve(i) ==
  /\ i \in Rows
  /\ rule' = [rule EXCEPT ![i].state = "approved", ![i].signed = TRUE]
  /\ UNCHANGED <<reading, run>>

\* POST /rules/:id/rollback, whatever state the rule is in.
RollBack(i) ==
  /\ i \in Rows
  /\ rule' = [rule EXCEPT ![i].state = "rolled_back"]
  /\ UNCHANGED <<reading, run>>

\* POST /rules/:id/supersede holds the row; the new version is a proposal, and
\* may have another key.
Supersede(i, n, k, w) ==
  /\ i \in Rows /\ rule[i].state # "rolled_back"
  /\ n \notin Rows /\ rule[i].version < MaxVersion /\ ~Taken(k, rule[i].version + 1)
  /\ rule' = [rule EXCEPT ![n] = Inserted(n, k, rule[i].version + 1, w, i),
                          ![i].state = "superseded"]
  /\ UNCHANGED <<reading, run>>

-----------------------------------------------------------------------------
(* Calculations. *)

\* resolveRulesUsed
InForce(day) ==
  {i \in Rows : /\ rule[i].state = "approved"
                /\ rule[i].window[1] <= day /\ day <= rule[i].window[2]}

\* The calculation reads its rules; the workbench refuses to go on without any.
ReadRules(r) ==
  /\ run[r] = None /\ reading[r] = None
  /\ r \in Workbench => InForce(AsOf[r]) # {}
  /\ reading' = [reading EXCEPT ![r] = [phase |-> "read", used |-> {Entry(rule[i]) : i \in InForce(AsOf[r])}]]
  /\ UNCHANGED <<rule, run>>

\* The run is inserted with what was read, and commits.
InsertRun(r) ==
  /\ reading[r] # None
  /\ run' = [run EXCEPT ![r] = [phase |-> "made", used |-> reading[r].used]]
  /\ reading' = [reading EXCEPT ![r] = None]
  /\ UNCHANGED rule

\* The calculation fails, and its transaction with it.
FailRun(r) ==
  /\ reading[r] # None
  /\ reading' = [reading EXCEPT ![r] = None]
  /\ UNCHANGED <<rule, run>>

RegistryInit ==
  /\ rule = [i \in Rules |-> NoEntry]
  /\ reading = [r \in Runs |-> None]
  /\ run = [r \in Runs |-> None]

RegistryNext ==
  \/ \E i \in Rules :
       \/ \E k \in Keys, w \in Windows :
            \/ \E v \in 1 .. MaxVersion : Propose(i, k, v, w)
            \/ \E n \in Rules : Supersede(i, n, k, w)
       \/ Approve(i) \/ RollBack(i)
  \/ \E r \in Runs : ReadRules(r) \/ InsertRun(r) \/ FailRun(r)

RegistrySpec == RegistryInit /\ [][RegistryNext]_registryVars

-----------------------------------------------------------------------------
(* Properties. *)

Entries == [key : Keys, version : 1 .. MaxVersion, window : Windows]
RuleRows ==
  [key : Keys, version : 1 .. MaxVersion, window : Windows, state : States,
   signed : BOOLEAN, supersedes : Rules \cup {NoRule}]

RegistryTypeOK ==
  /\ rule \in [Rules -> {NoEntry} \cup RuleRows]
  /\ reading \in [Runs -> {None} \cup [phase : {"read"}, used : SUBSET Entries]]
  /\ run \in [Runs -> {None} \cup [phase : {"made"}, used : SUBSET Entries]]

Traces(e) == {i \in Rows : rule[i].key = e.key /\ rule[i].version = e.version}

\* A run names its rules by key and version.  Whatever happens to the registry
\* after the run was made, each of them is still one row, with the window the
\* run recorded, and a partner or admin had approved it before "any calculation
\* records it as used" (the comment of the proposals route): the snapshot can be
\* explained years later.  A workbench run has such a rule, in force at the end
\* of its period.
UsedRulesTrace ==
  \A r \in Runs : run[r] # None =>
    /\ \A e \in run[r].used :
         /\ Cardinality(Traces(e)) = 1
         /\ \A i \in Traces(e) : rule[i].window = e.window /\ rule[i].signed
         /\ e.window[1] <= AsOf[r] /\ AsOf[r] <= e.window[2]
    /\ r \in Workbench => run[r].used # {}

\* History is chained: a superseded rule has a successor one version on, even
\* after the successor was rolled back or superseded itself.
SupersededChained ==
  \A i \in Rows : rule[i].state = "superseded" =>
    \E n \in Rows : rule[n].supersedes = i /\ rule[n].version = rule[i].version + 1

\* What a run was calculated with can be explained from the registry: the rules
\* themselves and the chain of versions they stand in.
RulesExplained == UsedRulesTrace /\ SupersededChained
=============================================================================
