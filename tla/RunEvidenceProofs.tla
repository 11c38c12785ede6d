------------------------- MODULE RunEvidenceProofs -------------------------
(***************************************************************************)
(* Proofs of what a stored run can be explained from: the rules it was     *)
(* calculated with (RuleRegistry), the trace of its agents (AgentTrace)    *)
(* and the figures of its documents (TaxCalculation).                      *)
(*                                                                         *)
(* A run's rules can be explained from the registry, whatever number of    *)
(* rules, keys, versions and runs there are and whatever is done to the    *)
(* registry after the run was made.                                        *)
(*                                                                         *)
(* For any number of requests, tenants and clients, the trace that a       *)
(* reader of a run is shown tells what happened, though late answers write *)
(* on clients that meanwhile serve others.  That is not inductive: the     *)
(* invariant follows the rows while they are only staged in a transaction, *)
(* and needs that no two requests in flight ever have the same client.     *)
(*                                                                         *)
(* For all trial balances in whole thousands, mappings, rates, registers   *)
(* and periods, the figures of a run rest on its evidence, the walk        *)
(* explains them, no pound of an asset is relieved twice and all documents *)
(* agree.  The state only says that every run is the one its request would *)
(* give; the rest is about sums over sets, by induction on subsets, about  *)
(* bands and about rounding.                                               *)
(***************************************************************************)
EXTENDS RuleRegistry, AgentTrace, TaxCalculation, FiniteSetTheorems, WellFoundedInduction, TLAPS

(***************************************************************************)
(* The rules of a run.                                                     *)
(***************************************************************************)
\* What a key and a version name does not change any more, and stays signed:
\* the step loses nothing that a snapshot of the registry may rest on.
RowsKept ==
  \A i \in Rows :
    /\ i \in Rows' /\ rule'[i].key = rule[i].key /\ rule'[i].version = rule[i].version
    /\ rule'[i].window = rule[i].window /\ (rule[i].signed => rule'[i].signed)

\* The unique index, read as an invariant.
UniqueVersions ==
  \A i, j \in Rows : rule[i].key = rule[j].key /\ rule[i].version = rule[j].version => i = j

ApprovedSigned == \A i \in Rows : rule[i].state = "approved" => rule[i].signed

\* Some row still backs every entry of a snapshot that the calculation r took.
Backs(i, e) ==
  /\ rule[i].key = e.key /\ rule[i].version = e.version
  /\ rule[i].window = e.window /\ rule[i].signed
Backed(used, r) ==
  /\ \A e \in used : /\ \E i \in Rows : Backs(i, e)
                     /\ e.window[1] <= AsOf[r] /\ AsOf[r] <= e.window[2]
  /\ r \in Workbench => used # {}

\* UsedRulesTrace speaks of runs only; what a calculation in flight has read
\* must be backed too, for the registry moves on before its run is inserted.
SnapshotsBacked ==
  \A r \in Runs : /\ reading[r] # None => Backed(reading[r].used, r)
                  /\ run[r] # None => Backed(run[r].used, r)

RegistryInv ==
  RegistryTypeOK /\ UniqueVersions /\ ApprovedSigned /\ SnapshotsBacked /\ SupersededChained

-----------------------------------------------------------------------------
(* The rows. *)

\* A row of the table is a record of RuleRows.
LEMMA RowsTyped ==
  ASSUME RegistryTypeOK
  PROVE  \A i \in Rows : i \in Rules /\ rule[i] \in RuleRows
BY DEF RegistryTypeOK, Rows

\* No record of RuleRows is the absent row.
LEMMA RowsPresent == ASSUME NEW x \in RuleRows PROVE x # NoEntry
BY DEF RuleRows, NoEntry, States

\* A snapshot that is backed stays so.
LEMMA BackedStays ==
  ASSUME RowsKept, NEW used, NEW r, Backed(used, r)
  PROVE  Backed(used, r)'
BY DEF RowsKept, Backed, Backs

\* A step that leaves the calculations and the runs alone.
LEMMA SnapshotsStay ==
  ASSUME RowsKept, SnapshotsBacked, UNCHANGED <<reading, run>>
  PROVE  SnapshotsBacked'
<1> SUFFICES ASSUME NEW r \in Runs
             PROVE  /\ reading[r] # None => Backed(reading[r].used, r)'
                    /\ run[r] # None => Backed(run[r].used, r)'
  BY DEF SnapshotsBacked, Backed, Backs, Rows, None
<1> QED
  BY BackedStays DEF SnapshotsBacked

\* A rule is inserted with a key and a version that no row has, as a proposal.
LEMMA InsertKeeps ==
  ASSUME RegistryTypeOK, UniqueVersions, ApprovedSigned,
         NEW n \in Rules, n \notin Rows, NEW k \in Keys, NEW v \in 1 .. MaxVersion,
         NEW w \in Windows, NEW old \in Rules \cup {NoRule}, ~Taken(k, v),
         rule' = [rule EXCEPT ![n] = Inserted(n, k, v, w, old)]
  PROVE  /\ rule' \in [Rules -> {NoEntry} \cup RuleRows]
         /\ RowsKept /\ UniqueVersions' /\ ApprovedSigned'
<1> DEFINE new == Inserted(n, k, v, w, old)
<1>1. new \in RuleRows /\ new.key = k /\ new.version = v /\ new.state = "proposal"
  BY DEF Inserted, RuleRows, States
<1>2. rule' \in [Rules -> {NoEntry} \cup RuleRows]
  BY <1>1 DEF RegistryTypeOK
<1>3. /\ rule'[n] = new /\ \A i \in Rules : i # n => rule'[i] = rule[i]
      /\ Rows' = Rows \cup {n}
  BY <1>1, RowsPresent DEF RegistryTypeOK, Rows
<1>4. RowsKept
  BY <1>3 DEF RowsKept, Rows
<1>5. UniqueVersions'
  BY <1>1, <1>3 DEF UniqueVersions, Taken, Rows
<1>6. ApprovedSigned'
  BY <1>1, <1>3 DEF ApprovedSigned, Rows
<1> QED
  BY <1>2, <1>4, <1>5, <1>6

\* A rule whose state changes is otherwise as before; approved, it is signed.
LEMMA StateKeeps ==
  ASSUME RegistryTypeOK, UniqueVersions, ApprovedSigned, NEW i \in Rows, NEW row \in RuleRows,
         row.key = rule[i].key, row.version = rule[i].version, row.window = rule[i].window,
         row.supersedes = rule[i].supersedes,
         rule[i].signed => row.signed, row.state = "approved" => row.signed,
         rule' = [rule EXCEPT ![i] = row]
  PROVE  /\ rule' \in [Rules -> {NoEntry} \cup RuleRows]
         /\ RowsKept /\ UniqueVersions' /\ ApprovedSigned'
<1>1. rule' \in [Rules -> {NoEntry} \cup RuleRows] /\ i \in Rules
  BY DEF RegistryTypeOK, Rows
<1>2. /\ rule'[i] = row /\ \A j \in Rules : j # i => rule'[j] = rule[j]
      /\ Rows' = Rows
  BY <1>1, RowsPresent DEF RegistryTypeOK, Rows
<1>3. RowsKept
  BY <1>2 DEF RowsKept, Rows
<1>4. UniqueVersions'
  BY <1>2 DEF UniqueVersions, Rows
<1>5. ApprovedSigned'
  BY <1>2 DEF ApprovedSigned, Rows
<1> QED
  BY <1>1, <1>3, <1>4, <1>5

\* Every step of the registry keeps its rows and their chain.
LEMMA RegistryStepOK ==
  ASSUME RegistryInv, RulesAssumption,
         \/ \E i \in Rules, k \in Keys, v \in 1 .. MaxVersion, w \in Windows : Propose(i, k, v, w)
         \/ \E i, n \in Rules, k \in Keys, w \in Windows : Supersede(i, n, k, w)
         \/ \E i \in Rules : Approve(i) \/ RollBack(i)
  PROVE  RegistryInv'
<1> USE DEF RegistryInv
<1>1. ASSUME rule' \in [Rules -> {NoEntry} \cup RuleRows], RowsKept, UniqueVersions',
             ApprovedSigned', SupersededChained', UNCHANGED <<reading, run>>
      PROVE  RegistryInv'
  <2>1. SnapshotsBacked'
    BY <1>1, SnapshotsStay
  <2>2. RegistryTypeOK'
    BY <1>1 DEF RegistryTypeOK
  <2> QED
    BY <1>1, <2>1, <2>2
<1>2. ASSUME NEW i \in Rules, NEW k \in Keys, NEW v \in 1 .. MaxVersion, NEW w \in Windows,
             Propose(i, k, v, w)
      PROVE  RegistryInv'
  <2>1. /\ i \notin Rows /\ ~Taken(k, v) /\ UNCHANGED <<reading, run>>
        /\ rule' = [rule EXCEPT ![i] = Inserted(i, k, v, w, NoRule)]
    BY <1>2 DEF Propose
  <2>2. /\ rule' \in [Rules -> {NoEntry} \cup RuleRows]
        /\ RowsKept /\ UniqueVersions' /\ ApprovedSigned'
    BY <2>1, InsertKeeps
  <2>3. /\ \A j \in Rules : j # i => rule'[j] = rule[j]
        /\ rule'[i].state = "proposal"
    BY <2>1 DEF RegistryTypeOK, Inserted
  <2>4. SupersededChained'
    BY <2>1, <2>3 DEF SupersededChained, Rows
  <2> QED
    BY <1>1, <2>1, <2>2, <2>4
<1>3. ASSUME NEW i \in Rules, NEW n \in Rules, NEW k \in Keys, NEW w \in Windows,
             Supersede(i, n, k, w)
      PROVE  RegistryInv'
  <2> DEFINE v == rule[i].version + 1
             row == [rule[i] EXCEPT !.state = "superseded"]
  <2>1. /\ i \in Rows /\ n \notin Rows /\ i # n /\ rule[i] \in RuleRows
        /\ v \in 1 .. MaxVersion /\ ~Taken(k, v)
        /\ UNCHANGED <<reading, run>>
        /\ rule' = [rule EXCEPT ![n] = Inserted(n, k, v, w, i), ![i].state = "superseded"]
    <3>1. i \in Rows /\ n \notin Rows /\ rule[i].version < MaxVersion /\ ~Taken(k, v)
      BY <1>3 DEF Supersede
    <3>2. rule[i] \in RuleRows
      BY <3>1, RowsTyped
    <3>3. v \in 1 .. MaxVersion
      BY <3>1, <3>2, RulesAssumption DEF RuleRows, RulesAssumption
    <3> QED
      BY <1>3, <3>1, <3>2, <3>3 DEF Supersede
  <2>2. Inserted(n, k, v, w, i) \in RuleRows /\ row \in RuleRows
    BY <2>1 DEF Inserted, RuleRows, States
  <2>3. /\ rule'[n] = Inserted(n, k, v, w, i) /\ rule'[i] = row
        /\ \A j \in Rules : j # n /\ j # i => rule'[j] = rule[j]
        /\ rule' \in [Rules -> {NoEntry} \cup RuleRows]
    BY <2>1, <2>2 DEF RegistryTypeOK
  <2>4. Rows' = Rows \cup {n}
    BY <2>1, <2>2, <2>3, RowsPresent DEF Rows
  <2>5. /\ row.key = rule[i].key /\ row.version = rule[i].version /\ row.window = rule[i].window
        /\ row.signed = rule[i].signed /\ row.supersedes = rule[i].supersedes
        /\ row.state = "superseded"
    BY <2>1 DEF RuleRows
  <2>6. RowsKept
    BY <2>1, <2>3, <2>4, <2>5 DEF RowsKept, Rows
  <2>7. UniqueVersions'
    <3>1. rule'[n].key = k /\ rule'[n].version = v
      BY <2>3 DEF Inserted
    <3>2. \A j \in Rows : /\ rule'[j].key = rule[j].key /\ rule'[j].version = rule[j].version
                          /\ ~(rule[j].key = k /\ rule[j].version = v)
      BY <2>1, <2>6 DEF RowsKept, Taken
    <3> QED
      BY <2>4, <3>1, <3>2 DEF UniqueVersions
  <2>8. ApprovedSigned'
    <3>1. rule'[n].state = "proposal"
      BY <2>3 DEF Inserted
    <3>2. \A j \in Rows : j # i => rule'[j] = rule[j]
      BY <2>1, <2>3 DEF Rows
    <3>3. rule'[i].state = "superseded"
      BY <2>3, <2>5
    <3> QED
      BY <2>4, <3>1, <3>2, <3>3 DEF ApprovedSigned
  <2>9. SupersededChained'
    <3>1. rule'[n].supersedes = i /\ rule'[n].version = rule'[i].version + 1
      BY <2>3, <2>5 DEF Inserted
    <3>2. \A j \in Rows : rule'[j].supersedes = rule[j].supersedes /\ rule'[j].version = rule[j].version
      BY <2>1, <2>3, <2>5 DEF Rows
    <3>3. rule'[n].state = "proposal"
      BY <2>3 DEF Inserted
    <3>4. SUFFICES ASSUME NEW j \in Rows', rule'[j].state = "superseded"
                   PROVE  \E m \in Rows' : rule'[m].supersedes = j /\ rule'[m].version = rule'[j].version + 1
      BY DEF SupersededChained
    <3>5. CASE j = i
      BY <2>4, <3>1, <3>5
    <3>6. CASE j # i
      <4>1. j \in Rows /\ rule[j].state = "superseded"
        BY <2>3, <2>4, <3>3, <3>4, <3>6 DEF Rows
      <4> QED
        BY <2>4, <3>2, <4>1 DEF SupersededChained
    <3> QED
      BY <3>5, <3>6
  <2> QED
    BY <1>1, <2>1, <2>3, <2>6, <2>7, <2>8, <2>9
<1>4. ASSUME NEW i \in Rows, NEW row \in RuleRows,
             row.key = rule[i].key, row.version = rule[i].version, row.window = rule[i].window,
             row.supersedes = rule[i].supersedes, row.state # "superseded",
             rule[i].signed => row.signed, row.state = "approved" => row.signed,
             rule' = [rule EXCEPT ![i] = row], UNCHANGED <<reading, run>>
      PROVE  RegistryInv'
  <2>1. /\ rule' \in [Rules -> {NoEntry} \cup RuleRows]
        /\ RowsKept /\ UniqueVersions' /\ ApprovedSigned'
    BY <1>4, StateKeeps
  <2>2. /\ rule'[i] = row /\ \A j \in Rules : j # i => rule'[j] = rule[j]
        /\ Rows' = Rows /\ i \in Rules
    BY <1>4, RowsPresent DEF RegistryTypeOK, Rows
  <2>3. SupersededChained'
    BY <1>4, <2>2 DEF SupersededChained, Rows
  <2> QED
    BY <1>1, <1>4, <2>1, <2>3
<1>5. ASSUME NEW i \in Rules, Approve(i) PROVE RegistryInv'
  <2> DEFINE row == [rule[i] EXCEPT !.state = "approved", !.signed = TRUE]
  <2>1. i \in Rows /\ rule[i] \in RuleRows /\ UNCHANGED <<reading, run>>
    BY <1>5, RowsTyped DEF Approve
  <2>2. /\ row \in RuleRows /\ row.key = rule[i].key /\ row.version = rule[i].version
        /\ row.window = rule[i].window /\ row.supersedes = rule[i].supersedes
        /\ row.state = "approved" /\ row.signed
    BY <2>1 DEF RuleRows, States
  <2>3. rule' = [rule EXCEPT ![i] = row]
    BY <1>5, <2>1 DEF Approve, RegistryTypeOK, RuleRows
  <2> HIDE DEF row
  <2> QED
    BY <1>4, <2>1, <2>2, <2>3
<1>6. ASSUME NEW i \in Rules, RollBack(i) PROVE RegistryInv'
  <2> DEFINE row == [rule[i] EXCEPT !.state = "rolled_back"]
  <2>1. i \in Rows /\ rule[i] \in RuleRows /\ UNCHANGED <<reading, run>>
    BY <1>6, RowsTyped DEF RollBack
  <2>2. /\ row \in RuleRows /\ row.key = rule[i].key /\ row.version = rule[i].version
        /\ row.window = rule[i].window /\ row.supersedes = rule[i].supersedes
        /\ row.state = "rolled_back" /\ row.signed = rule[i].signed
    BY <2>1 DEF RuleRows, States
  <2>3. rule' = [rule EXCEPT ![i] = row]
    BY <1>6, <2>1 DEF RollBack, RegistryTypeOK, RuleRows
  <2> HIDE DEF row
  <2> QED
    BY <1>4, <2>1, <2>2, <2>3
<1> QED
  BY <1>2, <1>3, <1>5, <1>6

-----------------------------------------------------------------------------
(* The calculations. *)

\* What a calculation reads is backed by the rows it read it from.
LEMMA ReadRulesOK ==
  ASSUME RegistryInv, RulesAssumption, NEW r \in Runs, ReadRules(r)
  PROVE  RegistryInv'
<1> DEFINE used == {Entry(rule[i]) : i \in InForce(AsOf[r])}
<1> USE DEF RegistryInv
<1>1. /\ reading' = [reading EXCEPT ![r] = [phase |-> "read", used |-> used]]
      /\ UNCHANGED <<rule, run>> /\ reading[r] = None
      /\ r \in Workbench => InForce(AsOf[r]) # {}
  BY DEF ReadRules
<1>2. \A i \in InForce(AsOf[r]) :
         /\ i \in Rows /\ rule[i] \in RuleRows /\ Entry(rule[i]) \in Entries
         /\ Backs(i, Entry(rule[i]))
         /\ Entry(rule[i]).window[1] <= AsOf[r] /\ AsOf[r] <= Entry(rule[i]).window[2]
  BY RowsTyped DEF InForce, Entry, Entries, Backs, ApprovedSigned, RuleRows
<1>3. Backed(used, r)
  BY <1>1, <1>2 DEF Backed
<1>4. used \subseteq Entries
  BY <1>2
<1>5. RegistryTypeOK'
  BY <1>1, <1>4 DEF RegistryTypeOK
<1>6. /\ reading'[r].used = used
      /\ \A q \in Runs : q # r => reading'[q] = reading[q]
  BY <1>1 DEF RegistryTypeOK
<1> HIDE DEF used
<1>7. SnapshotsBacked'
  BY <1>1, <1>3, <1>6 DEF SnapshotsBacked, Backed, Backs, Rows
<1>8. UniqueVersions' /\ ApprovedSigned' /\ SupersededChained'
  BY <1>1 DEF UniqueVersions, ApprovedSigned, SupersededChained, Rows
<1> QED
  BY <1>5, <1>7, <1>8

\* The run is inserted with what was read, however long ago; or it fails.
LEMMA EndCalculationOK ==
  ASSUME RegistryInv, NEW r \in Runs, InsertRun(r) \/ FailRun(r)
  PROVE  RegistryInv'
<1> USE DEF RegistryInv
<1>1. /\ rule' = rule /\ reading' = [reading EXCEPT ![r] = None] /\ reading[r] # None
      /\ run' = run \/ run' = [run EXCEPT ![r] = [phase |-> "made", used |-> reading[r].used]]
  BY DEF InsertRun, FailRun
<1>2. reading[r].used \in SUBSET Entries /\ Backed(reading[r].used, r)
  BY <1>1 DEF RegistryTypeOK, SnapshotsBacked
<1>3. RegistryTypeOK'
  BY <1>1, <1>2 DEF RegistryTypeOK
<1>4. /\ reading'[r] = None /\ \A q \in Runs : q # r => reading'[q] = reading[q] /\ run'[q] = run[q]
      /\ run'[r] = run[r] \/ run'[r].used = reading[r].used
  BY <1>1 DEF RegistryTypeOK
<1>5. SnapshotsBacked'
  BY <1>1, <1>2, <1>4 DEF SnapshotsBacked, Backed, Backs, Rows
<1>6. UniqueVersions' /\ ApprovedSigned' /\ SupersededChained'
  BY <1>1 DEF UniqueVersions, ApprovedSigned, SupersededChained, Rows
<1> QED
  BY <1>3, <1>5, <1>6

-----------------------------------------------------------------------------
(* The theorems. *)

\* The invariant of the registry holds at first.
LEMMA InitRegistryInv == RegistryInit => RegistryInv
BY DEF RegistryInit, RegistryInv, RegistryTypeOK, UniqueVersions, ApprovedSigned, SnapshotsBacked,
       SupersededChained, Rows, NoEntry, None

\* Every step keeps the invariant of the registry.
LEMMA NextRegistryInv == RegistryInv /\ RulesAssumption /\ [RegistryNext]_registryVars => RegistryInv'
<1> SUFFICES ASSUME RegistryInv, RulesAssumption, [RegistryNext]_registryVars PROVE RegistryInv'
  OBVIOUS
<1>1. ASSUME NEW i \in Rules, NEW k \in Keys, NEW v \in 1 .. MaxVersion, NEW w \in Windows,
             Propose(i, k, v, w)
      PROVE  RegistryInv'
  BY <1>1, RegistryStepOK
<1>2. ASSUME NEW i \in Rules, NEW n \in Rules, NEW k \in Keys, NEW w \in Windows,
             Supersede(i, n, k, w)
      PROVE  RegistryInv'
  BY <1>2, RegistryStepOK
<1>3. ASSUME NEW i \in Rules, Approve(i) \/ RollBack(i) PROVE RegistryInv'
  BY <1>3, RegistryStepOK
<1>4. ASSUME NEW r \in Runs, ReadRules(r) PROVE RegistryInv'
  BY <1>4, ReadRulesOK
<1>5. ASSUME NEW r \in Runs, InsertRun(r) \/ FailRun(r) PROVE RegistryInv'
  BY <1>5, EndCalculationOK
<1>6. CASE UNCHANGED registryVars
  BY <1>6 DEF registryVars, RegistryInv, RegistryTypeOK, UniqueVersions, ApprovedSigned, SnapshotsBacked,
              SupersededChained, Backed, Backs, Rows
<1> QED
  BY <1>1, <1>2, <1>3, <1>4, <1>5, <1>6 DEF RegistryNext

\* The invariant holds of everything the module describes.
THEOREM RegistryInvariant == RegistrySpec => []RegistryInv
<1>1. RegistryInit => RegistryInv
  BY InitRegistryInv
<1>2. RegistryInv /\ [RegistryNext]_registryVars => RegistryInv'
  BY NextRegistryInv, RulesAssumption
<1> QED
  BY <1>1, <1>2, PTL DEF RegistrySpec

\* The registry and the snapshots hold what their columns may hold.
THEOREM RegistryTypeCorrect == RegistrySpec => []RegistryTypeOK
<1>1. RegistryInv => RegistryTypeOK
  BY DEF RegistryInv
<1> QED
  BY <1>1, RegistryInvariant, PTL

\* A run's rules can be explained from the registry (rules.routes.ts,
\* resolveRulesUsed), whatever was done to the registry since: each is one row,
\* signed, with the window it had, in a chain of versions without a gap.
THEOREM UsedRulesCanBeExplained == RegistrySpec => []RulesExplained
<1>1. ASSUME RegistryInv, NEW r \in Runs, run[r] # None, NEW e \in run[r].used
      PROVE  /\ Cardinality(Traces(e)) = 1
             /\ \A i \in Traces(e) : rule[i].window = e.window /\ rule[i].signed
             /\ e.window[1] <= AsOf[r] /\ AsOf[r] <= e.window[2]
  <2>1. /\ \E i \in Rows : Backs(i, e)
        /\ e.window[1] <= AsOf[r] /\ AsOf[r] <= e.window[2]
    BY <1>1 DEF RegistryInv, SnapshotsBacked, Backed
  <2>2. PICK i \in Rows : Backs(i, e)
    BY <2>1
  <2>3. Traces(e) = {i}
    BY <1>1, <2>2 DEF Traces, Backs, RegistryInv, UniqueVersions
  <2>4. Cardinality(Traces(e)) = 1
    BY <2>3, FS_Singleton
  <2> QED
    BY <2>1, <2>2, <2>3, <2>4 DEF Backs
<1>2. RegistryInv => RulesExplained
  BY <1>1 DEF RegistryInv, RulesExplained, UsedRulesTrace, SnapshotsBacked, Backed
<1> QED
  BY <1>2, RegistryInvariant, PTL

(***************************************************************************)
(* The trace of a run.                                                     *)
(***************************************************************************)
Early  == {"waiting", "begun", "analysing", "asking", "calculating"}
Flying == {"begun", "analysing", "asking", "calculating", "answering"}

\* A request in flight is its client's holder, and one that waits has none.
HoldsItsClient(q) ==
  /\ calc[q].at \in Flying => calc[q].client \in Clients /\ client[calc[q].client].holder = q
  /\ calc[q].at = "waiting" => calc[q].client = NoClient

\* An agent starts late, answers once, and its rows say nothing else.
AnswersOnce(q, w) ==
  /\ calc[q].at \in Early => agent[q][w].at = "idle"
  /\ IF agent[q][w].at \in {"idle", "executing"} THEN agent[q][w].answer = "none"
                                                 ELSE agent[q][w].answer \in Settled
  /\ {trace[q][w].saved, trace[q][w].staged} \subseteq {"absent", "started", agent[q][w].answer}
  /\ {event[q][w].saved, event[q][w].staged} \subseteq {"absent", agent[q][w].answer}

\* The subagents' rows follow their run, staged and saved.
RowsFollow(q, w) ==
  /\ ~Ended(q) => trace[q][w].saved = "absent"
  /\ calc[q].at = "answering" => trace[q][w].staged # "absent"
  /\ calc[q].at = "committed" => trace[q][w].saved # "absent" /\ trace[q][w].staged # "absent"
  /\ calc[q].at \in {"lost", "failed"} => trace[q][w].saved = "absent" /\ trace[q][w].staged = "absent"

\* What an analysis leaves, once there is a figure.
Told(res, row, ev) ==
  /\ res.figures = "model" <=> row = "completed"
  /\ row = "failed" <=> res.mode = "eve" /\ res.figures = "ledger"
  /\ row = ev

\* The analysis' row follows the figures, staged before it is saved.
AnalysisFollows(q) ==
  LET row == trace[q][Analysis]
      ev  == event[q][Analysis] IN
  /\ Ended(q) => row.saved = row.staged /\ ev.saved = ev.staged
  /\ calc[q].at \in {"waiting", "begun", "analysing", "asking"} =>
       ev.staged = "absent" /\ result[q].figures = "none"
  /\ calc[q].at \in {"waiting", "begun", "analysing"} => row.staged = "absent"
  /\ calc[q].at \in {"analysing", "asking"} => result[q].mode = "eve"
  /\ calc[q].at = "calculating" =>
       \/ result[q].figures # "none" /\ Told(result[q], row.staged, ev.staged)
       \/ /\ result[q] = [mode |-> "direct", figures |-> "none"]
          /\ row.staged = "absent" /\ ev.staged = "absent"
  /\ calc[q].at = "answering" => Told(result[q], row.staged, ev.staged)
  /\ calc[q].at = "committed" => Told(result[q], row.staged, ev.staged)

TraceInv ==
  /\ TypeOK
  /\ \A q \in Calcs : HoldsItsClient(q)
  /\ \A q \in Calcs, w \in Swarm : AnswersOnce(q, w)
  /\ \A q \in Calcs, w \in Swarm : RowsFollow(q, w)
  /\ \A q \in Calcs : AnalysisFollows(q)

-----------------------------------------------------------------------------
(* The rows and their clients. *)

\* What an agent answers is one of the settled statuses.
LEMMA EndingsSettled == ASSUME NEW w \in Swarm PROVE Endings(w) \subseteq Settled
<1>1. w \in {"mapping_agent", "audit_defense", "credit_miner"}
  BY SwarmAssumption DEF SwarmAssumption, Subagents
<1> QED
  BY <1>1 DEF Endings, Execute, RunMappingAgent, MineCredits, DraftAuditMemo, Settled

\* A workflow is the analysis or a subagent, not both.
LEMMA WorkflowsApart == Analysis \in Workflows /\ Swarm \subseteq Workflows /\ Analysis \notin Swarm
BY AnalysisAssumption DEF Workflows, AnalysisAssumption

\* No two requests in flight have the same client.
LEMMA OwnClient ==
  ASSUME TraceInv, NEW q \in Calcs, NEW p \in Calcs,
         calc[q].at \in Flying, calc[p].client = calc[q].client, p # q
  PROVE  Ended(p)
<1>1. calc[q].client \in Clients /\ client[calc[q].client].holder = q
  BY DEF TraceInv, HoldsItsClient
<1>2. calc[p].client # NoClient
  BY <1>1, NobodyAssumption DEF NobodyAssumption
<1>3. calc[p].at # "waiting" /\ calc[p].at \notin Flying
  BY <1>1, <1>2 DEF TraceInv, HoldsItsClient
<1>4. calc[p].at \in Places
  BY DEF TraceInv, TypeOK, CalcStates
<1> QED
  BY <1>3, <1>4 DEF Ended, Places, Flying

\* What the end of a client's transaction makes of a row that is the client's.
Ending(row, mine, at) ==
  IF ~mine THEN row
  ELSE IF at = "committed" THEN [row EXCEPT !.saved = row.staged] ELSE [row EXCEPT !.staged = row.saved]

\* Keeping and forgetting leave the tables what they are.
LEMMA KeptTyped ==
  ASSUME NEW c
  PROVE  /\ trace \in [Calcs -> [Workflows -> TraceRows]] =>
              {Keep(trace, c), Forget(trace, c)} \subseteq [Calcs -> [Workflows -> TraceRows]]
         /\ event \in [Calcs -> [Workflows -> EventRows]] =>
              {Keep(event, c), Forget(event, c)} \subseteq [Calcs -> [Workflows -> EventRows]]
<1>1. ASSUME NEW x \in TraceRows
      PROVE  [x EXCEPT !.saved = x.staged] \in TraceRows /\ [x EXCEPT !.staged = x.saved] \in TraceRows
  BY DEF TraceRows
<1>2. ASSUME NEW x \in EventRows
      PROVE  [x EXCEPT !.saved = x.staged] \in EventRows /\ [x EXCEPT !.staged = x.saved] \in EventRows
  BY DEF EventRows
<1>3. ASSUME trace \in [Calcs -> [Workflows -> TraceRows]], NEW q \in Calcs, NEW w \in Workflows
      PROVE  /\ trace[q][w] \in TraceRows
             /\ [trace[q][w] EXCEPT !.saved = trace[q][w].staged] \in TraceRows
             /\ [trace[q][w] EXCEPT !.staged = trace[q][w].saved] \in TraceRows
  <2>1. trace[q][w] \in TraceRows
    BY <1>3
  <2> QED
    BY <1>1, <2>1
<1>4. ASSUME event \in [Calcs -> [Workflows -> EventRows]], NEW q \in Calcs, NEW w \in Workflows
      PROVE  /\ event[q][w] \in EventRows
             /\ [event[q][w] EXCEPT !.saved = event[q][w].staged] \in EventRows
             /\ [event[q][w] EXCEPT !.staged = event[q][w].saved] \in EventRows
  <2>1. event[q][w] \in EventRows
    BY <1>4
  <2> QED
    BY <1>2, <2>1
<1> QED
  BY <1>3, <1>4 DEF Keep, Forget, OnClient

\* TypeOK, a request at a time.
LEMMA Typed ==
  ASSUME TypeOK
  PROVE  /\ trace \in [Calcs -> [Workflows -> TraceRows]]
         /\ event \in [Calcs -> [Workflows -> EventRows]]
         /\ \A q \in Calcs : calc[q].at \in Places /\ calc[q].client \in Clients \cup {NoClient}
         /\ \A q \in Calcs, w \in Swarm : trace[q][w] \in TraceRows
         /\ \A q \in Calcs, w \in Swarm : event[q][w] \in EventRows
         /\ \A q \in Calcs : trace[q][Analysis] \in TraceRows
         /\ \A q \in Calcs : event[q][Analysis] \in EventRows
<1>1. /\ trace \in [Calcs -> [Workflows -> TraceRows]]
      /\ event \in [Calcs -> [Workflows -> EventRows]]
  BY DEF TypeOK
<1>2. \A q \in Calcs : calc[q].at \in Places /\ calc[q].client \in Clients \cup {NoClient}
  BY DEF TypeOK, CalcStates
<1> QED
  BY <1>1, <1>2, WorkflowsApart

\* A step of one request or of one of its subagents: the others' parts are as
\* they were, but for who holds their clients.
LEMMA OthersStay ==
  ASSUME TraceInv, TypeOK', NEW q \in Calcs,
         \A p \in Calcs \ {q} : /\ calc'[p] = calc[p] /\ result'[p] = result[p] /\ agent'[p] = agent[p]
                                 /\ trace'[p] = trace[p] /\ event'[p] = event[p],
         \A p \in Calcs : HoldsItsClient(p)',
         \A w \in Swarm : AnswersOnce(q, w)' /\ RowsFollow(q, w)',
         AnalysisFollows(q)'
  PROVE  TraceInv'
<1>1. ASSUME NEW p \in Calcs, p # q, NEW w \in Swarm PROVE AnswersOnce(p, w)' /\ RowsFollow(p, w)'
  BY <1>1 DEF TraceInv, AnswersOnce, RowsFollow, Ended
<1>2. ASSUME NEW p \in Calcs, p # q PROVE AnalysisFollows(p)'
  BY <1>2 DEF TraceInv, AnalysisFollows, Told, Ended
<1> QED
  BY <1>1, <1>2 DEF TraceInv

\* A request that stays in flight on its client, which it still holds.
LEMMA ClientsStay ==
  ASSUME TraceInv, NEW q \in Calcs, calc[q].at \in Flying, calc'[q].client = calc[q].client,
         calc'[q].at # "waiting", \A p \in Calcs \ {q} : calc'[p] = calc[p],
         \A c \in Clients : client'[c].holder = client[c].holder
  PROVE  \A p \in Calcs : HoldsItsClient(p)'
BY DEF TraceInv, HoldsItsClient

-----------------------------------------------------------------------------
(* The steps of a request. *)

\* The invariant of the trace holds at first.
LEMMA InitTraceInv == Init => TraceInv
<1> SUFFICES ASSUME Init PROVE TraceInv
  OBVIOUS
<1>1. TypeOK
  <2>1. Idle \in ClientStates /\ NoResult \in Results /\ NoRow \in TraceRows /\ NoRow \in EventRows
    BY DEF Idle, ClientStates, NoResult, Results, NoRow, TraceRows, EventRows
  <2>2. NoAgent \in AgentStates /\ Waiting \subseteq CalcStates
    BY DEF NoAgent, AgentStates, Waiting, CalcStates, Places
  <2> QED
    BY <2>1, <2>2 DEF Init, TypeOK
<1>2. \A q \in Calcs : calc[q].at = "waiting" /\ calc[q].client = NoClient
  BY DEF Init, Waiting
<1>3. \A q \in Calcs : HoldsItsClient(q)
  BY <1>2 DEF HoldsItsClient, Flying
<1>4. /\ \A q \in Calcs, w \in Swarm : AnswersOnce(q, w)
      /\ \A q \in Calcs, w \in Swarm : RowsFollow(q, w)
  BY <1>2, WorkflowsApart DEF Init, AnswersOnce, RowsFollow, NoRow, NoAgent, Ended
<1>5. \A q \in Calcs : AnalysisFollows(q)
  BY <1>2, WorkflowsApart DEF Init, AnalysisFollows, NoRow, NoResult, Ended
<1> QED
  BY <1>1, <1>3, <1>4, <1>5 DEF TraceInv

\* A free client is nobody's who is in flight.
LEMMA CheckOutOK ==
  ASSUME TraceInv, NEW q \in Calcs, CheckOut(q)
  PROVE  TraceInv'
<1>1. PICK c \in Clients : /\ Free(c) /\ client' = [client EXCEPT ![c].holder = q]
                           /\ calc' = [calc EXCEPT ![q].at = "begun", ![q].client = c]
  BY DEF CheckOut
<1>2. /\ calc[q].at = "waiting" /\ UNCHANGED <<result, trace, event, agent>>
      /\ client \in [Clients -> ClientStates] /\ calc \in [Calcs -> CalcStates]
  BY DEF CheckOut, TraceInv, TypeOK
<1>3. /\ calc'[q].at = "begun" /\ calc'[q].client = c /\ client'[c].holder = q
      /\ \A p \in Calcs \ {q} : calc'[p] = calc[p]
      /\ \A d \in Clients \ {c} : client'[d] = client[d]
  BY <1>1, <1>2 DEF CalcStates, ClientStates
<1>4. TypeOK'
  <2>1. client' \in [Clients -> ClientStates]
    BY <1>1, <1>2 DEF ClientStates
  <2>2. calc' \in [Calcs -> CalcStates]
    BY <1>1, <1>2 DEF CalcStates, Places
  <2> QED
    BY <1>2, <2>1, <2>2 DEF TraceInv, TypeOK
<1>5. ASSUME NEW p \in Calcs PROVE HoldsItsClient(p)'
  <2>1. CASE p = q
    BY <1>3, <2>1 DEF HoldsItsClient
  <2>2. CASE p # q
    <3>1. HoldsItsClient(p) /\ calc'[p] = calc[p]
      BY <1>3, <2>2 DEF TraceInv
    <3>2. client[c].holder # p
      BY <1>1, NobodyAssumption DEF Free, NobodyAssumption
    <3> QED
      BY <1>3, <3>1, <3>2 DEF HoldsItsClient
  <2> QED
    BY <2>1, <2>2
<1>6. \A w \in Swarm : AnswersOnce(q, w)' /\ RowsFollow(q, w)'
  BY <1>2, <1>3 DEF TraceInv, AnswersOnce, RowsFollow, Ended, Early
<1>7. AnalysisFollows(q)'
  BY <1>2, <1>3 DEF TraceInv, AnalysisFollows, Ended
<1> QED
  BY <1>2, <1>3, <1>4, <1>5, <1>6, <1>7, OthersStay

\* The run's row is made in the mode the query asks for.
LEMMA CreateRunOK ==
  ASSUME TraceInv, NEW q \in Calcs, NEW mode \in {"eve", "direct"}, CreateRun(q, mode)
  PROVE  TraceInv'
<1> DEFINE at == IF mode = "eve" THEN "analysing" ELSE "calculating"
           c  == calc[q].client
<1>1. /\ calc[q].at = "begun" /\ calc' = [calc EXCEPT ![q].at = at]
      /\ client' = [client EXCEPT ![c].tenant = TRUE]
      /\ result' = [result EXCEPT ![q].mode = mode]
      /\ UNCHANGED <<trace, event, agent>>
  BY DEF CreateRun, Works, Move
<1>2. /\ client \in [Clients -> ClientStates] /\ calc \in [Calcs -> CalcStates]
      /\ result \in [Calcs -> Results] /\ c \in Clients
  BY <1>1 DEF TraceInv, TypeOK, HoldsItsClient, Flying
<1>3. /\ client' \in [Clients -> ClientStates]
      /\ \A d \in Clients : client'[d].holder = client[d].holder
  BY <1>1, <1>2 DEF ClientStates
<1>4. /\ calc' \in [Calcs -> CalcStates] /\ calc'[q].at = at /\ calc'[q].client = c
      /\ \A p \in Calcs \ {q} : calc'[p] = calc[p]
  BY <1>1, <1>2 DEF CalcStates, Places
<1>5. /\ result' \in [Calcs -> Results]
      /\ result'[q].mode = mode /\ result'[q].figures = result[q].figures
      /\ \A p \in Calcs \ {q} : result'[p] = result[p]
  BY <1>1, <1>2 DEF Results
<1>6. TypeOK'
  BY <1>1, <1>3, <1>4, <1>5 DEF TraceInv, TypeOK
<1>7. \A p \in Calcs : HoldsItsClient(p)'
  BY <1>1, <1>3, <1>4, ClientsStay DEF Flying
<1>8. \A w \in Swarm : AnswersOnce(q, w)' /\ RowsFollow(q, w)'
  BY <1>1, <1>4 DEF TraceInv, AnswersOnce, RowsFollow, Ended, Early
<1>9. AnalysisFollows(q)'
  <2>1. /\ result[q].figures = "none"
        /\ trace[q][Analysis].staged = "absent" /\ event[q][Analysis].staged = "absent"
    BY <1>1 DEF TraceInv, AnalysisFollows
  <2>2. mode = "direct" => result'[q] = [mode |-> "direct", figures |-> "none"]
    BY <1>5, <2>1 DEF Results
  <2> QED
    BY <1>1, <1>4, <1>5, <2>1, <2>2 DEF AnalysisFollows, Ended
<1> QED
  BY <1>1, <1>4, <1>5, <1>6, <1>7, <1>8, <1>9, OthersStay

\* The analysis' row is started, with a second client of the pool at hand.
LEMMA LookUpPatternsOK ==
  ASSUME TraceInv, NEW q \in Calcs, LookUpPatterns(q)
  PROVE  TraceInv'
<1>1. /\ calc[q].at = "analysing" /\ calc' = [calc EXCEPT ![q].at = "asking"]
      /\ trace' = [trace EXCEPT ![q][Analysis].staged = "started"]
      /\ UNCHANGED <<client, result, event, agent>>
      /\ calc \in [Calcs -> CalcStates] /\ trace \in [Calcs -> [Workflows -> TraceRows]]
  BY DEF LookUpPatterns, Works, Move, TraceInv, TypeOK
<1>2. /\ trace' \in [Calcs -> [Workflows -> TraceRows]]
      /\ trace'[q][Analysis].saved = trace[q][Analysis].saved
      /\ \A p \in Calcs \ {q} : trace'[p] = trace[p]
      /\ \A w \in Swarm : trace'[q][w] = trace[q][w]
  BY <1>1, WorkflowsApart DEF TraceRows
<1>3. /\ calc' \in [Calcs -> CalcStates] /\ calc'[q].at = "asking" /\ calc'[q].client = calc[q].client
      /\ \A p \in Calcs \ {q} : calc'[p] = calc[p]
  BY <1>1 DEF CalcStates, Places
<1>4. TypeOK'
  BY <1>1, <1>2, <1>3 DEF TraceInv, TypeOK
<1>5. \A p \in Calcs : HoldsItsClient(p)'
  BY <1>1, <1>3, ClientsStay DEF Flying
<1>6. \A w \in Swarm : AnswersOnce(q, w)' /\ RowsFollow(q, w)'
  BY <1>1, <1>2, <1>3 DEF TraceInv, AnswersOnce, RowsFollow, Ended, Early
<1>7. AnalysisFollows(q)'
  BY <1>1, <1>2, <1>3 DEF TraceInv, AnalysisFollows, Ended
<1> QED
  BY <1>1, <1>2, <1>3, <1>4, <1>5, <1>6, <1>7, OthersStay

\* The analysis ends: its outcome is staged with its event and the figures.
LEMMA AnalysedOK ==
  ASSUME TraceInv, NEW q \in Calcs, NEW answer \in ModelAnswers, Analysed(q, answer)
  PROVE  TraceInv'
<1> DEFINE outcome == IF Succeeds(answer) THEN "completed" ELSE "failed"
           source  == IF Succeeds(answer) THEN "model" ELSE "ledger"
<1>1. /\ calc[q].at = "asking" /\ calc' = [calc EXCEPT ![q].at = "calculating"]
      /\ trace' = [trace EXCEPT ![q][Analysis].staged = outcome]
      /\ event' = [event EXCEPT ![q][Analysis].staged = outcome]
      /\ result' = [result EXCEPT ![q].figures = source]
      /\ UNCHANGED <<client, agent>>
  BY DEF Analysed, Works, Move
<1>2. /\ calc \in [Calcs -> CalcStates] /\ result \in [Calcs -> Results]
      /\ source \in {"model", "ledger"} /\ outcome \in Settled
      /\ (outcome = "completed" <=> source = "model") /\ (outcome = "failed" <=> source = "ledger")
  BY DEF TraceInv, TypeOK, Settled
<1> HIDE DEF outcome, source
<1>3. /\ trace' \in [Calcs -> [Workflows -> TraceRows]]
      /\ trace'[q][Analysis].saved = trace[q][Analysis].saved /\ trace'[q][Analysis].staged = outcome
      /\ \A p \in Calcs \ {q} : trace'[p] = trace[p]
      /\ \A w \in Swarm : trace'[q][w] = trace[q][w]
  <2>1. trace \in [Calcs -> [Workflows -> TraceRows]]
    BY DEF TraceInv, TypeOK
  <2>2. Analysis \in Workflows /\ \A w \in Swarm : w \in Workflows \ {Analysis}
    BY WorkflowsApart
  <2>3. outcome \in Settled \cup {"absent", "started"}
    BY <1>2
  <2>4. trace' = [trace EXCEPT ![q][Analysis].staged = outcome]
    BY <1>1
  <2> QED
    BY <2>1, <2>2, <2>3, <2>4 DEF TraceRows
<1>4. /\ event' \in [Calcs -> [Workflows -> EventRows]]
      /\ event'[q][Analysis].saved = event[q][Analysis].saved /\ event'[q][Analysis].staged = outcome
      /\ \A p \in Calcs \ {q} : event'[p] = event[p]
      /\ \A w \in Swarm : event'[q][w] = event[q][w]
  <2>1. event \in [Calcs -> [Workflows -> EventRows]]
    BY DEF TraceInv, TypeOK
  <2>2. Analysis \in Workflows /\ \A w \in Swarm : w \in Workflows \ {Analysis}
    BY WorkflowsApart
  <2>3. outcome \in Settled \cup {"absent"}
    BY <1>2
  <2>4. event' = [event EXCEPT ![q][Analysis].staged = outcome]
    BY <1>1
  <2> QED
    BY <2>1, <2>2, <2>3, <2>4 DEF EventRows
<1>5. /\ calc' \in [Calcs -> CalcStates] /\ calc'[q].at = "calculating"
      /\ calc'[q].client = calc[q].client /\ \A p \in Calcs \ {q} : calc'[p] = calc[p]
  BY <1>1, <1>2 DEF CalcStates, Places
<1>6. /\ result' \in [Calcs -> Results] /\ result'[q].figures = source
      /\ result'[q].mode = result[q].mode /\ \A p \in Calcs \ {q} : result'[p] = result[p]
  BY <1>1, <1>2 DEF Results
<1>7. TypeOK'
  BY <1>1, <1>3, <1>4, <1>5, <1>6 DEF TraceInv, TypeOK
<1>8. \A p \in Calcs : HoldsItsClient(p)'
  BY <1>1, <1>5, ClientsStay DEF Flying
<1>9. ASSUME NEW w \in Swarm PROVE AnswersOnce(q, w)' /\ RowsFollow(q, w)'
  <2>1. trace'[q][w] = trace[q][w] /\ event'[q][w] = event[q][w] /\ agent'[q][w] = agent[q][w]
    BY <1>1, <1>3, <1>4
  <2>2. AnswersOnce(q, w) /\ RowsFollow(q, w)
    BY DEF TraceInv
  <2> QED
    BY <1>1, <1>5, <2>1, <2>2 DEF AnswersOnce, RowsFollow, Ended, Early
<1>10. AnalysisFollows(q)'
  <2>1. result[q].mode = "eve"
    BY <1>1 DEF TraceInv, AnalysisFollows
  <2>2. Told(result'[q], outcome, outcome)
    BY <1>2, <1>6, <2>1 DEF Told
  <2> QED
    BY <1>2, <1>3, <1>4, <1>5, <1>6, <2>2 DEF AnalysisFollows, Ended
<1> QED
  BY <1>1, <1>3, <1>4, <1>5, <1>6, <1>7, <1>8, <1>9, <1>10, OthersStay

\* The calculation: from here on the subagents' rows are staged.
LEMMA CalculateOK ==
  ASSUME TraceInv, NEW q \in Calcs, Calculate(q)
  PROVE  TraceInv'
<1> DEFINE started == [w \in Workflows |->
             IF w \in Swarm THEN [trace[q][w] EXCEPT !.staged = "started"] ELSE trace[q][w]]
           agents == [w \in Swarm |-> [at |-> "executing", answer |-> "none"]]
           source == IF result[q].figures = "none" THEN "ledger" ELSE result[q].figures
<1>1. /\ calc[q].at = "calculating" /\ calc' = [calc EXCEPT ![q].at = "answering"]
      /\ UNCHANGED <<client, event>>
  BY DEF Calculate, Works, Move
<1>2. /\ calc \in [Calcs -> CalcStates] /\ trace \in [Calcs -> [Workflows -> TraceRows]]
      /\ agent \in [Calcs -> [Swarm -> AgentStates]] /\ result \in [Calcs -> Results]
      /\ trace[q] \in [Workflows -> TraceRows]
  BY DEF TraceInv, TypeOK
<1>3. /\ started \in [Workflows -> TraceRows] /\ started[Analysis] = trace[q][Analysis]
      /\ \A w \in Swarm : started[w].saved = trace[q][w].saved /\ started[w].staged = "started"
  <2>1. \A w \in Workflows : trace[q][w] \in TraceRows
    BY <1>2
  <2>2. \A w \in Workflows : /\ [trace[q][w] EXCEPT !.staged = "started"] \in TraceRows
                             /\ [trace[q][w] EXCEPT !.staged = "started"].saved = trace[q][w].saved
                             /\ [trace[q][w] EXCEPT !.staged = "started"].staged = "started"
    BY <2>1 DEF TraceRows
  <2> QED
    BY <2>1, <2>2, WorkflowsApart
<1>4. trace' = [trace EXCEPT ![q] = started]
  BY <1>2 DEF Calculate
<1>5. agent' = [agent EXCEPT ![q] = agents] /\ agents \in [Swarm -> AgentStates]
  BY DEF Calculate, AgentStates
<1>6. result' = [result EXCEPT ![q].figures = source] /\ source \in {"model", "ledger"}
  BY <1>2 DEF Calculate, Results
<1> HIDE DEF started, source
<1>7. /\ trace' \in [Calcs -> [Workflows -> TraceRows]] /\ trace'[q] = started
      /\ \A p \in Calcs \ {q} : trace'[p] = trace[p]
  BY <1>2, <1>3, <1>4
<1>8. /\ agent' \in [Calcs -> [Swarm -> AgentStates]]
      /\ \A w \in Swarm : agent'[q][w].at = "executing" /\ agent'[q][w].answer = "none"
      /\ \A p \in Calcs \ {q} : agent'[p] = agent[p]
  BY <1>2, <1>5
<1>9. /\ calc' \in [Calcs -> CalcStates] /\ calc'[q].at = "answering"
      /\ calc'[q].client = calc[q].client /\ \A p \in Calcs \ {q} : calc'[p] = calc[p]
  BY <1>1, <1>2 DEF CalcStates, Places
<1>10. /\ result' \in [Calcs -> Results] /\ result'[q].figures = source
       /\ result'[q].mode = result[q].mode /\ \A p \in Calcs \ {q} : result'[p] = result[p]
  BY <1>2, <1>6 DEF Results
<1>11. TypeOK'
  BY <1>1, <1>7, <1>8, <1>9, <1>10 DEF TraceInv, TypeOK
<1>12. \A p \in Calcs : HoldsItsClient(p)'
  BY <1>1, <1>9, ClientsStay DEF Flying
<1>13. ASSUME NEW w \in Swarm PROVE AnswersOnce(q, w)' /\ RowsFollow(q, w)'
  <2>1. /\ trace[q][w].saved = "absent" /\ agent[q][w].at = "idle"
        /\ {event[q][w].saved, event[q][w].staged} \subseteq {"absent", "none"}
    BY <1>1 DEF TraceInv, AnswersOnce, RowsFollow, Ended, Early
  <2>2. trace'[q][w].saved = "absent" /\ trace'[q][w].staged = "started"
    BY <1>3, <1>7, <2>1
  <2> QED
    BY <1>1, <1>8, <1>9, <2>1, <2>2 DEF AnswersOnce, RowsFollow, Ended, Early
<1>14. AnalysisFollows(q)'
  <2>1. trace'[q][Analysis] = trace[q][Analysis] /\ event' = event
    BY <1>1, <1>3, <1>7
  <2>2. CASE result[q].figures # "none"
    <3>1. Told(result[q], trace[q][Analysis].staged, event[q][Analysis].staged)
      BY <1>1, <2>2 DEF TraceInv, AnalysisFollows
    <3>2. source = result[q].figures
      BY <2>2 DEF source
    <3>3. Told(result'[q], trace[q][Analysis].staged, event[q][Analysis].staged)
      BY <1>10, <3>1, <3>2 DEF Told
    <3> QED
      BY <1>9, <2>1, <3>3 DEF AnalysisFollows, Ended
  <2>3. CASE result[q].figures = "none"
    <3>1. /\ result[q] = [mode |-> "direct", figures |-> "none"]
          /\ trace[q][Analysis].staged = "absent" /\ event[q][Analysis].staged = "absent"
      BY <1>1, <2>3 DEF TraceInv, AnalysisFollows
    <3>2. source = "ledger" /\ result'[q].mode = "direct"
      BY <1>10, <2>3, <3>1 DEF source
    <3>3. Told(result'[q], "absent", "absent")
      BY <1>10, <3>2 DEF Told
    <3> QED
      BY <1>9, <2>1, <3>1, <3>3 DEF AnalysisFollows, Ended
  <2> QED
    BY <2>2, <2>3
<1> QED
  BY <1>1, <1>7, <1>8, <1>9, <1>10, <1>11, <1>12, <1>13, <1>14, OthersStay

-----------------------------------------------------------------------------
(* The steps of a subagent. *)

\* A step that moves one agent, and perhaps its rows: the clients' holders and
\* all requests are as before.
LEMMA AgentMoves ==
  ASSUME TraceInv, TypeOK', NEW q \in Calcs, NEW w \in Swarm,
         UNCHANGED <<calc, result>>,
         \A c \in Clients : client'[c].holder = client[c].holder,
         \A p \in Calcs \ {q} : agent'[p] = agent[p] /\ trace'[p] = trace[p] /\ event'[p] = event[p],
         \A v \in Workflows \ {w} : trace'[q][v] = trace[q][v] /\ event'[q][v] = event[q][v],
         \A v \in Swarm \ {w} : agent'[q][v] = agent[q][v],
         AnswersOnce(q, w)', RowsFollow(q, w)'
  PROVE  TraceInv'
<1>1. \A p \in Calcs : HoldsItsClient(p)'
  BY DEF TraceInv, HoldsItsClient
<1>2. ASSUME NEW v \in Swarm, v # w PROVE AnswersOnce(q, v)' /\ RowsFollow(q, v)'
  <2>1. trace'[q][v] = trace[q][v] /\ event'[q][v] = event[q][v] /\ agent'[q][v] = agent[q][v]
    BY <1>2, WorkflowsApart
  <2> QED
    BY <2>1 DEF TraceInv, AnswersOnce, RowsFollow, Ended
<1>3. AnalysisFollows(q)'
  <2>1. trace'[q][Analysis] = trace[q][Analysis] /\ event'[q][Analysis] = event[q][Analysis]
    BY WorkflowsApart
  <2> QED
    BY <2>1 DEF TraceInv, AnalysisFollows, Told, Ended
<1> QED
  BY <1>1, <1>2, <1>3, OthersStay

\* The first of the agent and its timeout is the answer, and the only one.
LEMMA AnswerOK ==
  ASSUME TraceInv, NEW q \in Calcs, NEW w \in Swarm, NEW outcome \in Endings(w),
         Answer(q, w, outcome)
  PROVE  TraceInv'
<1>1. /\ agent[q][w].at = "executing"
      /\ agent' = [agent EXCEPT ![q][w] = [at |-> "answered", answer |-> outcome]]
      /\ UNCHANGED <<client, calc, result, trace, event>>
      /\ agent \in [Calcs -> [Swarm -> AgentStates]]
  BY DEF Answer, TraceInv, TypeOK
<1>2. outcome \in Settled /\ [at |-> "answered", answer |-> outcome] \in AgentStates
  BY EndingsSettled DEF AgentStates
<1>3. /\ agent' \in [Calcs -> [Swarm -> AgentStates]]
      /\ agent'[q][w].at = "answered" /\ agent'[q][w].answer = outcome
      /\ \A p \in Calcs \ {q} : agent'[p] = agent[p]
      /\ \A v \in Swarm \ {w} : agent'[q][v] = agent[q][v]
  BY <1>1, <1>2
<1>4. TypeOK'
  BY <1>1, <1>3 DEF TraceInv, TypeOK
<1>5. AnswersOnce(q, w)' /\ RowsFollow(q, w)'
  <2>1. /\ trace[q][w] \in TraceRows /\ event[q][w] \in EventRows
        /\ AnswersOnce(q, w) /\ RowsFollow(q, w)
    BY Typed DEF TraceInv
  <2>2. agent[q][w].answer = "none" /\ calc[q].at \notin Early
    BY <1>1, <2>1 DEF AnswersOnce
  <2>3. /\ {trace[q][w].saved, trace[q][w].staged} \subseteq {"absent", "started"}
        /\ {event[q][w].saved, event[q][w].staged} \subseteq {"absent"}
    BY <2>1, <2>2 DEF AnswersOnce, TraceRows, EventRows, Settled
  <2> QED
    BY <1>1, <1>2, <1>3, <2>1, <2>2, <2>3 DEF AnswersOnce, RowsFollow, Ended
<1> QED
  BY <1>1, <1>3, <1>4, <1>5, AgentMoves

\* An agent goes on: only where it is changes, and of one agent only.
LEMMA AgentGoesOn ==
  ASSUME agent \in [Calcs -> [Swarm -> AgentStates]], NEW q \in Calcs, NEW w \in Swarm,
         NEW at \in {"ended", "updated", "recording"}, agent' = [agent EXCEPT ![q][w].at = at]
  PROVE  /\ agent' \in [Calcs -> [Swarm -> AgentStates]]
         /\ agent'[q][w].at = at /\ agent'[q][w].answer = agent[q][w].answer
         /\ \A p \in Calcs \ {q} : agent'[p] = agent[p]
         /\ \A v \in Swarm \ {w} : agent'[q][v] = agent[q][v]
<1> DEFINE next == [agent[q][w] EXCEPT !.at = at]
<1>1. next \in AgentStates /\ next.at = at /\ next.answer = agent[q][w].answer
  <2>1. agent[q][w] \in AgentStates
    OBVIOUS
  <2> QED
    BY <2>1 DEF AgentStates
<1>2. agent' = [agent EXCEPT ![q][w] = next]
  OBVIOUS
<1> HIDE DEF next
<1>3. /\ agent' \in [Calcs -> [Swarm -> AgentStates]] /\ agent'[q][w] = next
      /\ \A p \in Calcs \ {q} : agent'[p] = agent[p]
      /\ \A v \in Swarm \ {w} : agent'[q][v] = agent[q][v]
  BY <1>1, <1>2
<1> QED
  BY <1>1, <1>3

\* The late update writes the answer on a row that its run has saved.
LEMMA UpdateOK ==
  ASSUME TraceInv, NEW q \in Calcs, NEW w \in Swarm, Update(q, w)
  PROVE  TraceInv'
<1> DEFINE answer == agent[q][w].answer
<1>1. /\ agent[q][w].at = "answered" /\ Ended(q)
      /\ UNCHANGED <<client, calc, result, event>>
      /\ agent \in [Calcs -> [Swarm -> AgentStates]]
      /\ trace \in [Calcs -> [Workflows -> TraceRows]]
  BY DEF Update, TraceInv, TypeOK
<1>2. PICK at \in {"ended", "updated"} : agent' = [agent EXCEPT ![q][w].at = at]
  BY DEF Update, Goes
<1>3. /\ agent' \in [Calcs -> [Swarm -> AgentStates]]
      /\ agent'[q][w].at = at /\ agent'[q][w].answer = answer
      /\ \A p \in Calcs \ {q} : agent'[p] = agent[p]
      /\ \A v \in Swarm \ {w} : agent'[q][v] = agent[q][v]
  BY <1>1, <1>2, AgentGoesOn
<1>4. w \in Workflows /\ answer \in Settled /\ AnswersOnce(q, w) /\ RowsFollow(q, w)
  BY <1>1, WorkflowsApart DEF TraceInv, AnswersOnce
<1> HIDE DEF answer
<1>5. CASE trace' = trace
  <2>1. TypeOK'
    BY <1>1, <1>3, <1>5 DEF TraceInv, TypeOK
  <2>2. AnswersOnce(q, w)' /\ RowsFollow(q, w)'
    BY <1>1, <1>2, <1>3, <1>4, <1>5 DEF AnswersOnce, RowsFollow, Ended, answer
  <2> QED
    BY <1>1, <1>3, <1>5, <2>1, <2>2, AgentMoves
<1>6. CASE trace' # trace
  <2>1. trace' = [trace EXCEPT ![q][w].staged = answer] /\ trace[q][w].saved # "absent"
    BY <1>6 DEF Update, answer
  <2>2. answer \in Settled \cup {"absent", "started"} /\ answer # "absent"
    BY <1>4 DEF Settled
  <2>3. /\ trace' \in [Calcs -> [Workflows -> TraceRows]]
        /\ trace'[q][w].saved = trace[q][w].saved /\ trace'[q][w].staged = answer
        /\ \A p \in Calcs \ {q} : trace'[p] = trace[p]
        /\ \A v \in Workflows \ {w} : trace'[q][v] = trace[q][v]
    BY <1>1, <1>4, <2>1, <2>2 DEF TraceRows
  <2>4. TypeOK'
    BY <1>1, <1>3, <2>3 DEF TraceInv, TypeOK
  <2>5. AnswersOnce(q, w)'
    BY <1>1, <1>2, <1>3, <1>4, <2>3 DEF AnswersOnce, Ended, answer
  <2>6. RowsFollow(q, w)'
    BY <1>1, <1>4, <2>1, <2>2, <2>3 DEF RowsFollow, Ended
  <2> QED
    BY <1>1, <1>3, <2>3, <2>4, <2>5, <2>6, AgentMoves
<1> QED
  BY <1>5, <1>6

\* The select that reads a trace back: without the row there is no event to
\* record.
LEMMA ReadBackOK ==
  ASSUME TraceInv, NEW q \in Calcs, NEW w \in Swarm, ReadBack(q, w)
  PROVE  TraceInv'
<1>1. /\ agent[q][w].at = "updated"
      /\ UNCHANGED <<client, calc, result, trace, event>>
      /\ agent \in [Calcs -> [Swarm -> AgentStates]]
  BY DEF ReadBack, TraceInv, TypeOK
<1>2. PICK at \in {"ended", "recording"} : agent' = [agent EXCEPT ![q][w].at = at]
  BY DEF ReadBack, Goes
<1>3. /\ agent' \in [Calcs -> [Swarm -> AgentStates]]
      /\ agent'[q][w].at = at /\ agent'[q][w].answer = agent[q][w].answer
      /\ \A p \in Calcs \ {q} : agent'[p] = agent[p]
      /\ \A v \in Swarm \ {w} : agent'[q][v] = agent[q][v]
  BY <1>1, <1>2, AgentGoesOn
<1>4. TypeOK'
  BY <1>1, <1>3 DEF TraceInv, TypeOK
<1>5. AnswersOnce(q, w)' /\ RowsFollow(q, w)'
  BY <1>1, <1>2, <1>3 DEF TraceInv, AnswersOnce, RowsFollow, Ended
<1> QED
  BY <1>1, <1>3, <1>4, <1>5, AgentMoves

\* The late event, which may abort the transaction of whoever has the client.
LEMMA RecordOK ==
  ASSUME TraceInv, NEW q \in Calcs, NEW w \in Swarm, Record(q, w)
  PROVE  TraceInv'
<1> DEFINE answer == agent[q][w].answer
<1>1. /\ agent[q][w].at = "recording" /\ UNCHANGED <<calc, result, trace>>
      /\ agent' = [agent EXCEPT ![q][w].at = "ended"]
      /\ agent \in [Calcs -> [Swarm -> AgentStates]]
      /\ event \in [Calcs -> [Workflows -> EventRows]]
      /\ client \in [Clients -> ClientStates]
  BY DEF Record, Goes, TraceInv, TypeOK
<1>2. /\ client' \in [Clients -> ClientStates]
      /\ \A c \in Clients : client'[c].holder = client[c].holder
  <2>1. client' = client \/ client' = [client EXCEPT ![calc[q].client].aborted = TRUE]
    BY DEF Record
  <2>2. client \in [Clients -> ClientStates]
    BY <1>1
  <2>3. CASE client' = [client EXCEPT ![calc[q].client].aborted = TRUE]
    <3> DEFINE c == calc[q].client
    <3>1. c \in Clients => client[c] \in ClientStates
      BY <2>2
    <3>2. c \in Clients => /\ [client[c] EXCEPT !.aborted = TRUE] \in ClientStates
                           /\ [client[c] EXCEPT !.aborted = TRUE].holder = client[c].holder
      BY <3>1 DEF ClientStates
    <3>3. client' = [client EXCEPT ![c] = [client[c] EXCEPT !.aborted = TRUE]]
      BY <2>2, <2>3
    <3> HIDE DEF c
    <3> QED
      BY <2>2, <3>2, <3>3
  <2> QED
    BY <2>1, <2>2, <2>3
<1>3. /\ agent' \in [Calcs -> [Swarm -> AgentStates]]
      /\ agent'[q][w].at = "ended" /\ agent'[q][w].answer = answer
      /\ \A p \in Calcs \ {q} : agent'[p] = agent[p]
      /\ \A v \in Swarm \ {w} : agent'[q][v] = agent[q][v]
  <2>1. agent \in [Calcs -> [Swarm -> AgentStates]] /\ agent' = [agent EXCEPT ![q][w].at = "ended"]
    BY <1>1
  <2> QED
    BY <2>1, AgentGoesOn DEF answer
<1>4. w \in Workflows /\ answer \in Settled /\ AnswersOnce(q, w) /\ RowsFollow(q, w)
  BY <1>1, WorkflowsApart DEF TraceInv, AnswersOnce
<1> HIDE DEF answer
<1>5. /\ event' \in [Calcs -> [Workflows -> EventRows]]
      /\ event'[q][w].saved = event[q][w].saved
      /\ event'[q][w].staged \in {event[q][w].staged, answer}
      /\ \A p \in Calcs \ {q} : event'[p] = event[p]
      /\ \A v \in Workflows \ {w} : event'[q][v] = event[q][v]
  <2>1. event' = event \/ event' = [event EXCEPT ![q][w].staged = answer]
    BY DEF Record, answer
  <2>2. /\ answer \in Settled \cup {"absent"} /\ w \in Workflows
        /\ event \in [Calcs -> [Workflows -> EventRows]]
    BY <1>1, <1>4
  <2>3. CASE event' = event
    BY <2>2, <2>3
  <2>4. CASE event' = [event EXCEPT ![q][w].staged = answer]
    <3> DEFINE row == [event[q][w] EXCEPT !.staged = answer]
    <3>1. event[q] \in [Workflows -> EventRows] /\ event[q][w] \in EventRows
      BY <2>2
    <3>2. row \in EventRows /\ row.saved = event[q][w].saved /\ row.staged = answer
      BY <2>2, <3>1 DEF EventRows
    <3>3. event' = [event EXCEPT ![q] = [event[q] EXCEPT ![w] = row]]
      BY <2>2, <2>4
    <3> HIDE DEF row
    <3>4. [event[q] EXCEPT ![w] = row] \in [Workflows -> EventRows]
      BY <3>1, <3>2
    <3> QED
      BY <2>2, <3>1, <3>2, <3>3, <3>4
  <2> QED
    BY <2>1, <2>3, <2>4
<1>6. TypeOK'
  BY <1>1, <1>2, <1>3, <1>5 DEF TraceInv, TypeOK
<1>7. AnswersOnce(q, w)'
  BY <1>1, <1>3, <1>4, <1>5 DEF AnswersOnce, answer
<1>8. RowsFollow(q, w)'
  BY <1>1, <1>4 DEF RowsFollow, Ended
<1> QED
  BY <1>1, <1>2, <1>3, <1>5, <1>6, <1>7, <1>8, AgentMoves

-----------------------------------------------------------------------------
(* The end of a request. *)

\* A client's transaction ends: its rows are kept or forgotten, those of ended
\* requests that had the client before included, and q is where it ends.
LEMMA EndOK ==
  ASSUME TraceInv, NEW q \in Calcs, calc[q].at \in Flying,
         NEW at \in {"committed", "lost", "failed"},
         calc' = [calc EXCEPT ![q].at = at],
         client' = [client EXCEPT ![calc[q].client] = Idle],
         \/ /\ at = "committed" /\ calc[q].at = "answering" /\ result' = result
            /\ trace' = Keep(trace, calc[q].client) /\ event' = Keep(event, calc[q].client)
         \/ /\ at # "committed" /\ result' = [result EXCEPT ![q] = NoResult]
            /\ trace' = Forget(trace, calc[q].client) /\ event' = Forget(event, calc[q].client),
         UNCHANGED agent
  PROVE  TraceInv'
<1> DEFINE c == calc[q].client
<1>1. /\ client \in [Clients -> ClientStates] /\ calc \in [Calcs -> CalcStates]
      /\ result \in [Calcs -> Results]
      /\ trace \in [Calcs -> [Workflows -> TraceRows]] /\ event \in [Calcs -> [Workflows -> EventRows]]
      /\ c \in Clients /\ client[c].holder = q
  BY DEF TraceInv, TypeOK, HoldsItsClient
<1>2. /\ client' \in [Clients -> ClientStates] /\ \A d \in Clients \ {c} : client'[d] = client[d]
  BY <1>1 DEF ClientStates, Idle
<1>3. /\ calc' \in [Calcs -> CalcStates] /\ calc'[q].at = at /\ calc'[q].client = c
      /\ \A p \in Calcs \ {q} : calc'[p] = calc[p]
  BY <1>1 DEF CalcStates, Places
<1>4. result' \in [Calcs -> Results] /\ \A p \in Calcs \ {q} : result'[p] = result[p]
  BY <1>1 DEF Results, NoResult
<1>5. ASSUME NEW p \in Calcs, NEW w \in Workflows
      PROVE  /\ trace[p][w] \in TraceRows /\ trace'[p][w] = Ending(trace[p][w], calc[p].client = c, at)
             /\ event[p][w] \in EventRows /\ event'[p][w] = Ending(event[p][w], calc[p].client = c, at)
  <2>1. trace[p][w] \in TraceRows /\ event[p][w] \in EventRows
    BY <1>1
  <2>2. CASE at = "committed"
    <3>1. trace' = Keep(trace, c) /\ event' = Keep(event, c)
      BY <2>2
    <3> QED
      BY <2>1, <2>2, <3>1 DEF Keep, OnClient, Ending
  <2>3. CASE at # "committed"
    <3>1. trace' = Forget(trace, c) /\ event' = Forget(event, c)
      BY <2>3
    <3> QED
      BY <2>1, <2>3, <3>1 DEF Forget, OnClient, Ending
  <2> QED
    BY <2>1, <2>2, <2>3
<1>6. ASSUME NEW p \in Calcs, NEW w \in Workflows, calc[p].client # c
      PROVE  trace'[p][w] = trace[p][w] /\ event'[p][w] = event[p][w]
  BY <1>5, <1>6 DEF Ending
<1>7. /\ trace' \in [Calcs -> [Workflows -> TraceRows]]
      /\ event' \in [Calcs -> [Workflows -> EventRows]]
  <2>1. \/ trace' = Keep(trace, c) /\ event' = Keep(event, c)
        \/ trace' = Forget(trace, c) /\ event' = Forget(event, c)
    OBVIOUS
  <2> HIDE DEF c
  <2> QED
    BY <1>1, <2>1, KeptTyped
<1>8. ASSUME NEW p \in Calcs, NEW w \in Workflows, calc[p].client = c
      PROVE  IF at = "committed"
             THEN /\ trace'[p][w].saved = trace[p][w].staged /\ trace'[p][w].staged = trace[p][w].staged
                  /\ event'[p][w].saved = event[p][w].staged /\ event'[p][w].staged = event[p][w].staged
             ELSE /\ trace'[p][w].saved = trace[p][w].saved /\ trace'[p][w].staged = trace[p][w].saved
                  /\ event'[p][w].saved = event[p][w].saved /\ event'[p][w].staged = event[p][w].saved
  <2>1. trace[p][w] \in TraceRows /\ event[p][w] \in EventRows
    BY <1>5
  <2>2. CASE at = "committed"
    <3>1. /\ trace'[p][w] = [trace[p][w] EXCEPT !.saved = trace[p][w].staged]
          /\ event'[p][w] = [event[p][w] EXCEPT !.saved = event[p][w].staged]
      BY <1>5, <1>8, <2>2 DEF Ending
    <3> QED
      BY <2>1, <2>2, <3>1 DEF TraceRows, EventRows
  <2>3. CASE at # "committed"
    <3>1. /\ trace'[p][w] = [trace[p][w] EXCEPT !.staged = trace[p][w].saved]
          /\ event'[p][w] = [event[p][w] EXCEPT !.staged = event[p][w].saved]
      BY <1>5, <1>8, <2>3 DEF Ending
    <3> QED
      BY <2>1, <2>3, <3>1 DEF TraceRows, EventRows
  <2> QED
    BY <2>2, <2>3
<1>9. TypeOK'
  BY <1>2, <1>3, <1>4, <1>7 DEF TraceInv, TypeOK
<1>10. ASSUME NEW p \in Calcs PROVE HoldsItsClient(p)'
  <2>1. CASE p = q
    BY <1>3, <2>1 DEF HoldsItsClient, Flying
  <2>2. CASE p # q
    BY <1>1, <1>2, <1>3, <2>2 DEF TraceInv, HoldsItsClient
  <2> QED
    BY <2>1, <2>2
<1> HIDE DEF c
<1>11. ASSUME NEW p \in Calcs, p # q, calc[p].client = c PROVE Ended(p) /\ Ended(p)' /\ calc'[p] = calc[p]
  BY <1>3, <1>11, OwnClient DEF Ended, c
<1>12. ASSUME NEW p \in Calcs, NEW w \in Swarm PROVE AnswersOnce(p, w)'
  <2>1. AnswersOnce(p, w) /\ w \in Workflows /\ agent' = agent
    BY WorkflowsApart DEF TraceInv
  <2>2. calc'[p].at \in Early => calc[p].at \in Early
    BY <1>3 DEF Early
  <2>3. CASE calc[p].client # c
    BY <1>6, <2>1, <2>2, <2>3 DEF AnswersOnce
  <2>4. CASE calc[p].client = c
    BY <1>8, <2>1, <2>2, <2>4 DEF AnswersOnce
  <2> QED
    BY <2>3, <2>4
<1>13. ASSUME NEW p \in Calcs, NEW w \in Swarm PROVE RowsFollow(p, w)'
  <2>1. RowsFollow(p, w) /\ w \in Workflows
    BY WorkflowsApart DEF TraceInv
  <2>2. CASE calc[p].client # c
    BY <1>3, <1>6, <2>1, <2>2 DEF RowsFollow, Ended, c
  <2>3. CASE p = q
    BY <1>3, <1>8, <2>1, <2>3 DEF RowsFollow, Ended, c, Flying
  <2>4. CASE calc[p].client = c /\ p # q
    BY <1>8, <1>11, <2>1, <2>4 DEF RowsFollow, Ended
  <2> QED
    BY <2>2, <2>3, <2>4
<1>14. ASSUME NEW p \in Calcs PROVE AnalysisFollows(p)'
  <2>1. AnalysisFollows(p) /\ Analysis \in Workflows
    BY WorkflowsApart DEF TraceInv
  <2>2. CASE calc[p].client # c
    BY <1>3, <1>4, <1>6, <2>1, <2>2 DEF AnalysisFollows, Told, Ended, c
  <2>3. CASE p = q /\ at = "committed"
    BY <1>3, <1>8, <2>1, <2>3 DEF AnalysisFollows, Told, Ended, c
  <2>4. CASE p = q /\ at # "committed"
    BY <1>3, <1>8, <2>1, <2>4 DEF AnalysisFollows, Ended, c
  <2>5. CASE calc[p].client = c /\ p # q
    BY <1>4, <1>8, <1>11, <2>1, <2>5 DEF AnalysisFollows, Told, Ended
  <2> QED
    BY <2>2, <2>3, <2>4, <2>5
<1> QED
  BY <1>9, <1>10, <1>12, <1>13, <1>14 DEF TraceInv

\* The COMMIT, answered by a rollback if the transaction was aborted.
LEMMA CommitOK ==
  ASSUME TraceInv, NEW q \in Calcs, Commit(q)
  PROVE  TraceInv'
<1>1. calc[q].at = "answering" /\ calc[q].at \in Flying
  BY DEF Commit, Flying
<1>2. client' = [client EXCEPT ![calc[q].client] = Idle] /\ UNCHANGED agent
  BY DEF Commit
<1>3. CASE client[calc[q].client].aborted
  <2>1. /\ trace' = Forget(trace, calc[q].client) /\ event' = Forget(event, calc[q].client)
        /\ calc' = [calc EXCEPT ![q].at = "lost"] /\ result' = [result EXCEPT ![q] = NoResult]
    BY <1>3 DEF Commit, Move
  <2> QED
    BY <1>1, <1>2, <2>1, EndOK
<1>4. CASE ~client[calc[q].client].aborted
  <2>1. /\ trace' = Keep(trace, calc[q].client) /\ event' = Keep(event, calc[q].client)
        /\ calc' = [calc EXCEPT ![q].at = "committed"] /\ result' = result
    BY <1>4 DEF Commit, Move
  <2> QED
    BY <1>1, <1>2, <2>1, EndOK
<1> QED
  BY <1>3, <1>4

\* A statement fails: everything the transaction wrote (traces, events, result)
\* is gone.
LEMMA FailOK ==
  ASSUME TraceInv, NEW q \in Calcs, Fail(q)
  PROVE  TraceInv'
<1>1. calc[q].at \in Flying
  <2>1. calc[q].at \in Places
    BY Typed DEF TraceInv
  <2> QED
    BY <2>1 DEF Fail, Ended, Places, Flying
<1>2. /\ client' = [client EXCEPT ![calc[q].client] = Idle] /\ UNCHANGED agent
      /\ trace' = Forget(trace, calc[q].client) /\ event' = Forget(event, calc[q].client)
      /\ calc' = [calc EXCEPT ![q].at = "failed"] /\ result' = [result EXCEPT ![q] = NoResult]
  BY DEF Fail, Move
<1> QED
  BY <1>1, <1>2, EndOK

\* A client that is gone was nobody's who is in flight.
LEMMA IdleTimeoutOK ==
  ASSUME TraceInv, NEW c \in Clients, IdleTimeout(c)
  PROVE  TraceInv'
<1>1. /\ Free(c) /\ UNCHANGED <<client, result, trace, event, agent>>
      /\ calc' = [q \in Calcs |-> IF calc[q].client = c THEN [calc[q] EXCEPT !.client = NoClient] ELSE calc[q]]
      /\ calc \in [Calcs -> CalcStates]
  BY DEF IdleTimeout, TraceInv, TypeOK
<1>2. ASSUME NEW q \in Calcs
      PROVE  calc'[q] \in CalcStates /\ calc'[q].at = calc[q].at /\ calc'[q].client \in {calc[q].client, NoClient}
  <2>1. calc[q] \in CalcStates
    BY <1>1
  <2>2. /\ [calc[q] EXCEPT !.client = NoClient] \in CalcStates
        /\ [calc[q] EXCEPT !.client = NoClient].at = calc[q].at
        /\ [calc[q] EXCEPT !.client = NoClient].client = NoClient
    BY <2>1 DEF CalcStates
  <2>3. calc'[q] = IF calc[q].client = c THEN [calc[q] EXCEPT !.client = NoClient] ELSE calc[q]
    BY <1>1
  <2> QED
    BY <2>1, <2>2, <2>3
<1>3. TypeOK'
  BY <1>1, <1>2 DEF TraceInv, TypeOK
<1>4. ASSUME NEW q \in Calcs PROVE HoldsItsClient(q)'
  <2>1. HoldsItsClient(q)
    BY DEF TraceInv
  <2>2. calc[q].at \in Flying => calc[q].client # c
    BY <1>1, <2>1, NobodyAssumption DEF HoldsItsClient, Free, NobodyAssumption
  <2>3. calc[q].client # c => calc'[q] = calc[q]
    BY <1>1
  <2> QED
    BY <1>1, <1>2, <2>1, <2>2, <2>3 DEF HoldsItsClient
<1>5. ASSUME NEW q \in Calcs, NEW w \in Swarm PROVE AnswersOnce(q, w)' /\ RowsFollow(q, w)'
  BY <1>1, <1>2 DEF TraceInv, AnswersOnce, RowsFollow, Ended
<1>6. ASSUME NEW q \in Calcs PROVE AnalysisFollows(q)'
  BY <1>1, <1>2 DEF TraceInv, AnalysisFollows, Told, Ended
<1> QED
  BY <1>3, <1>4, <1>5, <1>6 DEF TraceInv

-----------------------------------------------------------------------------
(* The theorems. *)

\* Every step keeps the invariant of the trace.
LEMMA NextTraceInv == TraceInv /\ [Next]_vars => TraceInv'
<1> SUFFICES ASSUME TraceInv, [Next]_vars PROVE TraceInv'
  OBVIOUS
<1>1. ASSUME NEW q \in Calcs, RequestStep(q) PROVE TraceInv'
  BY <1>1, CheckOutOK, CreateRunOK, LookUpPatternsOK, AnalysedOK, CalculateOK, CommitOK, FailOK
     DEF RequestStep
<1>2. ASSUME NEW q \in Calcs, NEW w \in Swarm, AgentStep(q, w) PROVE TraceInv'
  BY <1>2, AnswerOK, UpdateOK, ReadBackOK, RecordOK DEF AgentStep
<1>3. ASSUME NEW c \in Clients, IdleTimeout(c) PROVE TraceInv'
  BY <1>3, IdleTimeoutOK
<1>4. CASE UNCHANGED vars
  BY <1>4 DEF vars, TraceInv, TypeOK, HoldsItsClient, AnswersOnce, RowsFollow, AnalysisFollows,
              Told, Ended
<1> QED
  BY <1>1, <1>2, <1>3, <1>4 DEF Next

\* The invariant holds of everything the module describes.
THEOREM TraceInvariant == Spec => []TraceInv
<1>1. Init => TraceInv
  BY InitTraceInv
<1>2. TraceInv /\ [Next]_vars => TraceInv'
  BY NextTraceInv
<1> QED
  BY <1>1, <1>2, PTL DEF Spec

\* The pool, the requests and the rows are what the tables and the client allow.
THEOREM TraceTypeCorrect == Spec => []TypeOK
<1>1. TraceInv => TypeOK
  BY DEF TraceInv
<1> QED
  BY <1>1, TraceInvariant, PTL

\* Whatever order the requests and the late answers of their subagents use the
\* clients in (provision.routes.ts POST /run, ai-runs.ts updateAiRunStatus), a
\* stored run's trace is there, explains its figures and has no answer but those given.
THEOREM StoredTraceTellsTheRun == Spec => []TraceTellsTheRun
<1>1. TraceInv => TraceTellsTheRun
  <2> SUFFICES ASSUME TraceInv PROVE TraceTellsTheRun
    OBVIOUS
  <2>1. TraceBelongsToItsRun
    <3> SUFFICES ASSUME NEW q \in Calcs, NEW w \in Swarm
                 PROVE  Committed(q) <=> trace[q][w].saved # "absent"
      BY DEF TraceBelongsToItsRun
    <3>1. RowsFollow(q, w)
      BY DEF TraceInv
    <3> QED
      BY <3>1 DEF RowsFollow, Committed, Ended
  <2>2. FiguresTraced
    BY DEF TraceInv, FiguresTraced, AnalysisFollows, Told, Committed, Ended
  <2>3. OutcomeIsTheAnswer
    BY DEF TraceInv, OutcomeIsTheAnswer, AnswersOnce
  <2> QED
    BY <2>1, <2>2, <2>3 DEF TraceTellsTheRun
<1> QED
  BY <1>1, TraceInvariant, PTL

(***************************************************************************)
(* The figures of a run.                                                   *)
(***************************************************************************)
\* Induction: a set of numbers that has 0 and, with each, the next has
\* all of them.
LEMMA Positions ==
  ASSUME NEW N \in Nat, NEW T, 0 \in T, \A n \in 0 .. N - 1 : n \in T => n + 1 \in T
  PROVE  \A n \in 0..N : n \in T
<1> DEFINE bad == {n \in 0..N : n \notin T}
<1>1. SUFFICES ASSUME bad # {} PROVE FALSE
  OBVIOUS
<1>2. bad \subseteq Nat
  OBVIOUS
<1>3. PICK m \in bad : \A n \in bad : ~(<<n, m>> \in OpToRel(<, Nat))
  <2> HIDE DEF bad
  <2> QED BY <1>1, <1>2, WFMin, NatLessThanWellFounded
<1>4. m \in 0..N /\ m \notin T /\ m # 0
  OBVIOUS
<1>5. m - 1 \in 0 .. N - 1 /\ m - 1 \in 0..N /\ m - 1 + 1 = m /\ m - 1 < m /\ m \in Nat /\ m - 1 \in Nat
  BY <1>4
<1>6. m - 1 \notin T
  BY <1>4, <1>5
<1>7. m - 1 \in bad
  BY <1>5, <1>6
<1>8. <<m - 1, m>> \in OpToRel(<, Nat)
  BY <1>5 DEF OpToRel
<1> QED BY <1>3, <1>7, <1>8

\* A set of subsets of a finite set that has the empty set, and with each set the one
\* with another element, has all of them.
LEMMA Subsets ==
  ASSUME NEW S, IsFiniteSet(S), NEW T, {} \in T,
         \A s \in SUBSET S : \A x \in S \ s : s \in T => s \cup {x} \in T
  PROVE  \A s \in SUBSET S : s \in T
<1> DEFINE bad == {s \in SUBSET S : s \notin T}
           sizes == {Cardinality(s) : s \in bad}
<1>1. SUFFICES ASSUME bad # {} PROVE FALSE
  OBVIOUS
<1>2. \A s \in SUBSET S : IsFiniteSet(s) /\ Cardinality(s) \in Nat
  BY FS_Subset, FS_CardinalityType
<1>3. sizes # {} /\ sizes \subseteq Nat
  BY <1>1, <1>2
<1>4. PICK m \in sizes : \A n \in sizes : ~(<<n, m>> \in OpToRel(<, Nat))
  <2> HIDE DEF sizes
  <2> QED BY <1>3, WFMin, NatLessThanWellFounded
<1>5. PICK s \in bad : Cardinality(s) = m
  BY <1>4
<1>6. s \in SUBSET S /\ s \notin T /\ s # {}
  BY <1>5
<1>7. PICK x \in s : TRUE
  BY <1>6
<1>8. /\ IsFiniteSet(s \ {x}) /\ Cardinality(s \ {x}) = Cardinality(s) - 1
      /\ Cardinality(s \ {x}) \in Nat /\ Cardinality(s) \in Nat
  BY <1>2, <1>6, <1>7, FS_RemoveElement
<1>9. s \ {x} \in SUBSET S /\ x \in S \ (s \ {x}) /\ (s \ {x}) \cup {x} = s
  BY <1>6, <1>7
<1>10. s \ {x} \in bad
  BY <1>6, <1>9
<1>11. Cardinality(s \ {x}) \in sizes
  BY <1>10
<1>12. <<Cardinality(s \ {x}), m>> \in OpToRel(<, Nat)
  BY <1>5, <1>8 DEF OpToRel
<1> QED BY <1>4, <1>11, <1>12

\* The first of a set, as a sum takes it.
First(s) == CHOOSE x \in s : TRUE

\* It is one of the set's.
LEMMA FirstOf == \A s : s # {} => First(s) \in s
  BY DEF First

\* The sums over all subsets of S.
Sums(g, f, S) ==
  /\ g \in [SUBSET S -> Int] /\ g[{}] = 0
  /\ \A s \in SUBSET S : \A x \in s : g[s] = f[x] + g[s \ {x}]

\* What Total computes: any function that recurs as its own does.
Recurring(g, f, S) ==
  g = [s \in SUBSET S |-> IF s = {} THEN 0 ELSE f[First(s)] + g[s \ {First(s)}]]

\* A total is the value at the whole domain of a function that does, if all that do
\* have one value there.
LEMMA TotalRecurs ==
  ASSUME NEW f, NEW g, Recurring(g, f, DOMAIN f),
         \A h : Recurring(h, f, DOMAIN f) => h[DOMAIN f] = g[DOMAIN f]
  PROVE  Total(f) = g[DOMAIN f]
  BY Zenon DEF Total, MapThenSumSet, MapThenFoldSet, Recurring, First

\* A sum is one of them: it takes the first element away, then that of the rest, and
\* so on, but any order gives the same.
LEMMA SumExists ==
  ASSUME NEW S, IsFiniteSet(S), NEW f \in [S -> Int]
  PROVE  \E g : Sums(g, f, S) /\ Total(f) = g[S]
<1> DEFINE N == Cardinality(S)
           Small(n) == {s \in SUBSET S : Cardinality(s) <= n}
           Value(g, s) == IF s = {} THEN 0 ELSE f[First(s)] + g[s \ {First(s)}]
           Solves(g, n) == g \in [Small(n) -> Int] /\ \A s \in Small(n) : g[s] = Value(g, s)
           T == {n \in 0..N : \E g : Solves(g, n)}
<1>1. N \in Nat /\ \A s \in SUBSET S : IsFiniteSet(s) /\ Cardinality(s) \in 0..N
  <2>1. N \in Nat
    BY FS_CardinalityType
  <2> QED BY <2>1, FS_Subset, FS_CardinalityType
<1>2. \A s \in SUBSET S : s # {} =>
        /\ First(s) \in s /\ s \ {First(s)} \in SUBSET S
        /\ Cardinality(s \ {First(s)}) = Cardinality(s) - 1
  BY <1>1, FirstOf, FS_RemoveElement
<1>3. 0 \in T
  <2> DEFINE g == [s \in Small(0) |-> 0]
  <2>1. \A s \in Small(0) : s = {}
    BY <1>1, FS_EmptySet
  <2>2. g \in [Small(0) -> Int] /\ \A s \in Small(0) : g[s] = 0
    OBVIOUS
  <2> HIDE DEF g
  <2>3. Solves(g, 0)
    BY <2>1, <2>2
  <2> HIDE DEF Solves
  <2> QED BY <1>1, <2>3
<1>4. ASSUME NEW n \in 0 .. N - 1, n \in T PROVE n + 1 \in T
  <2>1. PICK g : Solves(g, n)
    BY <1>4
  <2> DEFINE h == [s \in Small(n + 1) |-> Value(g, s)]
  <2>2. \A s \in Small(n + 1) : s # {} => s \ {First(s)} \in Small(n)
    BY <1>1, <1>2
  <2>3. \A s \in Small(n) : s \in Small(n + 1) /\ (s # {} => s \ {First(s)} \in Small(n))
    BY <1>1, <1>2
  <2>4. \A s \in Small(n + 1) : Value(g, s) \in Int
    BY <1>2, <2>1, <2>2
  <2>5. h \in [Small(n + 1) -> Int] /\ \A s \in Small(n + 1) : h[s] = Value(g, s)
    BY <2>4
  <2> HIDE DEF h
  <2>6. \A s \in Small(n) : h[s] = g[s]
    BY <2>1, <2>3, <2>5
  <2>7. \A s \in Small(n + 1) : h[s] = Value(h, s)
    BY <2>2, <2>5, <2>6
  <2>8. Solves(h, n + 1)
    BY <2>5, <2>7
  <2> HIDE DEF Solves
  <2> QED BY <1>1, <2>8
<1>5. \A n \in 0..N : n \in T
  <2> HIDE DEF T
  <2> QED BY <1>1, <1>3, <1>4, Positions
<1>6. PICK g : Solves(g, N)
  BY <1>1, <1>5
<1>7. Small(N) = SUBSET S
  BY <1>1
<1>8. g \in [SUBSET S -> Int] /\ \A s \in SUBSET S : g[s] = Value(g, s)
  BY <1>6, <1>7
<1>9. ASSUME NEW s \in SUBSET S, NEW x \in s PROVE g[s] = f[x] + g[s \ {x}]
  <2> DEFINE U == {t \in SUBSET S : \A y \in t : g[t] = f[y] + g[t \ {y}]}
             V == {n \in 0..N : Small(n) \subseteq U}
  <2>1. 0 \in V
    <3>1. \A t \in Small(0) : t = {}
      BY <1>1, FS_EmptySet
    <3> QED BY <1>1, <3>1
  <2>2. ASSUME NEW n \in 0 .. N - 1, n \in V PROVE n + 1 \in V
    <3>0. SUFFICES Small(n + 1) \subseteq U
      <4>1. n + 1 \in 0..N
        BY <1>1
      <4> HIDE DEF Small, U
      <4> QED BY <4>1
    <3>1. SUFFICES ASSUME NEW t \in Small(n + 1), NEW y \in t PROVE g[t] = f[y] + g[t \ {y}]
      OBVIOUS
    <3> DEFINE z == First(t)
    <3>2. z \in t /\ g[t] = f[z] + g[t \ {z}]
      BY <1>2, <1>8
    <3>3. CASE y = z
      BY <3>2, <3>3
    <3>4. CASE y # z
      <4>1. t \ {z} \in Small(n) /\ t \ {y} \in Small(n)
        <5>1. \A w \in t : t \ {w} \in SUBSET S /\ Cardinality(t \ {w}) = Cardinality(t) - 1
          BY <1>1, FS_RemoveElement
        <5>2. Cardinality(t) <= n + 1 /\ Cardinality(t) \in 0..N /\ n \in Nat
          BY <1>1
        <5> QED BY <3>2, <5>1, <5>2
      <4>2. t \ {z} \in U /\ t \ {y} \in U
        BY <2>2, <4>1
      <4>3. y \in t \ {z} /\ z \in t \ {y} /\ (t \ {z}) \ {y} = (t \ {y}) \ {z}
        BY <3>2, <3>4
      <4>4. g[t \ {z}] = f[y] + g[(t \ {z}) \ {y}]
        BY <4>2, <4>3
      <4>5. g[t \ {y}] = f[z] + g[(t \ {z}) \ {y}]
        BY <4>2, <4>3
      <4>6. f[y] \in Int /\ f[z] \in Int /\ g[(t \ {z}) \ {y}] \in Int
        BY <1>8, <3>2
      <4> QED BY <3>2, <4>4, <4>5, <4>6
    <3> QED BY <3>3, <3>4
  <2>3. \A n \in 0..N : n \in V
    <3> HIDE DEF V
    <3> QED BY <1>1, <2>1, <2>2, Positions
  <2> QED BY <1>1, <1>7, <2>3
<1>10. g[{}] = 0
  BY <1>8
<1>11. Sums(g, f, S)
  BY <1>8, <1>9, <1>10 DEF Sums
<1>12. ASSUME NEW h, Recurring(h, f, S) PROVE h[S] = g[S]
  <2> DEFINE U == {t \in SUBSET S : h[t] = g[t]}
             V == {n \in 0..N : Small(n) \subseteq U}
  <2>1. \A s \in SUBSET S : h[s] = Value(h, s)
    BY <1>12 DEF Recurring
  <2>2. 0 \in V
    <3>1. \A t \in Small(0) : t = {}
      BY <1>1, FS_EmptySet
    <3>2. h[{}] = 0
      BY <2>1
    <3>3. Small(0) \subseteq U
      BY <1>10, <3>1, <3>2
    <3> QED BY <1>1, <3>3
  <2>3. ASSUME NEW n \in 0 .. N - 1, n \in V PROVE n + 1 \in V
    <3>1. SUFFICES Small(n + 1) \subseteq U
      BY <1>1
    <3>2. SUFFICES ASSUME NEW t \in Small(n + 1) PROVE h[t] = g[t]
      OBVIOUS
    <3>3. CASE t = {}
      BY <2>1, <1>10, <3>3
    <3>4. CASE t # {}
      <4>1. t \ {First(t)} \in Small(n)
        BY <1>1, <1>2, <3>4
      <4>2. h[t \ {First(t)}] = g[t \ {First(t)}]
        BY <2>3, <4>1
      <4> QED BY <1>8, <2>1, <3>4, <4>2
    <3> QED BY <3>3, <3>4
  <2>4. \A n \in 0..N : n \in V
    <3> HIDE DEF V
    <3> QED BY <1>1, <2>2, <2>3, Positions
  <2> QED BY <1>1, <1>7, <2>4
<1>13. Recurring(g, f, S)
  BY <1>8 DEF Recurring
<1>14. DOMAIN f = S
  OBVIOUS
<1>15. Total(f) = g[S]
  BY <1>12, <1>13, <1>14, TotalRecurs
<1> QED BY <1>11, <1>15

\* A function on a part of its domain.
Part(f, P) == [x \in P |-> f[x]]

\* The total over each part of a set, of the same sums.
LEMMA TotalParts ==
  ASSUME NEW S, IsFiniteSet(S), NEW f \in [S -> Int]
  PROVE  \E g : Sums(g, f, S) /\ Total(f) = g[S] /\ \A P \in SUBSET S : Total(Part(f, P)) = g[P]
<1>1. PICK g : Sums(g, f, S) /\ Total(f) = g[S]
  BY SumExists
<1>2. ASSUME NEW P \in SUBSET S PROVE Total(Part(f, P)) = g[P]
  <2> DEFINE e == Part(f, P)
  <2>1. IsFiniteSet(P) /\ e \in [P -> Int] /\ \A x \in P : e[x] = f[x]
    BY FS_Subset DEF Part
  <2> HIDE DEF e
  <2>2. PICK h : Sums(h, e, P) /\ Total(e) = h[P]
    BY <2>1, SumExists
  <2> DEFINE T == {s \in SUBSET P : h[s] = g[s]}
  <2>3. {} \in T
    BY <1>1, <2>2 DEF Sums
  <2>4. ASSUME NEW s \in SUBSET P, NEW x \in P \ s, s \in T PROVE s \cup {x} \in T
    <3>1. s \cup {x} \in SUBSET P /\ s \cup {x} \in SUBSET S /\ (s \cup {x}) \ {x} = s /\ h[s] = g[s]
      BY <2>4
    <3>2. h[s \cup {x}] = e[x] + h[s]
      BY <2>2, <3>1 DEF Sums
    <3>3. g[s \cup {x}] = f[x] + g[s]
      BY <1>1, <3>1 DEF Sums
    <3> QED BY <2>1, <3>1, <3>2, <3>3
  <2>5. \A s \in SUBSET P : s \in T
    <3> HIDE DEF T
    <3> QED BY <2>1, <2>3, <2>4, Subsets
  <2> QED BY <2>2, <2>5 DEF e
<1> QED BY <1>1, <1>2

\* A total of integers is one.
LEMMA TotalIsInt ==
  ASSUME NEW S, IsFiniteSet(S), NEW f \in [S -> Int]
  PROVE  Total(f) \in Int
<1>1. PICK g : Sums(g, f, S) /\ Total(f) = g[S]
  BY SumExists
<1>2. g \in [SUBSET S -> Int] /\ S \in SUBSET S
  BY <1>1 DEF Sums
<1> QED BY <1>1, <1>2

\* Of nothing it is nothing.
LEMMA TotalOfNone ==
  ASSUME NEW f, DOMAIN f = {}, f = [x \in {} |-> f[x]]
  PROVE  Total(f) = 0
<1>1. IsFiniteSet({}) /\ f \in [{} -> Int]
  BY FS_EmptySet
<1> QED BY <1>1, SumExists DEF Sums

\* Two disjoint parts have together what they have one by one.
LEMMA TotalOfTwo ==
  ASSUME NEW S, IsFiniteSet(S), NEW f \in [S -> Int],
         NEW P \in SUBSET S, NEW Q \in SUBSET S, P \cap Q = {}
  PROVE  Total(Part(f, P \cup Q)) = Total(Part(f, P)) + Total(Part(f, Q))
<1>1. PICK g : Sums(g, f, S) /\ \A R \in SUBSET S : Total(Part(f, R)) = g[R]
  BY TotalParts
<1> DEFINE T == {s \in SUBSET Q : g[P \cup s] = g[P] + g[s]}
<1>2. {} \in T
  <2>1. P \cup {} = P /\ g[P] \in Int /\ g[{}] = 0
    BY <1>1 DEF Sums
  <2> QED BY <2>1
<1>3. ASSUME NEW s \in SUBSET Q, NEW x \in Q \ s, s \in T PROVE s \cup {x} \in T
  <2>1. /\ s \cup {x} \in SUBSET S /\ P \cup (s \cup {x}) \in SUBSET S /\ P \cup s \in SUBSET S
        /\ (s \cup {x}) \ {x} = s /\ (P \cup (s \cup {x})) \ {x} = P \cup s
    OBVIOUS
  <2>2. g[s \cup {x}] = f[x] + g[s]
    BY <1>1, <2>1 DEF Sums
  <2>3. g[P \cup (s \cup {x})] = f[x] + g[P \cup s]
    BY <1>1, <2>1 DEF Sums
  <2>4. f[x] \in Int /\ g[s] \in Int /\ g[P] \in Int /\ g[P \cup s] = g[P] + g[s]
    BY <1>1, <1>3, <2>1 DEF Sums
  <2> QED BY <2>2, <2>3, <2>4
<1>4. \A s \in SUBSET Q : s \in T
  <2>1. IsFiniteSet(Q)
    BY FS_Subset
  <2> HIDE DEF T
  <2> QED BY <1>2, <1>3, <2>1, Subsets
<1> QED BY <1>1, <1>4

\* Of no less in every place there is no less in all.
LEMMA TotalGrows ==
  ASSUME NEW S, IsFiniteSet(S), NEW f \in [S -> Int], NEW h \in [S -> Int], \A x \in S : f[x] <= h[x]
  PROVE  Total(f) <= Total(h)
<1>1. PICK g : Sums(g, f, S) /\ Total(f) = g[S]
  BY SumExists
<1>2. PICK k : Sums(k, h, S) /\ Total(h) = k[S]
  BY SumExists
<1> DEFINE T == {s \in SUBSET S : g[s] <= k[s]}
<1>3. {} \in T
  BY <1>1, <1>2 DEF Sums
<1>4. ASSUME NEW s \in SUBSET S, NEW x \in S \ s, s \in T PROVE s \cup {x} \in T
  <2>1. s \cup {x} \in SUBSET S /\ (s \cup {x}) \ {x} = s /\ x \in s \cup {x}
    OBVIOUS
  <2>2. g[s \cup {x}] = f[x] + g[s] /\ k[s \cup {x}] = h[x] + k[s]
    BY <1>1, <1>2, <2>1 DEF Sums
  <2>3. f[x] \in Int /\ h[x] \in Int /\ g[s] \in Int /\ k[s] \in Int /\ f[x] <= h[x] /\ g[s] <= k[s]
    BY <1>1, <1>2, <1>4 DEF Sums
  <2> QED BY <2>1, <2>2, <2>3
<1>5. S \in T
  <2> HIDE DEF T
  <2> QED BY <1>3, <1>4, Subsets
<1> QED BY <1>1, <1>2, <1>5

\* A part of what is never negative is no more than the whole.
LEMMA TotalOfPart ==
  ASSUME NEW S, IsFiniteSet(S), NEW f \in [S -> Nat], NEW P \in SUBSET S
  PROVE  Total(Part(f, P)) \in Nat /\ Total(Part(f, P)) <= Total(f)
<1>1. PICK g : Sums(g, f, S) /\ Total(f) = g[S] /\ \A R \in SUBSET S : Total(Part(f, R)) = g[R]
  <2>1. f \in [S -> Int]
    OBVIOUS
  <2> QED BY <2>1, TotalParts
<1> DEFINE T == {s \in SUBSET S : g[s] \in Nat}
           Q == S \ P
<1>2. {} \in T
  BY <1>1 DEF Sums
<1>3. ASSUME NEW s \in SUBSET S, NEW x \in S \ s, s \in T PROVE s \cup {x} \in T
  <2>1. s \cup {x} \in SUBSET S /\ (s \cup {x}) \ {x} = s /\ x \in s \cup {x} /\ f[x] \in Nat
    OBVIOUS
  <2>2. g[s \cup {x}] = f[x] + g[s]
    BY <1>1, <2>1 DEF Sums
  <2> QED BY <1>3, <2>1, <2>2
<1>4. \A s \in SUBSET S : s \in T
  <2> HIDE DEF T
  <2> QED BY <1>2, <1>3, Subsets
<1>5. P \in SUBSET S /\ Q \in SUBSET S /\ P \cap Q = {} /\ P \cup Q = S
  OBVIOUS
<1>6. Total(Part(f, P \cup Q)) = Total(Part(f, P)) + Total(Part(f, Q))
  <2>1. f \in [S -> Int]
    OBVIOUS
  <2> HIDE DEF Q
  <2> QED BY <1>5, <2>1, TotalOfTwo
<1>7. g[S] = g[P] + g[Q]
  <2> HIDE DEF Q
  <2> QED BY <1>1, <1>5, <1>6
<1> QED BY <1>1, <1>4, <1>5, <1>7

\* Whole thousands add up to whole thousands.
LEMMA TotalOfThousands ==
  ASSUME NEW S, IsFiniteSet(S), NEW f \in [S -> Balances]
  PROVE  Total(f) \in Balances
<1>1. f \in [S -> Int] /\ \A x \in S : f[x] \in Int /\ f[x] % 1000 = 0
  BY DEF Balances
<1>2. PICK g : Sums(g, f, S) /\ Total(f) = g[S]
  BY <1>1, SumExists
<1> DEFINE T == {s \in SUBSET S : g[s] % 1000 = 0}
<1>3. {} \in T
  BY <1>2 DEF Sums
<1>4. ASSUME NEW s \in SUBSET S, NEW x \in S \ s, s \in T PROVE s \cup {x} \in T
  <2>1. s \cup {x} \in SUBSET S /\ (s \cup {x}) \ {x} = s /\ x \in s \cup {x}
    OBVIOUS
  <2>2. g[s \cup {x}] = f[x] + g[s]
    BY <1>2, <2>1 DEF Sums
  <2>3. f[x] \in Int /\ g[s] \in Int /\ f[x] % 1000 = 0 /\ g[s] % 1000 = 0
    BY <1>1, <1>2, <1>4 DEF Sums
  <2>4. (f[x] + g[s]) % 1000 = 0
    BY <2>3
  <2> QED BY <2>1, <2>2, <2>4
<1>5. S \in T
  <2> HIDE DEF T
  <2> QED BY <1>3, <1>4, Subsets
<1>6. g[S] \in Int
  BY <1>2 DEF Sums
<1> QED BY <1>2, <1>5, <1>6 DEF Balances

\* The total of the totals of disjoint parts is that of all of them.
LEMMA TotalOfTotals ==
  ASSUME NEW S, IsFiniteSet(S), NEW f \in [S -> Int], NEW K, IsFiniteSet(K), NEW part \in [K -> SUBSET S],
         \A k, l \in K : k # l => part[k] \cap part[l] = {}
  PROVE  Total([k \in K |-> Total(Part(f, part[k]))])
           = Total(Part(f, UNION {part[k] : k \in K}))
<1>1. PICK g : Sums(g, f, S) /\ \A R \in SUBSET S : Total(Part(f, R)) = g[R]
  BY TotalParts
<1> DEFINE e == [k \in K |-> Total(Part(f, part[k]))]
<1>2. e = [k \in K |-> g[part[k]]] /\ e \in [K -> Int]
  BY <1>1 DEF Sums
<1> HIDE DEF e
<1>3. PICK h : Sums(h, e, K) /\ Total(e) = h[K]
  BY <1>2, SumExists
<1> DEFINE Of(s) == UNION {part[k] : k \in s}
           T == {s \in SUBSET K : h[s] = g[Of(s)]}
<1>4. {} \in T
  <2>1. Of({}) = {}
    OBVIOUS
  <2>2. h[{}] = 0 /\ g[{}] = 0
    BY <1>1, <1>3 DEF Sums
  <2> HIDE DEF Of
  <2> QED BY <2>1, <2>2
<1>5. ASSUME NEW s \in SUBSET K, NEW x \in K \ s, s \in T PROVE s \cup {x} \in T
  <2>1. s \cup {x} \in SUBSET K /\ (s \cup {x}) \ {x} = s /\ x \in s \cup {x}
    OBVIOUS
  <2>2. h[s \cup {x}] = e[x] + h[s] /\ e[x] = g[part[x]]
    <3>1. e[x] = g[part[x]]
      BY <1>2
    <3> QED BY <1>3, <2>1, <3>1 DEF Sums
  <2>3. /\ Of(s \cup {x}) = part[x] \cup Of(s) /\ part[x] \in SUBSET S /\ Of(s) \in SUBSET S
        /\ part[x] \cap Of(s) = {}
    OBVIOUS
  <2> HIDE DEF Of
  <2>4. Total(Part(f, part[x] \cup Of(s))) = Total(Part(f, part[x])) + Total(Part(f, Of(s)))
    BY <2>3, TotalOfTwo
  <2>5. part[x] \cup Of(s) \in SUBSET S
    BY <2>3
  <2>6. g[part[x] \cup Of(s)] = g[part[x]] + g[Of(s)]
    BY <1>1, <2>3, <2>4, <2>5
  <2> QED BY <1>5, <2>1, <2>2, <2>3, <2>6
<1>6. K \in T
  <2> HIDE DEF T
  <2> QED BY <1>4, <1>5, Subsets
<1>7. Of(K) \in SUBSET S
  OBVIOUS
<1>8. h[K] = g[Of(K)]
  BY <1>6
<1>9. Total(Part(f, Of(K))) = g[Of(K)]
  <2> HIDE DEF Of
  <2> QED BY <1>1, <1>7
<1>10. Total(e) = Total(Part(f, Of(K)))
  <2> HIDE DEF Of
  <2> QED BY <1>3, <1>8, <1>9
<1> QED BY <1>10 DEF e

\* Two are finitely many.
LEMMA PairFinite ==
  ASSUME NEW a, NEW b
  PROVE  IsFiniteSet({a, b})
<1>1. IsFiniteSet({}) /\ IsFiniteSet({a}) /\ {a, b} = {a} \cup {b} /\ {a} = {} \cup {a}
  BY FS_EmptySet, FS_AddElement
<1> QED BY <1>1, FS_AddElement

\* The total of two lines.
LEMMA TotalOfPair ==
  ASSUME NEW a, NEW b, a # b, NEW f \in [{a, b} -> Int]
  PROVE  Total(f) = f[a] + f[b]
<1>1. IsFiniteSet({a, b})
  BY PairFinite
<1>2. PICK g : Sums(g, f, {a, b}) /\ Total(f) = g[{a, b}]
  BY <1>1, SumExists
<1>3. /\ {a, b} \in SUBSET {a, b} /\ {b} \in SUBSET {a, b} /\ {a, b} \ {a} = {b} /\ {b} \ {b} = {}
      /\ a \in {a, b} /\ b \in {b}
  OBVIOUS
<1>4. g[{a, b}] = f[a] + g[{b}] /\ g[{b}] = f[b] + 0
  BY <1>2, <1>3 DEF Sums
<1> QED BY <1>2, <1>4

-----------------------------------------------------------------------------
(* What a run is made of. *)

\* The runs stored are of what the tables hold, for these are edited before the first.
RunsSound == \A r \in runs : \E route \in Routes, q \in Requests : r = RunOf(route, q)

\* The inductive invariant: what the tables hold is of the kind asked for, and the runs
\* are sound.
TaxInv ==
  /\ company \in Companies /\ register \subseteq Assets
  /\ mapping \in [Accounts -> {Unmapped} \cup UNION {Decisions[a] : a \in Accounts}]
  /\ \A a \in Accounts : mapping[a] = Unmapped \/ mapping[a] \in Decisions[a]
  /\ RunsSound

\* At first nothing is mapped and no run stored.
LEMMA InitTaxInv == TaxInit => TaxInv
  BY DEF TaxInit, TaxInv, RunsSound

\* A run that is stored is of the tables of the moment, which the others were of too.
LEMMA NextTaxInv == TaxInv /\ [TaxNext]_taxVars => TaxInv'
<1> SUFFICES ASSUME TaxInv, [TaxNext]_taxVars PROVE TaxInv'
  OBVIOUS
<1>1. ASSUME NEW a \in Accounts, NEW d \in Decisions[a], Map(a, d) PROVE TaxInv'
  BY <1>1 DEF TaxInv, RunsSound, Map, Preparing
<1>2. ASSUME NEW x \in Assets, PostAsset(x) \/ DeleteAsset(x) PROVE TaxInv'
  BY <1>2 DEF TaxInv, RunsSound, PostAsset, DeleteAsset, Preparing
<1>3. ASSUME UNCHANGED <<company, mapping, register>>,
             \A r \in runs' \ runs : \E route \in Routes, q \in Requests : r = RunOf(route, q)
      PROVE  TaxInv'
  <2>1. \A route, q : RunOf(route, q)' = RunOf(route, q)
    BY <1>3 DEF RunOf
  <2>2. \A r \in runs' : \E route \in Routes, q \in Requests : r = RunOf(route, q)
    BY <1>3 DEF TaxInv, RunsSound
  <2>3. RunsSound'
    BY <2>1, <2>2 DEF RunsSound
  <2> QED BY <1>3, <2>3 DEF TaxInv
<1>4. ASSUME NEW route \in Routes, NEW q \in Requests, CalculateTax(route, q) PROVE TaxInv'
  <2>1. \A r \in runs' \ runs : r = RunOf(route, q)
    BY <1>4 DEF CalculateTax
  <2> QED BY <1>3, <1>4, <2>1 DEF CalculateTax
<1>5. ASSUME NEW q \in Requests, Refuse(q) PROVE TaxInv'
  BY <1>3, <1>5 DEF Refuse, taxVars
<1>6. CASE UNCHANGED taxVars
  BY <1>3, <1>6 DEF taxVars
<1> QED BY <1>1, <1>2, <1>4, <1>5, <1>6 DEF TaxNext

\* What is mapped, registered and stored stays what the calculation takes it for, and
\* every run stored is the one that would be made of its request now.
THEOREM TaxInvariance == TaxSpec => []TaxInv
  BY InitTaxInv, NextTaxInv, PTL DEF TaxSpec

\* What a run holds.
LEMMA RunHolds ==
  ASSUME NEW route \in Routes, NEW q \in Requests, NEW r, r = RunOf(route, q)
  PROVE  /\ r.route = route /\ r.period = q.period /\ r.book = q.rows
         /\ r.map = [a \in DOMAIN q.rows.type |-> mapping[a]]
         /\ r.items = ItemsOf(route, q.rows, mapping, register, q.period)
         /\ r.input = Input(company, q.rows, mapping, q.period)
         /\ r.allowances = IF route = "workbench" THEN Summary(register, q.period) ELSE << >>
  BY DEF RunOf

\* A request is for finitely many accounts, of which it has types, balances and dates,
\* and for a period that ends after it begins.
LEMMA RequestTyped ==
  ASSUME NEW q \in Requests
  PROVE  /\ q.accounts \subseteq Accounts /\ IsFiniteSet(q.accounts)
         /\ q.rows.type \in [q.accounts -> STRING] /\ q.rows.balance \in [q.accounts -> Balances]
         /\ q.rows.placed \in [q.accounts -> Nat] /\ DOMAIN q.rows.type = q.accounts
         /\ q.period.from \in Nat /\ q.period.to \in Nat /\ q.period.from < q.period.to
<1>1. /\ q.accounts \subseteq Accounts
      /\ q.rows \in [type : [q.accounts -> STRING], balance : [q.accounts -> Balances],
                     placed : [q.accounts -> Nat]]
      /\ q.period \in [from : Nat, to : Nat] /\ q.period.from < q.period.to /\ IsFiniteSet(Accounts)
  BY TaxAssumption
<1>2. IsFiniteSet(q.accounts)
  BY <1>1, FS_Subset
<1> QED BY <1>1, <1>2

-----------------------------------------------------------------------------
(* Evidence. *)

\* Where evidence is there, or none is needed, no age assumed changes a difference.
LEMMA AgeOfEvidence ==
  ASSUME NEW uk, NEW type, NEW balance, NEW placed, NEW from, NEW age,
         RequiresEvidence(type) => placed # Undated
  PROVE  Difference(uk, type, balance, AgeOf(type, placed, from, age))
           = Difference(uk, type, balance, AgeOf(type, placed, from, 1))
<1>1. CASE RequiresEvidence(type)
  BY <1>1 DEF AgeOf
<1>2. CASE ~RequiresEvidence(type)
  <2>1. MacrsLife(type) = 0 /\ type \notin UkFixedAssetTypes
    BY <1>2 DEF RequiresEvidence
  <2>2. ASSUME NEW n PROVE TimingFactor(uk, type, n) = DefaultFactor(type)
    BY <2>1 DEF TimingFactor
  <2> QED BY <2>2 DEF Difference
<1> QED BY <1>1, <1>2

\* So the input of a run without assets that lack a date is that of any age assumed.
LEMMA InputOfEvidence ==
  ASSUME NEW c, NEW book, NEW map, NEW own, own = [a \in DOMAIN book.type |-> map[a]],
         NEW period, NEW age, Undocumented(book, map) = {}
  PROVE  InputAssuming(age, c, book, own, period) = Input(c, book, map, period)
<1> DEFINE uk == c.jurisdiction \in UkJurisdictions
           temporary(m, n) == [a \in TreatedAs(book, m, "temporary") |->
             [side |-> IF m[a].timing = "deductible" THEN "DTA" ELSE "DTL",
              difference |-> Difference(uk, m[a].type, book.balance[a],
                                        AgeOf(m[a].type, book.placed[a], period.from, n))]]
           permanent(m) == [a \in TreatedAs(book, m, "permanent") |-> book.balance[a]]
<1>1. \A t : TreatedAs(book, own, t) = TreatedAs(book, map, t)
  BY DEF TreatedAs
<1>2. \A a \in DOMAIN book.type : own[a] = map[a]
  OBVIOUS
<1>3. ASSUME NEW a \in TreatedAs(book, map, "temporary")
      PROVE  Difference(uk, map[a].type, book.balance[a], AgeOf(map[a].type, book.placed[a], period.from, age))
             = Difference(uk, map[a].type, book.balance[a], AgeOf(map[a].type, book.placed[a], period.from, 1))
  <2>1. RequiresEvidence(map[a].type) => book.placed[a] # Undated
    BY DEF Undocumented
  <2> HIDE DEF uk
  <2> QED BY <2>1, AgeOfEvidence, Zenon
<1>4. TreatedAs(book, map, "temporary") \subseteq DOMAIN book.type
  BY DEF TreatedAs
<1>5. temporary(own, age) = temporary(map, 1)
  BY <1>1, <1>2, <1>3, <1>4
<1>6. permanent(own) = permanent(map)
  BY <1>1
<1> HIDE DEF temporary, permanent
<1>7. InputAssuming(age, c, book, own, period)
        = [uk |-> uk, rate |-> c.rate, stateRate |-> c.stateRate, book |-> BookIncome(book),
           permanent |-> permanent(own), temporary |-> temporary(own, age)]
  BY DEF InputAssuming, permanent, temporary
<1>8. Input(c, book, map, period)
        = [uk |-> uk, rate |-> c.rate, stateRate |-> c.stateRate, book |-> BookIncome(book),
           permanent |-> permanent(map), temporary |-> temporary(map, 1)]
  BY DEF Input, InputAssuming, permanent, temporary
<1> QED BY <1>5, <1>6, <1>7, <1>8

\* A period that ends in the fiscal year it begins in ends before the next April.
LEMMA WithinFiscalYear ==
  ASSUME NEW period, period.from \in Nat, period.to \in Nat, ~Straddles(period)
  PROVE  period.to < 10000 * (FiscalYear(period.from) + 1) + 401
  BY DEF Straddles, FiscalYear, Year, Month

\* Missing evidence is always a review item: the figures of a run without any
\* are those of every assumption, and a workbench run without any straddles no
\* fiscal year.
THEOREM FiguresRestOnTheirEvidence == TaxSpec => []FiguresRestOnEvidence
<1>1. TaxInv => FiguresRestOnEvidence
  <2> SUFFICES ASSUME TaxInv, NEW r \in runs, r.items = {}
               PROVE  /\ \A age \in 1..20 : InputAssuming(age, company, r.book, r.map, r.period) = r.input
                      /\ r.route = "workbench" => r.period.to < 10000 * (FiscalYear(r.period.from) + 1) + 401
    BY DEF FiguresRestOnEvidence
  <2>1. PICK route \in Routes, q \in Requests : r = RunOf(route, q)
    BY DEF TaxInv, RunsSound
  <2>2. /\ r.route = route /\ r.period = q.period /\ r.book = q.rows
        /\ r.map = [a \in DOMAIN q.rows.type |-> mapping[a]]
        /\ ItemsOf(route, q.rows, mapping, register, q.period) = {}
        /\ r.input = Input(company, q.rows, mapping, q.period)
    BY <2>1, RunHolds
  <2>3. Undocumented(q.rows, mapping) = {} /\ (route = "workbench" => ~Straddles(q.period))
    BY <2>2 DEF ItemsOf
  <2>4. \A age \in 1..20 : InputAssuming(age, company, r.book, r.map, r.period) = r.input
    BY <2>2, <2>3, InputOfEvidence
  <2>5. q.period.from \in Nat /\ q.period.to \in Nat
    BY RequestTyped
  <2> QED BY <2>2, <2>3, <2>4, <2>5, WithinFiscalYear
<1> QED BY <1>1, TaxInvariance, PTL

-----------------------------------------------------------------------------
(* What the engine is given, and the walk from the statutory rate. *)

\* The differences are of finitely many accounts, and the amounts whole thousands.
InputTyped(in) ==
  /\ in.uk \in BOOLEAN /\ in.rate \in 0..100 /\ in.stateRate \in 0..100 /\ in.book \in Balances
  /\ IsFiniteSet(DOMAIN in.permanent) /\ in.permanent \in [DOMAIN in.permanent -> Balances]
  /\ IsFiniteSet(DOMAIN in.temporary)
  /\ in.temporary \in [DOMAIN in.temporary -> [side : {"DTA", "DTL"}, difference : Nat]]

\* Magnitudes, sums and differences of whole thousands are whole thousands.
LEMMA BalancesClosed ==
  /\ \A x \in Balances : Abs(x) \in Balances /\ Abs(x) \in Nat
  /\ \A x, y \in Balances : x + y \in Balances /\ x - y \in Balances
  BY DEF Balances, Abs

\* A factor is a natural number.
LEMMA FactorTyped ==
  ASSUME NEW uk, NEW type, NEW age \in Nat
  PROVE  TimingFactor(uk, type, age) \in Nat
<1>1. MacrsTable(5) \in Seq(Nat) /\ DOMAIN MacrsTable(5) = 1..6
  BY DEF MacrsTable
<1>2. MacrsTable(15) \in Seq(Nat) /\ DOMAIN MacrsTable(15) = 1..16
  BY DEF MacrsTable
<1>3. MacrsLife(type) \in {0, 5, 15}
  BY DEF MacrsLife
<1>4. DefaultFactor(type) \in Nat
  BY DEF DefaultFactor
<1> QED BY <1>1, <1>2, <1>3, <1>4 DEF TimingFactor

\* The engine is given an input of that kind, whatever is asked for.
LEMMA InputIsTyped ==
  ASSUME TaxInv, NEW q \in Requests
  PROVE  InputTyped(Input(company, q.rows, mapping, q.period))
<1> DEFINE book == q.rows
           uk == company.jurisdiction \in UkJurisdictions
           treated(t) == TreatedAs(book, mapping, t)
           permanent == [a \in treated("permanent") |-> book.balance[a]]
           difference(a) == Difference(uk, mapping[a].type, book.balance[a],
                                       AgeOf(mapping[a].type, book.placed[a], q.period.from, 1))
           temporary == [a \in treated("temporary") |->
             [side |-> IF mapping[a].timing = "deductible" THEN "DTA" ELSE "DTL",
              difference |-> difference(a)]]
<1>1. /\ DOMAIN book.type = q.accounts /\ IsFiniteSet(q.accounts)
      /\ book.type \in [q.accounts -> STRING] /\ book.balance \in [q.accounts -> Balances]
      /\ book.placed \in [q.accounts -> Nat] /\ q.period.from \in Nat
  BY RequestTyped
<1>2. \A t : IsFiniteSet(treated(t)) /\ treated(t) \subseteq q.accounts
  <2>1. \A t : treated(t) \subseteq q.accounts
    BY <1>1 DEF TreatedAs
  <2> HIDE DEF treated
  <2> QED BY <1>1, <2>1, FS_Subset
<1>3. company.rate \in 0..100 /\ company.stateRate \in 0..100
  BY TaxAssumption DEF TaxInv
<1>4. permanent \in [treated("permanent") -> Balances]
  BY <1>1, <1>2
<1>5. ASSUME NEW a \in treated("temporary") PROVE difference(a) \in Nat
  <2> DEFINE age == AgeOf(mapping[a].type, book.placed[a], q.period.from, 1)
  <2>1. a \in q.accounts
    BY <1>2
  <2>2. book.placed[a] \in Nat /\ q.period.from \in Nat
    BY <1>1, <2>1
  <2>3. age \in Nat
    BY <2>2 DEF AgeOf, AtLeastOne, Year
  <2>4. book.balance[a] \in Balances
    BY <1>1, <2>1
  <2>5. Abs(book.balance[a]) \in Nat
    BY <2>4, BalancesClosed
  <2> HIDE DEF age, uk
  <2>6. TimingFactor(uk, mapping[a].type, age) \in Nat
    BY <2>3, FactorTyped
  <2>7. \A m \in Nat, n \in Nat : (m \div 1000) * n \in Nat
    OBVIOUS
  <2>8. Difference(uk, mapping[a].type, book.balance[a], age) \in Nat
    BY <2>5, <2>6, <2>7 DEF Difference
  <2> QED BY <2>8 DEF age, uk
<1>6. temporary \in [treated("temporary") -> [side : {"DTA", "DTL"}, difference : Nat]]
  <2> HIDE DEF difference, treated
  <2> QED BY <1>5
<1>7. BookIncome(book) \in Balances
  <2> DEFINE part(types) == {b \in DOMAIN book.type : book.type[b] \in types}
             amounts(types) == [a \in part(types) |-> Abs(book.balance[a])]
  <2>1. ASSUME NEW types PROVE Total(amounts(types)) \in Balances
    <3>1. part(types) \subseteq q.accounts
      BY <1>1
    <3>2. IsFiniteSet(part(types))
      BY <1>1, <3>1, FS_Subset
    <3>3. \A a \in part(types) : Abs(book.balance[a]) \in Balances
      BY <1>1, <3>1, BalancesClosed
    <3>4. amounts(types) \in [part(types) -> Balances]
      BY <3>3
    <3> HIDE DEF part, amounts
    <3> QED BY <3>2, <3>4, TotalOfThousands
  <2> HIDE DEF amounts
  <2>2. Total(amounts(IncomeTypes)) - Total(amounts(ExpenseTypes)) \in Balances
    BY <2>1, BalancesClosed
  <2> QED BY <2>2 DEF BookIncome, amounts
<1> HIDE DEF permanent, temporary, uk
<1>8. Input(company, book, mapping, q.period)
        = [uk |-> uk, rate |-> company.rate, stateRate |-> company.stateRate, book |-> BookIncome(book),
           permanent |-> permanent, temporary |-> temporary]
  BY DEF Input, InputAssuming, permanent, temporary, uk
<1>9. uk \in BOOLEAN
  BY DEF uk
<1>10. DOMAIN permanent = treated("permanent") /\ DOMAIN temporary = treated("temporary")
  BY DEF permanent, temporary
<1> HIDE DEF treated
<1> QED BY <1>2, <1>3, <1>4, <1>6, <1>7, <1>8, <1>9, <1>10 DEF InputTyped

\* So was every run stored.
LEMMA RunInputTyped ==
  ASSUME TaxInv, NEW r \in runs
  PROVE  InputTyped(r.input)
<1>1. PICK route \in Routes, q \in Requests : r = RunOf(route, q)
  BY DEF TaxInv, RunsSound
<1>2. r.input = Input(company, q.rows, mapping, q.period)
  BY <1>1 DEF RunOf
<1> QED BY <1>2, InputIsTyped, Zenon

\* The total of the permanent differences.
LEMMA PermanentTyped ==
  ASSUME NEW in, InputTyped(in)
  PROVE  Total(in.permanent) \in Balances /\ Total(in.permanent) \in Int /\ in.book \in Int
<1>1. Total(in.permanent) \in Balances
  BY TotalOfThousands DEF InputTyped
<1> QED BY <1>1 DEF InputTyped, Balances

\* The lines of the walk, of a profit, differ from the tax by the small profits rate
\* and the federal benefit of state tax.
LEMMA WalkExplains ==
  ASSUME NEW in, InputTyped(in), in.book + Total(in.permanent) >= 0, in.uk => in.rate = 25
  PROVE  CurrentTax(in) - Walk(in) =
           IF ~in.uk THEN (in.rate * StateTax(in)) \div 100
           ELSE IF Taxable(in) <= SmallLimit THEN -60 * Taxable(in)
           ELSE 0
<1> DEFINE P == Total(in.permanent)
           B == in.book
           R == in.rate
<1>1. B \in Balances /\ P \in Balances /\ B \in Int /\ P \in Int /\ R \in Int /\ in.stateRate \in Int
  BY PermanentTyped DEF InputTyped
<1>2. Taxable(in) = B + P /\ B + P \in Balances /\ B + P >= 0
  BY <1>1, BalancesClosed DEF Taxable, NonNegative
<1> HIDE DEF P, B, R
<1>3. CASE in.uk
  <2>1. /\ CurrentTax(in) = UkTax(B + P) /\ R = 25
        /\ Walk(in) = 10 * R * B + 10 * R * P + ((100 - R) * 0) \div 100 - MarginalRelief(B + P)
    <3>1. StateTax(in) = 0 /\ FederalTax(in) = UkTax(B + P) /\ Relief(in) = MarginalRelief(B + P) /\ R = 25
      BY <1>2, <1>3 DEF StateTax, FederalTax, Relief, R
    <3>2. UkTax(B + P) \in Int /\ MarginalRelief(B + P) \in Int
      BY <1>1 DEF UkTax, MarginalRelief, SmallLimit, UpperLimit
    <3>3. Walk(in) = 10 * R * B + 10 * R * P + ((100 - R) * 0) \div 100 + -MarginalRelief(B + P)
      BY <3>1 DEF Walk, StatutoryLine, PermanentLine, StateLine, OtherLine, P, B, R
    <3>4. CurrentTax(in) = UkTax(B + P)
      BY <3>1, <3>2 DEF CurrentTax
    <3> QED BY <1>1, <3>1, <3>2, <3>3, <3>4
  <2> QED BY <1>1, <1>2, <1>3, <2>1 DEF UkTax, MarginalRelief, SmallLimit, UpperLimit
<1>4. CASE ~in.uk
  <2> DEFINE S == in.stateRate
  <2>1. PICK k \in Int : B + P = 1000 * k
    <3>1. (B + P) = 1000 * ((B + P) \div 1000) /\ (B + P) \div 1000 \in Int
      BY <1>2 DEF Balances
    <3> QED BY <3>1
  <2>2. PICK n \in Int : n = 15 * S * k
    BY <1>1, <2>1
  <2>3. (15 * S * (B + P)) \div 10 = 100 * n
    <3>1. 15 * S * (B + P) = 1000 * n
      BY <1>1, <2>1, <2>2
    <3> QED BY <2>2, <3>1
  <2>4. StateTax(in) = 100 * n
    BY <1>2, <1>4, <2>3 DEF StateTax
  <2>5. PICK x \in Int : x = R * n
    BY <1>1, <2>2
  <2>6. (R * StateTax(in)) \div 100 = x
    <3>1. R * (100 * n) = 100 * x
      BY <1>1, <2>2, <2>5
    <3> QED BY <2>4, <2>5, <3>1
  <2>7. StateLine(in) = 100 * n - x
    <3>1. (100 - R) * (100 * n) = 100 * (100 * n - x)
      <4>1. \A a, b \in Int : (100 - a) * (100 * b) = 100 * (100 * b - a * b)
        OBVIOUS
      <4>2. (100 - R) * (100 * n) = 100 * (100 * n - R * n)
        BY <1>1, <2>2, <4>1, Zenon
      <4> QED BY <2>5, <4>2, Zenon
    <3>2. (100 * (100 * n - x)) \div 100 = 100 * n - x
      BY <2>2, <2>5
    <3> QED BY <2>4, <3>1, <3>2 DEF StateLine, R
  <2>8. PICK y \in Int, z \in Int : y = R * B /\ z = R * P
    BY <1>1
  <2>9. CurrentTax(in) = 10 * y + 10 * z + 100 * n
    <3>1. 10 * R * (B + P) = 10 * y + 10 * z
      BY <1>1, <2>8
    <3> QED BY <1>2, <1>4, <2>4, <3>1 DEF CurrentTax, FederalTax, R
  <2>10. Walk(in) = 10 * y + 10 * z + (100 * n - x) + 0
    <3>1. StatutoryLine(in) = 10 * y /\ PermanentLine(in) = 10 * z
      <4>1. 10 * R * B = 10 * y /\ 10 * R * P = 10 * z
        BY <1>1, <2>8
      <4> QED BY <4>1 DEF StatutoryLine, PermanentLine, R, B, P
    <3>2. Relief(in) = 0
      BY <1>4, Zenon DEF Relief
    <3>3. OtherLine(in) = -0
      BY <3>2, Zenon DEF OtherLine
    <3> QED BY <2>7, <3>1, <3>3 DEF Walk
  <2>11. CurrentTax(in) - Walk(in) = x
    BY <2>2, <2>5, <2>8, <2>9, <2>10
  <2> QED BY <1>4, <2>6, <2>11 DEF R
<1> QED BY <1>3, <1>4

\* Where a profit is taxed, the walk from the statutory rate explains the current tax:
\* exactly, but for the small profits rate and the federal benefit of state tax.
THEOREM WalksExplain == TaxSpec => []ReconciliationExplains
<1>1. TaxInv => ReconciliationExplains
  <2> SUFFICES ASSUME TaxInv, NEW r \in runs, r.input.book + Total(r.input.permanent) >= 0,
                      r.input.uk => r.input.rate = 25
               PROVE  CurrentTax(r.input) - Walk(r.input) =
                        IF ~r.input.uk THEN (r.input.rate * StateTax(r.input)) \div 100
                        ELSE IF Taxable(r.input) <= SmallLimit THEN -60 * Taxable(r.input)
                        ELSE 0
    BY DEF ReconciliationExplains
  <2>1. InputTyped(r.input)
    BY RunInputTyped
  <2> QED BY <2>1, WalkExplains
<1> QED BY <1>1, TaxInvariance, PTL

-----------------------------------------------------------------------------
(* The artefacts of a handoff. *)

\* The boxes of a return say the same of the charge.
LEMMA BoxesAgree ==
  ASSUME NEW profits \in Nat, NEW main \in Nat, NEW small \in Nat, NEW relief \in Nat, main = 0 \/ small = 0
  PROVE  BoxesConsistent(Boxes(profits, main, small, relief))
<1> DEFINE charge == NonNegative(main + small - relief)
           b == [b5 |-> profits, b10 |-> profits, b11 |-> profits, b12 |-> main, b13 |-> small,
                 b14 |-> relief, b15 |-> charge, b16 |-> 0, b17 |-> 0, b19 |-> charge,
                 b20 |-> 0, b22 |-> charge]
<1>1. charge \in Nat
  BY DEF NonNegative
<1>2. Boxes(profits, main, small, relief) = b
  BY DEF Boxes
<1>3. Near(charge, charge) /\ NonNegative(charge - 0 - 0) = charge /\ NonNegative(charge - 0) = charge
  BY <1>1 DEF Near, Abs, NonNegative
<1>4. Near(charge, NonNegative(main + small - relief))
  BY <1>3
<1> HIDE DEF charge
<1>5. DOMAIN b = {"b5", "b10", "b11", "b12", "b13", "b14", "b15", "b16", "b17", "b19", "b20", "b22"}
  OBVIOUS
<1>6. \A n \in DOMAIN b : b[n] >= 0
  BY <1>1, <1>5
<1> QED BY <1>2, <1>3, <1>4, <1>6 DEF BoxesConsistent

\* Taxable profits are never negative.
LEMMA TaxableTyped ==
  ASSUME NEW in, InputTyped(in)
  PROVE  Taxable(in) \in Nat
  BY PermanentTyped DEF Taxable, NonNegative

\* Whatever the band, the boxes of the handoff are in it.
LEMMA HandoffValid ==
  ASSUME NEW in, InputTyped(in), in.uk
  PROVE  BoxesConsistent(HandoffBoxes(in)) /\ BandAligned(HandoffBoxes(in))
<1> DEFINE p == Taxable(in)
           charge == Pennies(UkTax(p))
<1>1. p \in Nat
  BY TaxableTyped
<1>2. FederalTax(in) = UkTax(p)
  BY Zenon DEF FederalTax
<1> HIDE DEF p
<1>3. CASE p <= SmallLimit
  <2>1. charge = 19 * p
    BY <1>1, <1>3 DEF Pennies, UkTax, MarginalRelief, SmallLimit, UpperLimit
  <2>2. HandoffBoxes(in) = Boxes(100 * p, 0, charge, 0)
    BY <1>2, <1>3 DEF HandoffBoxes, p
  <2>3. 100 * p \in Nat /\ charge \in Nat
    BY <1>1, <2>1
  <2>4. BoxesConsistent(HandoffBoxes(in))
    BY <2>2, <2>3, BoxesAgree
  <2>5. BandAligned(HandoffBoxes(in))
    BY <1>1, <1>3, <2>1, <2>2 DEF BandAligned, Boxes, NearPercent, Near, Abs, SmallLimit, UpperLimit
  <2> QED BY <2>4, <2>5
<1>4. CASE SmallLimit < p /\ p < UpperLimit
  <2> DEFINE relief == NonNegative(25 * p - charge)
  <2>1. UkTax(p) = 265 * p - 3750000 /\ UkTax(p) >= 0
    BY <1>1, <1>4 DEF UkTax, MarginalRelief, SmallLimit, UpperLimit
  <2>2. charge = (265 * p - 3749995) \div 10
    BY <1>1, <2>1 DEF Pennies
  <2>3. charge \in Nat /\ relief \in Nat /\ 25 * p \in Nat /\ 100 * p \in Nat
    BY <1>1, <1>4, <2>2 DEF NonNegative, SmallLimit, UpperLimit
  <2>4. relief = 25 * p - charge
    BY <1>1, <1>4, <2>2 DEF NonNegative, SmallLimit, UpperLimit
  <2>5. HandoffBoxes(in) = Boxes(100 * p, 25 * p, 0, relief)
    BY <1>1, <1>2, <1>4 DEF HandoffBoxes, p, SmallLimit, UpperLimit
  <2> HIDE DEF charge, relief
  <2>6. BoxesConsistent(HandoffBoxes(in))
    BY <2>3, <2>5, BoxesAgree
  <2>7. Near(relief, (15 * (100 * UpperLimit - 100 * p) + 500) \div 1000)
    BY <1>1, <2>2, <2>4 DEF Near, Abs, UpperLimit
  <2>8. NearPercent(25 * p, 25, 100 * p)
    BY <1>1 DEF NearPercent, Near, Abs
  <2>9. BandAligned(HandoffBoxes(in))
    BY <1>1, <1>4, <2>5, <2>7, <2>8 DEF BandAligned, Boxes, SmallLimit, UpperLimit
  <2> QED BY <2>6, <2>9
<1>5. CASE p >= UpperLimit
  <2>1. charge = 25 * p
    BY <1>1, <1>5 DEF Pennies, UkTax, MarginalRelief, SmallLimit, UpperLimit
  <2>2. HandoffBoxes(in) = Boxes(100 * p, charge, 0, 0)
    BY <1>1, <1>2, <1>5 DEF HandoffBoxes, p, SmallLimit, UpperLimit
  <2>3. 100 * p \in Nat /\ charge \in Nat
    BY <1>1, <2>1
  <2>4. BoxesConsistent(HandoffBoxes(in))
    BY <2>2, <2>3, BoxesAgree
  <2>5. BandAligned(HandoffBoxes(in))
    BY <1>1, <1>5, <2>1, <2>2 DEF BandAligned, Boxes, NearPercent, Near, Abs, SmallLimit, UpperLimit
  <2> QED BY <2>4, <2>5
<1> QED BY <1>1, <1>3, <1>4, <1>5 DEF SmallLimit, UpperLimit

\* The figures of a British run after March 2022 meet the gates of a handoff whatever
\* the band, if there are any.
THEOREM ArtefactsAlwaysValidate == TaxSpec => []ArtefactsValidate
<1>1. TaxInv => ArtefactsValidate
  <2> SUFFICES ASSUME TaxInv, NEW r \in runs,
                      /\ r.input.uk /\ Regime(r.period) # "flat2022"
                      /\ company.id # "lower case number" /\ IxbrlFacts(r.input) # {}
               PROVE  Exportable(r.input, r.period, company.id)
    BY DEF ArtefactsValidate
  <2>1. BoxesConsistent(HandoffBoxes(r.input)) /\ BandAligned(HandoffBoxes(r.input))
    BY RunInputTyped, HandoffValid, Zenon
  <2> QED BY <2>1, Zenon DEF Exportable, Ct600Valid, IxbrlValid
<1> QED BY <1>1, TaxInvariance, PTL

-----------------------------------------------------------------------------
(* Capital allowances. *)

\* A pool without balance brought forward, of assets that are not new.
PoolTyped(in) ==
  /\ in.pool \in {"main", "special"} /\ in.expenditure \in Nat /\ in.disposals \in Nat
  /\ in.prior = 0 /\ in.isNew = FALSE

\* What is relieved and what is left are what was spent less what was received, and
\* no more is relieved than was spent.
LEMMA AllowanceWithinCost ==
  ASSUME NEW in, PoolTyped(in)
  PROVE  LET out == Allowance(in)
         IN  /\ \/ out.firstYear + out.writingDown + out.closing = in.expenditure - in.disposals
                \/ out.writingDown = 0 /\ out.closing = 0
             /\ out.firstYear + out.writingDown <= in.expenditure
             /\ out.aiaUsed <= AiaLimit
             /\ out.firstYear + out.writingDown \in Int
<1> DEFINE cost == in.expenditure
           aia == AiaUsed(in)
           pool == Pool(in)
           down == WritingDown(in)
<1>1. cost \in Nat /\ in.disposals \in Nat /\ in.prior = 0
  BY DEF PoolTyped
<1>2. FirstYear(in) = 0
  BY Zenon DEF PoolTyped, FirstYear
<1>3. aia \in {0, Smaller(cost, AiaLimit)}
  BY Zenon DEF AiaUsed
<1>4. aia \in Nat /\ aia <= cost /\ aia <= AiaLimit
  BY <1>1, <1>3 DEF Smaller, AiaLimit
<1>5. pool = IF cost - aia - in.disposals < 0 THEN 0 ELSE cost - aia - in.disposals
  BY <1>1, <1>2, <1>4 DEF Pool, Remainder, PoolTyped
<1>6. down \in Nat /\ down <= pool
  <2>1. Rate(in.pool) \in {6, 18}
    BY DEF Rate, PoolTyped
  <2>2. pool \in Nat
    BY <1>1, <1>4, <1>5
  <2>3. \A n \in Nat : Percent(Rate(in.pool), n) \in Nat /\ Percent(Rate(in.pool), n) <= n
    BY <2>1 DEF Percent
  <2> HIDE DEF pool
  <2>4. down \in {pool, 0, Percent(Rate(in.pool), pool)}
    BY Zenon DEF WritingDown, pool
  <2> QED BY <2>2, <2>3, <2>4
<1>7. Allowance(in) = [firstYear |-> aia + 0, writingDown |-> down, closing |-> pool - down, aiaUsed |-> aia]
  BY <1>2 DEF Allowance
<1>8. pool \in Nat
  BY <1>1, <1>4, <1>5
<1> HIDE DEF aia, pool, down
<1> QED BY <1>1, <1>4, <1>5, <1>6, <1>7, <1>8

\* The rows of a register have costs, proceeds and dates, and are finitely many.
LEMMA AssetsTyped ==
  /\ IsFiniteSet(Assets)
  /\ \A x \in Assets : x.cost \in Nat /\ x.proceeds \in Nat /\ x.placed \in Nat
<1>1. ASSUME NEW x \in Assets PROVE x.cost \in Nat /\ x.proceeds \in Nat /\ x.placed \in Nat
  <2>1. x \in [id : {x.id}, poolType : STRING, cost : Nat, placed : Nat, disposed : Nat, proceeds : Nat]
    BY TaxAssumption
  <2> QED BY <2>1
<1> QED BY <1>1, TaxAssumption

\* The parts of a register in a period, and what they cost.
LEMMA SummaryWithinCost ==
  ASSUME NEW own, own \subseteq Assets, NEW period
  PROVE  /\ \A k \in DOMAIN Summary(own, period) : PoolTyped(Summary(own, period)[k])
         /\ TotalAllowance(Summary(own, period)) \in Int
         /\ TotalAllowance(Summary(own, period))
              <= Total(Part([x \in own |-> x.cost], Additions(own, period)))
<1> DEFINE f == [x \in own |-> x.cost]
           added == Additions(own, period)
           pools == {PoolOf(x) : x \in added}
           part == [k \in pools |-> {x \in added : PoolOf(x) = k}]
           summary == [k \in pools |-> PoolInput(k[1], part[k], period)]
<1>1. IsFiniteSet(own) /\ f \in [own -> Nat] /\ f \in [own -> Int]
      /\ \A x \in own : x.cost \in Nat /\ x.proceeds \in Nat
  BY AssetsTyped, FS_Subset
<1>2. added \subseteq own /\ IsFiniteSet(added) /\ IsFiniteSet(pools)
  <2>1. added \subseteq own
    BY DEF Additions
  <2>2. IsFiniteSet(added)
    BY <1>1, <2>1, FS_Subset
  <2> DEFINE of == [x \in added |-> PoolOf(x)]
  <2>3. of \in Surjection(added, pools)
    BY DEF Surjection
  <2> HIDE DEF added, pools, of
  <2>4. IsFiniteSet(pools)
    BY <2>2, <2>3, FS_Surjection
  <2> QED BY <2>1, <2>2, <2>4
<1>3. Summary(own, period) = summary
  BY DEF Summary
<1>4. part \in [pools -> SUBSET own] /\ (\A k, l \in pools : k # l => part[k] \cap part[l] = {})
      /\ UNION {part[k] : k \in pools} = added
  <2>1. \A k \in pools : part[k] = {x \in added : PoolOf(x) = k}
    OBVIOUS
  <2>2. part \in [pools -> SUBSET own]
    BY <1>2
  <2> HIDE DEF part
  <2>3. \A k, l \in pools : k # l => part[k] \cap part[l] = {}
    BY <2>1
  <2>4. \A x \in added : PoolOf(x) \in pools
    OBVIOUS
  <2> HIDE DEF pools, added
  <2>5. UNION {part[k] : k \in pools} = added
    BY <2>1, <2>4
  <2> QED BY <2>2, <2>3, <2>5
<1> HIDE DEF pools, part, added
<1>5. ASSUME NEW k \in pools
      PROVE  /\ PoolTyped(summary[k]) /\ summary[k].expenditure = Total(Part(f, part[k]))
             /\ Total(Part(f, part[k])) \in Nat
  <2>1. part[k] \in SUBSET own /\ IsFiniteSet(part[k])
    BY <1>1, <1>4, FS_Subset
  <2>2. Total(Part(f, part[k])) \in Nat
    <3> HIDE DEF f
    <3> QED BY <1>1, <2>1, TotalOfPart
  <2> DEFINE proceeds == [x \in own |-> Proceeds(x, period)]
  <2>3. proceeds \in [own -> Nat]
    BY <1>1 DEF Proceeds
  <2>4. Total(Part(proceeds, part[k])) \in Nat
    <3> HIDE DEF proceeds
    <3> QED BY <1>1, <2>1, <2>3, TotalOfPart
  <2>5. Part(f, part[k]) = [x \in part[k] |-> x.cost]
    BY <2>1 DEF Part
  <2>6. Part(proceeds, part[k]) = [x \in part[k] |-> Proceeds(x, period)]
    BY <2>1 DEF Part
  <2>7. summary[k] = PoolInput(k[1], part[k], period)
    OBVIOUS
  <2> HIDE DEF summary, proceeds, f
  <2>8. /\ summary[k].pool \in {"main", "special"} /\ summary[k].prior = 0
        /\ summary[k].expenditure = Total([x \in part[k] |-> x.cost])
        /\ summary[k].disposals = Total([x \in part[k] |-> Proceeds(x, period)])
    BY <2>7 DEF PoolInput
  <2>9. summary[k].isNew = FALSE
    BY <2>7 DEF PoolInput
  <2> QED BY <2>2, <2>4, <2>5, <2>6, <2>8, <2>9, Zenon DEF PoolTyped
<1> DEFINE relieved == [k \in pools |-> Allowance(summary[k]).firstYear + Allowance(summary[k]).writingDown]
           spent == [k \in pools |-> Total(Part(f, part[k]))]
<1>6. \A k \in pools : relieved[k] \in Int /\ spent[k] \in Int /\ relieved[k] <= spent[k]
  <2> HIDE DEF summary, f
  <2> QED BY <1>5, AllowanceWithinCost
<1>7. relieved \in [pools -> Int] /\ spent \in [pools -> Int]
  <2>1. DOMAIN relieved = pools /\ DOMAIN spent = pools
    OBVIOUS
  <2> QED BY <1>6
<1>8. Total(relieved) <= Total(spent) /\ Total(relieved) \in Int
  <2> HIDE DEF relieved, spent
  <2> QED BY <1>2, <1>6, <1>7, TotalGrows, TotalIsInt
<1>9. Total(spent) = Total(Part(f, added))
  <2>1. Total(spent) = Total(Part(f, UNION {part[k] : k \in pools}))
    <3> HIDE DEF f
    <3> QED BY <1>1, <1>2, <1>4, TotalOfTotals
  <2> QED BY <1>4, <2>1
<1>10. DOMAIN Summary(own, period) = pools /\ \A k \in pools : Summary(own, period)[k] = summary[k]
  BY <1>3
<1>11. TotalAllowance(Summary(own, period)) = Total(relieved)
  <2>1. relieved = [k \in DOMAIN Summary(own, period) |->
          Allowance(Summary(own, period)[k]).firstYear + Allowance(Summary(own, period)[k]).writingDown]
    <3> HIDE DEF summary
    <3> QED BY <1>10
  <2> HIDE DEF relieved
  <2> QED BY <2>1 DEF TotalAllowance
<1> HIDE DEF summary, relieved, spent, f
<1>12. \A k \in DOMAIN Summary(own, period) : PoolTyped(Summary(own, period)[k])
  BY <1>5, <1>10
<1>13. TotalAllowance(Summary(own, period)) \in Int
       /\ TotalAllowance(Summary(own, period)) <= Total(Part(f, added))
  BY <1>8, <1>9, <1>11
<1> QED BY <1>12, <1>13 DEF f, added

\* A run without pools relieves nothing.
LEMMA NothingRelieved == TotalAllowance(<< >>) = 0
<1> DEFINE e == [k \in DOMAIN << >> |-> Allowance(<< >>[k]).firstYear + Allowance(<< >>[k]).writingDown]
<1>1. DOMAIN << >> = {} /\ DOMAIN e = {}
  OBVIOUS
<1>2. e = [k \in {} |-> e[k]]
  BY <1>1
<1>3. Total(e) = 0
  <2> HIDE DEF e
  <2> QED BY <1>1, <1>2, TotalOfNone
<1> QED BY <1>3 DEF TotalAllowance

\* The pools of a run account for what was spent, and two runs of different periods
\* relieve no pound twice.
THEOREM AllowancesStayWithinCost == TaxSpec => []AllowancesWithinCost
<1>1. TaxInv => AllowancesWithinCost
  <2> SUFFICES ASSUME TaxInv PROVE AllowancesWithinCost
    OBVIOUS
  <2> DEFINE f == [x \in register |-> x.cost]
             Of(r) == IF r.route = "workbench" THEN Additions(register, r.period) ELSE {}
  <2>1. IsFiniteSet(register) /\ register \subseteq Assets /\ f \in [register -> Nat]
    BY AssetsTyped, FS_Subset DEF TaxInv
  <2>2. ASSUME NEW r \in runs
        PROVE  /\ r.allowances = IF r.route = "workbench" THEN Summary(register, r.period) ELSE << >>
               /\ r.period.from \in Nat /\ r.period.to \in Nat
    <3>1. PICK route \in Routes, q \in Requests : r = RunOf(route, q)
      BY DEF TaxInv, RunsSound
    <3>2. r.route = route /\ r.period = q.period
          /\ r.allowances = IF route = "workbench" THEN Summary(register, q.period) ELSE << >>
      BY <3>1 DEF RunOf
    <3> QED BY <3>2, RequestTyped
  <2>3. ASSUME NEW r \in runs
        PROVE  /\ \A k \in DOMAIN r.allowances : PoolTyped(r.allowances[k])
               /\ TotalAllowance(r.allowances) \in Int
               /\ Of(r) \in SUBSET register
               /\ TotalAllowance(r.allowances) <= Total(Part(f, Of(r)))
    <3>1. Of(r) \in SUBSET register
      BY DEF Additions
    <3>2. CASE r.route = "workbench"
      BY <2>1, <2>2, <3>1, <3>2, SummaryWithinCost
    <3>3. CASE r.route # "workbench"
      <4>1. r.allowances = << >> /\ Of(r) = {}
        BY <2>2, <3>3
      <4>2. Total(Part(f, {})) \in Nat
        <5>1. {} \in SUBSET register
          OBVIOUS
        <5> HIDE DEF f
        <5> QED BY <2>1, <5>1, TotalOfPart
      <4> HIDE DEF Of, f
      <4> QED BY <4>1, <4>2, NothingRelieved
    <3> QED BY <3>2, <3>3
  <2>4. ASSUME NEW r \in runs, NEW k \in DOMAIN r.allowances
        PROVE  LET in  == r.allowances[k]
                   out == Allowance(in)
               IN  /\ \/ out.firstYear + out.writingDown + out.closing = in.expenditure - in.disposals
                      \/ out.writingDown = 0 /\ out.closing = 0
                   /\ out.firstYear + out.writingDown <= in.expenditure
                   /\ out.aiaUsed <= AiaLimit
    BY <2>3, AllowanceWithinCost
  <2>5. ASSUME NEW r \in runs, NEW s \in runs, r.period.to < s.period.from
        PROVE  TotalAllowance(r.allowances) + TotalAllowance(s.allowances) <= Total(f)
    <3>1. Of(r) \cap Of(s) = {}
      <4>1. \A x \in Assets : x.placed \in Nat
        BY AssetsTyped
      <4> QED BY <2>1, <2>2, <2>5, <4>1 DEF Additions, Within
    <3>2. Of(r) \in SUBSET register /\ Of(s) \in SUBSET register /\ Of(r) \cup Of(s) \in SUBSET register
      BY <2>3
    <3> HIDE DEF Of, f
    <3>3. f \in [register -> Int]
      BY <2>1
    <3>4. Total(Part(f, Of(r) \cup Of(s))) = Total(Part(f, Of(r))) + Total(Part(f, Of(s)))
      BY <2>1, <3>1, <3>2, <3>3, TotalOfTwo
    <3>5. Total(Part(f, Of(r) \cup Of(s))) <= Total(f) /\ Total(Part(f, Of(r))) \in Nat
          /\ Total(Part(f, Of(s))) \in Nat /\ Total(f) \in Int
      BY <2>1, <3>2, <3>3, TotalOfPart, TotalIsInt
    <3> QED BY <2>3, <3>4, <3>5
  <2> QED BY <2>4, <2>5 DEF AllowancesWithinCost
<1> QED BY <1>1, TaxInvariance, PTL

-----------------------------------------------------------------------------
(* What is rounded to pennies. *)

\* A figure in pennies is half a penny from the one in mills at most, to either side
\* of nil alike.
LEMMA PenniesOf ==
  ASSUME NEW x \in Int
  PROVE  /\ Pennies(x) \in Int /\ Pennies(-x) = -Pennies(x)
         /\ (x >= 0 => Pennies(x) >= 0) /\ (x <= 0 => Pennies(x) <= 0)
         /\ -5 <= 10 * Pennies(x) - x /\ 10 * Pennies(x) - x <= 5
<1>1. CASE x > 0
  <2>1. Pennies(x) = (x + 5) \div 10 /\ Pennies(-x) = -((5 - (-x)) \div 10) /\ 5 - (-x) = x + 5
    BY <1>1 DEF Pennies
  <2> QED BY <1>1, <2>1
<1>2. CASE x >= 0 /\ x <= 0
  <2>1. Pennies(0) = (0 + 5) \div 10
    BY DEF Pennies
  <2>2. (0 + 5) \div 10 = 0
    OBVIOUS
  <2>3. -x = 0
    BY <1>2
  <2>4. Pennies(0) = 0
    BY <2>1, <2>2, Zenon
  <2>5. x = 0
    BY <1>2
  <2>6. Pennies(x) = 0 /\ Pennies(-x) = 0
    BY <2>3, <2>4, <2>5, Zenon
  <2> QED BY <1>2, <2>6
<1>3. CASE x < 0
  <2>1. Pennies(x) = -((5 - x) \div 10) /\ Pennies(-x) = ((-x) + 5) \div 10 /\ (-x) + 5 = 5 - x
    BY <1>3 DEF Pennies
  <2>2. (5 - x) \div 10 \in Int
    OBVIOUS
  <2> QED BY <1>3, <2>1, <2>2
<1> QED BY <1>1, <1>2, <1>3

\* What is rounded one by one is a penny from what is rounded together at most.
LEMMA PenniesOfSum ==
  ASSUME NEW x \in Int, NEW y \in Int
  PROVE  Near(Pennies(x) + Pennies(y), Pennies(x + y))
<1>1. x + y \in Int
  OBVIOUS
<1>2. /\ Pennies(x) \in Int /\ -5 <= 10 * Pennies(x) - x /\ 10 * Pennies(x) - x <= 5
      /\ Pennies(y) \in Int /\ -5 <= 10 * Pennies(y) - y /\ 10 * Pennies(y) - y <= 5
      /\ Pennies(x + y) \in Int /\ -5 <= 10 * Pennies(x + y) - (x + y) /\ 10 * Pennies(x + y) - (x + y) <= 5
  BY <1>1, PenniesOf
<1> QED BY <1>2 DEF Near, Abs

\* Tax is never negative, nor is a closing balance; a British company has no other
\* tax than that of its profits.
LEMMA TaxTyped ==
  ASSUME NEW in, InputTyped(in)
  PROVE  /\ CurrentTax(in) \in Nat
         /\ Closing(in, "DTL") \in Nat /\ Closing(in, "DTA") \in Nat
         /\ DeferredTax(in) \in Int /\ DeferredTax(in) = Closing(in, "DTL") - Closing(in, "DTA")
         /\ TotalTax(in) = CurrentTax(in) + DeferredTax(in)
         /\ in.uk => CurrentTax(in) = UkTax(Taxable(in)) /\ FederalTax(in) = UkTax(Taxable(in))
<1> DEFINE p == Taxable(in)
<1>1. p \in Nat
  BY TaxableTyped
<1>2. in.rate \in Nat /\ in.stateRate \in Nat
  BY DEF InputTyped
<1>3. UkTax(p) \in Nat
  BY <1>1 DEF UkTax, MarginalRelief, SmallLimit, UpperLimit
<1>4. ASSUME in.uk PROVE CurrentTax(in) = UkTax(p) /\ FederalTax(in) = UkTax(p)
  <2>1. FederalTax(in) = UkTax(p) /\ StateTax(in) = 0
    BY <1>4, Zenon DEF FederalTax, StateTax
  <2> QED BY <1>3, <2>1 DEF CurrentTax
<1>5. ASSUME ~in.uk PROVE CurrentTax(in) \in Nat
  <2>1. FederalTax(in) = 10 * in.rate * p /\ StateTax(in) = (15 * in.stateRate * p) \div 10
    BY <1>5, Zenon DEF FederalTax, StateTax
  <2>2. \A m \in Nat, n \in Nat : 10 * m * n \in Nat /\ (15 * m * n) \div 10 \in Nat
    <3>1. \A m \in Nat, n \in Nat : 10 * m * n \in Nat /\ 15 * m * n \in Nat
      OBVIOUS
    <3>2. \A m \in Nat : m \div 10 \in Nat
      OBVIOUS
    <3> QED BY <3>1, <3>2
  <2>3. FederalTax(in) \in Nat /\ StateTax(in) \in Nat
    BY <1>1, <1>2, <2>1, <2>2, Zenon
  <2> QED BY <2>3 DEF CurrentTax
<1>6. ASSUME NEW side PROVE Closing(in, side) \in Nat
  <2> DEFINE S == {b \in DOMAIN in.temporary : in.temporary[b].side = side}
             f == [a \in S |-> in.rate * in.temporary[a].difference]
  <2>1. IsFiniteSet(S)
    BY FS_Subset DEF InputTyped
  <2>2. \A a \in S : in.temporary[a].difference \in Nat
    BY DEF InputTyped
  <2>3. \A m \in Nat, n \in Nat : m * n \in Nat
    OBVIOUS
  <2>4. f \in [S -> Nat] /\ Part(f, S) = f
    BY <1>2, <2>2, <2>3 DEF Part
  <2> HIDE DEF f, S
  <2>5. Total(f) \in Nat
    BY <2>1, <2>4, TotalOfPart
  <2> QED BY <2>5 DEF Closing, f, S
<1>7. DeferredTax(in) = Closing(in, "DTL") - Closing(in, "DTA") /\ TotalTax(in) = CurrentTax(in) + DeferredTax(in)
  BY DEF DeferredTax, TotalTax
<1>8. CurrentTax(in) \in Nat
  BY <1>3, <1>4, <1>5, Zenon
<1>9. DeferredTax(in) \in Int
  BY <1>6, <1>7
<1> QED BY <1>4, <1>6, <1>7, <1>8, <1>9, Zenon

-----------------------------------------------------------------------------
(* Journals. *)

\* A posting of an amount from one account to another.
Pair(a, b, n) == {Dr(a, n), Cr(b, n)}

\* An entry of finitely many lines balances.
EntryBalances(e) ==
  /\ IsFiniteSet(e) /\ \A l \in e : l.debit \in Nat /\ l.credit \in Nat
  /\ Total([l \in e |-> l.debit]) = Total([l \in e |-> l.credit])

\* In no format do the rows of an entry post anything on balance.
RowsBalanceOf(e) ==
  \A format \in Formats : Total([r \in {CsvRow(format, l) : l \in e} |-> r.amount]) = 0

\* What an amount of an account is to the expense accounts.
Expensed(account, n) == IF account \in {"tax-expense-current", "tax-expense-deferred"} THEN n ELSE 0

\* A posting balances, in itself and as rows; it posts its amount to the one account and from the other.
LEMMA PairBalances ==
  ASSUME NEW a, NEW b, a # b, NEW n \in Nat, n # 0
  PROVE  /\ EntryBalances(Pair(a, b, n)) /\ RowsBalanceOf(Pair(a, b, n))
         /\ ToExpense(Pair(a, b, n)) = Expensed(a, n) - Expensed(b, n)
         /\ ToPayable(Pair(a, b, n)) = IF b = "tax-payable" THEN n ELSE 0
<1> DEFINE x == Dr(a, n)
           y == Cr(b, n)
           e == Pair(a, b, n)
<1>1. /\ x.account = a /\ x.debit = n /\ x.credit = 0
      /\ y.account = b /\ y.debit = 0 /\ y.credit = n /\ x # y
  BY DEF Dr, Cr
<1>2. e = {x, y}
  BY DEF Pair
<1>3. IsFiniteSet({x, y})
  BY PairFinite
<1> HIDE DEF x, y, e
<1>4. ASSUME NEW f, f \in [{x, y} -> Int] PROVE Total(f) = f[x] + f[y]
  BY <1>1, <1>4, TotalOfPair
<1>5. Total([l \in e |-> l.debit]) = n
  <2> DEFINE f == [l \in {x, y} |-> l.debit]
  <2>1. f \in [{x, y} -> Int] /\ f[x] = n /\ f[y] = 0
    BY <1>1
  <2> HIDE DEF f
  <2>2. Total(f) = n
    BY <1>4, <2>1
  <2> QED BY <1>2, <2>2 DEF f
<1>6. Total([l \in e |-> l.credit]) = n
  <2> DEFINE f == [l \in {x, y} |-> l.credit]
  <2>1. f \in [{x, y} -> Int] /\ f[x] = 0 /\ f[y] = n
    BY <1>1
  <2> HIDE DEF f
  <2>2. Total(f) = n
    BY <1>4, <2>1
  <2> QED BY <1>2, <2>2 DEF f
<1>7. ToExpense(e) = Expensed(a, n) - Expensed(b, n)
  <2> DEFINE f == [l \in {x, y} |-> IF l.account \in {"tax-expense-current", "tax-expense-deferred"}
                                    THEN l.debit - l.credit ELSE 0]
  <2>1. /\ f \in [{x, y} -> Int]
        /\ f[x] = Expensed(a, n) /\ f[y] = -Expensed(b, n)
        /\ Expensed(a, n) \in Int /\ Expensed(b, n) \in Int
    <3>1. DOMAIN f = {x, y} /\ f[x] = IF x.account \in {"tax-expense-current", "tax-expense-deferred"}
                                     THEN x.debit - x.credit ELSE 0
      OBVIOUS
    <3>2. f[y] = IF y.account \in {"tax-expense-current", "tax-expense-deferred"}
                 THEN y.debit - y.credit ELSE 0
      OBVIOUS
    <3>3. f[x] = Expensed(a, n) /\ Expensed(a, n) \in Int
      BY <1>1, <3>1 DEF Expensed
    <3>4. f[y] = 0 - Expensed(b, n) /\ Expensed(b, n) \in Int
      BY <1>1, <3>2 DEF Expensed
    <3> QED BY <3>1, <3>3, <3>4
  <2> HIDE DEF f
  <2>2. Total(f) = f[x] + f[y]
    BY <1>4, <2>1
  <2>3. ToExpense(e) = Total(f)
    BY <1>2 DEF ToExpense, f
  <2> QED BY <2>1, <2>2, <2>3
<1>8. ToPayable(e) = IF b = "tax-payable" THEN n ELSE 0
  <2> DEFINE f == [l \in {x, y} |-> IF l.account = "tax-payable" THEN l.credit ELSE 0]
  <2>1. /\ f \in [{x, y} -> Int] /\ f[x] = 0 /\ f[y] = (IF b = "tax-payable" THEN n ELSE 0)
    BY <1>1
  <2> HIDE DEF f
  <2>2. Total(f) = f[x] + f[y]
    BY <1>4, <2>1
  <2>3. ToPayable(e) = Total(f)
    BY <1>2 DEF ToPayable, f
  <2> QED BY <2>1, <2>2, <2>3
<1>9. ASSUME NEW format \in Formats
      PROVE  Total([r \in {CsvRow(format, l) : l \in e} |-> r.amount]) = 0
  <2> DEFINE u == CsvRow(format, x)
             v == CsvRow(format, y)
             f == [r \in {u, v} |-> r.amount]
  <2>1. u = [account |-> a, amount |-> n]
    BY <1>1 DEF CsvRow
  <2>2. v = [account |-> b, amount |-> -n]
    BY <1>1 DEF CsvRow
  <2>3. {CsvRow(format, l) : l \in e} = {u, v}
    BY <1>2
  <2> HIDE DEF u, v
  <2>4. u # v /\ f \in [{u, v} -> Int] /\ f[u] = n /\ f[v] = -n
    BY <2>1, <2>2
  <2> HIDE DEF f
  <2>5. Total(f) = f[u] + f[v]
    BY <2>4, TotalOfPair
  <2>6. Total(f) = 0
    BY <2>4, <2>5
  <2>7. f = [r \in {CsvRow(format, l) : l \in e} |-> r.amount]
    BY <2>3 DEF f
  <2> HIDE DEF f
  <2> QED BY <2>6, <2>7
<1>10. EntryBalances(e)
  BY <1>1, <1>2, <1>3, <1>5, <1>6 DEF EntryBalances
<1>11. RowsBalanceOf(e)
  BY <1>9 DEF RowsBalanceOf
<1> QED BY <1>7, <1>8, <1>10, <1>11 DEF e

\* Rounded, a posting is of the amount in pennies, and not shown when that is nil.
LEMMA ShownPair ==
  ASSUME NEW a, NEW b, NEW m \in Nat
  PROVE  Shown(Pair(a, b, m)) = IF Pennies(m) = 0 THEN {} ELSE Pair(a, b, Pennies(m))
<1>1. Pennies(0) = 0
  <2>1. Pennies(0) = (0 + 5) \div 10
    BY DEF Pennies
  <2>2. (0 + 5) \div 10 = 0
    OBVIOUS
  <2> QED BY <2>1, <2>2, Zenon
<1>2. [Dr(a, m) EXCEPT !.debit = Pennies(Dr(a, m).debit), !.credit = Pennies(Dr(a, m).credit)]
        = Dr(a, Pennies(m))
  <2>1. Dr(a, m) = [account |-> a, debit |-> m, credit |-> 0]
    BY DEF Dr
  <2>2. Dr(a, m).debit = m /\ Dr(a, m).credit = 0
    BY <2>1
  <2> DEFINE line == Dr(a, m)
             other == [line EXCEPT !.debit = Pennies(m)]
  <2>3. line = [account |-> a, debit |-> m, credit |-> 0]
    BY <2>1
  <2> HIDE DEF line
  <2>4. other = [account |-> a, debit |-> Pennies(m), credit |-> 0]
    BY <2>3
  <2>5. [line EXCEPT !.debit = Pennies(m), !.credit = 0] = [other EXCEPT !.credit = 0]
    BY <2>3
  <2> HIDE DEF other
  <2>6. [other EXCEPT !.credit = 0] = [account |-> a, debit |-> Pennies(m), credit |-> 0]
    BY <2>4
  <2>7. [line EXCEPT !.debit = Pennies(m), !.credit = 0] = [account |-> a, debit |-> Pennies(m), credit |-> 0]
    BY <2>5, <2>6
  <2> QED BY <1>1, <2>2, <2>7 DEF Dr, line
<1>3. [Cr(b, m) EXCEPT !.debit = Pennies(Cr(b, m).debit), !.credit = Pennies(Cr(b, m).credit)]
        = Cr(b, Pennies(m))
  <2>1. Cr(b, m) = [account |-> b, debit |-> 0, credit |-> m]
    BY DEF Cr
  <2>2. Cr(b, m).debit = 0 /\ Cr(b, m).credit = m
    BY <2>1
  <2> DEFINE line == Cr(b, m)
             other == [line EXCEPT !.debit = 0]
  <2>3. line = [account |-> b, debit |-> 0, credit |-> m]
    BY <2>1
  <2> HIDE DEF line
  <2>4. other = [account |-> b, debit |-> 0, credit |-> m]
    BY <2>3
  <2>5. [line EXCEPT !.debit = 0, !.credit = Pennies(m)] = [other EXCEPT !.credit = Pennies(m)]
    BY <2>3
  <2> HIDE DEF other
  <2>6. [other EXCEPT !.credit = Pennies(m)] = [account |-> b, debit |-> 0, credit |-> Pennies(m)]
    BY <2>4
  <2>7. [line EXCEPT !.debit = 0, !.credit = Pennies(m)] = [account |-> b, debit |-> 0, credit |-> Pennies(m)]
    BY <2>5, <2>6
  <2> QED BY <1>1, <2>2, <2>7 DEF Cr, line
<1>4. Rounded(Pair(a, b, m)) = Pair(a, b, Pennies(m))
  BY <1>2, <1>3 DEF Rounded, Pair
<1>5. /\ Dr(a, Pennies(m)).debit = Pennies(m) /\ Dr(a, Pennies(m)).credit = 0
      /\ Cr(b, Pennies(m)).debit = 0 /\ Cr(b, Pennies(m)).credit = Pennies(m)
  BY DEF Dr, Cr
<1> QED BY <1>4, <1>5 DEF Shown, Pair

\* What the entries of a result post, in pennies.
CurrentPosting(in) == Posting("tax-expense-current", "tax-payable", Pennies(CurrentTax(in)))

\* The deferred tax is owed, or an asset, by its sign.
DeferredPosting(in) ==
  Posting("tax-expense-deferred",
          IF Pennies(DeferredTax(in)) > 0 THEN "deferred-tax-liability" ELSE "deferred-tax-asset",
          Pennies(DeferredTax(in)))

\* The entries of the engine, rounded, are those its columns would be given.
LEMMA EntriesAgree ==
  ASSUME NEW in, InputTyped(in)
  PROVE  /\ JournalExport(in) = {CurrentPosting(in), DeferredPosting(in)} \ {{}}
         /\ DerivedEntries(Columns(in)) = {CurrentPosting(in), DeferredPosting(in)} \ {{}}
<1> DEFINE tax == CurrentTax(in)
           net == DeferredTax(in)
<1>1. /\ tax \in Nat /\ net \in Int /\ net = Closing(in, "DTL") - Closing(in, "DTA")
      /\ Closing(in, "DTL") \in Nat /\ Closing(in, "DTA") \in Nat
  BY TaxTyped
<1> HIDE DEF tax, net
<1>2. /\ Pennies(tax) \in Nat /\ Pennies(net) \in Int /\ Pennies(-net) = -Pennies(net)
      /\ (net >= 0 => Pennies(net) >= 0) /\ (net <= 0 => Pennies(net) <= 0)
  <2>1. tax \in Int /\ tax >= 0
    BY <1>1
  <2>2. Pennies(tax) \in Int /\ Pennies(tax) >= 0
    BY <2>1, PenniesOf
  <2>3. /\ Pennies(net) \in Int /\ Pennies(-net) = -Pennies(net)
        /\ (net >= 0 => Pennies(net) >= 0) /\ (net <= 0 => Pennies(net) <= 0)
    BY <1>1, PenniesOf
  <2> QED BY <2>2, <2>3
<1>3. Shown({}) = {}
  BY DEF Shown, Rounded
<1>4. Shown(CurrentEntry(in)) = CurrentPosting(in)
  <2>1. CASE tax > 0
    <3>1. CurrentEntry(in) = Pair("tax-expense-current", "tax-payable", tax)
      BY <2>1 DEF CurrentEntry, Pair, tax
    <3>2. Shown(CurrentEntry(in)) = IF Pennies(tax) = 0 THEN {}
                                    ELSE Pair("tax-expense-current", "tax-payable", Pennies(tax))
      BY <1>1, <3>1, ShownPair
    <3> QED BY <1>2, <3>2 DEF CurrentPosting, Posting, Pair, tax
  <2>2. CASE ~(tax > 0)
    <3>1. CurrentEntry(in) = {}
      BY <2>2, Zenon DEF CurrentEntry, tax
    <3>2. tax >= 0 /\ tax <= 0
      BY <1>1, <2>2
    <3>3. Pennies(tax) >= 0 /\ Pennies(tax) <= 0 /\ Pennies(tax) \in Int
      BY <1>1, <3>2, PenniesOf
    <3>4. ~(Pennies(tax) > 0) /\ ~(Pennies(tax) < 0)
      BY <3>3
    <3>5. CurrentPosting(in) = {}
      BY <3>4, Zenon DEF CurrentPosting, Posting, tax
    <3> QED BY <1>3, <3>1, <3>5
  <2> QED BY <2>1, <2>2
<1>5. Shown(DeferredEntry(in)) = DeferredPosting(in)
  <2>1. CASE net > 0
    <3>1. Closing(in, "DTL") > 0
      BY <1>1, <2>1
    <3>2. DeferredEntry(in) = Pair("tax-expense-deferred", "deferred-tax-liability", net)
      <4>1. DeferredEntry(in) = {Dr("tax-expense-deferred", net)} \cup {Cr("deferred-tax-liability", net)}
        <5>1. ~(net < 0)
          BY <1>1, <2>1
        <5> QED BY <2>1, <3>1, <5>1 DEF DeferredEntry, net
      <4> QED BY <4>1 DEF Pair
    <3>3. net \in Nat
      BY <1>1, <2>1
    <3>4. Shown(DeferredEntry(in)) = IF Pennies(net) = 0 THEN {}
                                     ELSE Pair("tax-expense-deferred", "deferred-tax-liability", Pennies(net))
      BY <3>2, <3>3, ShownPair
    <3>5. Pennies(net) >= 0
      BY <1>2, <2>1, <1>1
    <3> QED BY <1>2, <3>4, <3>5 DEF DeferredPosting, Posting, Pair, net
  <2>2. CASE net < 0
    <3>1. Closing(in, "DTA") > 0
      BY <1>1, <2>2
    <3>2. DeferredEntry(in) = Pair("deferred-tax-asset", "tax-expense-deferred", -net)
      <4>1. ~(net > 0)
        BY <1>1, <2>2
      <4>2. DeferredEntry(in) = {Cr("tax-expense-deferred", -net)} \cup {Dr("deferred-tax-asset", -net)}
        BY <2>2, <3>1, <4>1 DEF DeferredEntry, net
      <4> QED BY <4>2 DEF Pair
    <3>3. -net \in Nat
      BY <1>1, <2>2
    <3>4. Shown(DeferredEntry(in)) = IF Pennies(-net) = 0 THEN {}
                                     ELSE Pair("deferred-tax-asset", "tax-expense-deferred", Pennies(-net))
      BY <3>2, <3>3, ShownPair
    <3>5. Pennies(net) <= 0
      BY <1>2, <2>2, <1>1
    <3>6. CASE Pennies(net) < 0
      <4>1. Pennies(-net) # 0 /\ Pennies(-net) = -Pennies(net) /\ ~(Pennies(net) > 0)
        BY <1>2, <3>6
      <4>2. DeferredPosting(in) = Pair("deferred-tax-asset", "tax-expense-deferred", -Pennies(net))
        BY <3>6, <4>1, Zenon DEF DeferredPosting, Posting, Pair, net
      <4> QED BY <3>4, <4>1, <4>2
    <3>7. CASE ~(Pennies(net) < 0)
      <4>1. ~(Pennies(net) > 0) /\ Pennies(-net) = 0
        BY <1>2, <3>5, <3>7
      <4>2. DeferredPosting(in) = {}
        BY <3>7, <4>1, Zenon DEF DeferredPosting, Posting, net
      <4> QED BY <3>4, <4>1, <4>2
    <3> QED BY <3>6, <3>7
  <2>3. CASE ~(net > 0) /\ ~(net < 0)
    <3>1. DeferredEntry(in) = {}
      BY <2>3 DEF DeferredEntry, net
    <3>2. net >= 0 /\ net <= 0
      BY <1>1, <2>3
    <3>3. ~(Pennies(net) > 0) /\ ~(Pennies(net) < 0)
      BY <1>2, <3>2
    <3>4. DeferredPosting(in) = {}
      BY <3>3, Zenon DEF DeferredPosting, Posting, net
    <3> QED BY <1>3, <3>1, <3>4
  <2> QED BY <2>1, <2>2, <2>3
<1>6. EngineEntries(in) = {CurrentPosting(in), DeferredPosting(in)} \ {{}}
  BY <1>4, <1>5 DEF EngineEntries
<1>7. DerivedEntries(Columns(in)) = {CurrentPosting(in), DeferredPosting(in)} \ {{}}
  <2>1. Columns(in).current = Pennies(tax) /\ Columns(in).deferred = Pennies(net)
    BY DEF Columns, tax, net
  <2> QED BY <2>1, Zenon DEF DerivedEntries, CurrentPosting, DeferredPosting, tax, net
<1> QED BY <1>6, <1>7, Zenon DEF JournalExport

\* Each of the two, if it is not empty, is a posting; together they post what they
\* post one by one.
LEMMA PostingsSound ==
  ASSUME NEW in, InputTyped(in)
  PROVE  /\ \/ CurrentPosting(in) = {}
            \/ \E n \in Nat \ {0} :
                 CurrentPosting(in) = Pair("tax-expense-current", "tax-payable", n)
         /\ \/ DeferredPosting(in) = {}
            \/ \E n \in Nat \ {0} :
                 \/ DeferredPosting(in) = Pair("tax-expense-deferred", "deferred-tax-liability", n)
                 \/ DeferredPosting(in) = Pair("deferred-tax-asset", "tax-expense-deferred", n)
         /\ ToExpense(CurrentPosting(in)) = Pennies(CurrentTax(in))
         /\ ToPayable(CurrentPosting(in)) = Pennies(CurrentTax(in))
         /\ ToExpense(DeferredPosting(in)) = Pennies(DeferredTax(in))
         /\ ToPayable(DeferredPosting(in)) = 0
<1> DEFINE c == Pennies(CurrentTax(in))
           d == Pennies(DeferredTax(in))
           C == CurrentPosting(in)
           D == DeferredPosting(in)
<1>1. c \in Nat /\ d \in Int
  BY TaxTyped, PenniesOf
<1>2. ToExpense({}) = 0 /\ ToPayable({}) = 0
  <2> DEFINE e == [l \in {} |-> IF l.account \in {"tax-expense-current", "tax-expense-deferred"}
                                THEN l.debit - l.credit ELSE 0]
             p == [l \in {} |-> IF l.account = "tax-payable" THEN l.credit ELSE 0]
  <2>1. DOMAIN e = {} /\ e = [x \in {} |-> e[x]] /\ DOMAIN p = {} /\ p = [x \in {} |-> p[x]]
    OBVIOUS
  <2> HIDE DEF e, p
  <2>2. Total(e) = 0 /\ Total(p) = 0
    BY <2>1, TotalOfNone
  <2> QED BY <2>2 DEF ToExpense, ToPayable, e, p
<1>3. (c > 0 /\ C = Pair("tax-expense-current", "tax-payable", c)) \/ (c = 0 /\ C = {})
  <2>1. CASE c > 0
    BY <2>1, Zenon DEF CurrentPosting, Posting, Pair
  <2>2. CASE ~(c > 0)
    <3>1. ~(c < 0) /\ c = 0
      BY <1>1, <2>2
    <3>2. C = {}
      BY <2>2, <3>1, Zenon DEF CurrentPosting, Posting
    <3> QED BY <3>1, <3>2
  <2> QED BY <2>1, <2>2
<1>4. \/ d > 0 /\ D = Pair("tax-expense-deferred", "deferred-tax-liability", d)
      \/ d < 0 /\ D = Pair("deferred-tax-asset", "tax-expense-deferred", -d)
      \/ d = 0 /\ D = {}
  <2>1. CASE d > 0
    BY <2>1, Zenon DEF DeferredPosting, Posting, Pair
  <2>2. CASE d < 0
    <3>1. ~(d > 0)
      BY <1>1, <2>2
    <3> QED BY <2>2, <3>1, Zenon DEF DeferredPosting, Posting, Pair
  <2>3. CASE ~(d > 0) /\ ~(d < 0)
    <3>1. d = 0
      BY <1>1, <2>3
    <3>2. D = {}
      BY <2>3, Zenon DEF DeferredPosting, Posting
    <3> QED BY <3>1, <3>2
  <2> QED BY <2>1, <2>2, <2>3
<1> HIDE DEF c, d, C, D
<1>5. ToExpense(C) = c /\ ToPayable(C) = c
  <2>1. CASE c > 0 /\ C = Pair("tax-expense-current", "tax-payable", c)
    <3>1. /\ ToExpense(Pair("tax-expense-current", "tax-payable", c)) =
               Expensed("tax-expense-current", c) - Expensed("tax-payable", c)
          /\ ToPayable(Pair("tax-expense-current", "tax-payable", c)) =
               IF "tax-payable" = "tax-payable" THEN c ELSE 0
      BY <1>1, <2>1, PairBalances
    <3>2. ToExpense(C) = c - 0 /\ ToPayable(C) = c
      BY <2>1, <3>1 DEF Expensed
    <3> QED BY <1>1, <3>2
  <2> QED BY <1>2, <1>3, <2>1
<1>6. ToExpense(D) = d /\ ToPayable(D) = 0
  <2>1. CASE d > 0 /\ D = Pair("tax-expense-deferred", "deferred-tax-liability", d)
    <3>1. d \in Nat /\ d # 0
      BY <1>1, <2>1
    <3>2. /\ ToExpense(Pair("tax-expense-deferred", "deferred-tax-liability", d)) =
               Expensed("tax-expense-deferred", d) - Expensed("deferred-tax-liability", d)
          /\ ToPayable(Pair("tax-expense-deferred", "deferred-tax-liability", d)) =
               IF "deferred-tax-liability" = "tax-payable" THEN d ELSE 0
      BY <3>1, PairBalances
    <3>3. ToExpense(D) = d - 0 /\ ToPayable(D) = 0
      BY <2>1, <3>2 DEF Expensed
    <3> QED BY <1>1, <3>3
  <2>2. CASE d < 0 /\ D = Pair("deferred-tax-asset", "tax-expense-deferred", -d)
    <3>1. -d \in Nat /\ -d # 0
      BY <1>1, <2>2
    <3>2. /\ ToExpense(Pair("deferred-tax-asset", "tax-expense-deferred", -d)) =
               Expensed("deferred-tax-asset", -d) - Expensed("tax-expense-deferred", -d)
          /\ ToPayable(Pair("deferred-tax-asset", "tax-expense-deferred", -d)) =
               IF "tax-expense-deferred" = "tax-payable" THEN (-d) ELSE 0
      BY <3>1, PairBalances
    <3>3. ToExpense(D) = 0 - (-d) /\ ToPayable(D) = 0
      BY <2>2, <3>2 DEF Expensed
    <3> QED BY <1>1, <3>3
  <2> QED BY <1>2, <1>4, <2>1, <2>2
<1>7. C = {} \/ \E n \in Nat \ {0} : C = Pair("tax-expense-current", "tax-payable", n)
  BY <1>1, <1>3
<1>8. \/ D = {}
      \/ \E n \in Nat \ {0} : \/ D = Pair("tax-expense-deferred", "deferred-tax-liability", n)
                              \/ D = Pair("deferred-tax-asset", "tax-expense-deferred", n)
  <2>1. d < 0 => -d \in Nat \ {0}
    BY <1>1
  <2>2. d > 0 => d \in Nat \ {0}
    BY <1>1
  <2> QED BY <1>4, <2>1, <2>2
<1> QED BY <1>5, <1>6, <1>7, <1>8 DEF c, d, C, D

\* No entry at all balances too.
LEMMA NothingBalances == EntryBalances({})
<1> DEFINE e == [l \in {} |-> l.debit]
           p == [l \in {} |-> l.credit]
<1>1. DOMAIN e = {} /\ e = [x \in {} |-> e[x]] /\ DOMAIN p = {} /\ p = [x \in {} |-> p[x]]
  OBVIOUS
<1> HIDE DEF e, p
<1>2. Total(e) = 0 /\ Total(p) = 0
  BY <1>1, TotalOfNone
<1>3. IsFiniteSet({})
  BY FS_EmptySet
<1> QED BY <1>2, <1>3 DEF EntryBalances, e, p

\* Two entries without a line in common post together what they post one by one.
LEMMA PostTogether ==
  ASSUME NEW C, NEW D, EntryBalances(C), EntryBalances(D), C \cap D = {}
  PROVE  /\ ToExpense(C \cup D) = ToExpense(C) + ToExpense(D)
         /\ ToPayable(C \cup D) = ToPayable(C) + ToPayable(D)
<1> DEFINE S == C \cup D
           Out(l) == IF l.account \in {"tax-expense-current", "tax-expense-deferred"}
                     THEN l.debit - l.credit ELSE 0
           Owed(l) == IF l.account = "tax-payable" THEN l.credit ELSE 0
           f == [l \in S |-> Out(l)]
           g == [l \in S |-> Owed(l)]
<1>1. IsFiniteSet(S) /\ C \in SUBSET S /\ D \in SUBSET S /\ S \in SUBSET S
  <2>1. IsFiniteSet(C) /\ IsFiniteSet(D)
    BY DEF EntryBalances
  <2> QED BY <2>1, FS_Union
<1>2. f \in [S -> Int] /\ g \in [S -> Int]
  <2>1. \A l \in S : l.debit \in Nat /\ l.credit \in Nat
    BY DEF EntryBalances
  <2>2. \A l \in S : Out(l) \in Int /\ Owed(l) \in Int
    BY <2>1
  <2> HIDE DEF Out, Owed, S
  <2> QED BY <2>2
<1>3. \A P \in SUBSET S : Part(f, P) = [l \in P |-> Out(l)] /\ Part(g, P) = [l \in P |-> Owed(l)]
  <2> HIDE DEF Out, Owed
  <2> QED BY DEF Part
<1> HIDE DEF S, f, g
<1>4. \A P \in SUBSET S : ToExpense(P) = Total(Part(f, P)) /\ ToPayable(P) = Total(Part(g, P))
  <2>1. ASSUME NEW P \in SUBSET S PROVE ToExpense(P) = Total(Part(f, P))
    BY <1>3 DEF ToExpense
  <2>2. ASSUME NEW P \in SUBSET S PROVE ToPayable(P) = Total(Part(g, P))
    BY <1>3 DEF ToPayable
  <2> QED BY <2>1, <2>2
<1>5. Total(Part(f, C \cup D)) = Total(Part(f, C)) + Total(Part(f, D))
  BY <1>1, <1>2, TotalOfTwo
<1>6. Total(Part(g, C \cup D)) = Total(Part(g, C)) + Total(Part(g, D))
  BY <1>1, <1>2, TotalOfTwo
<1>7. C \cup D \in SUBSET S
  BY <1>1
<1> QED BY <1>1, <1>4, <1>5, <1>6, <1>7

\* The journals of a result: its entries balance, in themselves and as rows, and post
\* its taxes.
LEMMA JournalsSound ==
  ASSUME NEW in, InputTyped(in)
  PROVE  /\ \A e \in JournalExport(in) : EntryBalances(e) /\ RowsBalanceOf(e)
         /\ ToExpense(UNION JournalExport(in)) = Pennies(CurrentTax(in)) + Pennies(DeferredTax(in))
         /\ ToPayable(UNION JournalExport(in)) = Pennies(CurrentTax(in))
         /\ JournalExport(in) = DerivedEntries(Columns(in))
         /\ \A l \in UNION JournalExport(in) : l.debit \in Nat /\ l.credit \in Nat
<1> DEFINE C == CurrentPosting(in)
           D == DeferredPosting(in)
           J == JournalExport(in)
<1>1. J = {C, D} \ {{}} /\ J = DerivedEntries(Columns(in))
  BY EntriesAgree
<1>2. /\ C = {} \/ \E n \in Nat \ {0} : C = Pair("tax-expense-current", "tax-payable", n)
      /\ \/ D = {}
         \/ \E n \in Nat \ {0} : \/ D = Pair("tax-expense-deferred", "deferred-tax-liability", n)
                                 \/ D = Pair("deferred-tax-asset", "tax-expense-deferred", n)
  BY PostingsSound
<1>3. /\ ToExpense(C) = Pennies(CurrentTax(in)) /\ ToPayable(C) = Pennies(CurrentTax(in))
      /\ ToExpense(D) = Pennies(DeferredTax(in)) /\ ToPayable(D) = 0
  BY PostingsSound
<1>4. Pennies(CurrentTax(in)) \in Int
  BY TaxTyped, PenniesOf
<1> HIDE DEF C, D, J
<1>5. (C = {} \/ (EntryBalances(C) /\ RowsBalanceOf(C))) /\ (D = {} \/ (EntryBalances(D) /\ RowsBalanceOf(D)))
  <2> DEFINE Sound(e) == EntryBalances(e) /\ RowsBalanceOf(e)
  <2>1. ASSUME NEW n \in Nat, n # 0 PROVE Sound(Pair("tax-expense-current", "tax-payable", n))
    BY <2>1, PairBalances
  <2>2. ASSUME NEW n \in Nat, n # 0
        PROVE  Sound(Pair("tax-expense-deferred", "deferred-tax-liability", n))
    BY <2>2, PairBalances
  <2>3. ASSUME NEW n \in Nat, n # 0 PROVE Sound(Pair("deferred-tax-asset", "tax-expense-deferred", n))
    BY <2>3, PairBalances
  <2> QED BY <1>2, <2>1, <2>2, <2>3
<1>6. EntryBalances(C) /\ EntryBalances(D)
  BY <1>5, NothingBalances
<1>7. C \cap D = {}
  <2>1. \A l \in C : l.account \in {"tax-expense-current", "tax-payable"}
    BY <1>2 DEF Pair, Dr, Cr
  <2>2. \A l \in D : l.account \in {"tax-expense-deferred", "deferred-tax-liability", "deferred-tax-asset"}
    BY <1>2 DEF Pair, Dr, Cr
  <2> QED BY <2>1, <2>2
<1>8. UNION J = C \cup D
  BY <1>1
<1>9. ToExpense(UNION J) = ToExpense(C) + ToExpense(D) /\ ToPayable(UNION J) = ToPayable(C) + ToPayable(D)
  BY <1>6, <1>7, <1>8, PostTogether
<1>10. \A e \in J : EntryBalances(e) /\ RowsBalanceOf(e)
  BY <1>1, <1>5
<1>11. \A l \in UNION J : l.debit \in Nat /\ l.credit \in Nat
  BY <1>6, <1>8 DEF EntryBalances
<1> QED BY <1>1, <1>3, <1>4, <1>9, <1>10, <1>11 DEF J

\* So the journals of a result agree with it and with those of its columns.
LEMMA JournalsOfResult ==
  ASSUME NEW in, InputTyped(in)
  PROVE  JournalsBalance(in) /\ RowsBalance(in)
<1> DEFINE J == JournalExport(in)
           K == DerivedEntries(Columns(in))
<1>1. \A e \in J : Total([l \in e |-> l.debit]) = Total([l \in e |-> l.credit])
  BY JournalsSound DEF EntryBalances
<1>2. Near(ToExpense(UNION J), Columns(in).total)
  <2>1. CurrentTax(in) \in Int /\ DeferredTax(in) \in Int
    BY TaxTyped
  <2>2. Columns(in).total = Pennies(CurrentTax(in) + DeferredTax(in))
    BY DEF Columns, TotalTax
  <2> QED BY <2>1, <2>2, JournalsSound, PenniesOfSum
<1>3. \A l \in UNION J : Near(l.debit, l.debit) /\ Near(l.credit, l.credit)
  <2>1. \A l \in UNION J : l.debit \in Nat /\ l.credit \in Nat
    BY JournalsSound
  <2>2. \A n \in Nat : Near(n, n)
    BY DEF Near, Abs
  <2> QED BY <2>1, <2>2
<1>4. J = K
  BY JournalsSound
<1>5. ASSUME NEW l \in UNION J
      PROVE  \E k \in UNION K : k.account = l.account /\ Near(k.debit, l.debit) /\ Near(k.credit, l.credit)
  BY <1>3, <1>4
<1>6. JournalsBalance(in)
  <2> HIDE DEF J, K
  <2>1. Cardinality(K) = Cardinality(J)
    BY <1>4
  <2> QED BY <1>1, <1>2, <1>5, <2>1 DEF JournalsBalance, J, K
<1>7. RowsBalance(in)
  <2> SUFFICES ASSUME NEW format \in Formats, NEW e \in J
               PROVE  Total([r \in {CsvRow(format, l) : l \in e} |-> r.amount]) = 0
    BY DEF RowsBalance, JournalsToCsv
  <2>1. RowsBalanceOf(e)
    BY JournalsSound
  <2> QED BY <2>1 DEF RowsBalanceOf
<1> QED BY <1>6, <1>7

-----------------------------------------------------------------------------
(* The other documents of a result. *)

\* The workbook made from the detail and the one made from the columns are at one.
LEMMA WorkbooksOfResult ==
  ASSUME NEW in, InputTyped(in)
  PROVE  WorkbooksAgree(in)
<1> DEFINE full == Workbook(in, TRUE)
           package == Package(in, {}).files.workbook
           c == CurrentTax(in)
           d == DeferredTax(in)
           Same(x, y) == Abs(x - y) <= 10
<1>1. /\ c \in Int /\ d \in Int /\ d = Closing(in, "DTL") - Closing(in, "DTA") /\ TotalTax(in) = c + d
      /\ Closing(in, "DTL") \in Int /\ Closing(in, "DTA") \in Int
  BY TaxTyped
<1>2. /\ Pennies(c) \in Int /\ -5 <= 10 * Pennies(c) - c /\ 10 * Pennies(c) - c <= 5
      /\ Pennies(d) \in Int /\ -5 <= 10 * Pennies(d) - d /\ 10 * Pennies(d) - d <= 5
      /\ Pennies(c + d) \in Int /\ -5 <= 10 * Pennies(c + d) - (c + d)
      /\ 10 * Pennies(c + d) - (c + d) <= 5
  <2>1. c + d \in Int
    BY <1>1
  <2> QED BY <1>1, <2>1, PenniesOf
<1>3. SummaryTab(in) = [current |-> 10 * Pennies(c), deferred |-> 10 * Pennies(d), total |-> 10 * Pennies(c + d)]
  BY <1>1 DEF SummaryTab, Columns, Mills
<1>4. package = Workbook(in, FALSE)
  BY DEF Package, Hashed
<1>5. package.current.payable = 10 * Pennies(c)
  BY <1>3, <1>4 DEF Workbook, CurrentTaxTab
<1>6. full.current.payable = c /\ full.current.expense = c
  BY DEF Workbook, CurrentTaxTab
<1>7. package.deferred.DTL - package.deferred.DTA = 10 * Pennies(d)
  <2>1. package.deferred = [DTA |-> NonNegative(-(10 * Pennies(d))), DTL |-> NonNegative(10 * Pennies(d)),
                            net |-> 10 * Pennies(d)]
    BY <1>3, <1>4 DEF Workbook, DeferredTaxTab
  <2>2. \A x \in Int : NonNegative(x) - NonNegative(-x) = x
    BY DEF NonNegative
  <2>3. 10 * Pennies(d) \in Int
    BY <1>2
  <2> QED BY <2>1, <2>2, <2>3
<1>8. \/ full.deferred.DTL - full.deferred.DTA = d /\ full.deferred.net = d
      \/ full.deferred.DTL - full.deferred.DTA = 10 * Pennies(d) /\ full.deferred.net = 10 * Pennies(d)
  <2>1. CASE DOMAIN in.temporary # {}
    <3>1. full.deferred = [DTA |-> Closing(in, "DTA"), DTL |-> Closing(in, "DTL"), net |-> d]
      BY <2>1 DEF Workbook, DeferredTaxTab
    <3>2. full.deferred.DTL - full.deferred.DTA = d /\ full.deferred.net = d
      <4> HIDE DEF full, d
      <4> QED BY <1>1, <3>1
    <3> QED BY <3>2
  <2>2. CASE ~(DOMAIN in.temporary # {})
    <3>1. full.deferred = [DTA |-> NonNegative(-(10 * Pennies(d))), DTL |-> NonNegative(10 * Pennies(d)),
                           net |-> 10 * Pennies(d)]
      BY <1>3, <2>2 DEF Workbook, DeferredTaxTab
    <3>2. \A x \in Int : NonNegative(x) - NonNegative(-x) = x
      BY DEF NonNegative
    <3>3. 10 * Pennies(d) \in Int
      BY <1>2
    <3>4. full.deferred.DTL - full.deferred.DTA = 10 * Pennies(d) /\ full.deferred.net = 10 * Pennies(d)
      <4> HIDE DEF full, d
      <4> QED BY <3>1, <3>2, <3>3
    <3> QED BY <3>4
  <2> QED BY <2>1, <2>2
<1>9. full.summary.total = 10 * Pennies(c + d)
  BY <1>3 DEF Workbook
<1>10. full.etr.statutory = package.etr.statutory
  BY <1>4 DEF Workbook, EtrTab
<1> HIDE DEF full, package, c, d
<1>11. Same(full.current.payable, package.current.payable)
  BY <1>1, <1>2, <1>5, <1>6 DEF Abs
<1>12. Same(full.deferred.DTL - full.deferred.DTA, package.deferred.DTL - package.deferred.DTA)
  BY <1>1, <1>2, <1>7, <1>8 DEF Abs
<1>13. Same(full.summary.total, full.current.expense + full.deferred.net)
  BY <1>1, <1>2, <1>6, <1>8, <1>9 DEF Abs
<1>14. BooksAgree(full, package)
  BY <1>10, <1>11, <1>12, <1>13 DEF BooksAgree
<1> QED BY <1>14 DEF WorkbooksAgree, full, package

\* The boxes of the handoff have the charge of the result, in its band.
LEMMA HandoffCharge ==
  ASSUME NEW in, InputTyped(in), in.uk
  PROVE  LET b == HandoffBoxes(in)
             p == Taxable(in)
             charge == Pennies(CurrentTax(in))
         IN  /\ b.b15 = charge /\ b.b22 = charge
             /\ (b.b12 = 0) <=> (p <= SmallLimit)
             /\ b.b14 = IF SmallLimit < p /\ p < UpperLimit THEN NonNegative(25 * p - charge) ELSE 0
<1> DEFINE p == Taxable(in)
           charge == Pennies(CurrentTax(in))
<1>1. p \in Nat
  BY TaxableTyped
<1>2. FederalTax(in) = UkTax(p) /\ CurrentTax(in) = UkTax(p)
  BY TaxTyped, Zenon
<1>3. charge = Pennies(UkTax(p)) /\ charge = Pennies(FederalTax(in))
  BY <1>2, Zenon
<1> HIDE DEF p, charge
<1>4. CASE p <= SmallLimit
  <2>1. charge = 19 * p
    BY <1>1, <1>3, <1>4 DEF Pennies, UkTax, MarginalRelief, SmallLimit, UpperLimit
  <2>2. HandoffBoxes(in) = Boxes(100 * p, 0, charge, 0)
    BY <1>3, <1>4 DEF HandoffBoxes, p
  <2> QED BY <1>1, <1>4, <2>1, <2>2 DEF Boxes, NonNegative, SmallLimit, UpperLimit, p, charge
<1>5. CASE SmallLimit < p /\ p < UpperLimit
  <2>1. UkTax(p) = 265 * p - 3750000 /\ UkTax(p) >= 0
    BY <1>1, <1>5 DEF UkTax, MarginalRelief, SmallLimit, UpperLimit
  <2>2. charge = (265 * p - 3749995) \div 10
    BY <1>1, <1>3, <2>1 DEF Pennies
  <2>3. charge \in Nat /\ charge <= 25 * p
    BY <1>1, <1>5, <2>2 DEF SmallLimit, UpperLimit
  <2>4. HandoffBoxes(in) = Boxes(100 * p, 25 * p, 0, NonNegative(25 * p - charge))
    BY <1>1, <1>3, <1>5 DEF HandoffBoxes, p, SmallLimit, UpperLimit
  <2>5. NonNegative(25 * p + 0 - NonNegative(25 * p - charge)) = charge /\ 25 * p # 0 /\ ~(p <= SmallLimit)
    BY <1>1, <1>5, <2>3 DEF NonNegative, SmallLimit, UpperLimit
  <2> QED BY <1>5, <2>4, <2>5 DEF Boxes, p, charge
<1>6. CASE p >= UpperLimit
  <2>1. charge = 25 * p
    BY <1>1, <1>3, <1>6 DEF Pennies, UkTax, MarginalRelief, SmallLimit, UpperLimit
  <2>2. HandoffBoxes(in) = Boxes(100 * p, charge, 0, 0)
    BY <1>1, <1>3, <1>6 DEF HandoffBoxes, p, SmallLimit, UpperLimit
  <2>3. NonNegative(charge + 0 - 0) = charge /\ charge # 0 /\ ~(p <= SmallLimit) /\ ~(p < UpperLimit)
    BY <1>1, <1>6, <2>1 DEF NonNegative, SmallLimit, UpperLimit
  <2> QED BY <2>2, <2>3 DEF Boxes, p, charge
<1> QED BY <1>1, <1>4, <1>5, <1>6 DEF SmallLimit, UpperLimit

\* A British result has one charge, whichever document it is read from.
LEMMA ChargesOfResult ==
  ASSUME NEW in, InputTyped(in), in.uk
  PROVE  ChargesAgree(in)
<1> DEFINE charge == Pennies(CurrentTax(in))
           boxes == ResultsBoxes(in)
<1>1. charge \in Nat
  BY TaxTyped, PenniesOf
<1>2. CurrentTax(in) = FederalTax(in)
  BY TaxTyped, Zenon
<1>3. Columns(in).current = charge
  BY DEF Columns
<1>4. boxes.b22 = charge
  <2>1. NonNegative(charge + 0 - 0) = charge
    BY <1>1 DEF NonNegative
  <2> QED BY <1>3, <2>1 DEF ResultsBoxes, Boxes
<1>5. HandoffBoxes(in).b22 = charge
  BY HandoffCharge
<1>6. Submission(in).charge = charge /\ Submission(in).payable = charge
  BY <1>2, <1>3 DEF Submission
<1>7. MtdAmounts(boxes).due = charge
  BY <1>4 DEF MtdAmounts
<1>8. Pennies(CurrentTaxTab(in, TRUE).payable) = charge
  BY DEF CurrentTaxTab
<1>9. ToPayable(UNION JournalExport(in)) = charge
  BY JournalsSound
<1>10. Near(charge, charge)
  BY <1>1 DEF Near, Abs
<1> HIDE DEF charge, boxes
<1> QED BY <1>4, <1>5, <1>6, <1>7, <1>8, <1>9, <1>10 DEF ChargesAgree, boxes

\* The package of a handoff is at one with itself.
LEMMA PackageOfResult ==
  ASSUME NEW in, InputTyped(in), in.uk
  PROVE  PackageCoherent(in)
<1> DEFINE package == HandoffPackage(in)
           boxes == HandoffBoxes(in)
           columns == Columns(in)
           charge == Pennies(CurrentTax(in))
           p == Taxable(in)
<1>1. /\ package.files.schedule.timing = in.temporary /\ package.files.bridge.total = columns.total
      /\ package.files.calculation.current = CurrentTax(in)
      /\ package.files.calculation.net = DeferredTax(in)
  BY DEF HandoffPackage, DeferredSchedule, EtrBridge, Detail
<1>2. package.band = BandSummary(in) /\ package.excluded = ~IxbrlValid(in)
      /\ package.ixbrl = IF IxbrlValid(in) THEN IxbrlFacts(in) ELSE {}
  BY Zenon DEF HandoffPackage
<1>3. /\ boxes.b15 = charge /\ ((boxes.b12 = 0) <=> (p <= SmallLimit))
      /\ boxes.b14 = IF SmallLimit < p /\ p < UpperLimit THEN NonNegative(25 * p - charge) ELSE 0
  BY HandoffCharge
<1>4. Pennies(Detail(in).federal) = charge
  <2>1. CurrentTax(in) = FederalTax(in)
    BY TaxTyped, Zenon
  <2> QED BY <2>1 DEF Detail
<1>5. p \in Nat
  BY TaxableTyped
<1>6. DeferredTax(in) \in Int /\ Pennies(DeferredTax(in)) \in Int
  BY TaxTyped, PenniesOf
<1>7. Near(Pennies(Explained(in.temporary, in.rate)), columns.deferred)
  <2>1. Explained(in.temporary, in.rate) = DeferredTax(in)
    BY DEF Explained, DeferredTax, Closing
  <2>2. columns.deferred = Pennies(DeferredTax(in))
    BY DEF Columns
  <2>3. \A n \in Int : Near(n, n)
    BY DEF Near, Abs
  <2> QED BY <1>6, <2>1, <2>2, <2>3
<1>8. columns.total = Pennies(CurrentTax(in) + DeferredTax(in))
  BY DEF Columns, TotalTax
<1> HIDE DEF package, boxes, columns, charge, p
<1>9. /\ package.band.charge = boxes.b15 /\ package.band.relief = boxes.b14
      /\ (package.band.band = "small_profits") <=> (boxes.b12 = 0)
  <2>1. CASE p <= SmallLimit
    <3>1. ~(SmallLimit < p /\ p < UpperLimit)
      BY <1>5, <2>1 DEF SmallLimit
    <3>2. BandSummary(in) = [band |-> "small_profits", charge |-> charge, relief |-> 0]
      BY <1>4, <2>1, <3>1 DEF BandSummary, p
    <3> QED BY <1>2, <1>3, <2>1, <3>1, <3>2
  <2>2. CASE SmallLimit < p /\ p < UpperLimit
    <3>1. ~(p <= SmallLimit)
      BY <1>5, <2>2 DEF SmallLimit
    <3>2. BandSummary(in) = [band |-> "marginal_relief", charge |-> charge, relief |-> NonNegative(25 * p - charge)]
      BY <1>4, <2>2, <3>1 DEF BandSummary, p
    <3> QED BY <1>2, <1>3, <2>2, <3>1, <3>2
  <2>3. CASE ~(p <= SmallLimit) /\ ~(SmallLimit < p /\ p < UpperLimit)
    <3>1. BandSummary(in) = [band |-> "main_rate", charge |-> charge, relief |-> 0]
      BY <1>4, <2>3 DEF BandSummary, p
    <3> QED BY <1>2, <1>3, <2>3, <3>1
  <2> QED BY <2>1, <2>2, <2>3
<1>10. package.excluded <=> package.ixbrl = {}
  BY <1>2, Zenon DEF IxbrlValid
<1>11. Coherent(package, boxes, columns, in.rate)
  BY <1>1, <1>7, <1>8, <1>9, <1>10 DEF Coherent
<1> QED BY <1>11 DEF PackageCoherent, package, boxes, columns

\* The two returns, and the tax that the package's workbook states, by band.
LEMMA SplitByBand ==
  ASSUME NEW in, InputTyped(in), in.uk
  PROVE  LET p == Taxable(in) IN
         /\ (ResultsBoxes(in) = HandoffBoxes(in)) <=> MainRate(in)
         /\ BandAligned(ResultsBoxes(in)) <=> MainRate(in)
         /\ (250 * p = FederalTax(in)) <=> MainRate(in)
         /\ (BandSummary(in).relief = 0) <=> (p <= SmallLimit \/ MainRate(in))
<1> DEFINE p == Taxable(in)
           charge == Pennies(CurrentTax(in))
           results == ResultsBoxes(in)
           handoff == HandoffBoxes(in)
<1>1. p \in Nat
  BY TaxableTyped
<1>2. FederalTax(in) = UkTax(p) /\ CurrentTax(in) = UkTax(p)
  BY TaxTyped, Zenon
<1>3. charge = Pennies(UkTax(p)) /\ charge = Pennies(FederalTax(in)) /\ Pennies(Detail(in).federal) = charge
  BY <1>2, Zenon DEF Detail
<1>4. results = Boxes(100 * p, charge, 0, 0)
  BY DEF ResultsBoxes, Columns
<1>5. MainRate(in) <=> (p = 0 \/ p >= UpperLimit)
  BY DEF MainRate
<1>6. /\ results.b5 = 100 * p /\ results.b12 = charge /\ results.b13 = 0 /\ results.b14 = 0
  BY <1>4 DEF Boxes
<1> HIDE DEF p, charge, results, handoff
<1>7. CASE p <= SmallLimit
  <2>1. UkTax(p) = 190 * p /\ charge = 19 * p
    BY <1>1, <1>3, <1>7 DEF Pennies, UkTax, MarginalRelief, SmallLimit, UpperLimit
  <2>2. handoff = Boxes(100 * p, 0, charge, 0)
    BY <1>3, <1>7 DEF HandoffBoxes, p, handoff
  <2>3. MainRate(in) <=> p = 0
    BY <1>1, <1>5, <1>7 DEF SmallLimit, UpperLimit
  <2>4. (results = handoff) <=> p = 0
    <3>1. handoff.b12 = 0
      BY <2>2 DEF Boxes
    <3>2. ASSUME p = 0 PROVE results = handoff
      <4>1. charge = 0
        BY <2>1, <3>2
      <4> QED BY <1>4, <2>2, <3>2, <4>1, Zenon
    <3> QED BY <1>1, <1>6, <2>1, <3>1, <3>2
  <2>5. BandAligned(results) <=> p = 0
    <3>1. (19 * (100 * p) + 50) \div 100 = 19 * p
      BY <1>1
    <3>2. NearPercent(0, 19, 100 * p) <=> p = 0
      BY <1>1, <3>1 DEF NearPercent, Near, Abs
    <3>3. 100 * p <= 100 * SmallLimit
      BY <1>1, <1>7 DEF SmallLimit
    <3>4. BandAligned(results) <=> (NearPercent(0, 19, 100 * p) /\ charge = 0)
      BY <1>6, <3>3 DEF BandAligned
    <3> QED BY <1>1, <2>1, <3>2, <3>4
  <2>6. BandSummary(in).relief = 0
    <3>1. ~(SmallLimit < p /\ p < UpperLimit)
      BY <1>1, <1>7 DEF SmallLimit
    <3>2. BandSummary(in) = [band |-> "small_profits", charge |-> charge, relief |-> 0]
      BY <1>3, <1>7, <3>1 DEF BandSummary, p
    <3> QED BY <3>2
  <2> QED BY <1>1, <1>2, <1>7, <2>1, <2>3, <2>4, <2>5, <2>6 DEF p, results, handoff
<1>8. CASE SmallLimit < p /\ p < UpperLimit
  <2>1. UkTax(p) = 265 * p - 3750000 /\ UkTax(p) >= 0
    BY <1>1, <1>8 DEF UkTax, MarginalRelief, SmallLimit, UpperLimit
  <2>2. charge = (265 * p - 3749995) \div 10
    BY <1>1, <1>3, <2>1 DEF Pennies
  <2>3. charge \in Nat /\ charge < 25 * p
    BY <1>1, <1>8, <2>2 DEF SmallLimit, UpperLimit
  <2>4. handoff = Boxes(100 * p, 25 * p, 0, NonNegative(25 * p - charge))
    BY <1>1, <1>3, <1>8 DEF HandoffBoxes, p, SmallLimit, UpperLimit, handoff
  <2>5. ~MainRate(in) /\ ~(p <= SmallLimit)
    BY <1>1, <1>5, <1>8 DEF SmallLimit, UpperLimit
  <2>6. results # handoff
    <3>1. handoff.b12 = 25 * p
      BY <2>4 DEF Boxes
    <3> QED BY <1>1, <1>6, <2>3, <3>1
  <2>7. ~BandAligned(results)
    <3>1. (15 * (100 * UpperLimit - 100 * p) + 500) \div 1000 >= 2
      BY <1>1, <1>8 DEF UpperLimit
    <3>2. ~Near(0, (15 * (100 * UpperLimit - 100 * p) + 500) \div 1000)
      BY <1>1, <3>1 DEF Near, Abs, UpperLimit
    <3>3. ~(100 * p <= 100 * SmallLimit) /\ ~(100 * p >= 100 * UpperLimit)
      BY <1>1, <1>8 DEF SmallLimit, UpperLimit
    <3> QED BY <1>6, <3>2, <3>3 DEF BandAligned
  <2>8. BandSummary(in).relief # 0
    <3>1. BandSummary(in).relief = NonNegative(25 * p - charge)
      BY <1>3, <1>8, <2>5 DEF BandSummary, p
    <3> QED BY <1>1, <2>3, <3>1 DEF NonNegative
  <2>9. 250 * p # FederalTax(in)
    BY <1>1, <1>2, <1>8, <2>1 DEF UpperLimit
  <2> QED BY <2>5, <2>6, <2>7, <2>8, <2>9 DEF p, results, handoff
<1>9. CASE p >= UpperLimit
  <2>1. UkTax(p) = 250 * p /\ charge = 25 * p
    BY <1>1, <1>3, <1>9 DEF Pennies, UkTax, MarginalRelief, SmallLimit, UpperLimit
  <2>2. ~(p <= SmallLimit) /\ ~(p < UpperLimit) /\ MainRate(in)
    BY <1>1, <1>5, <1>9 DEF SmallLimit, UpperLimit
  <2>3. results = handoff
    BY <1>3, <1>4, <2>2 DEF HandoffBoxes, p, handoff
  <2>4. BandAligned(results)
    <3>1. (25 * (100 * p) + 50) \div 100 = 25 * p
      BY <1>1
    <3>2. NearPercent(charge, 25, 100 * p)
      BY <1>1, <2>1, <3>1 DEF NearPercent, Near, Abs
    <3>3. ~(100 * p <= 100 * SmallLimit) /\ 100 * p >= 100 * UpperLimit
      BY <1>1, <1>9 DEF SmallLimit, UpperLimit
    <3> QED BY <1>6, <3>2, <3>3 DEF BandAligned
  <2>5. BandSummary(in).relief = 0
    BY <2>2 DEF BandSummary, p
  <2> QED BY <1>2, <2>1, <2>2, <2>3, <2>4, <2>5 DEF p, results, handoff
<1> QED BY <1>1, <1>7, <1>8, <1>9 DEF SmallLimit, UpperLimit

\* What the exports state differently agrees for the results AgreeAtMainRate names.
LEMMA AgreementOfResult ==
  ASSUME NEW in, InputTyped(in), in.uk
  PROVE  AgreeAtMainRate(in)
<1>1. /\ (ResultsBoxes(in) = HandoffBoxes(in)) <=> MainRate(in)
      /\ BandAligned(ResultsBoxes(in)) <=> MainRate(in)
      /\ (BandSummary(in).relief = 0) <=> (Taxable(in) <= SmallLimit \/ MainRate(in))
  BY SplitByBand, Zenon
<1>2. ASSUME in.rate = 25, in.book >= 0, Total(in.permanent) = 0
      PROVE  (CurrentTaxTab(in, FALSE).federal = CurrentTaxTab(in, TRUE).federal) <=> MainRate(in)
  <2>1. in.book \in Int
    BY PermanentTyped DEF InputTyped
  <2>2. Taxable(in) = in.book
    BY <1>2, <2>1 DEF Taxable, NonNegative
  <2>3. CurrentTaxTab(in, FALSE).federal = 250 * Taxable(in)
    <3>1. CurrentTaxTab(in, FALSE).federal = 10 * in.rate * in.book
      BY Zenon DEF CurrentTaxTab
    <3>2. \A n \in Int : 10 * 25 * n = 250 * n
      OBVIOUS
    <3>3. 10 * 25 * in.book = 250 * in.book
      BY <2>1, <3>2, Zenon
    <3> QED BY <1>2, <2>2, <3>1, <3>3, Zenon
  <2>4. CurrentTaxTab(in, TRUE).federal = FederalTax(in)
    BY DEF CurrentTaxTab
  <2>5. (250 * Taxable(in) = FederalTax(in)) <=> MainRate(in)
    BY SplitByBand, Zenon
  <2> QED BY <2>3, <2>4, <2>5, Zenon
<1>3. (EtrBridge(in).relief = BandSummary(in).relief) <=> (Taxable(in) <= SmallLimit \/ MainRate(in))
  <2>1. EtrBridge(in).relief = 0
    BY DEF EtrBridge
  <2>2. (EtrBridge(in).relief = BandSummary(in).relief) <=> (BandSummary(in).relief = 0)
    BY <2>1, Zenon
  <2> QED BY <1>1, <2>2, Zenon
<1>4. (DeferredSchedule(in).expense = Columns(in).deferred)
        <=> Abs(Explained(DeferredSchedule(in).timing, in.rate)) < 5
  <2>1. DeferredSchedule(in).expense = 0 /\ DeferredSchedule(in).timing = in.temporary
    BY DEF DeferredSchedule, Detail
  <2>2. Explained(in.temporary, in.rate) = DeferredTax(in)
    BY DEF Explained, DeferredTax, Closing
  <2>3. Columns(in).deferred = Pennies(DeferredTax(in))
    BY DEF Columns
  <2>4. \A x \in Int : (Pennies(x) = 0) <=> Abs(x) < 5
    BY DEF Pennies, Abs
  <2>5. DeferredTax(in) \in Int
    BY TaxTyped
  <2>6. (Pennies(DeferredTax(in)) = 0) <=> Abs(DeferredTax(in)) < 5
    BY <2>4, <2>5
  <2>7. (0 = Columns(in).deferred) <=> Abs(Explained(in.temporary, in.rate)) < 5
    BY <2>2, <2>3, <2>6, Zenon
  <2> QED BY <2>1, <2>7, Zenon
<1> QED BY <1>1, <1>2, <1>3, <1>4, Zenon DEF AgreeAtMainRate

\* A claim for amounts that are not negative is bounded.
LEMMA ClaimOfResult ==
  ASSUME NEW in, NEW ask \in Claims
  PROVE  ClaimBounded(in, ask)
<1> DEFINE spend == ask.spend
           enhanced == Enhanced(ask) \div 100
<1>1. spend \in Nat /\ ask.paye \in Nat
  BY TaxAssumption
<1>2. enhanced \in Nat /\ 50 * enhanced <= 93 * spend
  BY <1>1 DEF Enhanced
<1> HIDE DEF enhanced
<1>3. PayeCap(ask) \in Nat
  BY <1>1 DEF PayeCap
<1>4. Surrender(ask) \in Nat /\ Surrender(ask) <= 27 * enhanced /\ Surrender(ask) <= PayeCap(ask)
  <2>1. Surrender(ask) \in {27 * enhanced, 10 * enhanced, PayeCap(ask)}
    BY Zenon DEF Surrender, enhanced
  <2> QED BY <1>2, <1>3 DEF Surrender, enhanced
<1>5. RdScheme(ask) \in {"sme", "rdec"}
  BY DEF RdScheme
<1>6. CASE RdScheme(ask) = "rdec"
  <2>1. RdClaim(in, ask) = [b27 |-> 20 * spend, b28 |-> 0, benefit |-> (3 * (20 * spend)) \div 4]
    BY <1>6 DEF RdClaim
  <2> QED BY <1>1, <1>3, <2>1 DEF ClaimBounded
<1>7. CASE RdScheme(ask) = "sme" /\ in.book <= 0
  <2>1. RdClaim(in, ask) = [b27 |-> 0, b28 |-> Surrender(ask), benefit |-> Surrender(ask)]
    BY <1>7 DEF RdClaim
  <2> QED BY <1>1, <1>2, <1>4, <2>1 DEF ClaimBounded
<1>8. CASE RdScheme(ask) # "rdec" /\ ~(RdScheme(ask) = "sme" /\ in.book <= 0)
  <2>1. RdClaim(in, ask) = [b27 |-> 0, b28 |-> 0, benefit |-> 19 * enhanced]
    BY <1>8 DEF RdClaim, enhanced
  <2> QED BY <1>1, <1>2, <1>3, <2>1 DEF ClaimBounded
<1> QED BY <1>6, <1>7, <1>8

\* The charge, the deferred tax and the total of a result are the same, to a penny, in its
\* journals, workbooks, returns, XML and manifest; what the exports split or restate
\* otherwise agrees for exactly the results that AgreeAtMainRate names.
THEOREM ExportsAlwaysReconcile == TaxSpec => []ExportsReconcile
<1>1. TaxInv => ExportsReconcile
  <2> SUFFICES ASSUME TaxInv PROVE ExportsReconcile
    OBVIOUS
  <2>1. ReadyIsFileable(company.id)
    <3>1. company.id # ""
      BY TaxAssumption DEF TaxInv
    <3> QED BY <3>1 DEF ReadyIsFileable, Eligible, Accepted
  <2>2. ASSUME NEW r \in runs
        PROVE  JournalsBalance(r.input) /\ RowsBalance(r.input) /\ WorkbooksAgree(r.input)
    <3>1. InputTyped(r.input)
      BY RunInputTyped
    <3> QED BY <3>1, JournalsOfResult, WorkbooksOfResult
  <2>3. ASSUME NEW r \in runs, r.input.uk PROVE ChargesAgree(r.input) /\ PackageCoherent(r.input) /\ AgreeAtMainRate(r.input)
    <3>1. InputTyped(r.input)
      BY RunInputTyped
    <3> QED BY <2>3, <3>1, ChargesOfResult, PackageOfResult, AgreementOfResult, Zenon
  <2>4. \A r \in runs, ask \in Claims : ClaimBounded(r.input, ask)
    BY ClaimOfResult
  <2> QED BY <2>1, <2>2, <2>3, <2>4, Zenon DEF ExportsReconcile
<1> QED BY <1>1, TaxInvariance, PTL
=============================================================================
