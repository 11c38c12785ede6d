------------------------ MODULE WorkbenchJobsProofs ------------------------
(***************************************************************************)
(* Proofs about WorkbenchJobs for any number of keys, documents, accounts, *)
(* connections and rows.  That a calculation misses rows only for a        *)
(* recorded reason rests on what the running imports have still to write:  *)
(* one that has passed over no row has written, or will write, each of its *)
(* document's; and on a key being the work of one connection, so that what *)
(* is recorded for it is never overwritten.                                *)
(***************************************************************************)
EXTENDS WorkbenchJobs, TLAPS

StepsOf == {"account", "row"} \X Accounts

\* What a transaction can be, as TypeOK has it.
TxRows ==
  [op : {"none", "import", "calculate"}, phase : {"none", "key", "work", "loaded"},
   key : Keys \cup {NoKey}, doc : Docs \cup {NoDoc}, todo : Seq(StepsOf), short : BOOLEAN,
   seen : SUBSET Accounts, made : SUBSET Accounts, written : SUBSET Accounts]

\* A transaction that holds its key.
Works(t) == t.phase \in {"work", "loaded"}

\* The accounts whose rows an import has still to go through.
Rest(t) == {a \in Accounts : \E i \in DOMAIN t.todo : t.todo[i] = <<"row", a>>}

\* A reason on record why some rows of a document are not its own.
Explained(d) ==
  \/ Imported(d, TRUE)
  \/ \E e \in Docs \ {d} : RowsOf(e) \cap RowsOf(d) # {} /\ (Imported(e, FALSE) \/ Imported(e, TRUE))

\* What a transaction asks for, and that its key has no result when it has the key.
TxSound(t) ==
  /\ t.phase = "none" => t = NoTx
  /\ t # NoTx => t.op \in {"import", "calculate"} /\ t.key \in Keys /\ t.doc \in Docs
  /\ t.phase = "key" => t.written = {}
  /\ t.phase = "loaded" => t.op = "calculate"
  /\ Works(t) => job[t.key] = NoJob

\* An import writes rows of its document, and passes over none in silence.
ImportSound(t) ==
  t.op = "import" /\ t.phase = "work" =>
    /\ t.written \cup Rest(t) \subseteq RowsOf(t.doc)
    /\ ~t.short => RowsOf(t.doc) \subseteq t.written \cup Rest(t)

\* A calculation has read rows, all of its document or with a reason.
LoadSound(t) ==
  t.phase = "loaded" =>
    /\ t.seen # {}
    /\ t.seen # RowsOf(t.doc) => Explained(t.doc)

Sound(t) == TxSound(t) /\ ImportSound(t) /\ LoadSound(t)

\* The rows of each document in trial_balance.
TableSound(d) ==
  /\ Read(d) \subseteq RowsOf(d)
  /\ Read(d) # {} /\ Read(d) # RowsOf(d) => Explained(d)

\* A key is the work of one connection.
KeysHeldOnce ==
  \A c, d \in Sessions : Works(tx[c]) /\ Works(tx[d]) /\ tx[c].key = tx[d].key => c = d

JobsInv ==
  /\ PartialInputExplained
  /\ KeysHeldOnce
  /\ \A c \in Sessions : Sound(tx[c])
  /\ \A d \in Docs : TableSound(d)

-----------------------------------------------------------------------------
(* The parts of the invariant. *)

\* Transactions have their type and are sound.
LEMMA JobsTyped ==
  ASSUME JobsInv
  PROVE  /\ TypeOK /\ tx \in [Sessions -> TxRows]
         /\ \A c \in Sessions : tx[c] \in TxRows /\ Sound(tx[c])
<1>1. TypeOK
  BY DEF JobsInv, PartialInputExplained
<1>2. tx \in [Sessions -> TxRows]
  BY <1>1 DEF TypeOK, TxRows, StepsOf
<1> QED
  BY <1>1, <1>2 DEF JobsInv

\* The property, in terms of the reasons on record.
LEMMA RunsExplained ==
  PartialInputExplained <=> TypeOK /\ \A r \in runs : r.rows # RowsOf(r.doc) => Explained(r.doc)
BY DEF PartialInputExplained, Explained

\* A connection without a transaction holds no key.
LEMMA NoTxSound == NoTx \in TxRows /\ Sound(NoTx) /\ ~Works(NoTx)
<1>1. <<>> \in Seq(StepsOf)
  OBVIOUS
<1> QED
  BY <1>1 DEF NoTx, TxRows, Sound, TxSound, ImportSound, LoadSound, Works

\* The items of two sequences in a row.
LEMMA Concatenation ==
  ASSUME NEW S, NEW s \in Seq(S), NEW t \in Seq(S)
  PROVE  /\ s \o t \in Seq(S) /\ DOMAIN (s \o t) = 1 .. Len(s) + Len(t)
         /\ \A i \in 1 .. Len(s) : (s \o t)[i] = s[i]
         /\ \A i \in 1 .. Len(t) : (s \o t)[Len(s) + i] = t[i]
<1>1. s \o t \in Seq(S) /\ Len(s \o t) = Len(s) + Len(t) /\ Len(s) \in Nat /\ Len(t) \in Nat
  OBVIOUS
<1>2. \A i \in 1 .. Len(s) : (s \o t)[i] = s[i]
  OBVIOUS
<1>3. \A i \in 1 .. Len(t) : (s \o t)[Len(s) + i] = t[i]
  OBVIOUS
<1> QED
  BY <1>1, <1>2, <1>3

\* The rows an import sends are accounts, each named by a step.
LEMMA StepsTyped ==
  ASSUME NEW d \in Docs
  PROVE  /\ Steps(d) \in Seq(StepsOf)
         /\ RowsOf(d) = {a \in Accounts : \E i \in DOMAIN Steps(d) : Steps(d)[i] = <<"row", a>>}
<1> DEFINE first  == [i \in DOMAIN Rows[d] |-> <<"account", Rows[d][i]>>]
           second == [i \in DOMAIN Rows[d] |-> <<"row", Rows[d][i]>>]
<1>1. Rows[d] \in Seq(Accounts)
  BY JobsAssumption
<1>2. first \in Seq(StepsOf) /\ second \in Seq(StepsOf) /\ Len(first) = Len(Rows[d]) /\ Len(second) = Len(Rows[d])
  BY <1>1 DEF StepsOf
<1>3. Steps(d) = first \o second
  BY DEF Steps
<1> HIDE DEF first, second
<1>4. /\ Steps(d) \in Seq(StepsOf) /\ DOMAIN Steps(d) = 1 .. Len(first) + Len(second)
      /\ \A i \in 1 .. Len(first) : Steps(d)[i] = first[i]
      /\ \A i \in 1 .. Len(second) : Steps(d)[Len(first) + i] = second[i]
  <2>1. first \in Seq(StepsOf) /\ second \in Seq(StepsOf)
    BY <1>2
  <2>2. first \o second \in Seq(StepsOf) /\ DOMAIN (first \o second) = 1 .. Len(first) + Len(second)
    BY <2>1, Concatenation
  <2>3. \A i \in 1 .. Len(first) : (first \o second)[i] = first[i]
    BY <2>1, Concatenation, Zenon
  <2>4. \A i \in 1 .. Len(second) : (first \o second)[Len(first) + i] = second[i]
    BY <2>1
  <2> QED
    BY <1>3, <2>2, <2>3, <2>4, Zenon
<1>5. ASSUME NEW a \in RowsOf(d)
      PROVE  a \in Accounts /\ \E i \in DOMAIN Steps(d) : Steps(d)[i] = <<"row", a>>
  <2>1. PICK i \in DOMAIN Rows[d] : a = Rows[d][i]
    BY <1>5 DEF RowsOf
  <2>2. i \in 1 .. Len(second) /\ Len(first) \in Nat
    BY <1>1, <1>2, <2>1
  <2>3. Len(first) + i \in DOMAIN Steps(d) /\ Steps(d)[Len(first) + i] = second[i]
    <3>1. Len(first) + i \in 1 .. Len(first) + Len(second)
      <4>1. Len(first) \in Nat /\ Len(second) \in Nat
        BY <1>2
      <4> QED BY <2>2, <4>1
    <3> QED BY <1>4, <2>2, <3>1, Zenon
  <2>4. second[i] = <<"row", a>>
    BY <2>1 DEF second
  <2> QED
    BY <1>1, <2>1, <2>2, <2>3, <2>4
<1>6. ASSUME NEW a \in Accounts, NEW i \in DOMAIN Steps(d), Steps(d)[i] = <<"row", a>>
      PROVE  a \in RowsOf(d)
  <2>1. i \in 1 .. Len(first) + Len(second) /\ Len(first) \in Nat /\ Len(second) \in Nat
    BY <1>2, <1>4
  <2>2. CASE i <= Len(first)
    <3>1. i \in 1 .. Len(first)
      BY <2>1, <2>2
    <3>2. first[i] = <<"account", Rows[d][i]>>
      BY <1>1, <1>2, <3>1 DEF first
    <3> QED
      BY <1>4, <1>6, <3>1, <3>2
  <2>3. CASE i > Len(first)
    <3>1. PICK j \in 1 .. Len(second) : i = Len(first) + j
      <4>1. i - Len(first) \in 1 .. Len(second) /\ i = Len(first) + (i - Len(first))
        BY <2>1, <2>3
      <4> QED
        BY <4>1
    <3>2. j \in DOMAIN Rows[d] /\ second[j] = <<"row", Rows[d][j]>>
      BY <1>1, <1>2, <3>1 DEF second
    <3> QED
      BY <1>4, <1>6, <3>1, <3>2 DEF RowsOf
  <2> QED
    BY <2>1, <2>2, <2>3
<1> QED
  BY <1>4, <1>5, <1>6

\* The next thing an import does is one of its steps.
LEMMA StepTyped ==
  ASSUME NEW t \in TxRows, t.todo # <<>>
  PROVE  Head(t.todo) \in StepsOf /\ Tail(t.todo) \in Seq(StepsOf)
BY DEF TxRows

\* Having done a step, an import has the others left.
LEMMA RestOfTail ==
  ASSUME NEW t \in TxRows, t.todo # <<>>, NEW u \in TxRows, u.todo = Tail(t.todo)
  PROVE  /\ Head(t.todo) \in StepsOf
         /\ Rest(t) = Rest(u) \cup {a \in Accounts : Head(t.todo) = <<"row", a>>}
<1>1. t.todo \in Seq(StepsOf) /\ Len(t.todo) \in Nat /\ Len(t.todo) > 0
  BY DEF TxRows
<1>2. Head(t.todo) = t.todo[1] /\ 1 \in DOMAIN t.todo
  BY <1>1
<1>3. \A i \in DOMAIN Tail(t.todo) : i + 1 \in DOMAIN t.todo /\ Tail(t.todo)[i] = t.todo[i + 1]
  BY <1>1
<1>4. \A i \in DOMAIN t.todo : i = 1 \/ (i - 1 \in DOMAIN Tail(t.todo) /\ Tail(t.todo)[i - 1] = t.todo[i])
  BY <1>1
<1>5. Rest(t) \subseteq Rest(u) \cup {a \in Accounts : Head(t.todo) = <<"row", a>>}
  BY <1>2, <1>4 DEF Rest
<1>6. Rest(u) \cup {a \in Accounts : Head(t.todo) = <<"row", a>>} \subseteq Rest(t)
  BY <1>2, <1>3 DEF Rest
<1> QED
  BY <1>1, <1>2, <1>5, <1>6

-----------------------------------------------------------------------------
(* What is recorded stays. *)

Recorded == \A k \in Keys : job[k] = NoJob \/ job'[k] = job[k]

\* A reason on record stays on record.
LEMMA ReasonsStay ==
  ASSUME Recorded, NEW d \in Docs, Explained(d)
  PROVE  Explained(d)'
<1>1. ASSUME NEW e \in Docs, NEW short \in BOOLEAN, Imported(e, short)
      PROVE  Imported(e, short)'
  <2>1. PICK k \in Keys : job[k] = [kind |-> "import", doc |-> e, short |-> short]
    BY <1>1 DEF Imported
  <2>2. job[k] # NoJob
    BY <2>1 DEF NoJob
  <2> QED
    BY <2>1, <2>2 DEF Imported, Recorded
<1>2. RowsOf(d)' = RowsOf(d) /\ \A e \in Docs : RowsOf(e)' = RowsOf(e)
  BY DEF RowsOf
<1>3. CASE Imported(d, TRUE)
  BY <1>1, <1>3 DEF Explained
<1>4. ASSUME NEW e \in Docs \ {d}, RowsOf(e) \cap RowsOf(d) # {}, Imported(e, FALSE) \/ Imported(e, TRUE)
      PROVE  Explained(d)'
  <2>1. Imported(e, FALSE)' \/ Imported(e, TRUE)'
    BY <1>1, <1>4
  <2> QED
    BY <1>2, <1>4, <2>1 DEF Explained
<1> QED
  BY <1>3, <1>4 DEF Explained

\* A transaction stays sound while others go on, if nothing is recorded for its key.
LEMMA OthersSound ==
  ASSUME JobsInv, Recorded, NEW c \in Sessions, tx'[c] = tx[c],
         Works(tx[c]) => job'[tx[c].key] = job[tx[c].key]
  PROVE  Sound(tx[c])'
<1> DEFINE t == tx[c]
<1>1. t \in TxRows /\ TxSound(t) /\ ImportSound(t) /\ LoadSound(t)
  BY JobsTyped DEF Sound
<1>2. TxSound(t)'
  BY <1>1 DEF TxSound, NoTx, Works
<1>3. ImportSound(t)'
  BY <1>1 DEF ImportSound, Rest, RowsOf
<1>4. LoadSound(t)'
  <2>1. CASE t.phase = "loaded"
    <3>1. t.doc \in Docs
      BY <1>1, <2>1 DEF TxSound, NoTx
    <3>2. Explained(t.doc) => (Explained(t.doc))'
      BY <3>1, ReasonsStay
    <3> QED
      BY <1>1, <2>1, <3>2 DEF LoadSound, RowsOf
  <2>2. CASE t.phase # "loaded"
    BY <2>2 DEF LoadSound
  <2> QED
    BY <2>1, <2>2
<1> QED
  BY <1>2, <1>3, <1>4 DEF Sound

-----------------------------------------------------------------------------
(* Steps that record nothing. *)

\* No other connection works under the key of t.
HasKeyAlone(c, t) == \A d \in Sessions \ {c} : ~(Works(tx[d]) /\ tx[d].key = t.key)

\* A step of one transaction that writes no table keeps the invariant.
LEMMA QuietStep ==
  ASSUME JobsInv, NEW c \in Sessions, NEW t \in TxRows, Sound(t),
         Works(t) => HasKeyAlone(c, t),
         tx' = [tx EXCEPT ![c] = t], UNCHANGED <<job, effects, known, tb, runs>>
  PROVE  JobsInv'
<1>1. TypeOK /\ tx \in [Sessions -> TxRows]
  BY JobsTyped
<1>2. TypeOK'
  BY <1>1 DEF TypeOK, TxRows, StepsOf
<1>3. tx'[c] = t /\ \A d \in Sessions \ {c} : tx'[d] = tx[d]
  BY <1>1
<1>4. Recorded /\ job' = job
  BY DEF Recorded
<1>5. ASSUME NEW d \in Docs, Explained(d) PROVE Explained(d)'
  BY <1>4, <1>5, ReasonsStay
<1>6. PartialInputExplained'
  <2>1. \A r \in runs : r.doc \in Docs /\ (r.rows # RowsOf(r.doc) => Explained(r.doc))
    BY <1>1, RunsExplained DEF JobsInv, TypeOK
  <2>2. \A r \in runs' : r.rows # RowsOf(r.doc) => Explained(r.doc)'
    BY <1>5, <2>1
  <2> QED
    BY <1>2, <2>2, RunsExplained DEF RowsOf, PartialInputExplained, Explained, Imported
<1>7. KeysHeldOnce'
  <2> SUFFICES ASSUME NEW d \in Sessions, NEW e \in Sessions,
                      Works(tx'[d]), Works(tx'[e]), tx'[d].key = tx'[e].key
               PROVE  d = e
    BY DEF KeysHeldOnce, Works
  <2>1. CASE d # c /\ e # c
    BY <1>3, <2>1 DEF JobsInv, KeysHeldOnce
  <2>2. CASE d = c /\ e # c
    BY <1>3, <2>2 DEF HasKeyAlone
  <2>3. CASE d # c /\ e = c
    BY <1>3, <2>3 DEF HasKeyAlone
  <2> QED
    BY <2>1, <2>2, <2>3
<1>8. ASSUME NEW d \in Sessions PROVE Sound(tx[d])'
  <2>1. CASE d = c
    <3>1. tx'[d] = t /\ TxSound(t) /\ ImportSound(t) /\ LoadSound(t)
      BY <1>3, <2>1 DEF Sound
    <3>2. TxSound(tx[d])'
      BY <3>1, <1>4 DEF TxSound, NoTx, Works
    <3>3. ImportSound(tx[d])'
      <4>1. Rest(tx[d])' = Rest(t)
        BY <3>1 DEF Rest
      <4> QED
        BY <3>1, <4>1 DEF ImportSound, RowsOf
    <3>4. LoadSound(tx[d])'
      <4>1. t.phase = "loaded" => t.doc \in Docs
        BY <3>1 DEF TxSound, NoTx
      <4>2. t.phase = "loaded" /\ Explained(t.doc) => (Explained(tx[d].doc))'
        BY <3>1, <4>1, <1>4 DEF Explained, Imported, RowsOf
      <4> QED
        BY <3>1, <4>2 DEF LoadSound, RowsOf
    <3> QED
      BY <3>2, <3>3, <3>4 DEF Sound
  <2>2. CASE d # c
    BY <1>3, <1>4, <2>2, OthersSound
  <2> QED
    BY <2>1, <2>2
<1>9. ASSUME NEW d \in Docs PROVE TableSound(d)'
  <2>1. TableSound(d)
    BY DEF JobsInv
  <2> QED
    BY <1>5, <2>1 DEF TableSound, Read, RowsOf
<1> QED
  BY <1>6, <1>7, <1>8, <1>9 DEF JobsInv

-----------------------------------------------------------------------------
(* One lemma per step. *)

\* The invariant holds at first.
LEMMA InitJobsInv == Init => JobsInv
<1> SUFFICES ASSUME Init PROVE JobsInv
  OBVIOUS
<1>1. <<>> \in Seq(StepsOf)
  OBVIOUS
<1>2. TypeOK
  BY <1>1 DEF Init, TypeOK, NoJob, NoTx, StepsOf
<1>3. PartialInputExplained
  BY <1>2, RunsExplained DEF Init
<1>4. \A c \in Sessions : Sound(tx[c]) /\ ~Works(tx[c])
  BY NoTxSound DEF Init
<1>5. \A d \in Docs : TableSound(d)
  BY JobsAssumption DEF Init, TableSound, Read
<1> QED
  BY <1>3, <1>4, <1>5 DEF JobsInv, KeysHeldOnce

\* A transaction that ends leaves an idle connection.
LEMMA EndOK ==
  ASSUME JobsInv, NEW c \in Sessions, End(c), UNCHANGED <<job, effects, known, tb, runs>>
  PROVE  JobsInv'
BY NoTxSound, QuietStep DEF End

\* A request begins with nothing written.
LEMMA RequestOK ==
  ASSUME JobsInv, NEW c \in Sessions, NEW op \in {"import", "calculate"}, NEW k \in Keys, NEW d \in Docs,
         Request(c, op, k, d)
  PROVE  JobsInv'
<1> DEFINE t == [NoTx EXCEPT !.op = op, !.phase = "key", !.key = k, !.doc = d]
<1>1. t \in TxRows
  BY NoTxSound DEF TxRows, NoTx
<1>2. Sound(t) /\ ~Works(t)
  BY DEF Sound, TxSound, ImportSound, LoadSound, Works, NoTx
<1>3. tx' = [tx EXCEPT ![c] = t] /\ UNCHANGED <<job, effects, known, tb, runs>>
  BY DEF Request
<1> HIDE DEF t
<1> QED
  BY <1>1, <1>2, <1>3, QuietStep

\* Whoever takes a key is alone with it, and has all rows of its import before it.
LEMMA TakeKeyOK ==
  ASSUME JobsInv, NEW c \in Sessions, TakeKey(c)
  PROVE  JobsInv'
<1> DEFINE d == tx[c].doc
           t == [tx[c] EXCEPT !.phase = "work", !.seen = known \cap RowsOf(d),
                              !.todo = IF tx[c].op = "import" THEN Steps(d) ELSE <<>>]
<1>1. /\ tx[c] \in TxRows /\ TxSound(tx[c]) /\ tx[c].phase = "key" /\ tx[c] # NoTx
      /\ known \subseteq Accounts
  BY JobsTyped DEF Sound, TakeKey, NoTx, TypeOK
<1>2. d \in Docs /\ tx[c].op \in {"import", "calculate"} /\ tx[c].key \in Keys
  BY <1>1 DEF TxSound
<1>3. Steps(d) \in Seq(StepsOf) /\ <<>> \in Seq(StepsOf)
  BY <1>2, StepsTyped
<1>4. t \in TxRows
  BY <1>1, <1>3 DEF TxRows
<1>5. TxSound(t)
  BY <1>1, <1>2 DEF TxSound, Works, TakeKey, Succeeded, NoTx, TxRows
<1>6. ImportSound(t)
  <2>1. tx[c].op = "import" => Rest(t) = RowsOf(d)
    BY <1>1, <1>2, StepsTyped DEF Rest, TxRows
  <2>2. t.written = {} /\ t.doc = d /\ t.op = tx[c].op
    BY <1>1 DEF TxSound, TxRows
  <2> HIDE DEF t
  <2> QED
    BY <2>1, <2>2 DEF ImportSound
<1>7. Sound(t)
  BY <1>1, <1>5, <1>6 DEF Sound, LoadSound, TxRows
<1>8. HasKeyAlone(c, t)
  BY <1>1 DEF HasKeyAlone, TakeKey, KeyHeld, Works, TxRows
<1>9. tx' = [tx EXCEPT ![c] = t] /\ UNCHANGED <<job, effects, known, tb, runs>>
  BY <1>1, JobsTyped DEF TakeKey, TxRows
<1> HIDE DEF t
<1> QED
  BY <1>4, <1>7, <1>8, <1>9, QuietStep

\* A step of an import that takes one from those it has to do.
LEMMA ImportStepOK ==
  ASSUME JobsInv, NEW c \in Sessions, Importing(c), tx[c].todo # <<>>, NEW t \in TxRows,
         t.op = "import", t.phase = "work", t.key = tx[c].key, t.doc = tx[c].doc,
         t.todo = Tail(tx[c].todo),
         NextStep(c)[1] = "account" => t.written = tx[c].written /\ t.short = tx[c].short,
         NextStep(c)[1] = "row" => \/ t.written = tx[c].written \cup {NextStep(c)[2]} /\ t.short = tx[c].short
                                   \/ t.written = tx[c].written /\ t.short,
         tx' = [tx EXCEPT ![c] = t], UNCHANGED <<job, effects, known, tb, runs>>
  PROVE  JobsInv'
<1> DEFINE s == tx[c]
<1>1. s \in TxRows /\ TxSound(s) /\ ImportSound(s) /\ s.op = "import" /\ s.phase = "work" /\ Works(s)
  BY JobsTyped DEF Sound, Importing, Works
<1>2. Head(s.todo) \in StepsOf /\ Rest(s) = Rest(t) \cup {a \in Accounts : Head(s.todo) = <<"row", a>>}
  BY <1>1, RestOfTail
<1>3. PICK kind \in {"account", "row"}, a \in Accounts : NextStep(c) = <<kind, a>>
  BY <1>2 DEF StepsOf, NextStep
<1>4. Rest(s) = IF kind = "row" THEN Rest(t) \cup {a} ELSE Rest(t)
  BY <1>2, <1>3 DEF NextStep
<1>5. TxSound(t)
  BY <1>1 DEF TxSound, Works, NoTx
<1>6. ImportSound(t)
  <2>1. s.written \cup Rest(s) \subseteq RowsOf(s.doc) /\ (~s.short => RowsOf(s.doc) \subseteq s.written \cup Rest(s))
    BY <1>1 DEF ImportSound
  <2>2. CASE kind = "account"
    BY <1>3, <1>4, <2>1, <2>2 DEF ImportSound
  <2>3. CASE kind = "row"
    <3>1. NextStep(c)[1] = "row" /\ NextStep(c)[2] = a
      BY <1>3, <2>3
    <3>2. \/ t.written = s.written \cup {a} /\ t.short = s.short
          \/ t.written = s.written /\ t.short
      BY <3>1
    <3> QED
      BY <1>4, <2>1, <2>3, <3>2 DEF ImportSound
  <2> QED
    BY <2>2, <2>3
<1>7. Sound(t)
  BY <1>5, <1>6 DEF Sound, LoadSound
<1>8. HasKeyAlone(c, t)
  BY <1>1 DEF JobsInv, KeysHeldOnce, HasKeyAlone
<1> QED
  BY <1>7, <1>8, QuietStep

\* An account that exists is passed over.
LEMMA SkipAccountOK == ASSUME JobsInv, NEW c \in Sessions, SkipAccount(c) PROVE JobsInv'
<1> DEFINE t == [tx[c] EXCEPT !.todo = Tail(@)]
<1>1. tx[c] \in TxRows /\ Importing(c) /\ tx[c].todo # <<>>
  BY JobsTyped DEF SkipAccount
<1>2. t \in TxRows /\ tx' = [tx EXCEPT ![c] = t]
  BY <1>1, StepTyped, JobsTyped DEF SkipAccount, TxRows
<1>3. /\ t.op = "import" /\ t.phase = "work" /\ t.key = tx[c].key /\ t.doc = tx[c].doc
      /\ t.todo = Tail(tx[c].todo) /\ t.written = tx[c].written /\ t.short = tx[c].short
  BY <1>1 DEF TxRows, Importing
<1>4. NextStep(c)[1] = "account" /\ UNCHANGED <<job, effects, known, tb, runs>>
  BY DEF SkipAccount
<1> HIDE DEF t
<1> QED
  BY <1>1, <1>2, <1>3, <1>4, ImportStepOK

\* An account is created, and known from then on.
LEMMA CreateAccountOK == ASSUME JobsInv, NEW c \in Sessions, CreateAccount(c) PROVE JobsInv'
<1> DEFINE a == NextStep(c)[2]
           t == [tx[c] EXCEPT !.todo = Tail(@), !.made = IF a \in known THEN @ ELSE @ \cup {a}]
<1>1. tx[c] \in TxRows /\ Importing(c) /\ tx[c].todo # <<>>
  BY JobsTyped DEF CreateAccount
<1>2. a \in Accounts
  BY <1>1, StepTyped DEF StepsOf, NextStep
<1>3. t \in TxRows /\ tx' = [tx EXCEPT ![c] = t]
  BY <1>1, <1>2, StepTyped, JobsTyped DEF CreateAccount, TxRows
<1>4. /\ t.op = "import" /\ t.phase = "work" /\ t.key = tx[c].key /\ t.doc = tx[c].doc
      /\ t.todo = Tail(tx[c].todo) /\ t.written = tx[c].written /\ t.short = tx[c].short
  BY <1>1 DEF TxRows, Importing
<1>5. NextStep(c)[1] = "account" /\ UNCHANGED <<job, effects, known, tb, runs>>
  BY DEF CreateAccount
<1> HIDE DEF t
<1> QED
  BY <1>1, <1>3, <1>4, <1>5, ImportStepOK

\* An import writes a row of an account it has, and passes over the rows of
\* accounts it does not have.
LEMMA WriteRowOK == ASSUME JobsInv, NEW c \in Sessions, WriteRow(c) PROVE JobsInv'
<1> DEFINE a == NextStep(c)[2]
           t == IF Has(c, a) THEN [tx[c] EXCEPT !.todo = Tail(@), !.written = @ \cup {a}]
                ELSE [tx[c] EXCEPT !.todo = Tail(@), !.short = TRUE]
<1>1. tx[c] \in TxRows /\ Importing(c) /\ tx[c].todo # <<>>
  BY JobsTyped DEF WriteRow
<1>2. a \in Accounts
  BY <1>1, StepTyped DEF StepsOf, NextStep
<1>3. t \in TxRows /\ tx' = [tx EXCEPT ![c] = t]
  BY <1>1, <1>2, StepTyped, JobsTyped DEF WriteRow, TxRows
<1>4. /\ t.op = "import" /\ t.phase = "work" /\ t.key = tx[c].key /\ t.doc = tx[c].doc
      /\ t.todo = Tail(tx[c].todo)
      /\ \/ t.written = tx[c].written \cup {a} /\ t.short = tx[c].short
         \/ t.written = tx[c].written /\ t.short
  BY <1>1 DEF TxRows, Importing
<1>5. NextStep(c)[1] = "row" /\ UNCHANGED <<job, effects, known, tb, runs>>
  BY DEF WriteRow
<1> HIDE DEF t
<1> QED
  BY <1>1, <1>3, <1>4, <1>5, ImportStepOK

\* The rows a calculation reads are those of the document, or the reason is known.
LEMMA LoadRowsOK == ASSUME JobsInv, NEW c \in Sessions, LoadRows(c) PROVE JobsInv'
<1> DEFINE d == tx[c].doc
           t == [tx[c] EXCEPT !.phase = "loaded", !.seen = LoadedRows(d)]
<1>1. /\ tx[c] \in TxRows /\ TxSound(tx[c]) /\ tx[c].phase = "work" /\ tx[c].op = "calculate"
      /\ LoadedRows(d) = Read(d) /\ Read(d) # {}
  BY JobsTyped DEF Sound, LoadRows, LoadedRows
<1>2. d \in Docs /\ TableSound(d)
  BY <1>1 DEF TxSound, NoTx, JobsInv
<1>3. t \in TxRows /\ tx' = [tx EXCEPT ![c] = t] /\ UNCHANGED <<job, effects, known, tb, runs>>
  BY <1>1, JobsTyped DEF LoadRows, TxRows, Read
<1>4. t.phase = "loaded" /\ t.op = "calculate" /\ t.doc = d /\ t.key = tx[c].key /\ t.seen = Read(d)
  BY <1>1 DEF TxRows
<1> HIDE DEF t
<1>5. Sound(t)
  BY <1>1, <1>2, <1>4 DEF Sound, TxSound, ImportSound, LoadSound, TableSound, Works, NoTx
<1>6. HasKeyAlone(c, t)
  BY <1>1, <1>4 DEF JobsInv, KeysHeldOnce, HasKeyAlone, Works
<1> QED
  BY <1>3, <1>5, <1>6, QuietStep

\* What every commit has in common.
Outcomes == [kind : {"import", "calculate"}, doc : Docs, short : BOOLEAN]

\* What the commits of an import and of a calculation have in common: the key gets its result, once.
LEMMA CommitOK ==
  ASSUME JobsInv, NEW c \in Sessions, Works(tx[c]), End(c), NEW o \in Outcomes,
         job' = [job EXCEPT ![tx[c].key] = o], effects' = [effects EXCEPT ![tx[c].key] = @ + 1]
  PROVE  /\ tx[c] \in TxRows /\ tx[c].doc \in Docs /\ tx[c].key \in Keys /\ job[tx[c].key] = NoJob
         /\ Recorded /\ KeysHeldOnce' /\ \A d \in Sessions : Sound(tx[d])'
         /\ job' \in [Keys -> [kind : {"none", "import", "calculate"}, doc : Docs \cup {NoDoc}, short : BOOLEAN]]
         /\ effects' \in [Keys -> Nat] /\ tx' \in [Sessions -> TxRows]
<1> DEFINE k == tx[c].key
<1>1. tx[c] \in TxRows /\ TxSound(tx[c]) /\ TypeOK /\ tx \in [Sessions -> TxRows]
  BY JobsTyped DEF Sound
<1>2. tx[c].doc \in Docs /\ k \in Keys /\ job[k] = NoJob
  BY <1>1 DEF TxSound, NoTx, Works
<1>3. Recorded /\ \A l \in Keys \ {k} : job'[l] = job[l]
  BY <1>1, <1>2 DEF Recorded, TypeOK
<1>4. tx'[c] = NoTx /\ (\A d \in Sessions \ {c} : tx'[d] = tx[d]) /\ tx' \in [Sessions -> TxRows]
  BY <1>1, NoTxSound DEF End
<1>5. KeysHeldOnce'
  <2> SUFFICES ASSUME NEW d \in Sessions, NEW e \in Sessions,
                      Works(tx'[d]), Works(tx'[e]), tx'[d].key = tx'[e].key
               PROVE  d = e
    BY DEF KeysHeldOnce, Works
  <2>1. d # c /\ e # c
    BY <1>4, NoTxSound
  <2> QED
    BY <1>4, <2>1 DEF JobsInv, KeysHeldOnce
<1>6. ASSUME NEW d \in Sessions PROVE Sound(tx[d])'
  <2>1. CASE d = c
    BY <1>4, <2>1 DEF Sound, TxSound, ImportSound, LoadSound, NoTx, Works
  <2>2. CASE d # c
    <3>1. Works(tx[d]) => tx[d].key \in Keys /\ tx[d].key # k
      BY <2>2, JobsTyped DEF JobsInv, KeysHeldOnce, Sound, TxSound, Works, NoTx
    <3> QED
      BY <1>3, <1>4, <2>2, <3>1, OthersSound
  <2> QED
    BY <2>1, <2>2
<1>7. /\ job' \in [Keys -> [kind : {"none", "import", "calculate"}, doc : Docs \cup {NoDoc}, short : BOOLEAN]]
      /\ effects' \in [Keys -> Nat]
  BY <1>1, <1>2 DEF TypeOK, Outcomes
<1> QED
  BY <1>1, <1>2, <1>3, <1>4, <1>5, <1>6, <1>7

\* A calculation records its run, whose rows are those it loaded.
LEMMA CommitCalculationOK == ASSUME JobsInv, NEW c \in Sessions, CommitCalculation(c) PROVE JobsInv'
<1> DEFINE o == [kind |-> "calculate", doc |-> tx[c].doc, short |-> FALSE]
           r == [key |-> tx[c].key, doc |-> tx[c].doc, rows |-> tx[c].seen]
<1>1. tx[c].phase = "loaded" /\ Works(tx[c]) /\ Sound(tx[c]) /\ tx[c] \in TxRows /\ TypeOK
  BY JobsTyped DEF CommitCalculation, Works
<1>2. o \in Outcomes
  BY <1>1 DEF Outcomes, Sound, TxSound, NoTx, Works
<1>3. /\ End(c) /\ job' = [job EXCEPT ![tx[c].key] = o] /\ effects' = [effects EXCEPT ![tx[c].key] = @ + 1]
      /\ runs' = runs \cup {r} /\ known' = known /\ tb' = tb
  BY DEF CommitCalculation
<1>4. /\ tx[c].doc \in Docs /\ tx[c].key \in Keys
      /\ Recorded /\ KeysHeldOnce' /\ \A d \in Sessions : Sound(tx[d])'
      /\ job' \in [Keys -> [kind : {"none", "import", "calculate"}, doc : Docs \cup {NoDoc}, short : BOOLEAN]]
      /\ effects' \in [Keys -> Nat] /\ tx' \in [Sessions -> TxRows]
  BY <1>1, <1>2, <1>3, CommitOK
<1>5. r \in [key : Keys, doc : Docs, rows : (SUBSET Accounts) \ {{}}]
  BY <1>1, <1>4 DEF Sound, LoadSound, TxRows
<1>6. TypeOK'
  BY <1>1, <1>3, <1>4, <1>5 DEF TypeOK, TxRows, StepsOf
<1>7. ASSUME NEW d \in Docs, Explained(d) PROVE Explained(d)'
  BY <1>4, <1>7, ReasonsStay
<1>8. PartialInputExplained'
  <2>1. ASSUME NEW s \in runs', s.rows # RowsOf(s.doc) PROVE Explained(s.doc)'
    <3>1. CASE s = r
      BY <1>1, <1>4, <1>7, <2>1, <3>1 DEF Sound, LoadSound
    <3>2. CASE s \in runs
      <4>1. s.doc \in Docs /\ Explained(s.doc)
        BY <1>1, <2>1, <3>2, RunsExplained DEF JobsInv, TypeOK
      <4> QED
        BY <1>7, <4>1
    <3> QED
      BY <1>3, <3>1, <3>2
  <2> QED
    BY <1>6, <2>1, RunsExplained DEF PartialInputExplained, Explained, Imported, RowsOf
<1>9. ASSUME NEW d \in Docs PROVE TableSound(d)'
  BY <1>3, <1>7 DEF JobsInv, TableSound, Read, RowsOf
<1> QED
  BY <1>4, <1>8, <1>9 DEF JobsInv

\* An import that ends leaves its document with what it wrote: all, if it passed over none.
LEMMA ImportWrote ==
  ASSUME JobsInv, NEW c \in Sessions, CommitImport(c)
  PROVE  /\ tx[c].written \subseteq RowsOf(tx[c].doc) /\ tx[c].written \subseteq Accounts
         /\ ~tx[c].short => tx[c].written = RowsOf(tx[c].doc)
<1>1. tx[c] \in TxRows /\ ImportSound(tx[c]) /\ Importing(c) /\ tx[c].todo = <<>>
  BY JobsTyped DEF Sound, CommitImport
<1>2. Rest(tx[c]) = {}
  BY <1>1 DEF Rest
<1> QED
  BY <1>1, <1>2 DEF ImportSound, Importing, TxRows

\* An import that has nothing left to write puts its rows in the table.
LEMMA CommitImportOK == ASSUME JobsInv, NEW c \in Sessions, CommitImport(c) PROVE JobsInv'
<1> DEFINE o == [kind |-> "import", doc |-> tx[c].doc, short |-> tx[c].short]
           m == tx[c].doc
           W == tx[c].written
<1>1. Works(tx[c]) /\ Sound(tx[c]) /\ tx[c] \in TxRows /\ TypeOK
  BY JobsTyped DEF CommitImport, Importing, Works
<1>2. o \in Outcomes
  BY <1>1 DEF Outcomes, Sound, TxSound, NoTx, Works, TxRows
<1>3. /\ End(c) /\ job' = [job EXCEPT ![tx[c].key] = o] /\ effects' = [effects EXCEPT ![tx[c].key] = @ + 1]
      /\ runs' = runs /\ known' = known \cup tx[c].made
      /\ tb' = [a \in Accounts |-> IF a \in W THEN m ELSE tb[a]]
  BY DEF CommitImport, Takes
<1>4. /\ m \in Docs /\ tx[c].key \in Keys
      /\ Recorded /\ KeysHeldOnce' /\ \A d \in Sessions : Sound(tx[d])'
      /\ job' \in [Keys -> [kind : {"none", "import", "calculate"}, doc : Docs \cup {NoDoc}, short : BOOLEAN]]
      /\ effects' \in [Keys -> Nat] /\ tx' \in [Sessions -> TxRows]
  BY <1>1, <1>2, <1>3, CommitOK
<1>5. TypeOK'
  BY <1>1, <1>3, <1>4 DEF TypeOK, TxRows, StepsOf
<1>6. ASSUME NEW d \in Docs, Explained(d) PROVE Explained(d)'
  BY <1>4, <1>6, ReasonsStay
<1>7. PartialInputExplained'
  <2>1. ASSUME NEW s \in runs, s.rows # RowsOf(s.doc) PROVE Explained(s.doc)'
    <3>1. s.doc \in Docs /\ Explained(s.doc)
      BY <1>1, <2>1, RunsExplained DEF JobsInv, TypeOK
    <3> QED
      BY <1>6, <3>1
  <2> QED
    BY <1>3, <1>5, <2>1, RunsExplained DEF PartialInputExplained, Explained, Imported, RowsOf
<1>8. PICK e \in Docs, k \in Keys, short \in BOOLEAN :
        e = m /\ short = tx[c].short /\ job'[k] = [kind |-> "import", doc |-> e, short |-> short]
  <2>1. job'[tx[c].key] = o /\ tx[c].short \in BOOLEAN
    BY <1>1, <1>3, <1>4 DEF TypeOK, TxRows
  <2> QED
    BY <1>4, <2>1
<1>9. W \subseteq RowsOf(m) /\ W \subseteq Accounts /\ (~tx[c].short => W = RowsOf(m)) /\ tx[c].short \in BOOLEAN
  BY <1>1, ImportWrote DEF TxRows
<1>10. ASSUME NEW d \in Docs PROVE TableSound(d)'
  <2>1. TableSound(d) /\ tb \in [Accounts -> Docs \cup {NoDoc}]
    BY <1>1 DEF JobsInv, TypeOK
  <2>2. CASE d = m
    <3>1. Read(d)' = Read(d) \cup W
      BY <1>3, <1>9, <2>1, <2>2 DEF Read
    <3>2. tx[c].short => Explained(d)'
      <4>1. tx[c].short => Imported(d, TRUE)'
        BY <1>8, <2>2 DEF Imported
      <4> QED
        BY <4>1 DEF Explained
    <3>3. ~tx[c].short => Read(d)' = RowsOf(d)
      BY <1>9, <2>1, <2>2, <3>1 DEF TableSound
    <3> QED
      BY <1>9, <2>1, <2>2, <3>1, <3>2, <3>3 DEF TableSound, RowsOf
  <2>3. CASE d # m
    <3>1. Read(d)' = Read(d) \ W
      BY <1>3, <1>9, <2>1, <2>3 DEF Read
    <3>2. CASE Read(d) \cap W = {}
      <4>1. Read(d)' = Read(d)
        BY <3>1, <3>2
      <4> QED
        BY <1>6, <2>1, <4>1 DEF TableSound, RowsOf
    <3>3. CASE Read(d) \cap W # {}
      <4>1. RowsOf(e) \cap RowsOf(d) # {} /\ e # d
        BY <1>8, <1>9, <2>1, <2>3, <3>3 DEF TableSound
      <4>2. Imported(e, FALSE)' \/ Imported(e, TRUE)'
        BY <1>8 DEF Imported
      <4>3. Explained(d)'
        BY <4>1, <4>2 DEF Explained, RowsOf
      <4> QED
        BY <2>1, <3>1, <4>3 DEF TableSound, RowsOf
    <3> QED
      BY <3>2, <3>3
  <2> QED
    BY <2>2, <2>3
<1> QED
  BY <1>4, <1>7, <1>10 DEF JobsInv

\* Every step keeps the invariant.
LEMMA NextJobsInv == JobsInv /\ [Next]_vars => JobsInv'
<1> SUFFICES ASSUME JobsInv, [Next]_vars PROVE JobsInv'
  OBVIOUS
<1>1. ASSUME NEW c \in Sessions, Rollback(c) \/ Replay(c) PROVE JobsInv'
  BY <1>1, EndOK DEF Rollback, Replay
<1>2. ASSUME NEW c \in Sessions, Work(c) PROVE JobsInv'
  BY <1>1, <1>2, TakeKeyOK, SkipAccountOK, CreateAccountOK, WriteRowOK, CommitImportOK,
     LoadRowsOK, CommitCalculationOK DEF Work
<1>3. ASSUME NEW c \in Sessions, NoRows(c) \/ BreakDeadlock(c) PROVE JobsInv'
  BY <1>1, <1>3 DEF NoRows, BreakDeadlock
<1>4. CASE UNCHANGED vars
  <2>1. TypeOK'
    BY <1>4, JobsTyped DEF vars, TypeOK
  <2>2. \A r \in runs : r.rows # RowsOf(r.doc) => Explained(r.doc)
    BY RunsExplained DEF JobsInv
  <2>3. PartialInputExplained'
    BY <1>4, <2>1, <2>2, RunsExplained DEF vars, PartialInputExplained, Explained, Imported, RowsOf
  <2>4. KeysHeldOnce' /\ \A d \in Docs : TableSound(d)'
    BY <1>4 DEF vars, JobsInv, KeysHeldOnce, Works, TableSound, Explained, Imported, RowsOf, Read
  <2>5. \A c \in Sessions : Sound(tx[c])'
    BY <1>4, OthersSound DEF vars, Recorded
  <2> QED
    BY <2>3, <2>4, <2>5 DEF JobsInv
<1> QED
  BY <1>1, <1>2, <1>3, <1>4, RequestOK DEF Next

\* The invariant holds in every reachable state.
THEOREM JobsInvariance == Spec => []JobsInv
BY InitJobsInv, NextJobsInv, PTL DEF Spec

\* Every reachable state has its type.
THEOREM JobsTypeCorrect == Spec => []TypeOK
<1>1. JobsInv => TypeOK
  BY JobsTyped
<1> QED
  BY <1>1, JobsInvariance, PTL

\* However imports overlap, take rows from each other and fail, a calculation that
\* missed rows of its document did so for a reason the job ledger has on record.
THEOREM PartialInputsAreExplained == Spec => []PartialInputExplained
<1>1. JobsInv => PartialInputExplained
  BY DEF JobsInv
<1> QED
  BY <1>1, JobsInvariance, PTL

-----------------------------------------------------------------------------
(* What steps do. *)

\* Only the commits record anything, each for the key it holds.
LEMMA WhoRecords ==
  ASSUME JobsInv, [Next]_vars
  PROVE  \/ job' = job /\ effects' = effects
         \/ \E c \in Sessions : CommitImport(c) \/ CommitCalculation(c)
<1>1. CASE UNCHANGED vars
  BY <1>1 DEF vars
<1>2. CASE Next
  BY <1>2 DEF Next, Work, NoRows, BreakDeadlock, Rollback, Request, Replay, TakeKey, SkipAccount,
              CreateAccount, WriteRow, LoadRows
<1> QED
  BY <1>1, <1>2

\* An import that counts all its rows as inserted leaves its document owning them.
LEMMA CompleteImportOwns ==
  ASSUME JobsInv, [Next]_vars, NEW k \in Keys,
         job[k] = NoJob, job'[k].kind = "import", ~job'[k].short
  PROVE  {a \in Accounts : tb'[a] = job'[k].doc} = RowsOf(job'[k].doc)
<1>1. job' # job
  BY DEF NoJob
<1>2. PICK c \in Sessions : CommitImport(c) \/ CommitCalculation(c)
  BY <1>1, WhoRecords
<1>3. TypeOK /\ Sound(tx[c]) /\ tx[c] \in TxRows
  BY JobsTyped
<1>4. k = tx[c].key
  BY <1>2, <1>3 DEF CommitImport, CommitCalculation, TypeOK, NoJob
<1>5. CommitImport(c)
  BY <1>2, <1>3, <1>4 DEF CommitCalculation, TypeOK
<1>6. job'[k] = [kind |-> "import", doc |-> tx[c].doc, short |-> tx[c].short]
  BY <1>3, <1>4, <1>5 DEF CommitImport, TypeOK
<1>7. tx[c].written = RowsOf(tx[c].doc) /\ tx[c].written \subseteq Accounts
  BY <1>5, <1>6, ImportWrote
<1>8. tx[c].doc \in Docs
  BY <1>3, <1>5 DEF Sound, TxSound, CommitImport, Importing, NoTx
<1>9. Read(tx[c].doc) \subseteq RowsOf(tx[c].doc)
  BY <1>8 DEF JobsInv, TableSound
<1>10. tb' = [a \in Accounts |-> IF a \in tx[c].written THEN tx[c].doc ELSE tb[a]]
  BY <1>5 DEF CommitImport, Takes
<1> QED
  BY <1>6, <1>7, <1>9, <1>10 DEF Read

\* An import recorded as complete owns every row of its document when it commits,
\* whatever other imports did before and beside it.
THEOREM CompleteImportsOwnTheirRows == Spec => CompleteImportOwnsItsRows
<1>1. JobsInv /\ [Next]_vars =>
        [\A k \in Keys : job[k] = NoJob /\ job'[k].kind = "import" /\ ~job'[k].short
           => {a \in Accounts : tb'[a] = job'[k].doc} = RowsOf(job'[k].doc)]_vars
  BY CompleteImportOwns
<1> QED
  BY <1>1, JobsInvariance, PTL DEF Spec, CompleteImportOwnsItsRows

-----------------------------------------------------------------------------
(* The ledger implements OnceByKey. *)

\* The abstract specification starts as the jobs do.
LEMMA LedgerInit == Init => Ledger!Init
BY DEF Init, Ledger!Init

\* Every step is one of the abstract specification, or changes neither job nor effect.
LEMMA LedgerStep ==
  ASSUME JobsInv, [Next]_vars
  PROVE  [Ledger!Next]_<<job, effects>>
<1>1. CASE job' = job /\ effects' = effects
  BY <1>1
<1>2. ASSUME NEW c \in Sessions, CommitImport(c) \/ CommitCalculation(c)
      PROVE  Ledger!Next
  <2> DEFINE o == IF CommitImport(c)
                  THEN [kind |-> "import", doc |-> tx[c].doc, short |-> tx[c].short]
                  ELSE [kind |-> "calculate", doc |-> tx[c].doc, short |-> FALSE]
  <2>1. tx[c] \in TxRows /\ TxSound(tx[c]) /\ Works(tx[c])
    BY <1>2, JobsTyped DEF Sound, CommitImport, CommitCalculation, Importing, Works
  <2>2. tx[c].key \in Keys /\ tx[c].doc \in Docs /\ job[tx[c].key] = NoJob
    BY <2>1 DEF TxSound, NoTx, Works
  <2>3. o \in [kind : {"import", "calculate"}, doc : Docs, short : BOOLEAN]
    BY <2>1, <2>2 DEF TxRows
  <2>4. job' = [job EXCEPT ![tx[c].key] = o] /\ effects' = [effects EXCEPT ![tx[c].key] = @ + 1]
    BY <1>2 DEF CommitImport, CommitCalculation
  <2> HIDE DEF o
  <2> QED
    BY <2>2, <2>3, <2>4 DEF Ledger!Next, Ledger!Settle
<1> QED
  BY <1>1, <1>2, WhoRecords

\* A key's work takes effect once and its outcome stays, however often the request
\* is sent and on however many connections.
THEOREM WorkTakesEffectOnce == Spec => OnceByKey
<1>1. JobsInv /\ [Next]_vars => [Ledger!Next]_<<job, effects>>
  BY LedgerStep
<1> QED
  BY <1>1, LedgerInit, JobsInvariance, PTL DEF Spec, OnceByKey, Ledger!Spec
=============================================================================
