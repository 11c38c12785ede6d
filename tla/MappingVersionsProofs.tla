----------------------- MODULE MappingVersionsProofs -----------------------
(***************************************************************************)
(* Proofs about MappingVersions for any number of accounts, proposals,     *)
(* jobs, connections and workers, and any bound on the versions.  At most  *)
(* one mapping in force is not inductive: a decision writes on what it     *)
(* read before, so the invariant says that the versions of an account are  *)
(* numbered without a gap and that what was read is still one of them.     *)
(* From it follow too that a human decision is replaced by another only    *)
(* and that the table implements VersionedRecord; the bound on the         *)
(* carry-forward proposals is inductive beside it.                         *)
(***************************************************************************)
EXTENDS MappingVersions, FiniteSetTheorems, TLAPS

\* The versions of an account's mapping are 1 to n.
Numbered(a, n) ==
  /\ \A r \in RowsOf(a) : r.version <= n
  /\ \A v \in 1 .. n : \E r \in RowsOf(a) : r.version = v

TableSound ==
  /\ \A a \in Accounts : \E n \in 0 .. MaxVersion : Numbered(a, n)
  /\ \A r, q \in mappings : r.account = q.account /\ r.version = q.version => r = q
  /\ \A r, q \in mappings : r.account = q.account /\ r.active => q.version <= r.version

\* What an override or a decision has read is a version still, or there was none.
BaseRead(c) ==
  tx[c].op \in {"override", "decide"} =>
    /\ tx[c].base = 0 \/ \E r \in RowsOf(tx[c].account) : r.version = tx[c].base
    /\ tx[c].op = "override" => tx[c].account # NoAccount

\* An import has an account to commit.
Importing(c) == tx[c].op \in {"import", "upload", "imported"} => tx[c].account \in Accounts

\* A proposal being decided is pending and has one connection deciding it.
DecisionHeld(s) ==
  tx[s].op = "decide" =>
    /\ tx[s].proposal \in Proposals
    /\ proposal[tx[s].proposal].status = "pending"
    /\ tx[s].account = proposal[tx[s].proposal].account
    /\ \A c \in Sessions : tx[c].op = "decide" /\ tx[c].proposal = tx[s].proposal => c = s

\* An approved proposal with an account is behind one version, others behind none.
Applied(p) ==
  /\ \A r, q \in mappings : r.by = p /\ q.by = p => r = q
  /\ (\E r \in mappings : r.by = p)
       <=> proposal[p].status = "approved" /\ proposal[p].account # NoAccount

MappingInv ==
  /\ TypeOK
  /\ TableSound
  /\ \A c \in Connections : BaseRead(c) /\ Importing(c)
  /\ \A s \in Sessions : DecisionHeld(s)
  /\ \A p \in Proposals : Applied(p)

-----------------------------------------------------------------------------
(* The latest version. *)

\* What the CHOOSE of Latest chooses.
LEMMA Highest ==
  ASSUME NEW R, \A r \in R : r.version \in Nat \ {0}, NEW n \in Nat,
         \A r \in R : r.version <= n, n # 0 => \E r \in R : r.version = n
  PROVE  (IF R = {} THEN 0
          ELSE (CHOOSE r \in R : \A q \in R : q.version <= r.version).version) = n
<1>1. CASE n = 0
  BY <1>1
<1>2. CASE n # 0
  <2>1. PICK r \in R : r.version = n
    BY <1>2
  <2>2. \A q \in R : q.version <= r.version
    BY <2>1
  <2> DEFINE m == CHOOSE x \in R : \A q \in R : q.version <= x.version
  <2>3. m \in R /\ \A q \in R : q.version <= m.version
    BY <2>1, <2>2
  <2>4. m.version = n
    BY <2>1, <2>3
  <2> QED
    BY <2>1, <2>4
<1> QED
  BY <1>1, <1>2

\* The latest version of an account is the number that its rows count to.
LEMMA LatestIs ==
  ASSUME mappings \subseteq MappingRows, NEW a \in Accounts, NEW n \in 0 .. MaxVersion, Numbered(a, n),
         MappingAssumption
  PROVE  Latest(a) = n
<1>1. \A r \in RowsOf(a) : r.version \in Nat \ {0}
  BY DEF RowsOf, MappingRows, MappingAssumption
<1>2. n \in Nat /\ (n # 0 => \E r \in RowsOf(a) : r.version = n)
  BY DEF Numbered, MappingAssumption
<1> QED
  BY <1>1, <1>2, Highest DEF Latest, Numbered

\* And its rows do count to it, without a gap.
LEMMA LatestNumbers ==
  ASSUME TypeOK, TableSound, NEW a \in Accounts
  PROVE  Latest(a) \in 0 .. MaxVersion /\ Numbered(a, Latest(a))
<1>1. PICK n \in 0 .. MaxVersion : Numbered(a, n)
  BY DEF TableSound
<1>2. Latest(a) = n
  BY <1>1, LatestIs, MappingAssumption DEF TypeOK
<1> QED
  BY <1>1, <1>2

\* What nobody may have a mapping for has none.
LEMMA NoAccountUnmapped ==
  ASSUME TypeOK PROVE RowsOf(NoAccount) = {} /\ Latest(NoAccount) = 0
<1>1. RowsOf(NoAccount) = {}
  BY MappingAssumption DEF TypeOK, RowsOf, MappingRows, MappingAssumption
<1> QED
  BY <1>1 DEF Latest

-----------------------------------------------------------------------------
(* The next version of some accounts. *)

Superseded(r, W) ==
  IF r.account \in W /\ r.version = Latest(r.account) THEN [r EXCEPT !.active = FALSE] ELSE r

NextRow(a, by) == [account |-> a, version |-> Latest(a) + 1, active |-> TRUE, by |-> by]

WriteNext(W, by) ==
  /\ \A a \in W : Latest(a) < MaxVersion
  /\ mappings' = {Superseded(r, W) : r \in mappings} \cup {NextRow(a, by) : a \in W}

\* A row that is superseded differs only in being inactive.
LEMMA SupersededRow ==
  ASSUME TypeOK, TableSound, NEW W \in SUBSET Accounts, NEW r \in mappings
  PROVE  /\ Superseded(r, W) \in MappingRows
         /\ Superseded(r, W).account = r.account /\ Superseded(r, W).version = r.version
         /\ Superseded(r, W).by = r.by
         /\ Superseded(r, W).active <=> r.active /\ r.account \notin W
<1>1. r \in MappingRows /\ r.account \in Accounts /\ r \in RowsOf(r.account)
  BY DEF TypeOK, MappingRows, RowsOf
<1>2. Latest(r.account) \in 0 .. MaxVersion /\ Numbered(r.account, Latest(r.account))
  BY <1>1, LatestNumbers
<1>3. r.version \in 1 .. MaxVersion /\ r.version <= Latest(r.account)
  BY <1>1, <1>2 DEF Numbered, MappingRows
<1>4. PICK q \in RowsOf(r.account) : q.version = Latest(r.account)
  BY <1>2, <1>3, MappingAssumption DEF Numbered, MappingAssumption
<1>5. r.active => r.version = Latest(r.account)
  <2>1. q \in mappings /\ r.account = q.account
    BY <1>4 DEF RowsOf
  <2>2. r.active => q.version <= r.version
    BY <2>1, Zenon DEF TableSound
  <2>3. q.version <= r.version => r.version = Latest(r.account)
    BY <1>2, <1>3, <1>4, MappingAssumption DEF MappingAssumption
  <2> QED
    BY <2>2, <2>3
<1>6. CASE r.account \in W /\ r.version = Latest(r.account)
  <2>1. Superseded(r, W) = [r EXCEPT !.active = FALSE]
    BY <1>6 DEF Superseded
  <2> QED
    BY <1>1, <1>6, <2>1 DEF MappingRows
<1>7. CASE ~(r.account \in W /\ r.version = Latest(r.account))
  <2>1. Superseded(r, W) = r
    BY <1>7 DEF Superseded
  <2>2. r.active => r.account \notin W
    BY <1>5, <1>7
  <2>3. Superseded(r, W).active <=> r.active /\ r.account \notin W
    BY <2>1, <2>2, Zenon
  <2> QED
    BY <1>1, <2>1, <2>3
<1> QED
  BY <1>6, <1>7

\* What is written next is a row of the table.
LEMMA NextRows ==
  ASSUME TypeOK, TableSound, NEW W \in SUBSET Accounts, NEW by \in {"ai", "override"} \cup Proposals,
         WriteNext(W, by), NEW a \in W
  PROVE  NextRow(a, by) \in MappingRows /\ NextRow(a, by) \in mappings'
<1>1. Latest(a) \in 0 .. MaxVersion /\ Latest(a) < MaxVersion
  BY LatestNumbers DEF WriteNext
<1>2. Latest(a) + 1 \in 1 .. MaxVersion
  BY <1>1, MappingAssumption DEF MappingAssumption
<1> QED
  BY <1>2 DEF NextRow, MappingRows, WriteNext

\* A row of the new table is an old one, in force or not, or a next version.
LEMMA RowsAfter ==
  ASSUME TypeOK, TableSound, NEW W \in SUBSET Accounts, NEW by \in {"ai", "override"} \cup Proposals,
         WriteNext(W, by), NEW x \in mappings'
  PROVE  (\E r \in mappings : x = Superseded(r, W)) \/ (\E a \in W : x = NextRow(a, by))
BY DEF WriteNext

\* After a write the table holds rows.
LEMMA RowsTyped ==
  ASSUME TypeOK, TableSound, NEW W \in SUBSET Accounts, NEW by \in {"ai", "override"} \cup Proposals,
         WriteNext(W, by)
  PROVE  mappings' \subseteq MappingRows
BY RowsAfter, SupersededRow, NextRows

\* Each account written has one version more, the others as many as before.
LEMMA NumberedAfter ==
  ASSUME TypeOK, TableSound, NEW W \in SUBSET Accounts, NEW by \in {"ai", "override"} \cup Proposals,
         WriteNext(W, by), NEW a \in Accounts
  PROVE  /\ \E n \in 0 .. MaxVersion : Numbered(a, n)'
         /\ Latest(a)' = (IF a \in W THEN Latest(a) + 1 ELSE Latest(a))
         /\ Latest(a)' \in 0 .. MaxVersion
<1> DEFINE n == IF a \in W THEN Latest(a) + 1 ELSE Latest(a)
<1>1. Latest(a) \in 0 .. MaxVersion /\ Numbered(a, Latest(a))
  BY LatestNumbers
<1>2. n \in 0 .. MaxVersion
  BY <1>1, MappingAssumption DEF WriteNext, MappingAssumption
<1>3. \A x \in mappings' : x.account = a => x.version <= n
  <2> SUFFICES ASSUME NEW x \in mappings', x.account = a PROVE x.version <= n
    OBVIOUS
  <2>1. CASE \E r \in mappings : x = Superseded(r, W)
    <3>1. PICK r \in mappings : x = Superseded(r, W)
      BY <2>1
    <3>2. r.account = a /\ r.version = x.version /\ r.version \in 1 .. MaxVersion
      BY <3>1, SupersededRow DEF TypeOK, MappingRows
    <3>3. r.version <= Latest(a)
      BY <1>1, <3>2 DEF Numbered, RowsOf
    <3> QED
      BY <1>1, <3>2, <3>3, MappingAssumption DEF MappingAssumption
  <2>2. CASE \E b \in W : x = NextRow(b, by)
    <3>1. a \in W /\ x.version = Latest(a) + 1
      BY <2>2 DEF NextRow
    <3> QED
      BY <1>1, <3>1
  <2> QED
    BY <2>1, <2>2, RowsAfter
<1>4. \A v \in 1 .. n : \E x \in mappings' : x.account = a /\ x.version = v
  <2> SUFFICES ASSUME NEW v \in 1 .. n PROVE \E x \in mappings' : x.account = a /\ x.version = v
    OBVIOUS
  <2>1. CASE v \in 1 .. Latest(a)
    <3>1. PICK r \in RowsOf(a) : r.version = v
      BY <1>1, <2>1 DEF Numbered
    <3>2. r \in mappings /\ Superseded(r, W) \in mappings'
      BY <3>1 DEF RowsOf, WriteNext
    <3>3. r.account = a
      BY <3>1 DEF RowsOf
    <3>4. Superseded(r, W).account = a /\ Superseded(r, W).version = v
      BY <3>1, <3>2, <3>3, SupersededRow
    <3> QED
      BY <3>2, <3>4
  <2>2. CASE v \notin 1 .. Latest(a)
    <3>1. a \in W /\ v = Latest(a) + 1
      BY <1>1, <2>2
    <3>2. NextRow(a, by) \in mappings' /\ NextRow(a, by).account = a /\ NextRow(a, by).version = v
      BY <3>1, NextRows DEF NextRow
    <3> QED
      BY <3>2
  <2> QED
    BY <2>1, <2>2
<1>5. \E k \in 0 .. MaxVersion : Numbered(a, k)'
  <2> HIDE DEF n
  <2>1. PICK k \in 0 .. MaxVersion : k = n
    BY <1>2
  <2>2. Numbered(a, k)'
    BY <1>3, <1>4, <2>1 DEF Numbered, RowsOf
  <2> QED
    BY <2>2
<1> HIDE DEF n
<1>6. Latest(a)' = n
  <2>1. \A r \in RowsOf(a)' : r.version \in Nat \ {0}
    BY RowsTyped, MappingAssumption DEF RowsOf, MappingRows, MappingAssumption
  <2>2. \A r \in RowsOf(a)' : r.version <= n
    BY <1>3 DEF RowsOf
  <2>3. n # 0 => \E r \in RowsOf(a)' : r.version = n
    BY <1>2, <1>4, MappingAssumption DEF RowsOf, MappingAssumption
  <2>4. n \in Nat
    BY <1>2, MappingAssumption DEF MappingAssumption
  <2> DEFINE R == RowsOf(a)'
  <2>5. (IF R = {} THEN 0 ELSE (CHOOSE r \in R : \A q \in R : q.version <= r.version).version) = n
    <3> HIDE DEF R
    <3> QED
      BY <2>1, <2>2, <2>3, <2>4, Highest DEF R
  <2> QED
    BY <2>5 DEF Latest
<1> QED
  BY <1>2, <1>5, <1>6 DEF n
-----------------------------------------------------------------------------
(* A table that was sound is sound after the next versions. *)

\* After a write the versions still count up, the last one in force.
LEMMA TableAfter ==
  ASSUME TypeOK, TableSound, NEW W \in SUBSET Accounts, NEW by \in {"ai", "override"} \cup Proposals,
         WriteNext(W, by)
  PROVE  TableSound'
<1>1. \A a \in Accounts : \E n \in 0 .. MaxVersion : Numbered(a, n)'
  BY NumberedAfter
<1>2. ASSUME NEW r \in mappings
      PROVE  r \in MappingRows /\ r.account \in Accounts /\ r.version <= Latest(r.account)
             /\ r.version \in Nat /\ Latest(r.account) \in Nat
  <2>1. r \in MappingRows /\ r.account \in Accounts /\ r \in RowsOf(r.account)
    BY DEF TypeOK, MappingRows, RowsOf
  <2>2. Latest(r.account) \in 0 .. MaxVersion /\ Numbered(r.account, Latest(r.account))
    BY <2>1, LatestNumbers
  <2> QED
    BY <2>1, <2>2, MappingAssumption DEF Numbered, MappingRows, MappingAssumption
<1>3. \A x, y \in mappings' : x.account = y.account /\ x.version = y.version => x = y
  <2> SUFFICES ASSUME NEW x \in mappings', NEW y \in mappings',
                      x.account = y.account, x.version = y.version
               PROVE  x = y
    OBVIOUS
  <2>1. ASSUME NEW r \in mappings, NEW q \in mappings, x = Superseded(r, W), y = Superseded(q, W)
        PROVE  x = y
    <3>1. r.account = q.account /\ r.version = q.version
      BY <2>1, SupersededRow
    <3>2. r = q
      BY <3>1 DEF TableSound
    <3> QED
      BY <2>1, <3>2
  <2>2. ASSUME NEW r \in mappings, NEW a \in W, r.account = a, r.version = Latest(a) + 1 PROVE FALSE
    BY <1>2, <2>2
  <2>3. ASSUME NEW a \in W PROVE NextRow(a, by).account = a /\ NextRow(a, by).version = Latest(a) + 1
    BY DEF NextRow
  <2>4. ASSUME NEW a \in W, NEW b \in W, x = NextRow(a, by), y = NextRow(b, by) PROVE x = y
    BY <2>3, <2>4
  <2>5. ASSUME NEW r \in mappings, NEW a \in W, x = Superseded(r, W), y = NextRow(a, by) PROVE FALSE
    <3>1. r.account = x.account /\ r.version = x.version
      BY <2>5, SupersededRow
    <3> QED
      BY <2>2, <2>3, <2>5, <3>1
  <2>6. ASSUME NEW r \in mappings, NEW a \in W, y = Superseded(r, W), x = NextRow(a, by) PROVE FALSE
    <3>1. r.account = y.account /\ r.version = y.version
      BY <2>6, SupersededRow
    <3> QED
      BY <2>2, <2>3, <2>6, <3>1
  <2> QED
    BY <2>1, <2>4, <2>5, <2>6, RowsAfter
<1>4. \A x, y \in mappings' : x.account = y.account /\ x.active => y.version <= x.version
  <2> SUFFICES ASSUME NEW x \in mappings', NEW y \in mappings', x.account = y.account, x.active
               PROVE  y.version <= x.version
    OBVIOUS
  <2>1. CASE \E r \in mappings : x = Superseded(r, W)
    <3>1. PICK r \in mappings : x = Superseded(r, W)
      BY <2>1
    <3> DEFINE s == Superseded(r, W)
    <3>0. s.account = r.account /\ s.version = r.version /\ (s.active <=> r.active /\ r.account \notin W)
      BY SupersededRow
    <3>2. r.account = x.account /\ r.version = x.version /\ r.active /\ r.account \notin W
      <4> HIDE DEF s
      <4>1. x = s
        BY <3>1 DEF s
      <4> QED
        BY <3>0, <4>1, Zenon
    <3>3. PICK q \in mappings : y = Superseded(q, W)
      BY <3>2, RowsAfter DEF NextRow
    <3>4. q.account = r.account /\ q.version = y.version
      BY <3>2, <3>3, SupersededRow
    <3>5. q.version <= r.version
      BY <3>2, <3>4, Zenon DEF TableSound
    <3> QED
      BY <3>2, <3>4, <3>5
  <2>2. CASE \E a \in W : x = NextRow(a, by)
    <3>1. PICK a \in W : x.account = a /\ x.version = Latest(a) + 1
      BY <2>2 DEF NextRow
    <3>2. CASE \E q \in mappings : y = Superseded(q, W)
      <4>0. PICK q \in mappings : y = Superseded(q, W)
        BY <3>2
      <4>1. q.account = a /\ q.version = y.version
        BY <3>1, <4>0, SupersededRow
      <4>2. q.version <= Latest(a) /\ q.version \in Nat /\ Latest(a) \in Nat
        BY <1>2, <4>1
      <4> QED
        BY <3>1, <4>1, <4>2
    <3>3. CASE \E b \in W : y = NextRow(b, by)
      <4>1. PICK b \in W : y.account = b /\ y.version = Latest(b) + 1
        BY <3>3 DEF NextRow
      <4>2. a = b
        BY <3>1, <4>1
      <4>3. Latest(a) \in Nat
        BY LatestNumbers, MappingAssumption DEF MappingAssumption
      <4> QED
        BY <3>1, <4>1, <4>2, <4>3
    <3> QED
      BY <3>2, <3>3, RowsAfter
  <2> QED
    BY <2>1, <2>2, RowsAfter
<1> QED
  BY <1>1, <1>3, <1>4 DEF TableSound

\* Nobody's versions go away.
LEMMA VersionsStay ==
  ASSUME TypeOK, TableSound, NEW W \in SUBSET Accounts, NEW by \in {"ai", "override"} \cup Proposals,
         WriteNext(W, by), NEW a, NEW v, \E r \in RowsOf(a) : r.version = v
  PROVE  \E x \in RowsOf(a)' : x.version = v
<1>1. PICK r \in mappings : r.account = a /\ r.version = v
  BY DEF RowsOf
<1>2. Superseded(r, W) \in mappings' /\ Superseded(r, W).account = a /\ Superseded(r, W).version = v
  BY <1>1, SupersededRow DEF WriteNext
<1> QED
  BY <1>2 DEF RowsOf

\* The versions a proposal is behind: those it was, and the new ones if it is theirs.
LEMMA AuthorsAfter ==
  ASSUME TypeOK, TableSound, NEW W \in SUBSET Accounts, NEW by \in {"ai", "override"} \cup Proposals,
         WriteNext(W, by), NEW p \in Proposals, p # by, Applied(p), proposal'[p] = proposal[p]
  PROVE  Applied(p)'
<1>1. ASSUME NEW x \in mappings', x.by = p
      PROVE  \E r \in mappings : x = Superseded(r, W) /\ r.by = p
  <2>1. PICK r \in mappings : x = Superseded(r, W)
    BY <1>1, RowsAfter DEF NextRow
  <2> QED
    BY <1>1, <2>1, SupersededRow
<1>2. \A x, y \in mappings' : x.by = p /\ y.by = p => x = y
  BY <1>1 DEF Applied
<1>3. ASSUME NEW r \in mappings, r.by = p PROVE \E x \in mappings' : x.by = p
  <2>1. Superseded(r, W) \in mappings' /\ Superseded(r, W).by = p
    BY <1>3, SupersededRow DEF WriteNext
  <2> QED
    BY <2>1
<1>4. (\E x \in mappings' : x.by = p) <=> \E r \in mappings : r.by = p
  BY <1>1, <1>3
<1> QED
  BY <1>2, <1>4, Zenon DEF Applied
-----------------------------------------------------------------------------
(* The steps that write mappings. *)

\* What an override or a decision has read is the latest version if the next one
\* is not taken: the write puts the next version in the place of the latest.
LEMMA NextVersionWrites ==
  ASSUME MappingInv, NEW c \in Connections, tx[c].op \in {"override", "decide"},
         tx[c].account # NoAccount, NEW by,
         tx[c].base < MaxVersion, ~Taken(tx[c].account, tx[c].base + 1),
         mappings' = NextVersion(tx[c].account, tx[c].base, by)
  PROVE  tx[c].account \in Accounts /\ WriteNext({tx[c].account}, by)
<1> DEFINE a == tx[c].account
           base == tx[c].base
<1>1. a \in Accounts /\ base \in 0 .. MaxVersion
  BY DEF MappingInv, TypeOK, Transactions
<1>2. Latest(a) \in 0 .. MaxVersion /\ Numbered(a, Latest(a))
  BY <1>1, LatestNumbers DEF MappingInv
<1>3. base = 0 \/ \E r \in RowsOf(a) : r.version = base
  BY DEF MappingInv, BaseRead
<1>4. base <= Latest(a)
  BY <1>1, <1>2, <1>3, MappingAssumption DEF Numbered, MappingAssumption
<1>5. \A r \in RowsOf(a) : r.version # base + 1
  BY DEF Taken, RowsOf
<1> HIDE DEF a, base
<1>6. base = Latest(a)
  <2>1. base < Latest(a) => base + 1 \in 1 .. Latest(a)
    BY <1>1, <1>2, MappingAssumption DEF MappingAssumption
  <2>2. ~ base + 1 \in 1 .. Latest(a)
    BY <1>2, <1>5 DEF Numbered
  <2> QED
    BY <1>1, <1>2, <1>4, <2>1, <2>2, MappingAssumption DEF MappingAssumption
<1>7. \A r \in mappings : Superseded(r, {a}) =
        IF r.account = a /\ r.version = base THEN [r EXCEPT !.active = FALSE] ELSE r
  BY <1>6 DEF Superseded
<1>8. mappings' = {Superseded(r, {a}) : r \in mappings} \cup {NextRow(a, by)}
  <2>1. NextVersion(a, base, by)
          = {Superseded(r, {a}) : r \in mappings} \cup {NextRow(a, by)}
    BY <1>6, <1>7 DEF NextVersion, NextRow
  <2> QED
    BY <2>1 DEF a, base
<1>9. WriteNext({a}, by)
  BY <1>6, <1>8 DEF WriteNext, base, a
<1> QED
  BY <1>1, <1>9 DEF a

\* The AI worker's rows are the first ones of their accounts.
LEMMA InsertsWrite ==
  ASSUME MappingInv, NEW w \in Connections, NEW got \in SUBSET tx[w].todo,
         \A r \in AiInserts(w, got) : ~Taken(r.account, r.version),
         mappings' = mappings \cup AiInserts(w, got)
  PROVE  got \in SUBSET Accounts /\ WriteNext(got, "ai") /\ \A a \in got : RowsOf(a) = {}
<1>1. got \in SUBSET Accounts
  BY DEF MappingInv, TypeOK, Transactions
<1>2. ASSUME NEW a \in got PROVE ~Taken(a, 1)
  <2> DEFINE r == [account |-> a, version |-> 1, active |-> TRUE, by |-> "ai"]
  <2>1. r \in AiInserts(w, got)
    BY DEF AiInserts
  <2>2. ~Taken(r.account, r.version)
    BY <2>1
  <2> QED
    BY <2>2
<1>3. ASSUME NEW a \in got PROVE Latest(a) = 0 /\ RowsOf(a) = {}
  <2>1. Latest(a) \in 0 .. MaxVersion /\ Numbered(a, Latest(a))
    BY <1>1, LatestNumbers DEF MappingInv
  <2>2. Latest(a) = 0
    BY <1>2, <2>1, MappingAssumption DEF Numbered, Taken, RowsOf, MappingAssumption
  <2>3. \A r \in RowsOf(a) : r.version <= 0 /\ r.version \in 1 .. MaxVersion
    BY <2>1, <2>2 DEF Numbered, MappingInv, TypeOK, MappingRows, RowsOf
  <2> QED
    BY <2>2, <2>3, MappingAssumption DEF MappingAssumption
<1>4. \A r \in mappings : Superseded(r, got) = r
  BY <1>3 DEF Superseded, RowsOf
<1>5. {Superseded(r, got) : r \in mappings} = mappings
  BY <1>4
<1>6. ASSUME NEW a \in got
      PROVE  NextRow(a, "ai") = [account |-> a, version |-> 1, active |-> TRUE, by |-> "ai"]
  <2>1. Latest(a) + 1 = 1
    BY <1>3
  <2> QED
    BY <2>1 DEF NextRow
<1>7. {NextRow(a, "ai") : a \in got} = AiInserts(w, got)
  BY <1>6 DEF AiInserts
<1>8. \A a \in got : Latest(a) < MaxVersion
  BY <1>3, MappingAssumption DEF MappingAssumption
<1> QED
  BY <1>1, <1>3, <1>5, <1>7, <1>8 DEF WriteNext

\* Every step leaves the table alone or writes the next version of some accounts,
\* for the worker or for one request that ends with it.
ByRequest(s) ==
  /\ tx[s].op \in {"override", "decide"} /\ tx[s].account # NoAccount
  /\ tx[s].account \in Accounts
  /\ WriteNext({tx[s].account}, IF tx[s].op = "override" THEN "override" ELSE tx[s].proposal)
  /\ End(s)
  /\ IF tx[s].op = "override" THEN UNCHANGED proposal
     ELSE proposal' = [proposal EXCEPT ![tx[s].proposal].status = "approved"]

ByWorker(w) ==
  /\ tx[w].op = "ai"
  /\ \E got \in SUBSET Accounts : WriteNext(got, "ai") /\ \A a \in got : RowsOf(a) = {}
  /\ End(w)
  /\ UNCHANGED proposal

\* The commit of an approval that found an account writes for one request.
LEMMA ApprovalWrites ==
  ASSUME MappingInv, NEW s \in Sessions, CommitApprove(s), tx[s].account # NoAccount
  PROVE  ByRequest(s)
<1>1. s \in Connections /\ tx[s].op = "decide"
  BY DEF Connections, CommitApprove
<1>2. tx[s].account \in Accounts /\ WriteNext({tx[s].account}, tx[s].proposal)
  BY <1>1, NextVersionWrites DEF CommitApprove
<1> QED
  BY <1>1, <1>2 DEF ByRequest, CommitApprove

\* The mappings are written by the commits of requests and of workers, and by nothing else.
LEMMA TableSteps ==
  ASSUME MappingInv, Next
  PROVE  \/ UNCHANGED mappings
         \/ \E s \in Sessions : ByRequest(s)
         \/ \E w \in Workers : ByWorker(w)
<1>1. ASSUME NEW w \in Workers, CommitAi(w)
      PROVE  UNCHANGED mappings \/ ByWorker(w)
  <2>1. w \in Connections
    BY DEF Connections
  <2>2. ASSUME NEW got \in SUBSET tx[w].todo,
               \A r \in AiInserts(w, got) : ~Taken(r.account, r.version),
               mappings' = mappings \cup AiInserts(w, got)
        PROVE  ByWorker(w)
    <3>1. got \in SUBSET Accounts /\ WriteNext(got, "ai") /\ \A a \in got : RowsOf(a) = {}
      BY <2>1, <2>2, InsertsWrite
    <3> QED
      BY <1>1, <3>1 DEF ByWorker, CommitAi
  <2> QED
    BY <1>1, <2>2 DEF CommitAi, Classified
<1>2. ASSUME NEW s \in Sessions, CommitOverride(s) PROVE ByRequest(s)
  <2>1. s \in Connections /\ tx[s].op = "override"
    BY <1>2 DEF Connections, CommitOverride
  <2>2. tx[s].account # NoAccount
    BY <2>1 DEF MappingInv, BaseRead
  <2>3. tx[s].account \in Accounts /\ WriteNext({tx[s].account}, "override")
    BY <1>2, <2>1, <2>2, NextVersionWrites DEF CommitOverride
  <2> QED
    BY <1>2, <2>1, <2>2, <2>3 DEF ByRequest, CommitOverride
<1>3. ASSUME NEW s \in Sessions, CommitApprove(s) PROVE UNCHANGED mappings \/ ByRequest(s)
  BY <1>3, ApprovalWrites DEF CommitApprove
<1>4. ASSUME NEW s \in Sessions, Request(s) PROVE UNCHANGED mappings \/ ByRequest(s)
  BY <1>2, <1>3, <1>4 DEF Request, BeginImport, BeginUpload, EnqueueImport, CommitImport, ReadOverride,
     ReadDecide, CommitReject, ReadCarry, CommitCarry, Rollback
<1>5. ASSUME NEW w \in Workers, WorkerEnds(w) PROVE UNCHANGED mappings \/ ByWorker(w)
  BY <1>1, <1>5 DEF WorkerEnds, CommitAuto, WorkerFails
<1> QED
  BY <1>4, <1>5 DEF Next, Propose, RunAi, WindowEnds, PickUp, Stall
-----------------------------------------------------------------------------
(* Types. *)

\* A job that is enqueued has its type.
LEMMA EnqueueTyped ==
  ASSUME TypeOK, NEW q \in Queues, Enqueue(q)
  PROVE  job' \in [Jobs -> {NoEntry} \cup QueueEntries] /\ throttled' \subseteq Queues
<1>1. CASE q \in throttled
  BY <1>1 DEF Enqueue, TypeOK
<1>2. CASE q \notin throttled
  <2>1. PICK j \in Jobs :
          job' = [job EXCEPT ![j] = [NoEntry EXCEPT !.queue = q, !.state = "waiting"]]
    BY <1>2 DEF Enqueue
  <2>2. [NoEntry EXCEPT !.queue = q, !.state = "waiting"] \in QueueEntries
    BY DEF NoEntry, QueueEntries
  <2> QED
    BY <1>2, <2>1, <2>2 DEF Enqueue, TypeOK
<1> QED
  BY <1>1, <1>2

\* So has one that finishes.
LEMMA FinishTyped ==
  ASSUME TypeOK, NEW j, NEW state \in {"completed", "failed"}, Finish(j, state)
  PROVE  job' \in [Jobs -> {NoEntry} \cup QueueEntries]
<1>1. ASSUME j \in Jobs, job[j].state = "active"
      PROVE  [job[j] EXCEPT !.state = state] \in QueueEntries
  BY <1>1 DEF TypeOK, QueueEntries, NoEntry
<1> QED
  BY <1>1 DEF Finish, TypeOK

\* The latest version is a version, or 0.
LEMMA LatestTyped ==
  ASSUME TypeOK, TableSound, NEW a \in Accounts \cup {NoAccount}
  PROVE  Latest(a) \in 0 .. MaxVersion
BY LatestNumbers, NoAccountUnmapped, MappingAssumption DEF MappingAssumption

\* A connection without a transaction has its type.
LEMMA NoTxTyped == NoTx \in Transactions
BY MappingAssumption DEF NoTx, Transactions, MappingAssumption

\* A transaction that ends leaves a typed table of them.
LEMMA EndTyped ==
  ASSUME TypeOK, NEW c, End(c) PROVE tx' \in [Connections -> Transactions]
BY NoTxTyped DEF TypeOK, End

\* Every step leaves the mappings typed and their versions counting up.
LEMMA MappingsSound ==
  ASSUME MappingInv, Next PROVE mappings' \subseteq MappingRows /\ TableSound'
<1>1. CASE UNCHANGED mappings
  BY <1>1 DEF MappingInv, TypeOK, TableSound, Numbered, RowsOf
<1>2. ASSUME NEW s \in Sessions, ByRequest(s) PROVE mappings' \subseteq MappingRows /\ TableSound'
  <2> DEFINE by == IF tx[s].op = "override" THEN "override" ELSE tx[s].proposal
  <2>1. by \in {"ai", "override"} \cup Proposals /\ {tx[s].account} \in SUBSET Accounts
    BY <1>2 DEF MappingInv, DecisionHeld, ByRequest
  <2>2. WriteNext({tx[s].account}, by)
    BY <1>2 DEF ByRequest
  <2> HIDE DEF by
  <2> QED
    BY <2>1, <2>2, RowsTyped, TableAfter DEF MappingInv
<1>3. ASSUME NEW w \in Workers, ByWorker(w) PROVE mappings' \subseteq MappingRows /\ TableSound'
  BY <1>3, RowsTyped, TableAfter DEF MappingInv, ByWorker
<1> QED
  BY <1>1, <1>2, <1>3, TableSteps

\* Every step leaves the proposals typed.
LEMMA ProposalsTyped ==
  ASSUME MappingInv, Next PROVE proposal' \in [Proposals -> {NoRow} \cup ProposalRows]
<1> USE DEF MappingInv, TypeOK
<1>1. ASSUME NEW p \in Proposals, NEW a \in Accounts \cup {NoAccount},
             NEW src \in {"user", "carry_forward"}, Propose(p, a, src)
      PROVE  proposal' \in [Proposals -> {NoRow} \cup ProposalRows]
  BY <1>1 DEF Propose, ProposalRows
<1>2. ASSUME NEW s \in Sessions, tx[s].op = "decide", NEW st \in {"approved", "rejected"},
             proposal' = [proposal EXCEPT ![tx[s].proposal].status = st]
      PROVE  proposal' \in [Proposals -> {NoRow} \cup ProposalRows]
  <2>1. tx[s].proposal \in Proposals /\ proposal[tx[s].proposal].status = "pending"
    BY <1>2 DEF DecisionHeld
  <2>2. proposal[tx[s].proposal] \in ProposalRows
    BY <2>1 DEF NoRow
  <2>3. [proposal[tx[s].proposal] EXCEPT !.status = st] \in ProposalRows
    BY <2>2 DEF ProposalRows
  <2> QED
    BY <1>2, <2>3
<1>3. ASSUME NEW s \in Sessions, CommitCarry(s)
      PROVE  proposal' \in [Proposals -> {NoRow} \cup ProposalRows]
  <2>1. tx[s].todo \subseteq Accounts
    BY DEF Connections, Transactions
  <2>2. PICK id \in [tx[s].todo -> {p \in Proposals : proposal[p] = NoRow}] :
          proposal' = [p \in Proposals |->
            IF \E a \in tx[s].todo : id[a] = p
              THEN [account |-> CHOOSE a \in tx[s].todo : id[a] = p,
                    source |-> "carried", status |-> "pending"]
              ELSE proposal[p]]
    BY <1>3 DEF CommitCarry
  <2>3. ASSUME NEW p \in Proposals PROVE proposal'[p] \in {NoRow} \cup ProposalRows
    <3>1. CASE \E a \in tx[s].todo : id[a] = p
      <4>1. (CHOOSE a \in tx[s].todo : id[a] = p) \in Accounts
        BY <2>1, <3>1
      <4> QED
        BY <2>2, <3>1, <4>1 DEF ProposalRows
    <3>2. CASE ~ \E a \in tx[s].todo : id[a] = p
      BY <2>2, <3>2
    <3> QED
      BY <3>1, <3>2
  <2> QED
    BY <2>2, <2>3
<1>4. ASSUME NEW s \in Sessions, Request(s)
      PROVE  proposal' \in [Proposals -> {NoRow} \cup ProposalRows]
  <2>1. CASE CommitApprove(s) \/ CommitReject(s)
    BY <1>2, <2>1 DEF CommitApprove, CommitReject
  <2>2. CASE CommitCarry(s)
    BY <1>3, <2>2
  <2>3. CASE UNCHANGED proposal
    BY <2>3
  <2> QED
    BY <1>4, <2>1, <2>2, <2>3 DEF Request, BeginImport, BeginUpload, EnqueueImport, CommitImport,
       ReadOverride, CommitOverride, ReadDecide, ReadCarry, Rollback
<1>5. CASE UNCHANGED proposal
  BY <1>5
<1> QED
  BY <1>1, <1>4, <1>5 DEF Next, RunAi, WindowEnds, PickUp, Stall, WorkerEnds, CommitAi, CommitAuto, WorkerFails

\* Every step leaves the accounts, queues, jobs and transactions typed.
LEMMA OthersTyped ==
  ASSUME MappingInv, Next
  PROVE  /\ accounts' \subseteq Accounts /\ throttled' \subseteq Queues
         /\ job' \in [Jobs -> {NoEntry} \cup QueueEntries]
         /\ tx' \in [Connections -> Transactions]
<1> DEFINE Typed == /\ accounts' \subseteq Accounts /\ throttled' \subseteq Queues
                    /\ job' \in [Jobs -> {NoEntry} \cup QueueEntries]
                    /\ tx' \in [Connections -> Transactions]
<1>0. TypeOK /\ TableSound
  BY DEF MappingInv
<1>1. ASSUME NEW c \in Connections PROVE tx[c] \in Transactions
  BY <1>0 DEF TypeOK
<1>2. ASSUME NEW s \in Sessions, Request(s) PROVE Typed
  <2>1. s \in Connections /\ tx[s] \in Transactions
    BY <1>1 DEF Connections
  <2>2. ASSUME NEW a \in Accounts, BeginImport(s, a) \/ BeginUpload(s, a) PROVE Typed
    <3>1. [NoTx EXCEPT !.op = "import", !.account = a] \in Transactions
          /\ [NoTx EXCEPT !.op = "upload", !.account = a] \in Transactions
      BY NoTxTyped DEF Transactions
    <3> QED
      BY <1>0, <2>2, <3>1 DEF BeginImport, BeginUpload, TypeOK
  <2>3. CASE EnqueueImport(s)
    <3>1. [tx[s] EXCEPT !.op = "imported"] \in Transactions
      BY <2>1 DEF Transactions
    <3>2. tx' \in [Connections -> Transactions]
      BY <1>0, <2>3, <3>1 DEF EnqueueImport, TypeOK
    <3>3. job' \in [Jobs -> {NoEntry} \cup QueueEntries] /\ throttled' \subseteq Queues
      BY <1>0, <2>3, EnqueueTyped DEF EnqueueImport, Queues
    <3> QED
      BY <1>0, <2>3, <3>2, <3>3 DEF EnqueueImport, TypeOK
  <2>4. CASE CommitImport(s)
    <3>1. tx[s].account \in Accounts
      BY <2>1, <2>4 DEF CommitImport, MappingInv, Importing
    <3> QED
      BY <1>0, <2>4, <3>1, EndTyped DEF CommitImport, TypeOK
  <2>5. ASSUME NEW a \in Accounts, ReadOverride(s, a) PROVE Typed
    <3>1. [NoTx EXCEPT !.op = "override", !.account = a, !.base = Latest(a)] \in Transactions
      BY <1>0, NoTxTyped, LatestTyped DEF Transactions
    <3> QED
      BY <1>0, <2>5, <3>1 DEF ReadOverride, TypeOK
  <2>6. CASE CommitOverride(s) \/ CommitApprove(s) \/ CommitReject(s) \/ CommitCarry(s) \/ Rollback(s)
    BY <1>0, <2>6, EndTyped DEF CommitOverride, CommitApprove, CommitReject, CommitCarry, Rollback, TypeOK
  <2>7. ASSUME NEW p \in Proposals, ReadDecide(s, p) PROVE Typed
    <3>1. proposal[p].account \in Accounts \cup {NoAccount}
      BY <1>0 DEF TypeOK, ProposalRows, NoRow
    <3>2. [NoTx EXCEPT !.op = "decide", !.proposal = p, !.account = proposal[p].account,
                       !.base = Latest(proposal[p].account)] \in Transactions
      BY <1>0, <3>1, NoTxTyped, LatestTyped DEF Transactions
    <3> QED
      BY <1>0, <2>7, <3>2 DEF ReadDecide, TypeOK
  <2>8. CASE ReadCarry(s)
    <3>1. ToCarry \in SUBSET Accounts
      BY <1>0 DEF TypeOK, ToCarry
    <3>2. [NoTx EXCEPT !.op = "carry", !.todo = ToCarry] \in Transactions
      BY <3>1, NoTxTyped DEF Transactions
    <3> QED
      BY <1>0, <2>8, <3>2 DEF ReadCarry, TypeOK
  <2> QED
    BY <1>2, <2>2, <2>3, <2>4, <2>5, <2>6, <2>7, <2>8 DEF Request
<1>3. ASSUME NEW w \in Workers, NEW j \in Jobs, PickUp(w, j) PROVE Typed
  <2>1. job[j] \in QueueEntries
    BY <1>0, <1>3 DEF PickUp, TypeOK, NoEntry
  <2>2. [job[j] EXCEPT !.state = "active"] \in QueueEntries
    BY <2>1 DEF QueueEntries
  <2>3. accounts \ Mapped \in SUBSET Accounts
    BY <1>0 DEF TypeOK
  <2>4. [NoTx EXCEPT !.op = job[j].queue, !.job = j, !.todo = accounts \ Mapped] \in Transactions
    BY <2>1, <2>3, NoTxTyped DEF Transactions, QueueEntries, Queues
  <2> QED
    BY <1>0, <1>3, <2>2, <2>4 DEF PickUp, TypeOK
<1>4. ASSUME NEW j \in Jobs, Stall(j) PROVE Typed
  <2>1. job[j] \in QueueEntries
    BY <1>0, <1>4 DEF Stall, TypeOK, NoEntry
  <2>2. [job[j] EXCEPT !.state = IF job[j].stalled THEN "failed" ELSE "waiting",
                       !.stalled = TRUE] \in QueueEntries
    BY <2>1 DEF QueueEntries
  <2> QED
    BY <1>0, <1>4, <2>2 DEF Stall, TypeOK
<1>5. ASSUME NEW w \in Workers, WorkerEnds(w) PROVE Typed
  <2>1. \E state \in {"completed", "failed"} : Finish(tx[w].job, state)
    BY <1>5 DEF WorkerEnds, CommitAi, CommitAuto, WorkerFails
  <2> QED
    BY <1>0, <1>5, <2>1, FinishTyped, EndTyped DEF WorkerEnds, CommitAi, CommitAuto, WorkerFails, TypeOK
<1>6. CASE RunAi
  BY <1>0, <1>6, EnqueueTyped DEF RunAi, Queues, TypeOK
<1>7. ASSUME NEW p \in Proposals, NEW a \in Accounts \cup {NoAccount},
             NEW src \in {"user", "carry_forward"}, Propose(p, a, src)
      PROVE  Typed
  BY <1>0, <1>7 DEF Propose, TypeOK
<1>8. ASSUME NEW q \in Queues, WindowEnds(q) PROVE Typed
  BY <1>0, <1>8 DEF WindowEnds, TypeOK
<1> QED
  BY <1>2, <1>3, <1>4, <1>5, <1>6, <1>7, <1>8 DEF Next
-----------------------------------------------------------------------------
(* What the transactions have read. *)

\* What a connection has read of a table that only grows stays true.
LEMMA BasesStay ==
  ASSUME MappingInv, Next, NEW a, NEW v, \E r \in RowsOf(a) : r.version = v
  PROVE  \E r \in RowsOf(a)' : r.version = v
<1>1. CASE UNCHANGED mappings
  BY <1>1 DEF RowsOf
<1>2. ASSUME NEW s \in Sessions, ByRequest(s) PROVE \E r \in RowsOf(a)' : r.version = v
  <2> DEFINE by == IF tx[s].op = "override" THEN "override" ELSE tx[s].proposal
  <2>1. by \in {"ai", "override"} \cup Proposals /\ {tx[s].account} \in SUBSET Accounts
    BY <1>2 DEF MappingInv, DecisionHeld, ByRequest
  <2>2. WriteNext({tx[s].account}, by)
    BY <1>2 DEF ByRequest
  <2> HIDE DEF by
  <2> QED
    BY <2>1, <2>2, VersionsStay DEF MappingInv
<1>3. ASSUME NEW w \in Workers, ByWorker(w) PROVE \E r \in RowsOf(a)' : r.version = v
  BY <1>3, VersionsStay DEF MappingInv, ByWorker
<1> QED
  BY <1>1, <1>2, <1>3, TableSteps

\* A base that was just read is the latest version, or there is none.
LEMMA JustRead ==
  ASSUME MappingInv, NEW a \in Accounts \cup {NoAccount}
  PROVE  Latest(a) = 0 \/ \E r \in RowsOf(a) : r.version = Latest(a)
<1>1. CASE a = NoAccount
  BY <1>1, NoAccountUnmapped DEF MappingInv
<1>2. CASE a \in Accounts
  <2>1. Latest(a) \in 0 .. MaxVersion /\ Numbered(a, Latest(a))
    BY <1>2, LatestNumbers DEF MappingInv
  <2> QED
    BY <2>1, MappingAssumption DEF Numbered, MappingAssumption
<1> QED
  BY <1>1, <1>2

\* What a step may do to a connection: nothing, end its transaction, begin one, or
\* go on with an import.
ImportBegun(c) ==
  \E a \in Accounts, op \in {"import", "upload"} : tx'[c] = [NoTx EXCEPT !.op = op, !.account = a]

OverrideRead(c) ==
  \E a \in Accounts :
    tx'[c] = [NoTx EXCEPT !.op = "override", !.account = a, !.base = Latest(a)]

ImportQueued(c) ==
  tx[c].op \in {"import", "upload"} /\ tx'[c] = [tx[c] EXCEPT !.op = "imported"]

JobRead(c) ==
  \E q \in Queues, j \in Jobs : tx'[c] = [NoTx EXCEPT !.op = q, !.job = j, !.todo = accounts \ Mapped]

TxStep(c) ==
  \/ tx'[c] = tx[c] \/ tx'[c] = NoTx
  \/ ImportBegun(c) \/ ImportQueued(c) \/ OverrideRead(c)
  \/ c \in Sessions /\ (ReadCarry(c) \/ \E p \in Proposals : ReadDecide(c, p))
  \/ c \in Workers /\ JobRead(c)

\* What a step makes of one transaction.
LEMMA TxSteps ==
  ASSUME MappingInv, Next, NEW c \in Connections
  PROVE  TxStep(c)
<1>0. TypeOK /\ c \in DOMAIN tx
  BY DEF MappingInv, TypeOK
<1>1. ASSUME NEW d, End(d) PROVE TxStep(c)
  BY <1>0, <1>1 DEF End, TxStep
<1>2. ASSUME NEW s \in Sessions, Request(s) PROVE TxStep(c)
  <2>1. ASSUME NEW a \in Accounts, BeginImport(s, a) \/ BeginUpload(s, a) PROVE TxStep(c)
    BY <1>0, <2>1 DEF BeginImport, BeginUpload, TxStep, ImportBegun
  <2>2. CASE EnqueueImport(s)
    BY <1>0, <2>2 DEF EnqueueImport, TxStep, ImportQueued
  <2>3. ASSUME NEW a \in Accounts, ReadOverride(s, a) PROVE TxStep(c)
    BY <1>0, <2>3 DEF ReadOverride, TxStep, OverrideRead
  <2>4. ASSUME NEW p \in Proposals, ReadDecide(s, p) PROVE TxStep(c)
    <3>1. CASE c = s
      BY <2>4, <3>1 DEF TxStep
    <3>2. CASE c # s
      BY <1>0, <2>4, <3>2 DEF ReadDecide, TxStep
    <3> QED
      BY <3>1, <3>2
  <2>5. CASE ReadCarry(s)
    <3>1. CASE c = s
      BY <2>5, <3>1 DEF TxStep
    <3>2. CASE c # s
      BY <1>0, <2>5, <3>2 DEF ReadCarry, TxStep
    <3> QED
      BY <3>1, <3>2
  <2>6. CASE CommitImport(s) \/ CommitOverride(s) \/ CommitApprove(s) \/ CommitReject(s)
               \/ CommitCarry(s) \/ Rollback(s)
    BY <1>1, <2>6 DEF CommitImport, CommitOverride, CommitApprove, CommitReject, CommitCarry, Rollback
  <2> QED
    BY <1>2, <2>1, <2>2, <2>3, <2>4, <2>5, <2>6 DEF Request
<1>3. ASSUME NEW w \in Workers, NEW j \in Jobs, PickUp(w, j) PROVE TxStep(c)
  <2>1. job[j].queue \in Queues
    BY <1>0, <1>3 DEF PickUp, TypeOK, NoEntry, QueueEntries
  <2>2. CASE c = w
    BY <1>0, <1>3, <2>1, <2>2 DEF PickUp, TxStep, JobRead
  <2>3. CASE c # w
    BY <1>0, <1>3, <2>3 DEF PickUp, TxStep
  <2> QED
    BY <2>2, <2>3
<1>4. ASSUME NEW w \in Workers, WorkerEnds(w) PROVE TxStep(c)
  BY <1>1, <1>4 DEF WorkerEnds, CommitAi, CommitAuto, WorkerFails
<1>5. CASE UNCHANGED tx
  BY <1>5 DEF TxStep
<1> QED
  BY <1>2, <1>3, <1>4, <1>5 DEF Next, Propose, RunAi, WindowEnds, Stall

\* What a transaction has read stays true of the mappings.
LEMMA ReadsStep ==
  ASSUME MappingInv, Next, NEW c \in Connections
  PROVE  BaseRead(c)' /\ Importing(c)'
<1>0. TypeOK /\ BaseRead(c) /\ Importing(c) /\ tx[c] \in Transactions
  BY DEF MappingInv, TypeOK
<1>8. \A a, v : (\E r \in mappings : r.account = a /\ r.version = v)
          => \E r \in mappings' : r.account = a /\ r.version = v
  BY BasesStay DEF RowsOf
<1>9. \A a \in Accounts \cup {NoAccount} :
        Latest(a) = 0 \/ \E r \in mappings' : r.account = a /\ r.version = Latest(a)
  BY <1>8, JustRead DEF RowsOf
<1>1. CASE tx'[c] = tx[c]
  <2>1. tx[c].op \in {"override", "decide"} =>
          tx[c].base = 0 \/ \E r \in mappings' : r.account = tx[c].account /\ r.version = tx[c].base
    BY <1>0, <1>8 DEF BaseRead, RowsOf
  <2> QED
    BY <1>0, <1>1, <2>1 DEF BaseRead, Importing, RowsOf
<1>2. CASE tx'[c] = NoTx
  BY <1>2 DEF BaseRead, Importing, NoTx
<1>3. CASE ImportBegun(c) \/ ImportQueued(c)
  BY <1>0, <1>3 DEF ImportBegun, ImportQueued, BaseRead, Importing, NoTx, Transactions
<1>4. CASE OverrideRead(c)
  <2>1. PICK a \in Accounts : tx'[c] = [NoTx EXCEPT !.op = "override", !.account = a, !.base = Latest(a)]
    BY <1>4 DEF OverrideRead
  <2>2. tx'[c].op = "override" /\ tx'[c].account = a /\ tx'[c].base = Latest(a) /\ a # NoAccount
    BY <2>1, MappingAssumption DEF NoTx, MappingAssumption
  <2> QED
    BY <1>9, <2>2 DEF BaseRead, Importing, RowsOf
<1>5. CASE c \in Sessions /\ ReadCarry(c)
  BY <1>0, <1>5 DEF ReadCarry, BaseRead, Importing, NoTx, TypeOK
<1>6. ASSUME c \in Sessions, NEW p \in Proposals, ReadDecide(c, p) PROVE BaseRead(c)' /\ Importing(c)'
  <2> DEFINE a == proposal[p].account
  <2>1. a \in Accounts \cup {NoAccount}
    BY <1>0 DEF TypeOK, ProposalRows, NoRow
  <2>2. tx'[c].op = "decide" /\ tx'[c].account = a /\ tx'[c].base = Latest(a)
    BY <1>0, <1>6 DEF ReadDecide, NoTx, TypeOK
  <2> HIDE DEF a
  <2> QED
    BY <1>9, <2>1, <2>2 DEF BaseRead, Importing, RowsOf
<1>7. CASE JobRead(c)
  BY <1>7 DEF JobRead, BaseRead, Importing, NoTx, Queues
<1> QED
  BY <1>1, <1>2, <1>3, <1>4, <1>5, <1>6, <1>7, TxSteps DEF TxStep
-----------------------------------------------------------------------------
(* Decisions. *)

\* Only the connection that decides a pending proposal changes it.
LEMMA PendingStays ==
  ASSUME MappingInv, Next, NEW p \in Proposals, proposal[p].status = "pending",
         \A c \in Sessions : tx[c].op = "decide" /\ tx[c].proposal = p => tx'[c] # NoTx
  PROVE  proposal'[p] = proposal[p]
<1>0. TypeOK /\ proposal[p] # NoRow
  BY DEF MappingInv, NoRow
<1>1. ASSUME NEW q \in Proposals, NEW a, NEW src, Propose(q, a, src)
      PROVE  proposal'[p] = proposal[p]
  BY <1>0, <1>1 DEF Propose, TypeOK
<1>2. ASSUME NEW c \in Sessions, CommitApprove(c) \/ CommitReject(c)
      PROVE  proposal'[p] = proposal[p]
  <2>1. tx[c].op = "decide" /\ tx'[c] = NoTx
    BY <1>0, <1>2 DEF CommitApprove, CommitReject, End, TypeOK, Connections
  <2>2. tx[c].proposal # p
    BY <2>1
  <2> QED
    BY <1>0, <1>2, <2>2 DEF CommitApprove, CommitReject, TypeOK
<1>3. ASSUME NEW c \in Sessions, CommitCarry(c)
      PROVE  proposal'[p] = proposal[p]
  BY <1>0, <1>3 DEF CommitCarry
<1>4. ASSUME NEW c \in Sessions, Request(c) PROVE proposal'[p] = proposal[p]
  BY <1>2, <1>3, <1>4 DEF Request, BeginImport, BeginUpload, EnqueueImport, CommitImport,
     ReadOverride, CommitOverride, ReadDecide, ReadCarry, Rollback
<1> QED
  BY <1>1, <1>4 DEF Next, RunAi, WindowEnds, PickUp, Stall, WorkerEnds, CommitAi, CommitAuto, WorkerFails

\* Proposals being decided stay pending, and each has one connection at it.
LEMMA DecisionsStep ==
  ASSUME MappingInv, Next, NEW s \in Sessions
  PROVE  DecisionHeld(s)'
<1>0. TypeOK /\ s \in Connections /\ \A c \in Sessions : DecisionHeld(c) /\ c \in Connections
  BY DEF MappingInv, Connections
<1>1. SUFFICES ASSUME tx'[s].op = "decide"
               PROVE  /\ tx'[s].proposal \in Proposals
                      /\ proposal'[tx'[s].proposal].status = "pending"
                      /\ tx'[s].account = proposal'[tx'[s].proposal].account
                      /\ \A c \in Sessions : tx'[c].op = "decide" /\ tx'[c].proposal = tx'[s].proposal => c = s
  BY DEF DecisionHeld
<1>2. ASSUME NEW c \in Sessions, tx'[c].op = "decide"
      PROVE  (tx'[c] = tx[c]) \/ \E p \in Proposals : ReadDecide(c, p)
  <2>1. TxStep(c)
    BY <1>0, TxSteps
  <2>2. ~ReadCarry(c)
    <3>1. SUFFICES ASSUME ReadCarry(c) PROVE FALSE
      OBVIOUS
    <3>2. tx' = [tx EXCEPT ![c] = [NoTx EXCEPT !.op = "carry", !.todo = ToCarry]]
      BY <3>1 DEF ReadCarry
    <3>3. c \in DOMAIN tx
      BY <1>0 DEF TypeOK, Connections
    <3>4. tx'[c] = [NoTx EXCEPT !.op = "carry", !.todo = ToCarry]
      BY <3>2, <3>3
    <3>5. tx'[c].op = "carry"
      BY <3>4 DEF NoTx
    <3> QED
      BY <1>2, <3>5
  <2>3. ~ImportBegun(c) /\ ~ImportQueued(c) /\ ~OverrideRead(c) /\ ~JobRead(c) /\ tx'[c] # NoTx
    <3>1. ASSUME ImportBegun(c) PROVE tx'[c].op \in {"import", "upload"}
      BY <3>1 DEF ImportBegun, NoTx
    <3>2. ASSUME ImportQueued(c) PROVE tx'[c].op = "imported"
      <4>1. tx[c] \in Transactions
        BY <1>0 DEF TypeOK
      <4> QED
        BY <3>2, <4>1 DEF ImportQueued, Transactions
    <3>3. ASSUME OverrideRead(c) PROVE tx'[c].op = "override"
      BY <3>3 DEF OverrideRead, NoTx
    <3>4. ASSUME JobRead(c) PROVE tx'[c].op \in Queues
      BY <3>4 DEF JobRead, NoTx
    <3>5. ASSUME tx'[c] = NoTx PROVE tx'[c].op = "none"
      BY <3>5 DEF NoTx
    <3> QED
      BY <1>2, <3>1, <3>2, <3>3, <3>4, <3>5 DEF Queues
  <2> QED
    BY <2>1, <2>2, <2>3 DEF TxStep
<1>3. CASE tx'[s] = tx[s]
  <2> DEFINE p == tx[s].proposal
  <2>1. /\ p \in Proposals /\ proposal[p].status = "pending" /\ tx[s].account = proposal[p].account
        /\ \A c \in Sessions : tx[c].op = "decide" /\ tx[c].proposal = p => c = s
    BY <1>0, <1>1, <1>3 DEF DecisionHeld
  <2>2. tx'[s] # NoTx
    BY <1>1 DEF NoTx
  <2>3. proposal'[p] = proposal[p]
    BY <2>1, <2>2, PendingStays
  <2>4. ASSUME NEW c \in Sessions, tx'[c].op = "decide", tx'[c].proposal = p PROVE c = s
    <3>1. CASE tx'[c] = tx[c]
      BY <2>1, <2>4, <3>1
    <3>2. ASSUME NEW q \in Proposals, ReadDecide(c, q) PROVE FALSE
      <4>1. q = p
        BY <1>0, <2>4, <3>2 DEF ReadDecide, NoTx, TypeOK
      <4>2. Deciding(p)
        BY <1>1, <1>3 DEF Deciding
      <4> QED
        BY <3>2, <4>1, <4>2 DEF ReadDecide
    <3> QED
      BY <1>2, <2>4, <3>1, <3>2
  <2> HIDE DEF p
  <2> QED
    BY <1>3, <2>1, <2>3, <2>4 DEF p
<1>4. ASSUME NEW p \in Proposals, ReadDecide(s, p)
      PROVE  /\ tx'[s].proposal = p /\ p \in Proposals
             /\ proposal'[p].status = "pending"
             /\ tx'[s].account = proposal'[p].account
             /\ \A c \in Sessions : tx'[c].op = "decide" /\ tx'[c].proposal = p => c = s
  <2>1. tx'[s].proposal = p /\ tx'[s].account = proposal[p].account
    BY <1>0, <1>4 DEF ReadDecide, NoTx, TypeOK
  <2>2. proposal' = proposal /\ proposal[p].status = "pending" /\ ~Deciding(p)
    BY <1>4 DEF ReadDecide
  <2>3. \A c \in Sessions : c # s => tx'[c] = tx[c]
    BY <1>0, <1>4 DEF ReadDecide, TypeOK
  <2> QED
    BY <2>1, <2>2, <2>3 DEF Deciding
<1> QED
  BY <1>1, <1>2, <1>3, <1>4
\* A decision is behind its version from the step that makes it on.
LEMMA AppliedStep ==
  ASSUME MappingInv, Next, NEW p \in Proposals
  PROVE  Applied(p)'
<1>0. TypeOK /\ TableSound /\ Applied(p) /\ p # "override" /\ p # "ai"
  BY MappingAssumption DEF MappingInv, MappingAssumption
<1> DEFINE Outcome(row) == row.status = "approved" /\ row.account # NoAccount
<1>1. ASSUME UNCHANGED mappings, Outcome(proposal'[p]) <=> Outcome(proposal[p])
      PROVE  Applied(p)'
  BY <1>0, <1>1, Zenon DEF Applied
<1>2. ASSUME NEW s \in Sessions, ByRequest(s) PROVE Applied(p)'
  <2> DEFINE by == IF tx[s].op = "override" THEN "override" ELSE tx[s].proposal
             a  == tx[s].account
  <2>1. by \in {"ai", "override"} \cup Proposals /\ {a} \in SUBSET Accounts
    BY <1>2 DEF MappingInv, DecisionHeld, ByRequest
  <2>2. WriteNext({a}, by)
    BY <1>2 DEF ByRequest
  <2>3. CASE by # p
    <3>1. proposal'[p] = proposal[p]
      BY <1>0, <1>2, <2>3 DEF ByRequest, TypeOK
    <3> HIDE DEF by
    <3> QED
      BY <1>0, <2>1, <2>2, <2>3, <3>1, AuthorsAfter
  <2>4. CASE by = p
    <3>1. tx[s].op = "decide" /\ tx[s].proposal = p
      BY <1>0, <1>2, <2>4 DEF ByRequest
    <3>2. proposal[p].status = "pending" /\ a = proposal[p].account
      BY <3>1 DEF MappingInv, DecisionHeld
    <3>3. \A r \in mappings : r.by # p
      BY <1>0, <3>2 DEF Applied
    <3>4. proposal[p] \in ProposalRows
      BY <1>0, <3>2 DEF TypeOK, NoRow
    <3>5. Outcome(proposal'[p])
      BY <1>0, <1>2, <3>1, <3>2, <3>4 DEF ByRequest, TypeOK, ProposalRows
    <3> HIDE DEF by, a
    <3>6. \A x \in mappings' : x.by = p => x = NextRow(a, by)
      <4> SUFFICES ASSUME NEW x \in mappings', x.by = p PROVE x = NextRow(a, by)
        OBVIOUS
      <4>1. ~ \E r \in mappings : x = Superseded(r, {a})
        BY <1>0, <2>1, <3>3, SupersededRow
      <4> QED
        BY <1>0, <2>1, <2>2, <4>1, RowsAfter
    <3>7. NextRow(a, by) \in mappings' /\ NextRow(a, by).by = p
      BY <1>0, <2>1, <2>2, <2>4, NextRows DEF NextRow
    <3> QED
      BY <3>5, <3>6, <3>7 DEF Applied
  <2> QED
    BY <2>3, <2>4
<1>3. ASSUME NEW w \in Workers, ByWorker(w) PROVE Applied(p)'
  <2>1. PICK got \in SUBSET Accounts : WriteNext(got, "ai")
    BY <1>3 DEF ByWorker
  <2> QED
    BY <1>0, <1>3, <2>1, AuthorsAfter DEF ByWorker
<1>4. ASSUME ~ \E s \in Sessions : ByRequest(s)
      PROVE  Outcome(proposal'[p]) <=> Outcome(proposal[p])
  <2>1. ASSUME NEW q \in Proposals, NEW a, NEW src, Propose(q, a, src)
        PROVE  Outcome(proposal'[p]) <=> Outcome(proposal[p])
    BY <1>0, <2>1 DEF Propose, NoRow, TypeOK
  <2>2. ASSUME NEW s \in Sessions, CommitApprove(s) \/ CommitReject(s)
        PROVE  Outcome(proposal'[p]) <=> Outcome(proposal[p])
    <3>1. tx[s].op = "decide"
      BY <2>2 DEF CommitApprove, CommitReject
    <3>2. /\ proposal[tx[s].proposal].status = "pending"
          /\ tx[s].account = proposal[tx[s].proposal].account
          /\ proposal[tx[s].proposal] \in ProposalRows
      BY <1>0, <3>1 DEF MappingInv, DecisionHeld, TypeOK, NoRow
    <3>3. CASE tx[s].proposal # p
      BY <1>0, <2>2, <3>3 DEF CommitApprove, CommitReject, TypeOK
    <3>4. CASE tx[s].proposal = p /\ CommitReject(s)
      <4>1. proposal'[p] = [proposal[p] EXCEPT !.status = "rejected"]
        BY <1>0, <3>4 DEF CommitReject, TypeOK
      <4> QED
        BY <3>2, <3>4, <4>1 DEF ProposalRows
    <3>5. CASE tx[s].proposal = p /\ CommitApprove(s)
      <4>1. tx[s].account = NoAccount
        BY <1>4, <3>5, ApprovalWrites
      <4>2. proposal'[p] = [proposal[p] EXCEPT !.status = "approved"]
        BY <1>0, <3>5 DEF CommitApprove, TypeOK
      <4> QED
        BY <3>2, <3>5, <4>1, <4>2 DEF ProposalRows
    <3> QED
      BY <2>2, <3>3, <3>4, <3>5
  <2>3. ASSUME NEW s \in Sessions, CommitCarry(s)
        PROVE  Outcome(proposal'[p]) <=> Outcome(proposal[p])
    <3>1. PICK id \in [tx[s].todo -> {q \in Proposals : proposal[q] = NoRow}] :
            proposal'[p] = IF \E a \in tx[s].todo : id[a] = p
              THEN [account |-> CHOOSE a \in tx[s].todo : id[a] = p,
                    source |-> "carried", status |-> "pending"]
              ELSE proposal[p]
      BY <2>3 DEF CommitCarry
    <3>2. CASE \E a \in tx[s].todo : id[a] = p
      BY <3>1, <3>2 DEF NoRow
    <3> QED
      BY <3>1, <3>2
  <2>4. ASSUME NEW s \in Sessions, Request(s)
        PROVE  Outcome(proposal'[p]) <=> Outcome(proposal[p])
    BY <2>2, <2>3, <2>4 DEF Request, BeginImport, BeginUpload, EnqueueImport, CommitImport,
       ReadOverride, CommitOverride, ReadDecide, ReadCarry, Rollback
  <2> QED
    BY <2>1, <2>4 DEF Next, RunAi, WindowEnds, PickUp, Stall, WorkerEnds, CommitAi, CommitAuto, WorkerFails
<1> HIDE DEF Outcome
<1> QED
  BY <1>1, <1>2, <1>3, <1>4, TableSteps
-----------------------------------------------------------------------------
(* The invariant. *)

\* The versions of an account stay numbered without a gap, the newest alone in force,
\* what is read to be written on stays a version, and a decision has one connection.
THEOREM MappingInvariant == Spec => []MappingInv
<1>1. Init => MappingInv
  <2> SUFFICES ASSUME Init PROVE MappingInv
    OBVIOUS
  <2>1. TypeOK
    BY NoTxTyped DEF Init, TypeOK
  <2>2. TableSound
    BY MappingAssumption DEF Init, TableSound, Numbered, RowsOf, MappingAssumption
  <2>3. \A c \in Connections : BaseRead(c) /\ Importing(c)
    BY DEF Init, BaseRead, Importing, NoTx
  <2>4. \A s \in Sessions : DecisionHeld(s)
    BY DEF Init, DecisionHeld, NoTx, Connections
  <2>5. \A p \in Proposals : Applied(p)
    BY DEF Init, Applied, NoRow
  <2> QED
    BY <2>1, <2>2, <2>3, <2>4, <2>5 DEF MappingInv
<1>2. MappingInv /\ [Next]_vars => MappingInv'
  <2> SUFFICES ASSUME MappingInv, [Next]_vars PROVE MappingInv'
    OBVIOUS
  <2>1. CASE Next
    <3>1. TypeOK' /\ TableSound'
      BY <2>1, MappingsSound, ProposalsTyped, OthersTyped DEF TypeOK
    <3>2. \A c \in Connections : BaseRead(c)' /\ Importing(c)'
      BY <2>1, ReadsStep
    <3>3. \A s \in Sessions : DecisionHeld(s)'
      BY <2>1, DecisionsStep
    <3>4. \A p \in Proposals : Applied(p)'
      BY <2>1, AppliedStep
    <3> QED
      BY <3>1, <3>2, <3>3, <3>4 DEF MappingInv
  <2>2. CASE UNCHANGED vars
    BY <2>2 DEF vars, MappingInv, TypeOK, TableSound, Numbered, RowsOf, BaseRead, Importing, DecisionHeld,
       Applied
  <2> QED
    BY <2>1, <2>2
<1> QED
  BY <1>1, <1>2, PTL DEF Spec

\* Every variable keeps its type: the versions stay within their bound, and what a
\* transaction has read are accounts, versions, proposals and jobs.
THEOREM MappingTypeCorrect == Spec => []TypeOK
BY MappingInvariant, PTL DEF MappingInv

\* However requests and workers overlap, an account has at most one mapping in
\* force, its newest, and an approved decision is behind exactly one version.
THEOREM OneMappingInForce == Spec => []OneActivePerAccount
<1>1. MappingInv => OneActivePerAccount
  <2> SUFFICES ASSUME MappingInv PROVE OneActivePerAccount
    OBVIOUS
  <2>0. TypeOK /\ TableSound
    BY DEF MappingInv
  <2>1. ASSUME NEW r \in mappings, NEW q \in mappings, r.account = q.account, r.active
        PROVE  q = r \/ (q.version < r.version /\ ~q.active)
    <3>1. q.version <= r.version /\ (q.active => r.version <= q.version)
      BY <2>0, <2>1, Zenon DEF TableSound
    <3>2. q.version \in Nat /\ r.version \in Nat
      BY <2>0, MappingAssumption DEF TypeOK, MappingRows, MappingAssumption
    <3>3. CASE q.version = r.version
      BY <2>0, <2>1, <3>3 DEF TableSound
    <3>4. CASE q.version < r.version
      <4>1. ~ r.version <= q.version
        BY <3>2, <3>4
      <4> QED
        BY <3>1, <3>4, <4>1
    <3> QED
      BY <3>1, <3>2, <3>3, <3>4
  <2>2. ASSUME NEW p \in Proposals
        PROVE  Cardinality({r \in mappings : r.by = p}) =
                 IF proposal[p].status = "approved" /\ proposal[p].account # NoAccount THEN 1 ELSE 0
    <3> DEFINE behind == {r \in mappings : r.by = p}
    <3>1. Applied(p)
      BY DEF MappingInv
    <3>2. CASE proposal[p].status = "approved" /\ proposal[p].account # NoAccount
      <4>1. PICK r \in mappings : r.by = p
        BY <3>1, <3>2 DEF Applied
      <4>2. behind = {r}
        BY <3>1, <4>1 DEF Applied
      <4> QED
        BY <3>2, <4>2, FS_Singleton
    <3>3. CASE ~(proposal[p].status = "approved" /\ proposal[p].account # NoAccount)
      <4>1. behind = {}
        BY <3>1, <3>3 DEF Applied
      <4> QED
        BY <3>3, <4>1, FS_EmptySet
    <3> QED
      BY <3>2, <3>3
  <2> QED
    BY <2>0, <2>1, <2>2 DEF OneActivePerAccount
<1> QED
  BY <1>1, MappingInvariant, PTL
-----------------------------------------------------------------------------
(* What the steps do to the mappings in force. *)

\* A request writes for its own account, under a person's hand.
LEMMA RequestWrites ==
  ASSUME MappingInv, NEW s \in Sessions, ByRequest(s)
  PROVE  \E a \in Accounts, by \in {"override"} \cup Proposals : WriteNext({a}, by)
BY DEF ByRequest, MappingInv, DecisionHeld

\* A mapping that a person decided on gives way only to another of a person.
LEMMA HumanDecisionKept ==
  ASSUME MappingInv, Next, NEW r \in mappings, r.by # "ai", r.active, r \notin mappings'
  PROVE  \E q \in mappings' : q.account = r.account /\ q.active /\ q.by # "ai"
<1>1. TypeOK /\ TableSound
  BY DEF MappingInv
<1>2. ASSUME NEW a \in Accounts, NEW by \in {"override"} \cup Proposals, WriteNext({a}, by)
      PROVE  \E q \in mappings' : q.account = r.account /\ q.active /\ q.by # "ai"
  <2>1. Superseded(r, {a}) \in mappings'
    BY <1>2 DEF WriteNext
  <2>2. r.account = a
    BY <2>1 DEF Superseded
  <2>3. NextRow(a, by) \in mappings' /\ NextRow(a, by).account = a
        /\ NextRow(a, by).active /\ NextRow(a, by).by # "ai"
    BY <1>2, MappingAssumption DEF WriteNext, NextRow, MappingAssumption
  <2> QED
    BY <2>2, <2>3
<1>3. ASSUME NEW w \in Workers, ByWorker(w) PROVE FALSE
  <2>1. PICK got \in SUBSET Accounts : WriteNext(got, "ai") /\ \A a \in got : RowsOf(a) = {}
    BY <1>3 DEF ByWorker
  <2>2. Superseded(r, got) = r
    BY <2>1 DEF Superseded, RowsOf
  <2> QED
    BY <2>1, <2>2 DEF WriteNext
<1> QED
  BY <1>2, <1>3, RequestWrites, TableSteps

\* A mapping a person decided goes out of force for another person's decision only.
THEOREM HumanDecisionNotOverridden == Spec => HumanDecisionStands
<1> DEFINE Kept == \A r \in mappings : r.by # "ai" /\ r.active /\ r \notin mappings' =>
                     \E q \in mappings' : q.account = r.account /\ q.active /\ q.by # "ai"
<1>1. MappingInv /\ [Next]_vars => [Kept]_vars
  BY HumanDecisionKept
<1> QED
  BY <1>1, MappingInvariant, PTL DEF Spec, HumanDecisionStands

-----------------------------------------------------------------------------
(* tax_mappings implements a versioned record. *)

InForce(a) == {r.version : r \in {q \in RowsOf(a) : q.active}}

\* After a write the version in force is the new one, and stays for the other accounts.
LEMMA InForceAfter ==
  ASSUME TypeOK, TableSound, NEW W \in SUBSET Accounts, NEW by \in {"ai", "override"} \cup Proposals,
         WriteNext(W, by), NEW a \in Accounts
  PROVE  InForce(a)' = IF a \in W THEN {Latest(a) + 1} ELSE InForce(a)
<1>1. ASSUME NEW r \in mappings
      PROVE  /\ Superseded(r, W) \in mappings'
             /\ Superseded(r, W).account = r.account /\ Superseded(r, W).version = r.version
             /\ Superseded(r, W).active <=> r.active /\ r.account \notin W
  <2>1. Superseded(r, W) \in mappings'
    BY DEF WriteNext
  <2> QED
    BY <2>1, SupersededRow
<1>2. ASSUME NEW b \in W
      PROVE  NextRow(b, by) \in mappings' /\ NextRow(b, by).account = b
             /\ NextRow(b, by).version = Latest(b) + 1 /\ NextRow(b, by).active
  BY <1>2 DEF NextRow, WriteNext
<1>3. CASE a \in W
  <2>1. ASSUME NEW x \in mappings', x.account = a, x.active PROVE x.version = Latest(a) + 1
    <3>1. ~ \E r \in mappings : x = Superseded(r, W)
      <4> SUFFICES ASSUME NEW r \in mappings, x = Superseded(r, W) PROVE FALSE
        OBVIOUS
      <4>1. x.account = r.account /\ (x.active <=> r.active /\ r.account \notin W)
        BY <1>1, Zenon
      <4> QED
        BY <1>3, <2>1, <4>1
    <3>2. PICK b \in W : x = NextRow(b, by)
      BY <3>1, RowsAfter
    <3> QED
      BY <1>2, <2>1, <3>2
  <2>2. \E x \in mappings' : x.account = a /\ x.active /\ x.version = Latest(a) + 1
    BY <1>2, <1>3
  <2> QED
    BY <1>3, <2>1, <2>2 DEF InForce, RowsOf
<1>4. CASE a \notin W
  <2>1. ASSUME NEW x \in mappings', x.account = a, x.active
        PROVE  \E r \in mappings : r.account = a /\ r.active /\ r.version = x.version
    <3>1. PICK r \in mappings : x = Superseded(r, W)
      BY <1>2, <1>4, <2>1, RowsAfter
    <3>2. x.account = r.account /\ x.version = r.version /\ (x.active <=> r.active /\ r.account \notin W)
      BY <1>1, <3>1, Zenon
    <3> QED
      BY <2>1, <3>2
  <2>2. ASSUME NEW r \in mappings, r.account = a, r.active
        PROVE  \E x \in mappings' : x.account = a /\ x.active /\ x.version = r.version
    <3> DEFINE x == Superseded(r, W)
    <3>1. x \in mappings' /\ x.account = r.account /\ x.version = r.version
          /\ (x.active <=> r.active /\ r.account \notin W)
      BY <1>1
    <3> HIDE DEF x
    <3> QED
      BY <1>4, <2>2, <3>1
  <2> QED
    BY <1>4, <2>1, <2>2 DEF InForce, RowsOf
<1> QED
  BY <1>3, <1>4

\* Writing next versions is superseding; writing none changes nothing.
LEMMA WritesSupersede ==
  ASSUME TypeOK, TableSound, NEW W \in SUBSET Accounts, NEW by \in {"ai", "override"} \cup Proposals,
         WriteNext(W, by)
  PROVE  Versions!Supersede \/ UNCHANGED mappings
<1>1. CASE W = {}
  <2>1. \A r \in mappings : Superseded(r, W) = r
    BY <1>1 DEF Superseded
  <2> QED
    BY <1>1, <2>1 DEF WriteNext
<1>2. CASE W # {}
  <2>1. \A a \in Accounts : /\ Latest(a)' = (IF a \in W THEN Latest(a) + 1 ELSE Latest(a))
                            /\ InForce(a)' = IF a \in W THEN {Latest(a) + 1} ELSE InForce(a)
    BY NumberedAfter, InForceAfter
  <2>2. \A a \in W : Latest(a) < MaxVersion
    BY DEF WriteNext
  <2>3. W \in (SUBSET Accounts) \ {{}}
    BY <1>2
  <2> DEFINE latest  == [a \in Accounts |-> Latest(a)]
             inForce == [a \in Accounts |-> {r.version : r \in {q \in RowsOf(a) : q.active}}]
  <2>4. \A a \in W : latest[a] < MaxVersion
    BY <2>2
  <2>5. latest' = [a \in Accounts |-> IF a \in W THEN latest[a] + 1 ELSE latest[a]]
    BY <2>1
  <2>6. inForce' = [a \in Accounts |-> IF a \in W THEN {latest[a] + 1} ELSE inForce[a]]
    <3>1. inForce = [a \in Accounts |-> InForce(a)]
      BY DEF InForce
    <3>2. inForce' = [a \in Accounts |-> InForce(a)']
      BY DEF InForce
    <3>3. \A a \in W : latest[a] = Latest(a)
      OBVIOUS
    <3> HIDE DEF latest, inForce
    <3> QED
      BY <2>1, <3>1, <3>2, <3>3
  <2> HIDE DEF latest, inForce
  <2>7. \E written \in (SUBSET Accounts) \ {{}} :
          /\ \A a \in written : latest[a] < MaxVersion
          /\ latest' = [a \in Accounts |-> IF a \in written THEN latest[a] + 1 ELSE latest[a]]
          /\ inForce' = [a \in Accounts |-> IF a \in written THEN {latest[a] + 1} ELSE inForce[a]]
    BY <2>3, <2>4, <2>5, <2>6
  <2> QED
    BY <2>7 DEF Versions!Supersede, latest, inForce
<1> QED
  BY <1>1, <1>2

\* tax_mappings implements a versioned record: each account's versions are numbered
\* 1, 2, 3 ... and a new one takes the place of the one before it.
THEOREM MappingRefinement == Spec => MappingsAreVersioned
<1> DEFINE latest  == [a \in Accounts |-> Latest(a)]
           inForce == [a \in Accounts |-> {r.version : r \in {q \in RowsOf(a) : q.active}}]
<1>1. Init => Versions!Init
  BY DEF Init, Versions!Init, Latest, RowsOf
<1>2. MappingInv /\ [Next]_vars => [Versions!Supersede]_<<latest, inForce>>
  <2> SUFFICES ASSUME MappingInv, [Next]_vars
               PROVE  Versions!Supersede \/ UNCHANGED <<latest, inForce>>
    OBVIOUS
  <2>1. CASE UNCHANGED mappings
    BY <2>1 DEF Latest, RowsOf
  <2>2. ASSUME NEW W \in SUBSET Accounts, NEW by \in {"ai", "override"} \cup Proposals, WriteNext(W, by)
        PROVE  Versions!Supersede \/ UNCHANGED mappings
    BY <2>2, WritesSupersede DEF MappingInv
  <2>3. ASSUME NEW s \in Sessions, ByRequest(s) PROVE Versions!Supersede \/ UNCHANGED mappings
    <3>1. PICK a \in Accounts, by \in {"override"} \cup Proposals : WriteNext({a}, by)
      BY <2>3, RequestWrites
    <3> QED
      BY <2>2, <3>1
  <2>4. ASSUME NEW w \in Workers, ByWorker(w) PROVE Versions!Supersede \/ UNCHANGED mappings
    BY <2>2, <2>4 DEF ByWorker
  <2>5. CASE UNCHANGED vars
    BY <2>1, <2>5 DEF vars
  <2> QED
    BY <2>1, <2>3, <2>4, <2>5, TableSteps
<1> QED
  BY <1>1, <1>2, MappingInvariant, PTL DEF Spec, MappingsAreVersioned, Versions!Spec
-----------------------------------------------------------------------------
(* Carry-forward proposals waiting, and requests about to file one. *)

Waiting(a)  == OpenOf(a, {"carried"})
Carrying(a) == {s \in Sessions : tx[s].op = "carry" /\ a \in tx[s].todo}

Bounded(a) == Cardinality(Waiting(a)) + Cardinality(Carrying(a)) <= Cardinality(Sessions)

\* The carries that wait and those under way are finitely many, the latter one a connection.
LEMMA CarryFinite ==
  ASSUME NEW a
  PROVE  /\ IsFiniteSet(Waiting(a)) /\ Cardinality(Waiting(a)) \in Nat
         /\ IsFiniteSet(Carrying(a)) /\ Cardinality(Carrying(a)) \in Nat
         /\ Cardinality(Carrying(a)) <= Cardinality(Sessions)
         /\ Cardinality(Sessions) \in Nat
<1>1. Waiting(a) \subseteq Proposals /\ Carrying(a) \subseteq Sessions
  BY DEF Waiting, Carrying, OpenOf
<1> QED
  BY <1>1, FS_Subset, FS_CardinalityType, MappingAssumption DEF MappingAssumption

\* A step that adds neither a proposal waiting nor a request keeps the bound.
LEMMA StaysBounded ==
  ASSUME NEW a, Bounded(a), Waiting(a)' \subseteq Waiting(a), Carrying(a)' \subseteq Carrying(a)
  PROVE  Bounded(a)'
<1>1. /\ IsFiniteSet(Waiting(a)) /\ IsFiniteSet(Carrying(a))
      /\ Cardinality(Waiting(a)) \in Nat /\ Cardinality(Carrying(a)) \in Nat /\ Cardinality(Sessions) \in Nat
  BY CarryFinite
<1>2. Cardinality(Waiting(a)') <= Cardinality(Waiting(a)) /\ Cardinality(Waiting(a)') \in Nat
  BY <1>1, FS_Subset, FS_CardinalityType
<1>3. Cardinality(Carrying(a)') <= Cardinality(Carrying(a)) /\ Cardinality(Carrying(a)') \in Nat
  BY <1>1, FS_Subset, FS_CardinalityType
<1> QED
  BY <1>1, <1>2, <1>3 DEF Bounded

\* A connection whose transaction does not begin a carry-forward is not added.
LEMMA NoNewCarrying ==
  ASSUME TypeOK, NEW a, \A s \in Sessions : tx'[s] = tx[s] \/ tx'[s].op # "carry"
  PROVE  Carrying(a)' \subseteq Carrying(a)
BY DEF Carrying

\* Only the commit of a carry makes more proposals wait.
LEMMA WaitingFalls ==
  ASSUME MappingInv, Next, NEW a, \A s \in Sessions : ~CommitCarry(s)
  PROVE  Waiting(a)' \subseteq Waiting(a)
<1>0. TypeOK
  BY DEF MappingInv
<1>1. ASSUME NEW p \in Proposals, NEW b \in Accounts \cup {NoAccount}, NEW src \in {"user", "carry_forward"},
             Propose(p, b, src)
      PROVE  Waiting(a)' \subseteq Waiting(a)
  BY <1>0, <1>1 DEF Propose, Waiting, OpenOf, TypeOK
<1>2. ASSUME NEW s \in Sessions, CommitApprove(s) \/ CommitReject(s)
      PROVE  Waiting(a)' \subseteq Waiting(a)
  <2>1. tx[s].op = "decide"
    BY <1>2 DEF CommitApprove, CommitReject
  <2>2. PICK st \in {"approved", "rejected"} :
          proposal' = [proposal EXCEPT ![tx[s].proposal].status = st]
    BY <1>2 DEF CommitApprove, CommitReject
  <2>3. /\ tx[s].proposal \in Proposals /\ proposal[tx[s].proposal].status = "pending"
        /\ proposal[tx[s].proposal] \in ProposalRows
    BY <1>0, <2>1 DEF MappingInv, DecisionHeld, TypeOK, NoRow
  <2>4. proposal'[tx[s].proposal].status = st
    BY <1>0, <2>2, <2>3 DEF TypeOK, ProposalRows
  <2>5. \A p \in Proposals : p # tx[s].proposal => proposal'[p] = proposal[p]
    BY <1>0, <2>2 DEF TypeOK
  <2> QED
    BY <2>4, <2>5 DEF Waiting, OpenOf
<1>3. ASSUME NEW s \in Sessions, Request(s) PROVE Waiting(a)' \subseteq Waiting(a)
  <2>1. CASE UNCHANGED proposal
    BY <2>1 DEF Waiting, OpenOf
  <2> QED
    BY <1>2, <1>3, <2>1 DEF Request, BeginImport, BeginUpload, EnqueueImport, CommitImport,
       ReadOverride, CommitOverride, ReadDecide, ReadCarry, Rollback
<1>4. CASE UNCHANGED proposal
  BY <1>4 DEF Waiting, OpenOf
<1> QED
  BY <1>1, <1>3, <1>4 DEF Next, RunAi, WindowEnds, PickUp, Stall, WorkerEnds, CommitAi, CommitAuto, WorkerFails

\* Only a carry that reads puts another request on the way to file a proposal.
LEMMA CarryingFalls ==
  ASSUME MappingInv, Next, NEW a, \A s \in Sessions : ~ReadCarry(s)
  PROVE  Carrying(a)' \subseteq Carrying(a)
<1> SUFFICES ASSUME NEW s \in Sessions, tx'[s] # tx[s] PROVE tx'[s].op # "carry"
  BY NoNewCarrying DEF MappingInv
<1>0. TypeOK /\ s \in Connections /\ s \notin Workers
  BY MappingAssumption DEF MappingInv, Connections, MappingAssumption
<1>1. TxStep(s)
  BY <1>0, TxSteps
<1>2. ASSUME ImportBegun(s) \/ OverrideRead(s) \/ tx'[s] = NoTx PROVE tx'[s].op # "carry"
  <2>1. ASSUME ImportBegun(s) PROVE tx'[s].op # "carry"
    BY <2>1 DEF ImportBegun, NoTx
  <2>2. ASSUME OverrideRead(s) PROVE tx'[s].op # "carry"
    BY <2>2 DEF OverrideRead, NoTx
  <2>3. ASSUME tx'[s] = NoTx PROVE tx'[s].op # "carry"
    BY <2>3 DEF NoTx
  <2> QED
    BY <1>2, <2>1, <2>2, <2>3
<1>3. ASSUME ImportQueued(s) PROVE tx'[s].op # "carry"
  <2>1. tx[s] \in Transactions
    BY <1>0 DEF TypeOK
  <2> QED
    BY <1>3, <2>1 DEF ImportQueued, Transactions
<1>4. ASSUME NEW p \in Proposals, ReadDecide(s, p) PROVE tx'[s].op # "carry"
  BY <1>0, <1>4 DEF ReadDecide, NoTx, TypeOK
<1> QED
  BY <1>0, <1>1, <1>2, <1>3, <1>4 DEF TxStep

\* The carried versions of an account stay within their bound.
LEMMA CarryStep ==
  ASSUME MappingInv, Next, NEW a \in Accounts, Bounded(a)
  PROVE  Bounded(a)'
<1>0. TypeOK /\ Sessions \subseteq DOMAIN tx
  BY DEF MappingInv, TypeOK, Connections
<1>1. ASSUME NEW s \in Sessions, ReadCarry(s) PROVE Bounded(a)'
  <2>1. UNCHANGED proposal /\ tx'[s] = [NoTx EXCEPT !.op = "carry", !.todo = ToCarry]
        /\ \A c \in Sessions : c # s => tx'[c] = tx[c]
    BY <1>0, <1>1 DEF ReadCarry
  <2>2. CASE a \in ToCarry
    <3>1. Waiting(a)' = {}
      BY <2>1, <2>2 DEF ToCarry, Waiting, OpenOf
    <3>2. Cardinality(Waiting(a)') = 0
      BY <3>1, FS_EmptySet
    <3>3. Carrying(a)' \subseteq Sessions
      BY DEF Carrying
    <3>4. Cardinality(Carrying(a)') <= Cardinality(Sessions) /\ Cardinality(Carrying(a)') \in Nat
      BY <3>3, FS_Subset, FS_CardinalityType, MappingAssumption DEF MappingAssumption
    <3> QED
      BY <3>2, <3>4, CarryFinite DEF Bounded
  <2>3. CASE a \notin ToCarry
    <3>1. tx'[s].todo = ToCarry
      BY <2>1 DEF NoTx
    <3>2. Carrying(a)' \subseteq Carrying(a)
      BY <2>1, <2>3, <3>1 DEF Carrying
    <3>3. Waiting(a)' = Waiting(a)
      BY <2>1 DEF Waiting, OpenOf
    <3> QED
      BY <3>2, <3>3, StaysBounded
  <2> QED
    BY <2>2, <2>3
<1>2. ASSUME NEW s \in Sessions, CommitCarry(s) PROVE Bounded(a)'
  <2>1. PICK id \in [tx[s].todo -> {p \in Proposals : proposal[p] = NoRow}] :
          /\ \A b, d \in tx[s].todo : id[b] = id[d] => b = d
          /\ proposal' = [p \in Proposals |->
               IF \E b \in tx[s].todo : id[b] = p
                 THEN [account |-> CHOOSE b \in tx[s].todo : id[b] = p,
                       source |-> "carried", status |-> "pending"]
                 ELSE proposal[p]]
    BY <1>2 DEF CommitCarry
  <2>2. tx'[s] = NoTx /\ (\A c \in Sessions : c # s => tx'[c] = tx[c]) /\ tx[s].op = "carry"
    BY <1>0, <1>2 DEF CommitCarry, End
  <2>3. Carrying(a)' = Carrying(a) \ {s}
    BY <2>2 DEF Carrying, NoTx
  <2>4. ASSUME NEW p \in Proposals, NEW b \in tx[s].todo, id[b] = p
        PROVE  proposal'[p] = [account |-> b, source |-> "carried", status |-> "pending"]
    BY <2>1, <2>4
  <2>5. ASSUME NEW p \in Proposals, ~ \E b \in tx[s].todo : id[b] = p PROVE proposal'[p] = proposal[p]
    BY <2>1, <2>5
  <2>6. ASSUME NEW p \in Waiting(a)'
        PROVE  p \in Waiting(a) \/ (a \in tx[s].todo /\ p = id[a])
    <3>1. p \in Proposals /\ proposal'[p].account = a /\ proposal'[p].status = "pending"
          /\ proposal'[p].source = "carried"
      BY <2>6 DEF Waiting, OpenOf
    <3>2. CASE \E b \in tx[s].todo : id[b] = p
      <4>1. PICK b \in tx[s].todo : id[b] = p
        BY <3>2
      <4>2. proposal'[p] = [account |-> b, source |-> "carried", status |-> "pending"]
        BY <2>4, <3>1, <4>1
      <4>3. proposal'[p].account = b
        BY <4>2
      <4>4. a = b
        BY <3>1, <4>3
      <4> QED
        BY <4>1, <4>4
    <3>3. CASE ~ \E b \in tx[s].todo : id[b] = p
      BY <2>5, <3>1, <3>3 DEF Waiting, OpenOf
    <3> QED
      BY <3>2, <3>3
  <2>7. CASE a \notin tx[s].todo
    <3>1. Waiting(a)' \subseteq Waiting(a)
      BY <2>6, <2>7
    <3> QED
      BY <2>3, <3>1, StaysBounded
  <2>8. CASE a \in tx[s].todo
    <3> DEFINE one == Waiting(a) \cup {id[a]}
    <3>1. Waiting(a)' \subseteq one
      BY <2>6
    <3>2. IsFiniteSet(Waiting(a)) /\ Cardinality(Waiting(a)) \in Nat
          /\ IsFiniteSet(Carrying(a)) /\ Cardinality(Carrying(a)) \in Nat /\ Cardinality(Sessions) \in Nat
      BY CarryFinite
    <3>3. IsFiniteSet(one) /\ Cardinality(one) <= Cardinality(Waiting(a)) + 1 /\ Cardinality(one) \in Nat
      <4>1. /\ IsFiniteSet(one)
            /\ Cardinality(one)
                 = IF id[a] \in Waiting(a) THEN Cardinality(Waiting(a)) ELSE Cardinality(Waiting(a)) + 1
        BY <3>2, FS_AddElement
      <4> HIDE DEF one
      <4> QED
        BY <3>2, <4>1
    <3>4. Cardinality(Waiting(a)') <= Cardinality(one) /\ Cardinality(Waiting(a)') \in Nat
      BY <3>1, <3>3, FS_Subset, FS_CardinalityType
    <3>5. s \in Carrying(a)
      BY <2>2, <2>8 DEF Carrying
    <3>6. Cardinality(Carrying(a) \ {s}) = Cardinality(Carrying(a)) - 1
      BY <3>2, <3>5, FS_RemoveElement
    <3> HIDE DEF one
    <3> QED
      BY <2>3, <3>2, <3>3, <3>4, <3>6 DEF Bounded
  <2> QED
    BY <2>7, <2>8
<1>3. ASSUME \A s \in Sessions : ~ReadCarry(s) /\ ~CommitCarry(s) PROVE Bounded(a)'
  <2>1. Waiting(a)' \subseteq Waiting(a)
    BY <1>0, <1>3, WaitingFalls
  <2>2. Carrying(a)' \subseteq Carrying(a)
    BY <1>3, CarryingFalls
  <2> QED
    BY <2>1, <2>2, StaysBounded
<1> QED
  BY <1>1, <1>2, <1>3

\* However many requests overlap, an account never has more carried proposals waiting,
\* or about to be, than there are connections.
THEOREM CarryForwardsBounded == Spec => []CarryForwardBounded
<1>1. Init => \A a \in Accounts : Bounded(a)
  <2> SUFFICES ASSUME Init, NEW a \in Accounts PROVE Bounded(a)
    OBVIOUS
  <2>1. Waiting(a) = {}
    BY DEF Init, Waiting, OpenOf, NoRow
  <2> QED
    BY <2>1, CarryFinite, FS_EmptySet DEF Bounded
<1>2. MappingInv /\ (\A a \in Accounts : Bounded(a)) /\ [Next]_vars => (\A a \in Accounts : Bounded(a))'
  <2> SUFFICES ASSUME MappingInv, [Next]_vars, NEW a \in Accounts, Bounded(a) PROVE Bounded(a)'
    OBVIOUS
  <2>1. CASE UNCHANGED vars
    BY <2>1 DEF vars, Bounded, Waiting, Carrying, OpenOf
  <2> QED
    BY <2>1, CarryStep
<1>3. (\A a \in Accounts : Bounded(a)) => CarryForwardBounded
  BY DEF Bounded, Waiting, Carrying, CarryForwardBounded
<1> QED
  BY <1>1, <1>2, <1>3, MappingInvariant, PTL DEF Spec
=============================================================================
