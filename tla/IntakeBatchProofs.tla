------------------------- MODULE IntakeBatchProofs -------------------------
(***************************************************************************)
(* Proofs about IntakeBatch for any number of batches, files, connections, *)
(* suggestions and sign items.  A handler writes on what it read some time *)
(* ago, so the invariant says of each transaction what stays true of its   *)
(* reading: the batch is still there, the rows a commit is going to write  *)
(* have the right signs, however often they were inverted meanwhile, or    *)
(* come with a warning, and the decisions still to be written, with those  *)
(* there are, are never more than the connections.                         *)
(*                                                                         *)
(* What is computed row by row (the rows that are parsed of a sheet and    *)
(* those of them that may be committed, the totals of the sign convention, *)
(* the best precedent) is reasoned about by induction over a set of        *)
(* positions, see Positions.                                               *)
(***************************************************************************)
EXTENDS IntakeBatch, FiniteSetTheorems, WellFoundedInduction, TLAPS

BatchOps == {"validate", "fail", "confirmed", "rejected", "commit", "refused"}

\* What a transaction is about exists.
TargetSound(t) ==
  /\ t.op \in Sources => t.file \in Files
  /\ t.op \in BatchOps => t.target \in Stored
  /\ t.op = "review" => t.target \in Subjects

TargetsSound == \A c \in Sessions : TargetSound(tx[c])

\* What is ready to be committed has rows that can be.
BatchesSound ==
  \A b \in Stored : /\ batch[b].file \in Files
                    /\ batch[b].status = "ready_for_review" => batch[b].rows = "checked"

\* The signs of what is written and of what is going to be, with its warnings.
SignsRight(f, flipped, warned) ==
  SignOf[f][flipped] # "inverted" /\ (SignOf[f][flipped] = "mixed" => warned)
LiveRight(b, flipped) == b \in Stored /\ SignsRight(batch[b].file, flipped, warnings[b] # "none")
SignsSound ==
  /\ \A c \in Sessions : tx[c].op = "commit" =>
       SignsRight(batch[tx[c].target].file, tx[c].flip, tx[c].warn)
  /\ \A s \in Sources, p \in Places : live[s][p] # NoLive =>
       LiveRight(live[s][p].batch, live[s][p].flipped)

\* The reviews of a subject that are still to be written.
Reviewers(g) == {c \in Sessions : tx[c].op = "review" /\ tx[c].target = g}

ReviewsSound ==
  \A g \in Subjects :
    /\ subject[g].status = "pending" => subject[g].feedback = 0 /\ ~subject[g].taught
    /\ subject[g].taught => subject[g].feedback > 0
    /\ subject[g].taught /\ subject[g].status = "rejected" => subject[g].feedback > 1
    /\ subject[g].feedback + Cardinality(Reviewers(g)) <= Cardinality(Sessions)

IntakeInv ==
  /\ CommittedIsLive /\ TargetsSound /\ BatchesSound /\ ReviewsSound /\ SignsSound

-----------------------------------------------------------------------------
(* What is computed row by row. *)

\* Induction over rows: a set of positions that has 0 and, with each, the next has
\* all of them.
LEMMA Positions ==
  ASSUME NEW N \in Nat, NEW T, 0 \in T, \A n \in 0 .. N - 1 : n \in T => n + 1 \in T
  PROVE  \A n \in 0..N : n \in T
<1> DEFINE bad == {n \in 0..N : n \notin T}
<1>1. SUFFICES ASSUME bad # {} PROVE FALSE
  OBVIOUS
<1>2. bad \subseteq Nat
  OBVIOUS
<1>3. PICK m \in bad : \A n \in bad : ~(<<n, m>> \in OpToRel(<, Nat))
  <2> HIDE DEF bad
  <2> QED BY <1>1, <1>2, WFMin, NatLessThanWellFounded
<1>4. m \in 0..N /\ m \notin T /\ m # 0
  OBVIOUS
<1>5. m - 1 \in 0 .. N - 1 /\ m - 1 \in 0..N /\ m - 1 + 1 = m /\ m - 1 < m /\ m \in Nat /\ m - 1 \in Nat
  BY <1>4
<1>6. m - 1 \notin T
  BY <1>4, <1>5
<1>7. m - 1 \in bad
  BY <1>5, <1>6
<1>8. <<m - 1, m>> \in OpToRel(<, Nat)
  BY <1>5 DEF OpToRel
<1> QED BY <1>3, <1>7, <1>8

\* A value for every position, each made from the one before.
Steps(N, S) == [1..N -> [S -> S]]
Recurs(f, N, S, base, step) ==
  f \in [0..N -> S] /\ f[0] = base /\ \A n \in 1..N : f[n] = step[n][f[n - 1]]

\* There is one.
LEMMA Recursion ==
  ASSUME NEW N \in Nat, NEW S, NEW base \in S, NEW step \in Steps(N, S)
  PROVE  \E f : Recurs(f, N, S, base, step)
<1> USE DEF Steps
<1> DEFINE Upto(m, f) == f[0] = base /\ \A n \in 1..m : f[n] = step[n][f[n - 1]]
           T == {m \in 0..N : \E f \in [0..m -> S] : Upto(m, f)}
<1>1. 0 \in T
  <2> DEFINE f == [n \in 0..0 |-> base]
  <2>1. f \in [0..0 -> S] /\ f[0] = base /\ 1..0 = {}
    OBVIOUS
  <2> HIDE DEF f
  <2> QED BY <2>1
<1>2. ASSUME NEW m \in 0 .. N - 1, m \in T PROVE m + 1 \in T
  <2>1. PICK f \in [0..m -> S] : Upto(m, f)
    BY <1>2
  <2>2. m \in Nat /\ m + 1 \in 1..N /\ m + 1 \in 0..N /\ f[m] \in S /\ step[m + 1][f[m]] \in S
    OBVIOUS
  <2> DEFINE g == [n \in 0 .. m + 1 |-> IF n = m + 1 THEN step[m + 1][f[m]] ELSE f[n]]
  <2>3. g \in [0 .. m + 1 -> S]
    BY <2>2
  <2>4. ASSUME NEW n \in 1 .. m + 1 PROVE g[n] = step[n][g[n - 1]]
    <3>1. n \in 0 .. m + 1 /\ n - 1 \in 0 .. m + 1 /\ n - 1 # m + 1
      BY <2>2
    <3>2. g[n - 1] = f[n - 1]
      BY <3>1
    <3>3. CASE n = m + 1
      BY <3>1, <3>2, <3>3, <2>2
    <3>4. CASE n # m + 1
      <4>1. n \in 1..m
        BY <2>2, <3>4
      <4> QED BY <2>1, <3>1, <3>2, <3>4, <4>1
    <3> QED BY <3>3, <3>4
  <2>5. g[0] = base
    BY <2>1, <2>2
  <2> HIDE DEF g
  <2>6. Upto(m + 1, g)
    BY <2>4, <2>5
  <2> QED BY <2>2, <2>3, <2>6
<1> HIDE DEF T
<1>3. \A n \in 0..N : n \in T
  BY <1>1, <1>2, Positions
<1>4. N \in T
  BY <1>3
<1> QED BY <1>4 DEF T, Recurs

\* An item of a sequence has the type of its items.
LEMMA ItemOfSequence ==
  ASSUME NEW S, NEW s \in Seq(S), NEW i \in DOMAIN s
  PROVE  s[i] \in S
OBVIOUS

\* The normalized rows of a file.
Rows == [entity : STRING, id : STRING, name : Names, type : AccountTypes, balance : Int]

\* What a row adds to the total of a type.
Adds(rows, type) == [n \in 1..Len(rows) |-> IF rows[n].type = type THEN rows[n].balance ELSE 0]

\* A total is the last of the running totals.
LEMMA TotalRuns ==
  ASSUME NEW rows \in Seq(Rows), NEW type
  PROVE  \E f \in [0..Len(rows) -> Int] :
           /\ f[0] = 0 /\ \A n \in 1..Len(rows) : f[n] = f[n - 1] + Adds(rows, type)[n]
           /\ Total(rows, type) = f[Len(rows)]
<1> DEFINE N == Len(rows)
           add == Adds(rows, type)
           Runs(f) == f = [n \in 0..N |-> IF n = 0 THEN 0
                             ELSE f[n - 1] + (IF rows[n].type = type THEN rows[n].balance ELSE 0)]
           total == CHOOSE f : Runs(f)
<1>1. N \in Nat
  OBVIOUS
<1>2. \A n \in 1..N : add[n] \in Int /\ add[n] = IF rows[n].type = type THEN rows[n].balance ELSE 0
  <2>1. ASSUME NEW n \in 1..N PROVE rows[n] \in Rows
    BY ItemOfSequence
  <2> QED BY <2>1 DEF Adds, Rows
<1>3. \E f : Runs(f)
  <2> DEFINE step == [n \in 1..N |-> [x \in Int |-> x + add[n]]]
  <2>1. step \in [1..N -> [Int -> Int]]
    BY <1>2
  <2>2. PICK f \in [0..N -> Int] : f[0] = 0 /\ \A n \in 1..N : f[n] = step[n][f[n - 1]]
    <3>1. 0 \in Int /\ step \in Steps(N, Int)
      BY <2>1 DEF Steps
    <3> HIDE DEF step, N
    <3>2. \E f : Recurs(f, N, Int, 0, step)
      BY <1>1, <3>1, Recursion
    <3> QED BY <3>2 DEF Recurs
  <2>3. ASSUME NEW n \in 1..N PROVE f[n] = f[n - 1] + add[n]
    <3>1. n - 1 \in 0..N
      BY <1>1
    <3> QED BY <2>2, <3>1
  <2>4. ASSUME NEW n \in 0..N
        PROVE  f[n] = IF n = 0 THEN 0 ELSE f[n - 1] + (IF rows[n].type = type THEN rows[n].balance ELSE 0)
    <3>1. CASE n = 0
      BY <2>2, <3>1
    <3>2. CASE n \in 1..N
      BY <1>2, <2>3, <3>2
    <3> QED BY <1>1, <3>1, <3>2
  <2> QED BY <2>4
<1>4. Runs(total)
  BY <1>3, Zenon
<1>5. Total(rows, type) = total[N]
  BY DEF Total
<1> HIDE DEF total
<1>6. total[0] = 0
  BY <1>1, <1>4
<1>7. ASSUME NEW n \in 1..N PROVE total[n] = total[n - 1] + add[n]
  BY <1>1, <1>2, <1>4
<1> HIDE DEF N, add, Runs
<1>8. \A n \in 0..N : total[n] \in Int
  <2> DEFINE T == {n \in 0..N : total[n] \in Int}
  <2>1. 0 \in T
    BY <1>1, <1>6
  <2>2. ASSUME NEW n \in 0 .. N - 1, n \in T PROVE n + 1 \in T
    <3>1. n + 1 \in 1..N /\ n + 1 \in 0..N /\ n + 1 - 1 = n /\ total[n] \in Int
      BY <1>1, <2>2
    <3>2. total[n + 1] = total[n] + add[n + 1]
      BY <1>7, <3>1
    <3> QED BY <1>2, <3>1, <3>2
  <2> HIDE DEF T
  <2>3. \A n \in 0..N : n \in T
    BY <1>1, <2>1, <2>2, Positions
  <2> QED BY <2>3 DEF T
<1>9. total \in [0..N -> Int]
  BY <1>4, <1>8 DEF Runs
<1> QED BY <1>5, <1>6, <1>7, <1>9 DEF N, add

\* Inverting keeps the rows and their types, and turns every amount round.
LEMMA InvertedRows ==
  ASSUME NEW rows \in Seq(Rows)
  PROVE  /\ Invert(rows) \in Seq(Rows) /\ Len(Invert(rows)) = Len(rows)
         /\ \A n \in 1..Len(rows) : /\ rows[n].balance \in Int
                                    /\ Invert(rows)[n].type = rows[n].type
                                    /\ Invert(rows)[n].balance = -rows[n].balance
<1>1. Len(rows) \in Nat /\ DOMAIN rows = 1..Len(rows)
  OBVIOUS
<1>2. ASSUME NEW n \in 1..Len(rows)
      PROVE  /\ [rows[n] EXCEPT !.balance = -@] \in Rows /\ rows[n].balance \in Int
             /\ [rows[n] EXCEPT !.balance = -@].type = rows[n].type
             /\ [rows[n] EXCEPT !.balance = -@].balance = -rows[n].balance
  <2>1. rows[n] \in Rows
    BY <1>1, ItemOfSequence
  <2> QED BY <2>1 DEF Rows
<1>3. Invert(rows) = [n \in 1..Len(rows) |-> [rows[n] EXCEPT !.balance = -@]]
  BY <1>1 DEF Invert
<1>4. Invert(rows) \in [1..Len(rows) -> Rows]
  BY <1>2, <1>3
<1>5. Invert(rows) \in Seq(Rows) /\ Len(Invert(rows)) = Len(rows)
  BY <1>1, <1>4
<1> QED BY <1>2, <1>3, <1>5

\* And so is every total.
LEMMA TotalInverted ==
  ASSUME NEW rows \in Seq(Rows), NEW type
  PROVE  Total(rows, type) \in Int /\ Total(Invert(rows), type) = -Total(rows, type)
<1>1. PICK N \in Nat : N = Len(rows)
  OBVIOUS
<1>2. PICK f \in [0..N -> Int] :
        /\ f[0] = 0 /\ \A n \in 1..N : f[n] = f[n - 1] + Adds(rows, type)[n]
        /\ Total(rows, type) = f[N]
  BY <1>1, TotalRuns
<1>3. PICK h \in [0..N -> Int] :
        /\ h[0] = 0 /\ \A n \in 1..N : h[n] = h[n - 1] + Adds(Invert(rows), type)[n]
        /\ Total(Invert(rows), type) = h[N]
  BY <1>1, TotalRuns, InvertedRows
<1>4. ASSUME NEW n \in 1..N
      PROVE  Adds(rows, type)[n] \in Int /\ Adds(Invert(rows), type)[n] = -Adds(rows, type)[n]
  BY <1>1, InvertedRows DEF Adds
<1> DEFINE T == {n \in 0..N : h[n] = -f[n]}
<1>5. 0 \in T
  BY <1>2, <1>3
<1>6. ASSUME NEW n \in 0 .. N - 1, n \in T PROVE n + 1 \in T
  <2>1. n + 1 \in 1..N /\ n + 1 \in 0..N /\ n + 1 - 1 = n /\ n \in 0..N /\ h[n] = -f[n]
    BY <1>6
  <2>2. f[n + 1] = f[n] + Adds(rows, type)[n + 1] /\ h[n + 1] = h[n] + Adds(Invert(rows), type)[n + 1]
    BY <1>2, <1>3, <2>1
  <2>3. Adds(rows, type)[n + 1] \in Int /\ Adds(Invert(rows), type)[n + 1] = -Adds(rows, type)[n + 1]
    BY <1>4, <2>1
  <2>4. f[n] \in Int
    BY <2>1
  <2> QED BY <2>1, <2>2, <2>3, <2>4
<1> HIDE DEF T
<1>7. \A n \in 0..N : n \in T
  BY <1>5, <1>6, Positions
<1>8. N \in 0..N
  OBVIOUS
<1>9. h[N] = -f[N] /\ f[N] \in Int
  BY <1>7, <1>8 DEF T
<1> QED BY <1>2, <1>3, <1>9

\* Rows whose signs are inverted are on the right side in every type once they are
\* turned round.
LEMMA SignsInverted ==
  ASSUME NEW rows \in Seq(Rows)
  PROVE  /\ DetectSignConvention(rows) = "inverted" => DetectSignConvention(Invert(rows)) = "standard"
         /\ DetectSignConvention(Invert(rows)) = "inverted" => DetectSignConvention(rows) = "standard"
<1>1. \A t \in AccountTypes : Total(rows, t) \in Int /\ Total(Invert(rows), t) = -Total(rows, t)
  BY TotalInverted
<1>2. Signalling(Invert(rows)) = Signalling(rows)
  BY <1>1 DEF Signalling, Tolerance
<1>3. ASSUME NEW t \in Signalling(rows) PROVE t \in WrongSide(Invert(rows)) <=> t \notin WrongSide(rows)
  <2>1. t \in AccountTypes /\ (Total(rows, t) > 1 \/ Total(rows, t) < -1)
    BY DEF Signalling, Tolerance
  <2> QED BY <1>1, <1>2, <2>1 DEF WrongSide
<1>4. WrongSide(rows) \subseteq Signalling(rows) /\ WrongSide(Invert(rows)) \subseteq Signalling(rows)
  BY <1>2 DEF WrongSide
<1>5. ASSUME DetectSignConvention(rows) = "inverted" PROVE DetectSignConvention(Invert(rows)) = "standard"
  <2>1. WrongSide(rows) = Signalling(rows)
    BY <1>5 DEF DetectSignConvention
  <2>2. WrongSide(Invert(rows)) = {}
    BY <1>3, <1>4, <2>1
  <2> QED BY <2>2 DEF DetectSignConvention
<1>6. ASSUME DetectSignConvention(Invert(rows)) = "inverted" PROVE DetectSignConvention(rows) = "standard"
  <2>1. WrongSide(Invert(rows)) = Signalling(rows)
    BY <1>2, <1>6 DEF DetectSignConvention
  <2>2. WrongSide(rows) = {}
    BY <1>3, <1>4, <2>1
  <2> QED BY <2>2 DEF DetectSignConvention
<1> QED BY <1>5, <1>6

\* A normalized row of a file has an amount and a known type.
LEMMA NormalizedRow ==
  ASSUME NEW row \in RowType
  PROVE  Normalized(row) \in Rows
<1>1. row.debit \in Fields /\ row.credit \in Fields /\ row.balance \in Fields
  BY DEF RowType
<1>2. ASSUME NEW field \in Fields PROVE Amount(field) \in Int
  BY DEF Fields, Amount
<1>3. NormalType(row.type) \in AccountTypes
  BY DEF NormalType, AccountTypes, CreditNatured, DebitNatured
<1>4. row.entity \in STRING /\ row.id \in STRING /\ row.name \in Names
  BY DEF RowType
<1>5. (IF row.balance = Blank THEN Amount(row.debit) - Amount(row.credit) ELSE Amount(row.balance)) \in Int
  BY <1>1, <1>2
<1> QED BY <1>3, <1>4, <1>5 DEF Normalized, Rows

\* The rows that a commit may write are normalized rows.
LEMMA CommittableRows ==
  ASSUME NEW rows \in Seq(RowType)
  PROVE  Committable(rows) \in Seq(Rows)
<1> DEFINE N == Len(rows)
           Collects(f) == f = [n \in 0..N |-> IF n = 0 THEN <<>>
                                 ELSE IF RowStatus(rows[n]) = "ok" THEN Append(f[n - 1], Normalized(rows[n])) ELSE f[n - 1]]
           upTo == CHOOSE f : Collects(f)
<1>1. N \in Nat
  OBVIOUS
<1>2. \A n \in 1..N : Normalized(rows[n]) \in Rows
  <2>1. ASSUME NEW n \in 1..N PROVE rows[n] \in RowType
    BY ItemOfSequence
  <2> QED BY <2>1, NormalizedRow
<1>3. \E f : Collects(f)
  <2> DEFINE step == [n \in 1..N |-> [s \in Seq(Rows) |-> IF RowStatus(rows[n]) = "ok" THEN Append(s, Normalized(rows[n])) ELSE s]]
  <2>1. step \in Steps(N, Seq(Rows))
    <3>1. ASSUME NEW n \in 1..N, NEW s \in Seq(Rows) PROVE Append(s, Normalized(rows[n])) \in Seq(Rows)
      BY <1>2
    <3> HIDE DEF N
    <3> QED BY <3>1 DEF Steps
  <2>2. <<>> \in Seq(Rows)
    OBVIOUS
  <2>3. \E f : Recurs(f, N, Seq(Rows), <<>>, step)
    <3> HIDE DEF step, N
    <3> QED BY <1>1, <2>1, <2>2, Recursion
  <2>4. PICK f \in [0..N -> Seq(Rows)] : f[0] = <<>> /\ \A n \in 1..N : f[n] = step[n][f[n - 1]]
    BY <2>3 DEF Recurs
  <2>5. ASSUME NEW n \in 1..N
        PROVE  f[n] = IF RowStatus(rows[n]) = "ok" THEN Append(f[n - 1], Normalized(rows[n])) ELSE f[n - 1]
    <3>1. n - 1 \in 0..N
      BY <1>1
    <3>2. f[n - 1] \in Seq(Rows) /\ f[n] = step[n][f[n - 1]]
      BY <2>4, <3>1
    <3> HIDE DEF N
    <3> QED BY <3>2
  <2> HIDE DEF step, N
  <2>6. ASSUME NEW n \in 0..N
        PROVE  f[n] = IF n = 0 THEN <<>>
                      ELSE IF RowStatus(rows[n]) = "ok" THEN Append(f[n - 1], Normalized(rows[n])) ELSE f[n - 1]
    <3>1. CASE n = 0
      BY <2>4, <3>1
    <3>2. CASE n \in 1..N
      <4>1. n # 0
        BY <1>1, <3>2
      <4> QED BY <2>5, <3>2, <4>1, Zenon
    <3> QED BY <1>1, <3>1, <3>2
  <2>7. f = [n \in 0..N |-> IF n = 0 THEN <<>>
                ELSE IF RowStatus(rows[n]) = "ok" THEN Append(f[n - 1], Normalized(rows[n])) ELSE f[n - 1]]
    BY <2>4, <2>6
  <2> QED BY <2>7 DEF Collects
<1>4. Collects(upTo)
  BY <1>3, Zenon
<1>5. Committable(rows) = upTo[N]
  BY DEF Committable
<1> HIDE DEF upTo
<1>6. upTo[0] = <<>>
  BY <1>1, <1>4
<1>7. ASSUME NEW n \in 1..N
      PROVE  upTo[n] = IF RowStatus(rows[n]) = "ok" THEN Append(upTo[n - 1], Normalized(rows[n])) ELSE upTo[n - 1]
  <2>1. n \in 0..N /\ n # 0
    BY <1>1
  <2> HIDE DEF N
  <2> QED BY <1>4, <2>1, Zenon
<1> HIDE DEF N, Collects
<1> DEFINE S == Seq(Rows)
           T == {n \in 0..N : upTo[n] \in S}
<1>8. <<>> \in S /\ \A s \in S, n \in 1..N : Append(s, Normalized(rows[n])) \in S
  BY <1>2
<1> HIDE DEF S
<1>9. 0 \in T
  BY <1>1, <1>6, <1>8
<1>10. ASSUME NEW n \in 0 .. N - 1, n \in T PROVE n + 1 \in T
  <2>1. n + 1 \in 1..N /\ n + 1 \in 0..N /\ n + 1 - 1 = n /\ upTo[n] \in S
    BY <1>1, <1>10
  <2>2. upTo[n + 1] = IF RowStatus(rows[n + 1]) = "ok" THEN Append(upTo[n], Normalized(rows[n + 1])) ELSE upTo[n]
    BY <1>7, <2>1
  <2>3. Append(upTo[n], Normalized(rows[n + 1])) \in S
    BY <1>8, <2>1
  <2> QED BY <2>1, <2>2, <2>3
<1> HIDE DEF T
<1>11. \A n \in 0..N : n \in T
  BY <1>1, <1>9, <1>10, Positions
<1>12. N \in 0..N
  BY <1>1
<1> QED BY <1>5, <1>11, <1>12 DEF S, T

\* Inverting the rows of an inverted file puts their signs right, whichever file.
LEMMA InversionCorrects ==
  \A f \in Files, flipped \in BOOLEAN :
    SignOf[f][flipped] = "inverted" => SignOf[f][~flipped] = "standard"
<1>1. ASSUME NEW f \in Files
      PROVE  /\ SignOf[f][FALSE] = "inverted" => SignOf[f][TRUE] = "standard"
             /\ SignOf[f][TRUE] = "inverted" => SignOf[f][FALSE] = "standard"
  <2> DEFINE rows == Committable(Content[f].rows)
  <2>1. Content[f].rows \in Seq(RowType)
    BY IntakeAssumption DEF ContentType
  <2>2. rows \in Seq(Rows)
    BY <2>1, CommittableRows
  <2>3. SignOf[f][FALSE] = DetectSignConvention(rows) /\ SignOf[f][TRUE] = DetectSignConvention(Invert(rows))
    BY DEF SignOf, Sendable
  <2> HIDE DEF rows
  <2> QED BY <2>2, <2>3, SignsInverted
<1> QED BY <1>1

-----------------------------------------------------------------------------
(* How a sheet is read. *)

\* A sheet is a sequence of rows, and a row of cells.
LEMMA SheetGrid ==
  ASSUME NEW sheet \in Sheets
  PROVE  /\ Len(sheet.rows) \in Nat /\ DOMAIN sheet.rows = 1..Len(sheet.rows)
         /\ \A r \in DOMAIN sheet.rows : sheet.rows[r] \in Seq(ToSet(sheet.rows[r]))
<1>1. sheet.rows \in Seq(ToSet(sheet.rows)) /\ \A row \in ToSet(sheet.rows) : row \in Seq(ToSet(row))
  BY SheetAssumption
<1>2. ASSUME NEW r \in DOMAIN sheet.rows PROVE sheet.rows[r] \in ToSet(sheet.rows)
  BY DEF ToSet
<1>3. Len(sheet.rows) \in Nat /\ DOMAIN sheet.rows = 1..Len(sheet.rows)
  BY <1>1
<1> QED BY <1>1, <1>2, <1>3

\* Positions, and 0, have a greatest.
LEMMA GreatestPosition ==
  ASSUME NEW N \in Nat, NEW S, S \subseteq 0..N, S # {}
  PROVE  Max(S) \in S /\ \A i \in S : i <= Max(S)
<1> DEFINE fromEnd == {N - i : i \in S}
<1>1. fromEnd # {} /\ fromEnd \subseteq Nat
  <2>1. \A i \in S : N - i \in Nat /\ N - i \in fromEnd
    OBVIOUS
  <2> QED BY <2>1
<1>2. PICK n \in fromEnd : \A m \in fromEnd : ~(<<m, n>> \in OpToRel(<, Nat))
  <2> HIDE DEF fromEnd
  <2> QED BY <1>1, WFMin, NatLessThanWellFounded
<1>3. PICK k \in S : n = N - k
  OBVIOUS
<1>4. ASSUME NEW i \in S PROVE k >= i
  <2>1. SUFFICES ASSUME ~(k >= i) PROVE FALSE
    OBVIOUS
  <2>2. N - i \in fromEnd /\ N - i < n /\ n \in Nat /\ N - i \in Nat
    BY <1>3, <2>1
  <2>3. <<N - i, n>> \in OpToRel(<, Nat)
    BY <2>2 DEF OpToRel
  <2> QED BY <1>2, <2>2, <2>3
<1>5. \E i \in S : \A j \in S : i >= j
  BY <1>4
<1>6. Max(S) \in S /\ \A j \in S : Max(S) >= j
  BY <1>5, Zenon DEF Max
<1> QED BY <1>6

\* So have they a least.
LEMMA LeastPosition ==
  ASSUME NEW S, S \subseteq Nat, S # {}
  PROVE  Min(S) \in S
<1>1. PICK k \in S : \A i \in S : ~(<<i, k>> \in OpToRel(<, Nat))
  BY WFMin, NatLessThanWellFounded
<1>2. ASSUME NEW i \in S PROVE k <= i
  <2>1. SUFFICES ASSUME ~(k <= i) PROVE FALSE
    OBVIOUS
  <2>2. i \in Nat /\ k \in Nat /\ i < k
    BY <2>1
  <2>3. <<i, k>> \in OpToRel(<, Nat)
    BY <2>2 DEF OpToRel
  <2> QED BY <1>1, <2>3
<1>3. \E i \in S : \A j \in S : i <= j
  BY <1>2
<1> QED BY <1>3, Zenon DEF Min

\* Trimming a row drops empty cells only, and only at its end.
LEMMA TrimmedRow ==
  ASSUME NEW C, NEW row \in Seq(C)
  PROVE  /\ \E k \in 0..Len(row) : DOMAIN Trimmed(row) = 1..k
         /\ \A i \in DOMAIN Trimmed(row) : i \in DOMAIN row /\ Trimmed(row)[i] = row[i]
         /\ \A i \in DOMAIN row : i \notin DOMAIN Trimmed(row) => CellText(row[i]) = Blank
<1> DEFINE filled == {i \in DOMAIN row : CellText(row[i]) # Blank}
           k == Max({0} \cup filled)
<1>1. Len(row) \in Nat /\ DOMAIN row = 1..Len(row)
  OBVIOUS
<1>2. k \in {0} \cup filled /\ \A i \in {0} \cup filled : i <= k
  <2>1. {0} \cup filled \subseteq 0..Len(row) /\ {0} \cup filled # {}
    BY <1>1
  <2> HIDE DEF filled
  <2> QED BY <1>1, <2>1, GreatestPosition
<1>3. k \in 0..Len(row)
  BY <1>1, <1>2
<1>4. Trimmed(row) = SubSeq(row, 1, k)
  BY DEF Trimmed
<1>5. ASSUME NEW i \in DOMAIN row, i \notin 1..k PROVE CellText(row[i]) = Blank
  <2>1. i \notin filled
    <3> HIDE DEF k, filled
    <3> QED BY <1>1, <1>2, <1>3, <1>5
  <2> QED BY <2>1
<1> HIDE DEF k
<1>6. DOMAIN Trimmed(row) = 1..k /\ \A i \in 1..k : Trimmed(row)[i] = row[i]
  BY <1>1, <1>3, <1>4
<1>7. \A i \in 1..k : i \in DOMAIN row
  BY <1>1, <1>3
<1> QED BY <1>3, <1>5, <1>6, <1>7

\* The amount read from a cell is the one it shows.
LEMMA CellShown ==
  ASSUME NEW cell, NEW field \in AmountFields
  PROVE  /\ Amount(CellValue(cell, field)) = Shown(cell)
         /\ CellText(cell) = Blank => Shown(cell) = 0
<1>1. Blank \notin Int /\ Unreadable \notin Int
  BY SpreadsheetAssumption
<1>2. CASE cell.kind \in {"empty", "error"}
  <2>1. CellText(cell) = Blank
    BY <1>2 DEF CellText
  <2>2. CellValue(cell, field) = Blank
    BY <2>1 DEF CellValue
  <2>3. Shown(cell) = 0
    BY <1>2 DEF Shown
  <2> QED BY <2>2, <2>3 DEF Amount
<1>3. CASE cell.kind \notin {"empty", "error"} /\ cell.text \notin Int
  <2>1. CellValue(cell, field) \in {Blank, Unreadable}
    BY <1>3 DEF CellText, CellValue
  <2>2. Shown(cell) = 0
    BY <1>3 DEF Shown
  <2> QED BY <2>1, <2>2 DEF Amount
<1>4. CASE cell.kind \notin {"empty", "error"} /\ cell.text \in Int
  <2>1. CellText(cell) = cell.text /\ cell.text # Blank
    BY <1>1, <1>4 DEF CellText
  <2>2. CellValue(cell, field) = IF cell.kind # "parens" THEN cell.text
                                 ELSE IF cell.text < 0 THEN Unreadable ELSE -cell.text
    BY <1>4, <2>1 DEF CellValue
  <2>3. CASE cell.kind # "parens"
    <3>1. Shown(cell) = cell.text
      BY <1>4, <2>3 DEF Shown
    <3> QED BY <1>1, <1>4, <2>1, <2>2, <2>3, <3>1 DEF Amount
  <2>4. CASE cell.kind = "parens"
    <3>1. Shown(cell) = IF cell.text >= 0 THEN -cell.text ELSE 0
      BY <1>4, <2>4 DEF Shown
    <3>2. CASE cell.text < 0
      BY <1>4, <2>1, <2>2, <2>4, <3>1, <3>2 DEF Amount
    <3>3. CASE cell.text >= 0
      <4>1. -cell.text \in Int /\ ~(cell.text < 0)
        BY <1>4, <3>3
      <4> QED BY <1>1, <2>1, <2>2, <2>4, <3>1, <3>3, <4>1 DEF Amount
    <3> QED BY <1>4, <3>2, <3>3
  <2> QED BY <2>3, <2>4
<1> QED BY <1>2, <1>3, <1>4

\* So it is when the cell is looked up in the trimmed row.
LEMMA CellRead ==
  ASSUME NEW C, NEW row \in Seq(C), NEW i \in Nat \ {0}, NEW field \in AmountFields
  PROVE  Amount(CellValue(CellAt(Trimmed(row), i), field)) = IF i \in DOMAIN row THEN Shown(row[i]) ELSE 0
<1>1. CASE i \in DOMAIN Trimmed(row)
  <2>1. CellAt(Trimmed(row), i) = row[i] /\ i \in DOMAIN row
    BY <1>1, TrimmedRow DEF CellAt
  <2> QED BY <2>1, CellShown
<1>2. CASE i \notin DOMAIN Trimmed(row)
  <2>1. CellAt(Trimmed(row), i) = NoCell
    BY <1>2 DEF CellAt
  <2>2. CellText(NoCell) = Blank
    BY DEF NoCell, Cell, CellText
  <2>3. Amount(CellValue(NoCell, field)) = 0
    BY <2>2, CellShown
  <2>4. i \in DOMAIN row => Shown(row[i]) = 0
    BY <1>2, TrimmedRow, CellShown
  <2> QED BY <2>1, <2>3, <2>4
<1> QED BY <1>1, <1>2

\* The headers are a sequence of positions.
LEMMA HeaderRow ==
  ASSUME NEW sheet \in Sheets, NEW h \in DOMAIN sheet.rows
  PROVE  \E n \in Nat : /\ DOMAIN Headers(sheet, h) = 1..n
                        /\ n = 0 => Headers(sheet, h) = <<>>
<1>1. sheet.rows[h] \in Seq(ToSet(sheet.rows[h]))
  BY SheetGrid
<1> DEFINE row == Trimmed(sheet.rows[h])
<1>2. PICK k \in 0..Len(sheet.rows[h]) : DOMAIN row = 1..k
  BY <1>1, TrimmedRow
<1>3. k \in Nat
  BY <1>1
<1>4. Headers(sheet, h) = [i \in DOMAIN row |-> CellText(row[i])]
  BY DEF Headers
<1> HIDE DEF row
<1>5. DOMAIN Headers(sheet, h) = 1..k
  BY <1>2, <1>4
<1>6. k = 0 => Headers(sheet, h) = <<>>
  BY <1>2, <1>4
<1> QED BY <1>3, <1>5, <1>6

\* The parsed rows up to a physical row: those that are not empty, in order.
Lines(sheet, h, map) ==
  {[line |-> r, fields |-> RowFields(sheet, h, map, r)] : r \in h + 1 .. Len(sheet.rows)}
RowsUpTo(sheet, h, map, n, rows) ==
  /\ rows \in Seq(Lines(sheet, h, map))
  /\ \A i \in DOMAIN rows : rows[i].line \in h + 1 .. h + n
  /\ \A i, j \in DOMAIN rows : i < j => rows[i].line < rows[j].line
  /\ \A r \in h + 1 .. h + n : EmptyRow(sheet, h, map, r) \/ \E i \in DOMAIN rows : rows[i].line = r

\* One more physical row keeps what is said of the rows before it.
LEMMA NextRow ==
  ASSUME NEW sheet \in Sheets, NEW h \in DOMAIN sheet.rows, NEW map,
         NEW n \in Nat, h + n + 1 <= Len(sheet.rows), NEW rows, RowsUpTo(sheet, h, map, n, rows),
         NEW row, row = [line |-> h + (n + 1), fields |-> RowFields(sheet, h, map, h + (n + 1))]
  PROVE  /\ EmptyRow(sheet, h, map, h + (n + 1)) => RowsUpTo(sheet, h, map, n + 1, rows)
         /\ RowsUpTo(sheet, h, map, n + 1, Append(rows, row))
<1> DEFINE L == Lines(sheet, h, map)
<1>1. h \in Nat /\ Len(sheet.rows) \in Nat
  BY SheetGrid
<1>2. row \in L /\ row.line = h + (n + 1)
  BY <1>1 DEF Lines
<1>3. rows \in Seq(L)
  BY DEF RowsUpTo
<1>4. ASSUME NEW r \in h + 1 .. h + (n + 1) PROVE r = h + (n + 1) \/ r \in h + 1 .. h + n
  <2>1. r \in Int /\ h + 1 <= r /\ r <= h + (n + 1) /\ h + 1 \in Int /\ h + n \in Int
    BY <1>1
  <2>2. r = h + (n + 1) \/ r <= h + n
    BY <1>1, <2>1
  <2> QED BY <2>1, <2>2
<1>5. ASSUME NEW r \in h + 1 .. h + n PROVE r \in h + 1 .. h + (n + 1) /\ r < h + (n + 1)
  BY <1>1
<1> HIDE DEF L
<1>6. ASSUME EmptyRow(sheet, h, map, h + (n + 1)) PROVE RowsUpTo(sheet, h, map, n + 1, rows)
  BY <1>4, <1>5, <1>6 DEF RowsUpTo
<1>7. RowsUpTo(sheet, h, map, n + 1, Append(rows, row))
  <2> DEFINE more == Append(rows, row)
  <2>1. Len(rows) \in Nat /\ DOMAIN rows = 1..Len(rows)
    BY <1>3
  <2>2. more \in Seq(L) /\ DOMAIN more = 1 .. Len(rows) + 1
    BY <1>2, <1>3
  <2>3. more[Len(rows) + 1] = row /\ \A i \in DOMAIN rows : more[i] = rows[i]
    BY <1>2, <1>3, <2>1
  <2> HIDE DEF more
  <2>4. ASSUME NEW i \in DOMAIN more PROVE (i \in DOMAIN rows /\ i < Len(rows) + 1) \/ i = Len(rows) + 1
    BY <2>1, <2>2
  <2>5. ASSUME NEW i \in DOMAIN more PROVE more[i].line \in h + 1 .. h + (n + 1)
    <3>1. h + (n + 1) \in h + 1 .. h + (n + 1)
      BY <1>1
    <3> QED BY <1>2, <1>5, <2>3, <2>4, <3>1 DEF RowsUpTo
  <2>6. ASSUME NEW i \in DOMAIN more, NEW j \in DOMAIN more, i < j PROVE more[i].line < more[j].line
    <3>1. i \in DOMAIN rows
      BY <2>1, <2>2, <2>4, <2>6
    <3>2. CASE j \in DOMAIN rows
      BY <2>3, <2>6, <3>1, <3>2 DEF RowsUpTo
    <3>3. CASE j = Len(rows) + 1
      <4>1. rows[i].line < h + (n + 1)
        BY <1>5, <3>1 DEF RowsUpTo
      <4> QED BY <1>2, <2>3, <3>1, <3>3, <4>1
    <3> QED BY <2>4, <3>2, <3>3
  <2>7. ASSUME NEW r \in h + 1 .. h + (n + 1)
        PROVE  EmptyRow(sheet, h, map, r) \/ \E i \in DOMAIN more : more[i].line = r
    <3>1. CASE r = h + (n + 1)
      <4>1. Len(rows) + 1 \in DOMAIN more
        BY <2>1, <2>2
      <4> QED BY <1>2, <2>3, <3>1, <4>1
    <3>2. CASE r \in h + 1 .. h + n
      <4>1. CASE EmptyRow(sheet, h, map, r)
        BY <4>1
      <4>2. CASE ~EmptyRow(sheet, h, map, r)
        <5>1. PICK i \in DOMAIN rows : rows[i].line = r
          BY <3>2, <4>2 DEF RowsUpTo
        <5>2. i \in DOMAIN more
          BY <2>1, <2>2
        <5> QED BY <2>3, <5>1, <5>2
      <4> QED BY <4>1, <4>2
    <3> QED BY <1>4, <3>1, <3>2
  <2> QED BY <2>2, <2>5, <2>6, <2>7 DEF RowsUpTo, more, L
<1> QED BY <1>6, <1>7

\* The parsed rows are those of the whole sheet.
LEMMA ParsedRowsInOrder ==
  ASSUME NEW sheet \in Sheets, NEW h \in DOMAIN sheet.rows, NEW map
  PROVE  RowsUpTo(sheet, h, map, Len(sheet.rows) - h, ParsedRows(sheet, h, map))
<1> DEFINE N == Len(sheet.rows) - h
           Row(n) == [line |-> h + n, fields |-> RowFields(sheet, h, map, h + n)]
           Skips(n) == EmptyRow(sheet, h, map, h + n)
           S == Seq(Lines(sheet, h, map))
           Collects(f) == f = [n \in 0 .. Len(sheet.rows) - h |->
                                 IF n = 0 THEN <<>>
                                 ELSE IF EmptyRow(sheet, h, map, h + n) THEN f[n - 1]
                                 ELSE Append(f[n - 1], [line |-> h + n, fields |-> RowFields(sheet, h, map, h + n)])]
           upTo == CHOOSE f : Collects(f)
<1>1. h \in Nat /\ Len(sheet.rows) \in Nat /\ h + N = Len(sheet.rows) /\ N \in Nat
  BY SheetGrid
<1>2. \A n \in 1..N, s \in S : Append(s, Row(n)) \in S
  <2>1. ASSUME NEW n \in 1..N PROVE Row(n) \in Lines(sheet, h, map)
    <3> HIDE DEF N
    <3>0. n \in Int /\ 1 <= n /\ n <= N
      BY <1>1
    <3>1. h + n \in Int /\ h + 1 <= h + n /\ h + n <= Len(sheet.rows) /\ h + 1 \in Int
      BY <1>1, <3>0
    <3>2. h + n \in h + 1 .. Len(sheet.rows)
      BY <1>1, <3>1
    <3> QED BY <3>2 DEF Lines
  <2> HIDE DEF Row, N
  <2> QED BY <2>1
<1>3. <<>> \in S
  OBVIOUS
<1>4. \E f : Collects(f)
  <2> DEFINE step == [n \in 1..N |-> [s \in S |-> IF Skips(n) THEN s ELSE Append(s, Row(n))]]
  <2>1. step \in Steps(N, S)
    <3> HIDE DEF N, S, Row, Skips
    <3> QED BY <1>2 DEF Steps
  <2>2. \E f : Recurs(f, N, S, <<>>, step)
    <3> HIDE DEF step, N, S
    <3> QED BY <1>1, <1>3, <2>1, Recursion
  <2>3. PICK f \in [0..N -> S] : f[0] = <<>> /\ \A n \in 1..N : f[n] = step[n][f[n - 1]]
    BY <2>2 DEF Recurs
  <2>4. ASSUME NEW n \in 1..N PROVE f[n] = IF Skips(n) THEN f[n - 1] ELSE Append(f[n - 1], Row(n))
    <3>1. n - 1 \in 0..N
      BY <1>1
    <3> HIDE DEF N, S, Row, Skips
    <3>2. f[n - 1] \in S /\ f[n] = step[n][f[n - 1]]
      BY <2>3, <3>1
    <3> QED BY <3>2
  <2> HIDE DEF step, S, Row, Skips
  <2>5. ASSUME NEW n \in 0..N
        PROVE  f[n] = IF n = 0 THEN <<>> ELSE IF Skips(n) THEN f[n - 1] ELSE Append(f[n - 1], Row(n))
    <3>1. n = 0 \/ (n \in 1..N /\ n # 0)
      BY <1>1
    <3> HIDE DEF N
    <3>2. CASE n = 0
      BY <2>3, <3>2
    <3>3. CASE n \in 1..N /\ n # 0
      BY <2>4, <3>3, Zenon
    <3> QED BY <3>1, <3>2, <3>3
  <2>6. f = [n \in 0..N |-> IF n = 0 THEN <<>> ELSE IF Skips(n) THEN f[n - 1] ELSE Append(f[n - 1], Row(n))]
    BY <2>3, <2>5
  <2> QED BY <2>6 DEF Collects, Skips, Row
<1>5. Collects(upTo)
  BY <1>4, Zenon
<1>6. ParsedRows(sheet, h, map) = upTo[N]
  BY DEF ParsedRows
<1> HIDE DEF upTo
<1>7. upTo[0] = <<>>
  <2>1. 0 \in 0 .. Len(sheet.rows) - h
    BY <1>1
  <2> QED BY <1>5, <2>1, Zenon
<1>8. ASSUME NEW n \in 1..N PROVE upTo[n] = IF Skips(n) THEN upTo[n - 1] ELSE Append(upTo[n - 1], Row(n))
  <2>1. n \in 0 .. Len(sheet.rows) - h /\ n # 0
    BY <1>1
  <2> QED BY <1>5, <2>1, Zenon
<1> DEFINE Good(n, rows) == RowsUpTo(sheet, h, map, n, rows)
           T == {n \in 0..N : Good(n, upTo[n])}
<1>9. Good(0, <<>>)
  <2>1. h + 1 .. h + 0 = {}
    BY <1>1
  <2> QED BY <2>1 DEF RowsUpTo
<1>10. \A n \in 0 .. N - 1 : \A rows : Good(n, rows) =>
         /\ Skips(n + 1) => Good(n + 1, rows)
         /\ Good(n + 1, Append(rows, Row(n + 1)))
  <2>1. ASSUME NEW n \in 0 .. N - 1, NEW rows, Good(n, rows)
        PROVE  /\ Skips(n + 1) => Good(n + 1, rows)
               /\ Good(n + 1, Append(rows, Row(n + 1)))
    <3>1. n \in Nat /\ h + n + 1 <= Len(sheet.rows)
      BY <1>1
    <3> QED BY <2>1, <3>1, NextRow, Zenon
  <2> QED BY <2>1
<1> HIDE DEF N, Collects, Row, Skips, Good
<1>11. 0 \in T
  BY <1>1, <1>7, <1>9
<1>12. ASSUME NEW n \in 0 .. N - 1, n \in T PROVE n + 1 \in T
  <2>1. n + 1 \in 1..N /\ n + 1 \in 0..N /\ n + 1 - 1 = n /\ Good(n, upTo[n])
    BY <1>1, <1>12
  <2>2. upTo[n + 1] = IF Skips(n + 1) THEN upTo[n] ELSE Append(upTo[n], Row(n + 1))
    BY <1>8, <2>1
  <2>3. /\ Skips(n + 1) => Good(n + 1, upTo[n])
        /\ Good(n + 1, Append(upTo[n], Row(n + 1)))
    BY <1>10, <2>1
  <2>4. Good(n + 1, upTo[n + 1])
    BY <2>2, <2>3
  <2> QED BY <2>1, <2>4
<1> HIDE DEF T
<1>13. \A n \in 0..N : n \in T
  BY <1>1, <1>11, <1>12, Positions
<1>14. N \in T
  BY <1>1, <1>13
<1> QED BY <1>6, <1>14 DEF T, Good, N

\* A column is a position.
LEMMA ColumnPosition ==
  ASSUME NEW sheet \in Sheets, NEW h \in DOMAIN sheet.rows, NEW map, NEW field,
         NEW i \in ColumnsOf(Headers(sheet, h), map, field)
  PROVE  i \in Nat \ {0}
<1>1. i \in DOMAIN Headers(sheet, h)
  BY DEF ColumnsOf, MappedColumns
<1>2. PICK n \in Nat : DOMAIN Headers(sheet, h) = 1..n
  BY HeaderRow
<1> QED BY <1>1, <1>2

\* The greatest of one is that one.
LEMMA GreatestOfOne ==
  ASSUME NEW i \in Nat
  PROVE  Max({i}) = i
<1>1. {i} \subseteq 0..i /\ {i} # {}
  OBVIOUS
<1>2. Max({i}) \in {i}
  BY <1>1, GreatestPosition
<1> QED BY <1>2

\* No amount of a sheet that is accepted is lost, read twice or from elsewhere.
LEMMA AmountsAreKept ==
  ASSUME NEW sheet \in Sheets, NEW h \in DOMAIN sheet.rows, NEW map, Mappable(sheet, h, map)
  PROVE  AmountsKept(sheet, h, map)
<1> DEFINE rows == ParsedRows(sheet, h, map)
<1>1. h \in Nat /\ Len(sheet.rows) \in Nat /\ h + (Len(sheet.rows) - h) = Len(sheet.rows)
      /\ DOMAIN sheet.rows = 1..Len(sheet.rows)
  BY SheetGrid
<1>2. /\ rows \in Seq(Lines(sheet, h, map))
      /\ RowsInOrder(sheet, h, rows)
      /\ \A r \in h + 1 .. Len(sheet.rows) :
           EmptyRow(sheet, h, map, r) \/ \E i \in DOMAIN rows : rows[i].line = r
  <2> DEFINE N == Len(sheet.rows) - h
  <2>1. RowsUpTo(sheet, h, map, N, rows)
    BY ParsedRowsInOrder
  <2>2. h + N = Len(sheet.rows)
    BY <1>1
  <2> HIDE DEF N, rows
  <2> QED BY <2>1, <2>2 DEF RowsUpTo, RowsInOrder
<1> HIDE DEF rows
<1>3. ASSUME NEW r \in h + 1 .. Len(sheet.rows), NEW w \in DOMAIN map,
             NEW i \in ColumnsOf(Headers(sheet, h), map, map[w]), map[w] \in AmountFields
      PROVE  AmountRead(rows, r, map[w]) = ShownAt(sheet, r, i)
  <2> DEFINE field == map[w]
             fields == RowFields(sheet, h, map, r)
  <2>1. ColumnsOf(Headers(sheet, h), map, map[w]) = {i}
    <3>1. PICK n \in Nat : DOMAIN Headers(sheet, h) = 1..n
      BY HeaderRow
    <3>2. IsFiniteSet(ColumnsOf(Headers(sheet, h), map, map[w]))
      <4>1. ColumnsOf(Headers(sheet, h), map, map[w]) \subseteq 1..n
        BY <3>1 DEF ColumnsOf, MappedColumns
      <4>2. IsFiniteSet(1..n)
        BY FS_Interval
      <4> QED BY <4>1, <4>2, FS_Subset
    <3>3. Cardinality(ColumnsOf(Headers(sheet, h), map, map[w])) = 1
      BY DEF Mappable
    <3>4. PICK x : ColumnsOf(Headers(sheet, h), map, map[w]) = {x}
      BY <3>2, <3>3, FS_Singleton
    <3> QED BY <3>4
  <2>2. i \in Nat \ {0} /\ fields[field] = CellValue(CellAt(Trimmed(sheet.rows[r]), i), field)
    <3>1. fields[field] = CellValue(CellAt(Trimmed(sheet.rows[r]), i), field)
      <4>1. field \in {map[v] : v \in DOMAIN map} /\ i \in Nat
        BY ColumnPosition
      <4>2. Max(ColumnsOf(Headers(sheet, h), map, field)) = i
        BY <2>1, <4>1, GreatestOfOne
      <4> HIDE DEF field
      <4> QED BY <4>1, <4>2 DEF RowFields
    <3>2. i \in Nat \ {0}
      BY ColumnPosition
    <3> QED BY <3>1, <3>2
  <2>3. Amount(fields[field]) = ShownAt(sheet, r, i)
    <3>1. r \in DOMAIN sheet.rows
      BY <1>1
    <3>2. sheet.rows[r] \in Seq(ToSet(sheet.rows[r]))
      BY <3>1, SheetGrid
    <3>3. field \in AmountFields
      BY <1>3
    <3> HIDE DEF field, fields
    <3>4. Amount(CellValue(CellAt(Trimmed(sheet.rows[r]), i), field))
            = IF i \in DOMAIN sheet.rows[r] THEN Shown(sheet.rows[r][i]) ELSE 0
      BY <2>2, <3>2, <3>3, CellRead
    <3> QED BY <2>2, <3>4 DEF ShownAt
  <2>4. CASE \E k \in DOMAIN rows : rows[k].line = r
    <3> DEFINE k == CHOOSE k \in DOMAIN rows : rows[k].line = r
    <3>1. k \in DOMAIN rows /\ rows[k].line = r
      BY <2>4, Zenon
    <3>2. AmountRead(rows, r, field) = Amount(rows[k].fields[field])
      BY <2>4 DEF AmountRead
    <3> HIDE DEF k
    <3>3. rows[k] \in Lines(sheet, h, map)
      BY <1>2, <3>1
    <3>4. rows[k].fields = fields
      BY <3>1, <3>3 DEF Lines
    <3> QED BY <2>3, <3>2, <3>4
  <2>5. CASE ~\E k \in DOMAIN rows : rows[k].line = r
    <3>1. EmptyRow(sheet, h, map, r)
      BY <1>2, <2>5
    <3>2. field \in DOMAIN fields
      BY DEF RowFields
    <3>3. fields[field] = Blank
      BY <3>1, <3>2 DEF EmptyRow
    <3>4. Amount(Blank) = 0
      BY DEF Amount
    <3>5. AmountRead(rows, r, field) = 0
      BY <2>5 DEF AmountRead
    <3> QED BY <2>3, <3>3, <3>4, <3>5
  <2> QED BY <2>4, <2>5
<1> QED BY <1>2, <1>3 DEF AmountsKept, rows

\* How often a word is a header.
Occurrences(headers, v) == {i \in DOMAIN headers : headers[i] = v}

\* Only one word is mapped to a field that has one column, and that column is its.
LEMMA OneWord ==
  ASSUME NEW headers, NEW map, DOMAIN map \subseteq ToSet(headers), NEW w \in DOMAIN map,
         NEW x, ColumnsOf(headers, map, map[w]) = {x}
  PROVE  /\ \A v \in DOMAIN map : map[v] = map[w] => v = w
         /\ Occurrences(headers, w) = {x}
<1>1. ASSUME NEW v \in DOMAIN map, map[v] = map[w] PROVE v = headers[x] /\ Occurrences(headers, v) \subseteq {x}
  <2>1. PICK i \in DOMAIN headers : headers[i] = v
    BY DEF ToSet
  <2>2. \A j \in Occurrences(headers, v) : j \in ColumnsOf(headers, map, map[w])
    BY <1>1 DEF ColumnsOf, MappedColumns, Occurrences
  <2>3. i \in Occurrences(headers, v)
    BY <2>1 DEF Occurrences
  <2>4. i = x
    BY <2>2, <2>3
  <2> QED BY <2>1, <2>2, <2>4
<1>2. PICK i \in DOMAIN headers : headers[i] = w
  BY DEF ToSet
<1>3. i \in Occurrences(headers, w)
  BY <1>2 DEF Occurrences
<1> QED BY <1>1, <1>3

\* A map that is accepted for a sheet suits every sheet it is suggested for.
LEMMA SuggestionsFit ==
  ASSUME NEW sheet \in Sheets, NEW h \in DOMAIN sheet.rows, NEW map, Mappable(sheet, h, map), NEW other \in Sheets
  PROVE  SuggestionFits(sheet, h, map, other)
<1> DEFINE p == PreviewRow(other)
<1>1. SUFFICES ASSUME p # 0, Fingerprint(other, p) = Fingerprint(sheet, h)
               PROVE  Mappable(other, p, map)
  BY DEF SuggestionFits
<1>2. p \in DOMAIN other.rows
  <2>1. HeaderRowCandidates(other) # {} /\ p = Min(HeaderRowCandidates(other))
    BY <1>1 DEF PreviewRow
  <2>2. HeaderRowCandidates(other) \subseteq DOMAIN other.rows
    BY DEF HeaderRowCandidates
  <2>3. HeaderRowCandidates(other) \subseteq Nat
    BY <2>2, SheetGrid
  <2>4. Min(HeaderRowCandidates(other)) \in HeaderRowCandidates(other)
    BY <2>1, <2>3, LeastPosition
  <2> QED BY <2>1, <2>2, <2>4
<1> HIDE DEF p
<1> DEFINE H == Headers(sheet, h)
           G == Headers(other, p)
<1>3. PICK n \in Nat : DOMAIN H = 1..n /\ (n = 0 => H = <<>>)
  BY HeaderRow
<1>4. PICK m \in Nat : DOMAIN G = 1..m /\ (m = 0 => G = <<>>)
  BY <1>2, HeaderRow
<1>5. /\ H # <<>> /\ ValidColumnMap(H, map)
      /\ \A w \in DOMAIN map : Cardinality(ColumnsOf(H, map, map[w])) = 1
  BY DEF Mappable
<1>6. [w \in ToSet(G) |-> Cardinality({i \in DOMAIN G : G[i] = w})]
        = [w \in ToSet(H) |-> Cardinality({i \in DOMAIN H : H[i] = w})]
  BY <1>1 DEF Fingerprint
<1> HIDE DEF H, G
<1>7. ToSet(G) = ToSet(H) /\ \A w \in ToSet(H) : Cardinality(Occurrences(G, w)) = Cardinality(Occurrences(H, w))
  <2> DEFINE inG == [w \in ToSet(G) |-> Cardinality(Occurrences(G, w))]
             inH == [w \in ToSet(H) |-> Cardinality(Occurrences(H, w))]
  <2>1. inG = inH
    BY <1>6 DEF Occurrences
  <2>2. DOMAIN inG = ToSet(G) /\ DOMAIN inH = ToSet(H)
    OBVIOUS
  <2>3. ASSUME NEW w \in ToSet(H) PROVE inH[w] = Cardinality(Occurrences(H, w))
    OBVIOUS
  <2>4. ASSUME NEW w \in ToSet(G) PROVE inG[w] = Cardinality(Occurrences(G, w))
    OBVIOUS
  <2> HIDE DEF inG, inH
  <2> QED BY <2>1, <2>2, <2>3, <2>4
<1>8. G # <<>>
  <2>1. 1 \in DOMAIN H
    BY <1>3, <1>5
  <2>2. H[1] \in ToSet(H)
    BY <2>1 DEF ToSet
  <2>3. PICK i \in DOMAIN G : G[i] = H[1]
    BY <1>7, <2>2 DEF ToSet
  <2>4. DOMAIN G # {}
    BY <2>3
  <2>5. DOMAIN <<>> = {}
    OBVIOUS
  <2> QED BY <2>4, <2>5
<1>9. ValidColumnMap(G, map)
  BY <1>5, <1>7 DEF ValidColumnMap
<1>10. ASSUME NEW w \in DOMAIN map PROVE Cardinality(ColumnsOf(G, map, map[w])) = 1
  <2>1. ColumnsOf(H, map, map[w]) \subseteq 1..n /\ Occurrences(G, w) \subseteq 1..m
    BY <1>3, <1>4 DEF ColumnsOf, MappedColumns, Occurrences
  <2>2. IsFiniteSet(ColumnsOf(H, map, map[w])) /\ IsFiniteSet(Occurrences(G, w))
    <3>1. IsFiniteSet(1..n) /\ IsFiniteSet(1..m)
      BY FS_Interval
    <3> QED BY <2>1, <3>1, FS_Subset
  <2>3. PICK x : ColumnsOf(H, map, map[w]) = {x}
    BY <1>5, <2>2, FS_Singleton
  <2>4. DOMAIN map \subseteq ToSet(H)
    BY <1>5 DEF ValidColumnMap
  <2>5. /\ \A v \in DOMAIN map : map[v] = map[w] => v = w
        /\ Occurrences(H, w) = {x}
    BY <2>3, <2>4, OneWord
  <2>6. Cardinality(Occurrences(G, w)) = 1
    BY <1>7, <2>4, <2>5, FS_Singleton
  <2>7. ColumnsOf(G, map, map[w]) = Occurrences(G, w)
    <3>1. ASSUME NEW i \in DOMAIN G
          PROVE  (G[i] \in DOMAIN map /\ map[G[i]] = map[w]) <=> G[i] = w
      BY <2>5
    <3> QED BY <3>1 DEF ColumnsOf, MappedColumns, Occurrences
  <2> QED BY <2>6, <2>7
<1> QED BY <1>2, <1>8, <1>9, <1>10 DEF Mappable, G

\* Sheets are read as they are, and suggestions of column maps fit, for any sheets.
LEMMA SheetsAreRead == SheetsRead
<1>1. ASSUME NEW sheet \in Sheets, NEW map \in ColumnMaps, NEW h \in DOMAIN sheet.rows, Accepted(sheet, h, map)
      PROVE  AmountsKept(sheet, h, map) /\ \A other \in Sheets : SuggestionFits(sheet, h, map, other)
  <2>1. Mappable(sheet, h, map)
    BY <1>1 DEF Accepted
  <2> QED BY <2>1, AmountsAreKept, SuggestionsFit
<1> QED BY <1>1 DEF SheetsRead

-----------------------------------------------------------------------------
(* What the tax memory suggests. *)

\* The tokens two names share, and have between them.
LEMMA Overlap ==
  ASSUME NEW a \in Names, NEW b \in Names
  PROVE  /\ Cardinality(a \cap b) \in Nat /\ Cardinality(a \cup b) \in Nat
         /\ a # {} => Cardinality(a \cup b) > 0
<1>1. IsFiniteSet(a) /\ IsFiniteSet(b)
  BY DEF Names
<1>2. IsFiniteSet(a \cap b) /\ IsFiniteSet(a \cup b)
  BY <1>1, FS_Intersection, FS_Union
<1>3. Cardinality(a \cap b) \in Nat /\ Cardinality(a \cup b) \in Nat
  BY <1>2, FS_CardinalityType
<1>4. ASSUME a # {} PROVE Cardinality(a \cup b) # 0
  BY <1>2, <1>4, FS_EmptySet
<1> QED BY <1>3, <1>4

\* A precedent that has a name has a score of at most MaxConfidence.
LEMMA ConfidenceTyped ==
  ASSUME NEW p, IsPrecedent(p), NEW row \in Rows, NEW owner, p.name # {}
  PROVE  /\ SimilarityScore(p, row) \in Int /\ ScopeBonus(p, owner) \in Int /\ VintageBonus(p) \in Int
         /\ Confidence(p, row, owner) \in Int /\ Confidence(p, row, owner) <= MaxConfidence
<1>1. p.name \in Names /\ row.name \in Names /\ p.age \in Nat
  BY DEF IsPrecedent, Rows
<1>2. Cardinality(p.name \cap row.name) \in Nat /\ Cardinality(p.name \cup row.name) \in Nat
      /\ Cardinality(p.name \cup row.name) > 0
  BY <1>1, Overlap
<1>3. SimilarityScore(p, row) \in Int
  <2>1. PICK k \in Nat, u \in Nat : u > 0 /\ k = Cardinality(p.name \cap row.name) /\ u = Cardinality(p.name \cup row.name)
    BY <1>2
  <2>2. (300 * k) \div u \in Int
    BY <2>1
  <2> QED BY <2>1, <2>2 DEF SimilarityScore
<1>4. ScopeBonus(p, owner) \in Int /\ VintageBonus(p) \in Int
  BY <1>1 DEF ScopeBonus, VintageBonus
<1> QED BY <1>3, <1>4 DEF Confidence, MaxConfidence, MinConfidence

\* A newer precedent that is as near in name and scope has no lower score.
LEMMA NearerScoresMore ==
  ASSUME NEW p, IsPrecedent(p), NEW q, IsPrecedent(q), NEW row \in Rows, NEW owner,
         p.name # {}, q.name # {}, q.age <= p.age, AtLeast(q, p, row, owner)
  PROVE  Confidence(q, row, owner) >= Confidence(p, row, owner)
<1>1. /\ SimilarityScore(p, row) \in Int /\ ScopeBonus(p, owner) \in Int
      /\ SimilarityScore(q, row) \in Int /\ ScopeBonus(q, owner) \in Int
  BY ConfidenceTyped
<1>2. p.age \in Nat /\ q.age \in Nat
  BY DEF IsPrecedent
<1>3. VintageBonus(p) \in Int /\ VintageBonus(q) \in Int /\ VintageBonus(q) >= VintageBonus(p)
  BY <1>2 DEF VintageBonus
<1>4. SimilarityScore(q, row) >= SimilarityScore(p, row) /\ ScopeBonus(q, owner) >= ScopeBonus(p, owner)
  BY DEF AtLeast
<1> QED BY <1>1, <1>3, <1>4 DEF Confidence, MaxConfidence, MinConfidence

\* The best of a sequence by its scores among those that fit, the first of them.
Best(b, N, fits, score) ==
  /\ b \in 0..N
  /\ b = 0 => fits \cap 1..N = {}
  /\ b # 0 => b \in fits /\ \A i \in fits \cap 1..N : score[i] <= score[b] /\ (i < b => score[i] < score[b])

\* BestMatch finds it.
LEMMA BestMatchIsBest ==
  ASSUME NEW row \in Rows, NEW P, \A p \in P : IsPrecedent(p), NEW precedents \in Seq(P), NEW owner, NEW start,
         NEW fits, fits = {i \in 1..Len(precedents) : Qualifies(precedents[i], row, start)},
         NEW score, score = [i \in 1..Len(precedents) |-> Confidence(precedents[i], row, owner)]
  PROVE  /\ \A i \in fits : score[i] \in Int /\ score[i] <= MaxConfidence
         /\ Best(BestMatch(row, precedents, owner, start), Len(precedents), fits, score)
<1> DEFINE N == Len(precedents)
           Matches(f) == f = [n \in 0..N |->
             IF n = 0 THEN 0
             ELSE IF /\ Qualifies(precedents[n], row, start)
                     /\ \/ f[n - 1] = 0
                        \/ Confidence(precedents[n], row, owner) > Confidence(precedents[f[n - 1]], row, owner)
                  THEN n ELSE f[n - 1]]
           best == CHOOSE f : Matches(f)
           Better(n, b) == IF n \in fits /\ (b = 0 \/ score[n] > score[b]) THEN n ELSE b
<1>1. N \in Nat /\ fits \subseteq 1..N
  OBVIOUS
<1>2. \A i \in fits : score[i] \in Int /\ score[i] <= MaxConfidence
  <2>1. ASSUME NEW i \in fits PROVE score[i] \in Int /\ score[i] <= MaxConfidence
    <3>1. i \in 1..Len(precedents) /\ Qualifies(precedents[i], row, start)
      OBVIOUS
    <3>2. IsPrecedent(precedents[i])
      BY <3>1, ItemOfSequence
    <3>3. precedents[i].name # {}
      BY <3>1 DEF Qualifies
    <3> QED BY <3>1, <3>2, <3>3, ConfidenceTyped
  <2> QED BY <2>1
<1>3. ASSUME NEW n \in 1..N, NEW b \in 0..N
      PROVE  /\ Better(n, b) \in 0..N
             /\ Better(n, b) = IF /\ Qualifies(precedents[n], row, start)
                                 /\ \/ b = 0
                                    \/ Confidence(precedents[n], row, owner) > Confidence(precedents[b], row, owner)
                              THEN n ELSE b
  <2>1. n \in fits <=> Qualifies(precedents[n], row, start)
    OBVIOUS
  <2>2. score[n] = Confidence(precedents[n], row, owner)
    OBVIOUS
  <2>3. b # 0 => score[b] = Confidence(precedents[b], row, owner)
    OBVIOUS
  <2> QED BY <2>1, <2>2, <2>3
<1>4. \E f : Matches(f)
  <2> DEFINE step == [n \in 1..N |-> [b \in 0..N |-> Better(n, b)]]
  <2>1. step \in Steps(N, 0..N) /\ 0 \in 0..N
    BY <1>1, <1>3 DEF Steps
  <2>2. \E f : Recurs(f, N, 0..N, 0, step)
    <3> HIDE DEF step, N
    <3> QED BY <1>1, <2>1, Recursion
  <2>3. PICK f \in [0..N -> 0..N] : f[0] = 0 /\ \A n \in 1..N : f[n] = step[n][f[n - 1]]
    BY <2>2 DEF Recurs
  <2>4. ASSUME NEW n \in 1..N PROVE f[n - 1] \in 0..N /\ f[n] = Better(n, f[n - 1])
    <3>1. n - 1 \in 0..N
      BY <1>1
    <3>2. f[n - 1] \in 0..N
      BY <3>1
    <3> HIDE DEF N, Better
    <3> QED BY <2>3, <3>2
  <2> HIDE DEF step, N, Better
  <2>5. ASSUME NEW n \in 0..N
        PROVE  f[n] = IF n = 0 THEN 0
                      ELSE IF /\ Qualifies(precedents[n], row, start)
                              /\ \/ f[n - 1] = 0
                                 \/ Confidence(precedents[n], row, owner) > Confidence(precedents[f[n - 1]], row, owner)
                           THEN n ELSE f[n - 1]
    <3>1. CASE n = 0
      BY <2>3, <3>1
    <3>2. CASE n # 0
      <4>1. n \in 1..N
        BY <1>1, <3>2
      <4> QED BY <1>3, <2>4, <3>2, <4>1
    <3> QED BY <3>1, <3>2
  <2>6. Matches(f)
    BY <2>3, <2>5
  <2> QED BY <2>6
<1>5. Matches(best)
  BY <1>4, Zenon
<1>6. BestMatch(row, precedents, owner, start) = best[N]
  BY DEF BestMatch
<1> HIDE DEF best
<1>7. best[0] = 0
  BY <1>1, <1>5
<1>8. ASSUME NEW n \in 1..N, best[n - 1] \in 0..N PROVE best[n] = Better(n, best[n - 1])
  <2>1. n \in 0..N /\ n # 0
    BY <1>1
  <2> HIDE DEF N, Better
  <2>2. best[n] = IF /\ Qualifies(precedents[n], row, start)
                     /\ \/ best[n - 1] = 0
                        \/ Confidence(precedents[n], row, owner) > Confidence(precedents[best[n - 1]], row, owner)
                  THEN n ELSE best[n - 1]
    BY <1>5, <2>1, Zenon
  <2> QED BY <1>3, <1>8, <2>2
<1> HIDE DEF N, Matches
<1> DEFINE T == {n \in 0..N : Best(best[n], n, fits, score)}
<1>9. 0 \in T
  BY <1>1, <1>7 DEF Best
<1>10. ASSUME NEW n \in 0 .. N - 1, n \in T PROVE n + 1 \in T
  <2>1. n + 1 \in 1..N /\ n + 1 \in 0..N /\ n + 1 - 1 = n /\ n \in Nat /\ Best(best[n], n, fits, score)
    BY <1>1, <1>10
  <2>2. best[n] \in 0..n /\ best[n] \in 0..N
    BY <1>1, <2>1 DEF Best
  <2>3. best[n + 1] = IF n + 1 \in fits /\ (best[n] = 0 \/ score[n + 1] > score[best[n]]) THEN n + 1 ELSE best[n]
    <3>1. best[n + 1 - 1] = best[n]
      BY <2>1
    <3>2. best[n + 1] = Better(n + 1, best[n])
      <4> HIDE DEF Better
      <4> QED BY <1>8, <2>1, <2>2, <3>1
    <3> QED BY <3>2, Zenon
  <2>4. \A i \in fits \cap 1 .. n + 1 : i = n + 1 \/ i \in fits \cap 1..n
    BY <2>1
  <2>5. Best(best[n + 1], n + 1, fits, score)
    <3>1. CASE n + 1 \in fits /\ (best[n] = 0 \/ score[n + 1] > score[best[n]])
      <4>1. best[n + 1] = n + 1
        BY <2>3, <3>1
      <4>2. ASSUME NEW i \in fits \cap 1..n PROVE score[i] < score[n + 1] /\ score[i] \in Int
        BY <1>2, <2>1, <3>1, <4>2 DEF Best
      <4>3. score[n + 1] \in Int
        BY <1>2, <3>1
      <4> QED BY <2>1, <2>4, <3>1, <4>1, <4>2, <4>3 DEF Best
    <3>2. CASE n + 1 \in fits /\ ~(best[n] = 0 \/ score[n + 1] > score[best[n]])
      <4>1. best[n + 1] = best[n] /\ best[n] # 0 /\ best[n] \in fits
        BY <2>1, <2>3, <3>2 DEF Best
      <4>2. score[n + 1] <= score[best[n]]
        BY <1>2, <3>2, <4>1
      <4>3. ~(n + 1 < best[n])
        BY <2>1, <2>2
      <4> QED BY <2>1, <2>2, <2>4, <4>1, <4>2, <4>3 DEF Best
    <3>3. CASE n + 1 \notin fits
      <4>1. best[n + 1] = best[n]
        BY <2>3, <3>3
      <4>2. fits \cap 1 .. n + 1 = fits \cap 1..n
        BY <2>1, <2>4, <3>3
      <4> QED BY <2>1, <2>2, <4>1, <4>2 DEF Best
    <3> QED BY <3>1, <3>2, <3>3
  <2> QED BY <2>1, <2>5
<1> HIDE DEF T
<1>11. \A n \in 0..N : n \in T
  BY <1>1, <1>9, <1>10, Positions
<1>12. N \in 0..N
  BY <1>1
<1>13. Best(best[N], N, fits, score)
  BY <1>11, <1>12 DEF T
<1> QED BY <1>2, <1>6, <1>13 DEF N

\* A suggestion cites the best that fits, and a rule when none does.
LEMMA SuggestionCites ==
  ASSUME NEW row \in Rows, NEW P, \A p \in P : IsPrecedent(p), NEW precedents \in Seq(P), NEW owner, NEW start,
         NEW s, s = Suggestion(row, precedents, owner, start),
         NEW best, best = BestMatch(row, precedents, owner, start)
  PROVE  /\ best = 0 => s.source = "rules" /\ s.cited = 0
         /\ best # 0 => s.source = "tax_memory" /\ s.cited = best /\ s.class = precedents[best].class
BY DEF Suggestion

\* Every suggestion can be explained from a memory whose newest precedents come first.
LEMMA AlwaysExplained ==
  ASSUME NEW row \in Rows, NEW P, \A p \in P : IsPrecedent(p), NEW precedents \in Seq(P), NewestFirst(precedents), NEW owner, NEW start
  PROVE  Explained(row, precedents, owner, start)
<1>1. PICK fits : fits = {i \in 1..Len(precedents) : Qualifies(precedents[i], row, start)}
  OBVIOUS
<1>2. PICK score : score = [i \in 1..Len(precedents) |-> Confidence(precedents[i], row, owner)]
  OBVIOUS
<1>3. PICK best, s : best = BestMatch(row, precedents, owner, start) /\ s = Suggestion(row, precedents, owner, start)
  OBVIOUS
<1>4. DOMAIN precedents = 1..Len(precedents) /\ Len(precedents) \in Nat
  OBVIOUS
<1>5. /\ best \in 0..Len(precedents)
      /\ best = 0 => fits = {}
      /\ best # 0 => best \in fits /\ \A i \in fits : i < best => score[i] < score[best]
      /\ \A i \in fits : score[i] \in Int
  <2>1. Best(best, Len(precedents), fits, score) /\ \A i \in fits : score[i] \in Int
    BY <1>1, <1>2, <1>3, BestMatchIsBest
  <2>2. fits \cap 1..Len(precedents) = fits
    BY <1>1
  <2> QED BY <2>1, <2>2 DEF Best
<1>6. /\ best = 0 => s.source = "rules"
      /\ best # 0 => s.source = "tax_memory" /\ s.cited = best
  BY <1>3, SuggestionCites
<1>7. s.source = "rules" <=> fits = {}
  BY <1>5, <1>6
<1>8. ASSUME s.source = "tax_memory", NEW i \in fits, i < s.cited
      PROVE  ~AtLeast(precedents[i], precedents[s.cited], row, owner)
  <2>1. best # 0 /\ s.cited = best /\ best \in fits /\ i < best
    BY <1>6, <1>8, <1>5
  <2>2. i \in 1..Len(precedents) /\ best \in 1..Len(precedents)
    BY <1>1, <2>1
  <2>3. IsPrecedent(precedents[i]) /\ IsPrecedent(precedents[best])
    BY <1>4, <2>2, ItemOfSequence
  <2>4. precedents[i].name # {} /\ precedents[best].name # {}
    BY <1>1, <2>1 DEF Qualifies
  <2>5. precedents[i].age <= precedents[best].age
    BY <1>4, <2>1, <2>2 DEF NewestFirst
  <2>6. score[i] < score[best] /\ score[i] = Confidence(precedents[i], row, owner)
        /\ score[best] = Confidence(precedents[best], row, owner) /\ score[i] \in Int /\ score[best] \in Int
    BY <1>2, <1>5, <2>1, <2>2
  <2>7. ASSUME AtLeast(precedents[i], precedents[best], row, owner) PROVE FALSE
    <3>1. Confidence(precedents[i], row, owner) >= Confidence(precedents[best], row, owner)
      BY <2>3, <2>4, <2>5, <2>7, NearerScoresMore
    <3> QED BY <2>6, <3>1
  <2> QED BY <2>1, <2>7
<1> QED BY <1>1, <1>3, <1>4, <1>7, <1>8 DEF Explained

\* What has just been taught has the highest score there is.
LEMMA TaughtQualifies ==
  ASSUME NEW row \in Rows, NEW class, NEW entity, NEW period,
         period.start \in Int, period.end \in Int, period.start <= period.end,
         NEW p, p = Taught(row, class, entity, period)
  PROVE  /\ IsPrecedent(p) /\ p.class = class
         /\ ~Qualifies(p, row, period.end + 1)
         /\ row.name # {} => /\ Qualifies(p, row, period.start)
                             /\ \A owner : owner.entity = entity => Confidence(p, row, owner) = MaxConfidence
<1>1. row.name \in Names
  BY DEF Rows
<1>2. IsPrecedent(p) /\ p.class = class
  BY <1>1 DEF Taught, IsPrecedent
<1>3. p.name = row.name /\ p.type = row.type /\ p.from = period.start /\ p.to = period.end /\ p.age = 0
      /\ p.entity = entity /\ p.jurisdiction = "UK_FRS102"
  BY DEF Taught
<1>4. ~Qualifies(p, row, period.end + 1)
  BY <1>3 DEF Qualifies
<1>5. ASSUME row.name # {}
      PROVE  Qualifies(p, row, period.start) /\ \A owner : owner.entity = entity => Confidence(p, row, owner) = MaxConfidence
  <2>1. p.name \cap row.name = row.name /\ p.name \cup row.name = row.name
    BY <1>3
  <2>2. PICK k \in Nat : k = Cardinality(row.name) /\ k > 0
    BY <1>1, <1>5, <2>1, Overlap
  <2>3. Qualifies(p, row, period.start)
    <3>1. Cardinality(p.name \cap row.name) = k /\ Cardinality(p.name \cup row.name) = k /\ 2 * k >= k
      BY <2>1, <2>2
    <3>2. p.name # {} /\ period.start <= period.start
      BY <1>3, <1>5
    <3> QED BY <1>3, <3>1, <3>2 DEF Qualifies
  <2>4. SimilarityScore(p, row) = 300
    <3>1. (300 * k) \div k = 300
      BY <2>2
    <3> QED BY <2>1, <2>2, <3>1 DEF SimilarityScore
  <2>5. VintageBonus(p) = 50
    BY <1>3 DEF VintageBonus
  <2>6. ASSUME NEW owner, owner.entity = entity PROVE Confidence(p, row, owner) = MaxConfidence
    <3>1. ScopeBonus(p, owner) = 150
      BY <1>3, <2>6 DEF ScopeBonus
    <3> QED BY <2>4, <2>5, <3>1 DEF Confidence, MaxConfidence, MinConfidence
  <2> QED BY <2>3, <2>6
<1> QED BY <1>2, <1>4, <1>5

\* What is decided for a row is suggested for it the next time in its period, and in
\* a later period no longer, whatever else the memory holds.
LEMMA AlwaysRemembered ==
  ASSUME NEW row \in Rows, NEW class, NEW P, \A p \in P : IsPrecedent(p), NEW precedents \in Seq(P),
         NEW owner,
         NEW period, period.start \in Int, period.end \in Int, period.start <= period.end
  PROVE  Remembered(row, class, precedents, owner, period)
<1>1. PICK p : p = Taught(row, class, owner.entity, period)
  OBVIOUS
<1>2. /\ IsPrecedent(p) /\ p.class = class /\ ~Qualifies(p, row, period.end + 1)
      /\ row.name # {} => Qualifies(p, row, period.start) /\ Confidence(p, row, owner) = MaxConfidence
  BY <1>1, TaughtQualifies
<1>3. PICK memory : memory = <<p>> \o precedents
  OBVIOUS
<1> DEFINE Q == P \cup {p}
<1>4. memory \in Seq(Q) /\ memory[1] = p /\ Len(memory) \in Nat /\ 1 \in 1..Len(memory)
  BY <1>3
<1>7. \A q \in Q : IsPrecedent(q)
  BY <1>2
<1> HIDE DEF Q
<1>5. ASSUME row.name # {} PROVE Suggestion(row, memory, owner, period.start).class = class
  <2>1. PICK fits : fits = {i \in 1..Len(memory) : Qualifies(memory[i], row, period.start)}
    OBVIOUS
  <2>2. PICK score : score = [i \in 1..Len(memory) |-> Confidence(memory[i], row, owner)]
    OBVIOUS
  <2>3. PICK best, s : best = BestMatch(row, memory, owner, period.start)
                       /\ s = Suggestion(row, memory, owner, period.start)
    OBVIOUS
  <2>4. /\ best \in 0..Len(memory)
        /\ best = 0 => fits = {}
        /\ best # 0 => best \in fits /\ \A i \in fits : score[i] <= score[best] /\ (i < best => score[i] < score[best])
        /\ \A i \in fits : score[i] \in Int /\ score[i] <= MaxConfidence
    <3>1. Best(best, Len(memory), fits, score) /\ \A i \in fits : score[i] \in Int /\ score[i] <= MaxConfidence
      BY <1>4, <1>7, <2>1, <2>2, <2>3, BestMatchIsBest
    <3>2. fits \cap 1..Len(memory) = fits
      BY <2>1
    <3> QED BY <3>1, <3>2 DEF Best
  <2>5. 1 \in fits /\ score[1] = MaxConfidence
    BY <1>2, <1>4, <1>5, <2>1, <2>2
  <2>6. best = 1
    <3>1. best # 0 /\ best \in fits /\ score[best] <= score[1] /\ score[best] \in Int /\ score[1] \in Int
      BY <2>4, <2>5
    <3>2. ~(1 < best)
      BY <2>4, <2>5, <3>1
    <3> QED BY <1>4, <2>4, <3>1, <3>2
  <2>7. s.class = memory[1].class
    <3>1. best # 0 => s.class = memory[best].class
      BY <1>4, <1>7, <2>3, SuggestionCites
    <3> QED BY <2>6, <3>1
  <2> QED BY <1>2, <1>4, <2>3, <2>7
<1>6. Suggestion(row, memory, owner, period.end + 1).cited # 1
  <2>1. PICK fits : fits = {i \in 1..Len(memory) : Qualifies(memory[i], row, period.end + 1)}
    OBVIOUS
  <2>2. PICK score : score = [i \in 1..Len(memory) |-> Confidence(memory[i], row, owner)]
    OBVIOUS
  <2>3. PICK best, s : best = BestMatch(row, memory, owner, period.end + 1)
                       /\ s = Suggestion(row, memory, owner, period.end + 1)
    OBVIOUS
  <2>4. best # 0 => best \in fits
    BY <1>4, <1>7, <2>1, <2>2, <2>3, BestMatchIsBest DEF Best
  <2>5. best # 1
    BY <1>2, <1>4, <2>1, <2>4
  <2>6. s.cited = best
    BY <1>4, <1>7, <2>3, SuggestionCites
  <2> QED BY <2>3, <2>5, <2>6
<1> QED BY <1>1, <1>3, <1>5, <1>6 DEF Remembered

\* So it is for every row of every file and every memory.
LEMMA MemoryIsExplained == MemoryExplained
<1>1. SUFFICES ASSUME NEW f \in Files, NEW memory \in Memories, NEW row \in ToSet(Sendable[f][FALSE])
               PROVE  /\ Explained(row, memory, Owner, Period.start)
                      /\ Remembered(row, "PERM_RD_ADDITION", memory, Owner, Period)
  BY DEF MemoryExplained
<1>2. PICK rows : rows = Committable(Content[f].rows)
  OBVIOUS
<1>3. Content[f].rows \in Seq(RowType)
  BY IntakeAssumption DEF ContentType
<1>4. rows \in Seq(Rows) /\ row \in ToSet(rows)
  BY <1>2, <1>3, CommittableRows DEF Sendable
<1>5. row \in Rows
  BY <1>4, ItemOfSequence DEF ToSet
<1>6. memory \in Seq(ToSet(memory)) /\ NewestFirst(memory) /\ \A p \in ToSet(memory) : IsPrecedent(p)
  BY MemoryAssumption
<1>7. Explained(row, memory, Owner, Period.start)
  BY <1>5, <1>6, AlwaysExplained
<1>8. Remembered(row, "PERM_RD_ADDITION", memory, Owner, Period)
  BY <1>5, <1>6, AlwaysRemembered, MemoryAssumption
<1> QED BY <1>7, <1>8

-----------------------------------------------------------------------------
(* Operators and types. *)

\* A file comes as a CSV or as a workbook.
LEMMA SourceTyped == \A f \in Files : SourceOf[f] \in Sources
<1>1. SUFFICES ASSUME NEW f \in Files PROVE SourceOf[f] \in Sources
  OBVIOUS
<1>2. Content[f] \in ContentType
  BY IntakeAssumption
<1> QED BY <1>2 DEF ContentType, SourceOf

\* A connection without a transaction has none in its table.
LEMMA NoTxSound ==
  /\ NoTx \in Transactions /\ TargetSound(NoTx)
  /\ NoTx.op = "none" /\ NoTx.op # "commit" /\ NoTx.op # "review"
BY DEF NoTx, Transactions, TargetSound, Sources, BatchOps

\* The newest open item of a batch is one of its items.
LEMMA OpenItemTyped ==
  ASSUME NEW b, items[b] \in Seq(SignItems)
  PROVE  OpenItem(b) \in Nat
<1> DEFINE open == {i \in DOMAIN items[b] : items[b][i].status = "open"}
           fromEnd == {n \in Nat : \E i \in open : n = Len(items[b]) - i}
<1>1. DOMAIN items[b] = 1..Len(items[b]) /\ Len(items[b]) \in Nat
  OBVIOUS
<1>2. CASE open = {}
  BY <1>2 DEF OpenItem
<1>3. CASE open # {}
  <2>1. open \subseteq 1..Len(items[b])
    BY <1>1
  <2>7. OpenItem(b) = (CHOOSE i \in open : \A j \in open : j <= i)
    BY <1>3 DEF OpenItem
  <2> HIDE DEF open
  <2>2. fromEnd # {}
    <3>1. PICK j \in open : TRUE
      BY <1>3
    <3>2. Len(items[b]) - j \in fromEnd
      BY <1>1, <2>1
    <3> QED BY <3>2
  <2>3. PICK n \in fromEnd : \A m \in fromEnd : ~(<<m, n>> \in OpToRel(<, Nat))
    <3>1. fromEnd \subseteq Nat
      OBVIOUS
    <3> HIDE DEF fromEnd
    <3> QED BY <2>2, <3>1, WFMin, NatLessThanWellFounded
  <2>4. PICK k \in open : n = Len(items[b]) - k
    OBVIOUS
  <2>5. ASSUME NEW j \in open PROVE j <= k
    <3>1. SUFFICES ASSUME ~(j <= k) PROVE FALSE
      OBVIOUS
    <3>2. Len(items[b]) - j \in fromEnd /\ Len(items[b]) - j < n /\ n \in Nat
      BY <1>1, <2>1, <2>4, <3>1
    <3>3. <<Len(items[b]) - j, n>> \in OpToRel(<, Nat)
      BY <3>2 DEF OpToRel
    <3> QED BY <2>3, <3>2, <3>3
  <2>6. (CHOOSE i \in open : \A j \in open : j <= i) \in open
    <3>1. \E i \in open : \A j \in open : j <= i
      BY <2>4, <2>5
    <3> QED BY <3>1, Zenon
  <2>8. OpenItem(b) \in open
    BY <2>6, <2>7, Zenon
  <2>9. ASSUME NEW i \in 1..Len(items[b]) PROVE i \in Nat
    BY <1>1
  <2> QED BY <2>1, <2>8, <2>9, Zenon
<1> QED BY <1>2, <1>3

\* Replacing an item of a sequence, or adding one, keeps its type.
LEMMA ItemReplaced ==
  ASSUME NEW S, NEW s \in Seq(S), NEW v \in S, NEW i
  PROVE  [s EXCEPT ![i] = v] \in Seq(S) /\ Append(s, v) \in Seq(S)
<1>1. Len(s) \in Nat /\ s \in [1..Len(s) -> S]
  OBVIOUS
<1>2. [s EXCEPT ![i] = v] \in [1..Len(s) -> S]
  BY <1>1
<1>3. \A t \in [1..Len(s) -> S] : t \in Seq(S)
  BY <1>1
<1>4. Append(s, v) \in Seq(S)
  OBVIOUS
<1> QED BY <1>2, <1>3, <1>4

\* Of the connections, any that are chosen are no more than all.
LEMMA FewerThanSessions ==
  ASSUME NEW S, S \subseteq Sessions
  PROVE  IsFiniteSet(S) /\ Cardinality(S) \in Nat /\ Cardinality(S) <= Cardinality(Sessions)
         /\ Cardinality(Sessions) \in Nat
BY IntakeAssumption, FS_Subset, FS_CardinalityType

\* Of fewer connections there are fewer.
LEMMA FewerSessions ==
  ASSUME NEW S, S \subseteq Sessions, NEW T, T \subseteq S
  PROVE  Cardinality(T) \in Nat /\ Cardinality(S) \in Nat /\ Cardinality(T) <= Cardinality(S)
BY FewerThanSessions, FS_Subset, FS_CardinalityType

\* And one fewer without one of them.
LEMMA OneSessionFewer ==
  ASSUME NEW S, S \subseteq Sessions, NEW c \in S
  PROVE  Cardinality(S \ {c}) \in Nat /\ Cardinality(S \ {c}) = Cardinality(S) - 1
<1>1. IsFiniteSet(S)
  BY FewerThanSessions
<1> QED BY <1>1, FS_RemoveElement, FS_CardinalityType

-----------------------------------------------------------------------------
(* What a step leaves as it was: in each lemma o is what one session's
   transaction may become. *)

\* What transactions are about stays.
LEMMA TargetsKept ==
  ASSUME TargetsSound, Stored \subseteq Stored', NEW o, TargetSound(o),
         \A d \in Sessions : tx'[d] \in {tx[d], o}
  PROVE  TargetsSound'
<1>1. SUFFICES ASSUME NEW d \in Sessions PROVE TargetSound(tx[d])'
  BY DEF TargetsSound
<1>2. PICK q : q = tx'[d]
  OBVIOUS
<1>3. TargetSound(q)
  BY <1>2 DEF TargetsSound
<1> QED BY <1>2, <1>3 DEF TargetSound

\* Nobody begins to review: no subject has more reviews to be written.
LEMMA ReviewsKept ==
  ASSUME ReviewsSound, subject' = subject, subject \in [Subjects -> SubjectRows], NEW o, o.op # "review",
         \A d \in Sessions : tx'[d] \in {tx[d], o}
  PROVE  ReviewsSound'
<1>1. SUFFICES ASSUME NEW g \in Subjects
               PROVE  subject[g].feedback + Cardinality(Reviewers(g)') <= Cardinality(Sessions)
  BY DEF ReviewsSound
<1>2. Reviewers(g)' \subseteq Reviewers(g) /\ Reviewers(g) \subseteq Sessions
  BY DEF Reviewers
<1>3. Cardinality(Reviewers(g)') \in Nat /\ Cardinality(Reviewers(g)) \in Nat
      /\ Cardinality(Reviewers(g)') <= Cardinality(Reviewers(g)) /\ Cardinality(Sessions) \in Nat
  BY <1>2, FewerSessions, FewerThanSessions
<1>4. subject[g].feedback \in Nat
  BY DEF SubjectRows
<1>5. subject[g].feedback + Cardinality(Reviewers(g)) <= Cardinality(Sessions)
  BY DEF ReviewsSound
<1> QED BY <1>3, <1>4, <1>5

\* The signs of what is going to be written stay right.
LEMMA SignsToWriteKept ==
  ASSUME SignsSound, TargetsSound, NEW o,
         o.op = "commit" => o.target \in Stored /\ SignsRight(batch[o.target].file, o.flip, o.warn),
         \A b \in Stored : batch'[b].file = batch[b].file,
         \A d \in Sessions : tx'[d] \in {tx[d], o}
  PROVE  \A d \in Sessions : tx'[d].op = "commit" =>
           SignsRight(batch'[tx'[d].target].file, tx'[d].flip, tx'[d].warn)
<1>1. SUFFICES ASSUME NEW d \in Sessions, tx'[d].op = "commit"
               PROVE  SignsRight(batch'[tx'[d].target].file, tx'[d].flip, tx'[d].warn)
  OBVIOUS
<1>2. CASE tx'[d] = tx[d]
  <2>1. tx[d].target \in Stored
    BY <1>1, <1>2 DEF TargetsSound, TargetSound, BatchOps
  <2> QED BY <1>1, <1>2, <2>1 DEF SignsSound
<1>3. CASE tx'[d] = o
  BY <1>1, <1>3
<1> QED BY <1>2, <1>3

\* No warning that was raised is ever as if it had not been.
WarningsStay == \A b \in Batches : warnings'[b] = "none" => warnings[b] = "none"

\* What is live of a batch stays right.
LEMMA LiveRightKept ==
  ASSUME NEW b, NEW flipped, LiveRight(b, flipped), WarningsStay, Stored \subseteq Stored',
         batch'[b].file = batch[b].file
  PROVE  LiveRight(b, flipped)'
<1>1. b \in Stored' /\ (warnings[b] # "none" => warnings'[b] # "none")
  BY DEF LiveRight, WarningsStay, Stored
<1> QED BY <1>1 DEF LiveRight, SignsRight

\* And so do the signs of all that is live.
LEMMA SignsKept ==
  ASSUME SignsSound, TargetsSound, live' = live, WarningsStay, Stored \subseteq Stored', NEW o,
         o.op = "commit" => o.target \in Stored /\ SignsRight(batch[o.target].file, o.flip, o.warn),
         \A b \in Stored : batch'[b].file = batch[b].file,
         \A d \in Sessions : tx'[d] \in {tx[d], o}
  PROVE  SignsSound'
<1>1. \A d \in Sessions : tx'[d].op = "commit" =>
        SignsRight(batch'[tx'[d].target].file, tx'[d].flip, tx'[d].warn)
  BY SignsToWriteKept
<1>2. ASSUME NEW s \in Sources, NEW p \in Places, live[s][p] # NoLive
      PROVE  LiveRight(live[s][p].batch, live[s][p].flipped)'
  <2>1. LiveRight(live[s][p].batch, live[s][p].flipped)
    BY <1>2 DEF SignsSound
  <2>2. batch'[live[s][p].batch].file = batch[live[s][p].batch].file
    BY <2>1 DEF LiveRight
  <2>3. PICK b, flipped : b = live[s][p].batch /\ flipped = live[s][p].flipped
    OBVIOUS
  <2>4. LiveRight(b, flipped)'
    BY <2>1, <2>2, <2>3, LiveRightKept
  <2> QED BY <2>3, <2>4 DEF LiveRight
<1> QED BY <1>1, <1>2 DEF SignsSound, SignsRight

\* Which places the files share is the same both ways round; one with a place shares it
\* with itself.
LEMMA DisjointPlaces ==
  ASSUME NEW f, NEW g, Disjoint(f, g)
  PROVE  Disjoint(g, f) /\ \A p \in PlacesOf[f] : p \notin PlacesOf[g]
BY DEF Disjoint

\* A step that writes no batch, decides nothing and begins neither a commit nor a
\* review keeps the invariant.
LEMMA QuietStep ==
  ASSUME IntakeInv, UNCHANGED <<batch, live, subject>>, prior' \in BOOLEAN,
         items' \in [Batches -> Seq(SignItems)], warnings' \in [Batches -> WarningStates], WarningsStay,
         NEW o \in Transactions, TargetSound(o), o.op # "commit", o.op # "review",
         tx' \in [Sessions -> Transactions], \A d \in Sessions : tx'[d] \in {tx[d], o}
  PROVE  IntakeInv'
<1>1. CommittedIsLive /\ TypeOK /\ TargetsSound /\ BatchesSound /\ ReviewsSound
  BY DEF IntakeInv, CommittedIsLive
<1>2. TypeOK'
  BY <1>1 DEF TypeOK
<1>3. Stored' = Stored
  BY DEF Stored
<1>4. CommittedIsLive'
  BY <1>1, <1>2, <1>3 DEF CommittedIsLive, Source
<1>5. TargetsSound'
  BY <1>1, <1>3, TargetsKept
<1>6. BatchesSound'
  BY <1>1, <1>3 DEF BatchesSound
<1>7. ReviewsSound'
  BY <1>1, ReviewsKept DEF TypeOK
<1>8. SignsSound'
  <2>1. SignsSound
    BY DEF IntakeInv
  <2> QED BY <1>1, <1>3, <2>1, SignsKept
<1> QED BY <1>4, <1>5, <1>6, <1>7, <1>8 DEF IntakeInv

\* A step that writes batches, keeping what is stored of which file, and ends.
LEMMA BatchStep ==
  ASSUME IntakeInv, UNCHANGED <<items, warnings, live, prior, subject>>, NEW c \in Sessions, End(c),
         batch' \in [Batches -> BatchRows], Stored \subseteq Stored', BatchesSound',
         \A b \in Stored : batch'[b].file = batch[b].file,
         \A b \in Stored' : batch'[b].status = "committed" => b \in Stored /\ batch'[b] = batch[b],
         \A b, d \in Stored' : batch'[b].file = batch'[d].file => b = d
  PROVE  IntakeInv'
<1>1. CommittedIsLive /\ TypeOK /\ TargetsSound /\ BatchesSound /\ ReviewsSound /\ WarningsStay
  BY DEF IntakeInv, CommittedIsLive, WarningsStay
<1>2. tx' \in [Sessions -> Transactions] /\ \A d \in Sessions : tx'[d] \in {tx[d], NoTx}
  BY <1>1, NoTxSound DEF End, TypeOK
<1>3. TypeOK'
  BY <1>1, <1>2 DEF TypeOK
<1>4. ASSUME NEW b \in Stored', batch'[b].status = "committed", NEW p \in PlacesOf[batch'[b].file]
      PROVE  live'[Source(b)'][p] = [batch |-> b, flipped |-> batch'[b].flipped]
  <2>1. b \in Stored /\ batch'[b] = batch[b] /\ Source(b)' = Source(b)
    BY <1>4 DEF Source
  <2> QED BY <1>1, <1>4, <2>1 DEF CommittedIsLive
<1>5. ASSUME NEW b \in Stored', NEW d \in Stored', b # d, batch'[b].status = "committed",
             batch'[d].status = "committed", Source(b)' = Source(d)'
      PROVE  Disjoint(batch'[b].file, batch'[d].file)
  <2>1. b \in Stored /\ batch'[b] = batch[b] /\ d \in Stored /\ batch'[d] = batch[d]
    BY <1>5
  <2>2. Source(b) = Source(d)
    BY <1>5, <2>1 DEF Source
  <2> QED BY <1>1, <1>5, <2>1, <2>2 DEF CommittedIsLive
<1>6. CommittedIsLive'
  BY <1>3, <1>4, <1>5 DEF CommittedIsLive, Disjoint
<1>7. TargetsSound'
  BY <1>1, <1>2, NoTxSound, TargetsKept
<1>8. ReviewsSound'
  BY <1>1, <1>2, NoTxSound, ReviewsKept DEF TypeOK
<1>9. SignsSound'
  <2>1. SignsSound
    BY DEF IntakeInv
  <2> QED BY <1>1, <1>2, <2>1, NoTxSound, SignsKept
<1> QED BY <1>6, <1>7, <1>8, <1>9 DEF IntakeInv

-----------------------------------------------------------------------------
(* The actions that leave the batches alone. *)

\* A handler that ends leaves no transaction, one that begins its own.
LEMMA EndOK ==
  ASSUME TypeOK, NEW c \in Sessions, End(c)
  PROVE  tx' \in [Sessions -> Transactions] /\ \A d \in Sessions : tx'[d] \in {tx[d], NoTx}
BY NoTxSound DEF End, TypeOK

\* A handler that begins has its own transaction and disturbs no other.
LEMMA BeginOK ==
  ASSUME TypeOK, NEW c \in Sessions, NEW o \in Transactions, Begin(c, o)
  PROVE  /\ tx' \in [Sessions -> Transactions] /\ tx'[c] = o /\ tx[c] = NoTx
         /\ \A d \in Sessions : d # c => tx'[d] = tx[d]
         /\ \A d \in Sessions : tx'[d] \in {tx[d], o}
BY DEF Begin, IsIdle, TypeOK

\* POST /batches and the column map, up to the insert.
LEMMA BeginUploadOK ==
  ASSUME IntakeInv, NEW c \in Sessions, NEW f \in Files, BeginUpload(c, f)
  PROVE  IntakeInv'
<1>1. SUFFICES ASSUME NEW o, o = [NoTx EXCEPT !.op = SourceOf[f], !.file = f] PROVE IntakeInv'
  OBVIOUS
<1>2. o.op \in Sources /\ o.file = f /\ o \in Transactions
  BY <1>1, SourceTyped DEF NoTx, Transactions, Sources
<1>3. TargetSound(o) /\ o.op # "commit" /\ o.op # "review"
  BY <1>2 DEF TargetSound, Sources, BatchOps
<1>4. TypeOK
  BY DEF IntakeInv, CommittedIsLive
<1>5. Begin(c, o) /\ UNCHANGED <<batch, items, warnings, live, prior, subject>>
  BY <1>1 DEF BeginUpload
<1>6. tx' \in [Sessions -> Transactions] /\ \A d \in Sessions : tx'[d] \in {tx[d], o}
  BY <1>2, <1>4, <1>5, BeginOK
<1> QED BY <1>2, <1>3, <1>4, <1>5, <1>6, QuietStep DEF TypeOK, WarningsStay

\* What a request on a batch has read when it begins.
LEMMA BatchRequestOK ==
  ASSUME IntakeInv, NEW c \in Sessions, NEW o \in Transactions, Begin(c, o), o.target \in Stored,
         o.op \in BatchOps, o.op # "commit", UNCHANGED <<batch, items, warnings, live, prior, subject>>
  PROVE  IntakeInv'
<1>1. TargetSound(o) /\ o.op # "review"
  BY DEF TargetSound, Sources, BatchOps
<1>2. TypeOK
  BY DEF IntakeInv, CommittedIsLive
<1>3. tx' \in [Sessions -> Transactions] /\ \A d \in Sessions : tx'[d] \in {tx[d], o}
  BY <1>2, BeginOK
<1> QED BY <1>1, <1>2, <1>3, QuietStep DEF TypeOK, WarningsStay

\* POST /validate and /fail, up to the write.
LEMMA BeginChangeOK ==
  ASSUME IntakeInv, NEW c \in Sessions, NEW b \in Batches, NEW op, BeginChange(c, b, op)
  PROVE  IntakeInv'
<1>1. SUFFICES ASSUME NEW o, o = [NoTx EXCEPT !.op = op, !.target = b] PROVE IntakeInv'
  OBVIOUS
<1>2. op \in {"validate", "fail"} /\ b \in Stored /\ Begin(c, o)
      /\ UNCHANGED <<batch, items, warnings, live, prior, subject>>
  BY <1>1 DEF BeginChange
<1>3. o.op = op /\ o.target = b /\ o \in Transactions
  BY <1>1, <1>2 DEF NoTx, Transactions
<1> QED BY <1>2, <1>3, BatchRequestOK DEF BatchOps

\* A decision on the signs begins at the newest open item.
LEMMA BeginDecideOK ==
  ASSUME IntakeInv, NEW c \in Sessions, NEW b \in Batches, NEW op, BeginDecide(c, b, op)
  PROVE  IntakeInv'
<1>1. TypeOK
  BY DEF IntakeInv, CommittedIsLive
<1>2. OpenItem(b) \in Nat
  BY <1>1, OpenItemTyped DEF TypeOK
<1>3. SUFFICES ASSUME NEW o, o = [NoTx EXCEPT !.op = op, !.target = b, !.item = OpenItem(b)] PROVE IntakeInv'
  OBVIOUS
<1>4. op \in {"confirmed", "rejected"} /\ b \in Stored /\ Begin(c, o)
      /\ UNCHANGED <<batch, items, warnings, live, prior, subject>>
  BY <1>3 DEF BeginDecide
<1>5. o.op = op /\ o.target = b /\ o \in Transactions
  BY <1>2, <1>3, <1>4 DEF NoTx, Transactions
<1> QED BY <1>4, <1>5, BatchRequestOK DEF BatchOps

\* A commit that the bridge refuses.
LEMMA RefuseMismatchOK ==
  ASSUME IntakeInv, NEW c \in Sessions, NEW b \in Batches, RefuseMismatch(c, b)
  PROVE  IntakeInv'
<1>1. SUFFICES ASSUME NEW o, o = [NoTx EXCEPT !.op = "refused", !.target = b] PROVE IntakeInv'
  OBVIOUS
<1>2. b \in Stored /\ Begin(c, o) /\ UNCHANGED <<batch, items, warnings, live, prior, subject>>
  BY <1>1 DEF RefuseMismatch, PassesGates
<1>3. o.op = "refused" /\ o.target = b /\ o \in Transactions
  BY <1>1, <1>2 DEF NoTx, Transactions
<1> QED BY <1>2, <1>3, BatchRequestOK DEF BatchOps

\* A decision leaves items, whichever it decides.
LEMMA CommitDecideOK ==
  ASSUME IntakeInv, NEW c \in Sessions, CommitDecide(c)
  PROVE  IntakeInv'
<1>1. TypeOK /\ TargetsSound
  BY DEF IntakeInv, CommittedIsLive
<1>2. tx[c].op \in {"confirmed", "rejected"} /\ End(c)
      /\ UNCHANGED <<batch, warnings, live, prior, subject>>
  BY DEF CommitDecide
<1>3. PICK b : b = tx[c].target
  OBVIOUS
<1>4. b \in Batches
  BY <1>1, <1>2, <1>3 DEF TargetsSound, TargetSound, BatchOps, Stored
<1> DEFINE decided == [status |-> IF tx[c].op = "confirmed" THEN "resolved" ELSE "rejected",
                       decision |-> tx[c].op]
           at == IF tx[c].item # 0 THEN tx[c].item ELSE OpenItem(b)
<1>5. decided \in SignItems
  BY <1>2 DEF SignItems
<1>6. items' = [items EXCEPT ![b] = IF at = 0 THEN Append(@, decided) ELSE [@ EXCEPT ![at] = decided]]
  BY <1>3 DEF CommitDecide
<1>7. items[b] \in Seq(SignItems)
  BY <1>1, <1>4 DEF TypeOK
<1> HIDE DEF decided, at
<1>8. Append(items[b], decided) \in Seq(SignItems) /\ [items[b] EXCEPT ![at] = decided] \in Seq(SignItems)
  BY <1>5, <1>7, ItemReplaced
<1>9. items' \in [Batches -> Seq(SignItems)]
  BY <1>1, <1>6, <1>8 DEF TypeOK
<1>10. tx' \in [Sessions -> Transactions] /\ \A d \in Sessions : tx'[d] \in {tx[d], NoTx}
  BY <1>1, <1>2, EndOK
<1>11. warnings' \in [Batches -> WarningStates] /\ WarningsStay
  BY <1>1, <1>2 DEF TypeOK, WarningsStay
<1>12. prior' \in BOOLEAN
  BY <1>1, <1>2 DEF TypeOK
<1> QED BY <1>2, <1>9, <1>10, <1>11, <1>12, NoTxSound, QuietStep

\* An item is reopened or waived.
LEMMA ReopenOrWaiveOK ==
  ASSUME IntakeInv, NEW b \in Batches, NEW i, ReopenOrWaive(b, i)
  PROVE  IntakeInv'
<1>1. TypeOK
  BY DEF IntakeInv, CommittedIsLive
<1>2. items[b] \in Seq(SignItems) /\ i \in DOMAIN items[b]
  BY <1>1 DEF TypeOK, ReopenOrWaive
<1>3. items[b][i] \in SignItems
  BY <1>2, ItemOfSequence
<1> DEFINE item == [items[b][i] EXCEPT !.status = IF @ = "open" THEN "waived" ELSE "open"]
<1>4. item \in SignItems
  BY <1>3 DEF SignItems
<1>5. items' = [items EXCEPT ![b] = [@ EXCEPT ![i] = item]]
  BY DEF ReopenOrWaive
<1> HIDE DEF item
<1>6. [items[b] EXCEPT ![i] = item] \in Seq(SignItems)
  BY <1>2, <1>4, ItemReplaced
<1>7. items' \in [Batches -> Seq(SignItems)]
  BY <1>1, <1>5, <1>6 DEF TypeOK
<1>8. UNCHANGED <<batch, warnings, live, prior, subject, tx>>
  BY DEF ReopenOrWaive
<1>9. warnings' \in [Batches -> WarningStates] /\ WarningsStay
  BY <1>1, <1>8 DEF TypeOK, WarningsStay
<1>10. prior' \in BOOLEAN /\ \A d \in Sessions : tx'[d] \in {tx[d], NoTx}
  BY <1>1, <1>8 DEF TypeOK
<1>11. tx' \in [Sessions -> Transactions]
  BY <1>1, <1>8 DEF TypeOK
<1> QED BY <1>7, <1>8, <1>9, <1>10, <1>11, NoTxSound, QuietStep

\* Warnings are decided or reopened: they were raised all the same.
LEMMA WarningOK ==
  ASSUME IntakeInv, NEW b \in Batches, ResolveWarning(b) \/ ReopenWarning(b)
  PROVE  IntakeInv'
<1>1. TypeOK
  BY DEF IntakeInv, CommittedIsLive
<1>2. PICK w \in {"open", "closed"} : warnings' = [warnings EXCEPT ![b] = w]
  BY DEF ResolveWarning, ReopenWarning
<1>3. warnings[b] # "none" /\ UNCHANGED <<batch, items, live, prior, subject, tx>>
  BY DEF ResolveWarning, ReopenWarning
<1>4. warnings' \in [Batches -> WarningStates] /\ WarningsStay
  BY <1>1, <1>2, <1>3 DEF TypeOK, WarningStates, WarningsStay
<1> QED BY <1>1, <1>3, <1>4, NoTxSound, QuietStep DEF TypeOK, WarningsStay

\* The prior run is locked or unlocked.
LEMMA PriorRunOK ==
  ASSUME IntakeInv, PriorRun
  PROVE  IntakeInv'
<1>1. TypeOK
  BY DEF IntakeInv, CommittedIsLive
<1>2. prior' \in BOOLEAN /\ UNCHANGED <<batch, items, warnings, live, subject, tx>>
  BY DEF PriorRun
<1> QED BY <1>1, <1>2, NoTxSound, QuietStep DEF TypeOK, WarningsStay

\* A handler that ends with an error.
LEMMA RollbackOK ==
  ASSUME IntakeInv, NEW c \in Sessions, Rollback(c)
  PROVE  IntakeInv'
<1>1. TypeOK
  BY DEF IntakeInv, CommittedIsLive
<1>2. End(c) /\ UNCHANGED <<batch, items, warnings, live, prior, subject>>
  BY DEF Rollback
<1>3. tx' \in [Sessions -> Transactions] /\ \A d \in Sessions : tx'[d] \in {tx[d], NoTx}
  BY <1>1, <1>2, EndOK
<1> QED BY <1>1, <1>2, <1>3, NoTxSound, QuietStep DEF TypeOK, WarningsStay

-----------------------------------------------------------------------------
(* The actions that write batches. *)

\* The insert of a batch, whose file no other has.
LEMMA StoreOK ==
  ASSUME IntakeInv, NEW c \in Sessions, NEW f \in Files, NEW status \in {"failed", "ready_for_review"},
         Store(f, status), End(c), UNCHANGED <<items, warnings, live, prior, subject>>
  PROVE  IntakeInv'
<1>1. CommittedIsLive /\ TypeOK /\ BatchesSound
  BY DEF IntakeInv, CommittedIsLive
<1> DEFINE row == [NoRow EXCEPT !.file = f, !.status = status, !.rows = "checked"]
<1>2. PICK b \in Batches \ Stored : batch' = [batch EXCEPT ![b] = row]
  BY DEF Store
<1>3. row \in BatchRows /\ row # NoRow /\ row.file = f /\ row.status = status /\ row.rows = "checked"
  BY DEF NoRow, BatchRows
<1> HIDE DEF row
<1>4. batch' \in [Batches -> BatchRows] /\ batch'[b] = row /\ \A d \in Batches \ {b} : batch'[d] = batch[d]
  BY <1>1, <1>2, <1>3 DEF TypeOK
<1>5. Stored' = Stored \cup {b} /\ b \notin Stored /\ Stored \subseteq Batches
  BY <1>2, <1>3, <1>4 DEF Stored
<1>6. \A d \in Stored : batch'[d] = batch[d] /\ batch[d].file # f
  BY <1>4, <1>5 DEF Store, Taken
<1>7. BatchesSound'
  BY <1>1, <1>3, <1>4, <1>5, <1>6 DEF BatchesSound
<1>8. \A d \in Stored' : batch'[d].status = "committed" => d \in Stored /\ batch'[d] = batch[d]
  BY <1>3, <1>4, <1>5, <1>6
<1>9. \A d, e \in Stored' : batch'[d].file = batch'[e].file => d = e
  BY <1>1, <1>3, <1>4, <1>5, <1>6 DEF CommittedIsLive
<1> QED BY <1>4, <1>5, <1>6, <1>7, <1>8, <1>9, BatchStep

\* An upload is inserted, unless its file has a batch by now.
LEMMA CommitUploadOK ==
  ASSUME IntakeInv, NEW c \in Sessions, CommitUpload(c) \/ CommitColumnMap(c)
  PROVE  IntakeInv'
<1>1. TargetSound(tx[c])
  BY DEF IntakeInv, TargetsSound
<1>2. tx[c].file \in Files /\ End(c) /\ UNCHANGED <<items, warnings, live, prior, subject>>
  BY <1>1 DEF CommitUpload, CommitColumnMap, TargetSound, Sources
<1>3. PICK f : f = tx[c].file
  OBVIOUS
<1>4. \E status \in {"failed", "ready_for_review"} : Store(f, status)
  BY <1>3 DEF CommitUpload, CommitColumnMap
<1> QED BY <1>2, <1>3, <1>4, StoreOK

\* A change of the status of a batch, which does not commit it.
LEMMA StatusOK ==
  ASSUME IntakeInv, NEW c \in Sessions, NEW b \in Stored, NEW row \in BatchRows,
         row.file = batch[b].file, row.status \in {"failed", "ready_for_review"},
         row.status = "ready_for_review" => row.rows = "checked",
         batch' = [batch EXCEPT ![b] = row], End(c), UNCHANGED <<items, warnings, live, prior, subject>>
  PROVE  IntakeInv'
<1>1. CommittedIsLive /\ TypeOK /\ BatchesSound
  BY DEF IntakeInv, CommittedIsLive
<1>2. b \in Batches
  BY DEF Stored
<1>3. batch' \in [Batches -> BatchRows] /\ batch'[b] = row /\ \A d \in Batches \ {b} : batch'[d] = batch[d]
  BY <1>1, <1>2 DEF TypeOK
<1>4. row # NoRow
  BY DEF NoRow
<1>5. Stored' = Stored
  BY <1>3, <1>4 DEF Stored
<1>6. \A d \in Stored : batch'[d].file = batch[d].file
  BY <1>3 DEF Stored
<1>7. BatchesSound'
  BY <1>1, <1>3, <1>5, <1>6 DEF BatchesSound, Stored
<1>8. \A d \in Stored' : batch'[d].status = "committed" => d \in Stored /\ batch'[d] = batch[d]
  BY <1>3, <1>5 DEF Stored
<1>9. \A d, e \in Stored' : batch'[d].file = batch'[e].file => d = e
  BY <1>1, <1>5, <1>6 DEF CommittedIsLive
<1> QED BY <1>3, <1>5, <1>6, <1>7, <1>8, <1>9, BatchStep

\* A batch that is validated again may be committed again.
LEMMA CommitValidateOK ==
  ASSUME IntakeInv, NEW c \in Sessions, CommitValidate(c)
  PROVE  IntakeInv'
<1>1. TypeOK /\ TargetSound(tx[c])
  BY DEF IntakeInv, CommittedIsLive, TargetsSound
<1>2. PICK b : b = tx[c].target
  OBVIOUS
<1>3. b \in Stored /\ b \in Batches /\ End(c) /\ UNCHANGED <<items, warnings, live, prior, subject>>
  BY <1>1, <1>2 DEF CommitValidate, TargetSound, BatchOps, Stored
<1>4. PICK status \in {"failed", "ready_for_review"} :
        batch' = [batch EXCEPT ![b].status = status, ![b].rows = "checked"]
  BY <1>2 DEF CommitValidate
<1>5. batch[b] \in BatchRows
  BY <1>1, <1>3 DEF TypeOK
<1> DEFINE row == [batch[b] EXCEPT !.status = status, !.rows = "checked"]
<1>6. row \in BatchRows /\ row.file = batch[b].file /\ row.status = status /\ row.rows = "checked"
  BY <1>5 DEF BatchRows
<1>7. batch' = [batch EXCEPT ![b] = row]
  BY <1>1, <1>3, <1>4 DEF TypeOK
<1> HIDE DEF row
<1> QED BY <1>3, <1>6, <1>7, StatusOK

\* A batch is set to failed, also when it has been committed meanwhile.
LEMMA CommitFailOK ==
  ASSUME IntakeInv, NEW c \in Sessions, CommitFail(c)
  PROVE  IntakeInv'
<1>1. TypeOK /\ TargetSound(tx[c])
  BY DEF IntakeInv, CommittedIsLive, TargetsSound
<1>2. PICK b : b = tx[c].target
  OBVIOUS
<1>3. b \in Stored /\ b \in Batches /\ End(c) /\ UNCHANGED <<items, warnings, live, prior, subject>>
  BY <1>1, <1>2 DEF CommitFail, TargetSound, BatchOps, Stored
<1>4. batch[b] \in BatchRows
  BY <1>1, <1>3 DEF TypeOK
<1> DEFINE row == [batch[b] EXCEPT !.status = "failed"]
<1>5. row \in BatchRows /\ row.file = batch[b].file /\ row.status = "failed"
  BY <1>4 DEF BatchRows
<1>6. batch' = [batch EXCEPT ![b] = row]
  BY <1>2 DEF CommitFail
<1> HIDE DEF row
<1> QED BY <1>3, <1>5, <1>6, StatusOK

-----------------------------------------------------------------------------
(* The commit. *)

\* What a commit is going to write has the right signs: rows that look inverted
\* are inverted, and mixed ones get a warning.
LEMMA WrittenRight ==
  ASSUME BatchesSound, TypeOK, NEW b, PassesGates(b)
  PROVE  SignsRight(batch[b].file, Written(b), Warns(b))
<1>1. b \in Stored /\ batch[b].file \in Files /\ batch[b].rows = "checked"
  BY DEF PassesGates, BatchesSound
<1>2. batch[b].flipped \in BOOLEAN
  BY <1>1 DEF TypeOK, BatchRows, Stored
<1>3. CASE SignOf[batch[b].file][batch[b].flipped] = "inverted"
  <2>1. Corrects(b)
    BY <1>1, <1>3 DEF Corrects, Inverted, Sign
  <2>2. Written(b) = ~batch[b].flipped
    BY <1>2, <2>1 DEF Written
  <2> QED BY <1>1, <1>2, <1>3, <2>2, InversionCorrects DEF SignsRight
<1>4. CASE SignOf[batch[b].file][batch[b].flipped] # "inverted"
  <2>1. Corrects(b) = FALSE
    BY <1>1, <1>4 DEF Corrects, Inverted, Sign
  <2>2. Written(b) = batch[b].flipped
    BY <1>2, <2>1 DEF Written
  <2>3. SignOf[batch[b].file][batch[b].flipped] = "mixed" => Warns(b)
    BY <1>1 DEF Warns, Sign
  <2> QED BY <1>4, <2>2, <2>3 DEF SignsRight
<1> QED BY <1>3, <1>4

\* A commit has passed the gates and knows the signs it is going to write.
LEMMA BeginCommitOK ==
  ASSUME IntakeInv, NEW c \in Sessions, NEW b \in Batches, BeginCommit(c, b)
  PROVE  IntakeInv'
<1>1. CommittedIsLive /\ TypeOK /\ TargetsSound /\ BatchesSound /\ ReviewsSound
  BY DEF IntakeInv, CommittedIsLive
<1>2. SUFFICES ASSUME NEW o, o = [NoTx EXCEPT !.op = "commit", !.target = b, !.flip = Written(b),
                                              !.warn = Warns(b), !.seen = Superseded(b)]
               PROVE  IntakeInv'
  OBVIOUS
<1>3. PassesGates(b) /\ b \in Stored /\ Begin(c, o) /\ UNCHANGED <<batch, items, warnings, live, prior, subject>>
  BY <1>2 DEF BeginCommit, PassesGates
<1>4. Written(b) \in BOOLEAN /\ Warns(b) \in BOOLEAN /\ Superseded(b) \subseteq Batches
  BY DEF Written, Warns, Superseded, Stored
<1>5. o.op = "commit" /\ o.target = b /\ o.flip = Written(b) /\ o.warn = Warns(b) /\ o \in Transactions
  BY <1>2, <1>4 DEF NoTx, Transactions
<1>6. TargetSound(o)
  BY <1>3, <1>5 DEF TargetSound, Sources, BatchOps
<1>7. /\ tx' \in [Sessions -> Transactions] /\ tx'[c] = o /\ tx[c] = NoTx
      /\ \A d \in Sessions : d # c => tx'[d] = tx[d]
      /\ \A d \in Sessions : tx'[d] \in {tx[d], o}
  BY <1>1, <1>3, <1>5, BeginOK
<1>8. TypeOK' /\ Stored' = Stored
  BY <1>1, <1>3, <1>7 DEF TypeOK, Stored
<1>9. CommittedIsLive'
  BY <1>1, <1>3, <1>8 DEF CommittedIsLive, Source
<1>10. TargetsSound'
  BY <1>1, <1>6, <1>7, <1>8, TargetsKept
<1>11. BatchesSound'
  BY <1>1, <1>3, <1>8 DEF BatchesSound
<1>12. ReviewsSound'
  BY <1>1, <1>3, <1>5, <1>7, ReviewsKept DEF TypeOK
<1>14. SignsSound'
  <2>1. SignsSound
    BY DEF IntakeInv
  <2>2. SignsRight(batch[o.target].file, o.flip, o.warn) /\ WarningsStay
    BY <1>1, <1>3, <1>5, WrittenRight DEF WarningsStay
  <2> QED BY <1>1, <1>3, <1>5, <1>7, <1>8, <2>1, <2>2, SignsKept
<1> QED BY <1>9, <1>10, <1>11, <1>12, <1>14 DEF IntakeInv

\* The rows that a commit writes become the live ones of their places, and the other
\* committed batches of the source are superseded, but for those it does not see, with
\* which it shares no place.
LEMMA WriteCommitOK ==
  ASSUME IntakeInv, NEW c \in Sessions, WriteCommit(c)
  PROVE  IntakeInv'
<1>1. CommittedIsLive /\ TypeOK /\ TargetsSound /\ BatchesSound /\ ReviewsSound
  BY DEF IntakeInv, CommittedIsLive
<1> DEFINE b == tx[c].target
           flip == tx[c].flip
<1>2. b = tx[c].target /\ flip = tx[c].flip
  OBVIOUS
<1>3. tx[c].op = "commit" /\ End(c) /\ UNCHANGED <<items, prior, subject>>
  BY DEF WriteCommit
<1>4. b \in Stored /\ b \in Batches /\ flip \in BOOLEAN
  BY <1>1, <1>2, <1>3 DEF TargetsSound, TargetSound, BatchOps, Stored, TypeOK, Transactions
<1>5. PICK missed \in SUBSET MayMiss(c) :
        batch' = [d \in Batches |->
          CASE d = b -> [batch[b] EXCEPT !.status = "committed", !.rows = "committed", !.flipped = flip]
            [] d \in Superseded(b) \ missed -> [batch[d] EXCEPT !.status = "superseded", !.by = b]
            [] OTHER -> batch[d]]
  BY Zenon DEF WriteCommit
<1>6. live' = [live EXCEPT ![Source(b)] = [p \in Places |->
                IF p \in PlacesOf[batch[b].file] THEN [batch |-> b, flipped |-> flip] ELSE @[p]]]
  BY DEF WriteCommit
<1>7. warnings' = IF tx[c].warn THEN [warnings EXCEPT ![b] = "open"] ELSE warnings
  BY DEF WriteCommit
<1> HIDE DEF b, flip
<1>8. tx' \in [Sessions -> Transactions] /\ tx'[c] = NoTx /\ \A d \in Sessions : tx'[d] \in {tx[d], NoTx}
  BY <1>1, <1>3, NoTxSound, EndOK DEF End, TypeOK
<1>9. \A d \in Batches : batch[d] \in BatchRows
  BY <1>1 DEF TypeOK
<1>10. /\ batch'[b] \in BatchRows /\ batch'[b].file = batch[b].file /\ batch'[b].status = "committed"
       /\ batch'[b].flipped = flip
  <2>1. batch'[b] = [batch[b] EXCEPT !.status = "committed", !.rows = "committed", !.flipped = flip]
    BY <1>4, <1>5 DEF Superseded
  <2> QED BY <1>4, <1>9, <2>1 DEF BatchRows
<1>11. ASSUME NEW d \in Superseded(b) \ missed
       PROVE  /\ d \in Stored /\ d # b /\ batch'[d] \in BatchRows /\ batch'[d].file = batch[d].file
              /\ batch'[d].status = "superseded"
  <2>1. d \in Stored /\ d # b /\ d \in Batches
    BY DEF Superseded, Stored
  <2>2. batch'[d] = [batch[d] EXCEPT !.status = "superseded", !.by = b]
    BY <1>5, <2>1
  <2> QED BY <1>4, <1>9, <2>1, <2>2 DEF BatchRows
<1>12. ASSUME NEW d \in Batches, d # b, d \notin Superseded(b) \ missed
       PROVE  batch'[d] = batch[d]
  BY <1>5, <1>12
<1>13. batch' \in [Batches -> BatchRows]
  <2>1. \A d \in Batches : batch'[d] \in BatchRows
    BY <1>9, <1>10, <1>11, <1>12
  <2> QED BY <1>5, <2>1
<1>14. /\ Stored' = Stored
       /\ \A d \in Stored : batch'[d].file = batch[d].file
       /\ \A d \in Stored : batch'[d].status = "ready_for_review" => batch'[d] = batch[d]
  <2>1. ASSUME NEW d \in Batches PROVE batch[d] # NoRow <=> batch'[d] # NoRow
    <3>1. CASE d = b
      BY <1>4, <1>10, <3>1 DEF Stored, NoRow
    <3>2. CASE d \in Superseded(b) \ missed
      <4>1. d \in Stored /\ batch'[d].status = "superseded" /\ NoRow.status = "none"
        BY <1>11, <3>2 DEF NoRow
      <4> QED BY <4>1 DEF Stored
    <3>3. CASE d # b /\ d \notin Superseded(b) \ missed
      BY <1>12, <3>3
    <3> QED BY <3>1, <3>2, <3>3
  <2>2. Stored' = Stored
    BY <2>1 DEF Stored
  <2> QED BY <1>4, <1>10, <1>11, <1>12, <2>2 DEF Stored
<1>15. batch[b].file \in Files /\ Source(b) \in Sources
  BY <1>1, <1>4, SourceTyped DEF BatchesSound, Source
<1>16. /\ live' \in [Sources -> [Places -> LiveRows]]
       /\ \A p \in Places : live'[Source(b)][p] = IF p \in PlacesOf[batch[b].file]
                                                 THEN [batch |-> b, flipped |-> flip] ELSE live[Source(b)][p]
       /\ \A s \in Sources : s # Source(b) => live'[s] = live[s]
  <2>1. live \in [Sources -> [Places -> LiveRows]] /\ [batch |-> b, flipped |-> flip] \in LiveRows
    BY <1>1, <1>4 DEF TypeOK, LiveRows
  <2> HIDE DEF LiveRows
  <2> QED BY <1>6, <1>15, <2>1
<1>17. warnings' \in [Batches -> WarningStates] /\ WarningsStay /\ (tx[c].warn => warnings'[b] # "none")
  BY <1>1, <1>4, <1>7 DEF TypeOK, WarningStates, WarningsStay
<1>18. TypeOK'
  BY <1>1, <1>3, <1>8, <1>13, <1>16, <1>17 DEF TypeOK, LiveRows
<1>19. ASSUME NEW d \in Stored, d # b, batch'[d].status = "committed"
       PROVE  /\ batch'[d] = batch[d]
              /\ Source(d) = Source(b) => Disjoint(batch[d].file, batch[b].file)
  <2>1. d \notin Superseded(b) \ missed /\ d \in Batches
    BY <1>11, <1>19 DEF Stored
  <2>2. batch'[d] = batch[d]
    BY <1>12, <1>19, <2>1
  <2>3. Source(d) = Source(b) => d \in MayMiss(c)
    BY <1>5, <1>19, <2>1, <2>2 DEF Superseded
  <2> QED BY <1>2, <2>2, <2>3 DEF MayMiss
<1>20. CommittedIsLive'
  <2>1. \A d \in Stored : Source(d)' = Source(d) /\ batch'[d].file = batch[d].file
    BY <1>14 DEF Source
  <2>2. ASSUME NEW d \in Stored, batch'[d].status = "committed", NEW p \in PlacesOf[batch[d].file]
        PROVE  live'[Source(d)][p] = [batch |-> d, flipped |-> batch'[d].flipped]
    <3>1. batch[d].file \in Files /\ Source(d) \in Sources
      BY <1>1, SourceTyped DEF BatchesSound, Source
    <3>2. p \in Places
      BY <2>2, <3>1 DEF Places
    <3>3. CASE d = b
      BY <1>10, <1>16, <2>2, <3>2, <3>3
    <3>4. CASE d # b
      <4>1. live[Source(d)][p] = [batch |-> d, flipped |-> batch[d].flipped] /\ batch'[d] = batch[d]
        BY <1>1, <1>19, <2>2, <3>4 DEF CommittedIsLive
      <4>2. CASE Source(d) # Source(b)
        BY <1>16, <3>1, <4>1, <4>2
      <4>3. CASE Source(d) = Source(b)
        <5>1. p \notin PlacesOf[batch[b].file]
          BY <1>19, <2>2, <3>4, <4>3, DisjointPlaces
        <5> QED BY <1>16, <3>2, <4>1, <4>3, <5>1
      <4> QED BY <4>2, <4>3
    <3> QED BY <3>3, <3>4
  <2>3. ASSUME NEW d \in Stored, NEW e \in Stored, d # e, batch'[d].status = "committed",
               batch'[e].status = "committed", Source(d) = Source(e)
        PROVE  Disjoint(batch[d].file, batch[e].file)
    <3>1. CASE e = b
      BY <1>19, <2>3, <3>1
    <3>2. CASE d = b
      <4>1. Disjoint(batch[e].file, batch[d].file)
        BY <1>19, <2>3, <3>2
      <4> QED BY <4>1, DisjointPlaces
    <3>3. CASE d # b /\ e # b
      <4>1. batch'[d] = batch[d] /\ batch'[e] = batch[e]
        BY <1>19, <2>3, <3>3
      <4> QED BY <1>1, <2>3, <4>1 DEF CommittedIsLive
    <3> QED BY <3>1, <3>2, <3>3
  <2>4. \A d \in Stored' : batch'[d].status = "committed" =>
          \A p \in PlacesOf[batch'[d].file] :
            live'[Source(d)'][p] = [batch |-> d, flipped |-> batch'[d].flipped]
    BY <1>14, <2>1, <2>2
  <2>5. \A d, e \in Stored' :
          d # e /\ batch'[d].status = "committed" /\ batch'[e].status = "committed" /\ Source(d)' = Source(e)' =>
            Disjoint(batch'[d].file, batch'[e].file)
    BY <1>14, <2>1, <2>3
  <2>6. \A d, e \in Stored' : batch'[d].file = batch'[e].file => d = e
    BY <1>1, <1>14 DEF CommittedIsLive
  <2> QED BY <1>18, <2>4, <2>5, <2>6 DEF CommittedIsLive
<1>21. TargetsSound'
  BY <1>1, <1>8, <1>14, NoTxSound, TargetsKept
<1>22. BatchesSound'
  BY <1>1, <1>14 DEF BatchesSound
<1>23. ReviewsSound'
  BY <1>1, <1>3, <1>8, NoTxSound, ReviewsKept DEF TypeOK
<1>24. SignsSound'
  <2>1. SignsSound /\ SignsRight(batch[b].file, flip, tx[c].warn)
    BY <1>2, <1>3 DEF IntakeInv, SignsSound
  <2>2. \A d \in Sessions : tx'[d].op = "commit" =>
          SignsRight(batch'[tx'[d].target].file, tx'[d].flip, tx'[d].warn)
    BY <1>1, <1>8, <1>14, <2>1, NoTxSound, SignsToWriteKept
  <2>3. ASSUME NEW d \in Stored, NEW flipped, d = b /\ flipped = flip PROVE LiveRight(d, flipped)'
    BY <1>4, <1>10, <1>14, <1>17, <2>1, <2>3 DEF LiveRight, SignsRight
  <2>4. ASSUME NEW s \in Sources, NEW p \in Places, live'[s][p] # NoLive
        PROVE  LiveRight(live[s][p].batch, live[s][p].flipped)'
    <3>1. PICK d, flipped : d = live'[s][p].batch /\ flipped = live'[s][p].flipped
      OBVIOUS
    <3>2. CASE live'[s][p] = live[s][p]
      <4>1. LiveRight(d, flipped)
        BY <2>1, <2>4, <3>1, <3>2 DEF SignsSound
      <4>2. batch'[d].file = batch[d].file
        BY <1>14, <4>1 DEF LiveRight
      <4>3. LiveRight(d, flipped)'
        BY <1>14, <1>17, <4>1, <4>2, LiveRightKept
      <4> QED BY <3>1, <4>3 DEF LiveRight
    <3>3. CASE live'[s][p] = [batch |-> b, flipped |-> flip]
      <4>1. d = b /\ flipped = flip
        BY <3>1, <3>3
      <4>2. LiveRight(d, flipped)'
        BY <1>4, <2>3, <4>1
      <4> QED BY <3>1, <4>2 DEF LiveRight
    <3>4. live'[s][p] = live[s][p] \/ live'[s][p] = [batch |-> b, flipped |-> flip]
      BY <1>16
    <3> QED BY <3>2, <3>3, <3>4
  <2> QED BY <2>2, <2>4 DEF SignsSound, SignsRight
<1> QED BY <1>20, <1>21, <1>22, <1>23, <1>24 DEF IntakeInv

-----------------------------------------------------------------------------
(* Suggestions and adjustments. *)

\* A step that writes one subject, or begins its review, and no batch.
LEMMA SubjectStep ==
  ASSUME IntakeInv, UNCHANGED <<batch, items, warnings, live, prior>>, ReviewsSound',
         subject' \in [Subjects -> SubjectRows],
         NEW o \in Transactions, TargetSound(o), o.op # "commit",
         tx' \in [Sessions -> Transactions], \A d \in Sessions : tx'[d] \in {tx[d], o}
  PROVE  IntakeInv'
<1>1. CommittedIsLive /\ TypeOK /\ TargetsSound /\ BatchesSound /\ WarningsStay
  BY DEF IntakeInv, CommittedIsLive, WarningsStay
<1>2. TypeOK' /\ Stored' = Stored
  BY <1>1 DEF TypeOK, Stored
<1>3. CommittedIsLive'
  BY <1>1, <1>2 DEF CommittedIsLive, Source
<1>4. TargetsSound'
  BY <1>1, <1>2, TargetsKept
<1>5. BatchesSound'
  BY <1>1, <1>2 DEF BatchesSound
<1>8. SignsSound'
  <2>1. SignsSound
    BY DEF IntakeInv
  <2> QED BY <1>1, <1>2, <2>1, SignsKept
<1> QED BY <1>3, <1>4, <1>5, <1>8 DEF IntakeInv

\* The reviews that are under way and those that are done are no more than the
\* connections, when those under way begin before one is done.
LEMMA ReviewCounts ==
  ASSUME TypeOK, ReviewsSound, NEW g \in Subjects
  PROVE  /\ subject[g].feedback \in Nat /\ subject[g].taught \in BOOLEAN
         /\ Reviewers(g) \subseteq Sessions /\ Cardinality(Reviewers(g)) \in Nat /\ Cardinality(Sessions) \in Nat
         /\ subject[g].feedback + Cardinality(Reviewers(g)) <= Cardinality(Sessions)
<1>1. Reviewers(g) \subseteq Sessions
  BY DEF Reviewers
<1>2. subject[g].feedback \in Nat /\ subject[g].taught \in BOOLEAN
  BY DEF TypeOK, SubjectRows
<1> QED BY <1>1, <1>2, FewerThanSessions DEF ReviewsSound

\* A suggestion or an adjustment is raised; nobody has decided it.
LEMMA RaiseOK ==
  ASSUME IntakeInv, NEW g \in Subjects, Raise(g)
  PROVE  IntakeInv'
<1>1. TypeOK /\ ReviewsSound
  BY DEF IntakeInv, CommittedIsLive
<1> DEFINE raised == [NoSubject EXCEPT !.status = "pending"]
<1>2. subject[g] = NoSubject /\ subject' = [subject EXCEPT ![g] = raised]
      /\ UNCHANGED <<batch, items, warnings, live, prior, tx>>
  BY DEF Raise
<1>3. raised \in SubjectRows /\ raised.feedback = 0 /\ raised.taught = FALSE /\ NoSubject.feedback = 0
  BY DEF NoSubject, SubjectRows
<1> HIDE DEF raised
<1>4. subject' \in [Subjects -> SubjectRows] /\ subject'[g] = raised /\ \A h \in Subjects \ {g} : subject'[h] = subject[h]
  BY <1>1, <1>2, <1>3 DEF TypeOK
<1>5. ReviewsSound'
  <2>1. SUFFICES ASSUME NEW h \in Subjects
                 PROVE  /\ subject'[h].status = "pending" => subject'[h].feedback = 0 /\ ~subject'[h].taught
                        /\ subject'[h].taught => subject'[h].feedback > 0
                        /\ subject'[h].taught /\ subject'[h].status = "rejected" => subject'[h].feedback > 1
                        /\ subject'[h].feedback + Cardinality(Reviewers(h)') <= Cardinality(Sessions)
    BY DEF ReviewsSound
  <2>2. Reviewers(h)' = Reviewers(h)
    BY <1>2 DEF Reviewers
  <2>3. CASE h = g
    <3>1. subject'[h].feedback = subject[h].feedback /\ subject'[h].feedback = 0 /\ subject'[h].taught = FALSE
      BY <1>2, <1>3, <1>4, <2>3
    <3>2. subject[h].feedback + Cardinality(Reviewers(h)) <= Cardinality(Sessions)
      BY <1>1, ReviewCounts
    <3> QED BY <2>2, <3>1, <3>2
  <2>4. CASE h # g
    BY <1>1, <1>4, <2>2, <2>4 DEF ReviewsSound
  <2> QED BY <2>3, <2>4
<1>6. tx' \in [Sessions -> Transactions] /\ \A d \in Sessions : tx'[d] \in {tx[d], NoTx}
  BY <1>1, <1>2 DEF TypeOK
<1> QED BY <1>2, <1>4, <1>5, <1>6, NoTxSound, SubjectStep

\* A review begins on a subject that is pending, which has no decision yet.
LEMMA BeginReviewOK ==
  ASSUME IntakeInv, NEW c \in Sessions, NEW g \in Subjects, BeginReview(c, g)
  PROVE  IntakeInv'
<1>1. TypeOK /\ ReviewsSound
  BY DEF IntakeInv, CommittedIsLive
<1>2. SUFFICES ASSUME NEW o, o = [NoTx EXCEPT !.op = "review", !.target = g] PROVE IntakeInv'
  OBVIOUS
<1>3. subject[g].status = "pending" /\ Begin(c, o) /\ UNCHANGED <<batch, items, warnings, live, prior, subject>>
  BY <1>2 DEF BeginReview, Undecided
<1>4. o.op = "review" /\ o.target = g /\ o \in Transactions
  BY <1>2 DEF NoTx, Transactions
<1>5. TargetSound(o)
  BY <1>4 DEF TargetSound, Sources, BatchOps
<1>6. tx' \in [Sessions -> Transactions] /\ \A d \in Sessions : tx'[d] \in {tx[d], o}
  BY <1>1, <1>3, <1>4, BeginOK
<1>7. ReviewsSound'
  <2>1. SUFFICES ASSUME NEW h \in Subjects
                 PROVE  subject[h].feedback + Cardinality(Reviewers(h)') <= Cardinality(Sessions)
    BY <1>1, <1>3 DEF ReviewsSound
  <2>2. Reviewers(h)' \subseteq Sessions
    BY DEF Reviewers
  <2>3. Cardinality(Reviewers(h)') \in Nat /\ Cardinality(Reviewers(h)') <= Cardinality(Sessions)
    BY <2>2, FewerThanSessions
  <2>4. CASE h = g
    <3>1. subject[h].feedback = 0
      BY <1>1, <1>3, <2>4 DEF ReviewsSound
    <3> QED BY <2>3, <3>1, FewerThanSessions
  <2>5. CASE h # g
    <3>1. Reviewers(h)' \subseteq Reviewers(h)
      BY <1>4, <1>6, <2>5 DEF Reviewers
    <3>2. Cardinality(Reviewers(h)') <= Cardinality(Reviewers(h))
      BY <1>1, <3>1, FewerSessions, ReviewCounts
    <3> QED BY <1>1, <2>3, <3>2, ReviewCounts
  <2> QED BY <2>4, <2>5
<1> QED BY <1>1, <1>3, <1>4, <1>5, <1>6, <1>7, SubjectStep DEF TypeOK

\* The row of a subject that is decided.
LEMMA DecidedRow ==
  ASSUME NEW row \in SubjectRows, NEW d, NEW teaches
  PROVE  [row EXCEPT !.status = d, !.feedback = @ + 1, !.taught = teaches]
           = [feedback |-> row.feedback + 1, taught |-> teaches, status |-> d]
<1>1. PICK decided : decided = [row EXCEPT !.status = d, !.feedback = @ + 1, !.taught = teaches]
  OBVIOUS
<1>2. decided = [feedback |-> row.feedback + 1, taught |-> teaches, status |-> d]
  BY <1>1 DEF SubjectRows
<1> QED BY <1>1, <1>2

\* The first decision finds the subject pending, with nothing taught; one that ends
\* rejected after a lesson is at least the second.
LEMMA CommitReviewOK ==
  ASSUME IntakeInv, NEW c \in Sessions, CommitReview(c)
  PROVE  IntakeInv'
<1>1. TypeOK /\ ReviewsSound /\ TargetSound(tx[c])
  BY DEF IntakeInv, CommittedIsLive, TargetsSound
<1>2. PICK g : g = tx[c].target
  OBVIOUS
<1>3. tx[c].op = "review" /\ g \in Subjects /\ End(c) /\ UNCHANGED <<batch, items, warnings, live, prior>>
  BY <1>1, <1>2 DEF CommitReview, TargetSound
<1>4. PICK d \in Decisions :
        subject' = [subject EXCEPT ![g].status = d, ![g].feedback = @ + 1,
                      ![g].taught = @ \/ (g \in Suggestions /\ d # "rejected")]
  BY <1>2 DEF CommitReview
<1> DEFINE teaches == subject[g].taught \/ (g \in Suggestions /\ d # "rejected")
           decided == [feedback |-> subject[g].feedback + 1, taught |-> teaches, status |-> d]
<1>5. subject[g] \in SubjectRows /\ subject[g].feedback \in Nat /\ subject[g].taught \in BOOLEAN
  BY <1>1, <1>3 DEF TypeOK, SubjectRows
<1>6. teaches \in BOOLEAN
  BY <1>5, Zenon
<1>7. subject' = [subject EXCEPT ![g] = decided]
  <2>1. subject' = [subject EXCEPT ![g] = [subject[g] EXCEPT !.status = d, !.feedback = @ + 1,
                                                                    !.taught = teaches]]
    BY <1>1, <1>3, <1>4 DEF TypeOK
  <2> HIDE DEF teaches
  <2>2. [subject[g] EXCEPT !.status = d, !.feedback = @ + 1, !.taught = teaches] = decided
    BY <1>5, DecidedRow
  <2> QED BY <1>3, <2>1, <2>2
<1>8. teaches /\ d = "rejected" => subject[g].taught
  OBVIOUS
<1> HIDE DEF teaches
<1>12. decided \in SubjectRows /\ decided.status = d /\ decided.feedback = subject[g].feedback + 1
       /\ decided.taught = teaches
  BY <1>5, <1>6 DEF SubjectRows, Decisions
<1> HIDE DEF decided
<1>9. subject' \in [Subjects -> SubjectRows] /\ subject'[g] = decided /\ \A h \in Subjects \ {g} : subject'[h] = subject[h]
  BY <1>1, <1>3, <1>7, <1>12 DEF TypeOK
<1>10. tx' \in [Sessions -> Transactions] /\ tx'[c] = NoTx /\ \A e \in Sessions : tx'[e] \in {tx[e], NoTx}
  BY <1>1, <1>3, EndOK DEF End, TypeOK
<1>11. ReviewsSound'
  <2>1. SUFFICES ASSUME NEW h \in Subjects
                 PROVE  /\ subject'[h].status = "pending" => subject'[h].feedback = 0 /\ ~subject'[h].taught
                        /\ subject'[h].taught => subject'[h].feedback > 0
                        /\ subject'[h].taught /\ subject'[h].status = "rejected" => subject'[h].feedback > 1
                        /\ subject'[h].feedback + Cardinality(Reviewers(h)') <= Cardinality(Sessions)
    BY DEF ReviewsSound
  <2>2. Reviewers(h)' \subseteq Reviewers(h) \ {c} /\ Reviewers(h) \subseteq Sessions
    BY <1>10, NoTxSound DEF Reviewers
  <2>3. subject[h].feedback \in Nat /\ Cardinality(Reviewers(h)) \in Nat /\ Cardinality(Sessions) \in Nat
        /\ subject[h].feedback + Cardinality(Reviewers(h)) <= Cardinality(Sessions)
    BY <1>1, ReviewCounts
  <2>4. CASE h = g
    <3>1. c \in Reviewers(h)
      BY <1>2, <1>3, <2>4 DEF Reviewers
    <3>2. Cardinality(Reviewers(h) \ {c}) = Cardinality(Reviewers(h)) - 1 /\ Cardinality(Reviewers(h) \ {c}) \in Nat
      BY <2>2, <3>1, OneSessionFewer
    <3>3. Reviewers(h) \ {c} \subseteq Sessions
      BY <2>2
    <3>4. Cardinality(Reviewers(h)') \in Nat /\ Cardinality(Reviewers(h)') <= Cardinality(Reviewers(h) \ {c})
      BY <2>2, <3>3, FewerSessions
    <3>5. subject'[h].feedback = subject[h].feedback + 1 /\ subject'[h].status = d /\ subject'[h].taught = teaches
      BY <1>9, <1>12, <2>4
    <3>6. subject'[h].feedback + Cardinality(Reviewers(h)') <= Cardinality(Sessions)
      BY <2>3, <3>2, <3>4, <3>5
    <3>7. d # "pending" /\ subject'[h].feedback > 0
      BY <2>3, <3>5 DEF Decisions
    <3>8. teaches /\ d = "rejected" => subject'[h].feedback > 1
      <4>1. SUFFICES ASSUME teaches, d = "rejected" PROVE subject'[h].feedback > 1
        OBVIOUS
      <4>2. subject[h].feedback > 0
        BY <1>1, <1>8, <2>4, <4>1 DEF ReviewsSound
      <4> QED BY <2>3, <3>5, <4>2
    <3> QED BY <3>5, <3>6, <3>7, <3>8
  <2>5. CASE h # g
    <3>1. Reviewers(h)' \subseteq Reviewers(h)
      BY <2>2
    <3>2. Cardinality(Reviewers(h)') \in Nat /\ Cardinality(Reviewers(h)') <= Cardinality(Reviewers(h))
      BY <2>2, <3>1, FewerSessions
    <3>3. subject'[h] = subject[h]
      BY <1>9, <2>5
    <3> QED BY <1>1, <2>3, <3>2, <3>3 DEF ReviewsSound
  <2> QED BY <2>4, <2>5
<1> QED BY <1>3, <1>9, <1>10, <1>11, NoTxSound, SubjectStep

-----------------------------------------------------------------------------
(* The theorems. *)

\* The invariant holds at first.
LEMMA InitIntakeInv ==
  ASSUME Init
  PROVE  IntakeInv
<1>1. Stored = {}
  BY DEF Init, Stored
<1>2. tx \in [Sessions -> Transactions] /\ \A c \in Sessions : tx[c] = NoTx
  BY NoTxSound DEF Init
<1>3. batch \in [Batches -> BatchRows]
  BY DEF Init, NoRow, BatchRows
<1>4. items \in [Batches -> Seq(SignItems)]
  BY DEF Init
<1>5. live \in [Sources -> [Places -> LiveRows]] /\ \A t \in Sources, p \in Places : live[t][p] = NoLive
  BY DEF Init, NoLive, LiveRows
<1>6. subject \in [Subjects -> SubjectRows] /\ \A g \in Subjects : subject[g] = NoSubject
  BY DEF Init, NoSubject, SubjectRows
<1>7. TypeOK
  BY <1>2, <1>3, <1>4, <1>5, <1>6 DEF Init, TypeOK, WarningStates
<1>8. CommittedIsLive /\ BatchesSound
  BY <1>1, <1>7 DEF CommittedIsLive, BatchesSound
<1>9. TargetsSound
  BY <1>2, NoTxSound DEF TargetsSound
<1>10. ReviewsSound
  <2>1. SUFFICES ASSUME NEW g \in Subjects PROVE Cardinality(Reviewers(g)) <= Cardinality(Sessions)
    <3>1. ASSUME NEW g \in Subjects PROVE Cardinality(Reviewers(g)) \in Nat
      BY FewerThanSessions DEF Reviewers
    <3> QED BY <1>6, <3>1 DEF NoSubject, ReviewsSound
  <2> QED BY FewerThanSessions DEF Reviewers
<1>12. SignsSound
  BY <1>2, <1>5, NoTxSound DEF SignsSound
<1> QED BY <1>8, <1>9, <1>10, <1>12 DEF IntakeInv

\* Every step keeps the invariant.
LEMMA NextIntakeInv ==
  ASSUME IntakeInv, [Next]_vars
  PROVE  IntakeInv'
<1>1. ASSUME NEW c \in Sessions, HandlerStep(c) PROVE IntakeInv'
  <2>1. CASE CommitUpload(c) \/ CommitColumnMap(c)
    BY <2>1, CommitUploadOK
  <2>2. CASE CommitValidate(c)
    BY <2>2, CommitValidateOK
  <2>3. CASE CommitFail(c)
    BY <2>3, CommitFailOK
  <2>4. CASE CommitDecide(c)
    BY <2>4, CommitDecideOK
  <2>5. CASE WriteCommit(c)
    BY <2>5, WriteCommitOK
  <2>6. CASE CommitReview(c)
    BY <2>6, CommitReviewOK
  <2>7. CASE Rollback(c)
    BY <2>7, RollbackOK
  <2> QED BY <1>1, <2>1, <2>2, <2>3, <2>4, <2>5, <2>6, <2>7 DEF HandlerStep
<1>2. ASSUME NEW c \in Sessions, Request(c) PROVE IntakeInv'
  <2>1. CASE \E f \in Files : BeginUpload(c, f)
    BY <2>1, BeginUploadOK
  <2>2. CASE \E b \in Batches : \E op \in {"validate", "fail"} : BeginChange(c, b, op)
    BY <2>2, BeginChangeOK
  <2>3. CASE \E b \in Batches : \E op \in {"confirmed", "rejected"} : BeginDecide(c, b, op)
    BY <2>3, BeginDecideOK
  <2>4. CASE \E b \in Batches : BeginCommit(c, b)
    BY <2>4, BeginCommitOK
  <2>5. CASE \E b \in Batches : RefuseMismatch(c, b)
    BY <2>5, RefuseMismatchOK
  <2>6. CASE \E g \in Subjects : BeginReview(c, g)
    BY <2>6, BeginReviewOK
  <2> QED BY <1>2, <2>1, <2>2, <2>3, <2>4, <2>5, <2>6 DEF Request
<1>3. ASSUME NEW b \in Batches,
             (\E i \in 1 .. MaxItems : ReopenOrWaive(b, i)) \/ ResolveWarning(b) \/ ReopenWarning(b)
      PROVE  IntakeInv'
  BY <1>3, ReopenOrWaiveOK, WarningOK
<1>4. ASSUME NEW g \in Subjects, Raise(g) PROVE IntakeInv'
  BY <1>4, RaiseOK
<1>5. CASE PriorRun
  BY <1>5, PriorRunOK
<1>6. CASE UNCHANGED vars
  <2>1. TypeOK /\ UNCHANGED <<batch, items, warnings, live, prior, subject, tx>>
    BY <1>6 DEF IntakeInv, CommittedIsLive, vars
  <2> QED BY <2>1, NoTxSound, QuietStep DEF TypeOK, WarningsStay
<1> QED BY <1>1, <1>2, <1>3, <1>4, <1>5, <1>6 DEF Next

\* The invariant holds in every reachable state.
THEOREM IntakeInvariance == Spec => []IntakeInv
<1>1. Init => IntakeInv
  BY InitIntakeInv
<1>2. IntakeInv /\ [Next]_vars => IntakeInv'
  BY NextIntakeInv
<1> QED BY <1>1, <1>2, PTL DEF Spec

\* Type correctness: every variable has its type.
THEOREM IntakeTypeCorrect == Spec => []TypeOK
<1>1. IntakeInv => TypeOK
  BY DEF IntakeInv, CommittedIsLive
<1> QED BY <1>1, IntakeInvariance, PTL

\* However validations, commits and superseded batches interleave, every row of a
\* committed batch is what the calculation reads at its place, with the signs it was
\* committed with; two batches of a source are both committed only when they share
\* neither an entity nor an account; and a file that is sent many times at once has
\* one batch.
THEOREM CommittedBatchesAreLive == Spec => []CommittedIsLive
<1>1. IntakeInv => CommittedIsLive
  BY DEF IntakeInv
<1> QED BY <1>1, IntakeInvariance, PTL

\* Every amount of a sheet that is accepted is read once, from its own row and
\* column, with its sign; and no order of confirmations, commits, validations and
\* commits again puts inverted amounts before the calculation, in whichever row of
\* whichever batch, or mixed ones without a warning, because inverting an inverted file
\* puts its signs right, whichever file it is.
THEOREM LiveSignsStayCorrected == Spec => []LiveSignsCorrected
<1>1. IntakeInv => LiveSignsCorrected
  <2>1. SUFFICES ASSUME IntakeInv, NEW s \in Sources, NEW p \in Places, live[s][p] # NoLive
                 PROVE  LET sign == SignOf[batch[live[s][p].batch].file][live[s][p].flipped] IN
                        /\ sign # "inverted"
                        /\ sign = "mixed" => warnings[live[s][p].batch] # "none"
    BY SheetsAreRead DEF LiveSignsCorrected
  <2>2. LiveRight(live[s][p].batch, live[s][p].flipped)
    BY <2>1 DEF IntakeInv, SignsSound
  <2> QED BY <2>2 DEF LiveRight, SignsRight
<1> QED BY <1>1, IntakeInvariance, PTL

\* A subject has no more decisions than there are connections, and only overlapping
\* requests leave a rejected suggestion in the memory; what the memory suggests can be
\* explained.
THEOREM DecisionsAreBounded == Spec => []DecisionsBounded
<1>1. IntakeInv => DecisionsBounded
  <2>1. SUFFICES ASSUME IntakeInv
                 PROVE  /\ \A g \in Subjects :
                             /\ subject[g].feedback <= Cardinality(Sessions)
                             /\ subject[g].status = "rejected" /\ subject[g].taught => subject[g].feedback > 1
    BY MemoryIsExplained DEF DecisionsBounded
  <2>2. TypeOK /\ ReviewsSound
    BY <2>1 DEF IntakeInv, CommittedIsLive
  <2>3. ASSUME NEW g \in Subjects PROVE subject[g].feedback <= Cardinality(Sessions)
    BY <2>2, ReviewCounts
  <2> QED BY <2>2, <2>3 DEF ReviewsSound
<1> QED BY <1>1, IntakeInvariance, PTL

=============================================================================
