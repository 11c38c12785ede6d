----------------------- MODULE LedgerConnectorProofs -----------------------
(***************************************************************************)
(* Proofs about LedgerConnector for any number of connections, requests,   *)
(* journals and account maps, any reports and any bound.  Three things are *)
(* behind its invariants.  A request belongs to one transaction, and what  *)
(* its journals have become is what its transaction no longer has to do.   *)
(* Once a token was issued every other transaction, and the connection's   *)
(* row, holds an older one, so that nobody else can refresh before the     *)
(* transaction ends.  And every account of a report has a last line.       *)
(***************************************************************************)
EXTENDS LedgerConnector, FiniteSetTheorems, WellFoundedInduction, TLAPS

\* The journals that a request has created.
Made(r) == {j \in Journals : posted[r][j] > 0}

\* The journals that a request is to create.
Sends(r) == IF asked[r] = {} THEN Range(XeroPosts) ELSE NetSuiteEntries(asked[r])

\* A request is one transaction's, and nothing is known of those to come.
RequestsSound ==
  /\ \A c \in Sessions : Idle(c) \/ (tx[c].op # "none" /\ tx[c].req \in 1..count)
  /\ \A c, d \in Sessions : tx[c].req = tx[d].req /\ ~Idle(c) => c = d
  /\ \A r \in Requests : r > count =>
       Made(r) = {} /\ asked[r] = {} /\ r \notin recorded \cup failed
  /\ \A c \in Sessions : ~Idle(c) =>
       (tx[c].op = "netsuite" <=> asked[tx[c].req] # {}) /\ tx[c].req \notin recorded
  /\ \A c \in Sessions : tx[c].phase \in {"entity", "stamp"} =>
       tx[c].op = "sync" /\ tx[c].report \in Versions

\* The requests that can still be issued a token.
Unrefreshed == {r \in 1..count : \E c \in Sessions : tx[c].req = r /\ ~tx[c].refreshed}

\* Each token issued was another request's.
TokensBounded == latest + Cardinality(Unrefreshed) <= count

\* A transaction that was issued a token has the newest, and nobody else has it.
TokensSound ==
  /\ stored <= latest
  /\ \A c \in Sessions : tx[c].token <= latest
  /\ \A c \in Sessions : tx[c].refreshed =>
       /\ tx[c].token = latest /\ stored < latest
       /\ \A d \in Sessions \ {c} : tx[d].token < latest

\* The journals made are those that are no longer to do.
PushSound(c) ==
  /\ tx[c].op \in {"xero", "netsuite"} =>
       /\ IsInjective(tx[c].todo)
       /\ Made(tx[c].req) = Sends(tx[c].req) \ Range(tx[c].todo)
       /\ tx[c].op = "xero" => Range(tx[c].todo) \subseteq Range(XeroPosts)
  /\ tx[c].op \in {"sync", "netsuite-sync"} => Made(tx[c].req) = {}

\* What has become of each request's journals.
JournalsSound ==
  /\ \A r \in Requests : r \in recorded => Made(r) = Sends(r)
  /\ \A r \in Requests : Made(r) # {} =>
       r \in recorded \cup failed \/ \E c \in Sessions : tx[c].req = r
  /\ \A r \in Requests : asked[r] # {} => \A j \in Made(r) : Balances(MappedLines(j, asked[r]))

\* The rows of the accounts that the last sync reported are of that report.
TableSound ==
  synced > 0 =>
    LET lines == Lines[brand][synced]
    IN  \A i \in DOMAIN lines :
          \E k \in DOMAIN lines :
            lines[k].account = lines[i].account /\ tb[lines[i].account] = lines[k].balance

LedgerInv ==
  /\ TypeOK /\ RequestsSound /\ TokensBounded /\ TokensSound /\ TokenLossExplained
  /\ NoJournalTwice /\ (\A c \in Sessions : PushSound(c)) /\ JournalsSound /\ TableSound

-----------------------------------------------------------------------------
(* Sequences, and the journals they are made of. *)

\* What is in a sequence is of its type.
LEMMA ItemOfSequence == ASSUME NEW S, NEW s \in Seq(S), NEW i \in 1..Len(s) PROVE s[i] \in S
OBVIOUS

\* What is left to post is without the journal that comes first, which is once in it.
LEMMA TailOfPosts ==
  ASSUME NEW todo \in Seq(Journals), todo # <<>>, IsInjective(todo)
  PROVE  /\ Head(todo) \in Journals /\ Head(todo) \in Range(todo)
         /\ Tail(todo) \in Seq(Journals) /\ IsInjective(Tail(todo))
         /\ Range(Tail(todo)) = Range(todo) \ {Head(todo)}
<1>1. /\ Head(todo) = todo[1] /\ 1 \in DOMAIN todo /\ DOMAIN todo = 1..Len(todo) /\ Len(todo) \in Nat
  OBVIOUS
<1>2. /\ Tail(todo) \in Seq(Journals) /\ DOMAIN Tail(todo) = 1 .. Len(todo) - 1
      /\ \A i \in 1 .. Len(todo) - 1 : Tail(todo)[i] = todo[i + 1]
  OBVIOUS
<1>3. Head(todo) \in Journals /\ Head(todo) \in Range(todo)
  BY <1>1 DEF Range
<1>4. IsInjective(Tail(todo))
  <2>1. SUFFICES ASSUME NEW i \in 1 .. Len(todo) - 1, NEW k \in 1 .. Len(todo) - 1,
                        todo[i + 1] = todo[k + 1]
                 PROVE  i = k
    BY <1>2 DEF IsInjective
  <2>2. i + 1 \in DOMAIN todo /\ k + 1 \in DOMAIN todo
    BY <1>1
  <2>3. i + 1 = k + 1
    BY <2>1, <2>2 DEF IsInjective
  <2> QED BY <2>3
<1>5. ASSUME NEW j \in Range(Tail(todo)) PROVE j \in Range(todo) \ {Head(todo)}
  <2>1. PICK i \in 1 .. Len(todo) - 1 : j = todo[i + 1]
    BY <1>2, <1>5 DEF Range
  <2>2. i + 1 \in DOMAIN todo /\ i + 1 # 1
    BY <1>1
  <2> QED BY <1>1, <2>1, <2>2 DEF Range, IsInjective
<1>6. ASSUME NEW j \in Range(todo) \ {Head(todo)} PROVE j \in Range(Tail(todo))
  <2>1. PICK i \in 1..Len(todo) : j = todo[i]
    BY <1>1, <1>6 DEF Range
  <2>2. i # 1
    BY <1>1, <1>6, <2>1
  <2>3. i - 1 \in 1 .. Len(todo) - 1 /\ Tail(todo)[i - 1] = todo[i]
    BY <1>1, <1>2, <2>2
  <2> QED BY <1>2, <2>1, <2>3 DEF Range
<1> QED BY <1>2, <1>3, <1>4, <1>5, <1>6

\* Of the lines of an account one is the last.
LEMMA LastLine ==
  ASSUME NEW lines \in Seq([account : Accounts, balance : Int]),
         NEW a \in {lines[i].account : i \in DOMAIN lines}
  PROVE  \E i \in DOMAIN lines :
           lines[i].account = a /\ \A j \in i + 1 .. Len(lines) : lines[j].account # a
<1>1. DOMAIN lines = 1..Len(lines) /\ Len(lines) \in Nat
  OBVIOUS
<1> DEFINE fromEnd == {n \in Nat : \E i \in 1..Len(lines) : lines[i].account = a /\ n = Len(lines) - i}
<1>2. PICK i \in 1..Len(lines) : lines[i].account = a
  BY <1>1
<1>3. Len(lines) - i \in fromEnd
  BY <1>1, <1>2
<1>4. PICK n \in fromEnd : \A m \in fromEnd : ~(<<m, n>> \in OpToRel(<, Nat))
  <2> HIDE DEF fromEnd
  <2>1. fromEnd \subseteq Nat
    BY DEF fromEnd
  <2> QED BY <1>3, <2>1, WFMin, NatLessThanWellFounded
<1>5. PICK k \in 1..Len(lines) : lines[k].account = a /\ n = Len(lines) - k
  OBVIOUS
<1>6. ASSUME NEW j \in k + 1 .. Len(lines) PROVE lines[j].account # a
  <2>1. SUFFICES ASSUME lines[j].account = a PROVE FALSE
    OBVIOUS
  <2>2. j \in 1..Len(lines) /\ Len(lines) - j \in Nat /\ Len(lines) - j < n /\ n \in Nat
    BY <1>1, <1>5, <1>6
  <2>3. Len(lines) - j \in fromEnd
    BY <2>1, <2>2
  <2>4. <<Len(lines) - j, n>> \in OpToRel(<, Nat)
    BY <2>2 DEF OpToRel
  <2> QED BY <1>4, <2>3, <2>4
<1> QED BY <1>1, <1>5, <1>6

\* What a report writes for an account is the balance of one of its lines.
LEMMA ImportedIsALine ==
  ASSUME NEW lines \in Seq([account : Accounts, balance : Int]),
         NEW a \in {lines[i].account : i \in DOMAIN lines}
  PROVE  /\ \E k \in DOMAIN lines : lines[k].account = a /\ Imported(lines)[a] = lines[k].balance
         /\ Imported(lines)[a] \in Int
<1>0. ASSUME NEW i \in DOMAIN lines PROVE lines[i].balance \in Int
  <2>1. i \in 1..Len(lines)
    BY <1>0
  <2>2. lines[i] \in [account : Accounts, balance : Int]
    BY <2>1, ItemOfSequence
  <2> QED BY <2>2
<1> DEFINE k == CHOOSE i \in DOMAIN lines : /\ lines[i].account = a
                                            /\ \A j \in i + 1 .. Len(lines) : lines[j].account # a
<1>1. k \in DOMAIN lines /\ lines[k].account = a
  BY LastLine
<1>2. Imported(lines)[a] = lines[k].balance
  BY DEF Imported
<1> HIDE DEF k
<1>3. lines[k].balance \in Int
  BY <1>0, <1>1
<1> QED BY <1>1, <1>2, <1>3

-----------------------------------------------------------------------------
(* One transaction at a time. *)

\* The numbers of versions and requests are numbers.
LEMMA Numbers ==
  /\ MaxRequests \in Nat /\ Len(XeroReports) \in Nat \ {0}
  /\ Versions \subseteq 1..Len(XeroReports) /\ Versions \subseteq 0..Len(XeroReports) /\ 1 \in Versions
  /\ Requests = 1..MaxRequests /\ Tokens = 0..MaxRequests
BY LedgerAssumption DEF Versions, Requests, Tokens

\* A session without a transaction.
LEMMA NoTxTyped ==
  /\ NoTx \in Transactions
  /\ NoTx.op = "none" /\ NoTx.phase = "none" /\ NoTx.req = 0 /\ NoTx.token = 0
  /\ ~NoTx.refreshed /\ NoTx.holds = {} /\ NoTx.todo = <<>>
<1>1. <<>> \in Seq(Journals)
  OBVIOUS
<1>2. 0 \in 0..MaxRequests /\ 0 \in Tokens /\ 0 \in 0..Len(XeroReports)
  BY Numbers
<1> QED BY <1>1, <1>2 DEF NoTx, Transactions

\* What each field of a transaction can be.
LEMMA Fields ==
  ASSUME NEW t \in Transactions
  PROVE  /\ t.op \in {"none", "sync", "xero", "netsuite", "netsuite-sync"}
         /\ t.phase \in {"none", "refresh", "store", "call", "entity", "stamp", "mark", "lookup"}
         /\ t.req \in 0..MaxRequests /\ t.token \in 0..MaxRequests /\ t.refreshed \in BOOLEAN
         /\ t.holds \subseteq {"connection", "entity", "netsuite"}
         /\ t.report \in 0..Len(XeroReports) /\ t.todo \in Seq(Journals)
BY Numbers DEF Transactions

\* A step of one connection leaves the others' transactions alone.
LEMMA OneMoves ==
  ASSUME TypeOK, NEW c \in Sessions, NEW t \in Transactions, tx' = [tx EXCEPT ![c] = t],
         t.phase = "refresh" => ~t.refreshed
  PROVE  /\ tx' \in [Sessions -> Transactions] /\ tx'[c] = t
         /\ \A d \in Sessions \ {c} : tx'[d] = tx[d]
         /\ \A d \in Sessions : tx'[d].phase = "refresh" => ~tx'[d].refreshed
<1>1. tx \in [Sessions -> Transactions] /\ \A d \in Sessions : tx[d].phase = "refresh" => ~tx[d].refreshed
  BY DEF TypeOK
<1>2. /\ tx' \in [Sessions -> Transactions] /\ tx'[c] = t
      /\ \A d \in Sessions \ {c} : tx'[d] = tx[d]
  BY <1>1
<1>3. ASSUME NEW d \in Sessions, tx'[d].phase = "refresh" PROVE ~tx'[d].refreshed
  BY <1>1, <1>2, <1>3
<1> QED BY <1>2, <1>3

\* The running transaction of a connection.
LEMMA Running ==
  ASSUME LedgerInv, NEW c \in Sessions, tx[c].op # "none" \/ tx[c].phase # "none" \/ tx[c] # NoTx
  PROVE  /\ tx[c] \in Transactions /\ ~Idle(c) /\ tx[c].op # "none"
         /\ tx[c].req \in 1..count /\ tx[c].req \in Requests /\ tx[c].req \notin recorded
         /\ \A d \in Sessions \ {c} : tx[d].req # tx[c].req
<1>1. TypeOK /\ RequestsSound
  BY DEF LedgerInv
<1>2. ~Idle(c)
  BY NoTxTyped DEF Idle
<1>3. tx[c] \in Transactions /\ count \in 0..MaxRequests
  BY <1>1 DEF TypeOK
<1>4. tx[c].op # "none" /\ tx[c].req \in 1..count /\ tx[c].req \notin recorded
  BY <1>1, <1>2 DEF RequestsSound
<1>5. tx[c].req \in Requests
  BY <1>3, <1>4, Numbers
<1>6. ASSUME NEW d \in Sessions \ {c} PROVE tx[d].req # tx[c].req
  BY <1>1, <1>2 DEF RequestsSound
<1> QED BY <1>2, <1>3, <1>4, <1>5, <1>6

-----------------------------------------------------------------------------
(* What a step leaves alone stays as it was. *)

\* The table and the report it is of.
LEMMA TableFrame ==
  ASSUME TableSound, UNCHANGED <<brand, synced, tb>>
  PROVE  TableSound'
BY DEF TableSound

\* Tokens, when nobody is issued one and none is stored.
LEMMA TokensFrame ==
  ASSUME LedgerInv, UNCHANGED <<latest, stored, dropped, count>>,
         \A d \in Sessions : /\ tx'[d].token = tx[d].token /\ tx'[d].refreshed = tx[d].refreshed
                             /\ tx'[d].req = tx[d].req
  PROVE  TokensSound' /\ TokensBounded' /\ TokenLossExplained'
<1>1. TokensSound /\ TokensBounded /\ TokenLossExplained
  BY DEF LedgerInv
<1>2. TokensSound'
  BY <1>1 DEF TokensSound
<1>3. Unrefreshed' = Unrefreshed
  BY DEF Unrefreshed
<1>4. TokensBounded'
  BY <1>1, <1>3 DEF TokensBounded
<1>5. TokenLossExplained'
  BY <1>1 DEF TokenLossExplained
<1> QED BY <1>2, <1>4, <1>5

\* Requests, when a transaction goes on with the one it has.
LEMMA RequestsFrame ==
  ASSUME LedgerInv, UNCHANGED <<asked, recorded, failed, count>>,
         NEW c \in Sessions, NEW t \in Transactions, ~Idle(c), tx' = [tx EXCEPT ![c] = t],
         t.op = tx[c].op, t.req = tx[c].req, t.phase = "refresh" => ~t.refreshed,
         t.phase \in {"entity", "stamp"} => t.op = "sync" /\ t.report \in Versions,
         \A r \in Requests : r > count => Made(r)' = {}
  PROVE  RequestsSound'
<1>1. TypeOK /\ RequestsSound
  BY DEF LedgerInv
<1>2. /\ tx'[c] = t /\ \A d \in Sessions \ {c} : tx'[d] = tx[d]
  BY <1>1, OneMoves
<1>3. tx[c].op # "none" /\ tx[c].req \in 1..count
  BY <1>1 DEF RequestsSound
<1>4. ~Idle(c)' /\ \A d \in Sessions \ {c} : Idle(d)' = Idle(d)
  BY <1>2, <1>3, NoTxTyped DEF Idle
<1>5. \A d \in Sessions : tx'[d].op = tx[d].op /\ tx'[d].req = tx[d].req
  BY <1>2
<1>6. \A d \in Sessions : Idle(d)' <=> Idle(d)
  BY <1>4
<1>7. ASSUME NEW d \in Sessions PROVE (Idle(d) \/ (tx[d].op # "none" /\ tx[d].req \in 1..count))'
  BY <1>1, <1>5, <1>6 DEF RequestsSound
<1>8. ASSUME NEW d \in Sessions, NEW e \in Sessions PROVE (tx[d].req = tx[e].req /\ ~Idle(d) => d = e)'
  BY <1>1, <1>5, <1>6 DEF RequestsSound
<1>9. ASSUME NEW r \in Requests
      PROVE  (r > count => Made(r) = {} /\ asked[r] = {} /\ r \notin recorded \cup failed)'
  BY <1>1 DEF RequestsSound
<1>10. ASSUME NEW d \in Sessions
       PROVE  (~Idle(d) => (tx[d].op = "netsuite" <=> asked[tx[d].req] # {}) /\ tx[d].req \notin recorded)'
  BY <1>1, <1>5, <1>6 DEF RequestsSound
<1>11. ASSUME NEW d \in Sessions
       PROVE  (tx[d].phase \in {"entity", "stamp"} => tx[d].op = "sync" /\ tx[d].report \in Versions)'
  <2>1. CASE d = c
    BY <2>1, <1>2
  <2>2. CASE d # c
    BY <2>2, <1>1, <1>2 DEF RequestsSound
  <2> QED BY <2>1, <2>2
<1> QED BY <1>7, <1>8, <1>9, <1>10, <1>11 DEF RequestsSound

\* Journals, when none is created and no request begins or ends.
LEMMA JournalsFrame ==
  ASSUME LedgerInv, UNCHANGED <<posted, asked, recorded, failed>>,
         \A d \in Sessions : /\ tx'[d].op = tx[d].op /\ tx'[d].req = tx[d].req
                             /\ tx'[d].todo = tx[d].todo
  PROVE  NoJournalTwice' /\ JournalsSound' /\ \A d \in Sessions : PushSound(d)'
<1>1. NoJournalTwice /\ JournalsSound /\ \A d \in Sessions : PushSound(d)
  BY DEF LedgerInv
<1>2. \A r : Made(r)' = Made(r) /\ Sends(r)' = Sends(r)
  BY DEF Made, Sends
<1>3. NoJournalTwice'
  BY <1>1 DEF NoJournalTwice
<1>4. JournalsSound'
  BY <1>1, <1>2 DEF JournalsSound
<1>5. ASSUME NEW d \in Sessions PROVE PushSound(d)'
  BY <1>1, <1>2 DEF PushSound
<1> QED BY <1>3, <1>4, <1>5

-----------------------------------------------------------------------------
(* Steps that create nothing. *)

\* A step in which no transaction moves.
LEMMA NobodyMoves ==
  ASSUME LedgerInv, TypeOK', UNCHANGED <<brand, latest, posted, connection, outcome, asked, count, tx>>
  PROVE  LedgerInv'
<1> USE DEF connection, outcome
<1>1. RequestsSound /\ TableSound
  BY DEF LedgerInv
<1>2. \A r : Made(r)' = Made(r)
  BY DEF Made
<1>3. \A c \in Sessions : Idle(c)' = Idle(c)
  BY DEF Idle
<1>4. RequestsSound'
  BY <1>1, <1>2, <1>3 DEF RequestsSound
<1>5. TokensSound' /\ TokensBounded' /\ TokenLossExplained'
  BY TokensFrame
<1>6. NoJournalTwice' /\ JournalsSound' /\ \A d \in Sessions : PushSound(d)'
  BY JournalsFrame
<1>7. TableSound'
  BY <1>1, TableFrame
<1> QED BY <1>4, <1>5, <1>6, <1>7 DEF LedgerInv

\* The ledger by itself.
LEMMA LedgerAlone == ASSUME LedgerInv, Expire \/ Book PROVE LedgerInv'
<1>1. TypeOK
  BY DEF LedgerInv
<1>2. TypeOK'
  <2>1. CASE Expire
    BY <1>1, <2>1 DEF TypeOK, Expire, connection, outcome
  <2>2. CASE Book
    <3>1. books' \in Versions
      BY <1>1, <2>2, Numbers DEF TypeOK, Book, Versions
    <3> QED BY <1>1, <2>2, <3>1 DEF TypeOK, Book, connection, outcome
  <2> QED BY <2>1, <2>2
<1>3. UNCHANGED <<brand, latest, posted, connection, outcome, asked, count, tx>>
  BY DEF Expire, Book
<1> QED BY <1>2, <1>3, NobodyMoves

\* A transaction goes on without a word to the ledger.
LEMMA QuietStep ==
  ASSUME LedgerInv, UNCHANGED <<brand, ledger, connection, outcome, asked, count>>,
         NEW c \in Sessions, NEW t \in Transactions, ~Idle(c), tx' = [tx EXCEPT ![c] = t],
         t.op = tx[c].op, t.req = tx[c].req, t.token = tx[c].token,
         t.refreshed = tx[c].refreshed, t.todo = tx[c].todo, t.phase = "refresh" => ~t.refreshed,
         t.phase \in {"entity", "stamp"} => t.op = "sync" /\ t.report \in Versions
  PROVE  LedgerInv'
<1>0. UNCHANGED <<latest, expired, books, posted, stored, synced, tb, recorded, failed, dropped>>
  BY DEF ledger, connection, outcome
<1>1. TypeOK /\ RequestsSound /\ TableSound
  BY DEF LedgerInv
<1>2. /\ tx' \in [Sessions -> Transactions] /\ tx'[c] = t
      /\ \A d \in Sessions \ {c} : tx'[d] = tx[d]
      /\ \A d \in Sessions : tx'[d].phase = "refresh" => ~tx'[d].refreshed
  BY <1>1, OneMoves
<1>3. TypeOK'
  BY <1>0, <1>1, <1>2 DEF TypeOK
<1>4. \A d \in Sessions : /\ tx'[d].op = tx[d].op /\ tx'[d].req = tx[d].req
                          /\ tx'[d].token = tx[d].token /\ tx'[d].refreshed = tx[d].refreshed
                          /\ tx'[d].todo = tx[d].todo
  BY <1>2
<1>5. \A r \in Requests : r > count => Made(r)' = {}
  BY <1>0, <1>1 DEF RequestsSound, Made
<1>6. RequestsSound'
  BY <1>0, <1>5, RequestsFrame
<1>7. TokensSound' /\ TokensBounded' /\ TokenLossExplained'
  BY <1>0, <1>4, TokensFrame
<1>8. NoJournalTwice' /\ JournalsSound' /\ \A d \in Sessions : PushSound(d)'
  BY <1>0, <1>4, JournalsFrame
<1>9. TableSound'
  BY <1>0, <1>1, TableFrame
<1> QED BY <1>3, <1>6, <1>7, <1>8, <1>9 DEF LedgerInv

\* The connection's row is updated.
LEMMA StoreTokenOK == ASSUME LedgerInv, NEW c \in Sessions, StoreToken(c) PROVE LedgerInv'
<1>1. tx[c] \in Transactions /\ ~Idle(c)
  BY Running DEF StoreToken
<1> DEFINE t == [tx[c] EXCEPT !.phase = "call", !.holds = @ \cup {"connection"}]
<1>2. t \in Transactions /\ t.phase = "call"
  BY <1>1 DEF Transactions
<1>3. tx' = [tx EXCEPT ![c] = t]
  BY DEF StoreToken
<1>4. /\ t.op = tx[c].op /\ t.req = tx[c].req /\ t.token = tx[c].token
      /\ t.refreshed = tx[c].refreshed /\ t.todo = tx[c].todo
  BY <1>1 DEF Transactions
<1>5. UNCHANGED <<brand, ledger, connection, outcome, asked, count>>
  BY DEF StoreToken
<1> HIDE DEF t
<1> QED BY <1>1, <1>2, <1>3, <1>4, <1>5, QuietStep

\* The report is fetched.
LEMMA FetchOK == ASSUME LedgerInv, NEW c \in Sessions, Fetch(c) PROVE LedgerInv'
<1>1. tx[c] \in Transactions /\ ~Idle(c) /\ tx[c].op = "sync"
  BY Running DEF Fetch, Syncing
<1> DEFINE t == [tx[c] EXCEPT !.phase = "entity", !.report = books]
<1>2. books \in Versions
  BY DEF LedgerInv, TypeOK
<1>3. t \in Transactions /\ t.phase = "entity" /\ t.report = books
  BY <1>1, <1>2, Numbers DEF Transactions
<1>4. tx' = [tx EXCEPT ![c] = t]
  BY DEF Fetch
<1>5. /\ t.op = tx[c].op /\ t.req = tx[c].req /\ t.token = tx[c].token
      /\ t.refreshed = tx[c].refreshed /\ t.todo = tx[c].todo
  BY <1>1 DEF Transactions
<1>6. UNCHANGED <<brand, ledger, connection, outcome, asked, count>>
  BY DEF Fetch
<1> HIDE DEF t
<1> QED BY <1>1, <1>2, <1>3, <1>4, <1>5, <1>6, QuietStep

\* The entity is locked.
LEMMA UpsertEntityOK == ASSUME LedgerInv, NEW c \in Sessions, UpsertEntity(c) PROVE LedgerInv'
<1>1. tx[c] \in Transactions /\ ~Idle(c) /\ tx[c].op = "sync" /\ tx[c].phase = "entity"
  BY Running DEF UpsertEntity, Syncing
<1> DEFINE t == [tx[c] EXCEPT !.phase = "stamp", !.holds = @ \cup {"entity"}]
<1>2. tx[c].report \in Versions
  BY <1>1 DEF LedgerInv, RequestsSound
<1>3. t \in Transactions /\ t.phase = "stamp" /\ t.report = tx[c].report
  BY <1>1 DEF Transactions
<1>4. tx' = [tx EXCEPT ![c] = t]
  BY DEF UpsertEntity
<1>5. /\ t.op = tx[c].op /\ t.req = tx[c].req /\ t.token = tx[c].token
      /\ t.refreshed = tx[c].refreshed /\ t.todo = tx[c].todo
  BY <1>1 DEF Transactions
<1>6. UNCHANGED <<brand, ledger, connection, outcome, asked, count>>
  BY DEF UpsertEntity
<1> HIDE DEF t
<1> QED BY <1>1, <1>2, <1>3, <1>4, <1>5, <1>6, QuietStep

\* The route marks NetSuite's connection.
LEMMA MarkSyncingOK == ASSUME LedgerInv, NEW c \in Sessions, MarkSyncing(c) PROVE LedgerInv'
<1>1. tx[c] \in Transactions /\ ~Idle(c)
  BY Running DEF MarkSyncing
<1> DEFINE t == [tx[c] EXCEPT !.phase = "lookup", !.holds = {"netsuite"}]
<1>2. t \in Transactions /\ t.phase = "lookup"
  BY <1>1 DEF Transactions
<1>3. tx' = [tx EXCEPT ![c] = t]
  BY DEF MarkSyncing
<1>4. /\ t.op = tx[c].op /\ t.req = tx[c].req /\ t.token = tx[c].token
      /\ t.refreshed = tx[c].refreshed /\ t.todo = tx[c].todo
  BY <1>1 DEF Transactions
<1>5. UNCHANGED <<brand, ledger, connection, outcome, asked, count>>
  BY DEF MarkSyncing
<1> HIDE DEF t
<1> QED BY <1>1, <1>2, <1>3, <1>4, <1>5, QuietStep

\* Xero refuses the access token.
LEMMA PostUnauthorisedOK == ASSUME LedgerInv, NEW c \in Sessions, PostUnauthorised(c) PROVE LedgerInv'
<1>1. tx[c] \in Transactions /\ ~Idle(c) /\ ~tx[c].refreshed
  BY Running DEF PostUnauthorised, Posting
<1> DEFINE t == [tx[c] EXCEPT !.phase = "refresh"]
<1>2. t \in Transactions /\ t.phase = "refresh"
  BY <1>1 DEF Transactions
<1>3. tx' = [tx EXCEPT ![c] = t]
  BY DEF PostUnauthorised, Go
<1>4. /\ t.op = tx[c].op /\ t.req = tx[c].req /\ t.token = tx[c].token
      /\ t.refreshed = tx[c].refreshed /\ t.todo = tx[c].todo
  BY <1>1 DEF Transactions
<1>5. UNCHANGED <<brand, ledger, connection, outcome, asked, count>>
  BY DEF PostUnauthorised
<1> HIDE DEF t
<1> QED BY <1>1, <1>2, <1>3, <1>4, <1>5, QuietStep

-----------------------------------------------------------------------------
(* Tokens. *)

\* The requests that can be issued a token are finitely many.
LEMMA UnrefreshedFinite ==
  ASSUME TypeOK
  PROVE  IsFiniteSet(Unrefreshed) /\ Cardinality(Unrefreshed) \in Nat
<1>1. count \in Nat
  BY Numbers DEF TypeOK
<1>2. IsFiniteSet(1..count)
  BY <1>1, FS_Interval
<1>3. IsFiniteSet(Unrefreshed)
  BY <1>2, FS_Subset DEF Unrefreshed
<1> QED BY <1>3, FS_CardinalityType

\* A token is issued to a request that can have one, and is not the bound's last.
LEMMA RefreshBounded ==
  ASSUME LedgerInv, NEW c \in Sessions, tx[c].phase = "refresh",
         latest' = latest + 1, count' = count,
         tx'[c].refreshed, tx'[c].req = tx[c].req, \A d \in Sessions \ {c} : tx'[d] = tx[d]
  PROVE  TokensBounded' /\ latest' \in Tokens
<1>1. TypeOK /\ TokensBounded
  BY DEF LedgerInv
<1>2. latest \in Nat /\ count \in 0..MaxRequests /\ MaxRequests \in Nat /\ ~tx[c].refreshed
  BY <1>1, Numbers DEF TypeOK
<1> DEFINE r == tx[c].req
<1>3. r \in Unrefreshed
  BY <1>2, Running DEF Unrefreshed
<1>4. r \notin Unrefreshed' /\ Unrefreshed' \subseteq Unrefreshed
  <2>1. \A d \in Sessions \ {c} : tx'[d].req # r
    BY Running
  <2>2. r \notin Unrefreshed'
    BY <2>1 DEF Unrefreshed
  <2>3. ASSUME NEW q \in Unrefreshed' PROVE q \in Unrefreshed
    <3>1. q \in 1..count /\ \E d \in Sessions : tx'[d].req = q /\ ~tx'[d].refreshed
      BY <2>3 DEF Unrefreshed
    <3> QED BY <3>1 DEF Unrefreshed
  <2> QED BY <2>2, <2>3
<1>5. Unrefreshed' \subseteq Unrefreshed \ {r}
  BY <1>4
<1>6. IsFiniteSet(Unrefreshed) /\ Cardinality(Unrefreshed) \in Nat
  BY <1>1, UnrefreshedFinite
<1>7. IsFiniteSet(Unrefreshed \ {r}) /\ Cardinality(Unrefreshed \ {r}) = Cardinality(Unrefreshed) - 1
  BY <1>3, <1>6, FS_RemoveElement
<1>8. IsFiniteSet(Unrefreshed') /\ Cardinality(Unrefreshed') <= Cardinality(Unrefreshed) - 1
      /\ Cardinality(Unrefreshed') \in Nat
  BY <1>5, <1>7, FS_Subset, FS_CardinalityType
<1>9. TokensBounded'
  BY <1>1, <1>2, <1>6, <1>8 DEF TokensBounded
<1>10. latest + 1 \in 0..MaxRequests
  BY <1>1, <1>2, <1>6, <1>8 DEF TokensBounded
<1> QED BY <1>9, <1>10, Numbers

\* The ledger issues a token.
LEMMA RefreshOK == ASSUME LedgerInv, NEW c \in Sessions, Refresh(c) PROVE LedgerInv'
<1>1. TypeOK /\ RequestsSound /\ TokensSound /\ TableSound
  BY DEF LedgerInv
<1>2. tx[c] \in Transactions /\ ~Idle(c) /\ tx[c].phase = "refresh" /\ tx[c].token = latest
  BY Running DEF Refresh
<1>3. UNCHANGED <<brand, expired, books, posted, stored, synced, tb, recorded, failed, dropped, asked, count>>
      /\ latest' = latest + 1
  BY DEF Refresh, connection, outcome
<1>4. latest \in Nat /\ stored \in Nat /\ \A d \in Sessions : tx[d].token \in Nat
  BY <1>1, Numbers, Fields DEF TypeOK
<1> DEFINE t == [tx[c] EXCEPT !.phase = "store", !.token = latest + 1, !.refreshed = TRUE]
<1>5. tx' = [tx EXCEPT ![c] = t]
  BY DEF Refresh
<1>6. tx'[c] = t /\ \A d \in Sessions \ {c} : tx'[d] = tx[d]
  BY <1>1, <1>5 DEF TypeOK
<1>7. /\ t.op = tx[c].op /\ t.req = tx[c].req /\ t.todo = tx[c].todo
      /\ t.phase = "store" /\ t.token = latest + 1 /\ t.refreshed
  BY <1>2 DEF Transactions
<1>8. TokensBounded' /\ latest + 1 \in Tokens
  <2> HIDE DEF t
  <2> QED BY <1>2, <1>3, <1>6, <1>7, RefreshBounded
<1>9. t \in Transactions
  BY <1>2, <1>8 DEF Transactions
<1> HIDE DEF t
<1>10. TypeOK'
  BY <1>1, <1>3, <1>5, <1>7, <1>8, <1>9, OneMoves DEF TypeOK
<1>11. \A r \in Requests : r > count => Made(r)' = {}
  BY <1>1, <1>3 DEF RequestsSound, Made
<1>12. RequestsSound'
  BY <1>2, <1>3, <1>5, <1>7, <1>9, <1>11, RequestsFrame
<1>13. \A d \in Sessions \ {c} : ~tx[d].refreshed
  BY <1>1, <1>2, <1>4 DEF TokensSound
<1>14. TokensSound'
  BY <1>1, <1>3, <1>4, <1>6, <1>7, <1>13 DEF TokensSound
<1>15. TokenLossExplained'
  BY <1>3, <1>6, <1>7 DEF TokenLossExplained
<1>16. NoJournalTwice' /\ JournalsSound' /\ \A d \in Sessions : PushSound(d)'
  BY <1>3, <1>6, <1>7, JournalsFrame
<1>17. TableSound'
  BY <1>1, <1>3, TableFrame
<1> QED BY <1>8, <1>10, <1>12, <1>14, <1>15, <1>16, <1>17 DEF LedgerInv

-----------------------------------------------------------------------------
(* Posting. *)

\* What is known of the journal that comes next.
LEMMA NextJournal ==
  ASSUME LedgerInv, NEW c \in Sessions, Posting(c)
  PROVE  /\ tx[c].todo \in Seq(Journals) /\ tx[c].todo # <<>>
         /\ Head(tx[c].todo) \in Journals /\ Head(tx[c].todo) \in Range(tx[c].todo)
         /\ Tail(tx[c].todo) \in Seq(Journals) /\ IsInjective(Tail(tx[c].todo))
         /\ Range(Tail(tx[c].todo)) = Range(tx[c].todo) \ {Head(tx[c].todo)}
         /\ Made(tx[c].req) = Sends(tx[c].req) \ Range(tx[c].todo)
         /\ tx[c].op = "xero" => Range(tx[c].todo) \subseteq Range(XeroPosts) /\ asked[tx[c].req] = {}
         /\ tx[c].op = "netsuite" => asked[tx[c].req] # {}
<1>1. tx[c].op \in {"xero", "netsuite"} /\ tx[c].todo # <<>>
  BY DEF Posting
<1>2. tx[c] \in Transactions /\ ~Idle(c)
  BY <1>1, Running
<1>3. PushSound(c) /\ RequestsSound
  BY DEF LedgerInv
<1>4. tx[c].todo \in Seq(Journals) /\ IsInjective(tx[c].todo)
  BY <1>1, <1>2, <1>3, Fields DEF PushSound
<1>5. /\ Made(tx[c].req) = Sends(tx[c].req) \ Range(tx[c].todo)
      /\ tx[c].op = "xero" => Range(tx[c].todo) \subseteq Range(XeroPosts)
  BY <1>1, <1>3 DEF PushSound
<1>6. tx[c].op = "netsuite" <=> asked[tx[c].req] # {}
  BY <1>2, <1>3 DEF RequestsSound
<1> QED BY <1>1, <1>4, <1>5, <1>6, TailOfPosts

\* A journal that can be sent is one of the request's, not made before, and balances
\* if it goes to NetSuite.
LEMMA SendableIsNew ==
  ASSUME LedgerInv, NEW c \in Sessions, Posting(c), Sendable(c)
  PROVE  /\ Head(tx[c].todo) \in Sends(tx[c].req) \ Made(tx[c].req)
         /\ asked[tx[c].req] # {} => Balances(MappedLines(Head(tx[c].todo), asked[tx[c].req]))
<1>1. tx[c].op \in {"xero", "netsuite"}
  BY DEF Posting
<1>2. CASE tx[c].op = "xero"
  BY <1>2, NextJournal DEF Sends
<1>3. CASE tx[c].op = "netsuite"
  BY <1>3, NextJournal DEF Sends, Sendable, Unmapped, Balanced
<1> QED BY <1>1, <1>2, <1>3

\* The ledger creates a journal of one request.
LEMMA OneCreated ==
  ASSUME LedgerInv, NEW c \in Sessions, Posting(c), Sendable(c), posted' = Created(c),
         NEW q, q = tx[c].req
  PROVE  /\ posted' \in [Requests -> [Journals -> Nat]] /\ NoJournalTwice'
         /\ \A r \in Requests \ {q} : Made(r)' = Made(r)
         /\ Made(q)' = Made(q) \cup {Head(tx[c].todo)}
<1>0. PICK j : j = Head(tx[c].todo)
  OBVIOUS
<1>1. q \in Requests /\ j \in Journals
  BY <1>0, Running, NextJournal DEF Posting
<1>2. posted \in [Requests -> [Journals -> Nat]]
  BY DEF LedgerInv, TypeOK
<1>3. posted[q][j] = 0
  BY <1>0, <1>1, <1>2, SendableIsNew DEF Made
<1>4. posted' = [posted EXCEPT ![q][j] = @ + 1]
  BY <1>0 DEF Created
<1>5. /\ posted' \in [Requests -> [Journals -> Nat]]
      /\ \A r \in Requests \ {q} : posted'[r] = posted[r]
      /\ \A k \in Journals \ {j} : posted'[q][k] = posted[q][k]
      /\ posted'[q][j] = 1
  BY <1>1, <1>2, <1>3, <1>4
<1>6. NoJournalTwice'
  <2>1. NoJournalTwice
    BY DEF LedgerInv
  <2>2. ASSUME NEW r \in Requests, NEW k \in Journals PROVE posted'[r][k] <= 1
    <3>1. CASE r = q /\ k = j
      BY <3>1, <1>5
    <3>2. CASE r = q /\ k # j
      BY <2>1, <3>2, <1>5 DEF NoJournalTwice
    <3>3. CASE r # q
      BY <2>1, <3>3, <1>5 DEF NoJournalTwice
    <3> QED BY <3>1, <3>2, <3>3
  <2> QED BY <2>2 DEF NoJournalTwice
<1>7. \A r \in Requests \ {q} : Made(r)' = Made(r)
  BY <1>5 DEF Made
<1>8. Made(q)' = Made(q) \cup {j}
  <2>1. ASSUME NEW k \in Made(q)' PROVE k \in Made(q) \cup {j}
    BY <1>5, <2>1 DEF Made
  <2>2. ASSUME NEW k \in Made(q) \cup {j} PROVE k \in Made(q)'
    BY <1>1, <1>5, <2>2 DEF Made
  <2> QED BY <2>1, <2>2
<1> QED BY <1>0, <1>5, <1>6, <1>7, <1>8

\* The journal that comes next is dealt with: sent, or passed over.
LEMMA JournalDone ==
  ASSUME LedgerInv, NEW c \in Sessions, Posting(c),
         tx' = [tx EXCEPT ![c].todo = Tail(@)],
         UNCHANGED <<brand, latest, expired, books, connection, outcome, asked, count>>,
         posted' \in [Requests -> [Journals -> Nat]], NoJournalTwice',
         NEW q, q = tx[c].req, \A r \in Requests \ {q} : Made(r)' = Made(r),
         Made(q)' = Sends(q) \ Range(Tail(tx[c].todo)),
         asked[q] # {} => \A j \in Made(q)' : Balances(MappedLines(j, asked[q]))
  PROVE  LedgerInv'
<1>0. UNCHANGED <<stored, synced, tb, recorded, failed, dropped>>
  BY DEF connection, outcome
<1>1. TypeOK /\ RequestsSound /\ JournalsSound /\ TableSound /\ \A d \in Sessions : PushSound(d)
  BY DEF LedgerInv
<1>2. /\ tx[c] \in Transactions /\ ~Idle(c) /\ tx[c].op \in {"xero", "netsuite"} /\ tx[c].phase = "call"
      /\ q \in 1..count /\ q \in Requests /\ q \notin recorded
      /\ \A d \in Sessions \ {c} : tx[d].req # q
  BY Running DEF Posting
<1> DEFINE t == [tx[c] EXCEPT !.todo = Tail(@)]
<1>3. tx' = [tx EXCEPT ![c] = t]
  OBVIOUS
<1>4. /\ t.op = tx[c].op /\ t.req = tx[c].req /\ t.token = tx[c].token /\ t.phase = "call"
      /\ t.refreshed = tx[c].refreshed /\ t.todo = Tail(tx[c].todo)
  BY <1>2 DEF Transactions
<1>5. t \in Transactions
  BY <1>2, NextJournal DEF Transactions
<1> HIDE DEF t
<1>6. /\ tx' \in [Sessions -> Transactions] /\ tx'[c] = t
      /\ \A d \in Sessions \ {c} : tx'[d] = tx[d]
      /\ \A d \in Sessions : tx'[d].phase = "refresh" => ~tx'[d].refreshed
  BY <1>1, <1>3, <1>4, <1>5, OneMoves
<1>7. TypeOK'
  BY <1>0, <1>1, <1>6 DEF TypeOK
<1>8. \A r \in Requests : r > count => Made(r)' = {}
  BY <1>1, <1>2 DEF RequestsSound, TypeOK
<1>9. RequestsSound'
  BY <1>0, <1>2, <1>3, <1>4, <1>5, <1>8, RequestsFrame
<1>10. TokensSound' /\ TokensBounded' /\ TokenLossExplained'
  BY <1>0, <1>4, <1>6, TokensFrame
<1>11. \A r : Sends(r)' = Sends(r)
  BY DEF Sends
<1>12. ASSUME NEW d \in Sessions PROVE PushSound(d)'
  <2>1. CASE d = c
    BY <2>1, <1>2, <1>4, <1>6, <1>11, NextJournal DEF PushSound
  <2>2. CASE d # c /\ tx[d].op # "none"
    <3>1. tx[d].req \in Requests \ {q}
      BY <2>2, <1>2, Running
    <3> QED BY <2>2, <3>1, <1>1, <1>6, <1>11 DEF PushSound
  <2>3. CASE d # c /\ tx[d].op = "none"
    BY <2>3, <1>6 DEF PushSound
  <2> QED BY <2>1, <2>2, <2>3
<1>13. JournalsSound'
  <2>1. ASSUME NEW r \in Requests, r \in recorded' PROVE (Made(r) = Sends(r))'
    BY <2>1, <1>0, <1>1, <1>2, <1>11 DEF JournalsSound
  <2>2. ASSUME NEW r \in Requests, Made(r)' # {}
        PROVE  r \in recorded' \cup failed' \/ \E d \in Sessions : tx'[d].req = r
    <3>1. CASE r = q
      BY <3>1, <1>4, <1>6
    <3>2. CASE r # q
      BY <2>2, <3>2, <1>0, <1>1, <1>4, <1>6 DEF JournalsSound
    <3> QED BY <3>1, <3>2
  <2>3. ASSUME NEW r \in Requests, asked[r] # {}, NEW j \in Made(r)'
        PROVE  Balances(MappedLines(j, asked[r]))
    <3>1. CASE r = q
      BY <2>3, <3>1
    <3>2. CASE r # q
      BY <2>3, <3>2, <1>1 DEF JournalsSound
    <3> QED BY <3>1, <3>2
  <2> QED BY <2>1, <2>2, <2>3 DEF JournalsSound
<1>14. TableSound'
  BY <1>0, <1>1, TableFrame
<1> QED BY <1>7, <1>9, <1>10, <1>12, <1>13, <1>14 DEF LedgerInv

\* NetSuite is not sent a journal that is not mapped.
LEMMA SkipUnmappedOK == ASSUME LedgerInv, NEW c \in Sessions, SkipUnmapped(c) PROVE LedgerInv'
<1>0. PICK q : q = tx[c].req
  OBVIOUS
<1>1. Posting(c) /\ Unmapped(c) /\ tx' = [tx EXCEPT ![c].todo = Tail(@)] /\ posted' = posted
      /\ UNCHANGED <<brand, latest, expired, books, connection, outcome, asked, count>>
  BY DEF SkipUnmapped, ledger
<1>2. \A r : Made(r)' = Made(r)
  BY <1>1 DEF Made
<1>3. posted' \in [Requests -> [Journals -> Nat]] /\ NoJournalTwice'
  BY <1>1 DEF LedgerInv, TypeOK, NoJournalTwice
<1>4. Head(tx[c].todo) \notin Sends(q)
  BY <1>0, <1>1, NextJournal DEF Unmapped, Sends
<1>5. Made(q)' = Sends(q) \ Range(Tail(tx[c].todo))
  BY <1>0, <1>1, <1>2, <1>4, NextJournal
<1>6. asked[q] # {} => \A j \in Made(q)' : Balances(MappedLines(j, asked[q]))
  BY <1>0, <1>1, <1>2, Running DEF LedgerInv, JournalsSound, Posting
<1> QED BY <1>0, <1>1, <1>2, <1>3, <1>5, <1>6, JournalDone

\* The ledger creates a journal and says so.
LEMMA PostCreatedOK == ASSUME LedgerInv, NEW c \in Sessions, PostCreated(c) PROVE LedgerInv'
<1>0. PICK q : q = tx[c].req
  OBVIOUS
<1>1. Posting(c) /\ Sendable(c) /\ posted' = Created(c) /\ tx' = [tx EXCEPT ![c].todo = Tail(@)]
      /\ UNCHANGED <<brand, latest, expired, books, connection, outcome, asked, count>>
  BY DEF PostCreated
<1>2. /\ posted' \in [Requests -> [Journals -> Nat]] /\ NoJournalTwice'
      /\ \A r \in Requests \ {q} : Made(r)' = Made(r)
      /\ Made(q)' = Made(q) \cup {Head(tx[c].todo)}
  BY <1>0, <1>1, OneCreated
<1>3. Made(q)' = Sends(q) \ Range(Tail(tx[c].todo))
  BY <1>0, <1>1, <1>2, NextJournal, SendableIsNew
<1>4. asked[q] # {} => \A j \in Made(q)' : Balances(MappedLines(j, asked[q]))
  BY <1>0, <1>1, <1>2, SendableIsNew, Running DEF LedgerInv, JournalsSound, Posting
<1> QED BY <1>0, <1>1, <1>2, <1>3, <1>4, JournalDone

-----------------------------------------------------------------------------
(* The end of a transaction. *)

\* The tokens at the end: committed with the connection, or dropped.
LEMMA TokensAtEnd ==
  ASSUME LedgerInv, NEW c \in Sessions, tx' = [tx EXCEPT ![c] = NoTx],
         UNCHANGED <<latest, count>>,
         \/ stored' = TokenKept(c) /\ dropped' = dropped
         \/ stored' = stored /\ dropped' = IF tx[c].refreshed THEN dropped \cup {tx[c].token} ELSE dropped
  PROVE  TokensSound' /\ TokensBounded' /\ TokenLossExplained' /\ stored' \in Tokens /\ dropped' \subseteq Tokens
<1>1. TypeOK /\ TokensSound /\ TokensBounded /\ TokenLossExplained
  BY DEF LedgerInv
<1>2. /\ latest \in Nat /\ stored \in Nat /\ count \in Nat /\ dropped \subseteq Tokens
      /\ stored \in Tokens /\ tx \in [Sessions -> Transactions]
  BY <1>1, Numbers DEF TypeOK
<1>3. \A d \in Sessions : tx[d].token \in Nat /\ tx[d].token \in Tokens
  BY <1>2, Fields, Numbers
<1>4. tx'[c] = NoTx /\ \A d \in Sessions \ {c} : tx'[d] = tx[d]
  BY <1>2
<1>5. stored' = stored \/ (tx[c].refreshed /\ stored' = latest)
  BY <1>1 DEF TokenKept, TokensSound
<1>6. stored' \in Tokens /\ dropped' \subseteq Tokens
  BY <1>1, <1>2, <1>3, <1>5 DEF TypeOK, TokenKept
<1>7. ASSUME NEW d \in Sessions, tx'[d].refreshed
      PROVE  /\ d # c /\ tx[d].refreshed /\ tx'[d].token = latest /\ stored' = stored /\ stored < latest
             /\ \A e \in Sessions \ {d} : tx'[e].token < latest
  <2>1. d # c /\ tx[d].refreshed /\ tx'[d] = tx[d]
    BY <1>4, <1>7, NoTxTyped
  <2>2. /\ tx[d].token = latest /\ stored < latest
        /\ \A e \in Sessions \ {d} : tx[e].token < latest
    BY <1>1, <2>1 DEF TokensSound
  <2>3. ~tx[c].refreshed
    <3>1. tx[c].token < latest /\ tx[c].token \in Nat
      BY <1>3, <2>1, <2>2
    <3> QED BY <3>1, <1>1, <1>2 DEF TokensSound
  <2>4. \A e \in Sessions \ {d} : tx'[e].token < latest
    BY <1>2, <1>4, <2>2, NoTxTyped
  <2> QED BY <1>5, <2>1, <2>2, <2>3, <2>4
<1>8. TokensSound'
  <2>1. stored' <= latest
    BY <1>1, <1>2, <1>5 DEF TokensSound
  <2>2. \A d \in Sessions : tx'[d].token <= latest
    BY <1>1, <1>2, <1>4, NoTxTyped DEF TokensSound
  <2> QED BY <2>1, <2>2, <1>7 DEF TokensSound
<1>9. Unrefreshed' \subseteq Unrefreshed
  <2>1. ASSUME NEW r \in Unrefreshed' PROVE r \in Unrefreshed
    <3>1. PICK d \in Sessions : r \in 1..count /\ tx'[d].req = r /\ ~tx'[d].refreshed
      BY <2>1 DEF Unrefreshed
    <3>2. d # c
      BY <1>2, <1>4, <3>1, NoTxTyped
    <3> QED BY <1>4, <3>1, <3>2 DEF Unrefreshed
  <2> QED BY <2>1
<1>10. /\ Cardinality(Unrefreshed') <= Cardinality(Unrefreshed)
       /\ Cardinality(Unrefreshed') \in Nat /\ Cardinality(Unrefreshed) \in Nat
  BY <1>1, <1>9, UnrefreshedFinite, FS_Subset, FS_CardinalityType
<1>11. TokensBounded'
  BY <1>1, <1>2, <1>10 DEF TokensBounded
<1>12. TokenLossExplained'
  <2>1. CASE stored = latest
    BY <2>1, <1>5 DEF TokenLossExplained
  <2>2. CASE latest \in dropped
    BY <2>2 DEF TokenLossExplained
  <2>3. CASE \E d \in Sessions \ {c} : tx[d].refreshed /\ tx[d].token = latest
    BY <2>3, <1>4 DEF TokenLossExplained
  <2>4. CASE tx[c].refreshed /\ tx[c].token = latest
    BY <2>4 DEF TokenLossExplained, TokenKept
  <2> QED BY <1>1, <2>1, <2>2, <2>3, <2>4 DEF TokenLossExplained
<1> QED BY <1>6, <1>8, <1>11, <1>12

\* A transaction that ends leaves its request recorded, failed, or with nothing made.
LEMMA EndStep ==
  ASSUME LedgerInv, NEW c \in Sessions, ~Idle(c), tx' = [tx EXCEPT ![c] = NoTx],
         UNCHANGED <<brand, latest, expired, books, asked, count>>,
         \/ stored' = TokenKept(c) /\ dropped' = dropped
         \/ stored' = stored /\ dropped' = IF tx[c].refreshed THEN dropped \cup {tx[c].token} ELSE dropped,
         synced' \in 0..Len(XeroReports), \A a \in Accounts : tb'[a] # NoBalance => tb'[a] \in Int,
         TableSound',
         posted' \in [Requests -> [Journals -> Nat]], NoJournalTwice',
         NEW q, q = tx[c].req, \A r \in Requests \ {q} : Made(r)' = Made(r),
         asked[q] # {} => \A j \in Made(q)' : Balances(MappedLines(j, asked[q])),
         \/ recorded' = recorded \cup {q} /\ failed' = failed /\ Made(q)' = Sends(q)
         \/ recorded' = recorded /\ failed' = failed \cup {q}
         \/ recorded' = recorded /\ failed' = failed /\ Made(q)' = {}
  PROVE  LedgerInv'
<1>1. TypeOK /\ RequestsSound /\ JournalsSound /\ \A d \in Sessions : PushSound(d)
  BY DEF LedgerInv
<1>2. /\ q \in 1..count /\ q \in Requests /\ q \notin recorded
      /\ \A d \in Sessions \ {c} : tx[d].req # q
  BY Running DEF Idle
<1>3. /\ tx' \in [Sessions -> Transactions] /\ tx'[c] = NoTx
      /\ \A d \in Sessions \ {c} : tx'[d] = tx[d]
      /\ \A d \in Sessions : tx'[d].phase = "refresh" => ~tx'[d].refreshed
  BY <1>1, NoTxTyped, OneMoves
<1>4. TokensSound' /\ TokensBounded' /\ TokenLossExplained' /\ stored' \in Tokens /\ dropped' \subseteq Tokens
  BY TokensAtEnd
<1>5. TypeOK'
  BY <1>1, <1>2, <1>3, <1>4 DEF TypeOK
<1>6. Idle(c)' /\ \A d \in Sessions \ {c} : Idle(d)' = Idle(d)
  BY <1>3 DEF Idle
<1>7. RequestsSound'
  <2>1. ASSUME NEW d \in Sessions PROVE (Idle(d) \/ (tx[d].op # "none" /\ tx[d].req \in 1..count))'
    BY <1>1, <1>3, <1>6 DEF RequestsSound
  <2>2. ASSUME NEW d \in Sessions, NEW e \in Sessions, tx'[d].req = tx'[e].req, ~Idle(d)' PROVE d = e
    <3>1. d # c /\ tx'[d] = tx[d] /\ ~Idle(d)
      BY <1>3, <1>6, <2>2
    <3>2. CASE e = c
      <4>1. tx'[d].req = 0 /\ tx[d].req \in 1..count
        BY <3>1, <3>2, <2>2, <1>1, <1>3, NoTxTyped DEF RequestsSound
      <4> QED BY <3>1, <4>1
    <3>3. CASE e # c
      BY <3>1, <3>3, <2>2, <1>1, <1>3 DEF RequestsSound
    <3> QED BY <3>2, <3>3
  <2>3. ASSUME NEW r \in Requests, r > count
        PROVE  (Made(r) = {} /\ asked[r] = {} /\ r \notin recorded \cup failed)'
    <3>1. r # q
      BY <2>3, <1>1, <1>2 DEF TypeOK
    <3> QED BY <2>3, <3>1, <1>1 DEF RequestsSound
  <2>4. ASSUME NEW d \in Sessions, ~Idle(d)'
        PROVE  ((tx[d].op = "netsuite" <=> asked[tx[d].req] # {}) /\ tx[d].req \notin recorded)'
    <3>1. d # c /\ tx'[d] = tx[d] /\ ~Idle(d)
      BY <1>3, <1>6, <2>4
    <3> QED BY <3>1, <1>1, <1>2 DEF RequestsSound
  <2>5. ASSUME NEW d \in Sessions, tx'[d].phase \in {"entity", "stamp"}
        PROVE  (tx[d].op = "sync" /\ tx[d].report \in Versions)'
    <3>1. d # c /\ tx'[d] = tx[d]
      BY <1>3, <2>5, NoTxTyped
    <3> QED BY <3>1, <2>5, <1>1 DEF RequestsSound
  <2> QED BY <2>1, <2>2, <2>3, <2>4, <2>5 DEF RequestsSound
<1>8. \A r : Sends(r)' = Sends(r)
  BY DEF Sends
<1>9. ASSUME NEW d \in Sessions PROVE PushSound(d)'
  <2>1. CASE d = c
    BY <2>1, <1>3, NoTxTyped DEF PushSound
  <2>2. CASE d # c /\ tx[d].op # "none"
    <3>1. tx[d].req \in Requests \ {q}
      BY <2>2, <1>2, Running
    <3> QED BY <2>2, <3>1, <1>1, <1>3, <1>8 DEF PushSound
  <2>3. CASE d # c /\ tx[d].op = "none"
    BY <2>3, <1>3 DEF PushSound
  <2> QED BY <2>1, <2>2, <2>3
<1>10. JournalsSound'
  <2>1. ASSUME NEW r \in Requests, r \in recorded' PROVE (Made(r) = Sends(r))'
    BY <2>1, <1>1, <1>2, <1>8 DEF JournalsSound
  <2>2. ASSUME NEW r \in Requests, Made(r)' # {}
        PROVE  r \in recorded' \cup failed' \/ \E d \in Sessions : tx'[d].req = r
    <3>1. CASE r = q
      BY <2>2, <3>1
    <3>2. CASE r # q
      BY <2>2, <3>2, <1>1, <1>3 DEF JournalsSound
    <3> QED BY <3>1, <3>2
  <2>3. ASSUME NEW r \in Requests, asked[r] # {}, NEW j \in Made(r)'
        PROVE  Balances(MappedLines(j, asked[r]))
    <3>1. CASE r = q
      BY <2>3, <3>1
    <3>2. CASE r # q
      BY <2>3, <3>2, <1>1 DEF JournalsSound
    <3> QED BY <3>1, <3>2
  <2> QED BY <2>1, <2>2, <2>3 DEF JournalsSound
<1> QED BY <1>4, <1>5, <1>7, <1>9, <1>10 DEF LedgerInv

\* A transaction is rolled back.
LEMMA FailOK == ASSUME LedgerInv, NEW c \in Sessions, Fail(c) PROVE LedgerInv'
<1>1. PICK q : q = tx[c].req
  OBVIOUS
<1>2. ~Idle(c) /\ tx' = [tx EXCEPT ![c] = NoTx]
      /\ UNCHANGED <<brand, latest, expired, books, posted, stored, synced, tb, recorded, asked, count>>
      /\ failed' = failed \cup {q}
      /\ dropped' = IF tx[c].refreshed THEN dropped \cup {tx[c].token} ELSE dropped
  BY <1>1 DEF Fail, End, ledger, connection
<1>3. \A r : Made(r)' = Made(r)
  BY <1>2 DEF Made
<1>4. TypeOK /\ NoJournalTwice /\ TableSound /\ JournalsSound
  BY DEF LedgerInv
<1>5. NoJournalTwice' /\ TableSound' /\ posted' \in [Requests -> [Journals -> Nat]]
      /\ synced' \in 0..Len(XeroReports) /\ \A a \in Accounts : tb'[a] # NoBalance => tb'[a] \in Int
  BY <1>2, <1>4, TableFrame DEF NoJournalTwice, TypeOK
<1>6. asked[q] # {} => \A j \in Made(q)' : Balances(MappedLines(j, asked[q]))
  BY <1>1, <1>2, <1>3, <1>4, Running DEF JournalsSound, Idle
<1> QED BY <1>1, <1>2, <1>3, <1>5, <1>6, EndStep

\* The ledger creates a journal and its answer is lost.
LEMMA PostLostOK == ASSUME LedgerInv, NEW c \in Sessions, PostLost(c) PROVE LedgerInv'
<1>1. PICK q : q = tx[c].req
  OBVIOUS
<1>2. Posting(c) /\ Sendable(c) /\ posted' = Created(c) /\ tx' = [tx EXCEPT ![c] = NoTx]
      /\ UNCHANGED <<brand, latest, expired, books, stored, synced, tb, recorded, asked, count>>
      /\ failed' = failed \cup {q}
      /\ dropped' = IF tx[c].refreshed THEN dropped \cup {tx[c].token} ELSE dropped
  BY <1>1 DEF PostLost, End, connection
<1>3. ~Idle(c) /\ q \in Requests
  BY <1>1, <1>2, Running DEF Posting
<1>4. /\ posted' \in [Requests -> [Journals -> Nat]] /\ NoJournalTwice'
      /\ \A r \in Requests \ {q} : Made(r)' = Made(r)
      /\ Made(q)' = Made(q) \cup {Head(tx[c].todo)}
  BY <1>1, <1>2, OneCreated
<1>5. TypeOK /\ TableSound /\ JournalsSound
  BY DEF LedgerInv
<1>6. TableSound' /\ synced' \in 0..Len(XeroReports)
      /\ \A a \in Accounts : tb'[a] # NoBalance => tb'[a] \in Int
  BY <1>2, <1>5, TableFrame DEF TypeOK
<1>7. asked[q] # {} => \A j \in Made(q)' : Balances(MappedLines(j, asked[q]))
  BY <1>1, <1>2, <1>3, <1>4, <1>5, SendableIsNew DEF JournalsSound
<1> QED BY <1>1, <1>2, <1>3, <1>4, <1>6, <1>7, EndStep

\* A push that has nothing left to post is recorded.
LEMMA CommitPushOK == ASSUME LedgerInv, NEW c \in Sessions, CommitPush(c) PROVE LedgerInv'
<1>1. PICK q : q = tx[c].req
  OBVIOUS
<1>2. tx[c].op \in {"xero", "netsuite"} /\ tx[c].todo = <<>> /\ tx' = [tx EXCEPT ![c] = NoTx]
      /\ UNCHANGED <<brand, latest, expired, books, posted, synced, tb, failed, dropped, asked, count>>
      /\ recorded' = recorded \cup {q} /\ stored' = TokenKept(c)
  BY <1>1 DEF CommitPush, AllPosted, End, ledger
<1>3. ~Idle(c) /\ q \in Requests
  BY <1>1, <1>2, Running
<1>4. TypeOK /\ NoJournalTwice /\ TableSound /\ JournalsSound /\ PushSound(c)
  BY DEF LedgerInv
<1>5. \A r : Made(r)' = Made(r)
  BY <1>2 DEF Made
<1>6. NoJournalTwice' /\ TableSound' /\ posted' \in [Requests -> [Journals -> Nat]]
      /\ synced' \in 0..Len(XeroReports) /\ \A a \in Accounts : tb'[a] # NoBalance => tb'[a] \in Int
  BY <1>2, <1>4, TableFrame DEF NoJournalTwice, TypeOK
<1>7. Range(tx[c].todo) = {}
  BY <1>2 DEF Range
<1>8. Made(q)' = Sends(q)
  BY <1>1, <1>2, <1>4, <1>5, <1>7 DEF PushSound
<1>9. asked[q] # {} => \A j \in Made(q)' : Balances(MappedLines(j, asked[q]))
  BY <1>3, <1>4, <1>5 DEF JournalsSound
<1> QED BY <1>1, <1>2, <1>3, <1>5, <1>6, <1>8, <1>9, EndStep

\* What a sync writes is of the report it stamps the connection with.
LEMMA RowsOfReport ==
  ASSUME LedgerInv, NEW c \in Sessions, CommitSync(c)
  PROVE  TableSound' /\ synced' \in 0..Len(XeroReports)
         /\ \A a \in Accounts : tb'[a] # NoBalance => tb'[a] \in Int
<1>1. TypeOK /\ RequestsSound
  BY DEF LedgerInv
<1>2. tx[c].phase = "stamp" /\ brand' = brand /\ synced' = tx[c].report
      /\ tb' = [a \in Accounts |-> IF a \in DOMAIN RowsWritten(c) THEN RowsWritten(c)[a] ELSE tb[a]]
  BY DEF CommitSync, Syncing
<1>3. tx[c].report \in Versions /\ brand \in {"xero", "qbo"}
  BY <1>1, <1>2 DEF RequestsSound, TypeOK
<1>4. PICK lines : lines = Lines[brand][tx[c].report]
  OBVIOUS
<1>5. lines \in Seq([account : Accounts, balance : Int])
  BY <1>3, <1>4, ReportsAssumption
<1>6. RowsWritten(c) = Imported(lines)
  BY <1>4 DEF RowsWritten
<1>7. DOMAIN RowsWritten(c) = {lines[i].account : i \in DOMAIN lines}
  BY <1>6 DEF Imported
<1>8. ASSUME NEW a \in Accounts, tb'[a] # NoBalance PROVE tb'[a] \in Int
  <2>1. CASE a \in DOMAIN RowsWritten(c)
    BY <2>1, <1>2, <1>5, <1>6, <1>7, ImportedIsALine
  <2>2. CASE a \notin DOMAIN RowsWritten(c)
    BY <2>2, <1>1, <1>2, <1>8 DEF TypeOK
  <2> QED BY <2>1, <2>2
<1>9. ASSUME NEW i \in DOMAIN lines
      PROVE  \E k \in DOMAIN lines :
               lines[k].account = lines[i].account /\ tb'[lines[i].account] = lines[k].balance
  <2>1. PICK a : a = lines[i].account
    OBVIOUS
  <2>2. a \in {lines[j].account : j \in DOMAIN lines}
    BY <2>1
  <2>3. a \in Accounts
    <3>1. i \in 1..Len(lines)
      BY <1>5
    <3>2. lines[i] \in [account : Accounts, balance : Int]
      BY <1>5, <3>1, ItemOfSequence
    <3> QED BY <2>1, <3>2
  <2>4. tb'[a] = Imported(lines)[a]
    BY <1>2, <1>6, <1>7, <2>2, <2>3
  <2>5. \E k \in DOMAIN lines : lines[k].account = a /\ Imported(lines)[a] = lines[k].balance
    BY <1>5, <2>2, ImportedIsALine
  <2> QED BY <2>1, <2>4, <2>5
<1>10. Lines[brand'][synced'] = lines
  BY <1>2, <1>4
<1>11. TableSound'
  BY <1>9, <1>10 DEF TableSound
<1>12. synced' \in 0..Len(XeroReports)
  BY <1>2, <1>3, Numbers
<1> QED BY <1>8, <1>11, <1>12

\* A sync writes its rows and commits.
LEMMA CommitSyncOK == ASSUME LedgerInv, NEW c \in Sessions, CommitSync(c) PROVE LedgerInv'
<1>1. PICK q : q = tx[c].req
  OBVIOUS
<1>2. tx[c].op = "sync" /\ tx' = [tx EXCEPT ![c] = NoTx] /\ stored' = TokenKept(c)
      /\ UNCHANGED <<brand, latest, expired, books, posted, recorded, failed, dropped, asked, count>>
  BY DEF CommitSync, Syncing, End, ledger, outcome
<1>3. ~Idle(c) /\ q \in Requests
  BY <1>1, <1>2, Running
<1>4. TypeOK /\ NoJournalTwice /\ PushSound(c)
  BY DEF LedgerInv
<1>5. \A r : Made(r)' = Made(r)
  BY <1>2 DEF Made
<1>6. NoJournalTwice' /\ posted' \in [Requests -> [Journals -> Nat]]
  BY <1>2, <1>4 DEF NoJournalTwice, TypeOK
<1>7. TableSound' /\ synced' \in 0..Len(XeroReports)
      /\ \A a \in Accounts : tb'[a] # NoBalance => tb'[a] \in Int
  BY RowsOfReport
<1>8. Made(q)' = {}
  BY <1>1, <1>2, <1>4, <1>5 DEF PushSound
<1> QED BY <1>1, <1>2, <1>3, <1>5, <1>6, <1>7, <1>8, EndStep

-----------------------------------------------------------------------------
(* The beginning of a transaction. *)

\* The tokens at the beginning: the connection's is read.
LEMMA TokensAtBegin ==
  ASSUME LedgerInv, NEW c \in Sessions, Idle(c), NEW t \in Transactions, tx' = [tx EXCEPT ![c] = t],
         t.token = stored, ~t.refreshed, t.req = count + 1, count' = count + 1,
         UNCHANGED <<latest, stored, dropped>>
  PROVE  TokensSound' /\ TokensBounded' /\ TokenLossExplained'
<1>1. TypeOK /\ TokensSound /\ TokensBounded /\ TokenLossExplained
  BY DEF LedgerInv
<1>2. /\ latest \in Nat /\ stored \in Nat /\ count \in Nat
      /\ tx \in [Sessions -> Transactions]
  BY <1>1, Numbers DEF TypeOK
<1>3. tx'[c] = t /\ \A d \in Sessions \ {c} : tx'[d] = tx[d]
  BY <1>2
<1>4. ~tx[c].refreshed
  BY NoTxTyped DEF Idle
<1>5. TokensSound'
  BY <1>1, <1>2, <1>3, <1>4 DEF TokensSound
<1>6. TokenLossExplained'
  BY <1>1, <1>3, <1>4 DEF TokenLossExplained
<1>7. Unrefreshed' \subseteq Unrefreshed \cup {count + 1}
  <2>1. ASSUME NEW r \in Unrefreshed', r # count + 1 PROVE r \in Unrefreshed
    <3>1. PICK d \in Sessions : r \in 1 .. count + 1 /\ tx'[d].req = r /\ ~tx'[d].refreshed
      BY <2>1 DEF Unrefreshed
    <3>2. d # c /\ r \in 1..count
      BY <1>2, <1>3, <2>1, <3>1
    <3> QED BY <1>3, <3>1, <3>2 DEF Unrefreshed
  <2> QED BY <2>1
<1>8. IsFiniteSet(Unrefreshed) /\ Cardinality(Unrefreshed) \in Nat
  BY <1>1, UnrefreshedFinite
<1>9. /\ IsFiniteSet(Unrefreshed \cup {count + 1})
      /\ Cardinality(Unrefreshed \cup {count + 1}) <= Cardinality(Unrefreshed) + 1
      /\ Cardinality(Unrefreshed \cup {count + 1}) \in Nat
  <2>1. /\ IsFiniteSet(Unrefreshed \cup {count + 1})
        /\ \/ Cardinality(Unrefreshed \cup {count + 1}) = Cardinality(Unrefreshed)
           \/ Cardinality(Unrefreshed \cup {count + 1}) = Cardinality(Unrefreshed) + 1
    BY <1>8, FS_AddElement
  <2> QED BY <1>8, <2>1
<1>10. /\ Cardinality(Unrefreshed') <= Cardinality(Unrefreshed \cup {count + 1})
       /\ Cardinality(Unrefreshed') \in Nat
  BY <1>7, <1>9, FS_Subset, FS_CardinalityType
<1>11. TokensBounded'
  BY <1>1, <1>2, <1>8, <1>9, <1>10 DEF TokensBounded
<1> QED BY <1>5, <1>6, <1>11

\* A request begins with everything still to do.
LEMMA BeginStep ==
  ASSUME LedgerInv, NEW c \in Sessions,
         NEW op \in {"sync", "xero", "netsuite", "netsuite-sync"},
         NEW phase \in {"refresh", "call", "mark"}, NEW posts \in Seq(Journals),
         Begin(c, op, phase, posts), NEW q, q = count + 1,
         asked' \in [Requests -> AccountMaps \cup {{}}],
         \A r \in Requests \ {q} : asked'[r] = asked[r],
         op = "netsuite" <=> asked'[q] # {},
         op \in {"xero", "netsuite"} =>
           IsInjective(posts) /\ posts = IF op = "xero" THEN XeroPosts ELSE NetSuitePosts
  PROVE  LedgerInv'
<1>1. TypeOK /\ RequestsSound /\ JournalsSound /\ NoJournalTwice /\ TableSound
      /\ \A d \in Sessions : PushSound(d)
  BY DEF LedgerInv
<1>2. Idle(c) /\ count < MaxRequests /\ count' = q
      /\ UNCHANGED <<brand, latest, expired, books, posted, stored, synced, tb, recorded, failed, dropped>>
  BY DEF Begin, ledger, connection, outcome
<1>3. /\ count \in Nat /\ q \in Requests /\ q \notin 1..count /\ q > count /\ q \in 0..MaxRequests
      /\ q # 0 /\ q \in 1..q /\ 1..count \subseteq 1..q /\ stored \in Tokens
      /\ \A r \in Requests : r > q => r > count /\ r # q
  BY <1>1, <1>2, Numbers DEF TypeOK
<1> DEFINE t == [NoTx EXCEPT !.op = op, !.req = count + 1, !.token = stored,
                   !.phase = phase, !.todo = posts]
<1>4. tx' = [tx EXCEPT ![c] = t]
  BY DEF Begin
<1>5. /\ t.op = op /\ t.req = q /\ t.token = stored /\ t.phase = phase /\ t.todo = posts
      /\ ~t.refreshed
  BY DEF NoTx
<1>6. t \in Transactions
  BY <1>3, NoTxTyped DEF Transactions
<1> HIDE DEF t
<1>7. /\ tx' \in [Sessions -> Transactions] /\ tx'[c] = t
      /\ \A d \in Sessions \ {c} : tx'[d] = tx[d]
      /\ \A d \in Sessions : tx'[d].phase = "refresh" => ~tx'[d].refreshed
  BY <1>1, <1>4, <1>5, <1>6, OneMoves
<1>8. TypeOK'
  BY <1>1, <1>2, <1>3, <1>7 DEF TypeOK
<1>9. TokensSound' /\ TokensBounded' /\ TokenLossExplained'
  BY <1>2, <1>4, <1>5, <1>6, TokensAtBegin
<1>10. ~Idle(c)' /\ \A d \in Sessions \ {c} : Idle(d)' = Idle(d)
  BY <1>5, <1>7, NoTxTyped DEF Idle
<1>11. \A r : Made(r)' = Made(r)
  BY <1>2 DEF Made
<1>12. \A d \in Sessions \ {c} : ~Idle(d) => tx[d].req \in 1..count /\ tx[d].req \in Requests \ {q}
  BY <1>1, <1>3, Running DEF RequestsSound, Idle
<1>13. RequestsSound'
  <2>1. ASSUME NEW d \in Sessions PROVE (Idle(d) \/ (tx[d].op # "none" /\ tx[d].req \in 1..count))'
    <3>1. CASE d = c
      BY <3>1, <1>2, <1>3, <1>5, <1>7
    <3>2. CASE d # c
      BY <3>2, <1>1, <1>2, <1>3, <1>7, <1>10 DEF RequestsSound
    <3> QED BY <3>1, <3>2
  <2>2. ASSUME NEW d \in Sessions, NEW e \in Sessions, tx'[d].req = tx'[e].req, ~Idle(d)' PROVE d = e
    <3>1. CASE d = c
      <4>1. CASE e = c
        BY <3>1, <4>1
      <4>2. CASE e # c
        <5>1. tx[e].req = q
          BY <2>2, <3>1, <4>2, <1>5, <1>7
        <5>2. Idle(e)
          BY <4>2, <5>1, <1>12
        <5> QED BY <5>1, <5>2, <1>3, NoTxTyped DEF Idle
      <4> QED BY <4>1, <4>2
    <3>2. CASE d # c /\ e = c
      <4>1. tx[d].req = q /\ ~Idle(d)
        BY <2>2, <3>2, <1>5, <1>7, <1>10
      <4> QED BY <3>2, <4>1, <1>12
    <3>3. CASE d # c /\ e # c
      BY <2>2, <3>3, <1>1, <1>7, <1>10 DEF RequestsSound
    <3> QED BY <3>1, <3>2, <3>3
  <2>3. ASSUME NEW r \in Requests, r > count'
        PROVE  (Made(r) = {} /\ asked[r] = {} /\ r \notin recorded \cup failed)'
    BY <2>3, <1>1, <1>2, <1>3, <1>11 DEF RequestsSound
  <2>4. ASSUME NEW d \in Sessions, ~Idle(d)'
        PROVE  ((tx[d].op = "netsuite" <=> asked[tx[d].req] # {}) /\ tx[d].req \notin recorded)'
    <3>1. CASE d = c
      BY <3>1, <1>1, <1>2, <1>3, <1>5, <1>7 DEF RequestsSound
    <3>2. CASE d # c
      BY <2>4, <3>2, <1>1, <1>2, <1>7, <1>10, <1>12 DEF RequestsSound
    <3> QED BY <3>1, <3>2
  <2>5. ASSUME NEW d \in Sessions, tx'[d].phase \in {"entity", "stamp"}
        PROVE  (tx[d].op = "sync" /\ tx[d].report \in Versions)'
    <3>1. d # c /\ tx'[d] = tx[d]
      BY <1>5, <1>7, <2>5
    <3> QED BY <3>1, <2>5, <1>1 DEF RequestsSound
  <2> QED BY <2>1, <2>2, <2>3, <2>4, <2>5 DEF RequestsSound
<1>14. \A r \in Requests \ {q} : Sends(r)' = Sends(r)
  BY DEF Sends
<1>15. Made(q) = {} /\ q \notin recorded
  BY <1>1, <1>3 DEF RequestsSound
<1>16. ASSUME NEW d \in Sessions PROVE PushSound(d)'
  <2>1. CASE d = c
    <3>1. Made(q)' = {}
      BY <1>11, <1>15
    <3>2. CASE op \in {"xero", "netsuite"}
      <4>1. IsInjective(posts) /\ posts = IF op = "xero" THEN XeroPosts ELSE NetSuitePosts
        BY <3>2
      <4>2. Sends(q)' = IF op = "xero" THEN Range(XeroPosts) ELSE NetSuiteEntries(asked'[q])
        BY <3>2 DEF Sends
      <4>3. Sends(q)' \subseteq Range(posts)
        BY <3>2, <4>1, <4>2 DEF NetSuiteEntries
      <4>4. Made(q)' = Sends(q)' \ Range(posts)
        BY <3>1, <4>3
      <4> QED BY <2>1, <3>2, <4>1, <4>4, <1>5, <1>7 DEF PushSound
    <3>3. CASE op \notin {"xero", "netsuite"}
      BY <2>1, <3>1, <3>3, <1>5, <1>7 DEF PushSound
    <3> QED BY <3>2, <3>3
  <2>2. CASE d # c /\ tx[d].op # "none"
    <3>1. tx[d].req \in Requests \ {q}
      BY <2>2, <1>12, Running
    <3> QED BY <2>2, <3>1, <1>1, <1>7, <1>11, <1>14 DEF PushSound
  <2>3. CASE d # c /\ tx[d].op = "none"
    BY <2>3, <1>7 DEF PushSound
  <2> QED BY <2>1, <2>2, <2>3
<1>17. JournalsSound'
  <2>1. ASSUME NEW r \in Requests, r \in recorded' PROVE (Made(r) = Sends(r))'
    BY <2>1, <1>1, <1>2, <1>11, <1>14, <1>15 DEF JournalsSound
  <2>2. ASSUME NEW r \in Requests, Made(r)' # {}
        PROVE  r \in recorded' \cup failed' \/ \E d \in Sessions : tx'[d].req = r
    <3>1. r # q /\ r # 0
      BY <2>2, <1>11, <1>15, Numbers
    <3>2. r \in recorded \cup failed \/ \E d \in Sessions : tx[d].req = r
      BY <2>2, <1>1, <1>11 DEF JournalsSound
    <3>3. ASSUME NEW d \in Sessions, tx[d].req = r PROVE d # c
      BY <3>1, <3>3, <1>2, NoTxTyped DEF Idle
    <3> QED BY <3>2, <3>3, <1>2, <1>7
  <2>3. ASSUME NEW r \in Requests, asked'[r] # {}, NEW j \in Made(r)'
        PROVE  Balances(MappedLines(j, asked'[r]))
    <3>1. r # q
      BY <2>3, <1>11, <1>15
    <3> QED BY <2>3, <3>1, <1>1, <1>11 DEF JournalsSound
  <2> QED BY <2>1, <2>2, <2>3 DEF JournalsSound
<1>18. NoJournalTwice' /\ TableSound'
  BY <1>1, <1>2, TableFrame DEF NoJournalTwice
<1> QED BY <1>8, <1>9, <1>13, <1>16, <1>17, <1>18 DEF LedgerInv

\* A sync, or a push to Xero.
LEMMA BeginWithTokenOK ==
  ASSUME LedgerInv, NEW c \in Sessions, NEW op \in {"sync", "xero"}, BeginWithToken(c, op)
  PROVE  LedgerInv'
<1>1. PICK q : q = count + 1
  OBVIOUS
<1>2. PICK phase, posts :
        phase \in {"refresh", "call"} /\ Begin(c, op, phase, posts)
        /\ posts = IF op = "xero" THEN XeroPosts ELSE <<>>
  BY DEF BeginWithToken
<1>3. posts \in Seq(Journals)
  BY <1>2, LedgerAssumption
<1>4. asked' = asked /\ asked \in [Requests -> AccountMaps \cup {{}}] /\ count \in 0..MaxRequests
      /\ count < MaxRequests
  BY <1>2 DEF BeginWithToken, Begin, LedgerInv, TypeOK
<1>5. asked'[q] = {}
  BY <1>1, <1>4, Numbers DEF LedgerInv, RequestsSound
<1> QED BY <1>1, <1>2, <1>3, <1>4, <1>5, LedgerAssumption, BeginStep

\* A push to NetSuite.
LEMMA BeginNetSuiteOK ==
  ASSUME LedgerInv, NEW c \in Sessions, NEW map \in AccountMaps, BeginNetSuite(c, map)
  PROVE  LedgerInv'
<1>1. PICK q : q = count + 1
  OBVIOUS
<1>2. Begin(c, "netsuite", "call", NetSuitePosts) /\ asked' = [asked EXCEPT ![q] = map]
  BY <1>1 DEF BeginNetSuite
<1>3. asked \in [Requests -> AccountMaps \cup {{}}] /\ count \in 0..MaxRequests /\ count < MaxRequests
  BY <1>2 DEF Begin, LedgerInv, TypeOK
<1>4. q \in Requests
  BY <1>1, <1>3, Numbers
<1>5. /\ asked' \in [Requests -> AccountMaps \cup {{}}] /\ asked'[q] = map
      /\ \A r \in Requests \ {q} : asked'[r] = asked[r]
  BY <1>2, <1>3, <1>4
<1>6. map # {}
  BY LedgerAssumption
<1> QED BY <1>1, <1>2, <1>5, <1>6, LedgerAssumption, BeginStep

\* A sync of NetSuite.
LEMMA BeginSyncOK ==
  ASSUME LedgerInv, NEW c \in Sessions, Begin(c, "netsuite-sync", "mark", <<>>), asked' = asked
  PROVE  LedgerInv'
<1>1. PICK q : q = count + 1
  OBVIOUS
<1>2. asked \in [Requests -> AccountMaps \cup {{}}] /\ count \in 0..MaxRequests /\ count < MaxRequests
  BY DEF Begin, LedgerInv, TypeOK
<1>3. asked'[q] = {}
  BY <1>1, <1>2, Numbers DEF LedgerInv, RequestsSound
<1>4. <<>> \in Seq(Journals)
  OBVIOUS
<1> QED BY <1>1, <1>2, <1>3, <1>4, BeginStep

-----------------------------------------------------------------------------
(* The theorems. *)

\* Before the first request nothing is made, recorded, issued or read.
LEMMA LedgerInit == Init => LedgerInv
<1> SUFFICES ASSUME Init PROVE LedgerInv
  OBVIOUS
<1>1. TypeOK
  <2>1. 0 \in Tokens /\ 0 \in 0..Len(XeroReports) /\ 1 \in Versions /\ 0 \in 0..MaxRequests
    BY Numbers
  <2>2. posted \in [Requests -> [Journals -> Nat]]
    BY DEF Init
  <2>3. tx \in [Sessions -> Transactions] /\ \A c \in Sessions : tx[c].phase # "refresh"
    BY NoTxTyped DEF Init
  <2>4. \A a \in Accounts : tb[a] = NoBalance
    BY DEF Init
  <2>5. asked \in [Requests -> AccountMaps \cup {{}}]
    BY DEF Init
  <2> QED BY <2>1, <2>2, <2>3, <2>4, <2>5 DEF Init, TypeOK
<1>2. \A c \in Sessions : tx[c] = NoTx
  BY DEF Init
<1>3. \A r \in Requests : Made(r) = {}
  BY DEF Init, Made
<1>4. RequestsSound
  BY <1>2, <1>3, NoTxTyped DEF Init, RequestsSound, Idle
<1>5. TokensBounded
  <2>1. Unrefreshed = {}
    BY DEF Init, Unrefreshed
  <2> QED BY <2>1, FS_EmptySet DEF Init, TokensBounded
<1>6. TokensSound /\ TokenLossExplained
  BY <1>2, NoTxTyped DEF Init, TokensSound, TokenLossExplained
<1>7. NoJournalTwice
  BY DEF Init, NoJournalTwice
<1>8. \A c \in Sessions : PushSound(c)
  BY <1>2, NoTxTyped DEF PushSound
<1>9. JournalsSound
  BY <1>3 DEF Init, JournalsSound
<1>10. TableSound
  BY DEF Init, TableSound
<1> QED BY <1>1, <1>4, <1>5, <1>6, <1>7, <1>8, <1>9, <1>10 DEF LedgerInv

\* Every step keeps the invariant.
LEMMA LedgerStep == LedgerInv /\ [Next]_vars => LedgerInv'
<1> SUFFICES ASSUME LedgerInv, [Next]_vars PROVE LedgerInv'
  OBVIOUS
<1>1. CASE Expire \/ Book
  BY <1>1, LedgerAlone
<1>2. ASSUME NEW c \in Sessions, NEW op \in {"sync", "xero"}, BeginWithToken(c, op) PROVE LedgerInv'
  BY <1>2, BeginWithTokenOK
<1>3. ASSUME NEW c \in Sessions, NEW map \in AccountMaps, BeginNetSuite(c, map) PROVE LedgerInv'
  BY <1>3, BeginNetSuiteOK
<1>4. ASSUME NEW c \in Sessions, Begin(c, "netsuite-sync", "mark", <<>>), asked' = asked PROVE LedgerInv'
  BY <1>4, BeginSyncOK
<1>5. ASSUME NEW c \in Sessions, Work(c) PROVE LedgerInv'
  <2>1. CASE Refresh(c) \/ StoreToken(c) \/ Fetch(c) \/ UpsertEntity(c) \/ MarkSyncing(c)
    BY <2>1, RefreshOK, StoreTokenOK, FetchOK, UpsertEntityOK, MarkSyncingOK
  <2>2. CASE SkipUnmapped(c) \/ PostCreated(c)
    BY <2>2, SkipUnmappedOK, PostCreatedOK
  <2>3. CASE CommitSync(c) \/ CommitPush(c)
    BY <2>3, CommitSyncOK, CommitPushOK
  <2>4. CASE SyncNotFound(c) \/ PostUnbalanced(c)
    BY <2>4, FailOK DEF SyncNotFound, PostUnbalanced
  <2> QED BY <1>5, <2>1, <2>2, <2>3, <2>4 DEF Work
<1>6. ASSUME NEW c \in Sessions, PostUnauthorised(c) \/ PostLost(c) PROVE LedgerInv'
  BY <1>6, PostUnauthorisedOK, PostLostOK
<1>7. ASSUME NEW c \in Sessions, TokenRefused(c) \/ Fail(c) \/ BreakDeadlock(c) PROVE LedgerInv'
  BY <1>7, FailOK DEF TokenRefused, BreakDeadlock
<1>8. CASE UNCHANGED vars
  <2>1. UNCHANGED <<brand, ledger, connection, outcome, asked, count, tx>>
    BY <1>8 DEF vars
  <2>2. UNCHANGED <<brand, latest, expired, books, posted, connection, outcome, asked, count, tx>>
    BY <2>1 DEF ledger
  <2>3. TypeOK'
    BY <2>2 DEF LedgerInv, TypeOK, connection, outcome
  <2> QED BY <2>2, <2>3, NobodyMoves
<1> QED BY <1>1, <1>2, <1>3, <1>4, <1>5, <1>6, <1>7, <1>8 DEF Next

\* The invariant of the connectors' transactions holds in every reachable state.
THEOREM LedgerInvariance == Spec => []LedgerInv
BY LedgerInit, LedgerStep, PTL DEF Spec

\* Every reachable state is well-typed: no request refreshes twice, and the tokens
\* issued (refreshTokens, refreshQboTokens) are never more than the requests.
THEOREM LedgerTypeCorrect == Spec => []TypeOK
<1>1. LedgerInv => TypeOK
  BY DEF LedgerInv
<1> QED BY <1>1, LedgerInvariance, PTL

\* No request creates a journal twice: the post that Xero refused is sent again, one
\* without an answer is not (POST /push-journals, POST /post-journal-entry).
THEOREM JournalsPostedOnce == Spec => []NoJournalTwice
<1>1. LedgerInv => NoJournalTwice
  BY DEF LedgerInv
<1> QED BY <1>1, LedgerInvariance, PTL

\* What is recorded of a push is what the ledger has, what is not recorded has failed
\* or is running, and the balances are those of the report last imported.
THEOREM RecordsMatchTheLedger == Spec => []RecordMatchesLedger
<1>1. LedgerInv => RecordMatchesLedger
  <2> SUFFICES ASSUME LedgerInv PROVE RecordMatchesLedger
    OBVIOUS
  <2>1. TypeOK /\ JournalsSound /\ TableSound
    BY DEF LedgerInv
  <2>2. ASSUME NEW r \in Requests
        PROVE  LET made == {j \in Journals : posted[r][j] > 0}
               IN /\ r \in recorded =>
                       made = IF asked[r] = {} THEN Range(XeroPosts) ELSE NetSuiteEntries(asked[r])
                  /\ made # {} /\ r \notin recorded => r \in failed \/ \E c \in Sessions : tx[c].req = r
                  /\ asked[r] # {} => \A j \in made : Balances(MappedLines(j, asked[r]))
    BY <2>1 DEF JournalsSound, Made, Sends
  <2> QED BY <2>1, <2>2 DEF RecordMatchesLedger, TableSound
<1> QED BY <1>1, LedgerInvariance, PTL

\* The connection has lost its token only with a failed request, or is about to be
\* given one by a running one (storeRefreshed and the transaction around it).
THEOREM TokenLossesExplained == Spec => []TokenLossExplained
<1>1. LedgerInv => TokenLossExplained
  BY DEF LedgerInv
<1> QED BY <1>1, LedgerInvariance, PTL

=============================================================================
