-------------------------- MODULE LedgerConnector --------------------------
(***************************************************************************)
(* The connectors to accounting ledgers (apps/api/src/modules/integrations *)
(* and netsuite).  A sync of Xero or QuickBooks reads the connection,      *)
(* refreshes its token if that has run out, fetches the trial balance and  *)
(* stores it; a push posts a result's journals to Xero or NetSuite and     *)
(* records that it did.  Each request is one database transaction around   *)
(* several remote calls: what the ledger has accepted stays when the       *)
(* transaction is rolled back.                                             *)
(*                                                                         *)
(* Tokens are numbered in the order the ledger issues them.  A refresh     *)
(* token is good for one refresh.  Reports are numbered as the books       *)
(* change.  All requests are of one result, one connection to NetSuite and *)
(* one to Xero or QuickBooks, with one entity and period.                  *)
(*                                                                         *)
(* The database's role is the one the migrations intend, which sees no row *)
(* of a tenant outside a transaction of that tenant.                       *)
(***************************************************************************)
EXTENDS Integers, Sequences, FiniteSets, SequencesExt

CONSTANTS
  Sessions,     \* connections to the database
  Accounts,
  NoAccount,    \* a row of a report that names no account
  NoBalance,    \* an account without a row in trial_balance
  Unreadable,   \* an amount that is no number
  Journals,     \* the journals of the result
  JournalLines, \* the lines of each journal: account, and debit or -credit
  XeroPosts,    \* how a push to Xero posts them: all lines in one journal
  NetSuitePosts,\* how a push to NetSuite posts them: one by one
  AccountMaps,  \* which accounts of the lines a request maps to NetSuite's
  XeroReports,  \* the report of each version of the books, as Xero gives it
  QboReports,   \* and as QuickBooks does
  MaxRequests   \* bound: requests

ASSUME LedgerAssumption ==
  /\ XeroPosts \in Seq(Journals) /\ IsInjective(XeroPosts)
  /\ NetSuitePosts \in Seq(Journals) /\ IsInjective(NetSuitePosts)
  /\ DOMAIN JournalLines = Journals
  /\ Len(XeroReports) = Len(QboReports) /\ Len(QboReports) \in Nat \ {0}
  /\ {} \notin AccountMaps
  /\ MaxRequests \in Nat

Requests == 1..MaxRequests
Tokens   == 0..MaxRequests   \* a request is issued one at most
Versions == 1..Len(XeroReports)

VARIABLES
  brand,     \* whose connection it is: "xero" or "qbo"
  latest,    \* the ledger: the newest token issued
  expired,   \* the ledger: the tokens whose access has run out
  books,     \* the ledger: the version of the books
  posted,    \* the ledger: how often each request's journals were created
  stored,    \* the connection: its token
  synced,    \* the connection: the report of the last sync, 0 before
  tb,        \* trial_balance: the balance of each account
  recorded,  \* provision_events and audit: the requests whose push is recorded
  asked,     \* the accounts each push to NetSuite has mapped
  failed,    \* the requests that ended with an error
  dropped,   \* the tokens that failed requests had been issued
  count,     \* requests so far
  tx         \* what each session's transaction is doing

ledger     == <<latest, expired, books, posted>>
connection == <<stored, synced, tb>>
outcome    == <<recorded, failed, dropped>>
vars       == <<brand, ledger, connection, outcome, asked, count, tx>>

NoTx == [op |-> "none", phase |-> "none", req |-> 0, token |-> 0, refreshed |-> FALSE,
         holds |-> {}, report |-> 0, todo |-> <<>>]

Idle(c)  == tx[c] = NoTx
End(c)   == tx' = [tx EXCEPT ![c] = NoTx]
Free(r)  == \A c \in Sessions : r \notin tx[c].holds
Go(c, p) == [tx EXCEPT ![c].phase = p]

-----------------------------------------------------------------------------
(* The reports.  Each line is an account with a balance. *)

\* parseSigned, parseQboValue: what cannot be read counts as nothing.
Amount(field) == IF field = Unreadable THEN 0 ELSE field

Line(row, debit, credit) == [account |-> row.account, balance |-> Amount(debit) - Amount(credit)]

\* parseTrialBalanceRows: the rows of the sections and those outside; totals and
\* headers have another type.  A row without an account code is not imported.
XeroLines(report) ==
  LET flat == FlattenSeq([i \in DOMAIN report |->
                IF report[i].type = "Section" THEN report[i].rows ELSE <<report[i]>>])
      rows == SelectSeq(flat, LAMBDA row : row.type = "Row" /\ row.account # NoAccount)
  IN  [i \in DOMAIN rows |-> Line(rows[i], rows[i].debit, rows[i].credit)]

\* parseQboReport: the columns are found by their titles; without both there are no
\* lines.  A sub-account is imported as the account that heads its name.
QboLines(report) ==
  LET at(title) == CHOOSE i \in DOMAIN report.columns : report.columns[i] = title
      rows      == SelectSeq(report.rows, LAMBDA row : row.type = "Data" /\ row.account # NoAccount)
  IN  IF \E title \in {"Debit", "Credit"} : ~Contains(report.columns, title) THEN <<>>
      ELSE [i \in DOMAIN rows |-> Line(rows[i], rows[i].cells[at("Debit")], rows[i].cells[at("Credit")])]

Lines == [xero |-> [v \in Versions |-> XeroLines(XeroReports[v])],
          qbo  |-> [v \in Versions |-> QboLines(QboReports[v])]]

\* What is left of a report is amounts of accounts.
ASSUME ReportsAssumption ==
  \A b \in {"xero", "qbo"}, v \in Versions : Lines[b][v] \in Seq([account : Accounts, balance : Int])

\* Each line is written over what its account has: of two, the later one stays.
Imported(lines) ==
  [a \in {lines[i].account : i \in DOMAIN lines} |->
     lines[CHOOSE i \in DOMAIN lines : /\ lines[i].account = a
                                       /\ \A j \in i + 1 .. Len(lines) : lines[j].account # a].balance]

-----------------------------------------------------------------------------
(* The journals a push sends. *)

\* postJournalEntry, before it asks the ledger: debits are credits.
Balances(lines) == FoldLeft(LAMBDA sum, line : sum + line.amount, 0, lines) = 0

\* A line whose account is not mapped is left out of the journal.
MappedLines(journal, map) == SelectSeq(JournalLines[journal], LAMBDA line : line.account \in map)

\* The journals with lines that are mapped; the others are not posted.
NetSuiteEntries(map) == {journal \in Range(NetSuitePosts) : MappedLines(journal, map) # <<>>}

-----------------------------------------------------------------------------
(* The ledger by itself. *)

\* Half an hour passes.
Expire == latest \notin expired /\ expired' = expired \cup {latest}
          /\ UNCHANGED <<brand, latest, books, posted, connection, outcome, asked, count, tx>>

\* Somebody books something.
Book == books < Len(XeroReports) /\ books' = books + 1
        /\ UNCHANGED <<brand, latest, expired, posted, connection, outcome, asked, count, tx>>

-----------------------------------------------------------------------------
(* Every request. *)

\* The connection is read, without a lock.
Begin(c, op, phase, posts) ==
  /\ Idle(c) /\ count < MaxRequests
  /\ count' = count + 1
  /\ tx' = [tx EXCEPT ![c] = [NoTx EXCEPT !.op = op, !.req = count + 1, !.token = stored,
              !.phase = phase, !.todo = posts]]
  /\ UNCHANGED <<brand, ledger, connection, outcome>>

\* A sync of Xero or QuickBooks, or a push to Xero: a token that has run out is
\* refreshed first.
BeginWithToken(c, op) ==
  /\ op = "xero" => brand = "xero"
  /\ Begin(c, op, IF stored \in expired THEN "refresh" ELSE "call", IF op = "xero" THEN XeroPosts ELSE <<>>)
  /\ UNCHANGED asked

\* A push to NetSuite, signed with fixed keys; it is refused if no line is mapped.
BeginNetSuite(c, map) ==
  /\ NetSuiteEntries(map) # {}
  /\ Begin(c, "netsuite", "call", NetSuitePosts)
  /\ asked' = [asked EXCEPT ![count + 1] = map]

\* refreshTokens: the ledger takes the refresh token and issues the next.
Refresh(c) ==
  /\ tx[c].phase = "refresh" /\ tx[c].token = latest
  /\ latest' = latest + 1
  /\ tx' = [tx EXCEPT ![c].phase = "store", ![c].token = latest + 1, ![c].refreshed = TRUE]
  /\ UNCHANGED <<brand, expired, books, posted, connection, outcome, asked, count>>

\* The connection's row is updated and stays locked to the end.
StoreToken(c) ==
  /\ tx[c].phase = "store" /\ Free("connection")
  /\ tx' = [tx EXCEPT ![c].phase = "call", ![c].holds = @ \cup {"connection"}]
  /\ UNCHANGED <<brand, ledger, connection, outcome, asked, count>>

\* Wrong on purpose: a transaction that fails keeps nothing of the token either way.
ForgetsToken(c) == stored

\* The token the connection has when the request commits.
TokenKept(c) == IF tx[c].refreshed THEN tx[c].token ELSE stored

\* An error, a refused token or a crash: the transaction is rolled back.
Fail(c) ==
  /\ ~Idle(c) /\ End(c)
  /\ failed' = failed \cup {tx[c].req}
  /\ dropped' = IF tx[c].refreshed THEN dropped \cup {tx[c].token} ELSE dropped
  /\ UNCHANGED <<brand, ledger, connection, recorded, asked, count>>

-----------------------------------------------------------------------------
(* POST /connections/:id/sync of Xero and QuickBooks. *)

Syncing(c, p) == tx[c].op = "sync" /\ tx[c].phase = p

\* fetchTrialBalance.
Fetch(c) ==
  /\ Syncing(c, "call")
  /\ tx' = [tx EXCEPT ![c].phase = "entity", ![c].report = books]
  /\ UNCHANGED <<brand, ledger, connection, outcome, asked, count>>

\* The entity's upsert locks its row: syncs of one organisation import in turn.
UpsertEntity(c) ==
  /\ Syncing(c, "entity") /\ Free("entity")
  /\ tx' = [tx EXCEPT ![c].phase = "stamp", ![c].holds = @ \cup {"entity"}]
  /\ UNCHANGED <<brand, ledger, connection, outcome, asked, count>>

\* The rows the sync writes: one per line of the report, over those there are.
RowsWritten(c) == Imported(Lines[brand][tx[c].report])

\* Having written the rows the sync stamps the connection and commits.  Rows of
\* accounts that the report no longer has stay.
CommitSync(c) ==
  /\ Syncing(c, "stamp") /\ \A d \in Sessions \ {c} : "connection" \notin tx[d].holds
  /\ tb' = [a \in Accounts |-> IF a \in DOMAIN RowsWritten(c) THEN RowsWritten(c)[a] ELSE tb[a]]
  /\ synced' = tx[c].report
  /\ stored' = TokenKept(c)
  /\ End(c)
  /\ UNCHANGED <<brand, ledger, outcome, asked, count>>

\* A sync that has refreshed holds the connection and waits for the entity; one that
\* has not holds the entity and waits for the connection.
Deadlocked(c, d) ==
  /\ Syncing(c, "entity") /\ "connection" \in tx[c].holds
  /\ Syncing(d, "stamp") /\ "entity" \in tx[d].holds

\* PostgreSQL aborts one of the two.
BreakDeadlock(c) == (\E d \in Sessions : Deadlocked(c, d) \/ Deadlocked(d, c)) /\ Fail(c)

-----------------------------------------------------------------------------
(* POST /connections/:id/sync of NetSuite. *)

\* The route marks its connection, whose row stays locked.
MarkSyncing(c) ==
  /\ tx[c].op = "netsuite-sync" /\ tx[c].phase = "mark" /\ Free("netsuite")
  /\ tx' = [tx EXCEPT ![c].phase = "lookup", ![c].holds = {"netsuite"}]
  /\ UNCHANGED <<brand, ledger, connection, outcome, asked, count>>

\* syncNetSuite looks the connection up outside the transaction, where the tenant's
\* rows are not to be seen: not found.  The mark of the error is rolled back as well.
SyncNotFound(c) == tx[c].op = "netsuite-sync" /\ tx[c].phase = "lookup" /\ Fail(c)

-----------------------------------------------------------------------------
(* POST /push-journals/:runId of Xero, POST /post-journal-entry of NetSuite. *)

Posting(c) == tx[c].op \in {"xero", "netsuite"} /\ tx[c].phase = "call" /\ tx[c].todo # <<>>
Created(c) == [posted EXCEPT ![tx[c].req][Head(tx[c].todo)] = @ + 1]

\* The push to NetSuite passes over a journal that is not mapped.
Unmapped(c) == tx[c].op = "netsuite" /\ Head(tx[c].todo) \notin NetSuiteEntries(asked[tx[c].req])

SkipUnmapped(c) ==
  /\ Posting(c) /\ Unmapped(c)
  /\ tx' = [tx EXCEPT ![c].todo = Tail(@)]
  /\ UNCHANGED <<brand, ledger, connection, outcome, asked, count>>

\* To NetSuite goes what is mapped of the journal, if it balances.
Balanced(c) ==
  tx[c].op = "netsuite" => Balances(MappedLines(Head(tx[c].todo), asked[tx[c].req]))

Sendable(c) == ~Unmapped(c) /\ Balanced(c)

\* Otherwise the request fails, after the journals before this one were posted.
PostUnbalanced(c) == Posting(c) /\ ~Unmapped(c) /\ ~Balanced(c) /\ Fail(c)

\* The ledger creates the journal and says so.
PostCreated(c) ==
  /\ Posting(c) /\ Sendable(c)
  /\ posted' = Created(c)
  /\ tx' = [tx EXCEPT ![c].todo = Tail(@)]
  /\ UNCHANGED <<brand, latest, expired, books, connection, outcome, asked, count>>

\* Xero does not accept the access token: once, the push refreshes it and posts again.
PostUnauthorised(c) ==
  /\ Posting(c) /\ tx[c].op = "xero" /\ ~tx[c].refreshed
  /\ tx' = Go(c, "refresh")
  /\ UNCHANGED <<brand, ledger, connection, outcome, asked, count>>

\* Wrong on purpose: a post without an answer is sent again.
PostLostRetried(c) ==
  /\ Posting(c) /\ Sendable(c)
  /\ posted' = Created(c)
  /\ UNCHANGED <<brand, latest, expired, books, connection, outcome, asked, count, tx>>

\* The ledger creates the journal and its answer is lost: the request fails.
PostLost(c) ==
  /\ Posting(c) /\ Sendable(c)
  /\ posted' = Created(c)
  /\ failed' = failed \cup {tx[c].req}
  /\ dropped' = IF tx[c].refreshed THEN dropped \cup {tx[c].token} ELSE dropped
  /\ End(c)
  /\ UNCHANGED <<brand, latest, expired, books, connection, recorded, asked, count>>

\* Wrong on purpose: recorded as soon as something has been posted.
AnyPosted(c) == \E j \in Journals : posted[tx[c].req][j] > 0

\* Every journal has been posted.
AllPosted(c) == tx[c].todo = <<>>

\* The push is recorded and the transaction commits.
CommitPush(c) ==
  /\ tx[c].op \in {"xero", "netsuite"} /\ tx[c].phase = "call" /\ AllPosted(c)
  /\ recorded' = recorded \cup {tx[c].req}
  /\ stored' = TokenKept(c)
  /\ End(c)
  /\ UNCHANGED <<brand, ledger, synced, tb, failed, dropped, asked, count>>

-----------------------------------------------------------------------------
Init ==
  /\ brand \in {"xero", "qbo"}
  /\ latest = 0 /\ expired = {} /\ books = 1
  /\ posted = [r \in Requests |-> [j \in Journals |-> 0]]
  /\ stored = 0 /\ synced = 0 /\ tb = [a \in Accounts |-> NoBalance]
  /\ recorded = {} /\ failed = {} /\ dropped = {}
  /\ asked = [r \in Requests |-> {}]
  /\ count = 0
  /\ tx = [c \in Sessions |-> NoTx]

\* What a handler does by itself once the ledger answers.
Work(c) ==
  \/ Refresh(c) \/ StoreToken(c)
  \/ Fetch(c) \/ UpsertEntity(c) \/ CommitSync(c)
  \/ MarkSyncing(c) \/ SyncNotFound(c)
  \/ SkipUnmapped(c) \/ PostCreated(c) \/ PostUnbalanced(c) \/ CommitPush(c)

\* Wrong on purpose: a refused token is sent again and again.
TokenResent(c) == tx[c].phase = "refresh" /\ tx[c].token # latest /\ UNCHANGED vars

\* The ledger refuses a token that has been used, and the request fails.
TokenRefused(c) == tx[c].phase = "refresh" /\ tx[c].token # latest /\ Fail(c)

Next ==
  \/ Expire \/ Book
  \/ \E c \in Sessions :
       \/ \E op \in {"sync", "xero"} : BeginWithToken(c, op)
       \/ \E map \in AccountMaps : BeginNetSuite(c, map)
       \/ Begin(c, "netsuite-sync", "mark", <<>>) /\ UNCHANGED asked
  \/ \E c \in Sessions :
       Work(c) \/ PostUnauthorised(c) \/ PostLost(c) \/ TokenRefused(c) \/ Fail(c) \/ BreakDeadlock(c)

Spec == Init /\ [][Next]_vars

\* A ledger answers in the end (it may say "busy" before, as often as it likes but not
\* for ever), handlers go on, and the database breaks a deadlock.
Fairness == \A c \in Sessions :
  WF_vars(Work(c)) /\ WF_vars(TokenRefused(c)) /\ WF_vars(BreakDeadlock(c))

FairSpec == Spec /\ Fairness

-----------------------------------------------------------------------------
(* Properties. *)

\* What a transaction can be.
Transactions ==
  [op : {"none", "sync", "xero", "netsuite", "netsuite-sync"},
   phase : {"none", "refresh", "store", "call", "entity", "stamp", "mark", "lookup"},
   req : 0..MaxRequests, token : Tokens, refreshed : BOOLEAN,
   holds : SUBSET {"connection", "entity", "netsuite"},
   report : 0..Len(XeroReports), todo : Seq(Journals)]

\* Every variable has its type, and no request is about to refresh a second time.
TypeOK ==
  /\ brand \in {"xero", "qbo"}
  /\ latest \in Tokens /\ expired \subseteq Tokens /\ books \in Versions
  /\ posted \in [Requests -> [Journals -> Nat]]
  /\ stored \in Tokens /\ synced \in 0..Len(XeroReports)
  /\ \A a \in Accounts : tb[a] # NoBalance => tb[a] \in Int
  /\ recorded \subseteq Requests /\ failed \subseteq Requests /\ dropped \subseteq Tokens
  /\ asked \in [Requests -> AccountMaps \cup {{}}]
  /\ count \in 0..MaxRequests
  /\ tx \in [Sessions -> Transactions]
  /\ \A c \in Sessions : tx[c].phase = "refresh" => ~tx[c].refreshed

\* No request creates a journal twice, whatever was refused and sent again.
NoJournalTwice == \A r \in Requests, j \in Journals : posted[r][j] <= 1

\* A push that is recorded has created Xero's journal, or each of NetSuite's that its
\* map reaches, and one that has created any and is not recorded failed or is still
\* running.  What NetSuite was sent balances, whatever the map leaves out.  The rows
\* of the accounts that the last sync reported are of that report.
RecordMatchesLedger ==
  /\ TypeOK
  /\ \A r \in Requests :
       LET made == {j \in Journals : posted[r][j] > 0}
       IN /\ r \in recorded =>
               made = IF asked[r] = {} THEN Range(XeroPosts) ELSE NetSuiteEntries(asked[r])
          /\ made # {} /\ r \notin recorded => r \in failed \/ \E c \in Sessions : tx[c].req = r
          /\ asked[r] # {} => \A j \in made : Balances(MappedLines(j, asked[r]))
  /\ synced > 0 =>
       LET lines == Lines[brand][synced]
       IN  \A i \in DOMAIN lines :
             \E k \in DOMAIN lines :
               lines[k].account = lines[i].account /\ tb[lines[i].account] = lines[k].balance

\* The connection has the newest token, unless a running request was just issued it or
\* a failed request took it with it.
TokenLossExplained ==
  \/ stored = latest
  \/ latest \in dropped
  \/ \E c \in Sessions : tx[c].refreshed /\ tx[c].token = latest

\* Every request ends.
RequestsEnd == \A c \in Sessions : ~Idle(c) ~> Idle(c)

=============================================================================
