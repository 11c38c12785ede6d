---------------------------- MODULE IntakeBatch ----------------------------
(***************************************************************************)
(* The intake of trial balances (apps/api/src/modules/intake).  A file is  *)
(* uploaded as a batch, its rows are validated, and committing the batch   *)
(* writes its rows to trial_balance and supersedes the batch committed     *)
(* before it.  Two gates stand before the commit: a file whose signs are   *)
(* inverted must be confirmed by a reviewer, and one whose opening         *)
(* balances disagree with the last locked run must have them resolved.     *)
(* Suggestions and adjustments are decided beside it.                      *)
(*                                                                         *)
(* All batches are of one entity and period, whatever entities their rows  *)
(* name.  No handler locks a batch: each reads its status, decides, and    *)
(* writes without looking again.  A commit has the locks of the entity and *)
(* account rows it upserts, so two that share one do not interleave.  It   *)
(* upserts trial_balance and deletes nothing: rows of a superseded batch   *)
(* that the new one does not name stay.  What a handler has written is     *)
(* gone when it ends with an error.                                        *)
(***************************************************************************)
EXTENDS Spreadsheet, TaxMemory

CONSTANTS
  Batches,   \* ids of import batches
  NoBatch,
  Files,     \* files that can be uploaded
  NoFile,
  Content,   \* what each file holds, see ContentType
  Sheets,    \* sheets of workbooks
  ColumnMaps,\* column maps that are sent for them
  Memories,  \* precedents of other decisions, newest first
  Owner,     \* the entity of the batches and its group
  Period,    \* their period
  Prior,     \* the accounts of the prior run with their closing balances
  Suggestions, Adjustments, \* ids of mapping suggestions and of tax adjustments
  Sessions,  \* connections serving requests
  MaxItems   \* bound on the sign-convention items of a batch

Sources  == {"csv", "xlsx"}
Subjects == Suggestions \cup Adjustments

Fields  == Int \cup {Blank, Unreadable}
RowType == [entity : STRING, id : STRING, name : Names, type : AccountTypes \cup {Blank, "Other"},
            date : {"valid", "missing", "malformed", "outside"}, currency : {"GBP", "other"},
            debit : Fields, credit : Fields, balance : Fields]
ContentType == [source : Sources, rows : Seq(RowType)]

ASSUME IntakeAssumption ==
  /\ Content \in [Files -> ContentType]
  /\ \A p \in DOMAIN Prior : Prior[p].type \in AccountTypes /\ Prior[p].balance \in Int
  /\ NoBatch \notin Batches /\ NoFile \notin Files
  /\ IsFiniteSet(Sessions)
  /\ MaxItems \in Nat

\* A sheet is a sequence of rows of cells.
ASSUME SheetAssumption ==
  \A sheet \in Sheets : /\ sheet.rows \in Seq(ToSet(sheet.rows))
                        /\ \A row \in ToSet(sheet.rows) : row \in Seq(ToSet(row))

ASSUME MemoryAssumption ==
  /\ \A memory \in Memories : /\ memory \in Seq(ToSet(memory)) /\ NewestFirst(memory)
                              /\ \A p \in ToSet(memory) : IsPrecedent(p)
  /\ Period.start \in Int /\ Period.end \in Int /\ Period.start <= Period.end

VARIABLES
  batch,     \* import_batches with their rows
  items,     \* per batch, its SIGN_CONVENTION_INVERTED items, oldest first
  warnings,  \* per batch, its warning items: none, some open, or all closed
  live,      \* trial_balance: per source and place, the batch written last, and if inverted
  prior,     \* whether the entity has a locked run of an earlier period
  subject,   \* mapping_suggestions and tax_adjustments, by id
  tx         \* what each session's handler has read

vars == <<batch, items, warnings, live, prior, subject, tx>>

NoRow  == [file |-> NoFile, status |-> "none", rows |-> "none", flipped |-> FALSE, by |-> NoBatch]
NoLive == [batch |-> NoBatch, flipped |-> FALSE]
NoSubject == [status |-> "none", feedback |-> 0, taught |-> FALSE]
NoTx   == [op |-> "none", target |-> NoBatch, file |-> NoFile, item |-> 0,
          flip |-> FALSE, warn |-> FALSE, seen |-> {}]

Stored       == {b \in Batches : batch[b] # NoRow}
IsIdle(c)    == tx[c] = NoTx
End(c)       == tx' = [tx EXCEPT ![c] = NoTx]
Begin(c, op) == IsIdle(c) /\ tx' = [tx EXCEPT ![c] = op]

\* The rows of a file that can be committed, as they came and inverted.
Sendable == [f \in Files |-> [flipped \in BOOLEAN |->
               LET rows == Committable(Content[f].rows) IN IF flipped THEN Invert(rows) ELSE rows]]
\* What the gates compute from them.
SignOf   == [f \in Files |-> [flipped \in BOOLEAN |-> DetectSignConvention(Sendable[f][flipped])]]
BridgeOf == [f \in Files |-> [flipped \in BOOLEAN |-> DiffPriorPeriod(Prior, Sendable[f][flipped])]]
Failing  == [f \in Files |-> ErrorCount(Content[f].rows)]
RowCount == [f \in Files |-> Len(Content[f].rows)]
SourceOf == [f \in Files |-> Content[f].source]

\* Where the rows of a file go: the key of trial_balance beside the source and the date
\* of the row, which is one for all rows here.
Place(row) == [entity |-> row.entity, account |-> row.id]
PlacesOf == [f \in Files |-> {Place(row) : row \in ToSet(Sendable[f][FALSE])}]
Places   == UNION {PlacesOf[f] : f \in Files}

\* The entity and account rows that two files both upsert.
Disjoint(f, g) ==
  \A p \in PlacesOf[f], q \in PlacesOf[g] : p.entity # q.entity /\ p.account # q.account

Sign(b)   == SignOf[batch[b].file][batch[b].flipped]
Source(b) == SourceOf[batch[b].file]
Empty(b)  == Sendable[batch[b].file][FALSE] = <<>>

-----------------------------------------------------------------------------
(* Upload and validation. *)

\* uq_import_batches_idempotency: the second insert of a file fails.
Taken(f) == \E b \in Stored : batch[b].file = f

\* POST /batches (a CSV) and POST /batches/:uploadId/column-map (an XLSX): the
\* handler reads that the file has no batch yet; otherwise it answers with that one.
BeginUpload(c, f) ==
  /\ \A b \in Stored : batch[b].file # f
  /\ Begin(c, [NoTx EXCEPT !.op = SourceOf[f], !.file = f])
  /\ UNCHANGED <<batch, items, warnings, live, prior, subject>>

\* The batch and its rows are inserted.
Store(f, status) ==
  /\ ~Taken(f)
  /\ \E b \in Batches \ Stored :
       batch' = [batch EXCEPT ![b] = [NoRow EXCEPT !.file = f, !.status = status,
                                        !.rows = "checked"]]

\* A CSV has failed when every row has errors, also when there is no row.
CommitUpload(c) ==
  LET f == tx[c].file IN
  /\ tx[c].op = "csv"
  /\ Store(f, IF Failing[f] = RowCount[f] THEN "failed" ELSE "ready_for_review")
  /\ End(c)
  /\ UNCHANGED <<items, warnings, live, prior, subject>>

\* An XLSX without rows is ready.
CommitColumnMap(c) ==
  LET f == tx[c].file IN
  /\ tx[c].op = "xlsx"
  /\ Store(f, IF Failing[f] = RowCount[f] /\ Failing[f] > 0 THEN "failed" ELSE "ready_for_review")
  /\ End(c)
  /\ UNCHANGED <<items, warnings, live, prior, subject>>

\* POST /batches/:id/validate and /fail, up to the check of the status.
BeginChange(c, b, op) ==
  /\ b \in Stored /\ op \in {"validate", "fail"} /\ batch[b].status # "committed"
  /\ Begin(c, [NoTx EXCEPT !.op = op, !.target = b])
  /\ UNCHANGED <<batch, items, warnings, live, prior, subject>>

\* Every row gets its status again, from the raw row; its amounts stay.
CommitValidate(c) ==
  LET b == tx[c].target IN
  /\ tx[c].op = "validate"
  /\ batch' = [batch EXCEPT
       ![b].status = IF Failing[batch[b].file] = RowCount[batch[b].file] THEN "failed" ELSE "ready_for_review",
       ![b].rows = "checked"]
  /\ End(c)
  /\ UNCHANGED <<items, warnings, live, prior, subject>>

CommitFail(c) ==
  /\ tx[c].op = "fail"
  /\ batch' = [batch EXCEPT ![tx[c].target].status = "failed"]
  /\ End(c)
  /\ UNCHANGED <<items, warnings, live, prior, subject>>

-----------------------------------------------------------------------------
(* The sign-convention items. *)

\* What the handlers find in the rows they may commit: rows already committed
\* are not among them.
Inverted(b) == batch[b].rows = "checked" /\ Sign(b) = "inverted"

\* findLatestSignItem, with its decision
Confirmed(b) ==
  /\ items[b] # <<>>
  /\ LET last == items[b][Len(items[b])] IN last.status = "resolved" /\ last.decision = "confirmed"

\* findOpenSignItem: the newest open item, 0 without one
OpenItem(b) ==
  LET open == {i \in DOMAIN items[b] : items[b][i].status = "open"}
  IN  IF open = {} THEN 0 ELSE CHOOSE i \in open : \A j \in open : j <= i

\* POST .../sign-convention/confirm and /reject, up to the item they found.
BeginDecide(c, b, op) ==
  /\ b \in Stored /\ op \in {"confirmed", "rejected"}
  /\ batch[b].status # "committed" /\ Inverted(b)
  /\ OpenItem(b) # 0 \/ Len(items[b]) < MaxItems
  /\ Begin(c, [NoTx EXCEPT !.op = op, !.target = b, !.item = OpenItem(b)])
  /\ UNCHANGED <<batch, items, warnings, live, prior, subject>>

\* The item is decided; without an open one it is inserted first, unless an open
\* one has appeared.
CommitDecide(c) ==
  LET b       == tx[c].target
      at      == IF tx[c].item # 0 THEN tx[c].item ELSE OpenItem(b)
      decided == [status |-> IF tx[c].op = "confirmed" THEN "resolved" ELSE "rejected",
                  decision |-> tx[c].op]
  IN
  /\ tx[c].op \in {"confirmed", "rejected"}
  /\ at # 0 \/ Len(items[b]) < MaxItems
  /\ items' = [items EXCEPT ![b] = IF at = 0 THEN Append(@, decided) ELSE [@ EXCEPT ![at] = decided]]
  /\ End(c)
  /\ UNCHANGED <<batch, warnings, live, prior, subject>>

\* The item routes of the review module take any item: a decided one is reopened,
\* keeping the decision in its metadata, or an open one waived.
ReopenOrWaive(b, i) ==
  /\ i \in DOMAIN items[b]
  /\ items' = [items EXCEPT ![b][i].status = IF @ = "open" THEN "waived" ELSE "open"]
  /\ UNCHANGED <<batch, warnings, live, prior, subject, tx>>

ReopenWarning(b) ==
  /\ warnings[b] = "closed"
  /\ warnings' = [warnings EXCEPT ![b] = "open"]
  /\ UNCHANGED <<batch, items, live, prior, subject, tx>>

-----------------------------------------------------------------------------
(* The commit gate. *)

\* Wrong on purpose: a confirmation is applied without looking at the rows again.
CorrectsConfirmed(b) == Confirmed(b)

\* The commit multiplies every amount by -1.
Corrects(b) == Inverted(b)

\* The signs of the rows that are written.
Written(b) == batch[b].flipped # Corrects(b)

\* The bridge of the rows that would be written.
Bridge(b) == IF batch[b].rows = "checked" THEN BridgeOf[batch[b].file][Written(b)]
             ELSE DiffPriorPeriod(Prior, <<>>)

\* An opening balance differs from the close of the locked run.
Mismatch(b) == prior /\ Bridge(b).mismatches # {}

\* Mixed signs, missing and renamed accounts raise warning items, or reuse open ones.
Warns(b) ==
  \/ batch[b].rows = "checked" /\ Sign(b) = "mixed"
  \/ prior /\ Bridge(b).missing \cup Bridge(b).renames # {}

\* Status, row errors and the sign gate.
PassesGates(b) ==
  /\ b \in Stored /\ batch[b].status = "ready_for_review"
  /\ Failing[batch[b].file] = 0
  /\ Inverted(b) => Confirmed(b)

\* Wrong on purpose: a batch that was superseded once is not superseded again.
SupersededOnce(b) ==
  {d \in Stored \ {b} : batch[d].status = "committed" /\ batch[d].by = NoBatch
                          /\ Source(d) = Source(b)}

\* The committed batches of the same source, which the commit finds again at its end.
Superseded(b) ==
  {d \in Stored \ {b} : batch[d].status = "committed" /\ Source(d) = Source(b)}

\* POST /batches/:id/commit, up to the rows it is going to write.
BeginCommit(c, b) ==
  /\ PassesGates(b) /\ ~Mismatch(b)
  /\ Begin(c, [NoTx EXCEPT !.op = "commit", !.target = b,
                           !.flip = Written(b), !.warn = Warns(b), !.seen = Superseded(b)])
  /\ UNCHANGED <<batch, items, warnings, live, prior, subject>>

\* The mismatch items are inserted, the handler refuses, naming them, and the
\* refusal takes the items with it.
RefuseMismatch(c, b) ==
  /\ PassesGates(b) /\ Mismatch(b)
  /\ Begin(c, [NoTx EXCEPT !.op = "refused", !.target = b])
  /\ UNCHANGED <<batch, items, warnings, live, prior, subject>>

\* A commit waits for one whose entities or accounts it shares; it and one that it
\* overlaps and shares none with may not see each other.
MayMiss(c) ==
  {d \in Superseded(tx[c].target) \ tx[c].seen :
     Disjoint(batch[d].file, batch[tx[c].target].file)}

WriteCommit(c) ==
  LET b == tx[c].target IN
  /\ tx[c].op = "commit"
  /\ \E missed \in SUBSET MayMiss(c) :
       batch' = [d \in Batches |->
         CASE d = b -> [batch[b] EXCEPT !.status = "committed", !.rows = "committed",
                                        !.flipped = tx[c].flip]
           [] d \in Superseded(b) \ missed -> [batch[d] EXCEPT !.status = "superseded", !.by = b]
           [] OTHER -> batch[d]]
  /\ live' = [live EXCEPT ![Source(b)] = [p \in Places |->
                IF p \in PlacesOf[batch[b].file] THEN [batch |-> b, flipped |-> tx[c].flip] ELSE @[p]]]
  /\ warnings' = IF tx[c].warn THEN [warnings EXCEPT ![b] = "open"] ELSE warnings
  /\ End(c)
  /\ UNCHANGED <<items, prior, subject>>

\* POST .../bridge/items/:itemId/resolve, and the waive route: one of the open items,
\* which may be the last.
ResolveWarning(b) ==
  /\ warnings[b] = "open"
  /\ \E left \in {"open", "closed"} : warnings' = [warnings EXCEPT ![b] = left]
  /\ UNCHANGED <<batch, items, live, prior, subject, tx>>

\* The run of the prior period is locked or unlocked.
PriorRun ==
  /\ prior' = ~prior
  /\ UNCHANGED <<batch, items, warnings, live, subject, tx>>

-----------------------------------------------------------------------------
(* Suggestions and adjustments, each decided once. *)

\* POST .../suggestions/generate (for the rows that are valid) and POST /adjustments
Raise(g) ==
  /\ subject[g] = NoSubject
  /\ g \in Suggestions => \E b \in Stored : batch[b].rows = "checked" /\ ~Empty(b)
  /\ subject' = [subject EXCEPT ![g].status = "pending"]
  /\ UNCHANGED <<batch, items, warnings, live, prior, tx>>

\* To override a suggestion is to accept it changed; an adjustment is approved.
Decisions == {"accepted", "rejected"}

\* Wrong on purpose: what is decided can be decided again.
AnyStatus(g) == subject[g] # NoSubject

\* The check that it is pending.
Undecided(g) == subject[g].status = "pending"

BeginReview(c, g) ==
  /\ Undecided(g)
  /\ Begin(c, [NoTx EXCEPT !.op = "review", !.target = g])
  /\ UNCHANGED <<batch, items, warnings, live, prior, subject>>

\* Status and feedback event; a suggestion that is not rejected becomes a precedent.
CommitReview(c) ==
  LET g == tx[c].target IN
  /\ tx[c].op = "review"
  /\ \E d \in Decisions :
       subject' = [subject EXCEPT ![g].status = d, ![g].feedback = @ + 1,
                     ![g].taught = @ \/ (g \in Suggestions /\ d # "rejected")]
  /\ End(c)
  /\ UNCHANGED <<batch, items, warnings, live, prior>>

-----------------------------------------------------------------------------
\* A refusal has been answered, or there was an error or a crash: the transaction
\* leaves nothing behind.
Rollback(c) ==
  /\ ~IsIdle(c) /\ End(c)
  /\ UNCHANGED <<batch, items, warnings, live, prior, subject>>

Init ==
  /\ batch = [b \in Batches |-> NoRow]
  /\ items = [b \in Batches |-> <<>>]
  /\ warnings = [b \in Batches |-> "none"]
  /\ live = [s \in Sources |-> [p \in Places |-> NoLive]]
  /\ prior \in BOOLEAN
  /\ subject = [g \in Subjects |-> NoSubject]
  /\ tx = [c \in Sessions |-> NoTx]

HandlerStep(c) ==
  \/ CommitUpload(c) \/ CommitColumnMap(c) \/ CommitValidate(c) \/ CommitFail(c) \/ CommitDecide(c)
  \/ WriteCommit(c) \/ CommitReview(c) \/ Rollback(c)

Request(c) ==
  \/ \E f \in Files : BeginUpload(c, f)
  \/ \E b \in Batches : \/ \E op \in {"validate", "fail"} : BeginChange(c, b, op)
                        \/ \E op \in {"confirmed", "rejected"} : BeginDecide(c, b, op)
                        \/ BeginCommit(c, b) \/ RefuseMismatch(c, b)
  \/ \E g \in Subjects : BeginReview(c, g)

Next ==
  \/ \E c \in Sessions : HandlerStep(c) \/ Request(c)
  \/ \E b \in Batches : \/ \E i \in 1 .. MaxItems : ReopenOrWaive(b, i)
                        \/ ResolveWarning(b) \/ ReopenWarning(b)
  \/ \E g \in Subjects : Raise(g)
  \/ PriorRun

Spec == Init /\ [][Next]_vars

-----------------------------------------------------------------------------
(* Properties. *)

\* What a handler can have read.
Transactions ==
  [op : {"none", "csv", "xlsx", "validate", "fail", "confirmed", "rejected", "commit", "refused", "review"},
   target : Batches \cup {NoBatch} \cup Subjects, file : Files \cup {NoFile},
   item : Nat, flip : BOOLEAN, warn : BOOLEAN, seen : SUBSET Batches]

\* The rows of import_batches, and of the two tables that are decided on.
BatchRows ==
  [file : Files \cup {NoFile}, by : Batches \cup {NoBatch}, flipped : BOOLEAN,
   status : {"none", "failed", "ready_for_review", "committed", "superseded"},
   rows : {"none", "checked", "committed"}]
SubjectRows ==
  [status : {"none", "pending"} \cup Decisions, feedback : Nat, taught : BOOLEAN]
LiveRows == [batch : Batches \cup {NoBatch}, flipped : BOOLEAN]
WarningStates == {"none", "open", "closed"}
SignItems ==
  [status : {"open", "resolved", "rejected", "waived"}, decision : {"confirmed", "rejected"}]

\* Every variable has its type.
TypeOK ==
  /\ batch \in [Batches -> BatchRows]
  /\ items \in [Batches -> Seq(SignItems)]
  /\ warnings \in [Batches -> WarningStates] /\ prior \in BOOLEAN
  /\ live \in [Sources -> [Places -> LiveRows]]
  /\ subject \in [Subjects -> SubjectRows]
  /\ tx \in [Sessions -> Transactions]

\* Every row of a committed batch is what the calculation reads at its place, with
\* the signs the batch was committed with, also after a superseded batch was
\* validated and committed again and when commits overlap; only commits that share
\* neither an entity nor an account both stay in force.  It is not so that all the
\* calculation reads is of a committed batch (import-batch-link.ts: "the intake batch
\* whose rows are currently live"): rows of a superseded one that its successor does
\* not name stay.  A file has one batch, however often it is sent.
CommittedIsLive ==
  /\ TypeOK
  /\ \A b \in Stored : batch[b].status = "committed" =>
       \A p \in PlacesOf[batch[b].file] :
         live[Source(b)][p] = [batch |-> b, flipped |-> batch[b].flipped]
  /\ \A b, d \in Stored :
       b # d /\ batch[b].status = "committed" /\ batch[d].status = "committed" /\ Source(b) = Source(d) =>
         Disjoint(batch[b].file, batch[d].file)
  /\ \A b, d \in Stored : batch[b].file = batch[d].file => b = d

\* No sheet that is taken loses an amount or reads one twice, in whatever form its
\* cells are and whichever header row and columns are named; and the column map
\* remembered for it is never one that a sheet of the same layout refuses.
SheetsRead ==
  \A sheet \in Sheets, map \in ColumnMaps : \A h \in DOMAIN sheet.rows :
    Accepted(sheet, h, map) =>
      /\ AmountsKept(sheet, h, map)
      /\ \A other \in Sheets : SuggestionFits(sheet, h, map, other)

\* No row the calculation reads, of whichever batch and however long superseded, was
\* written with inverted signs, amounts that have been corrected are not inverted by
\* the batch's next commit, and rows of mixed signs are there only with a warning that
\* was raised.  Before that, every amount of a sheet is read once, with its sign.
LiveSignsCorrected ==
  /\ SheetsRead
  /\ \A s \in Sources, p \in Places : live[s][p] # NoLive =>
       LET sign == SignOf[batch[live[s][p].batch].file][live[s][p].flipped] IN
       /\ sign # "inverted"
       /\ sign = "mixed" => warnings[live[s][p].batch] # "none"

\* Every suggestion for a row of a file can be explained from the memory, and what
\* is decided on it is suggested for that row the next time in its period.
MemoryExplained ==
  \A f \in Files, memory \in Memories : \A row \in ToSet(Sendable[f][FALSE]) :
    /\ Explained(row, memory, Owner, Period.start)
    /\ Remembered(row, "PERM_RD_ADDITION", memory, Owner, Period)

\* A suggestion or adjustment is decided more than once only by requests that
\* overlap, and only so can one that ends rejected have taught the memory.  What is
\* suggested and taught can be explained.
DecisionsBounded ==
  /\ MemoryExplained
  /\ \A g \in Subjects : /\ subject[g].feedback <= Cardinality(Sessions)
                         /\ subject[g].status = "rejected" /\ subject[g].taught => subject[g].feedback > 1
=============================================================================
