# TaxPro UK — TLA+ models, checks and proofs

This directory specifies the core of TaxPro UK: how provision runs are reviewed,
signed off, locked, filed and billed; how trial balances, mappings and documents
get in; how ledgers and language models are called; and what the tax engine and
every export of a result compute. Modules are TLA+, the `.cfg` files run TLC on
small instances, the `*Proofs` modules hold TLAPS proofs for all instances.
`PROJECT.json` maps every definition to the lines it models and lists the
components, runs, mutants, hazards, findings and theorems.

Source paths below are relative to `apps/api/src/` unless they start at the root.

## 1. The system

A tenant's users prepare corporation-tax provisions. Each API request is handled
in one READ COMMITTED transaction on a pooled connection (`config/db.ts`,
`withTenantContext`), restricted to the tenant by row-level security. Some work
runs in BullMQ workers (`workers.ts`), some in language-model subagents that the
request starts and does not wait for. The parts share state only through the
database, so they interact by what their transactions read and write:

| Part | State | Operations that change it | Reads of other parts |
|---|---|---|---|
| Provision runs (`modules/provision`) | `provision_runs`, `provision_results` | run, finalize, submit, partner-approve, lock, unlock | items, proposals, periods (gates); usage (billing); mappings, trial balance |
| Workbench (`modules/workbench`) | `workbench_jobs`, runs, items, trial balance | import, create run, recalculate | proposals, period reviews, rules |
| Review (`modules/review`) | `review_items`, `review_item_events` | start, request and attach evidence, waive, reopen; resolve and bulk-resolve (in `modules/provision`) | run row (the two resolve endpoints only) |
| Handoff (`modules/handoff`) | handoff and filing columns of the run, `external_filings`, export events | handoff-ready, export, record-filing | items, proposals, documents, the audit trail |
| Documents, storage | `source_documents`, files | upload, replace | — |
| Mapping (`modules/mapping`) | `mapping_proposals`, `tax_mappings` (versioned) | propose, decide, carry forward, override; the AI worker | accounts |
| Import, upload, auto-mapping | accounts, trial balance, two queues | import, upload, queue, classify | mappings |
| Intake (`modules/intake`) | batches, rows, suggestions, adjustments, tax memory, asset register | upload, map columns, validate, decide, confirm signs, commit, supersede | prior run, trial balance |
| NetSuite, Xero, QuickBooks | connections with tokens, trial balance, pushed journals | sync, push | results |
| Rules (`modules/rules`) | `uk_rules`, a run's snapshot | propose, approve, supersede, roll back | — |
| Periods (`modules/periods`) | periods, groups | create, set status; a non-standard period opens an item | — |
| Billing (`modules/billing`) | `usage_events`, `tenant_subscriptions`, `tenant_entitlements` | record usage at finalize or lock; auto-provision a subscription | — |
| Agents, Eve (`agent`, `eve`) | `ai_runs`, `agent_events` | trace, answer, fall back, time out | the request's transaction |
| Tax engine (`packages/tax-engine`), exports, MTD | none | pure arithmetic and documents made from it | results |
| Auth, middleware | users | login, roles, rate limits | — |
| Web client, demo data, health | none that others read | — | — |

**What is hard here.** Handlers run in parallel and mostly do *not* lock what they
read. Six endpoints take the run's row `FOR UPDATE`, which orders handlers of one
run against each other; but the items, proposals and periods those handlers base
their decision on are read without a lock and may change before they commit. The
item routes read an item, decide, and update it by primary key whatever it has
become. A mapping is taken out of force and its successor inserted with nothing
but a unique index against a second writer. Tokens, journals and bytes are
changed at a vendor or in a store before the transaction that records them may
fail. A run goes round a cycle (approve, lock, unlock, submit, …), and each step
sets or clears only some of the columns. Figures are computed, rounded, stored
with fewer digits and computed again from what was stored.

**What makes each part correct.** Runs: sign-off by someone else, a lock only on a
sign-off, no stage skipped, a filing final. Review: decisions signed and not
undone by accident. Gates: true when the step they gate commits. Billing: one
usage row per run, the monthly allowance neither exceeded without bound nor
charged early. Mapping: one version in force, human decisions kept. Jobs, imports,
pushes: done once however often asked for. Intake: what is committed is what the
calculation reads at its place, and signs are corrected once. Filing: what is recorded is
what was exported. Rules and traces: what a run rests on can be explained later.
Tax: the charge, the deferred tax and the total are the same wherever they are stated,
the documents that split them otherwise do so in known cases only, and the
reconciliation explains the charge.

## 2. Modules

| Module | Stands for |
|---|---|
| `ReviewLifecycle` | review items and every route that changes their status, the item routes' read and write as two steps |
| `ProvisionRun` | EXTENDS `ReviewLifecycle`: the run from creation to filing, its gates, proposals, period reviews and usage rows |
| `RunGates` | EXTENDS `ProvisionRun`: a history variable of what changes under a request in flight, and what finalize, lock and the item routes keep in spite of it |
| `RunLifecycle` | abstract: the stages `deriveLifecycleStage` shows and the moves between them |
| `Billing` | what a run costs: entitlement, monthly count, usage events |
| `MappingVersions` | `tax_mappings`, proposals, imports, the two mapping queues and their workers |
| `VersionedRecord` | abstract: versions 1, 2, 3 … of a key, the newest in force |
| `WorkbenchJobs` | jobs by idempotency key, the import row by row, the calculation's load, row locks and deadlocks |
| `OnceByKey` | abstract: a key's work takes effect once |
| `IntakeBatch` | batches from upload to supersede, suggestions, sign confirmations, adjustments, the prior bridge |
| `IntakeChecks` | operators: row validation, sign and closing-balance checks |
| `Spreadsheet` | operators: header detection and cell reading of XLSX files, column maps |
| `TaxMemory` | operators: similarity, scope and time limits, scoring of precedents |
| `LedgerConnector` | Xero, QuickBooks and NetSuite: tokens, sync, push, with a remote ledger that may not answer |
| `DocumentStore` | uploads and replacements: bytes, row, commit |
| `FilingHandoff` | EXTENDS `DocumentStore`: the manifest, its exports, filings and relocks |
| `RuleRegistry` | `uk_rules` and the snapshots that runs record |
| `TaxEngine`, `CapitalAllowances` | operators: bands, marginal relief, differences, deferred tax, reconciliation; AIA, pools, disposals |
| `StatutoryExports`, `ResultExports` | operators: journals, CT600, iXBRL, CTO XML, workbook, package, R&D claim, readiness |
| `TaxCalculation` | a company, its mappings and register, two runs and the documents of each result |
| `AgentTrace` | calculations on a pool of clients with agents that answer, fall back, time out, and write late |
| `MC*` | instances for TLC |
| `*Proofs` | theorems (section 4) |

`ProvisionRun` composes review, run, proposals, periods and the usage row on one
state; `FilingHandoff` composes the document store with the filing; `IntakeBatch`
uses `IntakeChecks`, `Spreadsheet` and `TaxMemory`; `TaxCalculation` uses the engine
and export operators. Three abstract modules say what a component promises and are
checked as refinements: `RunLifecycle` of `ProvisionRun`, `VersionedRecord` of
`MappingVersions`, `OnceByKey` of `WorkbenchJobs`.

### Correspondence

*Transactions.* A variable `session` or `tx` holds what the handler on a connection
has read and will write. A handler is cut exactly where it acts on rows it has not
locked, or waits for a lock, a vendor, a store or a model: `ReadX` ends after its
last check, `CommitX` does all its writes and ends it. A handler that decides only
on rows it has locked is one action. `Rollback` (or `Fail`) ends any open handler
without a write, which is also what a failing statement or a lost connection does.
Finer cuts would show nothing new: under READ COMMITTED others see only commits,
and each read of a handler is a read at some moment between its start and its last
check; where two reads of one handler are at different moments, the later decides.
`WorkbenchJobs` and `LedgerConnector` cut finer, statement by statement, because
there the order in which row locks are taken matters.

*Rows.* Variables are tables, or the columns of a row that some guard or property
reads; a column that is NULL is a `No…` model value. In `ProvisionRun`, `run[r]` holds the columns the
gates and endpoints look at, `workbench` stands for "has a correlation id, a source
document and an entity". In `MappingVersions`, `by` stands for who wrote a version:
the AI worker, an override, or the proposal approved. Statuses that a transaction
sets and changes again before it commits are never seen by others and left out.

*Remote parts.* A queue delivers a job again once after a lost lock (`Stall`); a
ledger takes each refresh token once, creates what it is sent whether or not its
answer arrives, and refuses an unbalanced entry; a store keeps bytes that a failed
transaction put. A language model answers anything the handler accepts, fails, or
takes too long. These are marked external in the map.

*Data.* Trial balances, sheets and amounts are small concrete values, so that the
arithmetic (rounding to pence, columns of a few decimals, bands) is the code's own.
In `TaxEngine` balances are whole thousands of pounds and tax is counted in
thousandths of a pound, in which every figure is exact; the exports round to pence,
where a half penny may go either way, so documents agree up to a penny a figure. In
`TaxMemory` a similarity is an exact fraction and ages are in tenths of a year.

*Environment.* Which items a calculation opens is any subset of the run's possible
items in `ProvisionRun`, where nothing depends on the figures; in `TaxCalculation`
it follows from the figures. Users keep their roles (they come from tokens).
`makerCheckerEnabled` is a constant: no endpoint changes it.

## 3. Checks

| Run | Instance | Shows |
|---|---|---|
| `concurrent` | 1 run, 1 high item, a period review, 1 proposal, a reviewer, 2 partners, 2 connections, maker-checker on | decisions signed, what a handler checked holds until it commits, segregation of duties, one usage row, frozen sign-off; the handlers implement `RunLifecycle` |
| `gates` | 2 connections, a reviewer, a partner, a workbench run, a high item, a period review, a proposal, maker-checker off | finalize and lock leave a gate open, and an item route undoes a decision, only through what another request changed after their reading |
| `billing_allowance` | 5 runs, 2 connections, 2 months, allowance 1, standing and override that change | one event per run; a month's free runs stay below allowance + 2 × connections; no charge before the allowance is used |
| `mapping` | 1 account, 2 proposals, 1 job, 2 connections, 2 workers, 2 versions | one newest version in force, every decision applied exactly once, carry-forwards bounded, human decisions kept, every job ends; refines `VersionedRecord` |
| `intake` | 2 batches, 4 files of 2 sources and 2 entities, precedents, 1 prior run, 1 suggestion, 2 connections | one batch per file; every row of a committed batch is what is read at its place; no live row has inverted signs, or mixed ones without a warning; no suggestion decided more often than connections overlap |
| `jobs` | 2 keys, 2 documents listing 2 accounts in opposite orders, 2 connections | refines `OnceByKey`; a complete import owns its rows; a calculation misses rows only for a recorded reason; every request ends, deadlocks included |
| `ledger` | 3 requests, 2 connections, 2 versions of the books, 2 account maps | no request posts a journal twice, records agree with the ledger except after a failed request, a token is lost only with a failed request, every request ends |
| `filing` | 2 runs, 3 document ids, 2 uploads, 2 locks, 2 filings | bytes are stored and hashed, a document is current until a version is made from it, which follows it by one, a filing describes its run, exports and filings change no manifest |
| `rules` | 3 rules of 2 keys, 3 windows, 2 versions, a workbench and a legacy run | what a run recorded was approved, in force at its period's end, and can still be found; superseded rules stay chained |
| `tax` | 5 companies, 7 imports, 4 kinds of asset, 6 R&D claims, 2 runs | the charge, the deferred tax and the total of a result are stated alike, and what is split otherwise (bands, the package's federal tax, bridge, schedule) agrees in named cases only; a run without review items rests on no assumed date; the walk explains the charge; no pound is relieved twice; the handoff's artefacts validate |
| `trace` | 2 calculations, 1 or 2 tenants, 2 pooled clients, 1 subagent | a stored run's trace is there and tells nothing that did not happen; calculations end unless every client is held by one that waits for another |
| `trace_settles` | as `trace` | **violated**: a trace need not leave 'started' |

The violated run states what `README.md:187` (root) and
`docs/PRODUCTION_READINESS_REPORT.md:123` say of the traces: the outcome is written
on the transaction's client after the request has committed, finds no row there and
is lost, and the findings page polls for ever (`PROJECT.json`, findings).

**Deadlock.** It is checked except where all requests and documents of the instance
can be used up (`filing`, `ledger`) or everything may wait for a pooled client for
ever (`trace`).

**Bounds.** Two connections are enough for the races of these models: a step's
guard compares what one handler read with what one other handler wrote. One run is enough for the properties of one run's
columns. Items are interchangeable within a kind. Two partners who are alike (a
symmetry set) and a reviewer give every combination of requester, submitter and
approver the guards tell apart; `gates` makes workbench runs only, the ones that have
the gates. The review of a tax period meets everything else in `gates`; in `concurrent`
one request at a time and no other item does (`Bounded` of `MCProvisionRun`). In `Billing` the bound is reached only with as many
runs as allowance + 2 × connections, hence five, and one change of month is the
worst case for a month. `mapping` has a second worker, for a job that is delivered again while the first still
runs it; with both busy, at most one request is. `MaxVersion` 2 lets a version be superseded
once; versions beyond and more accounts are covered by the proofs. `intake` has a
file for each way the gates differ (turned signs; a renamed account and mixed signs;
another entity and account, with which the first two share no lock; a row with an
error), and two batches since a batch meets one other at a time; adjustments, decided
as suggestions are but teaching nothing, are in the proofs only. `ledger`'s third request is the retry of a
failed one beside another. `filing` needs a second lock to tell a filing from a
later handoff, a second upload and a third document for two replaces of one document
that overlap. These meet with one run; while there are two runs, each is locked once,
at most two documents are used and uploads do not overlap (`Bounded`). The imports of `tax` have profits exactly at the limits of the
bands, one between, a loss, and one too small for the stored rate, in periods
within a fiscal year, across two, and across April 2023; data are edited before the
first run only (`Preparing`), the second run shows that a result depends on nothing
but them. `trace` has as many clients as calculations, so that both can hold one and
wait for another.

**Fairness** is assumed only where liveness is claimed. `MappingVersions`: a waiting
job is taken and a taken one ends (weak), since workers run while the process does and
every model call has a time limit. `WorkbenchJobs`: a handler whose next statement is
possible again and again gets its turn (strong), since PostgreSQL queues the waiters
of a row lock, and a circle of waiters is broken (weak). `LedgerConnector`: weak;
an answer 429 is a stutter, so it is assumed that a ledger is not busy for ever.
`AgentTrace`: weak for each step of a calculation and of an agent, each of which has
a timeout; a calculation that waits for a client is excused, for the pool has no
timeout. No request is ever assumed to come.

**Mutants.** Each property of a passing run has a definition marked "Wrong on
purpose" which breaks it: a forgotten lock, guard, reset or month, an off-by-one,
a key that is too fine, a swapped order. They show that the property depends on the
code.

## 4. Proofs

Proofs are for any sets of users, runs, items, proposals, accounts, documents,
files, rules, clients and connections, under the named assumptions on the constants,
which give types, say that NULLs are no values, and where a property counts something
say that it is finite. TLC evaluates each on the instance it checks. Eight modules
hold the proofs; in each the property is not inductive and the invariant says what a
handler in flight may rely on.

* `ProvisionRunProofs` (of `ReviewLifecycle` and `ProvisionRun`) — `DecisionSigned`;
  `CheckedRowHolds`, `SignedOff`, `MakerIsNotChecker`, `LockedSignOffFrozen`,
  `BilledOnce` and the refinement of `RunLifecycle`. `ReviewInv` adds to
  `DecisionSigned`, for every request in flight, that its target status and its signer
  go together. `IInv` conjoins the types, the exclusive row lock, what handlers
  checked, the sign-off, the handoff chain and maker-checker. They need each other:
  that a lock's commit keeps `SignedOff` follows from what `CheckedRowHolds` says of
  its request, which the other handlers keep only because of the lock. `BilledOnce`
  needs that usage rows exist exactly for finalized runs, as sets, before they are
  counted.
  `FinalizeClosesReview`, `WorkbenchLockGated` and `FinalLeftOnlyByReopen` are theorems
  of `GatesSpec`, for any number of connections. `ReadKept` says that whatever is no
  longer as a handler read it is in its entry of `since`; a step of others adds to the
  entry what it changes, so only the request's own steps need the handlers' code, and
  that a run stays what it was made as.
* `BillingProofs` — `OneEventPerRun`, `OverrunBounded`, `OverageAfterAllowance`.
  `OverrunCounted` counts a month's free events together with the open transactions
  that will add one: in the running month those that priced counted fewer than the
  allowance; when the month ends each connection may hold one that will count the
  next month's events, which is the second term. `OverageCounted` carries the count
  a plan price rests on from the decision to the insert.
* `MappingVersionsProofs` — all safety properties of the mapping run. `MappingInv`
  says that an account's versions are numbered without a gap, that only the newest
  may be in force, that the version a request has read is still one of them, that a
  proposal being decided is pending and held by one connection, and that a proposal
  is behind a version exactly if it was approved. Then "the next number is not
  taken" (the unique index) means that what was read is the latest, and every write
  is "the next version in the place of the latest", of which one mapping in force,
  the fate of human decisions and the refinement of `VersionedRecord` follow. The bound on
  carry-forwards is inductive beside it.
* `IntakeBatchProofs` — `CommittedIsLive`, `LiveSignsCorrected`, `DecisionsBounded`.
  `IntakeInv` says that what a transaction is about exists, that a batch ready for
  review has checked rows, that what lies in the trial balance *and what a commit in
  flight will write* has not the signs of an inverted file, nor mixed signs without a
  warning, and counts for each subject the decisions made together with those in
  flight (at most one per connection). Two commits of one source exclude each other by
  the locks of the entity and account rows they share, so the later supersedes the
  earlier; when they share none, neither writes a place of the other's. The
  arithmetic is proved for files and memories of any length: `InversionCorrects`
  (inverting an inverted file's rows puts it right, not merely mixed), `BestMatchIsBest` (the
  search of the memory returns a precedent that qualifies and that none outscores)
  and from it `MemoryIsExplained`; and for sheets of any size `SheetsAreRead`: the
  parsed rows are the rows below the header in their order, but for those without a
  value in a mapped column, and each has the amounts that its own cells show
  (`AmountsAreKept`, for which `TrimmedRow` says that trimming drops empty cells only);
  and a column map accepted for a sheet is accepted for every sheet with the same
  fingerprint (`SuggestionsFit`).
* `WorkbenchJobsProofs` — `PartialInputExplained`, `CompleteImportOwnsItsRows` and the
  refinement of `OnceByKey`. `JobsInv` says of every import in flight that its rows
  are written, still to be written, or passed over and then marked; of every document,
  and of what a calculation has loaded of it, that rows are missing only if an import
  that is recorded took them or passed them over; and that a key is the work of one
  connection, so that what is recorded for it is never overwritten.
* `LedgerConnectorProofs` — `NoJournalTwice`, `RecordMatchesLedger`,
  `TokenLossExplained`. `LedgerInv` says that a request is one transaction's; that the
  journals it has created are those its transaction no longer has to send; that once
  a refresh token is spent every other transaction and the connection's row hold an
  older one, so that nobody refreshes before the transaction ends; and that the
  balance written for every account of a report is that of one of its lines in the
  version synced last, by induction over the lines (`XeroPosts` and `NetSuitePosts` list no journal twice,
  `LedgerAssumption`; a report is a sequence of typed lines, `ReportsAssumption`).
* `FilingHandoffProofs` (of `DocumentStore` and `FilingHandoff`) — `DocumentsSound`,
  `FilingDescribesItsRun`, `FilingKeepsManifest`. `StoreInv` follows an upload from
  its bytes to its commit; `HandoffInv` adds that a filing in flight is sound already,
  that a ready run is locked, and that a run's row shows whether it was filed.
  `RowsOnlyAge`, that a document's row changes from current to superseded only, is the
  lemma both rest on. `VersionsFollow` is kept by an insert because its version was read
  from a row whose number never changes, whoever replaced it in between.
* `RunEvidenceProofs` — what a run can be explained from: `RulesExplained` of
  `RuleRegistry`, `TraceTellsTheRun` of `AgentTrace` and the five properties of
  `TaxCalculation`. `RegistryInv` adds that
  versions are unique, approved rules signed, snapshots backed by rows, and superseded
  rules chained to the next version. `TraceInv` says who holds which client, that an
  agent answers once, and that rows, events and the stored analysis follow the
  answers, in flight and once committed. `TaxInv` says that every run stored is the one
  its request would give now (`RunsSound`); the rest is arithmetic, for any accounts,
  balances, rates, dates and registers: which differences need a date (`AgeOfEvidence`),
  the walk's lines (`WalkExplains`), the bands of the return (`HandoffValid`,
  `HandoffCharge`), for which results the documents that disagree come to the same
  (`SplitByBand`), pools as parts of the register (`TotalOfTotals`), and that figures
  rounded apart differ by a penny at most (`PenniesOfSum`). The engine's entries are the
  ones derived from the columns (`EntriesAgree`), which says more than the property.
  `TaxAssumption` states what the model's unit needs, balances in whole thousands
  (`Balances`), and that no entity's external id is empty: without that, which the
  importers' slugs and the ledgers' ids guarantee, the readiness report would pass a
  company that the XML refuses.

*Data of any length.* The library's induction theorems take an operator, which the
provers cannot instantiate. What a loop over rows computes is proved all the same:
the loop is a recursive function over positions, `Recursion` shows that such a function
exists, and `Positions` (a *set* of positions that has 0 and, with each, the next has
all; from `WFMin`) carries a statement along it. Sums over sets (`Total`) are treated
alike: `SumExists` gives the function of all partial sums, `Subsets` is the induction. `MemoryAssumption` says what the
database guarantees of the precedents: a finite list, newest first (`intake/memory.ts:77`),
with names and ages.

*Only model-checked.* The liveness properties (`QueuedJobEnds`, both `RequestsEnd`,
`CalculationsEnd`), because `ENABLED` is out of the provers' reach. Every other property
of a passing run is stated by a theorem.

## 5. What the models show

Disagreements and surprises met while modelling, each with the run that exhibits it
or, where none does, the lines. Only the first is a finding in `PROJECT.json`.

* *Traces.* See `trace_settles`. A failing late write aborts whatever transaction the
  client carries by then, whose COMMIT then rolls back while the request answers 200.
  An audit-defense failure is recorded 'completed'. The pattern lookup takes a second
  client while the request holds one (pool of 20, no timeout), so calculations may
  wait for ever. `needs_review` set without review items is overwritten
  (`modules/provision/provision.routes.ts:214-219`, `320-324`).
* *Reviews.* Three comments are false when requests overlap: finalize is to "block ...
  on ANY non-final review state" (`modules/provision/provision.routes.ts:1450`), the
  gates "must pass before a run may be finalized or locked" (`modules/workbench/gates.ts:90`),
  an item "can never return from a final status ... except via an explicit human
  reopen" (`modules/review/review.routes.ts:63-65`). All read rows they do not lock, and the pool has 20
  connections: a start that read an item before it was waived undoes the waiver, an
  item reopened or a proposal made between a finalize's reading and its write stays
  open. TLC refutes the comments as they stand, with two connections, and the run
  `gates` with the theorems says that this overlap is the only way. Items
  of a locked run change (the item routes never look at the run). An item reopened
  while its run is finalized stays open. A reviewer's `in_progress` item, or a period
  review merely started, clears the gates, which count `open` only
  (`modules/workbench/guard.ts:42-43`). A legacy run is locked with open items. A
  locked run can be locked again, which replaces the stamp. A run is finalized
  without a sign-off. A proposal made under a lock is pending for the locked run.
* *Billing.* Two first runs at once are both free, as is a second one across a month's
  end (`modules/billing`, `OverrunBounded` is the bound).
* *Mapping.* The auto-mapping worker fails whenever it has an account to map: its event
  has an empty `provisionRunId` (`CommitAuto`). A failing insert of the AI worker is
  caught but has aborted the transaction: the job completes with nothing kept. Two
  carry-forwards may file the same proposals twice (`CarryForwardBounded`).
* *Jobs.* Two imports that create the same account: the later passes its row over and
  succeeds (`PartialInputExplained` names it). An import takes rows over from other
  documents. A key is found whatever its type and payload.
* *Intake.* A commit refused for an opening balance rolls back the item it names
  (`modules/intake/intake.routes.ts:721`), so such a batch never commits while the prior run
  is locked. Rows with status 'warning' are left out of the commit (`:626`), so a
  batch may commit out of balance; a sheet of no rows commits and supersedes. A commit
  upserts `trial_balance` row by row and deletes nothing (`:768-790`): the rows of a
  superseded batch that its successor does not name stay, and the calculation reads
  them (`modules/provision/provision.routes.ts:94-100`), although
  `lib/import-batch-link.ts:9` calls the active batch the one "whose rows are currently
  live". The locks of a commit are those of its rows' own entities and accounts
  (`validate.ts:200-206`), not of the batch's entity, so two commits of one entity and
  period whose rows share none may overlap and both stay committed. Warnings can be
  reopened and raised again, and two commits may both insert one, so they pile up. A
  validated superseded batch commits again and keeps `superseded_by_batch_id`. A
  validation that races a commit puts the status back. Two rows of one account: the
  last overwrites. Generating suggestions twice duplicates them.
* *Sheets and memory.* After an empty CSV record line numbers are those of other rows
  (`modules/intake/csv.ts`, `firstLineOfRecord`). A formula without a cached result reads as empty. A
  negative number in parentheses is unreadable (`xlsx.ts:137` makes `--5` of `(-5)`).
  The age bonus of a precedent is gone after half a year, not ten (`modules/intake/memory.ts:57`). A
  precedent taught by a decision ends with its period and is suggested in no later
  one. The cap of 0.98 lets a newer, less similar precedent beat an older exact one.
  Names of short or stop words only are never remembered.
* *Ledgers.* A token refreshed in a transaction that fails is lost. A push whose answer
  or commit is lost is not recorded, and the next creates a second draft. NetSuite's
  lines without a mapping are skipped, and an entry left unbalanced is refused after
  earlier ones were posted. Sub-accounts collapse onto one external id
  (`quickbooks.routes.ts:122-125`).
* *Filing.* A filing with a confirmation document matches no exported manifest. What a
  manifest reads goes on changing after the lock (review items, documents, the
  trail), so a filed checksum need not be that of a later export. Two replaces of one document that
  overlap, or one of a superseded document, make two current documents of one number:
  `documents.routes.ts:164` neither locks the row nor asks whether it is current, and
  `VersionsFollow` allows it. Bytes of a failed upload stay.
* *Rules.* Approve and rollback ask nothing of the rule's state. Between a supersede and
  the successor's approval no rule of the key is in force; a legacy run then records
  none, the workbench refuses.
* *Tax.* The documents of a result do not all agree: the handoff's deferred-tax schedule
  always states 0 and its bridge no marginal relief (`handoff/package.ts:170-197`), the
  package's workbook states federal tax as book income × rate
  (`export/excel-generator.ts:204-206`), and Box 12 of the result routes' CT600 holds the
  whole charge (`export/ct600.ts:140-146`), which below the main rate is not the
  handoff's return and fails its validator (`handoff/ct600.ts:4-6`). `AgreeAtMainRate`
  says of which results each is right nevertheless; `tax` and the theorem show it. The walk
  lacks a small-profits line. Deferred tax uses the tenant's rate, current tax the
  bands. Accounts without a mapping are in book income though a warning says not.
  R&D spend of a result is nothing the system stores. Pools start at nil each period;
  disposals of assets under AIA floor the pool. A run that ends before April 2023, a
  lower-case company number or all-zero figures do not validate (`ArtefactsValidate`
  says when). The readiness report counts a missing UTR as met. The ZIP of a locked
  run is not byte-deterministic: audit rows carry the time of the request
  (`audit-log.ts:20`).

## 6. Not modelled

`PROJECT.json` lists every part with its reason. Left out on purpose:

* NetSuite's sync: with the intended database role its connection is not found
  without a tenant, with another it waits for the row its own route holds; its body
  is unreachable (`netsuite/connector/sync-orchestrator.ts:58`).
* OAuth redirects, payment-provider calls, the Companies House client: they fill in
  descriptive fields or call a vendor without touching what the models keep.
* The agent orchestrator's stage machine: kept in the process, read by nobody.
* The web client renders answers. Its own races: a batch selected while another's
  report is on its way (`IntakePage`), a stale id in `runAction`, views loaded out of
  order (`WorkbenchPage`), polling without end (`AiFindingsPage`).
* Demo data, health checks, flags, read-only listings, evidence links; layout,
  wording and styles of documents; `packages/tax-engine-enterprise`, which nothing
  imports; the US rules beyond what a UK run reaches.
* Tenants other than one, which row-level security separates, except in `AgentTrace`,
  where late writes may cross them.

## 7. Plan

Modelled in this order: review and run, billing, mapping, intake, jobs, ledgers,
filing, rules, tax, agents. What is left, by worth:

1. `ProvisionRun` over `MappingVersions`: its `pending` set as the proposals there, so
   that a decision between a gate and its commit is one behaviour of both.
2. The OAuth callbacks, which add a connection each time, beside `LedgerConnector`.
