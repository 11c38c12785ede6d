--------------------------- MODULE TaxCalculation ---------------------------
(***************************************************************************)
(* From trial balance to filing artefacts: the calculation of a run, by    *)
(* the workbench (modules/workbench) or by POST /provision/run, from the   *)
(* rows of a document, the active mappings and the asset register; the     *)
(* result it stores and what is exported from it.  The arithmetic is in    *)
(* TaxEngine, CapitalAllowances, StatutoryExports and ResultExports.       *)
(***************************************************************************)
EXTENDS ResultExports, CapitalAllowances

CONSTANTS
  Accounts,
  Companies,   \* an entity and its tenant: jurisdiction, rates, external id
  Requests,    \* calculations asked for: the rows of a document, by account,
               \* and a period [from, to] of dates YYYYMMDD
  Decisions,   \* what each account may be mapped to
  Unmapped,
  Assets,      \* rows of the asset register that may be posted
  Claims,      \* R&D claims asked for: pounds, 0 for what is left out
  MaxRuns      \* bound: runs made

\* Whole thousands of pounds, see TaxEngine.
Balances == {x \in Int : x % 1000 = 0}

ASSUME TaxAssumption ==
  /\ IsFiniteSet(Accounts) /\ IsFiniteSet(Assets)
  /\ Companies \subseteq
       [jurisdiction : STRING, rate : 0..100, stateRate : 0..100, id : STRING]
  /\ \A c \in Companies : c.id # ""  \* a slug that is never empty, or a ledger's id
  /\ \A q \in Requests :
       /\ q.accounts \subseteq Accounts
       /\ q.rows \in [type : [q.accounts -> STRING], balance : [q.accounts -> Balances],
                      placed : [q.accounts -> Nat]]
       /\ q.period \in [from : Nat, to : Nat] /\ q.period.from < q.period.to
  /\ \A a \in Accounts :
       /\ Decisions[a] \subseteq
            [treatment : {"no_diff", "permanent", "temporary"}, type : STRING,
             timing : STRING, doubtful : BOOLEAN]
       /\ Unmapped \notin Decisions[a]
  /\ \A x \in Assets :
       x \in [id : {x.id}, poolType : STRING, cost : Nat, placed : Nat,
             disposed : Nat, proceeds : Nat]
  /\ \A k \in Claims :
       k \in [spend : Nat, headcount : Nat, paye : Nat, costs : Nat, rdec : BOOLEAN]
  /\ MaxRuns \in Nat

VARIABLES
  company,   \* entities and tenants, as they were set up
  mapping,   \* the active mapping of each account
  register,  \* the active rows of asset_register_items
  runs       \* the runs stored, with what they read and found

taxVars == <<company, mapping, register, runs>>

Routes == {"workbench", "legacy"}

IncomeTypes  == {"Income", "Revenue", "OtherIncome", "Sales", "ServiceRevenue"}
ExpenseTypes == {"Expense", "COGS", "OtherExpense", "OperatingExpense", "SG&A", "CostOfSales"}

TreatedAs(book, map, treatment) ==
  {a \in DOMAIN book.type : map[a] # Unmapped /\ map[a].treatment = treatment}

\* Income and expense by magnitude, whether the account is mapped or not.
BookIncome(book) ==
  LET Of(types) == Total([a \in {b \in DOMAIN book.type : book.type[b] \in types} |->
                            Abs(book.balance[a])])
  IN  Of(IncomeTypes) - Of(ExpenseTypes)

\* The input of the engine, for an age assumed where no date is recorded.
InputAssuming(age, c, book, map, period) ==
  [uk |-> c.jurisdiction \in UkJurisdictions, rate |-> c.rate, stateRate |-> c.stateRate,
   book |-> BookIncome(book),
   permanent |-> [a \in TreatedAs(book, map, "permanent") |-> book.balance[a]],
   temporary |-> [a \in TreatedAs(book, map, "temporary") |->
     [side |-> IF map[a].timing = "deductible" THEN "DTA" ELSE "DTL",
      difference |->
        Difference(c.jurisdiction \in UkJurisdictions, map[a].type, book.balance[a],
                   AgeOf(map[a].type, book.placed[a], period.from, age))]]]

Input(c, book, map, period) == InputAssuming(1, c, book, map, period)

(***************************************************************************)
(* Review items.                                                           *)
(***************************************************************************)
Undocumented(book, map) ==
  {a \in TreatedAs(book, map, "temporary") :
     RequiresEvidence(map[a].type) /\ book.placed[a] = Undated}

\* Fiscal years begin in April.
FiscalYear(date) == IF Month(date) >= 4 THEN Year(date) ELSE Year(date) - 1

Straddles(period) == FiscalYear(period.from) # FiscalYear(period.to)

Item(kind, about) == [kind |-> kind, about |-> about]

ItemsOf(route, book, map, assets, period) ==
  {Item("missing_mapping", a) : a \in {b \in DOMAIN book.type : map[b] = Unmapped}}
  \cup {Item("low_confidence_mapping", a) :
          a \in {b \in DOMAIN book.type : map[b] # Unmapped /\ map[b].doubtful}}
  \cup {Item("missing_depreciation_metadata", a) : a \in Undocumented(book, map)}
  \cup (IF route = "workbench" /\ Undocumented(book, map) # {} /\ assets = {}
        THEN {Item("missing_asset_register", "entity")} ELSE {})
  \cup (IF route = "workbench" /\ Straddles(period)
        THEN {Item("fiscal_year_straddling", "period")} ELSE {})

\* POST /run goes by its mapping items alone when it sets the status last.
StatusOf(route, items) ==
  LET counted == IF route = "workbench" THEN items
                 ELSE {i \in items : i.kind \in {"missing_mapping", "low_confidence_mapping"}}
  IN  IF counted # {} THEN "needs_review"
      ELSE IF route = "workbench" THEN "calculated" ELSE "workpapers_generated"

(***************************************************************************)
(* Actions.                                                                *)
(***************************************************************************)
\* A column decimal(5, 4) holds rates below 10: the insert of a larger one,
\* rounded, fails and the run with it.
RateFits(input) ==
  \/ input.book <= 0
  \/ (20 * Abs(TotalTax(input))) \div input.book < 199999

TaxInit ==
  /\ company \in Companies
  /\ mapping = [a \in Accounts |-> Unmapped]
  /\ register = {}
  /\ runs = {}

\* Bound: what the runs read is changed before the first of them.  A run
\* depends on nothing but what it reads when it is made.
Preparing == runs = {}

\* An approved decision becomes the account's active mapping.
Map(a, d) ==
  /\ Preparing
  /\ mapping' = [mapping EXCEPT ![a] = d]
  /\ UNCHANGED <<company, register, runs>>

\* POST /entities/:entityId/assets
PostAsset(x) ==
  /\ Preparing /\ ValidAsset(x)
  /\ register' = register \cup {x}
  /\ UNCHANGED <<company, mapping, runs>>

\* DELETE /entities/:entityId/assets/:id
DeleteAsset(x) ==
  /\ Preparing /\ x \in register
  /\ register' = register \ {x}
  /\ UNCHANGED <<company, mapping, runs>>

\* The workbench reads the register and reports what its pools allow.
RunOf(route, q) ==
  LET book   == q.rows
      period == q.period
      items == ItemsOf(route, book, mapping, register, period)
  IN  [route |-> route, period |-> period, book |-> book,
       map |-> [a \in DOMAIN book.type |-> mapping[a]],
       items |-> items, status |-> StatusOf(route, items),
       input |-> Input(company, book, mapping, period),
       allowances |-> IF route = "workbench" THEN Summary(register, period) ELSE << >>]

CalculateTax(route, q) ==
  /\ Cardinality(runs) < MaxRuns
  /\ Known(company.jurisdiction)
  /\ q.accounts # {}
  /\ RateFits(Input(company, q.rows, mapping, q.period))
  /\ runs' = runs \cup {RunOf(route, q)}
  /\ UNCHANGED <<company, mapping, register>>

\* An unknown jurisdiction, a document without rows or a rate that does not
\* fit its column: the transaction is rolled back.
Refuse(q) ==
  /\ \/ ~Known(company.jurisdiction)
     \/ q.accounts = {}
     \/ ~RateFits(Input(company, q.rows, mapping, q.period))
  /\ UNCHANGED taxVars

TaxNext ==
  \/ \E a \in Accounts : \E d \in Decisions[a] : Map(a, d)
  \/ \E x \in Assets : PostAsset(x) \/ DeleteAsset(x)
  \/ \E route \in Routes, q \in Requests : CalculateTax(route, q)
  \/ \E q \in Requests : Refuse(q)

TaxSpec == TaxInit /\ [][TaxNext]_taxVars

(***************************************************************************)
(* Properties.                                                             *)
(***************************************************************************)
ToExpense(lines) ==
  Total([l \in lines |-> IF l.account \in {"tax-expense-current", "tax-expense-deferred"}
                         THEN l.debit - l.credit ELSE 0])
ToPayable(lines) == Total([l \in lines |-> IF l.account = "tax-payable" THEN l.credit ELSE 0])

\* buildJournalExport ("every entry balances and the document totals
\* balance") and the push to Xero: every exported entry balances, what is
\* posted to the expense accounts is the total tax expense of the result to a
\* penny, and the entries a legacy result would be given from its columns post
\* the same to the same accounts, to a penny.
JournalsBalance(input) ==
  LET exported == JournalExport(input)
      derived  == DerivedEntries(Columns(input))
  IN  /\ \A e \in exported :
           Total([l \in e |-> l.debit]) = Total([l \in e |-> l.credit])
      /\ Near(ToExpense(UNION exported), Columns(input).total)
      /\ \A l \in UNION exported : \E k \in UNION derived :
           k.account = l.account /\ Near(k.debit, l.debit) /\ Near(k.credit, l.credit)
      /\ Cardinality(derived) = Cardinality(exported)

\* Every file of rows to import posts nothing on balance, entry by entry.
RowsBalance(input) ==
  \A format \in Formats : \A rows \in JournalsToCsv(format, JournalExport(input)) :
    Total([r \in rows |-> r.amount]) = 0

\* The workbook says the same, to a penny, of the tax payable, the net deferred tax, the
\* total and the statutory line, whether it is made from the detail or, in the package,
\* from the columns.  (Of the federal tax it does not: see AgreeAtMainRate.)
BooksAgree(full, package) ==
  LET AboutSame(x, y) == Abs(x - y) <= 10
  IN  /\ AboutSame(full.current.payable, package.current.payable)
      /\ AboutSame(full.deferred.DTL - full.deferred.DTA,
                   package.deferred.DTL - package.deferred.DTA)
      /\ AboutSame(full.summary.total, full.current.expense + full.deferred.net)
      /\ full.etr.statutory = package.etr.statutory

WorkbooksAgree(input) == BooksAgree(Workbook(input, TRUE), Package(input, {}).files.workbook)

\* A British result has one charge: in the workbook, in the return of the results
\* routes, in the return of the handoff, in the XML and as the journals post it.
ChargesAgree(input) ==
  LET boxes == ResultsBoxes(input)
      charges == {HandoffBoxes(input).b22, Submission(input).charge, Submission(input).payable,
                  MtdAmounts(boxes).due, Pennies(CurrentTaxTab(input, TRUE).payable),
                  ToPayable(UNION JournalExport(input))}
  IN  \A charge \in charges : Near(charge, boxes.b22)

\* The package of a handoff is at one with itself: the band and the relief of its
\* manifest are those of its CT600, the differences its schedule lists explain the
\* deferred tax of the result (its own expense line is always nil), and its bridge
\* ends in the total.
Explained(timing, rate) ==
  LET Of(side) == Total([a \in {b \in DOMAIN timing : timing[b].side = side} |->
                           rate * timing[a].difference])
  IN  Of("DTL") - Of("DTA")

Coherent(package, boxes, columns, rate) ==
  /\ Near(Pennies(Explained(package.files.schedule.timing, rate)), columns.deferred)
  /\ package.band.charge = boxes.b15
  /\ package.band.band = "small_profits" <=> boxes.b12 = 0
  /\ package.band.relief = boxes.b14
  /\ package.files.bridge.total = Pennies(package.files.calculation.current + package.files.calculation.net)
  /\ package.excluded <=> package.ixbrl = {}

PackageCoherent(input) == Coherent(HandoffPackage(input), HandoffBoxes(input), Columns(input), input.rate)

\* An R&D claim fills one box of the return at most, is worth less than was
\* spent, and a payable credit is within the cap of the payroll.
ClaimBounded(input, ask) ==
  LET claim == RdClaim(input, ask)
  IN  /\ claim.b27 = 0 \/ claim.b28 = 0
      /\ claim.benefit <= 100 * ask.spend
      /\ claim.b28 <= PayeCap(ask)

\* A company the readiness report lets file is one whose number neither the XML
\* nor the validator of the handoff refuses.
ReadyIsFileable(id) ==
  \A asked \in SUBSET Answers : Eligible(id, asked) => Accepted(id) /\ id # "lower case number"

\* What the exports state differently, and of which results they state the same.  The
\* return of the results routes has the whole charge at the main rate: it is the return
\* of the handoff, and within the band rules of the validator, for profits that are
\* taxed at the main rate or nil and for no others (handoff/ct600.ts:4-6).  The package's workbook has book income at the statutory rate
\* for federal tax: that is the tax, without permanent differences, of the same results.
\* The bridge shows no marginal relief, and the schedule no deferred tax: right only for
\* profits outside the band, and for differences that cancel to half a penny.
MainRate(input) == Taxable(input) = 0 \/ Taxable(input) >= UpperLimit

AgreeAtMainRate(input) ==
  /\ (ResultsBoxes(input) = HandoffBoxes(input)) <=> MainRate(input)
  /\ BandAligned(ResultsBoxes(input)) <=> MainRate(input)
  /\ (input.rate = 25 /\ input.book >= 0 /\ Total(input.permanent) = 0) =>
       ((CurrentTaxTab(input, FALSE).federal = CurrentTaxTab(input, TRUE).federal)
          <=> MainRate(input))
  /\ (EtrBridge(input).relief = BandSummary(input).relief)
       <=> (Taxable(input) <= SmallLimit \/ MainRate(input))
  /\ (DeferredSchedule(input).expense = Columns(input).deferred)
       <=> Abs(Explained(DeferredSchedule(input).timing, input.rate)) < 5

\* The exports of a result reconcile: the charge, the deferred tax and the total are, to
\* a penny, those of the result in the journals and the files made of them, in the
\* workbooks' payable, deferred and total lines, in Box 22 of both returns, in
\* the XML and in the manifest of the handoff; the boxes and lines that split or restate
\* them agree for the results AgreeAtMainRate says, and for no others; claims are
\* bounded, and a company told that it is ready can file.
ExportsReconcile ==
  /\ ReadyIsFileable(company.id)
  /\ \A r \in runs :
       /\ JournalsBalance(r.input) /\ RowsBalance(r.input) /\ WorkbooksAgree(r.input)
       /\ r.input.uk =>
            ChargesAgree(r.input) /\ PackageCoherent(r.input) /\ AgreeAtMainRate(r.input)
       /\ \A ask \in Claims : ClaimBounded(r.input, ask)

\* Missing evidence is always a review item: the figures of a run without
\* items would be the same whatever age were assumed of assets without a date,
\* and a workbench run without items lies within one fiscal year.
FiguresRestOnEvidence ==
  \A r \in runs : r.items = {} =>
    /\ \A age \in 1..20 :
         InputAssuming(age, company, r.book, r.map, r.period) = r.input
    /\ r.route = "workbench" => r.period.to < 10000 * (FiscalYear(r.period.from) + 1) + 401

\* The ETR walk explains the current tax of a profit: exactly, but for the
\* small profits rate (the six points below the main rate have no line) and
\* for the federal benefit of state tax (deducted in the walk only).
ReconciliationExplains ==
  \A r \in runs :
    LET in == r.input
    IN  (in.book + Total(in.permanent) >= 0 /\ (in.uk => in.rate = 25)) =>
          CurrentTax(in) - Walk(in) =
            IF ~in.uk THEN (in.rate * StateTax(in)) \div 100
            ELSE IF Taxable(in) <= SmallLimit THEN -60 * Taxable(in)
            ELSE 0

\* Capital allowances of the register: the pools of a run account for what was
\* spent less proceeds, unless proceeds floor a pool at nil, its AIA stays in
\* the limit, and two runs of different periods relieve no pound twice.
AllowancesWithinCost ==
  /\ \A r \in runs : \A k \in DOMAIN r.allowances :
       LET in  == r.allowances[k]
           out == Allowance(in)
       IN  /\ \/ out.firstYear + out.writingDown + out.closing = in.expenditure - in.disposals
              \/ out.writingDown = 0 /\ out.closing = 0
           /\ out.firstYear + out.writingDown <= in.expenditure
           /\ out.aiaUsed <= AiaLimit
  /\ \A r, s \in runs : (r.period.to < s.period.from) =>
       TotalAllowance(r.allowances) + TotalAllowance(s.allowances)
         <= Total([x \in register |-> x.cost])

\* The gates of a handoff can be met by the figures of every UK run that has any and
\* whose period ends in April 2023 or later: whatever the band, its CT600 and iXBRL
\* validate.  (Of the flat rate of the year before, which the engine does not know, the
\* validator refuses most returns; a company number in lower case it always refuses.)
ArtefactsValidate ==
  \A r \in runs :
    (r.input.uk /\ Regime(r.period) # "flat2022"
      /\ company.id # "lower case number" /\ IxbrlFacts(r.input) # {})
    => Exportable(r.input, r.period, company.id)
=============================================================================
