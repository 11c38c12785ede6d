---------------------------- MODULE ResultExports ----------------------------
(***************************************************************************)
(* What a user can take of a stored result, besides the handoff: the       *)
(* workbook (export/excel-generator) alone or in the workpaper package     *)
(* (export/package-export), the journals for a ledger to import            *)
(* (export/journals), the return and its XML for Corporation Tax Online    *)
(* (export/ct600, cto-xml), the R&D claim (export/rd-claim) and the        *)
(* readiness report (mtd-client).  Amounts of the workbook are in mills,   *)
(* the others in pennies.                                                  *)
(***************************************************************************)
EXTENDS StatutoryExports, Sequences

Mills(pennies) == 10 * pennies

(***************************************************************************)
(* The workbook.  The export has the stored detail; the package makes its  *)
(* workbook from the columns alone.                                        *)
(***************************************************************************)
SummaryTab(input) ==
  LET c == Columns(input)
  IN  [current |-> Mills(c.current), deferred |-> Mills(c.deferred), total |-> Mills(c.total)]

\* Without detail the federal tax is income at the statutory rate.
CurrentTaxTab(input, detailed) ==
  IF detailed
  THEN [book |-> 1000 * input.book, permanent |-> 1000 * Total(input.permanent),
        taxable |-> 1000 * Taxable(input), federal |-> FederalTax(input),
        state |-> StateTax(input), expense |-> CurrentTax(input), payable |-> CurrentTax(input)]
  ELSE [book |-> 1000 * input.book, permanent |-> 0, taxable |-> 1000 * input.book,
        federal |-> 10 * input.rate * input.book, state |-> 0,
        expense |-> SummaryTab(input).current, payable |-> SummaryTab(input).current]

\* Wrong on purpose: an asset is told from a liability by the wrong sign.
DeferredTaxTabReversed(input, detailed) ==
  LET net == SummaryTab(input).deferred
  IN  IF detailed /\ DOMAIN input.temporary # {}
      THEN [DTA |-> Closing(input, "DTA"), DTL |-> Closing(input, "DTL"), net |-> DeferredTax(input)]
      ELSE [DTA |-> NonNegative(net), DTL |-> NonNegative(-net), net |-> net]

\* The closing balances, by category or in aggregate, and the net expense.
DeferredTaxTab(input, detailed) ==
  LET net == SummaryTab(input).deferred
  IN  IF detailed /\ DOMAIN input.temporary # {}
      THEN [DTA |-> Closing(input, "DTA"), DTL |-> Closing(input, "DTL"), net |-> DeferredTax(input)]
      ELSE [DTA |-> NonNegative(-net), DTL |-> NonNegative(net), net |-> net]

\* The amounts of the lines of the walk: a permanent difference and state tax are shown
\* whole there, not by what they do to the tax.
EtrTab(input, detailed) ==
  [statutory |-> StatutoryLine(input),
   other |-> IF detailed
             THEN 1000 * Total(input.permanent) + StateTax(input) + OtherLine(input)
             ELSE 0,
   expense |-> SummaryTab(input).total]

\* Line by line as the engine made them; the tab is absent without entries.
JournalTab(input, detailed) ==
  IF detailed THEN {CurrentEntry(input), DeferredEntry(input)} \ {{}} ELSE {}

\* A row for each difference, once there is a temporary one.
LineItemsTab(input, detailed) ==
  IF detailed /\ DOMAIN input.temporary # {}
  THEN DOMAIN input.permanent \cup DOMAIN input.temporary ELSE {}

Workbook(input, detailed) ==
  [summary |-> SummaryTab(input), current |-> CurrentTaxTab(input, detailed),
   deferred |-> DeferredTaxTab(input, detailed), etr |-> EtrTab(input, detailed),
   journals |-> JournalTab(input, detailed), items |-> LineItemsTab(input, detailed)]

\* The audit file of the package: the run and its review items.
AuditTrail(items) == {"provision_run"} \cup items

\* The package's manifest hashes all its files.
Hashed(content) == [files |-> content, manifest |-> {<<f, content[f]>> : f \in DOMAIN content}]

\* The package's other files list what the run has.
Package(input, items) ==
  Hashed([workbook |-> Workbook(input, FALSE), trail |-> AuditTrail(items), queue |-> items,
          assumptions |-> [rate |-> input.rate,
                           missing |-> {i \in items : i.kind = "missing_depreciation_metadata"}]])

(***************************************************************************)
(* The package of the handoff: the columns, the stored detail and what is  *)
(* derived from them.                                                      *)
(***************************************************************************)
\* Nothing is brought forward, so nothing rolls forward.
Rollforward == [lines |-> {}, losses |-> 0, credits |-> 0, allowance |-> 0]

\* runProvisionMath: the detail that provision_results stores.
Detail(input) ==
  [current |-> CurrentTax(input), federal |-> FederalTax(input), net |-> DeferredTax(input),
   DTA |-> Closing(input, "DTA"), DTL |-> Closing(input, "DTL"), walk |-> Walk(input),
   journals |-> JournalTab(input, TRUE), rollforward |-> Rollforward,
   permanent |-> input.permanent, temporary |-> input.temporary]

\* The bridge and the schedule look for the marginal relief and the deferred tax
\* among the fields of the current tax, which has neither.
EtrBridge(input) ==
  [total |-> Columns(input).total, permanent |-> Detail(input).permanent, relief |-> 0]

DeferredSchedule(input) == [expense |-> 0, timing |-> Detail(input).temporary]

\* bandSummary, for the manifest.  A loss counts as small profits.
BandSummary(input) ==
  LET p == Taxable(input)
      charge == Pennies(Detail(input).federal)
  IN  CASE p <= SmallLimit -> [band |-> "small_profits", charge |-> charge, relief |-> 0]
        [] SmallLimit < p /\ p < UpperLimit ->
             [band |-> "marginal_relief", charge |-> charge, relief |-> NonNegative(25 * p - charge)]
        [] OTHER -> [band |-> "main_rate", charge |-> charge, relief |-> 0]

\* buildHandoffPackage; the iXBRL document is left out unless it is valid, and the
\* rules of the manifest say which.
HandoffPackage(input) ==
  LET always == [workpaper |-> CurrentTaxTab(input, FALSE), calculation |-> Detail(input),
                 bridge |-> EtrBridge(input), schedule |-> DeferredSchedule(input),
                 ct600 |-> HandoffBoxes(input)]
  IN  [files |-> always, ixbrl |-> IF IxbrlValid(input) THEN IxbrlFacts(input) ELSE {},
       excluded |-> ~IxbrlValid(input), band |-> BandSummary(input)]

(***************************************************************************)
(* Journals for import: rows of signed amounts, of debits and credits, or, *)
(* for the generic file, of the names of accounts.                         *)
(***************************************************************************)
Formats == {"xero", "qbo", "netsuite", "csv"}

CsvRow(format, line) ==
  IF format = "xero"
  THEN [account |-> line.account, amount |-> IF line.debit > 0 THEN line.debit ELSE -line.credit]
  ELSE [account |-> line.account, amount |-> line.debit - line.credit]

\* Entry by entry: no two lines of an entry are the same.
JournalsToCsv(format, entries) == {{CsvRow(format, l) : l \in e} : e \in entries}

(***************************************************************************)
(* Corporation Tax Online.                                                 *)
(***************************************************************************)
\* ctoFromCt600 of the boxes the route fills in: the whole charge at the main rate.
Submission(input) ==
  LET charge == Pennies(FederalTax(input))
  IN  [profits |-> 100 * Taxable(input), years |-> <<[rate |-> 25, tax |-> charge]>>,
       charge |-> charge, payable |-> Columns(input).current]

\* buildCtOnlineSubmission: without a UTR of its own a company has ten zeros, so
\* what may be missing is the company number, the entity's external id.
Accepted(id) == id # ""

Answers == {"authorised", "signedUp", "connected", "malformed UTR"}

\* buildMtdReadinessReport of /mtd-readiness: what is asked says whether the agent
\* is authorised, the company signed up and the software connected, and may give a
\* UTR that is none; the ten zeros are one.  A company may have no number.
Eligible(id, asked) ==
  /\ "malformed UTR" \notin asked
  /\ id \in {"", "number"}
  /\ {"authorised", "signedUp", "connected"} \subseteq asked

\* buildMtdCtSubmission of the return.
MtdAmounts(boxes) ==
  [profits |-> boxes.b10, chargeable |-> boxes.b15, relief |-> boxes.b14,
   payable |-> boxes.b19, due |-> boxes.b22]

(***************************************************************************)
(* The R&D claim: amounts asked for in pounds, multiples of 50 where a     *)
(* percentage of them is taken; 0 for what is left out.                    *)
(***************************************************************************)
SpendLimit == 2000000
HeadcountLimit == 250

\* The defaults of GET /results/:id/rd-claim.
Headcount(ask) == IF ask.headcount = 0 THEN 250 ELSE ask.headcount
Costs(ask)     == IF ask.costs # 0 THEN ask.costs ELSE IF ask.spend = 0 THEN 1 ELSE 3 * ask.spend

RdScheme(ask) ==
  IF ~ask.rdec /\ Headcount(ask) < HeadcountLimit /\ ask.spend <= SpendLimit THEN "sme" ELSE "rdec"

Enhanced(ask)  == 186 * ask.spend
Intensive(ask) == Headcount(ask) < HeadcountLimit /\ 10 * ask.spend >= 3 * Costs(ask)
PayeCap(ask)   == 100 * (20000 + 3 * ask.paye)

\* Wrong on purpose: the credit is not capped.
SurrenderUncapped(ask) == (IF Intensive(ask) THEN 27 ELSE 10) * (Enhanced(ask) \div 100)

\* The payable credit of a loss, capped by the payroll.
Surrender(ask) ==
  LET gross == (IF Intensive(ask) THEN 27 ELSE 10) * (Enhanced(ask) \div 100)
  IN  IF gross < PayeCap(ask) THEN gross ELSE PayeCap(ask)

\* buildRdClaimPackage: a company without book income has made a loss.
RdClaim(input, ask) ==
  LET rdec == 20 * ask.spend IN
  CASE RdScheme(ask) = "rdec" -> [b27 |-> rdec, b28 |-> 0, benefit |-> (3 * rdec) \div 4]
    [] RdScheme(ask) = "sme" /\ input.book <= 0 -> [b27 |-> 0, b28 |-> Surrender(ask), benefit |-> Surrender(ask)]
    [] OTHER -> [b27 |-> 0, b28 |-> 0, benefit |-> 19 * (Enhanced(ask) \div 100)]
=============================================================================
