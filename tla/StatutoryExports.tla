-------------------------- MODULE StatutoryExports --------------------------
(***************************************************************************)
(* What is derived from a stored result: the journals (export/journals),   *)
(* the CT600 boxes of the results routes (export/ct600) and of the handoff *)
(* (handoff/ct600), the iXBRL facts, and the validators that gate a        *)
(* handoff (export-schema-validator).  Amounts are in pennies.  A figure   *)
(* that ends in half a penny may round either way in floating point: it is *)
(* rounded up here, and what is said of sums allows a penny.               *)
(***************************************************************************)
EXTENDS TaxEngine

\* round2, and what a column numeric(18, 2) keeps: halves away from zero.
Pennies(mills) ==
  IF mills < 0 THEN -((5 - mills) \div 10) ELSE (mills + 5) \div 10

\* The columns of provision_results the exports read.
Columns(input) ==
  [current |-> Pennies(CurrentTax(input)), deferred |-> Pennies(DeferredTax(input)),
   total |-> Pennies(TotalTax(input)), book |-> 100 * input.book]

(***************************************************************************)
(* Journals.                                                               *)
(***************************************************************************)
Rounded(lines) ==
  {[l EXCEPT !.debit = Pennies(l.debit), !.credit = Pennies(l.credit)] : l \in lines}

Shown(lines) == {l \in Rounded(lines) : l.debit # 0 \/ l.credit # 0}

\* entriesFromEngineDetail: entries without lines are left out.
EngineEntries(input) ==
  {Shown(CurrentEntry(input)), Shown(DeferredEntry(input))} \ {{}}

\* A posting in the direction of the sign of the amount.
Posting(expense, other, amount) ==
  IF amount > 0 THEN {Dr(expense, amount), Cr(other, amount)}
  ELSE IF amount < 0 THEN {Dr(other, -amount), Cr(expense, -amount)}
  ELSE {}

\* deriveEntriesFromColumns, when the detail holds no entries.
DerivedEntries(columns) ==
  {Posting("tax-expense-current", "tax-payable", columns.current),
   Posting("tax-expense-deferred",
           IF columns.deferred > 0 THEN "deferred-tax-liability" ELSE "deferred-tax-asset",
           columns.deferred)} \ {{}}

JournalExport(input) ==
  IF EngineEntries(input) # {} THEN EngineEntries(input) ELSE DerivedEntries(Columns(input))

(***************************************************************************)
(* CT600.                                                                  *)
(***************************************************************************)
\* buildCt600Return of these amounts; no credits, deductions or payments.
Boxes(profits, main, small, relief) ==
  LET charge == NonNegative(main + small - relief)
  IN  [b5 |-> profits, b10 |-> profits, b11 |-> profits, b12 |-> main, b13 |-> small,
       b14 |-> relief, b15 |-> charge, b16 |-> 0, b17 |-> 0, b19 |-> charge,
       b20 |-> 0, b22 |-> charge]

\* ct600FromProvisionDetail, given the current tax of the result: all of it in
\* Box 12, whatever the band; the stored detail holds no marginal relief.
ResultsBoxes(input) ==
  Boxes(100 * Taxable(input), Columns(input).current, 0, 0)

\* buildHandoffCt600: the band chosen from the profits.
HandoffBoxes(input) ==
  LET profits == Taxable(input)
      charge  == Pennies(FederalTax(input))
      gross   == 25 * profits
  IN  IF profits <= SmallLimit THEN Boxes(100 * profits, 0, charge, 0)
      ELSE IF profits < UpperLimit
        THEN Boxes(100 * profits, gross, 0, NonNegative(gross - charge))
      ELSE Boxes(100 * profits, charge, 0, 0)

Regime(period) ==
  CASE period.to < 20230401 -> "flat2022"
    [] period.from >= 20230401 /\ period.to < 20270401 -> "current"
    [] period.from < 20230401 /\ period.to >= 20230401 -> "straddle"
    [] OTHER -> "future"

Near(x, y) == Abs(x - y) <= 1

NearPercent(x, rate, base) == Near(x, (rate * base + 50) \div 100)

\* The rules about what the boxes say of one another.
BoxesConsistent(b) ==
  /\ b.b5 = b.b10 /\ b.b11 = b.b5
  /\ Near(b.b15, NonNegative(b.b12 + b.b13 - b.b14))
  /\ Near(b.b19, NonNegative(b.b15 - b.b16 - b.b17))
  /\ Near(b.b22, NonNegative(b.b19 - b.b20))
  /\ \A n \in DOMAIN b : b[n] >= 0
  /\ ~(b.b12 > 0 /\ b.b13 > 0)

\* The rules about the band, in force since April 2023.
BandAligned(b) ==
  LET p == b.b5
  IN  IF p <= 100 * SmallLimit
      THEN NearPercent(b.b13, 19, p) /\ b.b12 = 0 /\ b.b14 = 0
      ELSE IF p >= 100 * UpperLimit
      THEN NearPercent(b.b12, 25, p) /\ b.b13 = 0 /\ b.b14 = 0
      ELSE /\ NearPercent(b.b12, 25, p) /\ b.b13 = 0
           /\ Near(b.b14, (15 * (100 * UpperLimit - p) + 500) \div 1000)

\* The rule of the flat rate before.
FlatAligned(b) == NearPercent(b.b12, 19, b.b5) /\ b.b13 = 0 /\ b.b14 = 0

\* validateCt600Rules.  The UTR the handoff passes always has ten digits; of
\* the external ids it passes as a company number the validator refuses the
\* ones with lower case letters.  The periods here are of dates in order, a
\* year and a half at most.
Ct600Valid(b, period, id) ==
  /\ id # "lower case number"
  /\ BoxesConsistent(b)
  /\ Regime(period) = "current" => BandAligned(b)
  /\ Regime(period) = "flat2022" => FlatAligned(b)

(***************************************************************************)
(* iXBRL.                                                                  *)
(***************************************************************************)
\* The facts of deriveHandoffArtifacts: collectFacts leaves zeros out.
IxbrlFacts(input) ==
  LET columns == Columns(input)
      figures == [profitBeforeTax |-> columns.book, tax |-> columns.total,
                  currentTax |-> FederalTax(input), deferredTax |-> columns.deferred,
                  profitAfterTax |-> NonNegative(columns.book - columns.total)]
  IN  {f \in DOMAIN figures : figures[f] # 0}

\* validateIxbrlDocument: the builder meets its other checks by construction.
IxbrlValid(input) == IxbrlFacts(input) # {}

\* Two of the gates of mark-handoff-ready.
Exportable(input, period, id) ==
  Ct600Valid(HandoffBoxes(input), period, id) /\ IxbrlValid(input)
=============================================================================
