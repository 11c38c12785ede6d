------------------------------ MODULE TaxEngine ------------------------------
(***************************************************************************)
(* The deterministic tax engine (packages/tax-engine) as the provision     *)
(* routes use it (runProvisionMath: no openings, no credits, no payments,  *)
(* no losses brought forward).  The engine computes in decimals; here a    *)
(* balance is a multiple of a thousand pounds, rates are percentages and   *)
(* tax is in mills, thousandths of a pound, in which every figure is       *)
(* exact.                                                                  *)
(***************************************************************************)
EXTENDS Integers, FiniteSetsExt

Abs(x) == IF x < 0 THEN -x ELSE x

NonNegative(x) == IF x > 0 THEN x ELSE 0

Total(f) == MapThenSumSet(LAMBDA a : f[a], DOMAIN f)

UkJurisdictions == {"UK_FRS102", "UK_FRS102_S29", "UK"}
UsJurisdictions == {"US", "US-Federal", "US_ASC740"}

\* resolveJurisdiction refuses every other value.
Known(j) == j \in UkJurisdictions \cup UsJurisdictions

(***************************************************************************)
(* Current tax.                                                            *)
(***************************************************************************)
SmallLimit == 50000
UpperLimit == 250000

MarginalRelief(p) ==
  IF SmallLimit < p /\ p < UpperLimit THEN 15 * (UpperLimit - p) ELSE 0

\* 19% up to the lower limit, 25% beyond it less the marginal relief.
UkTax(p) == (IF p <= SmallLimit THEN 190 ELSE 250) * p - MarginalRelief(p)

\* What an input of runProvisionMath is charged.  A US company pays the
\* federal rate and, on 15% of its income, its state's.
Taxable(input) == NonNegative(input.book + Total(input.permanent))

Relief(input) == IF input.uk THEN MarginalRelief(Taxable(input)) ELSE 0

FederalTax(input) ==
  IF input.uk THEN UkTax(Taxable(input)) ELSE 10 * input.rate * Taxable(input)

StateTax(input) ==
  IF input.uk THEN 0 ELSE (15 * input.stateRate * Taxable(input)) \div 10

CurrentTax(input) == FederalTax(input) + StateTax(input)

(***************************************************************************)
(* Book-tax differences of temporary accounts.                             *)
(***************************************************************************)
MacrsLife(type) ==
  CASE type \in {"TEMP_DEPRECIATION", "TEMP_ACCELERATED_DEPRECIATION",
                 "TEMP_BONUS_DEPRECIATION", "TEMP_SECTION_179"} -> 5
    [] type = "TEMP_AMORTIZATION" -> 15
    [] OTHER -> 0

\* MACRS_TABLES: in ten thousandths, by year in service.
MacrsTable(life) ==
  IF life = 5 THEN <<2000, 3200, 1920, 1152, 1152, 576>>
  ELSE <<500, 950, 855, 770, 693, 623, 590, 590, 591, 590, 591, 590, 591, 590, 591, 295>>

DefaultFactor(type) ==
  CASE type = "TEMP_BAD_DEBT_RESERVE"    -> 1500
    [] type = "TEMP_WARRANTY_RESERVE"    -> 5000
    [] type = "TEMP_DEFERRED_REVENUE"    -> 4000
    [] type = "TEMP_ACCRUED_LIABILITIES" -> 3000
    [] OTHER -> 1000

UkFixedAssetTypes ==
  {"TEMP_FIXED_ASSET_ALLOWANCE", "TEMP_DEPRECIATION", "TEMP_ACCELERATED_DEPRECIATION"}

\* The factor a balance is multiplied by; no caller claims UK first-year relief.
TimingFactor(uk, type, age) ==
  LET table == MacrsTable(MacrsLife(type))
  IN  IF uk /\ type \in UkFixedAssetTypes THEN 1800
      ELSE IF MacrsLife(type) = 0 THEN DefaultFactor(type)
      ELSE IF age \in DOMAIN table THEN table[age] ELSE 0

\* Wrong on purpose: amortised accounts are trusted without a date.
RequiresEvidenceDepreciation(type) ==
  (MacrsLife(type) = 5) \/ type \in UkFixedAssetTypes

\* Whether the factor needs the date the asset was placed in service.
RequiresEvidence(type) == MacrsLife(type) # 0 \/ type \in UkFixedAssetTypes

AtLeastOne(x) == IF x > 1 THEN x ELSE 1

\* Whole calendar years in service; Undated stands for no date.
Undated == 0

Year(date)  == date \div 10000
Month(date) == (date \div 100) % 100

AgeOf(type, placed, from, assumed) ==
  IF RequiresEvidence(type) /\ placed # Undated
  THEN AtLeastOne(Year(from) - Year(placed) + 1)
  ELSE AtLeastOne(assumed)

\* In tenths of a pound.
Difference(uk, type, balance, age) ==
  (Abs(balance) \div 1000) * TimingFactor(uk, type, age)

(***************************************************************************)
(* Deferred tax: magnitudes, an asset for deductible differences and a     *)
(* liability for the others, at the tenant's rate.                         *)
(***************************************************************************)
Closing(input, side) ==
  Total([a \in {b \in DOMAIN input.temporary : input.temporary[b].side = side} |->
           input.rate * input.temporary[a].difference])

\* Wrong on purpose: the movement of assets less that of liabilities.
DeferredTaxReversed(input) == Closing(input, "DTA") - Closing(input, "DTL")

DeferredTax(input) == Closing(input, "DTL") - Closing(input, "DTA")

TotalTax(input) == CurrentTax(input) + DeferredTax(input)

(***************************************************************************)
(* The walk from the statutory to the effective rate: the tax of its       *)
(* lines.                                                                  *)
(***************************************************************************)
StatutoryLine(input) == 10 * input.rate * input.book
PermanentLine(input) == 10 * input.rate * Total(input.permanent)
StateLine(input)     == ((100 - input.rate) * StateTax(input)) \div 100

\* Wrong on purpose: relief is added.
OtherLineAdded(input) == Relief(input)

OtherLine(input) == -Relief(input)

Walk(input) ==
  StatutoryLine(input) + PermanentLine(input) + StateLine(input) + OtherLine(input)

(***************************************************************************)
(* Journal entries: a set of lines for each type of entry.                 *)
(***************************************************************************)
Dr(account, mills) == [account |-> account, debit |-> mills, credit |-> 0]
Cr(account, mills) == [account |-> account, debit |-> 0, credit |-> mills]

CurrentEntry(input) ==
  LET tax == CurrentTax(input)
  IN  IF tax > 0 THEN {Dr("tax-expense-current", tax), Cr("tax-payable", tax)} ELSE {}

DeferredEntry(input) ==
  LET net == DeferredTax(input)
  IN  CASE net > 0 ->
             {Dr("tax-expense-deferred", net)} \cup
             (IF Closing(input, "DTL") > 0 THEN {Cr("deferred-tax-liability", net)} ELSE {})
        [] net < 0 ->
             {Cr("tax-expense-deferred", -net)} \cup
             (IF Closing(input, "DTA") > 0 THEN {Dr("deferred-tax-asset", -net)} ELSE {})
        [] OTHER -> {}
=============================================================================
