-------------------------- MODULE MCTaxCalculation --------------------------
(* An instance of TaxCalculation for TLC. *)
EXTENDS TaxCalculation, TLC

CONSTANTS sales, costs, plant, press, van, mill

ThreeAccounts == {sales, costs, plant}

Company(j, rate, state, id) ==
  [jurisdiction |-> j, rate |-> rate, stateRate |-> state, id |-> id]

SomeCompanies ==
  {Company("UK_FRS102", 25, 0, "number"), Company("UK", 21, 0, "lower case number"),
   Company("US", 21, 0, "UTR"), Company("US-Federal", 21, 8, "UTR"),
   Company("France", 25, 0, "UTR")}

Rows(s, c, p, placed) ==
  [type |-> (sales :> "Sales") @@ (costs :> "Expense") @@ (plant :> "Fixed Asset"),
   balance |-> (sales :> -s) @@ (costs :> c) @@ (plant :> p),
   placed |-> (sales :> Undated) @@ (costs :> Undated) @@ (plant :> placed)]

Between(from, to) == [from |-> from, to |-> to]

\* Profits of exactly the two limits, in the relief band, in no band (a loss)
\* and too small for the rate to be stored; periods in one fiscal year, across
\* two, before April 2023 and across it.
SomeRequests ==
  {[accounts |-> ThreeAccounts, rows |-> Rows(60000, 10000, 9000, Undated), period |-> Between(20240401, 20250331)],
   [accounts |-> ThreeAccounts, rows |-> Rows(300000, 50000, 8000, 20220715), period |-> Between(20250401, 20260331)],
   [accounts |-> ThreeAccounts, rows |-> Rows(160000, 7000, 25000, 20091201), period |-> Between(20240101, 20241231)],
   [accounts |-> ThreeAccounts, rows |-> Rows(160000, 90000, 25000, Undated), period |-> Between(20230101, 20231231)],
   [accounts |-> ThreeAccounts, rows |-> Rows(5000, 9000, 4000, 20200105), period |-> Between(20210401, 20220331)],
   [accounts |-> ThreeAccounts, rows |-> Rows(3000, 2000, 250000, Undated), period |-> Between(20240401, 20250331)],
   [accounts |-> {}, rows |-> [type |-> << >>, balance |-> << >>, placed |-> << >>], period |-> Between(20240401, 20250331)]}

Decision(treatment, type, timing, doubtful) ==
  [treatment |-> treatment, type |-> type, timing |-> timing, doubtful |-> doubtful]

DecisionsOf ==
  (sales :> {Decision("no_diff", "INCOME", "none", FALSE),
             Decision("permanent", "PERM_EXEMPT", "none", FALSE)})
  @@ (costs :> {Decision("permanent", "PERM_MEALS", "none", TRUE),
                Decision("temporary", "TEMP_BAD_DEBT_RESERVE", "deductible", FALSE)})
  @@ (plant :> {Decision("temporary", "TEMP_DEPRECIATION", "taxable", FALSE),
                Decision("temporary", "TEMP_AMORTIZATION", "taxable", FALSE)})

Asset(id, pool, cost, placed, disposed, proceeds) ==
  [id |-> id, poolType |-> pool, cost |-> cost, placed |-> placed,
   disposed |-> disposed, proceeds |-> proceeds]

\* Two that exceed the annual limit together, one of them sold; a van whose
\* pool is small; one of the year after.
SomeAssets ==
  {Asset(press, "aia", 600000, 20240510, Never, 0),
   Asset(mill, "aia", 700000, 20241102, 20250301, 90000),
   Asset(van, "single_asset", 1200, 20240801, Never, 0),
   Asset(press, "special_rate", 50000, 20250801, 20260102, 60000)}

\* At and beyond the limits of the scheme, a loss whose credit the payroll caps,
\* an intensive one, and a claim that asks for nothing.
Claim(spend, headcount, paye, total, rdec) ==
  [spend |-> spend, headcount |-> headcount, paye |-> paye, costs |-> total, rdec |-> rdec]

SomeClaims ==
  {Claim(2000000, 249, 0, 6000000, FALSE), Claim(2000001, 249, 0, 0, FALSE),
   Claim(90000, 250, 0, 0, FALSE), Claim(90000, 20, 5000, 100000, FALSE),
   Claim(90000, 20, 90000, 300000, TRUE), Claim(0, 0, 0, 0, FALSE)}
=============================================================================
