-------------------------- MODULE CapitalAllowances --------------------------
(***************************************************************************)
(* Capital allowances (CAA 2001): the engine's calculator of one pool and  *)
(* the pools the asset register of an entity is gathered into for a        *)
(* period.  Amounts are multiples of a hundred pounds, dates are numbers   *)
(* YYYYMMDD, Never stands for no date.                                     *)
(***************************************************************************)
EXTENDS TaxEngine

AiaLimit        == 1000000
SmallPoolsLimit == 1000
Never           == 0

Percent(rate, x) == (rate * x) \div 100

Smaller(x, y) == IF x < y THEN x ELSE y

Rate(pool) ==
  CASE pool = "main" -> 18 [] pool = "special" -> 6 [] pool = "sba" -> 3

\* Wrong on purpose: what AIA relieved enters the pool as well.
RemainderWhole(in) == in.expenditure

AiaUsed(in) ==
  IF in.pool # "sba" /\ in.claimAIA THEN Smaller(in.expenditure, AiaLimit) ELSE 0

Remainder(in) == in.expenditure - AiaUsed(in)

\* Full expensing, or half of it for the special pool, of new assets only.
FirstYear(in) ==
  IF in.pool # "sba" /\ in.claimFullExpensing /\ in.isNew
  THEN Percent(IF in.pool = "main" THEN 100 ELSE 50, Remainder(in))
  ELSE 0

\* The pool is floored at nil; a structure's base is not.
Pool(in) ==
  LET balance == in.prior + Remainder(in) - FirstYear(in) - in.disposals
  IN  IF balance < 0 /\ in.pool # "sba" THEN 0 ELSE balance

\* A pool that would close at a thousand pounds or less is written off.
WritingDown(in) ==
  LET pool    == Pool(in)
      allowed == IF pool > 0 THEN Percent(Rate(in.pool), pool) ELSE 0
  IN  IF in.pool # "sba" /\ pool - allowed \in 1..SmallPoolsLimit THEN pool ELSE allowed

\* What calculateUkCapitalAllowance returns.
Allowance(in) ==
  [firstYear |-> AiaUsed(in) + FirstYear(in), writingDown |-> WritingDown(in),
   closing |-> Pool(in) - WritingDown(in), aiaUsed |-> AiaUsed(in)]

(***************************************************************************)
(* The asset register.                                                     *)
(***************************************************************************)
PoolTypes == {"main", "special_rate", "aia", "fya", "single_asset"}

\* What the routes refuse to store.
ValidAsset(x) ==
  /\ x.poolType \in PoolTypes
  /\ x.cost >= 0 /\ x.proceeds >= 0
  /\ x.disposed # Never => x.disposed >= x.placed

Within(date, period) == period.from <= date /\ date <= period.to

Additions(register, period) == {x \in register : Within(x.placed, period)}

\* Assets of one type share a pool, a single asset is a pool of its own.
PoolOf(x) == IF x.poolType = "single_asset" THEN <<x.poolType, x.id>> ELSE <<x.poolType>>

Proceeds(x, period) == IF Within(x.disposed, period) THEN x.proceeds ELSE 0

PoolInput(type, assets, period) ==
  [pool |-> IF type = "special_rate" THEN "special" ELSE "main",
   expenditure |-> Total([x \in assets |-> x.cost]),
   disposals |-> Total([x \in assets |-> Proceeds(x, period)]),
   prior |-> 0, claimAIA |-> type = "aia",
   claimFullExpensing |-> type = "fya", isNew |-> FALSE]

\* summarizeRegisterCapitalAllowances: a row for each pool with additions.
Summary(register, period) ==
  LET added == Additions(register, period)
      pools == {PoolOf(x) : x \in added}
  IN  [k \in pools |-> PoolInput(k[1], {x \in added : PoolOf(x) = k}, period)]

TotalAllowance(summary) ==
  Total([k \in DOMAIN summary |->
           Allowance(summary[k]).firstYear + Allowance(summary[k]).writingDown])
=============================================================================
