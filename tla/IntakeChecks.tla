---------------------------- MODULE IntakeChecks ----------------------------
(* What the intake of a trial balance computes from its rows: the check of a
   row (validate.ts), the sign convention of a batch (sign-convention.ts) and
   the bridge to the accounts of the prior locked run (prior-period-bridge.ts).
   A name is the set of its tokens, an amount is in whole pounds. *)
EXTENDS Integers, Sequences, FiniteSets, SequencesExt

CONSTANTS Blank,       \* an empty field
          Unreadable   \* a field that is neither empty nor a number

\* The tokens of a name.
Names == {name \in SUBSET STRING : IsFiniteSet(name)}

CreditNatured == {"Income", "Equity", "Liability"}
DebitNatured  == {"Expense", "Asset"}
AccountTypes  == CreditNatured \cup DebitNatured
BalanceSheet  == {"Asset", "Liability", "Equity"}

\* The tolerance of the signs and of the openings, in pounds.
Tolerance == 1

-----------------------------------------------------------------------------
(* One row. *)

\* The conditions under which validateRow finds an error, by its code.
ErrorCodes == {"MISSING_REQUIRED", "INVALID_DATE", "PERIOD_OUT_OF_RANGE", "INVALID_AMOUNT", "INVALID_CURRENCY"}
Finds(row, code) ==
  CASE code = "MISSING_REQUIRED"    -> row.name = {} \/ row.type = Blank \/ row.date = "missing"
    [] code = "INVALID_DATE"        -> row.date = "malformed"
    [] code = "PERIOD_OUT_OF_RANGE" -> row.date = "outside"
    [] code = "INVALID_AMOUNT"      -> Unreadable \in {row.debit, row.credit, row.balance}
    [] code = "INVALID_CURRENCY"    -> row.currency # "GBP"

\* parseAmount
Amount(field) == IF field \in {Blank, Unreadable} THEN 0 ELSE field

\* AMOUNT_MISMATCH: a row with both sides, a warning.
BothSides(row) == Amount(row.debit) > 0 /\ Amount(row.credit) > 0

RowStatus(row) ==
  IF \E code \in ErrorCodes : Finds(row, code) THEN "error"
  ELSE IF BothSides(row) THEN "warning" ELSE "ok"

\* normalizeAccountType: what is not known is an expense.
NormalType(type) == IF type \in AccountTypes THEN type ELSE "Expense"

\* The normalized row, of which the later steps use these; a row that names no entity
\* is of 'imported-entity'.
Normalized(row) ==
  [entity  |-> row.entity,
   id      |-> row.id,
   name    |-> row.name,
   type    |-> NormalType(row.type),
   balance |-> IF row.balance = Blank THEN Amount(row.debit) - Amount(row.credit) ELSE Amount(row.balance)]

\* buildBatchSummary: how many rows have errors.
ErrorCount(rows) == Cardinality({i \in DOMAIN rows : RowStatus(rows[i]) = "error"})

\* The rows that a commit writes: those without an error or a warning.
Committable(rows) ==
  LET upTo[n \in 0 .. Len(rows)] ==
        IF n = 0 THEN <<>>
        ELSE IF RowStatus(rows[n]) = "ok" THEN Append(upTo[n - 1], Normalized(rows[n])) ELSE upTo[n - 1]
  IN  upTo[Len(rows)]

-----------------------------------------------------------------------------
(* The signs of a batch; rows are normalized. *)

\* applySignInversion
Invert(rows) == [i \in DOMAIN rows |-> [rows[i] EXCEPT !.balance = -@]]

Total(rows, type) ==
  LET upTo[n \in 0 .. Len(rows)] ==
        IF n = 0 THEN 0 ELSE upTo[n - 1] + (IF rows[n].type = type THEN rows[n].balance ELSE 0)
  IN  upTo[Len(rows)]

\* The types whose total says something, and those of them on the wrong side.
Signalling(rows) ==
  {t \in AccountTypes : Total(rows, t) > Tolerance \/ Total(rows, t) < -Tolerance}
WrongSide(rows) == {t \in Signalling(rows) : Total(rows, t) > 0 <=> t \in CreditNatured}

DetectSignConvention(rows) ==
  IF Cardinality(Signalling(rows)) < 2 \/ WrongSide(rows) = {} THEN "standard"
  ELSE IF WrongSide(rows) = Signalling(rows) THEN "inverted" ELSE "mixed"

-----------------------------------------------------------------------------
(* The bridge: accounts of the prior run and of the batch, both in the order of
   their identities, which are the external ids (a row without one gets one
   made from its number or name). *)

\* precedent-engine.ts nameSimilarity, at least three quarters
Similar(a, b) == a # {} /\ b # {} /\ 4 * Cardinality(a \cap b) >= 3 * Cardinality(a \cup b)
Closer(p, q, name) ==
  Cardinality(p \cap name) * Cardinality(q \cup name) > Cardinality(q \cap name) * Cardinality(p \cup name)

\* Pass 1, pairs of positions: the first account of an id with the first of that id.
FirstOf(accounts, i) == \A j \in 1 .. i - 1 : accounts[j].id # accounts[i].id
SameAccount(prior, current) ==
  {pair \in (DOMAIN prior) \X (DOMAIN current) :
     /\ prior[pair[1]].id = current[pair[2]].id
     /\ FirstOf(prior, pair[1]) /\ FirstOf(current, pair[2])}

\* Pass 2: each account that is left takes the closest prior account of its type
\* that is left, the first of them on a tie.
Renames(prior, current) ==
  LET same == SameAccount(prior, current)
      left == SelectSeq([c \in DOMAIN current |-> c], LAMBDA c : \A pair \in same : pair[2] # c)
      take(pairs, c) ==
        LET free == {p \in DOMAIN prior : /\ \A pair \in same \cup pairs : pair[1] # p
                                          /\ prior[p].type = current[c].type
                                          /\ Similar(prior[p].name, current[c].name)}
            best == {p \in free : \A q \in free :
                       /\ ~Closer(prior[q].name, prior[p].name, current[c].name)
                       /\ q < p => Closer(prior[p].name, prior[q].name, current[c].name)}
        IN  pairs \cup {<<p, c>> : p \in best}
  IN FoldLeft(take, {}, left)

\* Passes 3 and 4: the prior accounts that nothing matches, and the pairs on the
\* balance sheet whose opening is not last year's close.
DiffPriorPeriod(prior, current) ==
  LET renames == Renames(prior, current)
      matched == SameAccount(prior, current) \cup renames
      delta(pair) == current[pair[2]].balance - prior[pair[1]].balance
  IN [renames    |-> renames,
      missing    |-> {p \in DOMAIN prior : \A pair \in matched : pair[1] # p},
      mismatches |-> {pair \in matched : /\ prior[pair[1]].type \in BalanceSheet
                                         /\ current[pair[2]].type \in BalanceSheet
                                         /\ delta(pair) > Tolerance \/ delta(pair) < -Tolerance}]
=============================================================================
