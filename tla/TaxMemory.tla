----------------------------- MODULE TaxMemory -----------------------------
(* The tax memory (memory.ts): which of the approved precedents is suggested
   for a row of a batch, and the rules without one.  Precedents come newest
   first.  A score is in thousandths, which is exact for names that have up to
   six tokens between them; an age is in tenths of a year, and a period is a
   number. *)
EXTENDS IntakeChecks

\* tax_memory_precedents, as findBestTaxMemoryMatch orders them.
IsPrecedent(p) == p.name \in Names /\ p.age \in Nat
NewestFirst(precedents) ==
  \A i, j \in DOMAIN precedents : i < j => precedents[i].age <= precedents[j].age

MinConfidence == 500
MaxConfidence == 980

\* A precedent is stored by a reviewer's decision on a suggestion for a row.
Taught(row, class, entity, period) ==
  [name |-> row.name, type |-> row.type, entity |-> entity, group |-> "none",
   jurisdiction |-> "UK_FRS102", from |-> period.start, to |-> period.end, age |-> 0, class |-> class]

\* scorePrecedent, when it is not null: half of the tokens agree.
Qualifies(p, row, start) ==
  /\ p.type = row.type /\ p.jurisdiction = "UK_FRS102"
  /\ p.from <= start /\ start <= p.to
  /\ p.name # {} /\ 2 * Cardinality(p.name \cap row.name) >= Cardinality(p.name \cup row.name)

SimilarityScore(p, row) == (300 * Cardinality(p.name \cap row.name)) \div Cardinality(p.name \cup row.name)
ScopeBonus(p, owner) ==
  IF p.entity = owner.entity THEN 150 ELSE IF p.group # "none" /\ p.group = owner.group THEN 100 ELSE 0
\* A tenth of the age in years: nothing is left of it after half a year.
VintageBonus(p) == IF p.age > 5 THEN 0 ELSE 50 - 10 * p.age

Confidence(p, row, owner) ==
  LET score == 500 + SimilarityScore(p, row) + ScopeBonus(p, owner) + VintageBonus(p)
  IN  IF score > MaxConfidence THEN MaxConfidence
      ELSE IF score < MinConfidence THEN MinConfidence ELSE score

\* findBestTaxMemoryMatch: the position of the best, of the first on a tie; 0 without one.
BestMatch(row, precedents, owner, start) ==
  LET best[n \in 0 .. Len(precedents)] ==
        IF n = 0 THEN 0
        ELSE IF /\ Qualifies(precedents[n], row, start)
                /\ \/ best[n - 1] = 0
                   \/ Confidence(precedents[n], row, owner) > Confidence(precedents[best[n - 1]], row, owner)
             THEN n ELSE best[n - 1]
  IN  best[Len(precedents)]

\* FALLBACK_RULES: the words of a name, and the class, the first that fits.
FallbackRules ==
  << <<{"cash", "bank"}, "NODIFF_CASH">>, <<{"receivable", "debtor"}, "NODIFF_AR">>,
     <<{"payable", "creditor"}, "NODIFF_AP">>, <<{"salary", "wage", "payroll"}, "NODIFF_SALARIES">>,
     <<{"depreciation"}, "TEMP_DEPRECIATION">>, <<{"amortisation", "amortization"}, "TEMP_AMORTISATION">>,
     <<{"bad debt", "doubtful", "allowance"}, "TEMP_BAD_DEBT_RESERVE">>,
     <<{"research", "development", "rd"}, "PERM_RD_ADDITION">> >>

FallbackClass(row) ==
  LET fits == SelectSeq(FallbackRules, LAMBDA rule : rule[1] \cap row.name # {})
  IN  IF fits # <<>> THEN fits[1][2]
      ELSE IF row.type = "Income" THEN "NODIFF_REVENUE" ELSE "NODIFF_EXPENSE"

\* generateSuggestionsForBatch for one row
Suggestion(row, precedents, owner, start) ==
  LET best == BestMatch(row, precedents, owner, start)
  IN  IF best # 0
      THEN [source |-> "tax_memory", cited |-> best, class |-> precedents[best].class]
      ELSE [source |-> "rules", cited |-> 0, class |-> FallbackClass(row)]

-----------------------------------------------------------------------------
(* What the memory owes. *)

AtLeast(q, p, row, owner) ==
  /\ SimilarityScore(q, row) >= SimilarityScore(p, row)
  /\ ScopeBonus(q, owner) >= ScopeBonus(p, owner)

\* The suggestion can be explained: a rule only when nothing approved fits, a
\* precedent only when no newer one is as near in name and in scope.
Explained(row, precedents, owner, start) ==
  LET s   == Suggestion(row, precedents, owner, start)
      fit == {i \in DOMAIN precedents : Qualifies(precedents[i], row, start)}
  IN  /\ s.source = "rules" <=> fit = {}
      /\ s.source = "tax_memory" =>
           \A i \in fit : i < s.cited => ~AtLeast(precedents[i], precedents[s.cited], row, owner)

\* A decision is remembered: in its period the class is suggested for the row from
\* then on, whatever else is in the memory.  And only there: in a later period
\* the precedent has ended.
Remembered(row, class, precedents, owner, period) ==
  LET memory == <<Taught(row, class, owner.entity, period)>> \o precedents
  IN  /\ row.name # {} => Suggestion(row, memory, owner, period.start).class = class
      /\ Suggestion(row, memory, owner, period.end + 1).cited # 1
=============================================================================
