--------------------------- MODULE MCIntakeBatch ---------------------------
(* Instances of IntakeBatch for TLC. *)
EXTENDS IntakeBatch, TLC

CONSTANTS b1, b2, inverted, renamed, sister, partial, g1, s1, s2,
          Name, Type, Year, Value, Rent   \* what cells say

TwoBatches  == {b1, b2}
AllFiles    == {inverted, renamed, sister, partial}
OneSubject  == {g1}
None        == {}
TwoSessions == {s1, s2}

Account(id, name, type, balance) ==
  [id |-> id, name |-> name, type |-> type, balance |-> balance]

\* The prior run: a bank account, a loan and the sales.
Closings == << Account("1200", {"bank", "main", "gbp"}, "Asset", 100),
               Account("2300", {"loan"}, "Liability", -60),
               Account("4000", {"sales", "goods"}, "Income", -40) >>

\* A row that states its balance.
Row(id, name, type, balance) ==
  [entity |-> "us", id |-> id, name |-> name, type |-> type, date |-> "valid", currency |-> "GBP",
   debit |-> Blank, credit |-> Blank, balance |-> balance]

Bank(balance)  == Row("1200", {"bank", "main", "gbp"}, "Asset", balance)
Loan(balance)  == Row("2300", {"loan"}, "Liability", balance)
Sales(balance) == Row("4000", {"sales", "goods"}, "Income", balance)
Moved          == Row("1201", {"bank", "main", "gbp", "hq"}, "Asset", 101)
Other          == [Row("5000", {"stock"}, "Asset", 5) EXCEPT !.entity = "sister"]

\* Sheets with a title or a blank row above headers in two orders, once with a merged
\* header, and two rows of amounts, one of which may be blank.
Words(w)  == Cell("words", w)
Title     == {<<>>, <<Words(Rent), NoCell>>}
HeaderRow == {<<Words(Name), Words(Type), Words(Year), Words(Value)>>,
              <<Words(Value), Cell("rich", Type), Words(Name), Words(Year)>>,
              <<Words(Name), Words(Type), Words(Year), Words(Value), Words(Value)>>}
Amounts   == {NoCell, Cell("number", 5), Cell("parens", 3), Cell("parens", -3), Cell("formula", -2),
              Cell("error", 9), Words(7),
              Words(Rent), Cell("external", 4)}
DataRow(a, b) == <<a, NoCell, Words(Rent), a, b>>
SomeSheets == {[name |-> "tb", rows |-> <<t, h, DataRow(a, b), <<NoCell>>, DataRow(b, a)>>] :
                 t \in Title, h \in HeaderRow, a \in Amounts, b \in Amounts}
PlainMap   == Name :> "accountName" @@ Type :> "accountType" @@ Year :> "period" @@ Value :> "debit"
SomeMaps   == {PlainMap, Year :> "accountName" @@ Type :> "accountType" @@ Name :> "period" @@ Value :> "balance",
               Name :> "accountName" @@ Type :> "accountType" @@ Value :> "debit"}

\* One file of each kind the gates tell apart: every sign turned round, with a loan
\* that opens at another balance once they are turned back; a renamed account, beside
\* a row with both sides, which is not committed, and sales on the wrong side; rows of
\* another entity and account; and a file of another source, a row of which has an error.
Contents ==
     inverted :> [source |-> "xlsx", rows |-> <<Bank(-100), Loan(70), Sales(70)>>]
  @@ renamed  :> [source |-> "xlsx", rows |-> <<Moved, [Loan(Blank) EXCEPT !.debit = 20, !.credit = 80], Sales(41)>>]
  @@ sister   :> [source |-> "xlsx", rows |-> <<Other>>]
  @@ partial  :> [source |-> "csv",  rows |-> <<Bank(100), [Loan(-60) EXCEPT !.balance = Unreadable]>>]

\* Up to two precedents beside those taught: nearer and farther in name, scope, type,
\* time and age.
OurPeriod == [start |-> 4, end |-> 15]
Us        == [entity |-> "us", group |-> "ours"]
Precedent(name, type, entity, to, age) ==
  [name |-> name, type |-> type, entity |-> entity, group |-> IF entity = "sister" THEN "ours" ELSE "none",
   jurisdiction |-> "UK_FRS102", from |-> 0, to |-> to, age |-> age, class |-> "NODIFF_CASH"]
Precedents ==
  {Precedent(n, t, e, to, a) : n \in {{"bank", "main", "gbp"}, {"bank", "main"}, {"sales", "goods"}, {}},
     t \in {"Asset", "Income"}, e \in {"us", "sister", "other"}, to \in {3, 4}, a \in {0, 4}}
SomeMemories == {<<>>} \cup {<<p>> : p \in Precedents}
  \cup {<<p, q>> : p \in {x \in Precedents : x.age = 0}, q \in {x \in Precedents : x.age = 4}}

\* Batches and sessions are interchangeable.
Symmetry == Permutations(TwoBatches) \cup Permutations(TwoSessions)
=============================================================================
