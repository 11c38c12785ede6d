------------------------- MODULE MCLedgerConnector -------------------------
(* Instances of LedgerConnector for TLC. *)
EXTENDS LedgerConnector, TLC

CONSTANTS s1, s2, sales, bank, both, current, deferred

TwoSessions == {s1, s2}
TwoAccounts == {sales, bank}
AllJournals == {both, current, deferred}
OneJournal  == <<both>>
TwoJournals == <<current, deferred>>

Debit(account)  == [account |-> account, amount |-> 25]
Credit(account) == [account |-> account, amount |-> -25]
Charge == <<Debit("expense"), Credit("payable")>>
Timing == <<Debit("deferred expense"), Credit("provision")>>
JournalsWithLines == both :> Charge \o Timing @@ current :> Charge @@ deferred :> Timing

\* A map that reaches one journal, and one that leaves half of the other out.
Maps == {{"expense", "payable"}, {"expense", "payable", "provision"}}

\* Xero nests its rows in sections; the second version of the books no longer has
\* the sales, and a row that names no account.
XeroRow(account, debit, credit) ==
  [type |-> "Row", account |-> account, debit |-> debit, credit |-> credit]
XeroVersions == <<
  << [type |-> "Section", rows |-> <<XeroRow(sales, 0, 40)>>],
     [type |-> "Section", rows |-> <<XeroRow(bank, 40, 0)>>],
     [type |-> "SummaryRow"] >>,
  << XeroRow(bank, 30, Unreadable), XeroRow(NoAccount, 0, 30) >> >>

\* QuickBooks gives columns, and here two sub-accounts of the bank; its second
\* version has lost a column.
QboRow(account, debit, credit) ==
  [type |-> "Data", account |-> account, cells |-> <<debit, credit>>]
QboVersions == <<
  [columns |-> <<"Debit", "Credit">>,
   rows    |-> <<QboRow(bank, 15, 0), QboRow(bank, 25, 0), QboRow(sales, 0, 40), [type |-> "Total"]>>],
  [columns |-> <<"Debit">>, rows |-> <<QboRow(bank, 30, 0)>>] >>
=============================================================================
