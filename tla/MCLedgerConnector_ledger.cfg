CONSTANTS
  s1 = s1
  s2 = s2
  sales = sales
  bank = bank
  both = both
  current = current
  deferred = deferred
  Sessions <- TwoSessions
  Accounts <- TwoAccounts
  Journals <- AllJournals
  XeroPosts <- OneJournal
  NetSuitePosts <- TwoJournals
  NoAccount = NoAccount
  NoBalance = NoBalance
  Unreadable = Unreadable
  JournalLines <- JournalsWithLines
  AccountMaps <- Maps
  XeroReports <- XeroVersions
  QboReports <- QboVersions
  MaxRequests = 3
SPECIFICATION FairSpec
INVARIANTS
  NoJournalTwice
  RecordMatchesLedger
  TokenLossExplained
PROPERTY RequestsEnd
CHECK_DEADLOCK FALSE
