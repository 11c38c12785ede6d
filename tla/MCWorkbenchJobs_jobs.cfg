CONSTANTS
  k1 = k1
  k2 = k2
  d1 = d1
  d2 = d2
  a1 = a1
  a2 = a2
  s1 = s1
  s2 = s2
  NoKey = NoKey
  NoDoc = NoDoc
  Keys <- TwoKeys
  Docs <- TwoDocs
  Accounts <- TwoAccounts
  Rows <- Opposite
  Sessions <- TwoSessions
SPECIFICATION FairSpec
INVARIANTS
  PartialInputExplained
PROPERTIES
  OnceByKey
  CompleteImportOwnsItsRows
  RequestsEnd
