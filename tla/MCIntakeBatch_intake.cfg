CONSTANTS
  b1 = b1
  b2 = b2
  inverted = inverted
  renamed = renamed
  sister = sister
  partial = partial
  Blank = Blank
  Unreadable = Unreadable
  g1 = g1
  s1 = s1
  s2 = s2
  NoBatch = NoBatch
  NoFile = NoFile
  Batches <- TwoBatches
  Files <- AllFiles
  Content <- Contents
  Prior <- Closings
  Suggestions <- OneSubject
  Adjustments <- None
  Sessions <- TwoSessions
  Name = Name
  Type = Type
  Year = Year
  Memories <- SomeMemories
  Owner <- Us
  Period <- OurPeriod
  Value = Value
  Rent = Rent
  Sheets <- SomeSheets
  ColumnMaps <- SomeMaps
  MaxSheetRows = 2
  MaxItems = 1
SPECIFICATION Spec
SYMMETRY Symmetry
INVARIANTS
  
  LiveSignsCorrected
  DecisionsBounded
