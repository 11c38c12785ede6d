CONSTANTS
  u1 = u1
  u2 = u2
  u3 = u3
  rate = rate
  relief = relief
  w1 = w1
  l1 = l1
  NoRule = NoRule
  Rules <- ThreeRules
  Keys <- TwoKeys
  Windows <- SomeWindows
  MaxVersion = 2
  Runs <- OneOfEach
  Workbench <- WorkbenchRun
  AsOf <- PeriodEnds
SPECIFICATION RegistrySpec
SYMMETRY Likeness
INVARIANTS
  RulesExplained
