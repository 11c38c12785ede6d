CONSTANTS
  r1 = r1
  r2 = r2
  r3 = r3
  r4 = r4
  r5 = r5
  s1 = s1
  s2 = s2
  NoRun = NoRun
  Runs <- FiveRuns
  Sessions <- TwoSessions
  Standings <- PaidOrNot
  Allowances <- OneRunAMonth
  Limits <- LowLimit
  MaxAllowance = 1
  LastMonth = 1
SPECIFICATION Spec
SYMMETRY Likeness
INVARIANTS
  OneEventPerRun
  OverrunBounded
  OverageAfterAllowance
