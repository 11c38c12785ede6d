CONSTANTS
  ann = ann
  pat = pat
  pam = pam
  r1 = r1
  r2 = r2
  gap = gap
  age = age
  year = year
  p1 = p1
  in1 = in1
  s1 = s1
  s2 = s2
  Nobody = Nobody
  NoRun = NoRun
  NoInput = NoInput
  Users <- MCUsers
  RoleOf <- MCRoleOf
  Items <- HighItemAndPeriod
  Runs <- OneRun
  RunOf <- MCRunOf
  KindOf <- MCKindOf
  Proposals <- OneProposal
  Inputs <- OneInput
  Sessions <- TwoSessions
  MakerChecker = TRUE
SPECIFICATION Spec
SYMMETRY Partnership
CONSTRAINT Bounded
INVARIANTS
  DecisionSigned
  CheckedRowHolds
  SignedOff
  BilledOnce
  MakerIsNotChecker
PROPERTIES
  LockedSignOffFrozen
  ImplementsLifecycle
