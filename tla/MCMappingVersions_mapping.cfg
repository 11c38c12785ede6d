CONSTANTS
  a1 = a1
  a2 = a2
  p1 = p1
  p2 = p2
  j1 = j1
  j2 = j2
  s1 = s1
  s2 = s2
  w1 = w1
  w2 = w2
  NoAccount = NoAccount
  NoProposal = NoProposal
  NoJob = NoJob
  Accounts <- OneAccount
  Proposals <- TwoProposals
  Jobs <- OneJob
  Sessions <- TwoSessions
  Workers <- TwoWorkers
  MaxVersion = 2
SPECIFICATION FairSpec
CONSTRAINT Bounded
INVARIANTS
  OneActivePerAccount
  CarryForwardBounded
PROPERTIES
  HumanDecisionStands
  QueuedJobEnds
  MappingsAreVersioned
