CONSTANTS
  sales = sales
  costs = costs
  plant = plant
  press = press
  van = van
  mill = mill
  Unmapped = Unmapped
  Accounts <- ThreeAccounts
  Companies <- SomeCompanies
  Requests <- SomeRequests
  Decisions <- DecisionsOf
  Assets <- SomeAssets
  Claims <- SomeClaims
  MaxRuns = 2
SPECIFICATION TaxSpec
INVARIANTS
  ExportsReconcile
  FiguresRestOnEvidence
  ReconciliationExplains
  AllowancesWithinCost
  ArtefactsValidate
