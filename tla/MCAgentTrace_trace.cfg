CONSTANTS
  q1 = q1
  q2 = q2
  c1 = c1
  c2 = c2
  NoCalc = NoCalc
  NoClient = NoClient
  Tenants = {acme, brit}
  Calcs <- MCCalcs
  Clients <- MCClients
  Swarm <- OneAgent
SPECIFICATION Spec
INVARIANTS
  TraceTellsTheRun
PROPERTY
  CalculationsEnd
CHECK_DEADLOCK FALSE
