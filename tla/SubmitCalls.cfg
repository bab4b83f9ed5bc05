SPECIFICATION FairSpec
CONSTANTS
  c1 = c1
  c2 = c2
  c3 = c3
  p1 = p1
  p2 = p2
  Nobody = Nobody
  Calls = {c1, c2, c3}
  Processes = {p1, p2}
  Homes <- TwoServers
  Refreshers = {c2}
  Shapes <- ThreeShapes
  Budget <- AllBudgets
  ConfirmAbove = 1
  ReconfirmAbove = 2
  MaxCrashes = 1
INVARIANTS
  LockDiscipline
  OneOrderInFlight
  NoOrphanJob
  NeverWhole
PROPERTIES
  CallsEnd
CHECK_DEADLOCK FALSE
