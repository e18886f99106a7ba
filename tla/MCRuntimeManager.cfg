SPECIFICATION Spec
CONSTANTS
  c1 = c1
  c2 = c2
  Callers = {c1, c2}
  MaxRequests = 2
  MaxHosts = 2
  MaxDisturbances = 1
CHECK_DEADLOCK FALSE
INVARIANTS
  NoPendingLeak
  NoOrphanHost
  WaitersAreReachable
PROPERTIES
  EveryCallReturns
