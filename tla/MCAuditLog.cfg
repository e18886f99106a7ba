SPECIFICATION LogSpec
CONSTANTS
  t1 = t1
  t2 = t2
  t3 = t3
  Threads = {t1, t2, t3}
  MaxRecords = 6
  MaxTorn = 2
  MaxRestarts = 1
CHECK_DEADLOCK FALSE
SYMMETRY Symmetry
INVARIANTS
  TurnsMakeAChain
  ReturnedIsKept
