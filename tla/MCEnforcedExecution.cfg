SPECIFICATION Spec
CONSTANTS
  Jobs = {j1, j2, j3}
  NoJob = NoJob
CHECK_DEADLOCK FALSE
INVARIANTS
  NoUnconfinedWork
  EndsHoldNothing
