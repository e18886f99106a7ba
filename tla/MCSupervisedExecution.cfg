SPECIFICATION Spec
CHECK_DEADLOCK FALSE
INVARIANTS
  ReturnedIsClean
  ExecutionIsFinished
PROPERTIES
  CancellationSticks
  EveryCallEnds
  WorkerIsReaped
