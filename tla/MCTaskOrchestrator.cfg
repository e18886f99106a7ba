SPECIFICATION Spec
CONSTANTS
  r1 = r1
  r2 = r2
  Requests = {r1, r2}
  Rules <- MCRules
  MaxAuditFaults = 2
CHECK_DEADLOCK FALSE
INVARIANTS
  TypeOK
  OutcomeAgrees
  CauseAgrees
  RefusedNeverRuns
  SecondRunIsSafe
  AbandonedIsSignalled
  ToolLogAgrees
PROPERTIES
  ImplementsLifecycle
  QuietAfterReturn
  CancellationSticks
