SPECIFICATION Spec
CONSTANTS
  MaxMessages = 3
  MaxCharacters = 4
  MaxIterations = 3
  Histories <- MCHistories
  ResultSizes = {1, 3, 4, 5}
CHECK_DEADLOCK FALSE
INVARIANTS
  NothingMoreFits
  PromptIsInOrder
  FailureEnds
  StopAgrees
