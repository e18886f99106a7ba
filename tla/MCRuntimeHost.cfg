CONSTANTS
  w1 = w1
  w2 = w2
  message = message
  rejected = rejected
  odd = odd
  blank = blank
  deep = deep
  strange = strange
  Lines = {message, rejected, odd, blank, deep, strange}
  Text <- MCText
  MaxWritten = 3
  Workers = {w1, w2}
  NoWorker = NoWorker
SPECIFICATION Spec
INVARIANTS
  ReaderUnderstands
  ExitIsTruthful
PROPERTIES
  KeepsContract
  EveryLineSettles
CHECK_DEADLOCK FALSE
