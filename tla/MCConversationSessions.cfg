SPECIFICATION Spec
CONSTANTS
  s1 = s1
  s2 = s2
  m1 = m1
  m2 = m2
  m3 = m3
  Sessions = {s1, s2}
  Messages = {m1, m2, m3}
  UserLength <- MCUserLength
  ReplyLength <- MCReplyLength
  MaxSessions = 1
  MaxMessages = 3
  MaxMessageLength = 2
  MaxTotalLength = 4
  MaxFaults = 1
  MaxRestarts = 1
CHECK_DEADLOCK FALSE
SYMMETRY Symmetry
INVARIANTS
  MemoryIsDurable
  LimitsHold
  DeletedStaysDeleted
  AnswersAreStored
