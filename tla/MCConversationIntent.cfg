SPECIFICATION Spec
CONSTANTS
  s1 = s1
  s2 = s2
  m1 = m1
  m2 = m2
  m3 = m3
  Sessions = {s1}
  Messages = {m1, m2}
  UserLength <- MCShort
  ReplyLength <- MCShort
  MaxSessions = 1
  MaxMessages = 4
  MaxMessageLength = 2
  MaxTotalLength = 4
  MaxFaults = 0
  MaxRestarts = 0
CHECK_DEADLOCK FALSE
SYMMETRY Symmetry
INVARIANTS
  IntentIsSeparate
