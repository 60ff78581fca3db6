SPECIFICATION PackSpec
CONSTANTS
  m1 = m1
  m2 = m2
  m3 = m3
  Policy = "Always"
  MaxRestarts = 2
  Windows = {0, 3}
  BackoffMin = 1
  BackoffMax = 2
  JitterPercent = 20
  Messages = {m1, m2, m3}
  Capacity = 2
  AttemptCap = 1
  LastNode = 1
  Callers = {a, b}
  MaxMoves = 2
INVARIANTS
  RestartsBounded
  NoMessageLost
PROPERTIES
  EveryoneAnswered
  
CHECK_DEADLOCK FALSE
