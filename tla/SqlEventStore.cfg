SPECIFICATION FairSpec
CONSTANTS
  c1 = c1
  c2 = c2
  s1 = s1
  s2 = s2
  b1 = b1
  b2 = b2
  b3 = b3
  e1 = e1
  e2 = e2
  e3 = e3
  x = x
  y = y
  NoCaller = NoCaller
  MaxCalls = 2
  Callers <- MCCallers
  Sessions <- MCSessions
  BatchIds <- MCBatchIds
  EventIds <- MCEventIds
  Bodies <- MCBodies
  Requests <- MCRequests
INVARIANTS
  TypeOK
  LogWellFormed
  AnswersTrue
PROPERTIES
  ImplementsEventLog
  CallsReturn
CHECK_DEADLOCK FALSE
