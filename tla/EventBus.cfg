SPECIFICATION BusSpec
CONSTANTS
  t1 = t1
  a1 = a1
  b1 = b1
  Tasks = {t1}
  Runs = {a1, b1}
  TaskOf <- MCOneTask
  Background = {b1}
  RunLength = 3
  MaxWindows = 1
  MaxInterrupts = 1
  QueueSize = 3
  MaxPosition = 5
  MaxTransient = 2
INVARIANTS
  TypeOK
  SeenIsDurable
  OrderIsKept
  RoundsAreAtomic
  QueueTypeOK
  LossIsAnnounced
PROPERTIES
  BufferedIsDecided
  LossReachesObserver
CHECK_DEADLOCK FALSE
