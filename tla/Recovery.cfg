SPECIFICATION RecoverySpec
CONSTANTS
  Task = {r, c, d}
  Agent = {A, B}
  r = r
  c = c
  d = d
  A = A
  B = B
  None = None
  Shape <- MCShape
  MaxChain = 1
  MaxCrashes = 2
  MaxSnapshots = 2
  MaxUpsets = 1
CHECK_DEADLOCK FALSE
INVARIANTS
  RebuildAgrees
  MemoryIsKept
