SPECIFICATION FairSpec
CONSTANTS
  ask = ask
  risky = risky
  wrong = wrong
  plain = plain
  Order <- MCOrder
  Asks = {ask}
  Gated = {risky}
  Rerunnable = {risky}
  Idempotent = {ask}
  Malformed = {wrong}
  Truncated = {plain}
  MaxStops = 2
  MaxFails = 2
  MaxCrashes = 3
INVARIANTS
  NoDangling
  DecisionsSpentOnce
PROPERTIES
  GuardedExecution
  TurnEnds
CHECK_DEADLOCK FALSE
