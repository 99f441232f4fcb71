SPECIFICATION Spec
CONSTANTS
  main = main
  first = first
  second = second
  kid = kid
  side = side
  last = last
  other = other
  port = port
  None = None
  Host = Host
  Task <- MCRoots
  Parent <- MCRootParent
  Plan <- MCRootPlan
  Deps <- MCRootDeps
  Agent <- MCRootAgent
  Port <- MCRootPort
  Unattended = {last}
  MaxConcurrent = 1
  MaxRetries = 1
  MaxRequeues = 1
  Threshold = 1
  MaxAgain = 1
  MaxResumes = 1
  MaxCrashes = 1
  MaxUpsets = 3
INVARIANTS
  TypeOK
  EveryoneIsReached
PROPERTIES
  TerminalUntilTripped
CHECK_DEADLOCK FALSE
