SPECIFICATION FairSpec
CONSTANTS
  main = main
  first = first
  second = second
  kid = kid
  side = side
  last = last
  other = other
  port = port
  None = None
  Host = Host
  Task <- MCPlanTasks
  Parent <- MCPlanParent
  Plan <- MCPlanPlan
  Deps <- MCPlanDeps
  Agent <- MCPlanAgent
  Port <- MCPlanPort
  Unattended = {}
  MaxConcurrent = 2
  MaxRetries = 0
  MaxRequeues = 1
  Threshold = 2
  MaxAgain = 1
  MaxResumes = 0
  MaxCrashes = 1
  MaxUpsets = 1
INVARIANTS
  NothingForgotten
  GatesHold
PROPERTIES
  DependenciesFirst
  ParentIsWoken
CHECK_DEADLOCK FALSE
