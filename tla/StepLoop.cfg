SPECIFICATION Spec
CONSTANTS
  MaxTurns = 2
  MaxRecoveries = 1
  MaxAttempts = 2
  MaxChunks = 2
  Kinds <- MCKinds
  Tasks <- MCTasks
INVARIANTS
  PromptIsMemory
  OnlyWhatCounts
  CallsRunOnce
PROPERTIES
  RunEnds
CHECK_DEADLOCK FALSE
