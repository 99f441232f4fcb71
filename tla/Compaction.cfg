SPECIFICATION Spec
CONSTANTS
  Tasks = {1, 2, 3, 4}
  Current = 4
  Parent <- MCParent
  Turns <- MCTurns
  Pictures <- MCPictures
  Short = {2}
  Histories <- MCHistories
  KeepLast = 1
  CollapseKeep = 1
  MaxCrashes = 1
  Reapplied = FALSE
INVARIANTS
  NothingLost
  DetailsAccounted
