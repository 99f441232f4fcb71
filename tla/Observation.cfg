SPECIFICATION Spec
CONSTANTS
  MaxTurns = 2
  MaxCrashes = 1
  MaxCancels = 1
  Short <- ShortTurns
  Early = FALSE
  Late = FALSE
  Between = FALSE
INVARIANTS
  TurnsAreTold
  AtRest
PROPERTIES
  EndsWhole
  ObservationsEnd
CHECK_DEADLOCK FALSE
