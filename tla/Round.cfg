SPECIFICATION FairSpec
CONSTANTS
  tool = tool
  turn = turn
  turn2 = turn2
  Questions <- MCThree
  Turns <- MCTurns2
  Msg = Msg
  NoQ = NoQ
  Races <- MCNone
  MaxSaid = 2
  MaxStops = 2
  MaxFails = 2
  MaxCrashes = 1
INVARIANTS
  TypeOK
  MemoryIsTrue
  AnswerActsOnce
PROPERTIES
  AnswerArrives
CHECK_DEADLOCK FALSE
