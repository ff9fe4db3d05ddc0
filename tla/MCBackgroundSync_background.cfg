SPECIFICATION Spec
CONSTANTS
  Threads = {main, worker}
  Main = main
  MaxSetups = 3
  MaxRequests = 2
  MaxMoves = 2
  MaxIntents = 2
INVARIANTS
  RegistryIsTrue
PROPERTIES
  CallsReturn
  SyncEnds
CHECK_DEADLOCK FALSE
