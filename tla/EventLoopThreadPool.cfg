SPECIFICATION Spec
CONSTANTS
  MaxThreads = 3
  MaxConnections = 4
  WaitsForLoops = TRUE
CHECK_DEADLOCK FALSE
INVARIANTS
  TypeOK
  LoopsAlive
  RoundRobin
  ThreadsEndBeforeTheirOwner
  SleepersAreWoken
PROPERTIES
  StartLoopCompletes
  QuitEndsLoop
