SPECIFICATION Spec
CONSTANTS
  MaxThreads = 1
  MaxConnections = 1
  WaitsForLoops = FALSE
CHECK_DEADLOCK FALSE
PROPERTY QuitEndsLoop
