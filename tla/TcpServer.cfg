SPECIFICATION Spec
CONSTANTS
  MaxThreads = 2
  MaxConns = 2
  MaxFds = 2
CHECK_DEADLOCK FALSE
INVARIANTS
  TypeOK
  NoDanglingPointer
  OneCustodian
  ClosedLeavesMap
  DownReported
PROPERTIES
  ImplementsLifecycle
  ClientServed
  ClosedIsFreed
  DestructorEnds
