SPECIFICATION Spec
CONSTANTS
  Callers = {c1, c2}
  Functors = {f1, f2, f3}
  MaxLoops = 2
INVARIANTS
  TypeOK
  NoStrandedFunctor
  WakeupReadFindsData
PROPERTIES
  ImplementsFunctorQueue
  QueuedFunctorRuns
  QuitLeavesLoop
