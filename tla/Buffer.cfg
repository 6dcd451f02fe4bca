SPECIFICATION Spec
CONSTANTS
  kCheapPrepend = 2
  kInitialSize = 3
  ExtraSize = 2
  MaxAppend = 4
  MaxBytes = 10
CHECK_DEADLOCK FALSE
INVARIANTS
  TypeOK
  ReadableFits
PROPERTIES
  QueueUntilOverrun
