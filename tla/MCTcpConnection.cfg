SPECIFICATION Spec
CONSTANTS
  Threads = {t1, t2}
  Messages = {m1, m2}
  MessageSize = 3
  kInitialSize = 4
  SndBuf = 1
  highWaterMark_ = 3
  MaxInput = 1
  MaxSignals = 2
  PeerMayReset = TRUE
  PayloadsOutlive = TRUE
  ServerMayDie = TRUE
CHECK_DEADLOCK FALSE
INVARIANTS
  TypeOK
  StreamIntact
  WaitingBytesAreWatched
  UpOnceDownOnce
  UnwatchedAfterDown
  ShutdownNotForgotten
PROPERTIES
  FinAfterData
  MessagesWhileUp
  ShutdownCompletes
  OutputFlushed
