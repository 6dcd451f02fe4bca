SPECIFICATION Spec
CONSTANTS
  Threads = {t1}
  Messages = {m1}
  MessageSize = 2
  kInitialSize = 1024
  SndBuf = 1
  highWaterMark_ = 3
  MaxInput = 1
  MaxSignals = 0
  PeerMayReset = FALSE
  PayloadsOutlive = TRUE
  ServerMayDie = FALSE
CHECK_DEADLOCK FALSE
INVARIANT ProcessSurvives
