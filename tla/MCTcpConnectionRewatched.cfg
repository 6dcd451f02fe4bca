SPECIFICATION Spec
CONSTANTS
  Threads = {t1, t2}
  Messages = {m1, m2}
  MessageSize = 2
  kInitialSize = 1024
  SndBuf = 1
  highWaterMark_ = 3
  MaxInput = 1
  MaxSignals = 0
  PeerMayReset = TRUE
  PayloadsOutlive = TRUE
  ServerMayDie = TRUE
CHECK_DEADLOCK FALSE
INVARIANT UnwatchedInTheEnd
SYMMETRY Symmetry
