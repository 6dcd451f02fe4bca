SPECIFICATION Spec
CONSTANTS
  Channels = {c1, c2}
  Fds = {fd1, fd2}
  kInitEventListSize = 16
  DestroyInCallbacks = TRUE
  LateSends = FALSE
  NoFd = NoFd
  NoChannel = NoChannel
INVARIANT ActiveChannelsAlive
