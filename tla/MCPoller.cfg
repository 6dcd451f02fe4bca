SPECIFICATION Spec
CONSTANTS
  Channels = {c1, c2, c3}
  Fds = {fd1, fd2, fd3}
  kInitEventListSize = 1
  DestroyInCallbacks = FALSE
  LateSends = TRUE
  NoFd = NoFd
  NoChannel = NoChannel
SYMMETRY Symmetry
INVARIANTS
  TypeOK
  RegistryConsistent
  CtlNeverFails
  PolledChannelsWantEvents
  ActiveChannelsRegistered
