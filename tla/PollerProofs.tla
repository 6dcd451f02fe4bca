---------------------------- MODULE PollerProofs ----------------------------
(***************************************************************************)
(* Proofs about Poller for any channels, descriptors and list size.        *)
(***************************************************************************)
EXTENDS Poller, TLAPS

\* The inductive invariant: both registrations of every channel agree with
\* its index_, and its index_ with how far the owner has come.
Inv ==
  /\ TypeOK
  /\ IndexMatchesKernel
  /\ MapMatchesIndex
  /\ StageMatchesIndex
  /\ CtlNeverFails

\* A channel without interest is on the kernel's list only while it is
\* being removed.
LEMMA IdleMeansRemoving ==
  ASSUME Inv, NEW c \in Channels, index_[c] = kAdded, events_[c] = kNoneEvent
  PROVE  stage[c] = "removing"
  BY DEF Inv, TypeOK, StageMatchesIndex, kNew, kAdded, kDeleted, kNoneEvent,
         kReadEvent

\* The descriptor of a channel with an owner is open.
LEMMA OwnedMeansOpen ==
  ASSUME Inv, NEW c \in Channels, stage[c] # "none"
  PROVE  fd_[c] \in Fds
  BY DEF Inv, TypeOK, StageMatchesIndex

\* An unregistered channel's descriptor is not on the kernel's list.
LEMMA NotAddedNotWatched ==
  ASSUME Inv, NEW c \in Channels, index_[c] # kAdded, fd_[c] # NoFd
  PROVE  fd_[c] \notin DOMAIN epoll
  BY DEF Inv, TypeOK, StageMatchesIndex, IndexMatchesKernel

-----------------------------------------------------------------------------
\* The three epoll_ctl calls, when they do not fail.
LEMMA CtlAdd ==
  ASSUME Inv, NEW c \in Channels, fd_[c] \in Fds \ DOMAIN epoll,
         NEW events, EpollCtl("ADD", c, events)
  PROVE  /\ ctlFailed' = FALSE
         /\ epoll' = [g \in DOMAIN epoll \cup {fd_[c]} |->
                        IF g = fd_[c] THEN Entry(c, events) ELSE epoll[g]]
  BY DEF Inv, CtlNeverFails, EpollCtl

\* EPOLL_CTL_MOD of a descriptor in the list succeeds.
LEMMA CtlMod ==
  ASSUME Inv, NEW c \in Channels, fd_[c] \in DOMAIN epoll,
         NEW events, EpollCtl("MOD", c, events)
  PROVE  /\ ctlFailed' = FALSE
         /\ epoll' = [g \in DOMAIN epoll \cup {fd_[c]} |->
                        IF g = fd_[c] THEN Entry(c, events) ELSE epoll[g]]
  BY DEF Inv, CtlNeverFails, EpollCtl

\* EPOLL_CTL_DEL of a descriptor in the list succeeds.
LEMMA CtlDel ==
  ASSUME Inv, NEW c \in Channels, fd_[c] \in DOMAIN epoll,
         NEW events, EpollCtl("DEL", c, events)
  PROVE  /\ ctlFailed' = FALSE
         /\ epoll' = [g \in DOMAIN epoll \ {fd_[c]} |-> epoll[g]]
  BY DEF Inv, CtlNeverFails, EpollCtl

\* The two registrations agree and are well typed.
Registry ==
  /\ index_ \in [Channels -> {kNew, kAdded, kDeleted}]
  /\ events_ \in [Channels -> Events]
  /\ channels_ \in [Fds -> Channels \cup {NoChannel}]
  /\ DOMAIN epoll \subseteq Fds
  /\ epoll \in [DOMAIN epoll -> [ptr : Channels, events : Events]]
  /\ ctlFailed = FALSE
  /\ IndexMatchesKernel
  /\ MapMatchesIndex

\* updateChannel on an open descriptor keeps the registry consistent and
\* never makes epoll_ctl fail.
LEMMA UpdateKeepsRegistry ==
  ASSUME Inv, NEW c \in Channels, fd_[c] \in Fds, NEW events \in Events,
         UpdateChannel(c, events), fd_' = fd_, late \subseteq late'
  PROVE  /\ Registry'
         /\ index_' = [index_ EXCEPT ![c] =
                         IF index_[c] = kAdded /\ events = kNoneEvent
                         THEN kDeleted ELSE kAdded]
         /\ events_' = [events_ EXCEPT ![c] = events]
<1> USE PollerAssumption DEF kNew, kAdded, kDeleted, SetIndex
<1>1. CASE AddChannel(c, events)
  <2>1. fd_[c] \notin DOMAIN epoll
    BY <1>1, PollerAssumption, NotAddedNotWatched DEF AddChannel
  <2>2. /\ ctlFailed' = FALSE
        /\ epoll' = [g \in DOMAIN epoll \cup {fd_[c]} |->
                       IF g = fd_[c] THEN Entry(c, events) ELSE epoll[g]]
    BY <1>1, <2>1, CtlAdd DEF AddChannel
  <2>3. /\ index_' = [index_ EXCEPT ![c] = kAdded]
        /\ events_' = [events_ EXCEPT ![c] = events]
        /\ channels_' = IF index_[c] = kNew THEN [channels_ EXCEPT ![fd_[c]] = c]
                        ELSE channels_
    BY <1>1 DEF AddChannel, UpdateChannel
  <2>4. /\ index_' \in [Channels -> {kNew, kAdded, kDeleted}]
        /\ events_' \in [Channels -> Events]
        /\ channels_' \in [Fds -> Channels \cup {NoChannel}]
        /\ DOMAIN epoll' \subseteq Fds
    BY <2>2, <2>3 DEF Inv, TypeOK
  <2>5. epoll' \in [DOMAIN epoll' -> [ptr : Channels, events : Events]]
    BY <2>2 DEF Inv, TypeOK, Entry
  <2>6. IndexMatchesKernel'
    BY <2>1, <2>2, <2>3 DEF Inv, TypeOK, IndexMatchesKernel, StageMatchesIndex,
       Entry
  <2>7. MapMatchesIndex'
    BY <2>3 DEF Inv, TypeOK, MapMatchesIndex, StageMatchesIndex
  <2>8. index_[c] # kAdded
    BY <1>1 DEF AddChannel
  <2>9. QED
    BY <2>2, <2>3, <2>4, <2>5, <2>6, <2>7, <2>8 DEF Registry
<1>2. CASE DropChannel(c, events)
  <2>1. fd_[c] \in DOMAIN epoll
    BY <1>2 DEF DropChannel, Inv, IndexMatchesKernel
  <2>2. /\ ctlFailed' = FALSE
        /\ epoll' = [g \in DOMAIN epoll \ {fd_[c]} |-> epoll[g]]
    BY <1>2, <2>1, CtlDel DEF DropChannel
  <2>3. QED
    BY <1>2, <2>1, <2>2 DEF DropChannel, UpdateChannel, Registry, Inv, TypeOK,
       IndexMatchesKernel, MapMatchesIndex, StageMatchesIndex, Entry
<1>3. CASE ModifyChannel(c, events)
  <2>1. fd_[c] \in DOMAIN epoll
    BY <1>3 DEF ModifyChannel, Inv, IndexMatchesKernel
  <2>2. /\ ctlFailed' = FALSE
        /\ epoll' = [g \in DOMAIN epoll \cup {fd_[c]} |->
                       IF g = fd_[c] THEN Entry(c, events) ELSE epoll[g]]
    BY <1>3, <2>1, CtlMod DEF ModifyChannel
  <2>3. QED
    BY <1>3, <2>1, <2>2 DEF ModifyChannel, UpdateChannel, Registry, Inv,
       TypeOK, IndexMatchesKernel, MapMatchesIndex, StageMatchesIndex, Entry
<1>4. QED
  BY <1>1, <1>2, <1>3 DEF UpdateChannel

\* So does removeChannel.
LEMMA RemoveKeepsRegistry ==
  ASSUME Inv, NEW c \in Channels, index_[c] # kNew, RemoveChannel(c),
         fd_' = fd_, late' = late
  PROVE  /\ Registry'
         /\ index_' = [index_ EXCEPT ![c] = kNew]
         /\ events_' = events_
<1> USE PollerAssumption DEF kNew, kAdded, kDeleted, SetIndex
<1>1. CASE index_[c] = kAdded
  <2>1. fd_[c] \in DOMAIN epoll
    BY <1>1 DEF Inv, IndexMatchesKernel
  <2>2. /\ ctlFailed' = FALSE
        /\ epoll' = [g \in DOMAIN epoll \ {fd_[c]} |-> epoll[g]]
    BY <1>1, <2>1, CtlDel DEF RemoveChannel
  <2>3. QED
    BY <1>1, <2>1, <2>2 DEF RemoveChannel, Registry, Inv, TypeOK,
       IndexMatchesKernel, MapMatchesIndex, StageMatchesIndex, Entry
<1>2. CASE index_[c] # kAdded
  BY <1>2 DEF RemoveChannel, Registry, Inv, TypeOK, CtlNeverFails,
     IndexMatchesKernel, MapMatchesIndex, StageMatchesIndex, Entry
<1>3. QED
  BY <1>1, <1>2

-----------------------------------------------------------------------------
\* A step of an owner that updates its channel and moves on to stage s.
LEMMA UpdateKeepsInv ==
  ASSUME Inv, NEW c \in Channels, NEW events \in Events,
         NEW s \in {"up", "closed", "removing", "rewatched"},
         stage[c] \in {"new", "up", "removed", "rewatched"},
         InUserCode,
         UpdateChannel(c, events), SetStage(c, s), fd_' = fd_,
         late' \in SUBSET Channels, late \subseteq late',
         UNCHANGED loopVars,
         s = "up" => kReadEvent \subseteq events,
         s = "closed" => stage[c] = "up" /\ events = kNoneEvent,
         s = "rewatched" => /\ c \in late'
                            /\ stage[c] = "removed" => events # kNoneEvent
                            /\ stage[c] = "rewatched" =>
                                 events # kNoneEvent \/ events_[c] # kNoneEvent
                            /\ stage[c] \notin {"new", "up"}
  PROVE  Inv'
<1>1. fd_[c] \in Fds
  BY OwnedMeansOpen
<1>2. /\ Registry'
      /\ index_' = [index_ EXCEPT ![c] =
                      IF index_[c] = kAdded /\ events = kNoneEvent
                      THEN kDeleted ELSE kAdded]
      /\ events_' = [events_ EXCEPT ![c] = events]
  BY <1>1, UpdateKeepsRegistry
<1>3. TypeOK'
  BY <1>2 DEF Inv, TypeOK, Registry, SetStage, loopVars
<1>4. StageMatchesIndex'
  BY <1>2 DEF Inv, TypeOK, StageMatchesIndex, SetStage, loopVars, InUserCode,
     InCallback, kNew, kAdded, kDeleted, kNoneEvent, kReadEvent
<1>5. QED
  BY <1>2, <1>3, <1>4 DEF Inv, Registry, CtlNeverFails

\* Whatever owners do with their channels, in the orders the code makes.
LEMMA OwnerKeepsInv ==
  ASSUME Inv, NEW c \in Channels, Owner(c)
  PROVE  Inv'
<1> USE PollerAssumption
<1>0. late \in SUBSET Channels
  BY DEF Inv, TypeOK
<1>1. ASSUME NEW f \in Fds, Construct(c, f)
      PROVE  Inv'
  <2>1. TypeOK'
    BY <1>1 DEF Construct, Inv, TypeOK, SetStage, pollerVars, loopVars
  <2>2. IndexMatchesKernel' /\ MapMatchesIndex' /\ CtlNeverFails'
    BY <1>1 DEF Construct, Inv, TypeOK, IndexMatchesKernel, MapMatchesIndex,
       StageMatchesIndex, CtlNeverFails, SetStage, pollerVars, loopVars,
       kNew, kAdded, Entry
  <2>3. StageMatchesIndex'
    BY <1>1 DEF Construct, Inv, TypeOK, StageMatchesIndex, SetStage, IsOpen,
       pollerVars, loopVars, InUserCode, InCallback
  <2>4. QED
    BY <2>1, <2>2, <2>3 DEF Inv
<1>2. CASE EnableReading(c)
  <2>1. events_[c] \cup kReadEvent \in Events
    BY DEF Inv, TypeOK, Events
  <2>2. QED
    BY <1>2, <1>0, <2>1, UpdateKeepsInv DEF EnableReading
<1>3. CASE EnableWriting(c)
  <2>1. /\ events_[c] \cup kWriteEvent \in Events
        /\ kReadEvent \subseteq events_[c] \cup kWriteEvent
    BY <1>3 DEF EnableWriting, Inv, TypeOK, Events, StageMatchesIndex
  <2>2. SetStage(c, "up")
    BY <1>3 DEF EnableWriting, SetStage, Inv, TypeOK
  <2>3. QED
    BY <1>3, <1>0, <2>1, <2>2, UpdateKeepsInv DEF EnableWriting
<1>4. CASE DisableWriting(c)
  <2>1. /\ events_[c] \ kWriteEvent \in Events
        /\ stage[c] = "up" => kReadEvent \subseteq events_[c] \ kWriteEvent
        /\ events_[c] # kNoneEvent
    BY <1>4 DEF DisableWriting, IsWriting, Inv, TypeOK, Events,
       StageMatchesIndex, kReadEvent, kWriteEvent, kNoneEvent
  <2>2. SetStage(c, stage[c]) /\ InUserCode
    BY <1>4 DEF DisableWriting, SetStage, Inv, TypeOK, InUserCode
  <2>3. stage[c] = "rewatched" => c \in late
    BY DEF Inv, StageMatchesIndex
  <2>4. QED
    BY <1>4, <1>0, <2>1, <2>2, <2>3, UpdateKeepsInv DEF DisableWriting
<1>5. CASE SendAfterRemoval(c)
  <2>1. /\ events_[c] \cup kWriteEvent \in Events
        /\ events_[c] \cup kWriteEvent # kNoneEvent
    BY DEF Inv, TypeOK, Events, kWriteEvent, kNoneEvent
  <2>2. late' \in SUBSET Channels /\ late \subseteq late' /\ c \in late'
    BY <1>5, <1>0 DEF SendAfterRemoval
  <2>3. InUserCode /\ stage[c] \in {"removed", "rewatched"}
    BY <1>5 DEF SendAfterRemoval, InUserCode
  <2>4. QED
    BY <1>5, <2>1, <2>2, <2>3, UpdateKeepsInv DEF SendAfterRemoval
<1>6. CASE HandleClose(c)
  <2>1. InUserCode /\ kNoneEvent \in Events
    BY <1>6 DEF HandleClose, InUserCode, kNoneEvent, Events
  <2>2. stage[c] = "rewatched" => c \in late
    BY DEF Inv, StageMatchesIndex
  <2>3. CASE stage[c] = "up"
    BY <1>6, <1>0, <2>1, <2>3, UpdateKeepsInv DEF HandleClose
  <2>4. CASE stage[c] = "rewatched"
    BY <1>6, <1>0, <2>1, <2>2, <2>4, UpdateKeepsInv DEF HandleClose
  <2>5. QED
    BY <1>6, <2>3, <2>4 DEF HandleClose
<1>7. CASE DisableForRemoval(c)
  <2>1. InUserCode /\ kNoneEvent \in Events
    BY <1>7 DEF DisableForRemoval, MayDestroy, InUserCode, kNoneEvent, Events
  <2>2. QED
    BY <1>7, <1>0, <2>1, UpdateKeepsInv DEF DisableForRemoval
<1>8. CASE Remove(c)
  <2>1. index_[c] # kNew
    BY <1>8 DEF Remove, Inv, StageMatchesIndex, kNew, kAdded, kDeleted
  <2>2. /\ Registry'
        /\ index_' = [index_ EXCEPT ![c] = kNew]
        /\ events_' = events_
    BY <1>8, <2>1, RemoveKeepsRegistry DEF Remove
  <2>3. TypeOK'
    BY <1>8, <2>2 DEF Remove, Inv, TypeOK, Registry, SetStage, loopVars
  <2>4. StageMatchesIndex'
    BY <1>8, <2>2 DEF Remove, Inv, TypeOK, StageMatchesIndex, SetStage,
       loopVars, InUserCode, InCallback
  <2>5. QED
    BY <2>2, <2>3, <2>4 DEF Inv, Registry, CtlNeverFails
<1>9. CASE Free(c)
  <2>1. /\ fd_[c] \in Fds
        /\ stage[c] = "removed" => index_[c] = kNew
        /\ stage[c] = "rewatched" => c \in late
        /\ stage[c] \in {"removed", "rewatched"}
        /\ index_' = [index_ EXCEPT ![c] = kNew]
    BY <1>9, OwnedMeansOpen DEF Free, Inv, StageMatchesIndex, SetIndex
  <2>2. \A d \in Channels \ {c} : fd_[d] # fd_[c]
    BY <2>1 DEF Inv, TypeOK, StageMatchesIndex
  <2>3. DOMAIN epoll' = DOMAIN epoll \ {fd_[c]}
        /\ \A g \in DOMAIN epoll' : epoll'[g] = epoll[g]
    BY <1>9 DEF Free
  <2>4. TypeOK'
    BY <1>9, <2>1 DEF Free, Inv, TypeOK, SetStage, loopVars, Events,
       kNoneEvent, kNew
  <2>5. IndexMatchesKernel'
    BY <1>9, <2>1, <2>2, <2>3 DEF Free, Inv, TypeOK, IndexMatchesKernel,
       kNew, kAdded, Entry
  <2>6. MapMatchesIndex'
    BY <1>9, <2>1 DEF Free, Inv, TypeOK, MapMatchesIndex, kNew
  <2>7. StageMatchesIndex'
    BY <1>9, <2>1 DEF Free, Inv, TypeOK, StageMatchesIndex, SetStage,
       loopVars, InUserCode, InCallback, kNew, kNoneEvent
  <2>8. QED
    BY <1>9, <2>4, <2>5, <2>6, <2>7 DEF Free, Inv, CtlNeverFails
<1>10. QED
  BY <1>1, <1>2, <1>3, <1>4, <1>5, <1>6, <1>7, <1>8, <1>9 DEF Owner

\* A step of the loop leaves channels and registrations alone.
LEMMA LoopKeepsInv ==
  ASSUME Inv, Loop
  PROVE  Inv'
<1> USE PollerAssumption DEF channelVars, pollerVars
<1>1. CASE Poll
  <2>1. PICK ready \in SUBSET DOMAIN epoll :
          /\ activeChannels_' = {epoll[f].ptr : f \in ready}
          /\ listSize' = NextListSize(Cardinality(ready))
    BY <1>1 DEF Poll
  <2>2. activeChannels_' \in SUBSET Channels
    BY <2>1 DEF Inv, TypeOK
  <2>3. listSize' \in Nat \ {0}
    BY <2>1 DEF Inv, TypeOK, NextListSize
  <2>4. TypeOK'
    BY <1>1, <2>2, <2>3 DEF Poll, Inv, TypeOK
  <2>5. StageMatchesIndex'
    BY <1>1, <2>2 DEF Poll, Inv, TypeOK, StageMatchesIndex, InUserCode,
       InCallback
  <2>6. QED
    BY <1>1, <2>4, <2>5 DEF Poll, Inv, IndexMatchesKernel, MapMatchesIndex,
       CtlNeverFails
<1>2. ASSUME NEW c \in Channels, HandleEvent(c)
      PROVE  Inv'
  BY <1>2 DEF HandleEvent, Inv, TypeOK, IndexMatchesKernel, MapMatchesIndex,
     StageMatchesIndex, CtlNeverFails, InUserCode, InCallback
<1>3. CASE CallbacksReturn \/ DoPendingFunctors \/ PendingFunctorsDone
  BY <1>3 DEF CallbacksReturn, DoPendingFunctors, PendingFunctorsDone, Inv,
     TypeOK, IndexMatchesKernel, MapMatchesIndex, StageMatchesIndex,
     CtlNeverFails, InUserCode, InCallback, NobodyRemoving
<1>4. QED
  BY <1>1, <1>2, <1>3 DEF Loop

\* Every step keeps the registry consistent.
LEMMA RegistryStep ==
  ASSUME Inv, [Next]_vars
  PROVE  Inv'
<1>1. CASE UNCHANGED vars
  BY <1>1, SMTT(30)
  DEF vars, channelVars, pollerVars, loopVars, Inv, TypeOK,
     IndexMatchesKernel, MapMatchesIndex, StageMatchesIndex, CtlNeverFails,
     InUserCode, InCallback
<1>2. QED
  BY <1>1, OwnerKeepsInv, LoopKeepsInv DEF Next

\* The registry of channels is consistent after any sequence of the calls
\* that owners make, late sends after remove included, on any number of
\* channels and descriptors, and no epoll_ctl ever fails.  The one thing
\* that may be stale are entries of channels_ for objects that a late send
\* brought back.
THEOREM RegistryCorrect == Spec => []Inv
<1>1. Init => Inv
  BY PollerAssumption, ZenonT(30) DEF Init, Inv, TypeOK, IndexMatchesKernel,
     MapMatchesIndex, StageMatchesIndex, CtlNeverFails, Events, kNew, kAdded,
     kDeleted, kNoneEvent
<1>2. QED
  BY <1>1, RegistryStep, PTL DEF Spec

\* Every variable of the registry keeps its type.
THEOREM TypeCorrect == Spec => []TypeOK
  BY RegistryCorrect, PTL DEF Inv

\* index_ tells what the kernel's interest list holds, and channels_ has
\* every channel that index_ says is registered, and no other but those of
\* objects that a late send brought back after remove.
THEOREM RegistrationsAgree == Spec => []RegistryConsistent
  BY RegistryCorrect, PTL DEF Inv, RegistryConsistent

\* No call of an owner makes epoll_ctl fail, which would end the process.
THEOREM CtlSucceeds == Spec => []CtlNeverFails
  BY RegistryCorrect, PTL DEF Inv

\* The loop never polls a channel that asked for nothing.
THEOREM NeverPollsIdleChannels == Spec => []PolledChannelsWantEvents
<1>1. Inv => PolledChannelsWantEvents
  <2> SUFFICES ASSUME Inv, phase = "poll", NEW f \in DOMAIN epoll
               PROVE  epoll[f].events # kNoneEvent
    BY DEF PolledChannelsWantEvents
  <2>1. PICK c \in Channels : epoll[f].ptr = c /\ index_[c] = kAdded /\ fd_[c] = f
    BY DEF Inv, TypeOK, IndexMatchesKernel
  <2>2. epoll[f].events = events_[c]
    <3>1. epoll[f] = [ptr |-> c, events |-> events_[c]]
      BY <2>1 DEF Inv, IndexMatchesKernel, Entry
    <3>2. QED
      BY <3>1
  <2>3. stage[c] # "removing"
    BY <2>1 DEF Inv, StageMatchesIndex, InUserCode, InCallback
  <2>4. QED
    BY <2>1, <2>2, <2>3, IdleMeansRemoving
<1>2. QED
  BY <1>1, RegistryCorrect, PTL

\* As long as owners destroy channels only from functors, no pointer that
\* poll returned is to a channel that was removed or freed meanwhile, but
\* for objects that a late send brought back after remove.
THEOREM DispatchesRegisteredChannels ==
  ASSUME DestroyInCallbacks = FALSE
  PROVE  Spec => []ActiveChannelsRegistered
<1>1. Init => ActiveChannelsRegistered
  BY DEF Init, ActiveChannelsRegistered
<1>2. Inv /\ ActiveChannelsRegistered /\ [Next]_vars
        => ActiveChannelsRegistered'
  <2> SUFFICES ASSUME Inv, ActiveChannelsRegistered, [Next]_vars
               PROVE  ActiveChannelsRegistered'
    OBVIOUS
  <2>1. Inv'
    BY RegistryStep
  <2>2. SUFFICES ASSUME NEW d \in activeChannels_'
                 PROVE  d \notin late' => stage'[d] = "up"
    BY <2>1 DEF ActiveChannelsRegistered, Inv, TypeOK, StageMatchesIndex
  <2>3. ASSUME NEW c \in Channels, Owner(c)
        PROVE  d \notin late' => stage'[d] = "up"
    <3>1. /\ d \in activeChannels_ /\ d \in Channels
          /\ phase = "dispatch" /\ d # current
          /\ late \subseteq late'
      BY <2>3 DEF Owner, EnableReading, EnableWriting, DisableWriting,
         SendAfterRemoval, HandleClose, DisableForRemoval, Remove, Free,
         Construct, loopVars, Inv, TypeOK, StageMatchesIndex
    <3>2. CASE d \notin late'
      <4>1. stage[d] = "up"
        BY <3>1, <3>2 DEF ActiveChannelsRegistered
      <4>2. QED
        BY <2>3, <3>1, <4>1 DEF Owner, EnableReading, EnableWriting,
           DisableWriting, SendAfterRemoval, HandleClose, DisableForRemoval,
           Remove, Free, Construct, SetStage, MayDestroy, Inv, TypeOK
    <3>3. QED
      BY <3>2
  <2>4. CASE Poll
    <3>1. PICK f \in DOMAIN epoll : d = epoll[f].ptr
      BY <2>4 DEF Poll
    <3>2. /\ d \in Channels /\ index_[d] = kAdded
          /\ stage' = stage /\ late' = late
      BY <2>4, <3>1 DEF Poll, channelVars, Inv, TypeOK, IndexMatchesKernel
    <3>3. stage[d] # "removing"
      BY <2>4, <3>2 DEF Poll, Inv, StageMatchesIndex, InUserCode, InCallback
    <3>4. QED
      BY <3>2, <3>3 DEF Inv, TypeOK, StageMatchesIndex, kNew, kAdded, kDeleted
  <2>5. CASE Loop /\ ~Poll
    BY <2>5 DEF Loop, HandleEvent, CallbacksReturn, DoPendingFunctors,
       PendingFunctorsDone, channelVars, ActiveChannelsRegistered
  <2>6. CASE UNCHANGED vars
    BY <2>6 DEF vars, channelVars, loopVars, ActiveChannelsRegistered
  <2>7. QED
    BY <2>3, <2>4, <2>5, <2>6 DEF Next
<1>3. QED
  BY <1>1, <1>2, RegistryCorrect, PTL DEF Spec
=============================================================================
