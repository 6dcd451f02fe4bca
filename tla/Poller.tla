------------------------------- MODULE Poller -------------------------------
(***************************************************************************)
(* The channels of one event loop (mudlite/net/Channel.{h,cc}), its        *)
(* EPollPoller (mudlite/net/poller/EPollPoller.cc) and the kernel's        *)
(* interest list behind epoll_ctl.  All of it runs on the loop's thread:   *)
(* what is hard is the sequence of calls.  A channel is registered twice,  *)
(* in channels_ and in the kernel, index_ remembers where, the kernel      *)
(* hands back raw pointers, and descriptors are reused.                    *)
(*                                                                         *)
(* The owners of channels are the EventLoop (its wakeup channel), Acceptor *)
(* and TcpConnection; "stage" says how far an owner has come with its      *)
(* channel.  What a callback does with its data is left to TcpConnection.  *)
(*                                                                         *)
(* An operator named X_Y is a faulty variant of X that a property must     *)
(* catch; the specification does not use it.                               *)
(***************************************************************************)
EXTENDS Naturals, FiniteSets

CONSTANTS
  Channels,            \* Channel objects; a freed one may be constructed anew
  Fds,                 \* file descriptors
  kInitEventListSize,  \* first size of the array given to epoll_wait
  DestroyInCallbacks,  \* owners destroy channels from other channels' callbacks
  LateSends,           \* a queued sendInLoop may run after connectDestoryed
  NoFd, NoChannel

ASSUME PollerAssumption ==
  /\ kInitEventListSize \in Nat \ {0}
  /\ DestroyInCallbacks \in BOOLEAN
  /\ LateSends \in BOOLEAN
  /\ NoFd \notin Fds
  /\ NoChannel \notin Channels

kNew     == "kNew"
kAdded   == "kAdded"
kDeleted == "kDeleted"

kNoneEvent  == {}
kReadEvent  == {"read"}
kWriteEvent == {"write"}

VARIABLES
  stage,           \* how far each channel's owner has come with it
  fd_, index_, events_,
  late,            \* history: the objects a late send enabled after remove
  channels_,       \* the poller's map from descriptors to channels
  epoll,           \* the kernel's interest list, a function on descriptors
  ctlFailed,       \* some epoll_ctl returned an error
  listSize,        \* events_.size() of the poller
  phase,           \* where the loop's thread is
  activeChannels_, \* reported channels whose handleEvent is still to be called
  current          \* the channel whose callbacks are running

channelVars == <<stage, fd_, index_, events_, late>>
pollerVars  == <<channels_, epoll, ctlFailed>>
loopVars    == <<listSize, phase, activeChannels_, current>>
vars == <<channelVars, pollerVars, loopVars>>

Init ==
  /\ stage = [c \in Channels |-> "none"]
  /\ fd_ = [c \in Channels |-> NoFd]
  /\ index_ = [c \in Channels |-> kNew]
  /\ events_ = [c \in Channels |-> kNoneEvent]
  /\ late = {}
  /\ channels_ = [f \in Fds |-> NoChannel]
  /\ epoll = [f \in {} |-> {}]
  /\ ctlFailed = FALSE
  /\ listSize = kInitEventListSize
  /\ phase = "functors"
  /\ activeChannels_ = {}
  /\ current = NoChannel

-----------------------------------------------------------------------------
(***************************************************************************)
(* epoll_ctl, the poller's two operations, and the channel's.              *)
(***************************************************************************)

IsOpen(f) == \E c \in Channels : fd_[c] = f

Entry(c, events) == [ptr |-> c, events |-> events]

\* ADD fails on a descriptor that is there (EEXIST), MOD and DEL on one that
\* is not (ENOENT); a failed call changes nothing in the kernel.
EpollCtl(op, c, events) ==
  LET f == fd_[c]
      fails == (op = "ADD") = (f \in DOMAIN epoll)
  IN  /\ ctlFailed' = (ctlFailed \/ fails)
      /\ epoll' = CASE fails      -> epoll
                    [] op = "DEL" -> [g \in DOMAIN epoll \ {f} |-> epoll[g]]
                    [] OTHER      -> [g \in DOMAIN epoll \cup {f} |->
                                        IF g = f THEN Entry(c, events)
                                        ELSE epoll[g]]

SetIndex(c, index) == index_' = [index_ EXCEPT ![c] = index]

AddChannel(c, events) ==
  /\ index_[c] \in {kNew, kDeleted}
  /\ channels_' = IF index_[c] = kNew THEN [channels_ EXCEPT ![fd_[c]] = c]
                  ELSE channels_
  /\ SetIndex(c, kAdded)
  /\ EpollCtl("ADD", c, events)

DropChannel_KeepsIndex(c, events) ==
  /\ index_[c] = kAdded /\ events = kNoneEvent
  /\ EpollCtl("DEL", c, events)
  /\ UNCHANGED <<channels_, index_>>

DropChannel_Mods(c, events) ==
  /\ index_[c] = kAdded /\ events = kNoneEvent
  /\ EpollCtl("MOD", c, events)
  /\ UNCHANGED <<channels_, index_>>

DropChannel(c, events) ==
  /\ index_[c] = kAdded /\ events = kNoneEvent
  /\ EpollCtl("DEL", c, events)
  /\ SetIndex(c, kDeleted)
  /\ UNCHANGED channels_

ModifyChannel(c, events) ==
  /\ index_[c] = kAdded /\ events # kNoneEvent
  /\ EpollCtl("MOD", c, events)
  /\ UNCHANGED <<channels_, index_>>

\* The channel sets events_ and calls EPollPoller::updateChannel.
UpdateChannel(c, events) ==
  /\ events_' = [events_ EXCEPT ![c] = events]
  /\ \/ AddChannel(c, events)
     \/ DropChannel(c, events)
     \/ ModifyChannel(c, events)

RemoveChannel_LeavesEpoll(c) ==
  /\ channels_' = [channels_ EXCEPT ![fd_[c]] = NoChannel]
  /\ SetIndex(c, kNew)
  /\ UNCHANGED <<epoll, ctlFailed, events_>>

RemoveChannel_KeepsMap(c) ==
  /\ IF index_[c] = kAdded THEN EpollCtl("DEL", c, events_[c])
     ELSE UNCHANGED <<epoll, ctlFailed>>
  /\ SetIndex(c, kNew)
  /\ UNCHANGED <<events_, channels_>>

RemoveChannel(c) ==
  /\ channels_' = [channels_ EXCEPT ![fd_[c]] = NoChannel]
  /\ IF index_[c] = kAdded THEN EpollCtl("DEL", c, events_[c])
     ELSE UNCHANGED <<epoll, ctlFailed>>
  /\ SetIndex(c, kNew)
  /\ UNCHANGED events_

-----------------------------------------------------------------------------
(***************************************************************************)
(* What owners do, from a callback or a functor on the loop's thread.      *)
(***************************************************************************)

InCallback == phase = "dispatch" /\ current # NoChannel
InUserCode == InCallback \/ phase = "functors"

\* Connections are destroyed by functors: removeConnectionInLoop queues
\* connectDestoryed, it does not call it.  But ~TcpServer uses runInLoop, and
\* runs it on the spot when it is itself called from a callback of that loop.
MayDestroy == phase = "functors" \/ (DestroyInCallbacks /\ InCallback)

SetStage(c, s) == stage' = [stage EXCEPT ![c] = s]

\* The kernel may hand out any descriptor that is not open.
Construct(c, f) ==
  /\ InUserCode
  /\ stage[c] = "none" /\ ~IsOpen(f)
  /\ SetStage(c, "new")
  /\ fd_' = [fd_ EXCEPT ![c] = f]
  /\ UNCHANGED <<index_, events_, late, pollerVars, loopVars>>

\* connectEstablished, Acceptor::listen and the EventLoop's constructor.
EnableReading(c) ==
  /\ InUserCode
  /\ stage[c] = "new"
  /\ SetStage(c, "up")
  /\ UpdateChannel(c, events_[c] \cup kReadEvent)
  /\ UNCHANGED <<fd_, late, loopVars>>

IsWriting(c) == kWriteEvent \subseteq events_[c]

\* sendInLoop has bytes left, and the channel is not writing yet.
EnableWriting(c) ==
  /\ InUserCode
  /\ stage[c] = "up"
  /\ ~IsWriting(c)
  /\ UpdateChannel(c, events_[c] \cup kWriteEvent)
  /\ UNCHANGED <<stage, fd_, late, loopVars>>

\* handleWrite has sent the last byte.
DisableWriting(c) ==
  /\ InCallback /\ current = c
  /\ stage[c] \in {"up", "rewatched"}
  /\ IsWriting(c)
  /\ UpdateChannel(c, events_[c] \ kWriteEvent)
  /\ UNCHANGED <<stage, fd_, late, loopVars>>

\* A sendInLoop that was queued before connectDestoryed and runs after it.
\* Only a connection destroyed while kDisconnecting still sends: its channel
\* was removed as it was.  One with bytes left enables a kNew channel, which
\* registers it again, and nothing removes it a second time.
SendAfterRemoval(c) ==
  /\ LateSends
  /\ phase = "functors"
  /\ stage[c] \in {"removed", "rewatched"}
  /\ events_[c] = kReadEvent
  /\ SetStage(c, "rewatched")
  /\ late' = late \cup {c}
  /\ UpdateChannel(c, events_[c] \cup kWriteEvent)
  /\ UNCHANGED <<fd_, loopVars>>

\* handleClose, from the channel's own callback.  The server behind
\* closeCallback_ is gone when the channel was removed already.
HandleClose(c) ==
  /\ InCallback /\ current = c
  /\ stage[c] \in {"up", "rewatched"}
  /\ events_[c] # kNoneEvent
  /\ SetStage(c, IF stage[c] = "up" THEN "closed" ELSE "rewatched")
  /\ UpdateChannel(c, kNoneEvent)
  /\ UNCHANGED <<fd_, late, loopVars>>

\* connectDestoryed of a connection that is still kConnected, the destructors
\* of EventLoop and of Acceptor (which may never have listened): disableAll,
\* perhaps a callback, then remove.
DisableForRemoval(c) ==
  /\ MayDestroy
  /\ stage[c] \in {"new", "up"}
  /\ SetStage(c, "removing")
  /\ UpdateChannel(c, kNoneEvent)
  /\ UNCHANGED <<fd_, late, loopVars>>

\* connectDestoryed of a connection that was closed, or is kDisconnecting,
\* removes the channel as it is.
Remove(c) ==
  /\ MayDestroy
  /\ stage[c] \in {"removing", "closed", "up"}
  /\ SetStage(c, "removed")
  /\ RemoveChannel(c)
  /\ UNCHANGED <<fd_, late, loopVars>>

\* The last reference goes, in whatever thread: the channel is freed and its
\* descriptor closed, which takes it off the interest list.  ~TcpConnection
\* removes nothing from channels_.  A fresh object has the members' initial
\* values.
Free(c) ==
  /\ stage[c] \in {"removed", "rewatched"}
  /\ current # c
  /\ SetStage(c, "none")
  /\ SetIndex(c, kNew)
  /\ fd_' = [fd_ EXCEPT ![c] = NoFd]
  /\ events_' = [events_ EXCEPT ![c] = kNoneEvent]
  /\ epoll' = [g \in DOMAIN epoll \ {fd_[c]} |-> epoll[g]]
  /\ UNCHANGED <<late, channels_, ctlFailed, loopVars>>

-----------------------------------------------------------------------------
(***************************************************************************)
(* One turn of the loop.                                                   *)
(***************************************************************************)

NextListSize_Rest(n) == listSize - n

NextListSize(n) == IF n = listSize THEN 2 * listSize ELSE listSize

\* epoll_wait fills at most listSize entries; a full array is doubled.
Poll ==
  /\ phase = "poll"
  /\ \E ready \in SUBSET DOMAIN epoll :
       /\ Cardinality(ready) <= listSize
       /\ activeChannels_' = {epoll[f].ptr : f \in ready}
       /\ listSize' = NextListSize(Cardinality(ready))
  /\ phase' = "dispatch"
  /\ UNCHANGED <<channelVars, pollerVars, current>>

\* Calling a freed channel is undefined; here no callback of it runs.
HandleEvent(c) ==
  /\ phase = "dispatch" /\ current = NoChannel
  /\ c \in activeChannels_
  /\ activeChannels_' = activeChannels_ \ {c}
  /\ current' = IF stage[c] = "none" THEN NoChannel ELSE c
  /\ UNCHANGED <<channelVars, pollerVars, listSize, phase>>

NobodyRemoving == \A c \in Channels : stage[c] # "removing"

CallbacksReturn ==
  /\ InCallback
  /\ NobodyRemoving
  /\ current' = NoChannel
  /\ UNCHANGED <<channelVars, pollerVars, listSize, phase, activeChannels_>>

DoPendingFunctors ==
  /\ phase = "dispatch" /\ current = NoChannel
  /\ activeChannels_ = {}
  /\ phase' = "functors"
  /\ UNCHANGED <<channelVars, pollerVars, listSize, activeChannels_, current>>

PendingFunctorsDone ==
  /\ phase = "functors"
  /\ NobodyRemoving
  /\ phase' = "poll"
  /\ UNCHANGED <<channelVars, pollerVars, listSize, activeChannels_, current>>

Owner(c) ==
  \/ EnableReading(c)
  \/ EnableWriting(c)
  \/ DisableWriting(c)
  \/ SendAfterRemoval(c)
  \/ HandleClose(c)
  \/ DisableForRemoval(c)
  \/ Remove(c)
  \/ Free(c)
  \/ \E f \in Fds : Construct(c, f)

Loop ==
  \/ Poll
  \/ CallbacksReturn
  \/ DoPendingFunctors
  \/ PendingFunctorsDone
  \/ \E c \in Channels : HandleEvent(c)

Next == Loop \/ \E c \in Channels : Owner(c)

Spec == Init /\ [][Next]_vars

-----------------------------------------------------------------------------
Events == SUBSET (kReadEvent \cup kWriteEvent)

TypeOK ==
  /\ stage \in [Channels -> {"none", "new", "up", "closed", "removing",
                         "removed", "rewatched"}]
  /\ fd_ \in [Channels -> Fds \cup {NoFd}]
  /\ index_ \in [Channels -> {kNew, kAdded, kDeleted}]
  /\ events_ \in [Channels -> Events]
  /\ late \in SUBSET Channels
  /\ channels_ \in [Fds -> Channels \cup {NoChannel}]
  /\ DOMAIN epoll \subseteq Fds
  /\ epoll \in [DOMAIN epoll -> [ptr : Channels, events : Events]]
  /\ ctlFailed \in BOOLEAN
  /\ listSize \in Nat \ {0}
  /\ phase \in {"poll", "dispatch", "functors"}
  /\ activeChannels_ \in SUBSET Channels
  /\ current \in Channels \cup {NoChannel}

\* index_ tells the truth about the kernel: a channel is kAdded exactly when
\* its descriptor is on the interest list, with this channel as the pointer
\* and with the events the channel asks for.
IndexMatchesKernel ==
  /\ \A c \in Channels :
       index_[c] = kAdded =>
         fd_[c] \in DOMAIN epoll /\ epoll[fd_[c]] = Entry(c, events_[c])
  /\ \A f \in DOMAIN epoll :
       index_[epoll[f].ptr] = kAdded /\ fd_[epoll[f].ptr] = f

\* channels_ holds every channel that is not kNew under its own descriptor,
\* through every reuse of descriptors and objects, and nothing else: but for
\* objects that a late send brought back, whose entries outlive them.
MapMatchesIndex ==
  /\ \A c \in Channels :
       index_[c] # kNew => fd_[c] \in Fds /\ channels_[fd_[c]] = c
  /\ \A f \in Fds :
       channels_[f] \notin late \cup {NoChannel} =>
         index_[channels_[f]] # kNew /\ fd_[channels_[f]] = f

\* The poller's record, the kernel's and the channels' own never drift apart
\* over the calls the owners make, late sends after remove included.  Only
\* entries of channels_ that late sends left may be stale.
RegistryConsistent == IndexMatchesKernel /\ MapMatchesIndex

\* What an owner's stage says of its channel; two channels never have the
\* same descriptor, and disableAll leaves a channel with no interest in the
\* kernel's list only until remove, within one callback or functor.
StageMatchesIndex ==
  /\ \A c, d \in Channels : fd_[c] = fd_[d] /\ fd_[c] # NoFd => c = d
  /\ \A c \in Channels :
       /\ stage[c] = "none" <=> fd_[c] = NoFd
       /\ stage[c] \in {"none", "new", "removed"} => index_[c] = kNew
       /\ stage[c] \in {"none", "new"} => events_[c] = kNoneEvent
       /\ stage[c] = "up" => index_[c] = kAdded /\ kReadEvent \subseteq events_[c]
       /\ stage[c] = "closed" => index_[c] = kDeleted
       /\ stage[c] = "removing" => index_[c] # kNew /\ InUserCode
       /\ stage[c] = "rewatched" =>
            /\ c \in late
            /\ index_[c] = IF events_[c] = kNoneEvent THEN kDeleted ELSE kAdded
  /\ current # NoChannel => phase = "dispatch"
  /\ activeChannels_ # {} => phase = "dispatch"
  /\ current \notin activeChannels_

\* No epoll_ctl fails: ADD and MOD would end the process (LOG_FATAL), DEL
\* would be logged.
CtlNeverFails == ~ctlFailed

\* epoll_wait watches no channel that asked for nothing: the kernel reports a
\* hang-up on those too, and the loop would spin on it.
PolledChannelsWantEvents ==
  phase = "poll" => \A f \in DOMAIN epoll : epoll[f].events # kNoneEvent

\* The raw pointers in activeChannels_ point to live channels that are still
\* registered, whatever the callbacks before them in the batch did: but for
\* those of objects that a late send brought back, which another thread may
\* free at any moment.  Channel.h:52 says that a channel is not removed under
\* a running callback.
ActiveChannelsRegistered ==
  \A c \in activeChannels_ \ late : stage[c] = "up" /\ index_[c] = kAdded

\* A pointer in activeChannels_ is never one to a freed channel.
ActiveChannelsAlive == \A c \in activeChannels_ : stage[c] # "none"
=============================================================================
