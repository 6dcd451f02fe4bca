------------------------------ MODULE TcpServer ------------------------------
(***************************************************************************)
(* The server (mudlite/net/TcpServer.cc) with its Acceptor, the loops of   *)
(* its pool and the lifetimes of its connections: who holds a reference to *)
(* a TcpConnection, which queued functors keep it alive, when its channel  *)
(* is registered in a poller and when its descriptor comes back.           *)
(*                                                                         *)
(* Of a connection its state_, channel and callbacks are kept; bytes are   *)
(* TcpConnection's.  Of a loop the turns of loop() are kept: handlers run  *)
(* in "poll", the batch of functors in "run", and quit_ is tested between  *)
(* turns, so that a loop may leave functors behind.  loop() resets quit_   *)
(* when it is entered, so that a quit before that is lost.  A handler is   *)
(* one step.                                                               *)
(* The base thread owns the server and destroys it after its own loop()    *)
(* returned, as the example does; no user thread is then inside a call.    *)
(*                                                                         *)
(* An operator named X_Y is a faulty variant of X that a property must     *)
(* catch; the specification does not use it.                               *)
(***************************************************************************)
EXTENDS Naturals, Sequences, FiniteSets, Functions

CONSTANTS
  MaxThreads,  \* the most threads setThreadNum asks for (bound)
  MaxConns,    \* clients that ever connect (bound)
  MaxFds       \* the most descriptors the process has for connections (bound)

ASSUME ServerAssumption ==
  MaxThreads \in Nat /\ MaxConns \in Nat /\ MaxFds \in Nat

Conns == 1 .. MaxConns

\* loop_ is the base loop, the others are the pool's.
loop_ == 0
Threads == 1 .. MaxThreads
Loops == Threads \cup {loop_}

VARIABLES
  server,        \* "new", "started", its destructor's place, or "gone"
  cur,           \* the EventLoopThread that the destructor has come to
  numThreads_, next_,
  listening,     \* acceptChannel_ is enabled
  fdLimit,       \* descriptors the process has for connections, fixed
  clients,       \* clients in the listening socket's backlog
  nextConnId_,
  connections_,
  loopOf,        \* TcpConnection::loop_
  state_,        \* TcpConnection::state_; "none" before its construction
  channel,       \* "new", "watched", "idle" (registered only) or "removed"
  callbacks,     \* history: what connectionCallback_ reported
  holds,         \* connections to which user code keeps a TcpConnectionPtr
  calling,       \* those on which a user thread is inside shutdown
  phase,         \* of each loop: "none", "entering" (loop() is still to be
                 \* called), "poll", "run", "left" or "destroyed"
  quit_,         \* the loops with quit_ set
  pending,       \* pendingFunctors_ of each loop
  batch,         \* what doPendingFunctors still has to run
  spent          \* connections bound to functors of the batch that have run

serverVars == <<server, cur, numThreads_, listening>>
acceptVars == <<fdLimit, clients, nextConnId_, next_, loopOf>>
connVars   == <<state_, channel, callbacks>>
userVars   == <<holds, calling>>
loopVars   == <<phase, quit_, batch, spent>>
vars == <<serverVars, acceptVars, connections_, connVars, userVars, loopVars,
          pending>>

\* The listening socket is bound, but does not listen yet.
AcceptorInit == listening = FALSE /\ clients = 0

Init ==
  /\ server = "new" /\ cur = 0 /\ numThreads_ = 0
  /\ AcceptorInit
  /\ fdLimit \in 1 .. MaxFds
  /\ nextConnId_ = 1 /\ next_ = 0
  /\ connections_ = {}
  /\ loopOf = [c \in Conns |-> loop_]
  /\ state_ = [c \in Conns |-> "none"]
  /\ channel = [c \in Conns |-> "new"]
  /\ callbacks = [c \in Conns |-> <<>>]
  /\ holds = {} /\ calling = {}
  /\ phase = [l \in Loops |-> IF l = loop_ THEN "entering" ELSE "none"]
  /\ quit_ = {}
  /\ pending = [l \in Loops |-> <<>>]
  /\ batch = [l \in Loops |-> <<>>]
  /\ spent = [l \in Loops |-> {}]

-----------------------------------------------------------------------------
(***************************************************************************)
(* Functors and references.  A functor bound to a TcpConnectionPtr is a    *)
(* reference until its batch is done; shutdown binds a raw this.           *)
(***************************************************************************)

Functor(op, c) == [op |-> op, conn |-> c]

Owning_RawDestroy == {"connectEstablished", "removeConnectionInLoop"}

Owning == {"connectEstablished", "connectDestoryed", "removeConnectionInLoop"}

\* The functors of l in the order in which they will run.
Work(l) == batch[l] \o pending[l]

Queued(l) == Range(Work(l))

References(c) ==
  \/ c \in connections_ \cup holds
  \/ \E l \in Loops :
       \/ c \in spent[l]
       \/ \E f \in Queued(l) : f.conn = c /\ f.op \in Owning

\* ~TcpConnection has run and closed the descriptor.
Freed(c) == state_[c] # "none" /\ ~References(c)

FreeDescriptor ==
  Cardinality({c \in Conns : state_[c] # "none" /\ ~Freed(c)}) < fdLimit

Queue(l, f) == pending' = [pending EXCEPT ![l] = Append(@, f)]

-----------------------------------------------------------------------------
(***************************************************************************)
(* What the handlers of a connection do to it.                             *)
(***************************************************************************)

Established(c) ==
  /\ state_' = [state_ EXCEPT ![c] = "kConnected"]
  /\ channel' = [channel EXCEPT ![c] = "watched"]
  /\ callbacks' = [callbacks EXCEPT ![c] = Append(@, "up")]

Destroyed_KeepsChannel(c) ==
  /\ state_' = [state_ EXCEPT ![c] = IF @ = "kConnected" THEN "kDisconnected" ELSE @]
  /\ callbacks' = IF state_[c] = "kConnected"
                  THEN [callbacks EXCEPT ![c] = Append(@, "down")] ELSE callbacks
  /\ channel' = [channel EXCEPT ![c] = IF state_[c] = "kConnected" THEN "idle" ELSE @]

Destroyed_AlwaysDown(c) ==
  /\ state_' = [state_ EXCEPT ![c] = "kDisconnected"]
  /\ callbacks' = [callbacks EXCEPT ![c] = Append(@, "down")]
  /\ channel' = [channel EXCEPT ![c] = "removed"]

\* connectDestoryed reports only a connection that was still kConnected.
Destroyed(c) ==
  /\ state_' = [state_ EXCEPT ![c] = IF @ = "kConnected" THEN "kDisconnected" ELSE @]
  /\ callbacks' = IF state_[c] = "kConnected"
                  THEN [callbacks EXCEPT ![c] = Append(@, "down")] ELSE callbacks
  /\ channel' = [channel EXCEPT ![c] = "removed"]

\* removeConnectionInLoop.
Removed_KeepsEntry(c) ==
  /\ Queue(loopOf[c], Functor("connectDestoryed", c))
  /\ UNCHANGED connections_

Removed(c) ==
  /\ connections_' = connections_ \ {c}
  /\ Queue(loopOf[c], Functor("connectDestoryed", c))

-----------------------------------------------------------------------------
(***************************************************************************)
(* The base thread: start and the acceptor's handleRead.                   *)
(***************************************************************************)

\* What setThreadNum may ask for.
ThreadNums == 0 .. MaxThreads

\* startLoop returns when a thread has published its EventLoop, before that
\* thread calls loop().  The listen functor runs at once in the base thread,
\* queued from another; a second start finds started_ set.
Start(n) ==
  /\ server = "new" /\ phase[loop_] # "left"
  /\ server' = "started"
  /\ numThreads_' = n
  /\ phase' = [l \in Loops |-> IF l \in 1 .. n THEN "entering" ELSE phase[l]]
  /\ \/ listening' = TRUE /\ UNCHANGED pending
     \/ Queue(loop_, Functor("listen", 0)) /\ UNCHANGED listening
  /\ UNCHANGED <<cur, acceptVars, connections_, connVars, userVars, quit_,
                 batch, spent>>

ClientConnects ==
  /\ listening /\ nextConnId_ + clients <= MaxConns
  /\ clients' = clients + 1
  /\ UNCHANGED <<serverVars, fdLimit, nextConnId_, next_, loopOf, connections_,
                 connVars, userVars, loopVars, pending>>

Following_WrapsLate(n) == IF n + 1 > numThreads_ THEN 0 ELSE n + 1

Following(n) == IF n + 1 >= numThreads_ THEN 0 ELSE n + 1

Accepts == phase[loop_] = "poll" /\ listening /\ clients > 0

\* accept, and TcpServer::newConnection on the base loop itself.
AcceptHere ==
  /\ Accepts /\ FreeDescriptor /\ numThreads_ = 0
  /\ clients' = clients - 1
  /\ nextConnId_' = nextConnId_ + 1
  /\ connections_' = connections_ \cup {nextConnId_}
  /\ Established(nextConnId_)
  /\ \E kept \in SUBSET {nextConnId_} : holds' = holds \cup kept
  /\ UNCHANGED <<serverVars, fdLimit, next_, loopOf, calling, loopVars,
                 pending>>

\* The same for the pool's next loop, which is to run connectEstablished.
AcceptElsewhere ==
  /\ Accepts /\ FreeDescriptor /\ numThreads_ > 0
  /\ clients' = clients - 1
  /\ nextConnId_' = nextConnId_ + 1
  /\ next_' = Following(next_)
  /\ loopOf' = [loopOf EXCEPT ![nextConnId_] = next_ + 1]
  /\ connections_' = connections_ \cup {nextConnId_}
  /\ state_' = [state_ EXCEPT ![nextConnId_] = "kConnecting"]
  /\ Queue(next_ + 1, Functor("connectEstablished", nextConnId_))
  /\ UNCHANGED <<serverVars, fdLimit, channel, callbacks, userVars, loopVars>>

AcceptFails_StopsListening ==
  /\ Accepts /\ ~FreeDescriptor
  /\ listening' = FALSE
  /\ UNCHANGED <<server, cur, numThreads_, acceptVars, connections_, connVars,
                 userVars, loopVars, pending>>

\* EMFILE: the client stays in the backlog and the listening socket readable.
AcceptFails == Accepts /\ ~FreeDescriptor /\ UNCHANGED vars

-----------------------------------------------------------------------------
(***************************************************************************)
(* Handlers and functors on the connections' loops.                        *)
(***************************************************************************)

\* removeConnection, the closeCallback_: at once if c's loop is the base loop.
AskRemoval(c) ==
  IF loopOf[c] = loop_
  THEN Removed(c)
  ELSE /\ Queue(loop_, Functor("removeConnectionInLoop", c))
       /\ UNCHANGED connections_

\* The peer closes, whatever the connection's state.
HandleClose(c) ==
  /\ channel[c] = "watched" /\ phase[loopOf[c]] = "poll"
  /\ state_' = [state_ EXCEPT ![c] = "kDisconnected"]
  /\ channel' = [channel EXCEPT ![c] = "idle"]
  /\ callbacks' = [callbacks EXCEPT ![c] = Append(@, "down")]
  /\ AskRemoval(c)
  /\ UNCHANGED <<serverVars, acceptVars, userVars, loopVars>>

\* loop() forgets an earlier quit and comes to the while loop's first test.
EnterLoop(l) ==
  /\ phase[l] = "entering"
  /\ phase' = [phase EXCEPT ![l] = "run"]
  /\ quit_' = quit_ \ {l}
  /\ UNCHANGED <<serverVars, acceptVars, connections_, connVars, userVars,
                 batch, spent, pending>>

\* doPendingFunctors takes the queue; a turn without functors is left out,
\* unless it is the one after which quit_ is seen.
Swap(l) ==
  /\ phase[l] = "poll"
  /\ pending[l] # <<>> \/ l \in quit_
  /\ phase' = [phase EXCEPT ![l] = "run"]
  /\ batch' = [batch EXCEPT ![l] = pending[l]]
  /\ pending' = [pending EXCEPT ![l] = <<>>]
  /\ UNCHANGED <<serverVars, acceptVars, connections_, connVars, userVars,
                 quit_, spent>>

Runs(l, op, c) ==
  /\ phase[l] = "run"
  /\ batch[l] # <<>> /\ Head(batch[l]) = Functor(op, c)
  /\ batch' = [batch EXCEPT ![l] = Tail(@)]
  /\ spent' = [spent EXCEPT ![l] = IF op \in Owning THEN @ \cup {c} ELSE @]

RunListen ==
  /\ Runs(loop_, "listen", 0)
  /\ listening' = TRUE
  /\ UNCHANGED <<server, cur, numThreads_, acceptVars, connections_, connVars,
                 userVars, phase, quit_, pending>>

\* The callback may keep the pointer it is given.
ConnectEstablished(l, c) ==
  /\ Runs(l, "connectEstablished", c)
  /\ Established(c)
  /\ \E kept \in SUBSET {c} : holds' = holds \cup kept
  /\ UNCHANGED <<serverVars, acceptVars, connections_, calling, phase, quit_,
                 pending>>

RemoveConnectionInLoop(c) ==
  /\ Runs(loop_, "removeConnectionInLoop", c)
  /\ Removed(c)
  /\ UNCHANGED <<serverVars, acceptVars, connVars, userVars, phase, quit_>>

ConnectDestroyed(l, c) ==
  /\ Runs(l, "connectDestoryed", c)
  /\ Destroyed(c)
  /\ UNCHANGED <<serverVars, acceptVars, connections_, userVars, phase, quit_,
                 pending>>

\* shutdownInLoop, whose FIN is TcpConnection's.
ShutdownInLoop(l, c) ==
  /\ Runs(l, "shutdownInLoop", c) \/ Runs(l, "lateShutdownInLoop", c)
  /\ UNCHANGED <<serverVars, acceptVars, connections_, connVars, userVars,
                 phase, quit_, pending>>

\* The batch is destroyed, and the while loop tests quit_.
TurnEnds(l) ==
  /\ phase[l] = "run" /\ batch[l] = <<>> /\ l \notin quit_
  /\ spent' = [spent EXCEPT ![l] = {}]
  /\ phase' = [phase EXCEPT ![l] = "poll"]
  /\ UNCHANGED <<serverVars, acceptVars, connections_, connVars, userVars,
                 quit_, batch, pending>>

\* A thread of the pool ends with its EventLoop and the functors left in it;
\* the base loop and its functors outlive the server.
LeaveLoop(l) ==
  /\ phase[l] = "run" /\ batch[l] = <<>> /\ l \in quit_
  /\ spent' = [spent EXCEPT ![l] = {}]
  /\ IF l = loop_
     THEN phase' = [phase EXCEPT ![l] = "left"] /\ UNCHANGED pending
     ELSE /\ phase' = [phase EXCEPT ![l] = "destroyed"]
          /\ pending' = [pending EXCEPT ![l] = <<>>]
  /\ UNCHANGED <<serverVars, acceptVars, connections_, connVars, userVars,
                 quit_, batch>>

-----------------------------------------------------------------------------
(***************************************************************************)
(* User code: shutdown on the connection's own thread and on others, where *)
(* the compare-and-exchange and the queueing are two steps, and the        *)
(* pointers it keeps; and quit on the base loop.                           *)
(***************************************************************************)

Disconnecting(c) ==
  /\ state_[c] = "kConnected"
  /\ state_' = [state_ EXCEPT ![c] = "kDisconnecting"]
  /\ UNCHANGED <<serverVars, acceptVars, connections_, channel, callbacks,
                 holds, loopVars, pending>>

OwnShutdown(c) ==
  /\ phase[loopOf[c]] \in {"poll", "run"}
  /\ Disconnecting(c)
  /\ UNCHANGED calling

ThreadShutdown(c) ==
  /\ server = "started" /\ c \in holds \ calling
  /\ calling' = calling \cup {c}
  /\ Disconnecting(c)

\* Late is a call that connectDestoryed, queued before it, may overtake.
DestroyQueued(c) ==
  \/ channel[c] = "removed"
  \/ Functor("connectDestoryed", c) \in Queued(loopOf[c])

ThreadQueues(c) ==
  /\ c \in calling
  /\ calling' = calling \ {c}
  /\ Queue(loopOf[c],
       Functor(IF DestroyQueued(c) THEN "lateShutdownInLoop" ELSE "shutdownInLoop", c))
  /\ UNCHANGED <<serverVars, acceptVars, connections_, connVars, holds, loopVars>>

DropPointer(c) ==
  /\ c \in holds \ calling
  /\ holds' = holds \ {c}
  /\ UNCHANGED <<serverVars, acceptVars, connections_, connVars, calling,
                 loopVars, pending>>

QuitBaseLoop ==
  /\ loop_ \notin quit_
  /\ quit_' = quit_ \cup {loop_}
  /\ UNCHANGED <<serverVars, acceptVars, connections_, connVars, userVars,
                 phase, batch, spent, pending>>

-----------------------------------------------------------------------------
(***************************************************************************)
(* ~TcpServer, in the base thread: connectDestoryed for every connection,  *)
(* then the members: threadPool_ quits and joins its threads in turn, and  *)
(* acceptor_ takes its channel off the poller.                             *)
(***************************************************************************)

BeginDestructor ==
  /\ server \in {"new", "started"} /\ phase[loop_] = "left" /\ calling = {}
  /\ server' = "closing"
  /\ UNCHANGED <<cur, numThreads_, listening, acceptVars, connections_,
                 connVars, userVars, loopVars, pending>>

CloseConnection_OnlyForgets(c) ==
  /\ server = "closing" /\ c \in connections_
  /\ connections_' = connections_ \ {c}
  /\ UNCHANGED <<serverVars, acceptVars, connVars, userVars, loopVars, pending>>

CloseConnection(c) ==
  /\ server = "closing" /\ c \in connections_
  /\ connections_' = connections_ \ {c}
  /\ IF loopOf[c] = loop_
     THEN Destroyed(c) /\ UNCHANGED pending
     ELSE Queue(loopOf[c], Functor("connectDestoryed", c)) /\ UNCHANGED connVars
  /\ UNCHANGED <<serverVars, acceptVars, userVars, loopVars>>

ConnectionsClosed ==
  /\ server = "closing" /\ connections_ = {}
  /\ server' = "quitting" /\ cur' = 1
  /\ UNCHANGED <<numThreads_, listening, acceptVars, connections_, connVars,
                 userVars, loopVars, pending>>

QuitThread_OnlyJoins ==
  /\ server = "quitting" /\ cur <= numThreads_
  /\ server' = "joining"
  /\ UNCHANGED <<cur, numThreads_, listening, acceptVars, connections_,
                 connVars, userVars, loopVars, pending>>

QuitThread ==
  /\ server = "quitting" /\ cur <= numThreads_
  /\ quit_' = quit_ \cup {cur}
  /\ server' = "joining"
  /\ UNCHANGED <<cur, numThreads_, listening, acceptVars, connections_,
                 connVars, userVars, phase, batch, spent, pending>>

JoinThread_DoesNotWait ==
  /\ server = "joining"
  /\ server' = "quitting" /\ cur' = cur + 1
  /\ UNCHANGED <<numThreads_, listening, acceptVars, connections_, connVars,
                 userVars, loopVars, pending>>

JoinThread ==
  /\ server = "joining" /\ phase[cur] = "destroyed"
  /\ server' = "quitting" /\ cur' = cur + 1
  /\ UNCHANGED <<numThreads_, listening, acceptVars, connections_, connVars,
                 userVars, loopVars, pending>>

EndDestructor ==
  /\ server = "quitting" /\ cur > numThreads_
  /\ server' = "gone" /\ listening' = FALSE
  /\ UNCHANGED <<cur, numThreads_, acceptVars, connections_, connVars,
                 userVars, loopVars, pending>>

-----------------------------------------------------------------------------
Accept == AcceptHere \/ AcceptElsewhere

RunFunctor(l) ==
  \/ l = loop_ /\ RunListen
  \/ \E c \in Conns :
       \/ ConnectEstablished(l, c)
       \/ l = loop_ /\ RemoveConnectionInLoop(c)
       \/ ConnectDestroyed(l, c)
       \/ ShutdownInLoop(l, c)

Turn(l) == EnterLoop(l) \/ Swap(l) \/ RunFunctor(l) \/ TurnEnds(l) \/ LeaveLoop(l)

User(c) == OwnShutdown(c) \/ ThreadShutdown(c) \/ DropPointer(c)

Destructor ==
  \/ \E c \in Conns : CloseConnection(c)
  \/ ConnectionsClosed
  \/ QuitThread
  \/ JoinThread
  \/ EndDestructor

Next ==
  \/ \E n \in ThreadNums : Start(n)
  \/ ClientConnects
  \/ Accept
  \/ AcceptFails
  \/ \E l \in Loops : Turn(l)
  \/ \E c \in Conns : HandleClose(c) \/ User(c) \/ ThreadQueues(c)
  \/ QuitBaseLoop
  \/ BeginDestructor
  \/ Destructor

\* Every loop is entered and takes its turns, no handler blocks for ever (a
\* write() to a peer that does not read might), the acceptor's channel is
\* dispatched, user threads return from shutdown, and a destructor that began
\* goes on.  Nobody need connect, close, drop a pointer or quit.
Fairness ==
  /\ WF_vars(Accept)
  /\ \A l \in Loops : WF_vars(Turn(l))
  /\ \A c \in Conns : WF_vars(ThreadQueues(c))
  /\ WF_vars(Destructor)

Spec == Init /\ [][Next]_vars /\ Fairness

-----------------------------------------------------------------------------
Functors ==
  {Functor("listen", 0)} \cup
  [op : Owning \cup {"shutdownInLoop", "lateShutdownInLoop"}, conn : Conns]

\* A connection's loop is always one of the pool's, or the base loop if the
\* pool has none.
TypeOK ==
  /\ server \in {"new", "started", "closing", "quitting", "joining", "gone"}
  /\ cur \in 0 .. MaxThreads + 1 /\ numThreads_ \in 0 .. MaxThreads
  /\ next_ \in Nat /\ (next_ = 0 \/ next_ < numThreads_)
  /\ listening \in BOOLEAN
  /\ fdLimit \in 1 .. MaxFds
  /\ clients \in Nat /\ nextConnId_ \in Nat \ {0}
  /\ nextConnId_ + clients <= MaxConns + 1
  /\ connections_ \in SUBSET Conns
  /\ loopOf \in [Conns -> Loops]
  /\ state_ \in [Conns -> {"none", "kConnecting", "kConnected",
                           "kDisconnecting", "kDisconnected"}]
  /\ channel \in [Conns -> {"new", "watched", "idle", "removed"}]
  /\ callbacks \in [Conns -> Seq({"up", "down"})]
  /\ holds \in SUBSET Conns /\ calling \in SUBSET holds
  /\ phase \in [Loops -> {"none", "entering", "poll", "run", "left", "destroyed"}]
  /\ quit_ \in SUBSET Loops
  /\ pending \in [Loops -> Seq(Functors)] /\ batch \in [Loops -> Seq(Functors)]
  /\ spent \in [Loops -> SUBSET Conns]

Registered(c) == channel[c] \in {"watched", "idle"}

\* A poller never keeps the raw Channel pointer of a connection that was freed:
\* the last reference goes only after connectDestoryed took the channel off.
RegisteredIsAlive ==
  \A c \in Conns : Registered(c) /\ phase[loopOf[c]] # "destroyed" => ~Freed(c)

\* How often connectDestoryed waits in a loop's queues for c.
Destroys(c) ==
  Cardinality({i \in DOMAIN Work(loopOf[c]) :
                 Work(loopOf[c])[i] = Functor("connectDestoryed", c)})

\* Every connection is destroyed once: until its loop is gone, exactly one of
\* connections_, one queued connectDestoryed and the removed channel accounts
\* for it, however closes, removals and ~TcpServer race.
OneCustodian ==
  \A c \in Conns :
    state_[c] # "none" /\ phase[loopOf[c]] # "destroyed" =>
      1 = (IF c \in connections_ THEN 1 ELSE 0) + Destroys(c)
            + (IF channel[c] = "removed" THEN 1 ELSE 0)

\* A closed connection does not stay in the server's map: as long as it is
\* there, its removal is on its way to the base loop.
ClosedLeavesMap ==
  \A c \in connections_ :
    state_[c] = "kDisconnected" => Functor("removeConnectionInLoop", c) \in Queued(loop_)

\* The user's callback sees each connection come up and go down once, in that
\* order, though close and destruction are reported by different handlers.
CallbacksInOrder ==
  \A c \in Conns : callbacks[c] \in {<<>>, <<"up">>, <<"up", "down">>}

\* A connection is freed without its down callback only if shutdown had begun
\* or its loop quit with the functor still queued, and without its up callback
\* only in the latter case.
DownReported ==
  \A c \in Conns : Freed(c) =>
    \/ callbacks[c] = <<"up", "down">>
    \/ callbacks[c] = <<"up">> /\ state_[c] = "kDisconnecting"
    \/ phase[loopOf[c]] = "destroyed"

\* shutdown binds a raw this.  A call whose functor is queued before the
\* connection's connectDestoryed finds the object alive, whoever drops his
\* pointer meanwhile; one that comes later need not.
RawCallFindsObject ==
  \A l \in Loops : \A f \in Queued(l) :
    f.op = "shutdownInLoop" /\ phase[l] # "left" => ~Freed(f.conn)

\* closeCallback_ binds a raw TcpServer: once it is gone, no loop that still
\* runs watches a connection or has a removal queued.
RemovalFindsServer ==
  server = "gone" =>
    /\ \A c \in Conns : channel[c] = "watched" => phase[loopOf[c]] \in {"left", "destroyed"}
    /\ \A f \in Queued(loop_) : f.op = "removeConnectionInLoop" => phase[loop_] = "left"

\* No raw pointer leads a running loop to an object that is gone: the Channel
\* of the poller, the TcpConnection of shutdownInLoop, the TcpServer of
\* closeCallback_.
NoDanglingPointer == RegisteredIsAlive /\ RawCallFindsObject /\ RemovalFindsServer

\* What the references make of a connection.
Life(c) == IF state_[c] = "none" THEN "none" ELSE IF Freed(c) THEN "freed" ELSE "alive"

Lifecycle == INSTANCE ConnectionLifecycle
             WITH life <- [c \in Conns |-> Life(c)], reported <- callbacks

\* However the map, the queues, the batches and the user's pointers pass a
\* connection on, it is freed once: nothing refers to it or reports it after
\* its last reference went.
ImplementsLifecycle == Lifecycle!Spec

\* A client that waits is accepted once there is a descriptor for it: running
\* out of them does not stop the acceptor for good.
ClientServed ==
  clients > 0 /\ FreeDescriptor ~>
    (clients = 0 \/ ~FreeDescriptor \/ loop_ \in quit_)

\* A closed connection is freed and its descriptor returned, by way of two
\* loops, unless the user keeps a pointer or the base loop quits.
ClosedIsFreed ==
  \A c \in Conns :
    state_[c] = "kDisconnected" ~> (Freed(c) \/ c \in holds \/ loop_ \in quit_)

LoopsEntered == \A l \in Loops : phase[l] # "entering"

\* ~TcpServer returns, wherever in their turns the loops are, if every thread
\* of the pool has entered loop() when it begins: a quit before that is lost,
\* and the join waits for ever.
DestructorEnds == server = "closing" /\ LoopsEntered ~> server = "gone"
=============================================================================
