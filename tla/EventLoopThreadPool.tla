------------------------- MODULE EventLoopThreadPool -------------------------
(***************************************************************************)
(* The pool of loops of a TcpServer: EventLoopThreadPool, and in it the    *)
(* EventLoopThreads with their MThreads (mudlite/net/EventLoopThread*.cc,  *)
(* mudlite/base/mthread.cc).  The base thread starts the threads one after *)
(* another, hands out their loops in turn and destroys the threads in the  *)
(* same order.  Each thread makes an EventLoop on its stack, publishes it  *)
(* in loop_ under mutex_ and runs it.                                      *)
(*                                                                         *)
(* A critical section under mutex_ is one step, and so is a read of loop_  *)
(* without it.  Of EventLoop the quit protocol is kept: quit(), a store    *)
(* and a wakeup, and the reset, test and sleep in loop().  The threads'    *)
(* init callbacks are user code without effect here.  exiting_ and looping_*)
(* are written and never read.                                             *)
(*                                                                         *)
(* An operator named X_Y is a faulty variant of X that a property must     *)
(* catch; the specification does not use it.                               *)
(***************************************************************************)
EXTENDS Naturals, Sequences, FiniteSets

CONSTANTS
  MaxThreads,      \* the most threads setThreadNum asks for (bound)
  MaxConnections,  \* how often getNextLoop is called (bound)
  WaitsForLoops    \* the owner destroys the pool only when every loop runs

ASSUME PoolAssumption ==
  /\ MaxThreads \in Nat
  /\ MaxConnections \in Nat
  /\ WaitsForLoops \in BOOLEAN

Index == 1 .. MaxThreads

\* The EventLoop of thread i is i; the base thread's own loop is baseLoop_.
nullptr == 0
baseLoop_ == MaxThreads + 1

VARIABLES
  base,       \* where the base thread is
  numThreads_,
  cur,        \* the EventLoopThread it has come to
  loops_,     \* the pool's loops
  next_,
  handed,     \* history: the loops getNextLoop returned
  pc,         \* where each thread is
  loop_,      \* EventLoopThread::loop_, per thread
  quit_,      \* quit_ of each thread's EventLoop
  wakeupFd_   \* the eventfd of each thread's EventLoop is readable

poolVars   == <<numThreads_, loops_, next_, handed>>
threadVars == <<pc, loop_>>
loopVars   == <<quit_, wakeupFd_>>
vars == <<base, cur, poolVars, threadVars, loopVars>>

Init ==
  /\ base = "idle" /\ cur = 0
  /\ numThreads_ = 0
  /\ loops_ = <<>> /\ next_ = 0 /\ handed = <<>>
  /\ pc = [i \in Index |-> "none"]
  /\ loop_ = [i \in Index |-> nullptr]
  /\ quit_ = [i \in Index |-> FALSE]
  /\ wakeupFd_ = [i \in Index |-> FALSE]

-----------------------------------------------------------------------------
(***************************************************************************)
(* The base thread: start.                                                 *)
(***************************************************************************)

\* After start it has no effect.
SetThreadNum(n) ==
  /\ base \in {"idle", "serving"}
  /\ numThreads_' = n
  /\ UNCHANGED <<base, cur, loops_, next_, handed, threadVars, loopVars>>

StartPool ==
  /\ base = "idle"
  /\ base' = "starting"
  /\ UNCHANGED <<cur, poolVars, threadVars, loopVars>>

\* MThread::start creates the thread, and waits until it has its tid.
StartThread ==
  /\ base = "starting" /\ cur < numThreads_
  /\ cur' = cur + 1
  /\ pc' = [pc EXCEPT ![cur + 1] = "created"]
  /\ base' = "started"
  /\ UNCHANGED <<poolVars, loop_, loopVars>>

ThreadStarted ==
  /\ base = "started" /\ pc[cur] # "created"
  /\ base' = "locking"
  /\ UNCHANGED <<cur, poolVars, threadVars, loopVars>>

\* The while loop of startLoop, entered or woken up in.
TestLoop_WaitsFirst ==
  base' = IF base = "locking" \/ loop_[cur] = nullptr
          THEN "waiting" ELSE "returning"

TestLoop_NoWait == base' = "returning"

TestLoop == base' = IF loop_[cur] = nullptr THEN "waiting" ELSE "returning"

StartLoopTests ==
  /\ base \in {"locking", "woken"}
  /\ TestLoop
  /\ UNCHANGED <<cur, poolVars, threadVars, loopVars>>

SpuriousWakeup ==
  /\ base = "waiting"
  /\ base' = "woken"
  /\ UNCHANGED <<cur, poolVars, threadVars, loopVars>>

\* startLoop returns loop_, read after the critical section.
StartLoopReturns ==
  /\ base = "returning"
  /\ loops_' = Append(loops_, loop_[cur])
  /\ base' = "starting"
  /\ UNCHANGED <<cur, numThreads_, next_, handed, threadVars, loopVars>>

PoolStarted ==
  /\ base = "starting" /\ cur = numThreads_
  /\ base' = "serving"
  /\ UNCHANGED <<cur, poolVars, threadVars, loopVars>>

-----------------------------------------------------------------------------
(***************************************************************************)
(* The base thread: getNextLoop, for each new connection.                  *)
(***************************************************************************)

Following_SkipsLast(n) == IF n + 2 >= Len(loops_) THEN 0 ELSE n + 1

Following_WrapsLate(n) == IF n + 1 > Len(loops_) THEN 0 ELSE n + 1

Following(n) == IF n + 1 >= Len(loops_) THEN 0 ELSE n + 1

GetNextLoop ==
  /\ base = "serving" /\ Len(handed) < MaxConnections
  /\ IF loops_ = <<>>
     THEN /\ handed' = Append(handed, baseLoop_)
          /\ UNCHANGED next_
     ELSE /\ handed' = Append(handed, loops_[next_ + 1])
          /\ next_' = Following(next_)
  /\ UNCHANGED <<base, cur, numThreads_, loops_, threadVars, loopVars>>

-----------------------------------------------------------------------------
(***************************************************************************)
(* The base thread: the destructors, from the first thread to the last.    *)
(***************************************************************************)

InLoop(i) == pc[i] \in {"test", "poll"}

DestroyPool ==
  /\ base \in {"idle", "serving"}
  /\ WaitsForLoops => \A i \in DOMAIN loops_ : InLoop(i)
  /\ base' = "destroying" /\ cur' = 0
  /\ UNCHANGED <<poolVars, threadVars, loopVars>>

\* ~EventLoopThread reads loop_ without mutex_, and leaves a thread whose
\* loop is gone to itself (~MThread detaches it).
ReadLoop ==
  /\ base = "destroying" /\ cur < Len(loops_)
  /\ cur' = cur + 1
  /\ base' = IF loop_[cur + 1] # nullptr THEN "quitting" ELSE "destroying"
  /\ UNCHANGED <<poolVars, threadVars, loopVars>>

Quit ==
  /\ base = "quitting"
  /\ quit_' = [quit_ EXCEPT ![cur] = TRUE]
  /\ base' = "waking"
  /\ UNCHANGED <<cur, poolVars, threadVars, wakeupFd_>>

Wakeup_Forgotten ==
  /\ base = "waking"
  /\ base' = "joining"
  /\ UNCHANGED <<cur, poolVars, threadVars, loopVars>>

\* The rest of quit(), which the comment in quit() warns of: the loop may have
\* seen quit_ and be destroyed by now.
Wakeup ==
  /\ base = "waking"
  /\ wakeupFd_' = [wakeupFd_ EXCEPT ![cur] = TRUE]
  /\ base' = "joining"
  /\ UNCHANGED <<cur, poolVars, threadVars, quit_>>

Join_DoesNotWait ==
  /\ base = "joining"
  /\ base' = "destroying"
  /\ UNCHANGED <<cur, poolVars, threadVars, loopVars>>

Join ==
  /\ base = "joining" /\ pc[cur] = "ended"
  /\ base' = "destroying"
  /\ UNCHANGED <<cur, poolVars, threadVars, loopVars>>

PoolDestroyed ==
  /\ base = "destroying" /\ cur = Len(loops_)
  /\ base' = "gone"
  /\ UNCHANGED <<cur, poolVars, threadVars, loopVars>>

-----------------------------------------------------------------------------
(***************************************************************************)
(* The thread i: MThread's lambda and threadFunc.                          *)
(***************************************************************************)

Moves(i, from, to) == pc[i] = from /\ pc' = [pc EXCEPT ![i] = to]

\* sem_post, once the thread knows its tid.
Post(i) ==
  /\ Moves(i, "created", "func")
  /\ UNCHANGED <<base, cur, poolVars, loop_, loopVars>>

\* The EventLoop is made and the init callback was called; then, under
\* mutex_, loop_ is set and cond_ notified.
Publish(i) ==
  /\ Moves(i, "func", "entering")
  /\ loop_' = [loop_ EXCEPT ![i] = i]
  /\ base' = IF base = "waiting" /\ cur = i THEN "woken" ELSE base
  /\ UNCHANGED <<cur, poolVars, loopVars>>

\* loop() begins with quit_ = false, whoever set it before.
EnterLoop(i) ==
  /\ Moves(i, "entering", "test")
  /\ quit_' = [quit_ EXCEPT ![i] = FALSE]
  /\ UNCHANGED <<base, cur, poolVars, loop_, wakeupFd_>>

TestQuit(i) ==
  /\ Moves(i, "test", IF quit_[i] THEN "left" ELSE "poll")
  /\ UNCHANGED <<base, cur, poolVars, loop_, loopVars>>

\* epoll_wait returns, for a wakeup, another event or its timeout; handleRead
\* empties the eventfd.
PollReturns(i) ==
  /\ Moves(i, "poll", "test")
  /\ wakeupFd_' = [wakeupFd_ EXCEPT ![i] = FALSE]
  /\ UNCHANGED <<base, cur, poolVars, loop_, quit_>>

ClearLoop(i) ==
  /\ Moves(i, "left", "cleared")
  /\ loop_' = [loop_ EXCEPT ![i] = nullptr]
  /\ UNCHANGED <<base, cur, poolVars, loopVars>>

\* threadFunc unlocks mutex_ and destroys its EventLoop.
End(i) ==
  /\ Moves(i, "cleared", "ended")
  /\ UNCHANGED <<base, cur, poolVars, loop_, loopVars>>

-----------------------------------------------------------------------------
Start ==
  \/ StartThread
  \/ ThreadStarted
  \/ StartLoopTests
  \/ StartLoopReturns
  \/ PoolStarted

Destroy == ReadLoop \/ Quit \/ Wakeup \/ Join \/ PoolDestroyed

ThreadFunc(i) ==
  Post(i) \/ Publish(i) \/ EnterLoop(i) \/ TestQuit(i) \/ ClearLoop(i) \/ End(i)

Next ==
  \/ \E n \in 0 .. MaxThreads : SetThreadNum(n)
  \/ StartPool
  \/ Start
  \/ SpuriousWakeup
  \/ GetNextLoop
  \/ DestroyPool
  \/ Destroy
  \/ \E i \in Index : ThreadFunc(i) \/ PollReturns(i)

\* Every thread is scheduled, and epoll_wait returns for a wakeup.  The owner
\* need not destroy the pool.
Fairness ==
  /\ WF_vars(Start)
  /\ WF_vars(Destroy)
  /\ \A i \in Index : /\ WF_vars(ThreadFunc(i))
                      /\ WF_vars(wakeupFd_[i] /\ PollReturns(i))

Spec == Init /\ [][Next]_vars /\ Fairness

-----------------------------------------------------------------------------
\* next_ is always the index of a loop, so that getNextLoop stays inside loops_.
TypeOK ==
  /\ base \in {"idle", "starting", "started", "locking", "waiting", "woken",
               "returning", "serving", "destroying", "quitting", "waking", "joining", "gone"}
  /\ cur \in Index \cup {0} /\ numThreads_ \in Index \cup {0}
  /\ loops_ \in Seq(Index \cup {nullptr})
  /\ next_ \in Nat /\ (next_ = 0 \/ next_ < Len(loops_))
  /\ handed \in Seq(Index \cup {nullptr, baseLoop_})
  /\ pc \in [Index -> {"none", "created", "func", "entering", "test", "poll",
                       "left", "cleared", "ended"}]
  /\ loop_ \in [Index -> Index \cup {nullptr}]
  /\ quit_ \in [Index -> BOOLEAN]
  /\ wakeupFd_ \in [Index -> BOOLEAN]

Destroying == base \in {"destroying", "quitting", "waking", "joining", "gone"}

\* The EventLoop of thread i exists and nothing will end it.
Alive(i) == pc[i] \in {"entering", "test", "poll"} /\ loop_[i] = i

\* startLoop returns a loop that lives until the pool is destroyed: the pool
\* never hands out a null pointer, a half-made loop or one that has ended,
\* though the result is read outside the lock.
LoopsAlive ==
  \A k \in DOMAIN loops_ : loops_[k] = k /\ (~Destroying => Alive(k))

Handed(l) == Cardinality({k \in DOMAIN handed : handed[k] = l})

\* getNextLoop is fair: at any time no loop has had two connections more than
\* another, and with threads the base loop has none.
RoundRobin ==
  /\ \A i, j \in DOMAIN loops_ : Handed(i) <= Handed(j) + 1
  /\ loops_ # <<>> => Handed(baseLoop_) = 0

\* A thread has ended before its EventLoopThread is freed, whose mutex_ and
\* loop_ it uses to the last.
ThreadsEndBeforeTheirOwner ==
  Destroying =>
    \A i \in DOMAIN loops_ :
      i < cur \/ (i = cur /\ base \in {"destroying", "gone"}) => pc[i] = "ended"

\* startLoop waits on cond_ only while the notification is still to come: the
\* thread has not published its loop, and has yet to take the lock.
WaitIsAnswered == base = "waiting" => pc[cur] = "func"

\* The thread that the destructor joins is on its way out: it ended or left
\* loop(), or will find quit_ set, and does not sleep in epoll_wait without a
\* wakeup.  It is so if every loop ran when the pool's destruction began.
JoinIsAnswered ==
  base = "joining" =>
    \/ pc[cur] \in {"left", "cleared", "ended"}
    \/ pc[cur] = "test" /\ quit_[cur]
    \/ pc[cur] = "poll" /\ quit_[cur] /\ wakeupFd_[cur]

\* Nobody who sleeps is forgotten, in startLoop or in the destructor's join: at
\* any time the other thread has what will wake him before it.
SleepersAreWoken == WaitIsAnswered /\ JoinIsAnswered

\* startLoop returns, in whatever order the two threads reach the lock.
StartLoopCompletes == base = "started" ~> base = "starting"

\* EventLoop.h:31 says that quit leaves the loop: the join after it returns.
QuitEndsLoop == base = "joining" ~> base # "joining"
=============================================================================
