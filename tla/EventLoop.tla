------------------------------ MODULE EventLoop ------------------------------
(***************************************************************************)
(* One EventLoop (mudlite/net/EventLoop.{h,cc}): the thread that created   *)
(* it and runs loop(), and the other threads that call queueInLoop,        *)
(* runInLoop and quit on it.  The loop sleeps in epoll_wait; the others    *)
(* wake it through an eventfd that the loop's wakeupChannel_ watches.      *)
(*                                                                         *)
(* A critical section under mutex_ is one step, and so is one access to an *)
(* atomic or to the eventfd.  The channels of sockets are abstracted to    *)
(* one, "io", which may be ready at any time and whose callback is user    *)
(* code.  looping_ is written and never read, so it is left out.           *)
(*                                                                         *)
(* An operator named X_Y is a faulty variant of X that a property must     *)
(* catch; the specification does not use it.                               *)
(***************************************************************************)
EXTENDS Naturals, Sequences

CONSTANTS
  Callers,    \* threads other than the loop's own
  Functors,   \* one name for each call that hands a functor to the loop
  MaxLoops    \* how often loop() is entered (bound)

ASSUME MaxLoopsAssumption == MaxLoops \in Nat

VARIABLES
  pc,                       \* where the loop's thread is
  inCallback,               \* it is inside user code called from loop()
  loops,                    \* how often loop() was entered
  quit_,
  wakeupFd_,                \* the eventfd counter is not zero
  waking,                   \* callers that still have to call wakeup()
  activeChannels_,          \* the channels poll reported
  handled,                  \* those of them whose handleEvent was called
  pendingFunctors_,
  functors,                 \* what is left of doPendingFunctors' local vector
  callingPendingFunctors_,
  issued,                   \* history: functors handed over
  ran,                      \* history: functors started, in order
  early                     \* history: queued by the loop's thread outside loop()

loopVars  == <<pc, inCallback, loops>>
wakeVars  == <<wakeupFd_, waking>>
pollVars  == <<activeChannels_, handled>>
queueVars == <<pendingFunctors_, functors, callingPendingFunctors_>>
callVars  == <<issued, ran, early>>
vars == <<loopVars, quit_, wakeVars, pollVars, queueVars, callVars>>

Init ==
  /\ pc = "outside"
  /\ inCallback = FALSE
  /\ loops = 0
  /\ quit_ = FALSE
  /\ wakeupFd_ = FALSE
  /\ waking = {}
  /\ activeChannels_ = {}
  /\ handled = {}
  /\ pendingFunctors_ = <<>>
  /\ functors = <<>>
  /\ callingPendingFunctors_ = FALSE
  /\ issued = {}
  /\ ran = <<>>
  /\ early = {}

-----------------------------------------------------------------------------
(***************************************************************************)
(* Calls from other threads.  runInLoop is queueInLoop there.  The test    *)
(* before wakeup() is always true there, and the write to the eventfd is a *)
(* step of its own.                                                        *)
(***************************************************************************)

CallerQueueInLoop(c, f) ==
  /\ c \notin waking
  /\ f \notin issued
  /\ pendingFunctors_' = Append(pendingFunctors_, f)
  /\ issued' = issued \cup {f}
  /\ waking' = waking \cup {c}
  /\ UNCHANGED <<loopVars, quit_, wakeupFd_, pollVars, functors,
                 callingPendingFunctors_, ran, early>>

CallerQuit_NoWakeup(c) ==
  /\ quit_' = TRUE
  /\ UNCHANGED <<loopVars, wakeVars, pollVars, queueVars, callVars>>

CallerQuit(c) ==
  /\ c \notin waking
  /\ quit_' = TRUE
  /\ waking' = waking \cup {c}
  /\ UNCHANGED <<loopVars, wakeupFd_, pollVars, queueVars, callVars>>

CallerWakeup(c) ==
  /\ c \in waking
  /\ wakeupFd_' = TRUE
  /\ waking' = waking \ {c}
  /\ UNCHANGED <<loopVars, quit_, pollVars, queueVars, callVars>>

-----------------------------------------------------------------------------
(***************************************************************************)
(* Calls from the loop's own thread: before and after loop() (a            *)
(* ThreadInitCallback, main) or from a channel callback or functor.        *)
(***************************************************************************)

InUserCode == pc = "outside" \/ inCallback

WakeupUnlessSoon_Never == wakeupFd_

\* Outside doPendingFunctors the queue is emptied before the next epoll_wait.
WakeupUnlessSoon == wakeupFd_ \/ callingPendingFunctors_

\* Only this thread writes callingPendingFunctors_, so push, test and wakeup
\* are one step.
OwnQueueInLoop(f) ==
  /\ InUserCode
  /\ f \notin issued
  /\ pendingFunctors_' = Append(pendingFunctors_, f)
  /\ wakeupFd_' = WakeupUnlessSoon
  /\ issued' = issued \cup {f}
  /\ early' = IF pc = "outside" THEN early \cup {f} ELSE early
  /\ UNCHANGED <<loopVars, quit_, waking, pollVars, functors,
                 callingPendingFunctors_, ran>>

OwnRunInLoop(f) ==
  /\ InUserCode
  /\ f \notin issued
  /\ issued' = issued \cup {f}
  /\ ran' = Append(ran, f)
  /\ UNCHANGED <<loopVars, quit_, wakeVars, pollVars, queueVars, early>>

OwnQuit ==
  /\ InUserCode
  /\ quit_' = TRUE
  /\ UNCHANGED <<loopVars, wakeVars, pollVars, queueVars, callVars>>

-----------------------------------------------------------------------------
(***************************************************************************)
(* loop(), poll and doPendingFunctors.                                     *)
(***************************************************************************)

EnterLoop ==
  /\ pc = "outside"
  /\ loops < MaxLoops
  /\ loops' = loops + 1
  /\ quit_' = FALSE
  /\ pc' = "test"
  /\ UNCHANGED <<inCallback, wakeVars, pollVars, queueVars, callVars>>

LeaveLoop ==
  /\ pc = "test" /\ quit_
  /\ pc' = "outside"
  /\ UNCHANGED <<inCallback, loops, quit_, wakeVars, pollVars, queueVars,
                 callVars>>

EnterPoll_NoClear ==
  /\ pc = "test" /\ ~quit_
  /\ pc' = "poll"
  /\ handled' = {}
  /\ UNCHANGED <<inCallback, loops, quit_, wakeVars, activeChannels_, queueVars,
                 callVars>>

EnterPoll ==
  /\ pc = "test" /\ ~quit_
  /\ pc' = "poll"
  /\ activeChannels_' = {} /\ handled' = {}
  /\ UNCHANGED <<inCallback, loops, quit_, wakeVars, queueVars, callVars>>

ReadyChannels_StillRegistered == {"io", "wakeup", "removed"}

ReadyChannels == IF wakeupFd_ THEN {"io", "wakeup"} ELSE {"io"}

\* epoll_wait reports at least one ready channel, not always all of them:
\* its array has a size.  A channel left out stays ready (level-triggered).
PollReady ==
  /\ pc = "poll"
  /\ \E ready \in SUBSET ReadyChannels \ {{}} :
       activeChannels_' = activeChannels_ \cup ready
  /\ pc' = "handle"
  /\ UNCHANGED <<inCallback, loops, quit_, wakeVars, handled, queueVars,
                 callVars>>

\* kPollTimeMs went by, or a signal interrupted the wait (EINTR).
PollNothing ==
  /\ pc = "poll" /\ ~wakeupFd_
  /\ pc' = "handle"
  /\ UNCHANGED <<inCallback, loops, quit_, wakeVars, pollVars, queueVars,
                 callVars>>

Unhandled == activeChannels_ \ handled

\* The wakeup channel's read callback: one read empties the eventfd.
HandleRead ==
  /\ pc = "handle" /\ ~inCallback
  /\ "wakeup" \in Unhandled
  /\ handled' = handled \cup {"wakeup"}
  /\ wakeupFd_' = FALSE
  /\ UNCHANGED <<loopVars, quit_, waking, activeChannels_, queueVars, callVars>>

HandleIo ==
  /\ pc = "handle" /\ ~inCallback
  /\ "io" \in Unhandled
  /\ handled' = handled \cup {"io"}
  /\ inCallback' = TRUE
  /\ UNCHANGED <<pc, loops, quit_, wakeVars, activeChannels_, queueVars,
                 callVars>>

CallbackReturns ==
  /\ inCallback
  /\ inCallback' = FALSE
  /\ UNCHANGED <<pc, loops, quit_, wakeVars, pollVars, queueVars, callVars>>

\* The swap under mutex_; the local vector is empty before it.
Swap == functors' = pendingFunctors_ /\ pendingFunctors_' = functors

DoPendingFunctors ==
  /\ pc = "handle" /\ ~inCallback
  /\ Unhandled = {}
  /\ pc' = "run"
  /\ callingPendingFunctors_' = TRUE
  /\ Swap
  /\ UNCHANGED <<inCallback, loops, quit_, wakeVars, pollVars, callVars>>

Remaining_StopsOnQuit == IF quit_ THEN <<>> ELSE Tail(functors)

Remaining == Tail(functors)

RunFunctor ==
  /\ pc = "run" /\ ~inCallback
  /\ functors # <<>>
  /\ ran' = Append(ran, Head(functors))
  /\ functors' = Remaining
  /\ inCallback' = TRUE
  /\ UNCHANGED <<pc, loops, quit_, wakeVars, pollVars, pendingFunctors_,
                 callingPendingFunctors_, issued, early>>

PendingFunctorsDone ==
  /\ pc = "run" /\ ~inCallback
  /\ functors = <<>>
  /\ callingPendingFunctors_' = FALSE
  /\ pc' = "test"
  /\ UNCHANGED <<inCallback, loops, quit_, wakeVars, pollVars,
                 pendingFunctors_, functors, callVars>>

-----------------------------------------------------------------------------
Caller(c) ==
  \/ CallerQuit(c)
  \/ CallerWakeup(c)
  \/ \E f \in Functors : CallerQueueInLoop(c, f)

Own ==
  \/ OwnQuit
  \/ \E f \in Functors : OwnQueueInLoop(f) \/ OwnRunInLoop(f)

\* The steps of the loop's thread that need nobody and no timeout.
Advance ==
  \/ LeaveLoop
  \/ EnterPoll
  \/ HandleRead
  \/ HandleIo
  \/ CallbackReturns
  \/ DoPendingFunctors
  \/ RunFunctor
  \/ PendingFunctorsDone

Next ==
  \/ \E c \in Callers : Caller(c)
  \/ Own
  \/ EnterLoop
  \/ PollReady
  \/ PollNothing
  \/ Advance

\* The scheduler runs every thread, callbacks return, and epoll_wait returns
\* when the eventfd is readable.  Nothing is assumed of sockets, nor of the
\* ten-second timeout: the wakeup protocol must do without them.
Fairness ==
  /\ WF_vars(Advance)
  /\ WF_vars(PollReady /\ wakeupFd_)
  /\ \A c \in Callers : WF_vars(CallerWakeup(c))

Spec == Init /\ [][Next]_vars /\ Fairness

-----------------------------------------------------------------------------
TypeOK ==
  /\ pc \in {"outside", "test", "poll", "handle", "run"}
  /\ inCallback \in BOOLEAN
  /\ quit_ \in BOOLEAN
  /\ wakeupFd_ \in BOOLEAN
  /\ activeChannels_ \in SUBSET {"io", "wakeup"}
  /\ handled \in SUBSET {"io", "wakeup"}
  /\ pendingFunctors_ \in Seq(Functors)
  /\ functors \in Seq(Functors)
  /\ callingPendingFunctors_ \in BOOLEAN
  /\ waking \in SUBSET Callers
  /\ loops \in 0 .. MaxLoops
  /\ issued \in SUBSET Functors
  /\ ran \in Seq(Functors)
  /\ early \in SUBSET Functors

\* The eventfd will end the next epoll_wait, now or after a call under way.
WakeupComing == wakeupFd_ \/ waking # {}

\* Some pending functor was not queued by the loop's thread outside loop().
LateWork == \E i \in DOMAIN pendingFunctors_ : pendingFunctors_[i] \notin early

\* The loop does not sleep on queued work: in epoll_wait, a functor queued by
\* another thread or from a callback has a wakeup on its way, whatever the
\* eventfd reads and swaps in between did.
NoStrandedFunctor == pc = "poll" /\ LateWork => WakeupComing

\* The loop does not sleep through quit(): a quit_ set after the while test
\* finds it in epoll_wait with a wakeup on its way.
NoMissedQuit == pc = "poll" /\ quit_ => WakeupComing

\* handleRead never finds the eventfd empty (its LOG_ERROR branch): the read
\* that a reported wakeup event leads to returns 8 bytes.
WakeupReadFindsData == pc = "handle" /\ "wakeup" \in Unhandled => wakeupFd_

\* The strengthening of the three above that every step preserves: where the
\* thread is fixes what its variables hold, and after the run of a batch the
\* work queued meanwhile has its wakeup before the next poll is entered.
WakeProtocol ==
  /\ inCallback => pc \in {"handle", "run"}
  /\ callingPendingFunctors_ <=> pc = "run"
  /\ pc # "run" => functors = <<>>
  /\ pc = "poll" => activeChannels_ = {} /\ handled = {}
  /\ pc # "handle" /\ LateWork => WakeupComing
  /\ NoMissedQuit
  /\ WakeupReadFindsData

\* Functors run once each, in the order they were queued, across threads and
\* batches: the swap loses none and repeats none.
FQ == INSTANCE FunctorQueue WITH queue <- functors \o pendingFunctors_
ImplementsFunctorQueue == FQ!Spec

\* At any time each functor handed over has run once or waits in one place,
\* the queue or the batch, whatever threads and functors queue meanwhile.
FunctorsRunOnce == FQ!ExactlyOnce

\* A functor queued while loop() runs is run unless quit() is called, without
\* help from the poll timeout or from a socket.
HasRun(f) == \E i \in DOMAIN ran : ran[i] = f
IsPending(f) == \E i \in DOMAIN pendingFunctors_ : pendingFunctors_[i] = f
QueuedFunctorRuns ==
  \A f \in Functors :
    (IsPending(f) /\ f \notin early /\ pc # "outside") ~> (HasRun(f) \/ quit_)

\* quit() called while loop() runs, from whatever thread, ends loop().
QuitLeavesLoop == (quit_ /\ pc # "outside") ~> (pc = "outside")
=============================================================================
