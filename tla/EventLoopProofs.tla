-------------------------- MODULE EventLoopProofs --------------------------
(***************************************************************************)
(* Proofs about EventLoop for any callers, functors and number of loops.   *)
(***************************************************************************)
EXTENDS EventLoop, SequenceTheorems, TLAPS

\* Every variable keeps its type in any behaviour of an event loop.
THEOREM TypeCorrect == Spec => []TypeOK
<1>1. Init => TypeOK
  <2>1. <<>> \in Seq(Functors)
    OBVIOUS
  <2>2. Init => 0 \in 0 .. MaxLoops
    BY MaxLoopsAssumption
  <2>3. QED
    BY <2>1, <2>2 DEF Init, TypeOK
<1>2. TypeOK /\ [Next]_vars => TypeOK'
  <2> SUFFICES ASSUME TypeOK, [Next]_vars
               PROVE  TypeOK'
    OBVIOUS
  <2> USE MaxLoopsAssumption DEF TypeOK, loopVars, wakeVars, pollVars,
                                 queueVars, callVars
  <2>1. ASSUME NEW c \in Callers, NEW f \in Functors, CallerQueueInLoop(c, f)
        PROVE  TypeOK'
    BY <2>1 DEF CallerQueueInLoop
  <2>2. ASSUME NEW c \in Callers, CallerQuit(c) \/ CallerWakeup(c)
        PROVE  TypeOK'
    BY <2>2 DEF CallerQuit, CallerWakeup
  <2>3. ASSUME NEW f \in Functors, OwnQueueInLoop(f)
        PROVE  TypeOK'
    BY <2>3 DEF OwnQueueInLoop, WakeupUnlessSoon
  <2>4. ASSUME NEW f \in Functors, OwnRunInLoop(f)
        PROVE  TypeOK'
    BY <2>4 DEF OwnRunInLoop
  <2>5. CASE OwnQuit
    BY <2>5 DEF OwnQuit
  <2>6. CASE EnterLoop
    <3>1. loops' \in 0 .. MaxLoops
      BY <2>6 DEF EnterLoop
    <3>2. QED
      BY <2>6, <3>1 DEF EnterLoop
  <2>7. CASE PollReady
    BY <2>7 DEF PollReady, ReadyChannels
  <2>8. CASE PollNothing
    BY <2>8 DEF PollNothing
  <2>9. CASE LeaveLoop \/ EnterPoll
    BY <2>9 DEF LeaveLoop, EnterPoll
  <2>10. CASE HandleRead \/ HandleIo \/ CallbackReturns
    BY <2>10 DEF HandleRead, HandleIo, CallbackReturns, Unhandled
  <2>11. CASE DoPendingFunctors
    BY <2>11 DEF DoPendingFunctors, Swap
  <2>12. CASE RunFunctor
    BY <2>12 DEF RunFunctor, Remaining
  <2>13. CASE PendingFunctorsDone
    BY <2>13 DEF PendingFunctorsDone
  <2>14. CASE UNCHANGED vars
    BY <2>14 DEF vars
  <2>15. QED
    BY <2>1, <2>2, <2>3, <2>4, <2>5, <2>6, <2>7, <2>8, <2>9, <2>10, <2>11,
       <2>12, <2>13, <2>14 DEF Next, Caller, Own, Advance
<1>3. QED
  BY <1>1, <1>2, PTL DEF Spec

-----------------------------------------------------------------------------
\* No functor is late when none is pending.
LEMMA EmptyQueueNotLate == pendingFunctors_ = <<>> => ~LateWork
  BY DEF LateWork

\* A functor put at the end makes late work only if it is late itself.
LEMMA LateAfterAppend ==
  ASSUME NEW f \in Functors, pendingFunctors_ \in Seq(Functors),
         pendingFunctors_' = Append(pendingFunctors_, f), LateWork'
  PROVE  f \notin early' \/ \E i \in DOMAIN pendingFunctors_ :
                              pendingFunctors_[i] \notin early'
  BY DEF LateWork

\* What callers do keeps the protocol: whoever queues or quits owes a wakeup.
LEMMA CallerKeepsWakeProtocol ==
  ASSUME TypeOK, WakeProtocol, NEW c \in Callers, Caller(c)
  PROVE  WakeProtocol'
<1> USE DEF loopVars, wakeVars, pollVars, queueVars, callVars, WakeProtocol,
            WakeupComing, NoMissedQuit, WakeupReadFindsData, Unhandled
<1>1. ASSUME NEW f \in Functors, CallerQueueInLoop(c, f)
      PROVE  WakeProtocol'
  BY <1>1 DEF CallerQueueInLoop
<1>2. CASE CallerQuit(c)
  BY <1>2 DEF CallerQuit, LateWork
<1>3. CASE CallerWakeup(c)
  BY <1>3 DEF CallerWakeup, LateWork
<1>4. QED
  BY <1>1, <1>2, <1>3 DEF Caller

\* What the loop's own thread asks of its loop keeps the protocol: outside
\* loop() the functor is early, in "handle" the swap is still to come, and in
\* "run" the wakeup is written.
LEMMA OwnKeepsWakeProtocol ==
  ASSUME TypeOK, WakeProtocol, Own
  PROVE  WakeProtocol'
<1> USE DEF loopVars, wakeVars, pollVars, queueVars, callVars, WakeProtocol,
            WakeupComing, NoMissedQuit, WakeupReadFindsData, Unhandled
<1>1. ASSUME NEW f \in Functors, OwnQueueInLoop(f)
      PROVE  WakeProtocol'
  <2> USE <1>1 DEF OwnQueueInLoop, WakeupUnlessSoon, InUserCode
  <2>1. pc' # "handle" /\ LateWork' => WakeupComing'
    <3>1. SUFFICES ASSUME pc = "outside", LateWork'
                   PROVE  WakeupComing'
      BY DEF TypeOK
    <3>2. f \in early' /\ early \subseteq early'
      BY <3>1
    <3>3. LateWork
      BY <3>1, <3>2, LateAfterAppend DEF TypeOK, LateWork
    <3>4. QED
      BY <3>1, <3>3
  <2>2. QED
    BY <2>1
<1>2. ASSUME NEW f \in Functors, OwnRunInLoop(f)
      PROVE  WakeProtocol'
  BY <1>2 DEF OwnRunInLoop, LateWork
<1>3. CASE OwnQuit
  BY <1>3 DEF OwnQuit, InUserCode, LateWork
<1>4. QED
  BY <1>1, <1>2, <1>3 DEF Own

\* So does one turn of loop(): the eventfd is emptied only on the way to the
\* swap, and the swap empties the queue.
LEMMA LoopKeepsWakeProtocol ==
  ASSUME TypeOK, WakeProtocol,
         EnterLoop \/ PollReady \/ PollNothing \/ Advance
  PROVE  WakeProtocol'
<1> USE DEF TypeOK, loopVars, wakeVars, pollVars, queueVars, callVars,
            WakeProtocol, WakeupComing, NoMissedQuit, WakeupReadFindsData,
            Unhandled
<1>1. CASE EnterLoop \/ LeaveLoop
  BY <1>1 DEF EnterLoop, LeaveLoop, LateWork
<1>2. CASE EnterPoll
  BY <1>2 DEF EnterPoll, LateWork
<1>3. CASE PollReady \/ PollNothing
  BY <1>3 DEF PollReady, PollNothing, ReadyChannels, LateWork
<1>4. CASE HandleRead \/ HandleIo
  BY <1>4 DEF HandleRead, HandleIo, LateWork
<1>5. CASE CallbackReturns
  BY <1>5 DEF CallbackReturns, LateWork
<1>6. CASE DoPendingFunctors
  <2>1. pendingFunctors_' = <<>>
    BY <1>6 DEF DoPendingFunctors, Swap
  <2>2. ~LateWork'
    BY <2>1, EmptyQueueNotLate DEF LateWork
  <2>3. QED
    BY <1>6, <2>2 DEF DoPendingFunctors
<1>7. CASE RunFunctor
  BY <1>7 DEF RunFunctor, Remaining, LateWork
<1>8. CASE PendingFunctorsDone
  BY <1>8 DEF PendingFunctorsDone, LateWork
<1>9. QED
  BY <1>1, <1>2, <1>3, <1>4, <1>5, <1>6, <1>7, <1>8 DEF Advance

\* The wakeup protocol holds in any behaviour, with any number of callers.
THEOREM WakeProtocolCorrect == Spec => []WakeProtocol
<1>1. Init => WakeProtocol
  BY DEF Init, WakeProtocol, LateWork, WakeupComing, NoMissedQuit,
         WakeupReadFindsData, Unhandled
<1>2. TypeOK /\ WakeProtocol /\ [Next]_vars => WakeProtocol'
  <2> SUFFICES ASSUME TypeOK, WakeProtocol, [Next]_vars
               PROVE  WakeProtocol'
    OBVIOUS
  <2>1. CASE UNCHANGED vars
    BY <2>1 DEF vars, loopVars, wakeVars, pollVars, queueVars, callVars,
                WakeProtocol, LateWork, WakeupComing, NoMissedQuit,
                WakeupReadFindsData, Unhandled
  <2>2. QED
    BY <2>1, CallerKeepsWakeProtocol, OwnKeepsWakeProtocol,
       LoopKeepsWakeProtocol DEF Next
<1>3. QED
  BY <1>1, <1>2, TypeCorrect, PTL DEF Spec

\* The loop never sleeps on a functor queued while it runs without a wakeup
\* on its way.
THEOREM LoopNeverSleepsThrough == Spec => []NoStrandedFunctor
<1>1. WakeProtocol => NoStrandedFunctor
  BY DEF WakeProtocol, NoStrandedFunctor
<1>2. QED
  BY <1>1, WakeProtocolCorrect, PTL

\* Nor does it sleep through quit().
THEOREM QuitNeverMissed == Spec => []NoMissedQuit
<1>1. WakeProtocol => NoMissedQuit
  BY DEF WakeProtocol
<1>2. QED
  BY <1>1, WakeProtocolCorrect, PTL

\* handleRead always finds the eight bytes of the eventfd.
THEOREM WakeupsFindData == Spec => []WakeupReadFindsData
<1>1. WakeProtocol => WakeupReadFindsData
  BY DEF WakeProtocol
<1>2. QED
  BY <1>1, WakeProtocolCorrect, PTL

-----------------------------------------------------------------------------
Waiting == functors \o pendingFunctors_

\* A functor queued goes to the end of all that wait.
LEMMA WaitingAppend ==
  ASSUME TypeOK, NEW f \in Functors,
         pendingFunctors_' = Append(pendingFunctors_, f), functors' = functors
  PROVE  Waiting' = Append(Waiting, f)
<1>1. <<f>> \in Seq(Functors)
  OBVIOUS
<1>2. /\ Append(pendingFunctors_, f) = pendingFunctors_ \o <<f>>
      /\ Waiting \in Seq(Functors)
  BY AppendIsConcat, ConcatProperties DEF TypeOK, Waiting
<1>3. Append(Waiting, f) = Waiting \o <<f>>
  BY <1>2, AppendIsConcat
<1>4. functors \o (pendingFunctors_ \o <<f>>) = Waiting \o <<f>>
  BY <1>1, ConcatAssociative DEF TypeOK, Waiting
<1>5. QED
  BY <1>2, <1>3, <1>4 DEF Waiting

\* The functor that runs is the first of all that wait; the others stay.
LEMMA WaitingTail ==
  ASSUME TypeOK, functors # <<>>, functors' = Tail(functors),
         pendingFunctors_' = pendingFunctors_
  PROVE  /\ Waiting # <<>>
         /\ Head(Waiting) = Head(functors)
         /\ Waiting' = Tail(Waiting)
<1>1. /\ Waiting \in Seq(Functors)
      /\ Len(Waiting) = Len(functors) + Len(pendingFunctors_)
      /\ \A i \in 1 .. Len(Waiting) :
           Waiting[i] = IF i <= Len(functors) THEN functors[i]
                        ELSE pendingFunctors_[i - Len(functors)]
  BY ConcatProperties DEF TypeOK, Waiting
<1>2. Len(functors) \in Nat \ {0} /\ Len(pendingFunctors_) \in Nat
  BY EmptySeq, LenProperties DEF TypeOK
<1>3. Waiting # <<>> /\ Len(Waiting) \in Nat \ {0}
  BY <1>1, <1>2, EmptySeq
<1>4. Head(Waiting) = Head(functors)
  BY <1>1, <1>2, <1>3 DEF TypeOK
<1>5. /\ Tail(functors) \in Seq(Functors)
      /\ Len(Tail(functors)) = Len(functors) - 1
      /\ \A i \in 1 .. Len(Tail(functors)) : Tail(functors)[i] = functors[i + 1]
  BY HeadTailProperties DEF TypeOK
<1>6. /\ Tail(Waiting) \in Seq(Functors)
      /\ Len(Tail(Waiting)) = Len(Waiting) - 1
      /\ \A i \in 1 .. Len(Tail(Waiting)) : Tail(Waiting)[i] = Waiting[i + 1]
  BY <1>1, <1>3, HeadTailProperties
<1>7. /\ Waiting' \in Seq(Functors)
      /\ Len(Waiting') = Len(Tail(functors)) + Len(pendingFunctors_)
      /\ \A i \in 1 .. Len(Waiting') :
           Waiting'[i] = IF i <= Len(Tail(functors)) THEN Tail(functors)[i]
                         ELSE pendingFunctors_[i - Len(Tail(functors))]
  BY <1>5, ConcatProperties DEF TypeOK, Waiting
<1>8. Len(Waiting') = Len(Tail(Waiting))
  BY <1>1, <1>2, <1>5, <1>6, <1>7
<1>9. ASSUME NEW i \in 1 .. Len(Waiting')
      PROVE  Waiting'[i] = Tail(Waiting)[i]
  <2> DEFINE m == Len(functors)
             n == Len(pendingFunctors_)
  <2>1. m \in Nat \ {0} /\ n \in Nat /\ Len(Waiting) = m + n
        /\ Len(Waiting') = m + n - 1 /\ Len(Tail(functors)) = m - 1
    BY <1>1, <1>2, <1>5, <1>7
  <2> HIDE DEF m, n
  <2>2. i + 1 \in 1 .. m + n /\ i \in 1 .. m + n - 1
    BY <2>1
  <2>3. Tail(Waiting)[i] = Waiting[i + 1]
    BY <1>6, <1>8, <2>1, <2>2
  <2>4. CASE i <= m - 1
    BY <1>1, <1>5, <1>7, <2>1, <2>2, <2>3, <2>4 DEF m
  <2>5. CASE i > m - 1
    <3>1. i - (m - 1) = (i + 1) - m
      BY <2>1, <2>2
    <3>2. Waiting'[i] = pendingFunctors_[i - (m - 1)]
      BY <1>7, <2>1, <2>2, <2>5
    <3>3. Waiting[i + 1] = pendingFunctors_[(i + 1) - m]
      BY <1>1, <2>1, <2>2, <2>5 DEF m
    <3>4. QED
      BY <2>3, <3>1, <3>2, <3>3
  <2>6. QED
    BY <2>1, <2>2, <2>4, <2>5
<1>10. Waiting' = Tail(Waiting)
  BY <1>6, <1>7, <1>8, <1>9, SeqEqual
<1>11. QED
  BY <1>3, <1>4, <1>10

\* The swap moves work from one of the two vectors to the other, in order.
LEMMA WaitingSwap ==
  ASSUME TypeOK, functors = <<>>, Swap
  PROVE  Waiting' = Waiting
  BY ConcatEmptySeq DEF TypeOK, Swap, Waiting

\* Threads, wakeups and batches are invisible: an event loop runs functors
\* like one queue, each once and in the order in which they entered it.
THEOREM RefinesFunctorQueue == Spec => ImplementsFunctorQueue
<1>1. Init => FQ!Init
  BY DEF Init, FQ!Init
<1>2. TypeOK /\ WakeProtocol /\ [Next]_vars => [FQ!Next]_(FQ!vars)
  <2> SUFFICES ASSUME TypeOK, WakeProtocol, [Next]_vars
               PROVE  [FQ!Next]_(FQ!vars)
    OBVIOUS
  <2> USE DEF loopVars, wakeVars, pollVars, queueVars, callVars
  <2>1. ASSUME NEW f \in Functors, Waiting' = Append(Waiting, f),
               f \notin issued, issued' = issued \cup {f}, ran' = ran
        PROVE  FQ!Submit(f)
    BY <2>1 DEF FQ!Submit, Waiting
  <2>2. ASSUME UNCHANGED <<issued, Waiting, ran>>
        PROVE  UNCHANGED FQ!vars
    BY <2>2 DEF FQ!vars, Waiting
  <2>3. ASSUME NEW c \in Callers, Caller(c)
        PROVE  [FQ!Next]_(FQ!vars)
    <3>1. ASSUME NEW f \in Functors, CallerQueueInLoop(c, f)
          PROVE  FQ!Submit(f)
      BY <2>1, <3>1, WaitingAppend DEF CallerQueueInLoop
    <3>2. CASE CallerQuit(c) \/ CallerWakeup(c)
      BY <2>2, <3>2 DEF CallerQuit, CallerWakeup, Waiting
    <3>3. QED
      BY <2>3, <3>1, <3>2 DEF Caller, FQ!Next
  <2>4. CASE Own
    <3>1. ASSUME NEW f \in Functors, OwnQueueInLoop(f)
          PROVE  FQ!Submit(f)
      BY <2>1, <3>1, WaitingAppend DEF OwnQueueInLoop
    <3>2. ASSUME NEW f \in Functors, OwnRunInLoop(f)
          PROVE  FQ!RunNow(f)
      BY <3>2 DEF OwnRunInLoop, FQ!RunNow
    <3>3. CASE OwnQuit
      BY <2>2, <3>3 DEF OwnQuit, Waiting
    <3>4. QED
      BY <2>4, <3>1, <3>2, <3>3 DEF Own, FQ!Next
  <2>5. CASE RunFunctor
    <3>1. FQ!RunNext
      BY <2>5, WaitingTail DEF RunFunctor, Remaining, FQ!RunNext, Waiting
    <3>2. QED
      BY <3>1 DEF FQ!Next
  <2>6. CASE DoPendingFunctors
    <3>1. functors = <<>>
      BY <2>6 DEF DoPendingFunctors, WakeProtocol
    <3>2. QED
      BY <2>2, <2>6, <3>1, WaitingSwap DEF DoPendingFunctors
  <2>7. CASE \/ EnterLoop \/ LeaveLoop \/ EnterPoll \/ PollReady \/ PollNothing
             \/ HandleRead \/ HandleIo \/ CallbackReturns \/ PendingFunctorsDone
             \/ UNCHANGED vars
    <3>1. UNCHANGED <<issued, functors, pendingFunctors_, ran>>
      BY <2>7 DEF EnterLoop, LeaveLoop, EnterPoll, PollReady, PollNothing,
                  HandleRead, HandleIo, CallbackReturns, PendingFunctorsDone,
                  vars
    <3>2. QED
      BY <2>2, <3>1 DEF Waiting
  <2>8. QED
    BY <2>3, <2>4, <2>5, <2>6, <2>7 DEF Next, Advance
<1>3. QED
  BY <1>1, <1>2, TypeCorrect, WakeProtocolCorrect, PTL
     DEF Spec, ImplementsFunctorQueue, FQ!Spec

\* Each functor handed over runs once or waits in one place: what the abstract
\* queue guarantees holds of the queue and batch that implement it.
FQP == INSTANCE FunctorQueueProofs WITH queue <- functors \o pendingFunctors_

THEOREM EachFunctorOnce == Spec => []FunctorsRunOnce
<1>1. FQ!Init => FQP!Init
  BY DEF FQ!Init, FQP!Init
<1>2. [FQ!Next]_(FQ!vars) => [FQP!Next]_(FQP!vars)
  BY DEF FQ!Next, FQP!Next, FQ!vars, FQP!vars, FQ!Submit, FQP!Submit, FQ!RunNow, FQP!RunNow,
     FQ!RunNext, FQP!RunNext
<1>3. FQ!Spec => FQP!Spec
  BY <1>1, <1>2, PTL DEF FQ!Spec, FQP!Spec
<1>4. FQP!ExactlyOnce => FunctorsRunOnce
  BY DEF FunctorsRunOnce, FQ!ExactlyOnce, FQP!ExactlyOnce, FQ!NoRepeats, FQP!NoRepeats,
     FQ!Occurs, FQP!Occurs
<1> QED
  BY <1>3, <1>4, FQP!OnceEach, RefinesFunctorQueue, PTL DEF ImplementsFunctorQueue
=============================================================================
