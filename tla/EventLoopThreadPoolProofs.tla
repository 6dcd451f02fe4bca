----------------------- MODULE EventLoopThreadPoolProofs -----------------------
(* Safety of EventLoopThreadPool, for any number of threads.               *)
EXTENDS EventLoopThreadPool, FiniteSetTheorems, TLAPS

Starting == base \in {"started", "locking", "waiting", "woken", "returning"}

\* The destructor's quit has set quit_ of thread i.
QuitSent(i) == Destroying /\ (i < cur \/ (i = cur /\ base # "quitting"))

\* How far the base thread has come with threads_ and loops_.
Progress ==
  /\ base \in {"idle", "starting", "serving"} => cur = Len(loops_)
  /\ Starting => cur = Len(loops_) + 1
  /\ Destroying => cur <= Len(loops_)
  /\ base \in {"quitting", "waking", "joining"} => cur \in Index
  /\ base = "returning" => pc[cur] \in {"entering", "test", "poll"}
  /\ Len(loops_) <= MaxThreads

\* Where a thread is, seen from the base thread.
ThreadInv(i) ==
  /\ loop_[i] = IF pc[i] \in {"entering", "test", "poll", "left"} THEN i ELSE nullptr
  /\ i > Len(loops_) /\ ~(Starting /\ i = cur) => pc[i] = "none"
  /\ i <= Len(loops_) => loops_[i] = i /\ pc[i] \notin {"none", "created", "func"}
  /\ pc[i] \in {"left", "cleared", "ended"} => QuitSent(i)
  /\ quit_[i] => QuitSent(i)
  /\ QuitSent(i) /\ ~(i = cur /\ base \in {"waking", "joining"}) => pc[i] = "ended"

Inv == TypeOK /\ Progress /\ \A i \in Index : ThreadInv(i)

-----------------------------------------------------------------------------
\* The constructed pool.
LEMMA InitInv == ASSUME Init PROVE Inv
BY PoolAssumption DEF Init, Inv, TypeOK, Progress, ThreadInv, Index, Starting, Destroying,
   QuitSent, nullptr, baseLoop_

\* What the steps below use of the types.
LEMMA Types ==
  ASSUME TypeOK
  PROVE  /\ MaxThreads \in Nat /\ cur \in Nat
         /\ Len(loops_) \in Nat /\ DOMAIN loops_ = 1 .. Len(loops_)
         /\ \A i : i \in Index <=> i \in Nat /\ 1 <= i /\ i <= MaxThreads
BY PoolAssumption DEF TypeOK, Index

\* A thread whose destructor has not quit its loop still has it published.
LEMMA LoopPublished ==
  ASSUME Inv, NEW i \in Index, i <= Len(loops_), ~QuitSent(i)
  PROVE  loop_[i] = i /\ pc[i] \in {"entering", "test", "poll"}
BY DEF Inv, TypeOK, ThreadInv

-----------------------------------------------------------------------------
\* Every step preserves the invariant; first those of the base thread.
LEMMA BaseInv ==
  ASSUME Inv, Next, \A i \in Index : ~(ThreadFunc(i) \/ PollReturns(i))
  PROVE  Inv'
<1> USE Types DEF Inv, TypeOK, Progress, Starting, Destroying, QuitSent, nullptr,
                  poolVars, threadVars, loopVars
<1>1. ASSUME NEW n \in 0 .. MaxThreads, SetThreadNum(n) PROVE Inv'
  <2>1. TypeOK'
    BY <1>1 DEF SetThreadNum, Index
  <2>2. Progress'
    BY <1>1 DEF SetThreadNum, ThreadInv
  <2>3. ASSUME NEW i \in Index PROVE ThreadInv(i)'
    BY <1>1 DEF SetThreadNum, ThreadInv
  <2> QED
    BY <2>1, <2>2, <2>3
<1>2. CASE StartPool
  <2>1. TypeOK'
    BY <1>2 DEF StartPool, Index
  <2>2. Progress'
    BY <1>2 DEF StartPool, ThreadInv
  <2>3. ASSUME NEW i \in Index PROVE ThreadInv(i)'
    BY <1>2 DEF StartPool, ThreadInv
  <2> QED
    BY <2>1, <2>2, <2>3
<1>3. CASE StartThread
  <2>1. TypeOK'
    BY <1>3 DEF StartThread, Index
  <2>2. Progress'
    BY <1>3 DEF StartThread, ThreadInv
  <2>3. ASSUME NEW i \in Index PROVE ThreadInv(i)'
    BY <1>3 DEF StartThread, ThreadInv
  <2> QED
    BY <2>1, <2>2, <2>3
<1>4. CASE ThreadStarted
  <2>1. TypeOK'
    BY <1>4 DEF ThreadStarted, Index
  <2>2. Progress'
    BY <1>4 DEF ThreadStarted, ThreadInv
  <2>3. ASSUME NEW i \in Index PROVE ThreadInv(i)'
    BY <1>4 DEF ThreadStarted, ThreadInv
  <2> QED
    BY <2>1, <2>2, <2>3
<1>5. CASE StartLoopTests
  <2>1. TypeOK'
    BY <1>5 DEF StartLoopTests, TestLoop, Index
  <2>2. Progress'
    BY <1>5 DEF StartLoopTests, TestLoop, ThreadInv
  <2>3. ASSUME NEW i \in Index PROVE ThreadInv(i)'
    BY <1>5 DEF StartLoopTests, TestLoop, ThreadInv
  <2> QED
    BY <2>1, <2>2, <2>3
<1>6. CASE SpuriousWakeup
  <2>1. TypeOK'
    BY <1>6 DEF SpuriousWakeup, Index
  <2>2. Progress'
    BY <1>6 DEF SpuriousWakeup, ThreadInv
  <2>3. ASSUME NEW i \in Index PROVE ThreadInv(i)'
    BY <1>6 DEF SpuriousWakeup, ThreadInv
  <2> QED
    BY <2>1, <2>2, <2>3
<1>7. CASE StartLoopReturns
  <2>1. TypeOK'
    BY <1>7 DEF StartLoopReturns, Index
  <2>2. Progress'
    BY <1>7 DEF StartLoopReturns, ThreadInv
  <2>3. ASSUME NEW i \in Index PROVE ThreadInv(i)'
    BY <1>7 DEF StartLoopReturns, ThreadInv
  <2> QED
    BY <2>1, <2>2, <2>3
<1>8. CASE PoolStarted
  <2>1. TypeOK'
    BY <1>8 DEF PoolStarted, Index
  <2>2. Progress'
    BY <1>8 DEF PoolStarted, ThreadInv
  <2>3. ASSUME NEW i \in Index PROVE ThreadInv(i)'
    BY <1>8 DEF PoolStarted, ThreadInv
  <2> QED
    BY <2>1, <2>2, <2>3
<1>9. CASE GetNextLoop
  <2>0. \E l \in Index \cup {nullptr, baseLoop_} : handed' = Append(handed, l)
    <3>1. loops_ # <<>> => next_ + 1 \in DOMAIN loops_
      OBVIOUS
    <3>2. loops_ # <<>> => loops_[next_ + 1] \in Index \cup {nullptr, baseLoop_}
      BY <3>1
    <3> QED
      BY <1>9, <3>2 DEF GetNextLoop
  <2>1. TypeOK'
    <3>1. handed' \in Seq(Index \cup {nullptr, baseLoop_})
      BY <2>0
    <3>2. next_' \in Nat /\ (next_' = 0 \/ next_' < Len(loops_'))
      BY <1>9 DEF GetNextLoop, Following
    <3> QED
      BY <1>9, <3>1, <3>2 DEF GetNextLoop
  <2>2. Progress'
    BY <1>9 DEF GetNextLoop, ThreadInv
  <2>3. ASSUME NEW i \in Index PROVE ThreadInv(i)'
    BY <1>9 DEF GetNextLoop, ThreadInv
  <2> QED
    BY <2>1, <2>2, <2>3
<1>10. CASE DestroyPool
  <2>1. TypeOK'
    BY <1>10 DEF DestroyPool, Index
  <2>2. Progress'
    BY <1>10 DEF DestroyPool, ThreadInv
  <2>3. ASSUME NEW i \in Index PROVE ThreadInv(i)'
    BY <1>10 DEF DestroyPool, ThreadInv
  <2> QED
    BY <2>1, <2>2, <2>3
<1>11. CASE ReadLoop
  <2>0. base' = "quitting" /\ cur + 1 \in Index
    <3>1. cur + 1 <= Len(loops_) /\ cur + 1 <= MaxThreads
      BY <1>11 DEF ReadLoop
    <3>2. cur + 1 \in Index
      BY <3>1 DEF Index
    <3>3. ~QuitSent(cur + 1)
      OBVIOUS
    <3>4. loop_[cur + 1] = cur + 1
      BY <3>1, <3>2, <3>3, LoopPublished
    <3> QED
      BY <1>11, <3>2, <3>4 DEF ReadLoop
  <2>1. TypeOK'
    BY <1>11, <2>0 DEF ReadLoop, Index
  <2>2. Progress'
    BY <1>11, <2>0 DEF ReadLoop, ThreadInv
  <2>3. ASSUME NEW i \in Index PROVE ThreadInv(i)'
    BY <1>11, <2>0 DEF ReadLoop, ThreadInv
  <2> QED
    BY <2>1, <2>2, <2>3
<1>12. CASE Quit
  <2>1. TypeOK'
    BY <1>12 DEF Quit, Index
  <2>2. Progress'
    BY <1>12 DEF Quit, ThreadInv
  <2>3. ASSUME NEW i \in Index PROVE ThreadInv(i)'
    BY <1>12 DEF Quit, ThreadInv
  <2> QED
    BY <2>1, <2>2, <2>3
<1>13. CASE Wakeup
  <2>1. TypeOK'
    BY <1>13 DEF Wakeup, Index
  <2>2. Progress'
    BY <1>13 DEF Wakeup, ThreadInv
  <2>3. ASSUME NEW i \in Index PROVE ThreadInv(i)'
    BY <1>13 DEF Wakeup, ThreadInv
  <2> QED
    BY <2>1, <2>2, <2>3
<1>14. CASE Join
  <2>1. TypeOK'
    BY <1>14 DEF Join, Index
  <2>2. Progress'
    BY <1>14 DEF Join, ThreadInv
  <2>3. ASSUME NEW i \in Index PROVE ThreadInv(i)'
    BY <1>14 DEF Join, ThreadInv
  <2> QED
    BY <2>1, <2>2, <2>3
<1>15. CASE PoolDestroyed
  <2>1. TypeOK'
    BY <1>15 DEF PoolDestroyed, Index
  <2>2. Progress'
    BY <1>15 DEF PoolDestroyed, ThreadInv
  <2>3. ASSUME NEW i \in Index PROVE ThreadInv(i)'
    BY <1>15 DEF PoolDestroyed, ThreadInv
  <2> QED
    BY <2>1, <2>2, <2>3
<1> QED
  BY <1>1, <1>2, <1>3, <1>4, <1>5, <1>6, <1>7, <1>8, <1>9, <1>10, <1>11,
     <1>12, <1>13, <1>14, <1>15
     DEF Next, Start, Destroy

\* Then those of a thread.
LEMMA ThreadFuncInv ==
  ASSUME Inv, NEW t \in Index, ThreadFunc(t) \/ PollReturns(t)
  PROVE  Inv'
<1> USE Types DEF Inv, TypeOK, Progress, Starting, Destroying, QuitSent, nullptr,
                  poolVars, threadVars, loopVars, Moves
<1>1. CASE Post(t)
  <2>1. TypeOK'
    BY <1>1 DEF Post
  <2>2. Progress'
    BY <1>1 DEF Post, ThreadInv
  <2>3. ASSUME NEW i \in Index PROVE ThreadInv(i)'
    BY <1>1 DEF Post, ThreadInv
  <2> QED
    BY <2>1, <2>2, <2>3
<1>2. CASE Publish(t)
  <2>1. TypeOK'
    BY <1>2 DEF Publish
  <2>2. Progress'
    BY <1>2 DEF Publish, ThreadInv
  <2>3. ASSUME NEW i \in Index PROVE ThreadInv(i)'
    BY <1>2 DEF Publish, ThreadInv
  <2> QED
    BY <2>1, <2>2, <2>3
<1>3. CASE EnterLoop(t)
  <2>1. TypeOK'
    BY <1>3 DEF EnterLoop
  <2>2. Progress'
    BY <1>3 DEF EnterLoop, ThreadInv
  <2>3. ASSUME NEW i \in Index PROVE ThreadInv(i)'
    BY <1>3 DEF EnterLoop, ThreadInv
  <2> QED
    BY <2>1, <2>2, <2>3
<1>4. CASE TestQuit(t)
  <2>1. TypeOK'
    BY <1>4 DEF TestQuit
  <2>2. Progress'
    BY <1>4 DEF TestQuit, ThreadInv
  <2>3. ASSUME NEW i \in Index PROVE ThreadInv(i)'
    BY <1>4 DEF TestQuit, ThreadInv
  <2> QED
    BY <2>1, <2>2, <2>3
<1>5. CASE PollReturns(t)
  <2>1. TypeOK'
    BY <1>5 DEF PollReturns
  <2>2. Progress'
    BY <1>5 DEF PollReturns, ThreadInv
  <2>3. ASSUME NEW i \in Index PROVE ThreadInv(i)'
    BY <1>5 DEF PollReturns, ThreadInv
  <2> QED
    BY <2>1, <2>2, <2>3
<1>6. CASE ClearLoop(t)
  <2>1. TypeOK'
    BY <1>6 DEF ClearLoop
  <2>2. Progress'
    BY <1>6 DEF ClearLoop, ThreadInv
  <2>3. ASSUME NEW i \in Index PROVE ThreadInv(i)'
    BY <1>6 DEF ClearLoop, ThreadInv
  <2> QED
    BY <2>1, <2>2, <2>3
<1>7. CASE End(t)
  <2>1. TypeOK'
    BY <1>7 DEF End
  <2>2. Progress'
    BY <1>7 DEF End, ThreadInv
  <2>3. ASSUME NEW i \in Index PROVE ThreadInv(i)'
    BY <1>7 DEF End, ThreadInv
  <2> QED
    BY <2>1, <2>2, <2>3
<1> QED
  BY <1>1, <1>2, <1>3, <1>4, <1>5, <1>6, <1>7 DEF ThreadFunc

\* A step of nobody.
LEMMA StutterInv == ASSUME Inv, UNCHANGED vars PROVE Inv'
BY DEF Inv, TypeOK, Progress, ThreadInv, Starting, Destroying, QuitSent, vars, poolVars,
   threadVars, loopVars

\* The inductive invariant: LoopsAlive needs that a thread leaves loop() only
\* for the destructor's quit, and that loop_ is what pc says it is.
THEOREM PoolCorrect == Spec => []Inv
<1>1. ASSUME Inv, [Next]_vars PROVE Inv'
  <2>1. CASE \E i \in Index : ThreadFunc(i) \/ PollReturns(i)
    BY <1>1, <2>1, ThreadFuncInv
  <2>2. CASE Next /\ \A i \in Index : ~(ThreadFunc(i) \/ PollReturns(i))
    BY <1>1, <2>2, BaseInv
  <2>3. CASE UNCHANGED vars
    BY <1>1, <2>3, StutterInv
  <2> QED
    BY <1>1, <2>1, <2>2, <2>3
<1> QED
  BY <1>1, InitInv, PTL DEF Spec

-----------------------------------------------------------------------------
\* Every variable keeps its type; next_ in particular stays inside loops_.
THEOREM TypeCorrect == Spec => []TypeOK
  BY PoolCorrect, PTL DEF Inv

\* The pool hands out only loops that live until it is destroyed, whatever
\* the order in which the threads come to the lock.
THEOREM PoolLoopsAlive == Spec => []LoopsAlive
<1>1. ASSUME Inv PROVE LoopsAlive
  <2> SUFFICES ASSUME NEW k \in DOMAIN loops_
               PROVE  loops_[k] = k /\ (~Destroying => Alive(k))
    BY DEF LoopsAlive
  <2>1. k \in Index /\ k <= Len(loops_)
    BY <1>1, Types DEF Inv, Progress
  <2>2. loops_[k] = k
    BY <1>1, <2>1 DEF Inv, ThreadInv
  <2>3. ASSUME ~Destroying PROVE Alive(k)
    BY <1>1, <2>1, <2>3, LoopPublished DEF QuitSent, Alive
  <2> QED
    BY <2>2, <2>3
<1> QED
  BY <1>1, PoolCorrect, PTL

\* An EventLoopThread is freed only when its thread has ended.
THEOREM ThreadsJoined == Spec => []ThreadsEndBeforeTheirOwner
<1>1. ASSUME Inv PROVE ThreadsEndBeforeTheirOwner
  <2> SUFFICES ASSUME Destroying, NEW i \in DOMAIN loops_,
                      i < cur \/ (i = cur /\ base \in {"destroying", "gone"})
               PROVE  pc[i] = "ended"
    BY DEF ThreadsEndBeforeTheirOwner
  <2>1. i \in Index
    BY <1>1, Types DEF Inv, Progress
  <2>2. QuitSent(i) /\ ~(i = cur /\ base \in {"waking", "joining"})
    BY <1>1, Types DEF Inv, QuitSent
  <2> QED
    BY <1>1, <2>1, <2>2 DEF Inv, ThreadInv
<1> QED
  BY <1>1, PoolCorrect, PTL

-----------------------------------------------------------------------------
\* The connections of a loop can be counted.
LEMMA HandedType ==
  ASSUME TypeOK, NEW l
  PROVE  Handed(l) \in Nat
<1>1. IsFiniteSet(DOMAIN handed)
  BY FS_Interval DEF TypeOK
<1> QED
  BY <1>1, FS_Subset, FS_CardinalityType DEF Handed

\* A connection more for the loop that getNextLoop returned, and for no other.
LEMMA HandedOne ==
  ASSUME NEW S, handed \in Seq(S), NEW r \in S, NEW l, handed' = Append(handed, r)
  PROVE  /\ Handed(l) \in Nat
         /\ Handed(l)' = IF l = r THEN Handed(l) + 1 ELSE Handed(l)
<1> DEFINE At == {k \in DOMAIN handed : handed[k] = l}
<1> DEFINE n == Len(handed) + 1
<1>1. n \in Nat /\ DOMAIN handed = 1 .. Len(handed) /\ DOMAIN handed' = 1 .. n
  OBVIOUS
<1>2. IsFiniteSet(At)
  <2>1. IsFiniteSet(1 .. Len(handed))
    BY FS_Interval
  <2> QED
    BY <1>1, <2>1, FS_Subset
<1>3. Cardinality(At) \in Nat
  BY <1>2, FS_CardinalityType
<1>4. At' = IF l = r THEN At \cup {n} ELSE At
  OBVIOUS
<1>5. n \notin At
  BY <1>1
<1>6. Cardinality(At') = IF l = r THEN Cardinality(At) + 1 ELSE Cardinality(At)
  BY <1>2, <1>4, <1>5, FS_AddElement
<1> QED
  BY <1>3, <1>6 DEF Handed

\* Connections of loop i, and one more if its turn in this round is to come.
Turns(i) == Handed(i) + (IF i <= next_ THEN 0 ELSE 1)

\* Every loop has had its turns, and with loops the base loop has had none.
EqualTurns ==
  /\ base \notin {"serving"} /\ ~Destroying => handed = <<>> /\ next_ = 0
  /\ \A i, j \in DOMAIN loops_ : Turns(i) = Turns(j)
  /\ loops_ # <<>> => Handed(baseLoop_) = 0

\* Before the pool serves there is nothing to count.
LEMMA NoTurns ==
  ASSUME handed = <<>>, next_ = 0
  PROVE  /\ \A l : Handed(l) = 0
         /\ \A i, j \in DOMAIN loops_ : Turns(i) = Turns(j)
<1>1. ASSUME NEW l PROVE Handed(l) = 0
  BY FS_EmptySet DEF Handed
<1> QED
  BY <1>1 DEF Turns

\* getNextLoop: the turn goes to the loop at next_, and after the last of them
\* a new round begins.
LEMMA GetNextLoopTurns ==
  ASSUME Inv, EqualTurns, GetNextLoop
  PROVE  EqualTurns'
<1> USE Types DEF Inv, TypeOK
<1>1. /\ base' = base /\ base = "serving" /\ loops_' = loops_
  BY DEF GetNextLoop
<1>2. CASE loops_ = <<>>
  BY <1>1, <1>2 DEF EqualTurns
<1>3. CASE loops_ # <<>>
  <2>1. /\ next_ + 1 \in DOMAIN loops_ /\ next_ + 1 \in Index
        /\ next_ + 1 <= Len(loops_) /\ next_ \in Nat
    <3>1. next_ + 1 \in DOMAIN loops_
      BY <1>3
    <3>2. next_ + 1 <= Len(loops_) /\ next_ \in Nat
      BY <3>1
    <3>3. Len(loops_) <= MaxThreads
      BY DEF Progress
    <3>4. next_ + 1 \in Index
      BY <3>2, <3>3 DEF Index
    <3> QED
      BY <3>1, <3>2, <3>4
  <2>2. loops_[next_ + 1] = next_ + 1
    BY <2>1 DEF ThreadInv
  <2>3. handed' = Append(handed, next_ + 1) /\ next_' = Following(next_)
    BY <1>3, <2>2 DEF GetNextLoop
  <2>4. ASSUME NEW l
        PROVE  /\ Handed(l) \in Nat
               /\ Handed(l)' = IF l = next_ + 1 THEN Handed(l) + 1 ELSE Handed(l)
    <3>1. handed \in Seq(Index \cup {nullptr, baseLoop_})
      OBVIOUS
    <3>2. next_ + 1 \in Index \cup {nullptr, baseLoop_}
      BY <2>1
    <3> HIDE DEF Inv, TypeOK
    <3> QED
      BY <2>3, <3>1, <3>2, HandedOne, Zenon
  <2>5. ASSUME NEW i \in DOMAIN loops_
        PROVE  Turns(i)' = IF next_ + 1 = Len(loops_) THEN Turns(i) + 1 ELSE Turns(i)
    <3>1. i \in Nat /\ 1 <= i /\ i <= Len(loops_)
      OBVIOUS
    <3>0. /\ Handed(i) \in Nat
          /\ Handed(i)' = IF i = next_ + 1 THEN Handed(i) + 1 ELSE Handed(i)
      BY <2>4
    <3>2. CASE next_ + 1 = Len(loops_)
      <4>1. next_' = 0
        BY <2>3, <3>2 DEF Following
      <4> QED
        BY <2>1, <3>0, <3>1, <3>2, <4>1 DEF Turns
    <3>3. CASE next_ + 1 # Len(loops_)
      <4>1. next_' = next_ + 1
        BY <2>1, <2>3, <3>3 DEF Following
      <4> QED
        BY <2>1, <3>0, <3>1, <3>3, <4>1 DEF Turns
    <3> QED
      BY <3>2, <3>3
  <2>6. \A i, j \in DOMAIN loops_ : Turns(i)' = Turns(j)'
    BY <2>5 DEF EqualTurns
  <2>7. baseLoop_ # next_ + 1
    BY <2>1 DEF baseLoop_
  <2>8. Handed(baseLoop_)' = 0
    BY <1>3, <2>4, <2>7 DEF EqualTurns, baseLoop_
  <2> QED
    BY <1>1, <2>6, <2>8 DEF EqualTurns, Destroying
<1> QED
  BY <1>2, <1>3

\* Every other step leaves the count alone, or comes before it.
LEMMA OtherTurns ==
  ASSUME Inv, EqualTurns, [Next]_vars, ~GetNextLoop
  PROVE  EqualTurns'
<1> USE DEF poolVars, threadVars, loopVars
<1>1. handed' = handed /\ next_' = next_
  BY DEF Next, vars, SetThreadNum, StartPool, Start, StartThread, ThreadStarted, StartLoopTests,
     StartLoopReturns, PoolStarted, SpuriousWakeup, DestroyPool, Destroy, ReadLoop, Quit, Wakeup,
     Join, PoolDestroyed, ThreadFunc, Post, Publish, EnterLoop, TestQuit, ClearLoop, End,
     PollReturns
<1>2. \/ loops_' = loops_
      \/ base = "returning" /\ base' = "starting"
  BY DEF Next, vars, SetThreadNum, StartPool, Start, StartThread, ThreadStarted, StartLoopTests,
     StartLoopReturns, PoolStarted, SpuriousWakeup, DestroyPool, Destroy, ReadLoop, Quit, Wakeup,
     Join, PoolDestroyed, ThreadFunc, Post, Publish, EnterLoop, TestQuit, ClearLoop, End,
     PollReturns
<1>3. base \in {"serving"} \/ Destroying => base' \in {"serving"} \/ Destroying'
  BY DEF Next, vars, SetThreadNum, StartPool, Start, StartThread, ThreadStarted, StartLoopTests,
     StartLoopReturns, PoolStarted, SpuriousWakeup, DestroyPool, Destroy, ReadLoop, Quit, Wakeup,
     Join, PoolDestroyed, ThreadFunc, Post, Publish, EnterLoop, TestQuit, ClearLoop, End,
     PollReturns, Destroying
<1>4. CASE handed = <<>> /\ next_ = 0
  <2>1. handed' = <<>> /\ next_' = 0
    BY <1>1, <1>4
  <2>2. /\ \A l : Handed(l)' = 0
        /\ \A i, j \in DOMAIN loops_' : Turns(i)' = Turns(j)'
    <3>1. ASSUME NEW l PROVE Handed(l)' = 0
      BY <2>1, FS_EmptySet DEF Handed
    <3> QED
      BY <2>1, <3>1, Types DEF Turns, Inv
  <2> QED
    BY <2>1, <2>2 DEF EqualTurns
<1>5. CASE ~(handed = <<>> /\ next_ = 0)
  <2>1. base \in {"serving"} \/ Destroying
    BY <1>5 DEF EqualTurns
  <2>2. loops_' = loops_
    BY <1>2, <2>1 DEF Destroying
  <2>3. \A l : Handed(l)' = Handed(l) /\ Turns(l)' = Turns(l)
    BY <1>1 DEF Handed, Turns
  <2> QED
    BY <1>1, <1>3, <2>1, <2>2, <2>3 DEF EqualTurns
<1> QED
  BY <1>4, <1>5

\* getNextLoop is fair, for any number of loops and connections: between two
\* loops there is never more than the one turn of the round under way.
THEOREM ConnectionsSpread == Spec => []RoundRobin
<1>1. Init => EqualTurns
  BY NoTurns DEF Init, EqualTurns
<1>2. Inv /\ EqualTurns /\ [Next]_vars => EqualTurns'
  BY GetNextLoopTurns, OtherTurns
<1>3. ASSUME Inv, EqualTurns PROVE RoundRobin
  <2>1. ASSUME NEW i \in DOMAIN loops_, NEW j \in DOMAIN loops_
        PROVE  Handed(i) <= Handed(j) + 1
    <3>1. Turns(i) = Turns(j)
      BY <1>3 DEF EqualTurns
    <3>2. Handed(i) \in Nat /\ Handed(j) \in Nat
      BY <1>3, HandedType DEF Inv
    <3> QED
      BY <3>1, <3>2 DEF Turns
  <2> QED
    BY <1>3, <2>1 DEF RoundRobin, EqualTurns
<1> QED
  BY <1>1, <1>2, <1>3, PoolCorrect, PTL DEF Spec

-----------------------------------------------------------------------------
\* The handshake of startLoop: from the lock on the thread has started, and
\* the wait begins before the thread publishes its loop.
Handshake ==
  /\ base = "started" => pc[cur] # "none"
  /\ base \in {"locking", "waiting", "woken"} => pc[cur] \notin {"none", "created"}
  /\ base = "waiting" => pc[cur] = "func"

\* The wait is decided under the lock, and loop_ is null there only if the
\* thread has not come to it.
LEMMA HandshakeOfBase ==
  ASSUME Inv, Handshake, Next, \A i \in Index : ~(ThreadFunc(i) \/ PollReturns(i))
  PROVE  Handshake'
<1> USE Types DEF Handshake, poolVars, threadVars, loopVars
<1>1. CASE StartThread
  <2>1. cur + 1 \in Index
    BY <1>1 DEF StartThread, Inv, TypeOK, Index
  <2> QED
    BY <1>1, <2>1 DEF StartThread, Inv, TypeOK
<1>2. CASE StartLoopTests
  <2>1. cur \in Index /\ ~QuitSent(cur)
    BY <1>2 DEF StartLoopTests, Inv, TypeOK, Progress, Starting, QuitSent, Destroying
  <2>2. loop_[cur] = nullptr => pc[cur] = "func"
    BY <1>2, <2>1 DEF StartLoopTests, Inv, TypeOK, ThreadInv, nullptr
  <2> QED
    BY <1>2, <2>2 DEF StartLoopTests, TestLoop
<1>3. CASE ~StartThread /\ ~StartLoopTests
  BY <1>3 DEF Next, SetThreadNum, StartPool, Start, ThreadStarted, StartLoopReturns, PoolStarted,
     SpuriousWakeup, GetNextLoop, DestroyPool, Destroy, ReadLoop, Quit, Wakeup, Join,
     PoolDestroyed
<1> QED
  BY <1>1, <1>2, <1>3

\* Publishing the loop wakes the owner in the same step.
LEMMA HandshakeOfThread ==
  ASSUME Inv, Handshake, NEW t \in Index, ThreadFunc(t) \/ PollReturns(t)
  PROVE  Handshake'
<1>1. cur' = cur /\ (base' = base \/ (Publish(t) /\ base' = "woken" /\ cur = t))
  BY DEF ThreadFunc, Post, Publish, EnterLoop, TestQuit, ClearLoop, End, PollReturns, poolVars
<1>2. \E s \in {"func", "entering", "test", "poll", "left", "cleared", "ended"} :
        pc' = [pc EXCEPT ![t] = s] /\ (s = "func" => pc[t] = "created")
  BY DEF ThreadFunc, Post, Publish, EnterLoop, TestQuit, ClearLoop, End, PollReturns, Moves
<1>3. pc[t] = "func" => Publish(t)
  BY DEF ThreadFunc, Post, Publish, EnterLoop, TestQuit, ClearLoop, End, PollReturns, Moves
<1>4. Publish(t) /\ base = "waiting" /\ cur = t => base' = "woken"
  BY DEF Publish
<1> QED
  BY <1>1, <1>2, <1>3, <1>4 DEF Handshake, Inv, TypeOK

\* startLoop waits only for a notification that is still to come, whichever of
\* the two threads comes to the lock first.
THEOREM WaitsAnswered == Spec => []WaitIsAnswered
<1>1. Init => Handshake
  BY DEF Init, Handshake
<1>2. ASSUME Inv, Handshake, [Next]_vars PROVE Handshake'
  <2>1. CASE UNCHANGED vars
    BY <1>2, <2>1 DEF Handshake, vars, threadVars
  <2>2. CASE \E i \in Index : ThreadFunc(i) \/ PollReturns(i)
    BY <1>2, <2>2, HandshakeOfThread
  <2> QED
    BY <1>2, <2>1, <2>2, HandshakeOfBase
<1>3. Handshake => WaitIsAnswered
  BY DEF Handshake, WaitIsAnswered
<1> QED
  BY <1>1, <1>2, <1>3, PoolCorrect, PTL DEF Spec

-----------------------------------------------------------------------------
\* The quit of thread i: not stored before loop() resets it, and while the
\* destructor waits a thread that is still in loop() has it, with a wakeup if
\* it sleeps.
QuitKept(i) ==
  /\ Destroying /\ i <= Len(loops_) => pc[i] # "entering"
  /\ i = cur /\ base \in {"waking", "joining"} /\ pc[i] \in {"test", "poll"} => quit_[i]
  /\ i = cur /\ base = "joining" /\ pc[i] = "poll" => wakeupFd_[i]

\* A step of the base thread: the destruction begins with every thread in
\* loop(), and then quit stores before it wakes.
LEMMA QuitKeptByBase ==
  ASSUME WaitsForLoops, Inv, NEW i \in Index, QuitKept(i), Next,
         \A j \in Index : ~(ThreadFunc(j) \/ PollReturns(j))
  PROVE  QuitKept(i)'
<1> USE Types DEF QuitKept, Destroying, poolVars, threadVars, loopVars, Inv, TypeOK
<1>1. CASE DestroyPool
  <2>1. \A k \in DOMAIN loops_ : InLoop(k)
    BY <1>1, Zenon DEF DestroyPool
  <2>2. base' = "destroying" /\ pc' = pc /\ loops_' = loops_
    BY <1>1 DEF DestroyPool
  <2>3. i <= Len(loops_) => i \in DOMAIN loops_
    OBVIOUS
  <2>4. i <= Len(loops_) => pc[i] # "entering"
    BY <2>1, <2>3, Zenon DEF InLoop
  <2> QED
    BY <2>2, <2>4
<1>2. CASE Quit
  BY <1>2 DEF Quit
<1>3. CASE Wakeup
  BY <1>3 DEF Wakeup
<1>4. CASE ReadLoop
  BY <1>4 DEF ReadLoop
<1>5. CASE ~DestroyPool /\ ~Quit /\ ~Wakeup /\ ~ReadLoop
  BY <1>5 DEF Next, SetThreadNum, StartPool, Start, StartThread, ThreadStarted, StartLoopTests,
     TestLoop, StartLoopReturns, PoolStarted, SpuriousWakeup, GetNextLoop, Destroy, Join,
     PoolDestroyed
<1> QED
  BY <1>1, <1>2, <1>3, <1>4, <1>5

\* A step of a thread: it empties its eventfd only to test quit_ again.
LEMMA QuitKeptByThread ==
  ASSUME Inv, NEW i \in Index, QuitKept(i), NEW t \in Index, ThreadFunc(t) \/ PollReturns(t)
  PROVE  QuitKept(i)'
<1> USE Types DEF QuitKept, Destroying, Moves, poolVars, threadVars, loopVars, Inv, TypeOK
<1>1. CASE Post(t)
  BY <1>1 DEF Post
<1>2. CASE Publish(t)
  BY <1>2 DEF Publish, ThreadInv, QuitSent
<1>3. CASE EnterLoop(t)
  BY <1>3 DEF EnterLoop, Progress
<1>4. CASE TestQuit(t)
  BY <1>4 DEF TestQuit
<1>5. CASE PollReturns(t)
  BY <1>5 DEF PollReturns
<1>6. CASE ClearLoop(t) \/ End(t)
  BY <1>6 DEF ClearLoop, End
<1> QED
  BY <1>1, <1>2, <1>3, <1>4, <1>5, <1>6 DEF ThreadFunc

\* If the pool is destroyed only when all its loops run, then no join waits for
\* a thread that sleeps or has forgotten its quit, for any number of threads.
\* (Without the assumption pool_quit_lost is the counterexample.)
THEOREM JoinsAnswered ==
  ASSUME WaitsForLoops
  PROVE  Spec => []JoinIsAnswered
<1> DEFINE Kept == \A i \in Index : QuitKept(i)
<1>1. Init => Kept
  BY DEF Init, QuitKept, Destroying
<1>2. ASSUME Inv, Kept, [Next]_vars PROVE Kept'
  <2>1. CASE UNCHANGED vars
    BY <1>2, <2>1 DEF QuitKept, Destroying, vars, poolVars, threadVars, loopVars, Index
  <2>2. CASE \E i \in Index : ThreadFunc(i) \/ PollReturns(i)
    BY <1>2, <2>2, QuitKeptByThread
  <2> QED
    BY <1>2, <2>1, <2>2, QuitKeptByBase
<1>3. ASSUME Inv, Kept PROVE JoinIsAnswered
  <2> SUFFICES ASSUME base = "joining"
               PROVE  \/ pc[cur] \in {"left", "cleared", "ended"}
                      \/ pc[cur] = "test" /\ quit_[cur]
                      \/ pc[cur] = "poll" /\ quit_[cur] /\ wakeupFd_[cur]
    BY DEF JoinIsAnswered
  <2>1. cur \in Index /\ cur <= Len(loops_) /\ Destroying
    BY <1>3 DEF Inv, Progress, Destroying
  <2>2. pc[cur] \notin {"none", "created", "func"}
    BY <1>3, <2>1 DEF Inv, ThreadInv
  <2> QED
    BY <1>3, <2>1, <2>2 DEF QuitKept, Inv, TypeOK
<1> QED
  BY <1>1, <1>2, <1>3, PoolCorrect, PTL DEF Spec

\* Both together: in the whole life of the pool nobody sleeps unanswered.
THEOREM SleepersWoken ==
  ASSUME WaitsForLoops
  PROVE  Spec => []SleepersAreWoken
<1>1. Spec => []JoinIsAnswered
  BY JoinsAnswered
<1> QED
  BY <1>1, WaitsAnswered, PTL DEF SleepersAreWoken
=============================================================================
