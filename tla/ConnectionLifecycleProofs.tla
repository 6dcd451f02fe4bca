---------------------- MODULE ConnectionLifecycleProofs ----------------------
(***************************************************************************)
(* TcpServer implements ConnectionLifecycle, for any number of pool        *)
(* threads, connections and descriptors.                                   *)
(***************************************************************************)
EXTENDS TcpServerProofs

-----------------------------------------------------------------------------
(***************************************************************************)
(* The references that a loop has: functors that wait, and those of the    *)
(* batch that have run.                                                    *)
(***************************************************************************)

Carries(l, c) ==
  c \in spent[l] \/ \E f \in Queued(l) : f.conn = c /\ f.op \in Owning

Carried(c) == \E l \in Loops : Carries(l, c)

\* A connection is referred to from the map, by the user or from a loop.
LEMMA ReferencesAre ==
  ASSUME NEW c
  PROVE  /\ References(c) <=> c \in connections_ \cup holds \/ Carried(c)
         /\ References(c)' <=> c \in connections_' \cup holds' \/ Carried(c)'
  BY DEF References, Carried, Carries

\* A loop whose queues and batch are the same carries the same.
LEMMA CarriesStill ==
  ASSUME NEW l \in Loops, Work(l)' = Work(l), spent'[l] = spent[l], NEW c
  PROVE  Carries(l, c)' <=> Carries(l, c)
  BY DEF Carries, Queued

\* A functor that is queued adds a reference if it owns its connection.
LEMMA CarriesQueued ==
  ASSUME TypeOK, NEW k \in Loops, NEW f \in Functors, Queue(k, f),
         batch'[k] = batch[k], spent'[k] = spent[k], NEW c
  PROVE  Carries(k, c)' <=> Carries(k, c) \/ (f.conn = c /\ f.op \in Owning)
<1>1. Queued(k)' = Queued(k) \cup {f}
  <2> DEFINE n == Len(Work(k))
  <2>1. /\ n \in Nat /\ DOMAIN Work(k) = 1 .. n /\ DOMAIN Work(k)' = 1 .. n + 1
        /\ \A i \in 1 .. n : Work(k)'[i] = Work(k)[i]
        /\ Work(k)'[n + 1] = f
    BY Queued1
  <2> HIDE DEF n
  <2>2. n + 1 \in 1 .. n + 1 /\ \A i \in 1 .. n + 1 : i = n + 1 \/ i \in 1 .. n
    BY <2>1
  <2>3. 1 .. n \subseteq 1 .. n + 1
    BY <2>1
  <2>4. QED
    BY <2>1, <2>2, <2>3 DEF Queued, Range
<1>2. QED
  BY <1>1 DEF Carries

LEMMA CarriedQueued ==
  ASSUME TypeOK, NEW k \in Loops, NEW f \in Functors, Queue(k, f), UNCHANGED <<batch, spent>>,
         NEW c
  PROVE  Carried(c)' <=> Carried(c) \/ (f.conn = c /\ f.op \in Owning)
<1>1. \A l \in Loops : l # k => (Carries(l, c)' <=> Carries(l, c))
  BY Queued1, CarriesStill
<1>2. Carries(k, c)' <=> Carries(k, c) \/ (f.conn = c /\ f.op \in Owning)
  BY CarriesQueued
<1>3. QED
  BY <1>1, <1>2 DEF Carried

\* A functor that runs keeps its reference until its batch is done.
LEMMA CarriesRun ==
  ASSUME TypeOK, NEW k \in Loops, NEW op, NEW c, Runs(k, op, c), pending'[k] = pending[k],
         NEW d
  PROVE  Carries(k, d)' <=> Carries(k, d)
<1>1. spent'[k] = IF op \in Owning THEN spent[k] \cup {c} ELSE spent[k]
  BY DEF Runs, TypeOK
<1>2. Queued(k) = Queued(k)' \cup {Functor(op, c)}
  <2> DEFINE n == Len(Work(k))
  <2>1. /\ n \in Nat \ {0} /\ DOMAIN Work(k) = 1 .. n /\ DOMAIN Work(k)' = 1 .. n - 1
        /\ \A i \in 1 .. n - 1 : Work(k)'[i] = Work(k)[i + 1]
        /\ Work(k)[1] = Functor(op, c)
    BY Run1
  <2> HIDE DEF n
  <2>2. /\ 1 \in 1 .. n
        /\ \A i \in 1 .. n - 1 : i + 1 \in 1 .. n
        /\ \A i \in 1 .. n : i = 1 \/ (i - 1 \in 1 .. n - 1 /\ (i - 1) + 1 = i)
    BY <2>1
  <2>3. ASSUME NEW i \in 1 .. n PROVE Work(k)[i] \in Queued(k)' \cup {Functor(op, c)}
    <3>1. CASE i = 1
      BY <2>1, <3>1
    <3>2. CASE i # 1
      <4>1. i - 1 \in DOMAIN Work(k)' /\ Work(k)'[i - 1] = Work(k)[i]
        BY <2>1, <2>2, <3>2
      <4>2. QED
        BY <4>1 DEF Queued, Range
    <3>3. QED
      BY <3>1, <3>2
  <2>4. ASSUME NEW i \in DOMAIN Work(k)' PROVE Work(k)'[i] \in Queued(k)
    BY <2>1, <2>2 DEF Queued, Range
  <2>5. Functor(op, c) \in Queued(k)
    BY <2>1, <2>2 DEF Queued, Range
  <2>6. Queued(k) \subseteq Queued(k)' \cup {Functor(op, c)}
    BY <2>1, <2>3 DEF Queued, Range
  <2>7. Queued(k)' \subseteq Queued(k)
    BY <2>4 DEF Queued, Range
  <2>8. QED
    BY <2>5, <2>6, <2>7
<1>3. Functor(op, c).op = op /\ Functor(op, c).conn = c
  BY DEF Functor
<1>4. QED
  BY <1>1, <1>2, <1>3 DEF Carries

LEMMA CarriedRun ==
  ASSUME TypeOK, NEW k \in Loops, NEW op, NEW c, Runs(k, op, c), UNCHANGED pending,
         NEW d
  PROVE  Carried(d)' <=> Carried(d)
<1>1. \A l \in Loops : l # k => Work(l)' = Work(l) /\ spent'[l] = spent[l]
  <2>1. \A l \in Loops : l # k => Work(l)' = Work(l)
    BY Run1
  <2>2. \A l \in Loops : l # k => spent'[l] = spent[l]
    BY DEF Runs, TypeOK
  <2>3. QED
    BY <2>1, <2>2
<1>2. \A l \in Loops : Carries(l, d)' <=> Carries(l, d)
  BY <1>1, CarriesRun, CarriesStill
<1>3. QED
  BY <1>2 DEF Carried

\* The functor that runs is a reference to its connection.
LEMMA HeadCarries ==
  ASSUME TypeOK, NEW k \in Loops, NEW op \in Owning, NEW c, Runs(k, op, c)
  PROVE  Carried(c)
<1>1. Functor(op, c) \in Queued(k)
  BY HeadPlace DEF Places, Queued, Range
<1>2. Functor(op, c).op = op /\ Functor(op, c).conn = c
  BY DEF Functor
<1>3. QED
  BY <1>1, <1>2 DEF Carried, Carries

\* removeConnectionInLoop hands the map's reference to connectDestoryed.
LEMMA RemovedCarries ==
  ASSUME Inv, NEW c \in Conns, RemoveConnectionInLoop(c), NEW d
  PROVE  Carried(d)' => Carried(d)
<1> DEFINE f == Functor("connectDestoryed", c)
<1>1. Runs(loop_, "removeConnectionInLoop", c) /\ Queue(loopOf[c], f)
  BY DEF RemoveConnectionInLoop, Removed
<1>2. Carried(c)
  BY <1>1, HeadCarries, ThreadFacts DEF Inv, Owning
<1>3. PICK k \in Loops : k = loopOf[c]
  BY DEF Inv, TypeOK
<1>4. k # loop_
  <2>1. 1 \in Places(loop_, "removeConnectionInLoop", c)
    BY <1>1, HeadPlace, ThreadFacts DEF Inv
  <2>2. QED
    BY <1>3, <2>1, ThreadFacts DEF Inv, Queues, Placed
<1>5. f \in Functors /\ f.conn = c
  <2>1. f.conn = c
    BY DEF Functor
  <2>2. QED
    BY <2>1, FunctorFacts DEF Ops
<1>6. /\ \A l \in Loops : l # k => pending'[l] = pending[l]
      /\ \A l \in Loops : l # loop_ => batch'[l] = batch[l] /\ spent'[l] = spent[l]
  BY <1>1, <1>3 DEF Queue, Runs, Inv, TypeOK
<1>7. Carries(loop_, d)' <=> Carries(loop_, d)
  BY <1>1, <1>4, <1>6, ThreadFacts, CarriesRun DEF Inv
<1>8. \A l \in Loops : l # loop_ /\ l # k => (Carries(l, d)' <=> Carries(l, d))
  BY <1>6, CarriesStill DEF Work
<1>9. Carries(k, d)' => Carries(k, d) \/ d = c
  BY <1>1, <1>3, <1>4, <1>5, <1>6, CarriesQueued DEF Inv
<1>10. QED
  BY <1>2, <1>7, <1>8, <1>9 DEF Carried

-----------------------------------------------------------------------------
(***************************************************************************)
(* The steps of a connection's life.                                       *)
(***************************************************************************)

\* A connection that exists and is referred to is alive; one that is not made
\* stays so, and one with the same references lives on as it did.
LEMMA Lives ==
  ASSUME NEW c
  PROVE  /\ Life(c) = "alive" <=> state_[c] # "none" /\ References(c)
         /\ Life(c) = "freed" <=> state_[c] # "none" /\ ~References(c)
         /\ Life(c) = "none" <=> state_[c] = "none"
         /\ (state_[c] = "none" <=> state_'[c] = "none") /\ (References(c) <=> References(c)') =>
              Life(c)' = Life(c)
  BY DEF Life, Freed

\* Steps in which references only go, and nothing is reported.
LEMMA ReleasesStep ==
  ASSUME \A d \in Conns : state_'[d] = "none" <=> state_[d] = "none",
         \A d \in Conns : state_[d] # "none" => (References(d)' => References(d)),
         UNCHANGED callbacks
  PROVE  Lifecycle!Next
<1> DEFINE S == {c \in Conns : Life(c) = "alive" /\ Life(c)' = "freed"}
<1>1. \A c \in Conns : Life(c)' = IF c \in S THEN "freed" ELSE Life(c)
  BY DEF Life, Freed
<1>2. S \in SUBSET Conns /\ \A c \in S : c \in Conns /\ Life(c) = "alive"
  OBVIOUS
<1> HIDE DEF S
<1>3. [c \in Conns |-> Life(c)]' = [c \in Conns |-> IF c \in S THEN "freed" ELSE [d \in Conns |-> Life(d)][c]]
  BY <1>1
<1>4. \A c \in S : [d \in Conns |-> Life(d)][c] = "alive"
  BY <1>2
<1>5. Lifecycle!Released(S)
  BY <1>3, <1>4 DEF Lifecycle!Released
<1>6. QED
  BY <1>2, <1>5 DEF Lifecycle!Next

\* Steps that report c, or make it, and leave the others alone.
LEMMA OneStep ==
  ASSUME NEW c \in Conns, \A d \in Conns : d # c => Life(d)' = Life(d)
  PROVE  /\ Life(c)' = Life(c) =>
              [d \in Conns |-> Life(d)]' = [d \in Conns |-> Life(d)]
         /\ Life(c)' = "alive" =>
              [d \in Conns |-> Life(d)]' = [[d \in Conns |-> Life(d)] EXCEPT ![c] = "alive"]
         /\ Life(c)' = "freed" =>
              [d \in Conns |-> Life(d)]' = [[d \in Conns |-> Life(d)] EXCEPT ![c] = "freed"]
         /\ [d \in Conns |-> Life(d)][c] = Life(c)
<1>1. [d \in Conns |-> Life(d)]' = [d \in Conns |-> Life(d)']
  OBVIOUS
<1>2. QED
  BY <1>1

\* newConnection makes a connection, on the base loop reporting it at once.
LEMMA MadeStep ==
  ASSUME Inv, Accept
  PROVE  Lifecycle!Next
<1>0. PICK n \in Conns : n = nextConnId_
  BY Fresh DEF Accept, AcceptHere, AcceptElsewhere
<1>1. /\ state_[n] = "none" /\ callbacks[n] = <<>> /\ n \notin connections_ \cup holds
      /\ connections_' = connections_ \cup {n} /\ holds' \subseteq holds \cup {n}
      /\ holds \subseteq holds' /\ UNCHANGED <<batch, spent>>
  BY <1>0, Fresh DEF Accept, AcceptHere, AcceptElsewhere, userVars, loopVars
<1>2. /\ state_'[n] # "none" /\ \A d \in Conns : d # n => state_'[d] = state_[d]
      /\ callbacks' \in {callbacks, [callbacks EXCEPT ![n] = <<"up">>]}
  <2>1. CASE AcceptHere
    <3>1. Append(callbacks[n], "up") = <<"up">>
      BY <1>1
    <3>2. QED
      BY <1>0, <1>1, <2>1, <3>1 DEF AcceptHere, Established, Inv, TypeOK
  <2>2. CASE AcceptElsewhere
    BY <1>0, <1>1, <2>2 DEF AcceptElsewhere, Inv, TypeOK
  <2>3. QED
    BY <2>1, <2>2 DEF Accept
<1>3. \A d \in Conns : d # n => (Carried(d)' <=> Carried(d))
  <2>1. CASE AcceptHere
    <3>1. UNCHANGED pending
      BY <2>1 DEF AcceptHere
    <3>2. QED
      BY <1>1, <3>1, CarriesStill DEF Work, Carried
  <2>2. CASE AcceptElsewhere
    <3>1. PICK k \in Threads : k = next_ + 1
      BY <2>2, AcceptTypes DEF AcceptElsewhere, Inv
    <3>2. /\ k \in Loops /\ Queue(k, Functor("connectEstablished", n))
          /\ Functor("connectEstablished", n) \in Functors
      BY <1>0, <2>2, <3>1, ThreadFacts, FunctorFacts DEF AcceptElsewhere, Ops
    <3>3. Functor("connectEstablished", n).conn = n
      BY DEF Functor
    <3>4. QED
      BY <1>1, <3>2, <3>3, CarriedQueued DEF Inv
  <2>3. QED
    BY <2>1, <2>2 DEF Accept
<1>4. \A d \in Conns : d # n => Life(d)' = Life(d)
  <2>1. \A d \in Conns : d # n => (References(d)' <=> References(d))
    BY <1>1, <1>3, ReferencesAre
  <2>2. QED
    BY <1>2, <2>1, Lives
<1>5. Life(n) = "none" /\ Life(n)' = "alive"
  BY <1>1, <1>2, Lives DEF Life, Freed, References
<1>6. Lifecycle!Made(n)
  BY <1>2, <1>4, <1>5, OneStep DEF Lifecycle!Made
<1>7. QED
  BY <1>6 DEF Lifecycle!Next

\* connectEstablished reports up, in its batch's reference.
LEMMA ComesUpStep ==
  ASSUME Inv, NEW l \in Loops, NEW c \in Conns, ConnectEstablished(l, c)
  PROVE  Lifecycle!Next
<1>1. /\ Runs(l, "connectEstablished", c) /\ UNCHANGED <<connections_, pending>>
      /\ holds \subseteq holds' /\ holds' \subseteq holds \cup {c}
      /\ state_'[c] # "none" /\ \A d \in Conns : d # c => state_'[d] = state_[d]
      /\ callbacks' = [callbacks EXCEPT ![c] = Append(callbacks[c], "up")]
  BY DEF ConnectEstablished, Established, Inv, TypeOK
<1>2. l = loopOf[c] /\ state_[c] = "kConnecting"
  <2>1. 1 \in Places(l, "connectEstablished", c)
    BY <1>1, HeadPlace DEF Inv
  <2>2. l = loopOf[c]
    BY <2>1 DEF Inv, Queues, Placed
  <2>3. QED
    BY <2>1, <2>2 DEF Inv, Queues, Establishing
<1>3. callbacks[c] = <<>> /\ Append(callbacks[c], "up") = <<"up">>
  <2>1. Stage(c)
    BY DEF Inv
  <2>2. callbacks[c] = <<>>
    BY <1>2, <2>1 DEF Stage
  <2>3. Append(<<>>, "up") = <<"up">>
    OBVIOUS
  <2>4. QED
    BY <2>2, <2>3
<1>4. \A d \in Conns : Carried(d)' <=> Carried(d)
  BY <1>1, CarriedRun DEF Inv
<1>5. Carried(c)
  BY <1>1, HeadCarries DEF Inv, Owning
<1>6. \A d \in Conns : Life(d)' = Life(d)
  <2>1. \A d \in Conns : References(d)' <=> References(d)
    BY <1>1, <1>4, <1>5, ReferencesAre
  <2>2. QED
    BY <1>1, <1>2, <2>1, Lives
<1>7. Life(c) = "alive"
  BY <1>2, <1>5, ReferencesAre, Lives
<1>8. Lifecycle!ComesUp(c)
  BY <1>1, <1>3, <1>6, <1>7, OneStep DEF Lifecycle!ComesUp
<1>9. QED
  BY <1>8 DEF Lifecycle!Next

\* The down callback of a connection that is alive, and remains so or is freed
\* by the step that reports it.
LEMMA DownStep ==
  ASSUME NEW c \in Conns, Life(c) = "alive", Life(c)' \in {"alive", "freed"},
         \A d \in Conns : d # c => Life(d)' = Life(d),
         callbacks[c] = <<"up">>,
         callbacks' = [callbacks EXCEPT ![c] = Append(callbacks[c], "down")]
  PROVE  Lifecycle!Next
<1>1. callbacks' = [callbacks EXCEPT ![c] = <<"up", "down">>]
  BY UpDown
<1>2. Lifecycle!GoesDown(c)
  BY <1>1, OneStep DEF Lifecycle!GoesDown
<1>3. QED
  BY <1>2 DEF Lifecycle!Next

\* handleClose reports down: the map, or the connectDestoryed that took the
\* connection from it, still refers to the connection.
LEMMA ClosesStep ==
  ASSUME Inv, NEW c \in Conns, HandleClose(c)
  PROVE  Lifecycle!Next
<1>1. /\ channel[c] = "watched" /\ phase[loopOf[c]] = "poll"
      /\ UNCHANGED <<holds, batch, spent>>
      /\ state_'[c] = "kDisconnected" /\ \A d \in Conns : d # c => state_'[d] = state_[d]
      /\ callbacks' = [callbacks EXCEPT ![c] = Append(callbacks[c], "down")]
      /\ \/ connections_' = connections_ \ {c} /\ Queue(loop_, Functor("connectDestoryed", c))
         \/ UNCHANGED connections_ /\ Queue(loop_, Functor("removeConnectionInLoop", c))
  BY DEF HandleClose, AskRemoval, Removed, userVars, loopVars, Inv, TypeOK
<1>2. state_[c] \in {"kConnected", "kDisconnecting"} /\ callbacks[c] = <<"up">>
  BY <1>1 DEF Inv, Stage
<1>3. /\ \A op \in Ops : Functor(op, c) \in Functors
      /\ \A op : Functor(op, c).op = op /\ Functor(op, c).conn = c
  <2>1. \A op : Functor(op, c).op = op /\ Functor(op, c).conn = c
    BY DEF Functor
  <2>2. QED
    BY <2>1, FunctorFacts
<1>4. \A d \in Conns : Carried(d)' <=> Carried(d) \/ d = c
  BY <1>1, <1>3, ThreadFacts, CarriedQueued DEF Inv, Owning, Ops
<1>5. References(c)
  <2>1. PICK k \in Loops : k = loopOf[c]
    BY DEF Inv, TypeOK
  <2>2. c \in connections_ \/ Places(k, "connectDestoryed", c) # {}
    BY <1>1, <1>2, <2>1 DEF Inv, Queues, Custody
  <2>3. QED
    BY <2>2, QueuedReference DEF References, Owning
<1>6. References(c)'
  BY <1>4, ReferencesAre
<1>7. \A d \in Conns : d # c => (References(d)' <=> References(d))
  BY <1>1, <1>4, ReferencesAre
<1>8. Life(c) = "alive" /\ Life(c)' = "alive"
  BY <1>1, <1>2, <1>5, <1>6, Lives DEF Life, Freed
<1>9. \A d \in Conns : d # c => Life(d)' = Life(d)
  BY <1>1, <1>7, Lives
<1>10. QED
  BY <1>1, <1>2, <1>8, <1>9, DownStep

\* connectDestoryed reports down only a connection that was still up, in its
\* batch's reference.
LEMMA DestroyedLifeStep ==
  ASSUME Inv, NEW l \in Loops, NEW c \in Conns, ConnectDestroyed(l, c)
  PROVE  Lifecycle!Next
<1>1. /\ Runs(l, "connectDestoryed", c) /\ UNCHANGED <<connections_, holds, pending>>
      /\ \A d \in Conns : state_'[d] = "none" <=> state_[d] = "none"
      /\ IF state_[c] = "kConnected"
         THEN callbacks' = [callbacks EXCEPT ![c] = Append(callbacks[c], "down")]
         ELSE UNCHANGED callbacks
  BY DEF ConnectDestroyed, Destroyed, userVars, Inv, TypeOK
<1>2. \A d \in Conns : References(d)' <=> References(d)
  BY <1>1, CarriedRun, ReferencesAre DEF Inv
<1>3. CASE state_[c] = "kConnected"
  <2>1. References(c)
    BY <1>1, HeadCarries, ReferencesAre DEF Inv, Owning
  <2>2. \A d \in Conns : Life(d)' = Life(d)
    BY <1>1, <1>2, Lives
  <2>3. Life(c) = "alive" /\ callbacks[c] = <<"up">>
    BY <1>3, <2>1, Lives DEF Inv, Stage
  <2>4. QED
    BY <1>1, <1>3, <2>2, <2>3, DownStep
<1>4. CASE state_[c] # "kConnected"
  BY <1>1, <1>2, <1>4, ReleasesStep
<1>5. QED
  BY <1>3, <1>4

\* ~TcpServer takes a connection out of the map: on the base loop it reports
\* down what was still up, with a reference in its hands, and elsewhere it
\* hands the reference to connectDestoryed.
LEMMA DestructorLifeStep ==
  ASSUME Inv, NEW c \in Conns, CloseConnection(c)
  PROVE  Lifecycle!Next
<1>1. /\ c \in connections_ /\ connections_' = connections_ \ {c} /\ state_[c] # "none"
      /\ UNCHANGED <<holds, batch, spent>>
      /\ \A d \in Conns : state_'[d] = "none" <=> state_[d] = "none"
  BY DEF CloseConnection, Destroyed, userVars, loopVars, connVars, Inv, TypeOK, Stage
<1>2. References(c)
  BY <1>1 DEF References
<1>3. CASE loopOf[c] = loop_
  <2>1. /\ UNCHANGED pending
        /\ IF state_[c] = "kConnected"
           THEN callbacks' = [callbacks EXCEPT ![c] = Append(callbacks[c], "down")]
           ELSE UNCHANGED callbacks
    BY <1>3 DEF CloseConnection, Destroyed
  <2>2. \A d \in Conns : Carried(d)' <=> Carried(d)
    BY <1>1, <2>1, CarriesStill DEF Work, Carried
  <2>3. /\ \A d \in Conns : References(d)' => References(d)
        /\ \A d \in Conns : d # c => (References(d)' <=> References(d))
    BY <1>1, <2>2, ReferencesAre
  <2>4. CASE state_[c] = "kConnected"
    <3>1. \A d \in Conns : d # c => Life(d)' = Life(d)
      BY <1>1, <2>3, Lives
    <3>2. /\ Life(c) = "alive" /\ Life(c)' \in {"alive", "freed"}
          /\ callbacks[c] = <<"up">>
      BY <1>1, <1>2, <2>4 DEF Life, Freed, Inv, Stage
    <3>3. QED
      BY <2>1, <2>4, <3>1, <3>2, DownStep
  <2>5. CASE state_[c] # "kConnected"
    BY <1>1, <2>1, <2>3, <2>5, ReleasesStep
  <2>6. QED
    BY <2>4, <2>5
<1>4. CASE loopOf[c] # loop_
  <2>1. /\ UNCHANGED callbacks /\ loopOf[c] \in Loops
        /\ Queue(loopOf[c], Functor("connectDestoryed", c))
    BY <1>4 DEF CloseConnection, connVars, Inv, TypeOK
  <2>2. /\ Functor("connectDestoryed", c) \in Functors
        /\ Functor("connectDestoryed", c).conn = c
    <3>1. Functor("connectDestoryed", c).conn = c
      BY DEF Functor
    <3>2. QED
      BY <3>1, FunctorFacts DEF Ops
  <2>3. \A d \in Conns : Carried(d)' => Carried(d) \/ d = c
    BY <1>1, <2>1, <2>2, CarriedQueued DEF Inv
  <2>4. \A d \in Conns : References(d)' => References(d)
    BY <1>1, <1>2, <2>3, ReferencesAre
  <2>5. QED
    BY <1>1, <2>1, <2>4, ReleasesStep
<1>5. QED
  BY <1>3, <1>4

\* The other steps of a loop report nothing, and free what the batch that
\* ends, or the loop that goes, held the last reference of.
LEMMA TurnLifeStep ==
  ASSUME Inv, NEW l \in Loops,
         \/ EnterLoop(l) \/ Swap(l) \/ TurnEnds(l) \/ LeaveLoop(l)
         \/ l = loop_ /\ RunListen
         \/ \E c \in Conns : ShutdownInLoop(l, c) \/ (l = loop_ /\ RemoveConnectionInLoop(c))
  PROVE  Lifecycle!Next
<1> USE DEF connVars, userVars, loopVars
<1>1. UNCHANGED <<state_, callbacks, holds>> /\ connections_' \subseteq connections_
  BY DEF EnterLoop, Swap, TurnEnds, LeaveLoop, RunListen, ShutdownInLoop, RemoveConnectionInLoop,
         Removed
<1>2. ASSUME NEW d \in Conns, References(d)' PROVE References(d)
  <2>1. CASE EnterLoop(l) \/ Swap(l)
    <3>1. \A k \in Loops : Work(k)' = Work(k) /\ spent'[k] = spent[k]
      <4>1. CASE EnterLoop(l)
        BY <4>1 DEF EnterLoop, Work
      <4>2. CASE Swap(l)
        BY <4>2, SwapStill DEF Swap
      <4>3. QED
        BY <2>1, <4>1, <4>2
    <3>2. Carried(d)' <=> Carried(d)
      BY <3>1, CarriesStill DEF Carried
    <3>3. QED
      BY <1>1, <1>2, <3>2, ReferencesAre
  <2>2. CASE TurnEnds(l) \/ LeaveLoop(l)
    <3>1. UNCHANGED batch /\ batch[l] = <<>> /\ spent' = [spent EXCEPT ![l] = {}]
      BY <2>2 DEF TurnEnds, LeaveLoop
    <3>2. /\ \A k \in Loops : k # l => pending'[k] = pending[k] /\ spent'[k] = spent[k]
          /\ pending'[l] = pending[l] \/ pending'[l] = <<>>
          /\ spent'[l] = {}
      BY <2>2, <3>1 DEF TurnEnds, LeaveLoop, Inv, TypeOK
    <3>3. \A k \in Loops : k # l => (Carries(k, d)' <=> Carries(k, d))
      BY <3>1, <3>2, CarriesStill DEF Work
    <3>4. Carries(l, d)' => Carries(l, d)
      <4>1. CASE pending'[l] = pending[l]
        BY <3>1, <3>2, <4>1 DEF Carries, Queued, Work
      <4>2. CASE pending'[l] = <<>>
        <5>1. <<>> \o <<>> = <<>>
          <6>1. <<>> \in Seq(Functors)
            OBVIOUS
          <6>2. QED
            BY <6>1, ConcatEmptySeq
        <5>2. Work(l)' = <<>>
          BY <3>1, <4>2, <5>1 DEF Work
        <5>3. Queued(l)' = {}
          BY <5>2 DEF Queued, Range
        <5>4. QED
          BY <3>2, <5>3 DEF Carries
      <4>3. QED
        BY <3>2, <4>1, <4>2
    <3>5. Carried(d)' => Carried(d)
      BY <3>3, <3>4 DEF Carried
    <3>6. QED
      BY <1>1, <1>2, <3>5, ReferencesAre
  <2>3. CASE (l = loop_ /\ RunListen) \/ \E c \in Conns : ShutdownInLoop(l, c)
    <3>1. UNCHANGED pending
      BY <2>3 DEF RunListen, ShutdownInLoop
    <3>2. PICK op, c : Runs(l, op, c)
      BY <2>3 DEF RunListen, ShutdownInLoop
    <3>3. Carried(d)' <=> Carried(d)
      BY <3>1, <3>2, CarriedRun DEF Inv
    <3>4. QED
      BY <1>1, <1>2, <3>3, ReferencesAre
  <2>4. ASSUME NEW c \in Conns, l = loop_, RemoveConnectionInLoop(c) PROVE References(d)
    <3>1. Carried(d)' => Carried(d)
      BY <2>4, RemovedCarries
    <3>2. QED
      BY <1>1, <1>2, <3>1, ReferencesAre
  <2>5. QED
    BY <2>1, <2>2, <2>3, <2>4
<1>3. QED
  BY <1>1, <1>2, ReleasesStep

\* A functor that is queued without owning its connection, and whatever else
\* the base thread and the users do, adds no reference.
LEMMA OtherLifeStep ==
  ASSUME Inv,
         \/ \E n \in ThreadNums : Start(n)
         \/ ClientConnects \/ AcceptFails \/ QuitBaseLoop \/ BeginDestructor
         \/ ConnectionsClosed \/ QuitThread \/ JoinThread \/ EndDestructor
         \/ \E c \in Conns : User(c) \/ ThreadQueues(c)
  PROVE  Lifecycle!Next
<1> USE DEF acceptVars, connVars, userVars, loopVars
<1>1. /\ UNCHANGED <<connections_, callbacks, batch, spent>> /\ holds' \subseteq holds
      /\ \A d \in Conns : state_'[d] = "none" <=> state_[d] = "none"
  BY DEF Start, ClientConnects, AcceptFails, QuitBaseLoop, BeginDestructor, ConnectionsClosed,
         QuitThread, JoinThread, EndDestructor, vars, User, OwnShutdown, ThreadShutdown,
         DropPointer, Disconnecting, ThreadQueues, Inv, TypeOK
<1>2. \A d \in Conns : Carried(d)' => Carried(d)
  <2>1. \A op, c : Functor(op, c).op = op
    BY DEF Functor
  <2>2. ASSUME NEW k \in Loops, NEW op \in {"listen", "shutdownInLoop", "lateShutdownInLoop"}, NEW c,
               Functor(op, c) \in Functors, Queue(k, Functor(op, c))
        PROVE  \A d \in Conns : Carried(d)' => Carried(d)
    <3>1. Functor(op, c).op \notin Owning
      BY <2>1 DEF Owning
    <3>2. QED
      BY <1>1, <2>2, <3>1, CarriedQueued DEF Inv
  <2>3. CASE UNCHANGED pending
    BY <1>1, <2>3, CarriesStill DEF Work, Carried
  <2>4. ASSUME NEW n \in ThreadNums, Start(n)
        PROVE  UNCHANGED pending \/ Queue(loop_, Functor("listen", 0))
    BY <2>4 DEF Start
  <2>5. ASSUME NEW c \in Conns, ThreadQueues(c)
        PROVE  \A d \in Conns : Carried(d)' => Carried(d)
    <3>1. /\ loopOf[c] \in Loops
          /\ \/ Queue(loopOf[c], Functor("shutdownInLoop", c))
             \/ Queue(loopOf[c], Functor("lateShutdownInLoop", c))
      BY <2>5 DEF ThreadQueues, Inv, TypeOK
    <3>2. QED
      BY <2>2, <3>1, FunctorFacts DEF Ops
  <2>6. CASE \/ ClientConnects \/ AcceptFails \/ QuitBaseLoop \/ BeginDestructor
             \/ ConnectionsClosed \/ QuitThread \/ JoinThread \/ EndDestructor
             \/ \E c \in Conns : User(c)
    <3>1. UNCHANGED pending
      BY <2>6
      DEF ClientConnects, AcceptFails, QuitBaseLoop, BeginDestructor, ConnectionsClosed,
          QuitThread, JoinThread, EndDestructor, vars, User, OwnShutdown, ThreadShutdown,
          DropPointer, Disconnecting
    <3>2. QED
      BY <2>3, <3>1
  <2>7. QED
    BY <2>2, <2>3, <2>4, <2>5, <2>6, ThreadFacts, FunctorFacts
<1>3. \A d \in Conns : References(d)' => References(d)
  BY <1>1, <1>2, ReferencesAre
<1>4. QED
  BY <1>1, <1>3, ReleasesStep

\* However the map, the queues, the batches and the user's pointers pass a
\* connection on, it is made, reported and freed once, in this order, and
\* nothing refers to it or reports it afterwards.
THEOREM RefinesLifecycle == Spec => ImplementsLifecycle
<1>1. Init => Lifecycle!Init
  <2>1. SUFFICES ASSUME Init
                 PROVE  /\ [c \in Conns |-> Life(c)] = [c \in Conns |-> "none"]
                        /\ callbacks = [c \in Conns |-> <<>>]
    BY DEF Lifecycle!Init
  <2>2. \A c \in Conns : Life(c) = "none"
    BY <2>1 DEF Init, Life
  <2>3. QED
    BY <2>1, <2>2 DEF Init
<1>2. ASSUME Inv, [Next]_vars
      PROVE  [Lifecycle!Next]_(Lifecycle!vars)
  <2>1. CASE UNCHANGED vars
    <3>1. /\ UNCHANGED <<connections_, holds, batch, pending, spent, state_, callbacks>>
      BY <2>1 DEF vars, connVars, userVars, loopVars
    <3>2. \A c \in Conns : Life(c)' = Life(c)
      <4>1. \A c \in Conns : References(c)' <=> References(c)
        BY <3>1, CarriesStill, ReferencesAre DEF Work, Carried
      <4>2. QED
        BY <3>1, <4>1, Lives
    <3>3. QED
      BY <3>1, <3>2 DEF Lifecycle!vars
  <2>2. ASSUME NEW l \in Loops, Turn(l) PROVE Lifecycle!Next
    BY <1>2, <2>2, TurnLifeStep, ComesUpStep, DestroyedLifeStep DEF Turn, RunFunctor
  <2>3. CASE Destructor
    BY <1>2, <2>3, OtherLifeStep, DestructorLifeStep DEF Destructor
  <2>4. QED
    BY <1>2, <2>1, <2>2, <2>3, MadeStep, ClosesStep, OtherLifeStep DEF Next
<1>3. QED
  BY <1>1, <1>2, Invariant, PTL DEF Spec, ImplementsLifecycle, Lifecycle!Spec
=============================================================================
