--------------------------- MODULE TcpServerProofs ---------------------------
(***************************************************************************)
(* Safety of TcpServer, for any number of pool threads, connections and    *)
(* descriptors.                                                            *)
(***************************************************************************)
EXTENDS TcpServer, FiniteSetTheorems, SequenceTheorems, TLAPS

\* The base loop's thread destroys the server only after it left the loop,
\* and the pool's threads end only because the destructor made them quit.
Ends ==
  /\ phase[loop_] # "destroyed"
  /\ \A l \in Threads : phase[l] # "left"
  /\ \A l \in Threads : phase[l] = "destroyed" => l \in quit_
  /\ \A l \in Loops : phase[l] # "run" => batch[l] = <<>>
  /\ server = "new" => numThreads_ = 0 /\ \A l \in Threads : phase[l] = "none"
  /\ server \in {"new", "started", "closing"} => quit_ \subseteq {loop_}
  /\ server \notin {"new", "started"} => phase[loop_] = "left" /\ calling = {}
  /\ server \in {"quitting", "joining"} =>
       cur >= 1 /\ \A l \in Threads : l < cur => phase[l] = "destroyed"
  /\ server = "joining" => cur \in Threads /\ cur <= numThreads_
  /\ server = "gone" => \A l \in Threads : l <= numThreads_ => phase[l] = "destroyed"
  /\ \A c \in Conns : loopOf[c] <= numThreads_

\* What the callbacks and the channel say of state_.
Stage(c) ==
  /\ state_[c] = "none" <=> c >= nextConnId_
  /\ state_[c] \in {"none", "kConnecting"} => channel[c] = "new" /\ callbacks[c] = <<>>
  /\ state_[c] \in {"kConnected", "kDisconnecting"} => callbacks[c] = <<"up">>
  /\ state_[c] = "kDisconnected" => callbacks[c] = <<"up", "down">>
  /\ channel[c] = "watched" => state_[c] \in {"kConnected", "kDisconnecting"}
  /\ channel[c] = "removed" => state_[c] \in {"kDisconnecting", "kDisconnected"}
  /\ c \in connections_ \cup holds => state_[c] # "none"

\* Where in the queues of l a functor of c stands.
Places(l, op, c) == {i \in DOMAIN Work(l) : Work(l)[i] = Functor(op, c)}

\* A connection's functors are on its own loop, its removal on the base loop.
Placed(c) ==
  \A l \in Loops :
    /\ \A op \in {"connectEstablished", "connectDestoryed", "shutdownInLoop",
                  "lateShutdownInLoop"} :
         Places(l, op, c) # {} => l = loopOf[c] /\ state_[c] # "none"
    /\ Places(l, "removeConnectionInLoop", c) # {} =>
         l = loop_ /\ loopOf[c] # loop_ /\ state_[c] # "none"

\* connectEstablished is queued once, before connectDestoryed, and until it
\* has run the connection is kConnecting.
Establishing(c) ==
  \A l \in Loops : loopOf[c] = l =>
    /\ \A i \in Places(l, "connectEstablished", c) :
         /\ state_[c] = "kConnecting"
         /\ \A j \in Places(l, "connectEstablished", c) : j = i
         /\ \A j \in Places(l, "connectDestoryed", c) : j > i
    /\ state_[c] = "kConnecting" /\ phase[l] # "destroyed" =>
         l # loop_ /\ Places(l, "connectEstablished", c) # {}

\* The server's map, one queued connectDestoryed or the removed channel.
Custody(c) ==
  \A l \in Loops : loopOf[c] = l =>
    /\ state_[c] # "none" /\ phase[l] # "destroyed" =>
         \/ c \in connections_
         \/ channel[c] = "removed"
         \/ Places(l, "connectDestoryed", c) # {}
    /\ channel[c] = "removed" => c \notin connections_
    /\ \A i \in Places(l, "connectDestoryed", c) :
         /\ c \notin connections_ /\ channel[c] # "removed"
         /\ \A j \in Places(l, "connectDestoryed", c) : j = i

\* As long as the base loop runs, a removal is under way at most once, and
\* only for a closed connection that the server still holds.
Removing(c) ==
  phase[loop_] # "left" =>
    /\ channel[c] = "watched" \/ state_[c] = "kConnecting" => c \in connections_
    /\ \A i \in Places(loop_, "removeConnectionInLoop", c) :
         /\ c \in connections_ /\ channel[c] = "idle"
         /\ \A j \in Places(loop_, "removeConnectionInLoop", c) : j = i

\* shutdownInLoop is queued before the connection's connectDestoryed.
RawFirst(c) ==
  \A l \in Loops : loopOf[c] = l /\ phase[l] # "left" =>
    \A i \in Places(l, "shutdownInLoop", c) :
      c \in connections_ \/ \E j \in Places(l, "connectDestoryed", c) : j > i

Queues(c) == Placed(c) /\ Establishing(c) /\ Custody(c) /\ Removing(c) /\ RawFirst(c)

Inv ==
  /\ TypeOK
  /\ Ends
  /\ \A c \in Conns : Stage(c)
  /\ \A c \in Conns : Queues(c)

-----------------------------------------------------------------------------
(***************************************************************************)
(* Functors and queues.                                                    *)
(***************************************************************************)

Ops == {"connectEstablished", "connectDestoryed", "removeConnectionInLoop",
        "shutdownInLoop", "lateShutdownInLoop"}

\* A functor is its operation and its connection, and queues hold no others.
LEMMA FunctorFacts ==
  /\ \A op \in Ops, c \in Conns : Functor(op, c) \in Functors
  /\ Functor("listen", 0) \in Functors
  /\ \A o, p, c, d : Functor(o, c) = Functor(p, d) <=> o = p /\ c = d
  /\ \A f \in Functors : \/ f = Functor("listen", 0)
                         \/ \E op \in Ops, c \in Conns : f = Functor(op, c)
<1>1. \A o, p, c, d : Functor(o, c) = Functor(p, d) <=> o = p /\ c = d
  <2>1. \A o, c : Functor(o, c).op = o /\ Functor(o, c).conn = c
    BY DEF Functor
  <2>2. QED
    BY <2>1
<1>2. Ops = Owning \cup {"shutdownInLoop", "lateShutdownInLoop"}
  BY DEF Ops, Owning
<1>3. \A op \in Ops, c \in Conns : Functor(op, c) \in Functors
  BY <1>2 DEF Functor, Functors
<1>4. Functor("listen", 0) \in Functors
  BY DEF Functors
<1>5. ASSUME NEW f \in Functors, f # Functor("listen", 0)
      PROVE  \E op \in Ops, c \in Conns : f = Functor(op, c)
  <2>1. f \in [op : Ops, conn : Conns]
    BY <1>2, <1>5 DEF Functors
  <2>2. f.op \in Ops /\ f.conn \in Conns /\ f = Functor(f.op, f.conn)
    BY <2>1 DEF Functor
  <2>3. QED
    BY <2>2
<1>6. QED
  BY <1>1, <1>3, <1>4, <1>5

\* The base loop is none of the pool's; connections are numbered from 1.
LEMMA ThreadFacts ==
  /\ Threads \subseteq Nat /\ loop_ \notin Threads /\ loop_ \in Loops /\ Threads \subseteq Loops
  /\ \A l \in Threads : l >= 1 /\ l <= MaxThreads
  /\ \A n \in Nat : n >= 1 /\ n <= MaxThreads => n \in Threads
  /\ \A l \in Loops : l = loop_ \/ l \in Threads
  /\ \A c \in Conns : c \in Nat \ {0} /\ c <= MaxConns
  /\ \A n \in Nat \ {0} : n <= MaxConns => n \in Conns
  BY ServerAssumption DEF Threads, Loops, loop_, Conns

\* A loop's queues, taken together, are a sequence of functors.
LEMMA WorkType ==
  ASSUME TypeOK, NEW l \in Loops
  PROVE  /\ batch[l] \in Seq(Functors) /\ pending[l] \in Seq(Functors)
         /\ Work(l) \in Seq(Functors)
<1>1. batch[l] \in Seq(Functors) /\ pending[l] \in Seq(Functors)
  BY DEF TypeOK
<1>2. QED
  BY <1>1, ConcatProperties DEF Work

\* What a queue is after an append, and after its first functor left.
LEMMA QueueShapes ==
  ASSUME NEW b \in Seq(Functors), NEW p \in Seq(Functors), NEW f \in Functors
  PROVE  /\ b \o Append(p, f) = Append(b \o p, f)
         /\ b # <<>> => Tail(b) \o p = Tail(b \o p) /\ b \o p # <<>> /\ (b \o p)[1] = Head(b)
<1>1. /\ Append(p, f) \in Seq(Functors) /\ b \o p \in Seq(Functors)
      /\ Append(b \o p, f) \in Seq(Functors) /\ b \o Append(p, f) \in Seq(Functors)
  BY ConcatProperties, AppendProperties
<1>2. Len(b \o Append(p, f)) = Len(Append(b \o p, f))
  BY <1>1, ConcatProperties, AppendProperties
<1>3. \A i \in 1 .. Len(b) + Len(p) + 1 : (b \o Append(p, f))[i] = Append(b \o p, f)[i]
  <2>1. /\ Len(b) \in Nat /\ Len(p) \in Nat /\ Len(b \o p) = Len(b) + Len(p)
        /\ Len(Append(p, f)) = Len(p) + 1
    BY <1>1, ConcatProperties, AppendProperties
  <2>2. \A i \in 1 .. Len(b) + (Len(p) + 1) :
          (b \o Append(p, f))[i] = IF i <= Len(b) THEN b[i] ELSE Append(p, f)[i - Len(b)]
    <3> DEFINE q == Append(p, f)
    <3>1. q \in Seq(Functors) /\ Len(q) = Len(p) + 1
      BY <1>1, <2>1
    <3> HIDE DEF q
    <3>2. \A i \in 1 .. Len(b) + Len(q) :
            (b \o q)[i] = IF i <= Len(b) THEN b[i] ELSE q[i - Len(b)]
      BY <3>1, ConcatProperties
    <3>3. QED
      BY <3>1, <3>2 DEF q
  <2>3. /\ \A i \in 1 .. Len(p) : Append(p, f)[i] = p[i]
        /\ Append(p, f)[Len(p) + 1] = f
    BY AppendProperties
  <2>4. /\ \A i \in 1 .. Len(b) + Len(p) : Append(b \o p, f)[i] = (b \o p)[i]
        /\ Append(b \o p, f)[Len(b) + Len(p) + 1] = f
    BY <1>1, <2>1, AppendProperties
  <2>5. \A i \in 1 .. Len(b) + Len(p) :
          (b \o p)[i] = IF i <= Len(b) THEN b[i] ELSE p[i - Len(b)]
    BY ConcatProperties
  <2>6. QED
    BY <2>1, <2>2, <2>3, <2>4, <2>5
<1>4. b \o Append(p, f) = Append(b \o p, f)
  BY <1>1, <1>2, <1>3, ConcatProperties, AppendProperties
<1>5. ASSUME b # <<>>
      PROVE  Tail(b) \o p = Tail(b \o p) /\ b \o p # <<>> /\ (b \o p)[1] = Head(b)
  <2>1. /\ Len(b) \in Nat \ {0} /\ Tail(b) \in Seq(Functors) /\ Len(Tail(b)) = Len(b) - 1
        /\ \A i \in 1 .. Len(b) - 1 : Tail(b)[i] = b[i + 1]
    BY <1>5
  <2>2. /\ Len(b \o p) = Len(b) + Len(p) /\ b \o p # <<>>
        /\ Tail(b) \o p \in Seq(Functors) /\ Len(Tail(b) \o p) = Len(b) - 1 + Len(p)
    BY <1>1, <2>1, ConcatProperties
  <2>3. /\ Tail(b \o p) \in Seq(Functors) /\ Len(Tail(b \o p)) = Len(b) - 1 + Len(p)
        /\ \A i \in 1 .. Len(b) - 1 + Len(p) : Tail(b \o p)[i] = (b \o p)[i + 1]
    BY <1>1, <2>1, <2>2, HeadTailProperties
  <2>4. \A i \in 1 .. Len(b) - 1 + Len(p) : (Tail(b) \o p)[i] = Tail(b \o p)[i]
    BY <2>1, <2>2, <2>3, ConcatProperties
  <2>5. Tail(b) \o p = Tail(b \o p)
    BY <2>1, <2>2, <2>3, <2>4
  <2>6. (b \o p)[1] = Head(b)
    BY <1>5, <2>1, ConcatProperties
  <2>7. QED
    BY <2>2, <2>5, <2>6
<1>6. QED
  BY <1>4, <1>5

\* A queued functor comes last.
LEMMA Queued1 ==
  ASSUME TypeOK, NEW k \in Loops, NEW f \in Functors, Queue(k, f),
         batch'[k] = batch[k]
  PROVE  /\ \A l \in Loops : l # k /\ batch'[l] = batch[l] => Work(l)' = Work(l)
         /\ Len(Work(k)) \in Nat /\ DOMAIN Work(k) = 1 .. Len(Work(k))
         /\ DOMAIN Work(k)' = 1 .. Len(Work(k)) + 1
         /\ \A i \in 1 .. Len(Work(k)) : Work(k)'[i] = Work(k)[i]
         /\ Work(k)'[Len(Work(k)) + 1] = f
         /\ pending' \in [Loops -> Seq(Functors)]
<1>1. batch[k] \in Seq(Functors) /\ pending[k] \in Seq(Functors) /\ Work(k) \in Seq(Functors)
  BY WorkType
<1>2. pending' = [pending EXCEPT ![k] = Append(pending[k], f)]
  BY DEF Queue
<1>3. pending' \in [Loops -> Seq(Functors)]
  BY <1>1, <1>2 DEF TypeOK
<1>4. pending'[k] = Append(pending[k], f) /\ \A l \in Loops : l # k => pending'[l] = pending[l]
  BY <1>2 DEF TypeOK
<1>5. \A l \in Loops : l # k /\ batch'[l] = batch[l] => Work(l)' = Work(l)
  BY <1>4 DEF Work
<1>6. Work(k)' = batch[k] \o Append(pending[k], f)
  BY <1>4 DEF Work
<1>7. Work(k)' = Append(Work(k), f)
  BY <1>1, <1>6, QueueShapes DEF Work
<1>8. QED
  BY <1>1, <1>3, <1>5, <1>7

\* A functor that runs is the first, and the others move up.
LEMMA Run1 ==
  ASSUME TypeOK, NEW k \in Loops, NEW op, NEW c, Runs(k, op, c),
         pending'[k] = pending[k]
  PROVE  /\ \A l \in Loops : l # k /\ pending'[l] = pending[l] => Work(l)' = Work(l)
         /\ \A l \in Loops : l # k => batch'[l] = batch[l]
         /\ Len(Work(k)) \in Nat \ {0} /\ DOMAIN Work(k) = 1 .. Len(Work(k))
         /\ DOMAIN Work(k)' = 1 .. Len(Work(k)) - 1
         /\ \A i \in 1 .. Len(Work(k)) - 1 : Work(k)'[i] = Work(k)[i + 1]
         /\ Work(k)[1] = Functor(op, c)
         /\ batch' \in [Loops -> Seq(Functors)]
<1>1. batch[k] \in Seq(Functors) /\ pending[k] \in Seq(Functors) /\ Work(k) \in Seq(Functors)
  BY WorkType
<1>2. /\ batch[k] # <<>> /\ Head(batch[k]) = Functor(op, c)
      /\ batch' = [batch EXCEPT ![k] = Tail(batch[k])]
  BY DEF Runs
<1>3. Tail(batch[k]) \in Seq(Functors)
  BY <1>1, <1>2
<1>4. batch'[k] = Tail(batch[k]) /\ \A l \in Loops : l # k => batch'[l] = batch[l]
  BY <1>2 DEF TypeOK
<1>5. batch' \in [Loops -> Seq(Functors)]
  BY <1>2, <1>3 DEF TypeOK
<1>6. \A l \in Loops : l # k /\ pending'[l] = pending[l] => Work(l)' = Work(l)
  BY <1>4 DEF Work
<1>7. Work(k)' = Tail(batch[k]) \o pending[k]
  BY <1>4 DEF Work
<1>8. Work(k)' = Tail(Work(k)) /\ Work(k) # <<>> /\ Work(k)[1] = Functor(op, c)
  <2>1. Tail(batch[k]) \o pending[k] = Tail(Work(k)) /\ Work(k) # <<>>
        /\ Work(k)[1] = Head(batch[k])
    BY <1>1, <1>2, QueueShapes, FunctorFacts DEF Work
  <2>2. QED
    BY <1>2, <1>7, <2>1
<1>9. QED
  BY <1>1, <1>4, <1>5, <1>6, <1>8

-----------------------------------------------------------------------------
(***************************************************************************)
(* Types, and when threads, the server and the base loop end.              *)
(***************************************************************************)

\* Who is accepted, and where it goes.
LEMMA AcceptTypes ==
  ASSUME TypeOK, Ends, Accepts
  PROVE  /\ nextConnId_ \in Conns /\ nextConnId_ + 1 \in Nat \ {0}
         /\ clients - 1 \in Nat /\ (nextConnId_ + 1) + (clients - 1) <= MaxConns + 1
         /\ numThreads_ > 0 =>
              /\ next_ + 1 \in Threads /\ next_ + 1 \in Loops /\ next_ + 1 <= numThreads_
              /\ Following(next_) \in Nat
              /\ Following(next_) = 0 \/ Following(next_) < numThreads_
<1>1. nextConnId_ \in Nat \ {0} /\ clients \in Nat /\ clients > 0
      /\ nextConnId_ + clients <= MaxConns + 1
  BY DEF Accepts, TypeOK
<1>2. nextConnId_ \in Conns
  BY <1>1, ThreadFacts, ServerAssumption
<1>3. ASSUME numThreads_ > 0
      PROVE  /\ next_ + 1 \in Threads /\ next_ + 1 \in Loops /\ next_ + 1 <= numThreads_
             /\ Following(next_) \in Nat
             /\ Following(next_) = 0 \/ Following(next_) < numThreads_
  <2>1. /\ next_ \in Nat /\ numThreads_ \in Nat /\ numThreads_ <= MaxThreads
        /\ next_ + 1 <= numThreads_ /\ next_ + 1 >= 1 /\ next_ + 1 \in Nat
    BY <1>3, ServerAssumption DEF TypeOK
  <2>2. next_ + 1 \in Threads
    BY <2>1, ThreadFacts, ServerAssumption
  <2>3. QED
    BY <2>1, <2>2, ThreadFacts DEF Following
<1>4. QED
  BY <1>1, <1>2, <1>3, ServerAssumption

\* What the handlers do to a connection keeps the types.
LEMMA ConnTypes ==
  ASSUME TypeOK, NEW c \in Conns
  PROVE  /\ Established(c) \/ Destroyed(c) \/ UNCHANGED connVars =>
              /\ state_' \in [Conns -> {"none", "kConnecting", "kConnected",
                                        "kDisconnecting", "kDisconnected"}]
              /\ channel' \in [Conns -> {"new", "watched", "idle", "removed"}]
              /\ callbacks' \in [Conns -> Seq({"up", "down"})]
         /\ \A e \in {"up", "down"} :
              [callbacks EXCEPT ![c] = Append(@, e)] \in [Conns -> Seq({"up", "down"})]
<1>1. ASSUME NEW e \in {"up", "down"}
      PROVE  [callbacks EXCEPT ![c] = Append(@, e)] \in [Conns -> Seq({"up", "down"})]
  BY <1>1 DEF TypeOK
<1>2. CASE Established(c)
  BY <1>1, <1>2 DEF Established, TypeOK
<1>3. CASE Destroyed(c)
  <2>1. state_' \in [Conns -> {"none", "kConnecting", "kConnected",
                               "kDisconnecting", "kDisconnected"}]
    BY <1>3 DEF Destroyed, TypeOK
  <2>2. channel' \in [Conns -> {"new", "watched", "idle", "removed"}]
    BY <1>3 DEF Destroyed, TypeOK
  <2>3. callbacks' \in [Conns -> Seq({"up", "down"})]
    BY <1>1, <1>3 DEF Destroyed, TypeOK
  <2>4. QED
    BY <1>1, <2>1, <2>2, <2>3
<1>4. CASE UNCHANGED connVars
  BY <1>4 DEF connVars, TypeOK
<1>5. QED
  BY <1>1, <1>2, <1>3, <1>4

\* A functor of a connection is one that a queue may hold.
LEMMA QueueTypes ==
  ASSUME TypeOK, NEW c \in Conns, NEW op \in Ops, NEW l \in Loops,
         Queue(l, Functor(op, c))
  PROVE  pending' \in [Loops -> Seq(Functors)]
<1>1. Functor(op, c) \in Functors /\ pending[l] \in Seq(Functors)
  BY FunctorFacts DEF TypeOK
<1>2. Append(pending[l], Functor(op, c)) \in Seq(Functors)
  BY <1>1, AppendProperties
<1>3. QED
  BY <1>2 DEF Queue, TypeOK

\* So does running a functor.
LEMMA RunTypes ==
  ASSUME TypeOK, NEW l \in Loops, NEW op, NEW c, Runs(l, op, c),
         c \in Conns \/ op = "listen"
  PROVE  /\ batch' \in [Loops -> Seq(Functors)] /\ spent' \in [Loops -> SUBSET Conns]
<1>1. batch[l] \in Seq(Functors) /\ batch[l] # <<>>
  BY DEF Runs, TypeOK
<1>2. Tail(batch[l]) \in Seq(Functors)
  BY <1>1
<1>3. batch' \in [Loops -> Seq(Functors)]
  BY <1>2 DEF Runs, TypeOK
<1>4. spent' \in [Loops -> SUBSET Conns]
  <2>1. spent[l] \subseteq Conns
    BY DEF TypeOK
  <2>2. (IF op \in Owning THEN spent[l] \cup {c} ELSE spent[l]) \in SUBSET Conns
    BY <2>1 DEF Owning
  <2>3. QED
    BY <2>2 DEF Runs, TypeOK
<1>5. QED
  BY <1>3, <1>4

\* Each action keeps the types.
LEMMA TypeStep ==
  ASSUME TypeOK, Ends, [Next]_vars
  PROVE  TypeOK'
<1> USE DEF serverVars, acceptVars, connVars, userVars, loopVars
<1>1. ASSUME NEW n \in ThreadNums, Start(n) PROVE TypeOK'
  <2>1. n \in 0 .. MaxThreads /\ next_ = 0
    BY <1>1 DEF ThreadNums, Start, Ends, TypeOK
  <2>2. pending' \in [Loops -> Seq(Functors)] /\ listening' \in BOOLEAN
    <3>1. CASE listening' = TRUE /\ UNCHANGED pending
      BY <3>1 DEF TypeOK
    <3>2. CASE Queue(loop_, Functor("listen", 0)) /\ UNCHANGED listening
      <4>1. loop_ \in Loops /\ Functor("listen", 0) \in Functors
        BY FunctorFacts, ThreadFacts
      <4>2. QED
        BY <3>2, <4>1, AppendProperties DEF Queue, TypeOK
    <3>3. QED
      BY <1>1, <3>1, <3>2 DEF Start
  <2>3. phase' \in [Loops -> {"none", "entering", "poll", "run", "left", "destroyed"}]
    BY <1>1 DEF Start, TypeOK
  <2>4. QED
    BY <1>1, <2>1, <2>2, <2>3 DEF Start, TypeOK
<1>2. CASE ClientConnects
  BY <1>2, ServerAssumption DEF ClientConnects, TypeOK
<1>3. CASE AcceptHere
  <2>1. Accepts
    BY <1>3 DEF AcceptHere
  <2>2. nextConnId_ \in Conns
    BY <2>1, AcceptTypes
  <2>3. /\ state_' \in [Conns -> {"none", "kConnecting", "kConnected",
                                  "kDisconnecting", "kDisconnected"}]
        /\ channel' \in [Conns -> {"new", "watched", "idle", "removed"}]
        /\ callbacks' \in [Conns -> Seq({"up", "down"})]
    BY <1>3, <2>2, ConnTypes DEF AcceptHere
  <2>4. connections_' \in SUBSET Conns /\ holds' \in SUBSET Conns /\ calling' \in SUBSET holds'
    BY <1>3, <2>2 DEF AcceptHere, TypeOK
  <2>5. /\ clients' \in Nat /\ nextConnId_' \in Nat \ {0}
        /\ nextConnId_' + clients' <= MaxConns + 1
    BY <1>3, <2>1, AcceptTypes DEF AcceptHere
  <2>6. QED
    BY <1>3, <2>3, <2>4, <2>5 DEF AcceptHere, TypeOK
<1>4. CASE AcceptElsewhere
  <2>1. Accepts /\ numThreads_ > 0
    BY <1>4 DEF AcceptElsewhere
  <2>2. nextConnId_ \in Conns /\ next_ + 1 \in Loops
    BY <2>1, AcceptTypes
  <2>3. /\ state_' \in [Conns -> {"none", "kConnecting", "kConnected",
                                  "kDisconnecting", "kDisconnected"}]
        /\ loopOf' \in [Conns -> Loops] /\ connections_' \in SUBSET Conns
    BY <1>4, <2>2 DEF AcceptElsewhere, TypeOK
  <2>4. pending' \in [Loops -> Seq(Functors)]
    BY <1>4, <2>2, QueueTypes DEF AcceptElsewhere, Ops
  <2>5. /\ clients' \in Nat /\ nextConnId_' \in Nat \ {0}
        /\ nextConnId_' + clients' <= MaxConns + 1
        /\ next_' \in Nat /\ (next_' = 0 \/ next_' < numThreads_)
    BY <1>4, <2>1, AcceptTypes DEF AcceptElsewhere
  <2>6. QED
    BY <1>4, <2>3, <2>4, <2>5 DEF AcceptElsewhere, TypeOK
<1>5. CASE AcceptFails \/ UNCHANGED vars
  BY <1>5 DEF AcceptFails, vars, TypeOK
<1>6. ASSUME NEW l \in Loops, Turn(l) PROVE TypeOK'
  <2>1. CASE Swap(l)
    <3>1. batch' \in [Loops -> Seq(Functors)] /\ pending' \in [Loops -> Seq(Functors)]
      BY <2>1 DEF Swap, TypeOK
    <3>2. QED
      BY <2>1, <3>1 DEF Swap, TypeOK
  <2>2. CASE RunListen
    <3>1. batch' \in [Loops -> Seq(Functors)] /\ spent' \in [Loops -> SUBSET Conns]
      BY <2>2, RunTypes, ThreadFacts DEF RunListen
    <3>2. QED
      BY <2>2, <3>1 DEF RunListen, TypeOK
  <2>3. ASSUME NEW c \in Conns, ConnectEstablished(l, c) PROVE TypeOK'
    <3>1. batch' \in [Loops -> Seq(Functors)] /\ spent' \in [Loops -> SUBSET Conns]
      BY <2>3, RunTypes DEF ConnectEstablished
    <3>2. /\ state_' \in [Conns -> {"none", "kConnecting", "kConnected",
                                    "kDisconnecting", "kDisconnected"}]
          /\ channel' \in [Conns -> {"new", "watched", "idle", "removed"}]
          /\ callbacks' \in [Conns -> Seq({"up", "down"})]
      BY <2>3, ConnTypes DEF ConnectEstablished
    <3>3. holds' \in SUBSET Conns /\ calling' \in SUBSET holds'
      BY <2>3 DEF ConnectEstablished, TypeOK
    <3>4. QED
      BY <2>3, <3>1, <3>2, <3>3 DEF ConnectEstablished, TypeOK
  <2>4. ASSUME NEW c \in Conns, RemoveConnectionInLoop(c) PROVE TypeOK'
    <3>1. batch' \in [Loops -> Seq(Functors)] /\ spent' \in [Loops -> SUBSET Conns]
      BY <2>4, RunTypes, ThreadFacts DEF RemoveConnectionInLoop
    <3>2. loopOf[c] \in Loops
      BY DEF TypeOK
    <3>3. pending' \in [Loops -> Seq(Functors)]
      BY <2>4, <3>2, QueueTypes DEF RemoveConnectionInLoop, Removed, Ops
    <3>4. QED
      BY <2>4, <3>1, <3>3 DEF RemoveConnectionInLoop, Removed, TypeOK
  <2>5. ASSUME NEW c \in Conns, ConnectDestroyed(l, c) PROVE TypeOK'
    <3>1. batch' \in [Loops -> Seq(Functors)] /\ spent' \in [Loops -> SUBSET Conns]
      BY <2>5, RunTypes DEF ConnectDestroyed
    <3>2. /\ state_' \in [Conns -> {"none", "kConnecting", "kConnected",
                                    "kDisconnecting", "kDisconnected"}]
          /\ channel' \in [Conns -> {"new", "watched", "idle", "removed"}]
          /\ callbacks' \in [Conns -> Seq({"up", "down"})]
      BY <2>5, ConnTypes DEF ConnectDestroyed
    <3>3. QED
      BY <2>5, <3>1, <3>2 DEF ConnectDestroyed, TypeOK
  <2>6. ASSUME NEW c \in Conns, ShutdownInLoop(l, c) PROVE TypeOK'
    <3>1. batch' \in [Loops -> Seq(Functors)] /\ spent' \in [Loops -> SUBSET Conns]
      BY <2>6, RunTypes DEF ShutdownInLoop
    <3>2. QED
      BY <2>6, <3>1 DEF ShutdownInLoop, TypeOK
  <2>7. CASE TurnEnds(l) \/ LeaveLoop(l)
    <3>1. spent' \in [Loops -> SUBSET Conns]
      BY <2>7 DEF TurnEnds, LeaveLoop, TypeOK
    <3>2. phase' \in [Loops -> {"none", "entering", "poll", "run", "left", "destroyed"}]
      <4>1. \E p \in {"poll", "left", "destroyed"} : phase' = [phase EXCEPT ![l] = p]
        BY <2>7 DEF TurnEnds, LeaveLoop
      <4>2. QED
        BY <4>1 DEF TypeOK
    <3>3. pending' \in [Loops -> Seq(Functors)]
      BY <2>7 DEF TurnEnds, LeaveLoop, TypeOK
    <3>4. QED
      BY <2>7, <3>1, <3>2, <3>3 DEF TurnEnds, LeaveLoop, TypeOK
  <2>8. CASE EnterLoop(l)
    BY <2>8 DEF EnterLoop, TypeOK
  <2>9. QED
    BY <1>6, <2>1, <2>2, <2>3, <2>4, <2>5, <2>6, <2>7, <2>8 DEF Turn, RunFunctor
<1>7. ASSUME NEW c \in Conns, HandleClose(c) PROVE TypeOK'
  <2>1. callbacks' \in [Conns -> Seq({"up", "down"})]
    BY <1>7, ConnTypes DEF HandleClose
  <2>2. loopOf[c] \in Loops /\ loop_ \in Loops
    BY ThreadFacts DEF TypeOK
  <2>3. pending' \in [Loops -> Seq(Functors)] /\ connections_' \in SUBSET Conns
    <3>1. CASE loopOf[c] = loop_
      BY <1>7, <2>2, <3>1, QueueTypes DEF HandleClose, AskRemoval, Removed, Ops, TypeOK
    <3>2. CASE loopOf[c] # loop_
      BY <1>7, <2>2, <3>2, QueueTypes DEF HandleClose, AskRemoval, Ops, TypeOK
    <3>3. QED
      BY <3>1, <3>2
  <2>4. /\ state_' \in [Conns -> {"none", "kConnecting", "kConnected",
                                  "kDisconnecting", "kDisconnected"}]
        /\ channel' \in [Conns -> {"new", "watched", "idle", "removed"}]
    BY <1>7 DEF HandleClose, TypeOK
  <2>5. QED
    BY <1>7, <2>1, <2>3, <2>4 DEF HandleClose, TypeOK
<1>8. ASSUME NEW c \in Conns, User(c) PROVE TypeOK'
  <2>1. state_' \in [Conns -> {"none", "kConnecting", "kConnected",
                               "kDisconnecting", "kDisconnected"}]
    BY <1>8 DEF User, OwnShutdown, ThreadShutdown, DropPointer, Disconnecting, TypeOK
  <2>2. holds' \in SUBSET Conns /\ calling' \in SUBSET holds'
    BY <1>8 DEF User, OwnShutdown, ThreadShutdown, DropPointer, Disconnecting, TypeOK
  <2>3. QED
    BY <1>8, <2>1, <2>2
    DEF User, OwnShutdown, ThreadShutdown, DropPointer, Disconnecting, TypeOK
<1>9. ASSUME NEW c \in Conns, ThreadQueues(c) PROVE TypeOK'
  <2>1. loopOf[c] \in Loops
    BY DEF TypeOK
  <2>2. pending' \in [Loops -> Seq(Functors)]
    BY <1>9, <2>1, QueueTypes DEF ThreadQueues, Ops
  <2>3. QED
    BY <1>9, <2>2 DEF ThreadQueues, TypeOK
<1>10. CASE QuitBaseLoop \/ BeginDestructor \/ EndDestructor \/ ConnectionsClosed
  <2>1. CASE QuitBaseLoop
    BY <2>1, ThreadFacts DEF QuitBaseLoop, TypeOK
  <2>2. CASE BeginDestructor \/ EndDestructor
    BY <2>2 DEF BeginDestructor, EndDestructor, TypeOK
  <2>3. CASE ConnectionsClosed
    BY <2>3, ServerAssumption DEF ConnectionsClosed, TypeOK
  <2>4. QED
    BY <1>10, <2>1, <2>2, <2>3
<1>11. ASSUME NEW c \in Conns, CloseConnection(c) PROVE TypeOK'
  <2>1. loopOf[c] \in Loops
    BY DEF TypeOK
  <2>2. pending' \in [Loops -> Seq(Functors)]
    <3>1. CASE loopOf[c] = loop_
      BY <1>11, <3>1 DEF CloseConnection, TypeOK
    <3>2. CASE loopOf[c] # loop_
      BY <1>11, <2>1, <3>2, QueueTypes DEF CloseConnection, Ops
    <3>3. QED
      BY <3>1, <3>2
  <2>3. Destroyed(c) \/ UNCHANGED connVars
    BY <1>11 DEF CloseConnection
  <2>4. /\ state_' \in [Conns -> {"none", "kConnecting", "kConnected",
                                  "kDisconnecting", "kDisconnected"}]
        /\ channel' \in [Conns -> {"new", "watched", "idle", "removed"}]
        /\ callbacks' \in [Conns -> Seq({"up", "down"})]
    BY <2>3, ConnTypes
  <2>5. QED
    BY <1>11, <2>2, <2>4 DEF CloseConnection, TypeOK
<1>12. CASE QuitThread \/ JoinThread
  <2>1. quit_' \in SUBSET Loops /\ cur' \in 0 .. MaxThreads + 1
    <3>1. CASE QuitThread
      <4>1. cur \in Threads
        BY <3>1, ThreadFacts, ServerAssumption DEF QuitThread, Ends, TypeOK
      <4>2. QED
        BY <3>1, <4>1, ThreadFacts DEF QuitThread, TypeOK
    <3>2. CASE JoinThread
      BY <3>2, ThreadFacts, ServerAssumption DEF JoinThread, Ends, TypeOK
    <3>3. QED
      BY <1>12, <3>1, <3>2
  <2>2. QED
    BY <1>12, <2>1 DEF QuitThread, JoinThread, TypeOK
<1>13. QED
  BY <1>1, <1>2, <1>3, <1>4, <1>5, <1>6, <1>7, <1>8, <1>9, <1>10, <1>11, <1>12
  DEF Next, Accept, Destructor

\* Each action keeps the order in which threads, base loop and server end.
LEMMA EndsStep ==
  ASSUME TypeOK, Ends, [Next]_vars
  PROVE  Ends'
<1> USE DEF serverVars, acceptVars, connVars, userVars, loopVars
<1>1. ASSUME NEW n \in ThreadNums, Start(n) PROVE Ends'
  <2>1. /\ n \in Nat /\ server = "new" /\ server' = "started" /\ numThreads_' = n
        /\ phase' = [l \in Loops |-> IF l \in 1 .. n THEN "entering" ELSE phase[l]]
        /\ UNCHANGED <<quit_, batch, calling, loopOf>>
    BY <1>1, ServerAssumption DEF ThreadNums, Start
  <2>2. \A c \in Conns : loopOf'[c] <= numThreads_'
    <3>1. ASSUME NEW c \in Conns PROVE loopOf[c] = 0
      <4>1. loopOf[c] <= 0 /\ loopOf[c] \in Loops
        BY <2>1 DEF Ends, TypeOK
      <4>2. loopOf[c] \in Nat
        BY <4>1 DEF Loops, Threads, loop_
      <4>3. QED
        BY <4>1, <4>2
    <3>2. QED
      BY <2>1, <3>1
  <2>3. \A l \in Loops : phase'[l] = phase[l] \/ (l \in Threads /\ phase'[l] = "entering")
    BY <2>1, ThreadFacts DEF loop_
  <2>4. QED
    BY <2>1, <2>2, <2>3, ThreadFacts DEF Ends
<1>2. CASE AcceptElsewhere
  <2>1. nextConnId_ \in Conns /\ next_ + 1 <= numThreads_
        /\ loopOf' = [loopOf EXCEPT ![nextConnId_] = next_ + 1]
    BY <1>2, AcceptTypes DEF AcceptElsewhere
  <2>2. \A c \in Conns : loopOf'[c] <= numThreads_
    BY <2>1 DEF Ends, TypeOK
  <2>3. UNCHANGED <<server, cur, numThreads_, phase, quit_, batch, calling>>
    BY <1>2 DEF AcceptElsewhere
  <2>4. QED
    BY <2>2, <2>3 DEF Ends
<1>3. ASSUME NEW l \in Loops, Turn(l) PROVE Ends'
  <2>1. /\ UNCHANGED <<server, cur, numThreads_, calling, loopOf>>
        /\ EnterLoop(l) \/ UNCHANGED quit_
    BY <1>3
    DEF Turn, RunFunctor, EnterLoop, Swap, RunListen, ConnectEstablished, RemoveConnectionInLoop,
        ConnectDestroyed, ShutdownInLoop, TurnEnds, LeaveLoop
  <2>2. CASE Swap(l)
    <3>1. /\ phase[l] = "poll" /\ phase' = [phase EXCEPT ![l] = "run"]
          /\ \A k \in Loops : k # l => batch'[k] = batch[k]
          /\ UNCHANGED quit_
      BY <2>2 DEF Swap, TypeOK
    <3>2. /\ phase'[l] = "run" /\ \A k \in Loops : k # l => phase'[k] = phase[k]
      BY <3>1 DEF TypeOK
    <3>3. server = "new" => l = loop_
      BY <3>1, ThreadFacts DEF Ends
    <3>4. l = loop_ => server \in {"new", "started"}
      BY <3>1 DEF Ends
    <3>5. QED
      BY <2>1, <3>1, <3>2, <3>3, <3>4, ThreadFacts DEF Ends
  <2>3. CASE RunFunctor(l)
    <3>1. phase[l] = "run" /\ UNCHANGED <<phase, quit_>> /\ \A k \in Loops : k # l => batch'[k] = batch[k]
      BY <2>3
      DEF RunFunctor, Runs, RunListen, ConnectEstablished, RemoveConnectionInLoop,
          ConnectDestroyed, ShutdownInLoop, TypeOK
    <3>2. QED
      BY <2>1, <3>1, ThreadFacts DEF Ends
  <2>4. CASE TurnEnds(l)
    <3>1. /\ phase[l] = "run" /\ batch[l] = <<>> /\ UNCHANGED <<batch, quit_>>
          /\ phase' = [phase EXCEPT ![l] = "poll"]
      BY <2>4 DEF TurnEnds
    <3>2. /\ phase'[l] = "poll" /\ \A k \in Loops : k # l => phase'[k] = phase[k]
      BY <3>1 DEF TypeOK
    <3>3. server = "new" => l = loop_
      BY <3>1, ThreadFacts DEF Ends
    <3>4. l = loop_ => server \in {"new", "started"}
      BY <3>1 DEF Ends
    <3>5. QED
      BY <2>1, <3>1, <3>2, <3>3, <3>4, ThreadFacts, ZenonT(30) DEF Ends
  <2>5. CASE LeaveLoop(l)
    <3>1. /\ phase[l] = "run" /\ batch[l] = <<>> /\ l \in quit_ /\ UNCHANGED <<batch, quit_>>
          /\ phase' = [phase EXCEPT ![l] = IF l = loop_ THEN "left" ELSE "destroyed"]
      BY <2>5 DEF LeaveLoop
    <3>2. /\ phase'[l] = (IF l = loop_ THEN "left" ELSE "destroyed")
          /\ \A k \in Loops : k # l => phase'[k] = phase[k]
      BY <3>1 DEF TypeOK
    <3>3. server = "new" => l = loop_
      BY <3>1, ThreadFacts DEF Ends
    <3>4. QED
      BY <2>1, <3>1, <3>2, <3>3, ThreadFacts DEF Ends
  <2>6. CASE EnterLoop(l)
    <3>1. /\ phase[l] = "entering" /\ quit_' = quit_ \ {l} /\ UNCHANGED batch
          /\ phase'[l] = "run" /\ \A k \in Loops : k # l => phase'[k] = phase[k]
      BY <2>6 DEF EnterLoop, TypeOK
    <3>2. l = loop_ => server \in {"new", "started"}
      BY <3>1 DEF Ends
    <3>3. server = "new" => l = loop_
      BY <3>1, ThreadFacts DEF Ends
    <3>4. \A k \in Threads : phase'[k] = "destroyed" => phase[k] = "destroyed" /\ k \in quit_'
      BY <3>1, ThreadFacts DEF Ends
    <3>5. QED
      BY <2>1, <3>1, <3>2, <3>3, <3>4, ThreadFacts DEF Ends
  <2>7. QED
    BY <1>3, <2>2, <2>3, <2>4, <2>5, <2>6 DEF Turn
<1>4. ASSUME NEW c \in Conns, ThreadShutdown(c) \/ ThreadQueues(c) PROVE Ends'
  <2>1. UNCHANGED <<server, cur, numThreads_, phase, quit_, batch, loopOf>>
    BY <1>4 DEF ThreadShutdown, ThreadQueues, Disconnecting
  <2>2. calling' \subseteq calling \/ server = "started"
    BY <1>4 DEF ThreadShutdown, ThreadQueues
  <2>3. QED
    BY <2>1, <2>2 DEF Ends
<1>5. CASE QuitBaseLoop
  BY <1>5 DEF QuitBaseLoop, Ends
<1>6. CASE BeginDestructor
  BY <1>6 DEF BeginDestructor, Ends
<1>7. CASE ConnectionsClosed
  <2>1. \A l \in Threads : ~(l < 1)
    BY ThreadFacts
  <2>2. QED
    BY <1>7, <2>1 DEF ConnectionsClosed, Ends
<1>8. CASE QuitThread
  <2>1. cur \in Threads
    BY <1>8, ThreadFacts, ServerAssumption DEF QuitThread, Ends, TypeOK
  <2>2. QED
    BY <1>8, <2>1, ThreadFacts DEF QuitThread, Ends
<1>9. CASE JoinThread
  <2>1. cur \in Nat /\ cur >= 1 /\ phase[cur] = "destroyed" /\ cur' = cur + 1
    BY <1>9, ThreadFacts DEF JoinThread, Ends, TypeOK
  <2>2. \A l \in Threads : l < cur + 1 => phase[l] = "destroyed"
    BY <1>9, <2>1, ThreadFacts DEF JoinThread, Ends
  <2>3. QED
    BY <1>9, <2>1, <2>2 DEF JoinThread, Ends
<1>10. CASE EndDestructor
  <2>1. \A l \in Threads : l <= numThreads_ => l < cur
    BY <1>10, ThreadFacts DEF EndDestructor, TypeOK
  <2>2. QED
    BY <1>10, <2>1 DEF EndDestructor, Ends
<1>11. CASE \/ ClientConnects \/ AcceptHere \/ AcceptFails \/ UNCHANGED vars
            \/ \E c \in Conns : \/ HandleClose(c) \/ OwnShutdown(c) \/ DropPointer(c)
                                \/ CloseConnection(c)
  <2>1. UNCHANGED <<server, cur, numThreads_, phase, quit_, batch, calling, loopOf>>
    BY <1>11
    DEF ClientConnects, AcceptHere, AcceptFails, HandleClose, OwnShutdown, Disconnecting,
        DropPointer, CloseConnection, vars
  <2>2. QED
    BY <2>1 DEF Ends
<1>12. QED
  BY <1>1, <1>2, <1>3, <1>4, <1>5, <1>6, <1>7, <1>8, <1>9, <1>10, <1>11
  DEF Next, Accept, Destructor, User

\* Types, and the order in which threads, base loop and server end.
LEMMA TypesAndEnds == Spec => [](TypeOK /\ Ends)
<1>1. Init => TypeOK /\ Ends
  <2> SUFFICES ASSUME Init PROVE TypeOK /\ Ends
    OBVIOUS
  <2>1. pending \in [Loops -> Seq(Functors)] /\ batch \in [Loops -> Seq(Functors)]
    BY DEF Init
  <2>2. callbacks \in [Conns -> Seq({"up", "down"})]
    BY DEF Init
  <2>3. loopOf \in [Conns -> Loops] /\ spent \in [Loops -> SUBSET Conns]
        /\ phase \in [Loops -> {"none", "entering", "poll", "run", "left", "destroyed"}]
    BY ThreadFacts DEF Init
  <2>4. TypeOK
    <3>1. /\ state_ \in [Conns -> {"none", "kConnecting", "kConnected",
                                   "kDisconnecting", "kDisconnected"}]
          /\ channel \in [Conns -> {"new", "watched", "idle", "removed"}]
      BY DEF Init
    <3>2. /\ cur \in 0 .. MaxThreads + 1 /\ numThreads_ \in 0 .. MaxThreads
          /\ nextConnId_ + clients <= MaxConns + 1
      BY ServerAssumption DEF Init, AcceptorInit
    <3>3. /\ holds \in SUBSET Conns /\ calling \in SUBSET holds /\ connections_ \in SUBSET Conns
          /\ quit_ \in SUBSET Loops
      BY DEF Init
    <3>4. /\ clients \in Nat /\ nextConnId_ \in Nat \ {0} /\ next_ = 0
          /\ listening \in BOOLEAN /\ fdLimit \in 1 .. MaxFds
      <4>1. clients = 0 /\ nextConnId_ = 1 /\ next_ = 0 /\ fdLimit \in 1 .. MaxFds
        BY DEF Init, AcceptorInit
      <4>2. listening \in BOOLEAN
        BY DEF Init, AcceptorInit
      <4>3. QED
        BY <4>1, <4>2
    <3>5. server \in {"new", "started", "closing", "quitting", "joining", "gone"}
      BY DEF Init
    <3>6. QED
      BY <2>1, <2>2, <2>3, <3>1, <3>2, <3>3, <3>4, <3>5 DEF TypeOK
  <2>5. Ends
    BY ThreadFacts DEF Init, Ends, loop_
  <2>6. QED
    BY <2>4, <2>5
<1>2. QED
  BY <1>1, TypeStep, EndsStep, PTL DEF Spec

\* Every variable keeps its type; a connection's loop is one the pool has.
THEOREM TypeCorrect == Spec => []TypeOK
  BY TypesAndEnds, PTL

-----------------------------------------------------------------------------
(***************************************************************************)
(* Where functors stand after a step.                                      *)
(***************************************************************************)

\* Places are numbers from 1.
LEMMA PlacesType ==
  ASSUME TypeOK
  PROVE  \A l \in Loops : \A op, c : \A i \in Places(l, op, c) : i \in Nat /\ i >= 1
<1>1. \A l \in Loops : Work(l) \in Seq(Functors)
  BY WorkType
<1>2. \A l \in Loops : DOMAIN Work(l) = 1 .. Len(Work(l)) /\ Len(Work(l)) \in Nat
  BY <1>1
<1>3. QED
  BY <1>2 DEF Places

\* An append puts f behind everything in k's queues.
LEMMA Appended ==
  ASSUME TypeOK, NEW k \in Loops, NEW f \in Functors, Queue(k, f), batch'[k] = batch[k]
  PROVE  /\ \E n \in Nat : \A op, c :
              /\ Places(k, op, c)' =
                   Places(k, op, c) \cup (IF f = Functor(op, c) THEN {n} ELSE {})
              /\ \A i \in Places(k, op, c) : i < n
<1> DEFINE n == Len(Work(k)) + 1
<1>1. Len(Work(k)) \in Nat
  BY WorkType
<1>2. /\ DOMAIN Work(k) = 1 .. n - 1 /\ DOMAIN Work(k)' = 1 .. n
      /\ \A i \in 1 .. n - 1 : Work(k)'[i] = Work(k)[i]
      /\ Work(k)'[n] = f
  BY <1>1, Queued1
<1>3. n \in Nat /\ n >= 1
  BY <1>1
<1> HIDE DEF n
<1>4. ASSUME NEW op, NEW c
      PROVE  /\ Places(k, op, c)' =
                  Places(k, op, c) \cup (IF f = Functor(op, c) THEN {n} ELSE {})
             /\ \A i \in Places(k, op, c) : i < n
  <2>1. \A i \in 1 .. n : i = n \/ i \in 1 .. n - 1
    BY <1>3
  <2>2. n \in 1 .. n /\ 1 .. n - 1 \subseteq 1 .. n /\ \A i \in 1 .. n - 1 : i < n
    BY <1>3
  <2>3. QED
    BY <1>2, <2>1, <2>2 DEF Places
<1>5. QED
  BY <1>3, <1>4

\* The functor that runs leaves the first place, and the others move up.
LEMMA RanFirst ==
  ASSUME TypeOK, NEW k \in Loops, NEW op, NEW c, Runs(k, op, c), pending'[k] = pending[k]
  PROVE  \A p, d : /\ 1 \in Places(k, p, d) <=> Functor(p, d) = Functor(op, c)
                   /\ \A i \in Places(k, p, d) : i # 1 => i - 1 \in Places(k, p, d)'
                   /\ \A i \in Places(k, p, d)' : i \in Nat /\ i + 1 \in Places(k, p, d)
                   /\ 0 \notin Places(k, p, d)'
<1> DEFINE n == Len(Work(k))
<1>1. /\ n \in Nat \ {0} /\ DOMAIN Work(k) = 1 .. n /\ DOMAIN Work(k)' = 1 .. n - 1
      /\ \A i \in 1 .. n - 1 : Work(k)'[i] = Work(k)[i + 1]
      /\ Work(k)[1] = Functor(op, c)
  BY Run1
<1> HIDE DEF n
<1>2. ASSUME NEW p, NEW d
      PROVE  /\ 1 \in Places(k, p, d) <=> Functor(p, d) = Functor(op, c)
             /\ \A i \in Places(k, p, d) : i # 1 => i - 1 \in Places(k, p, d)'
             /\ \A i \in Places(k, p, d)' : i \in Nat /\ i + 1 \in Places(k, p, d)
             /\ 0 \notin Places(k, p, d)'
  <2>1. /\ 1 \in 1 .. n /\ 0 \notin 1 .. n - 1
        /\ \A i \in 1 .. n : i # 1 => i - 1 \in 1 .. n - 1 /\ (i - 1) + 1 = i
        /\ \A i \in 1 .. n - 1 : i \in Nat /\ i + 1 \in 1 .. n
    BY <1>1
  <2>2. QED
    BY <1>1, <2>1 DEF Places
<1>3. QED
  BY <1>1, <1>2 DEF Places

\* The functor that is to run stands first.
LEMMA HeadPlace ==
  ASSUME TypeOK, NEW k \in Loops, NEW op, NEW c, Runs(k, op, c)
  PROVE  1 \in Places(k, op, c) /\ phase[k] = "run"
<1>1. /\ batch[k] \in Seq(Functors) /\ pending[k] \in Seq(Functors) /\ Work(k) \in Seq(Functors)
      /\ batch[k] # <<>> /\ Head(batch[k]) = Functor(op, c) /\ phase[k] = "run"
  BY WorkType DEF Runs
<1>2. Work(k) # <<>> /\ Work(k)[1] = Head(batch[k])
  BY <1>1, QueueShapes, FunctorFacts DEF Work
<1>3. 1 \in DOMAIN Work(k)
  BY <1>1, <1>2
<1>4. QED
  BY <1>1, <1>2, <1>3 DEF Places

\* The functors of d on l keep their order, if l's thread has not ended; a
\* removal or a shutdown may be gone.
Moves(d, l) ==
  \/ phase'[l] = "destroyed" /\ \A op \in Ops : Places(l, op, d)' = {}
  \/ \E o \in Int :
       /\ \A op \in {"connectEstablished", "connectDestoryed"} :
            \A i \in Places(l, op, d) : i - o \in Places(l, op, d)'
       /\ \A op \in Ops : \A i \in Places(l, op, d)' : i \in Int /\ i + o \in Places(l, op, d)

\* Nothing moves on a loop whose queues are the same.
LEMMA MovesWhenStill ==
  ASSUME TypeOK, NEW l \in Loops, Work(l)' = Work(l)
  PROVE  /\ \A op, d : Places(l, op, d)' = Places(l, op, d)
         /\ \A d : Moves(d, l)
<1>1. \A op, d : Places(l, op, d)' = Places(l, op, d)
  BY DEF Places
<1>2. \A op, d : \A i \in Places(l, op, d) : i \in Int /\ i - 0 = i /\ i + 0 = i
  BY PlacesType
<1>3. QED
  BY <1>1, <1>2 DEF Moves, Ops

\* Nor do the functors of d when another connection's is queued.
LEMMA MovesWhenAppended ==
  ASSUME TypeOK, NEW k \in Loops, NEW f \in Functors, Queue(k, f), batch'[k] = batch[k],
         NEW d, \A op \in Ops : f # Functor(op, d)
  PROVE  Moves(d, k)
<1>1. \A op \in Ops : Places(k, op, d)' = Places(k, op, d)
  BY Appended
<1>2. \A op \in Ops : \A i \in Places(k, op, d) : i \in Int /\ i - 0 = i /\ i + 0 = i
  BY PlacesType
<1>3. {"connectEstablished", "connectDestoryed"} \subseteq Ops
  BY DEF Ops
<1>4. /\ \A op \in {"connectEstablished", "connectDestoryed"} :
           \A i \in Places(k, op, d) : i - 0 \in Places(k, op, d)'
      /\ \A op \in Ops : \A i \in Places(k, op, d)' : i \in Int /\ i + 0 \in Places(k, op, d)
  BY <1>1, <1>2, <1>3
<1>5. QED
  BY <1>4 DEF Moves

\* They move up when another connection's runs, or a shutdown of its own.
LEMMA MovesWhenRun ==
  ASSUME TypeOK, NEW k \in Loops, NEW p, NEW c, Runs(k, p, c), pending'[k] = pending[k],
         NEW d, \A op \in {"connectEstablished", "connectDestoryed"} : Functor(p, c) # Functor(op, d)
  PROVE  Moves(d, k)
<1>1. \A op \in {"connectEstablished", "connectDestoryed"} :
        \A i \in Places(k, op, d) : i - 1 \in Places(k, op, d)'
  BY RanFirst
<1>2. \A op \in Ops : \A i \in Places(k, op, d)' : i \in Int /\ i + 1 \in Places(k, op, d)
  BY RanFirst
<1>3. QED
  BY <1>1, <1>2 DEF Moves

\* A connection is not concerned by a step that leaves it and the order of its
\* functors alone, whatever happens to the others.
LEMMA Others ==
  ASSUME Inv, NEW d \in Conns,
         loopOf'[d] = loopOf[d], channel'[d] = channel[d],
         d \in connections_' <=> d \in connections_,
         state_'[d] = "none" <=> state_[d] = "none",
         state_'[d] = "kConnecting" <=> state_[d] = "kConnecting",
         \A l \in Loops : /\ phase[l] = "destroyed" => phase'[l] = "destroyed"
                          /\ phase[l] = "left" => phase'[l] = "left",
         \A l \in Loops : Moves(d, l)
  PROVE  Queues(d)'
<1>1. Placed(d) /\ Establishing(d) /\ Custody(d) /\ Removing(d) /\ RawFirst(d)
  BY DEF Inv, Queues
<1>2. \A l \in Loops, op \in Ops : \A i \in Places(l, op, d) : i \in Int
  BY PlacesType DEF Inv
<1>3. \A l \in Loops, op \in Ops : Places(l, op, d)' # {} => Places(l, op, d) # {}
  BY DEF Moves
<1>4. Placed(d)'
  BY <1>1, <1>3 DEF Placed, Ops
<1>5. ASSUME NEW l \in Loops, ~(phase'[l] = "destroyed" /\ \A op \in Ops : Places(l, op, d)' = {})
      PROVE  \E o \in Int :
               /\ \A op \in {"connectEstablished", "connectDestoryed"} :
                    \A i \in Places(l, op, d) : i - o \in Places(l, op, d)'
               /\ \A op \in Ops : \A i \in Places(l, op, d)' :
                    i \in Int /\ i + o \in Places(l, op, d)
  BY <1>5 DEF Moves
<1>6. Establishing(d)'
  <2>1. SUFFICES ASSUME NEW l \in Loops, loopOf[d] = l
        PROVE  /\ \A i \in Places(l, "connectEstablished", d)' :
                    /\ state_'[d] = "kConnecting"
                    /\ \A j \in Places(l, "connectEstablished", d)' : j = i
                    /\ \A j \in Places(l, "connectDestoryed", d)' : j > i
               /\ state_'[d] = "kConnecting" /\ phase'[l] # "destroyed" =>
                    l # loop_ /\ Places(l, "connectEstablished", d)' # {}
    BY DEF Establishing
  <2>2. CASE phase'[l] = "destroyed" /\ \A op \in Ops : Places(l, op, d)' = {}
    BY <2>2 DEF Ops
  <2>3. CASE ~(phase'[l] = "destroyed" /\ \A op \in Ops : Places(l, op, d)' = {})
    <3>1. PICK o \in Int :
            /\ \A op \in {"connectEstablished", "connectDestoryed"} :
                 \A i \in Places(l, op, d) : i - o \in Places(l, op, d)'
            /\ \A op \in Ops : \A i \in Places(l, op, d)' :
                 i \in Int /\ i + o \in Places(l, op, d)
      BY <1>5, <2>3
    <3>2. QED
      BY <1>1, <1>2, <2>1, <3>1 DEF Establishing, Ops
  <2>4. QED
    BY <2>2, <2>3
<1>7. Custody(d)'
  <2>1. SUFFICES ASSUME NEW l \in Loops, loopOf[d] = l
        PROVE  /\ state_'[d] # "none" /\ phase'[l] # "destroyed" =>
                    \/ d \in connections_'
                    \/ channel'[d] = "removed"
                    \/ Places(l, "connectDestoryed", d)' # {}
               /\ channel'[d] = "removed" => d \notin connections_'
               /\ \A i \in Places(l, "connectDestoryed", d)' :
                    /\ d \notin connections_' /\ channel'[d] # "removed"
                    /\ \A j \in Places(l, "connectDestoryed", d)' : j = i
    BY DEF Custody
  <2>2. CASE phase'[l] = "destroyed" /\ \A op \in Ops : Places(l, op, d)' = {}
    BY <1>1, <2>1, <2>2 DEF Custody, Ops
  <2>3. CASE ~(phase'[l] = "destroyed" /\ \A op \in Ops : Places(l, op, d)' = {})
    <3>1. PICK o \in Int :
            /\ \A op \in {"connectEstablished", "connectDestoryed"} :
                 \A i \in Places(l, op, d) : i - o \in Places(l, op, d)'
            /\ \A op \in Ops : \A i \in Places(l, op, d)' :
                 i \in Int /\ i + o \in Places(l, op, d)
      BY <1>5, <2>3
    <3>2. QED
      BY <1>1, <1>2, <2>1, <3>1 DEF Custody, Ops
  <2>4. QED
    BY <2>2, <2>3
<1>8. Removing(d)'
  <2>1. CASE phase'[loop_] = "destroyed" /\ \A op \in Ops : Places(loop_, op, d)' = {}
    BY <1>1, <2>1, ThreadFacts DEF Removing, Ops
  <2>2. CASE ~(phase'[loop_] = "destroyed" /\ \A op \in Ops : Places(loop_, op, d)' = {})
    <3>1. PICK o \in Int :
            /\ \A op \in {"connectEstablished", "connectDestoryed"} :
                 \A i \in Places(loop_, op, d) : i - o \in Places(loop_, op, d)'
            /\ \A op \in Ops : \A i \in Places(loop_, op, d)' :
                 i \in Int /\ i + o \in Places(loop_, op, d)
      BY <1>5, <2>2, ThreadFacts
    <3>2. QED
      BY <1>1, <1>2, <3>1, ThreadFacts DEF Removing, Ops
  <2>3. QED
    BY <2>1, <2>2
<1>9. RawFirst(d)'
  <2>1. SUFFICES ASSUME NEW l \in Loops, loopOf[d] = l, phase'[l] # "left",
                        NEW i \in Places(l, "shutdownInLoop", d)'
                 PROVE  d \in connections_' \/ \E j \in Places(l, "connectDestoryed", d)' : j > i
    BY DEF RawFirst
  <2>2. PICK o \in Int :
          /\ \A op \in {"connectEstablished", "connectDestoryed"} :
               \A p \in Places(l, op, d) : p - o \in Places(l, op, d)'
          /\ \A op \in Ops : \A p \in Places(l, op, d)' :
               p \in Int /\ p + o \in Places(l, op, d)
    BY <1>5, <2>1 DEF Ops
  <2>3. i \in Int /\ i + o \in Places(l, "shutdownInLoop", d)
    BY <2>1, <2>2 DEF Ops
  <2>4. ASSUME NEW j \in Places(l, "connectDestoryed", d), j > i + o
        PROVE  j - o \in Places(l, "connectDestoryed", d)' /\ j - o > i
    BY <1>2, <2>2, <2>3, <2>4 DEF Ops
  <2>5. QED
    BY <1>1, <2>1, <2>3, <2>4 DEF RawFirst
<1>10. QED
  BY <1>4, <1>6, <1>7, <1>8, <1>9 DEF Queues

-----------------------------------------------------------------------------
(***************************************************************************)
(* The connections and their functors, action by action.                   *)
(***************************************************************************)

\* The down callback comes second.
LEMMA UpDown == Append(<<"up">>, "down") = <<"up", "down">>
<1> DEFINE s == Append(<<"up">>, "down")
           t == <<"up", "down">>
<1>1. <<"up">> \in Seq({"up", "down"}) /\ Len(<<"up">>) = 1 /\ <<"up">>[1] = "up"
  OBVIOUS
<1>2. s \in Seq({"up", "down"}) /\ Len(s) = 2 /\ s[1] = "up" /\ s[2] = "down"
  BY <1>1, AppendProperties
<1>3. t \in Seq({"up", "down"}) /\ Len(t) = 2 /\ t[1] = "up" /\ t[2] = "down"
  OBVIOUS
<1> HIDE DEF s, t
<1>4. \A i \in 1 .. 2 : s[i] = t[i]
  BY <1>2, <1>3
<1>5. s = t
  BY <1>2, <1>3, <1>4
<1>6. QED
  BY <1>5 DEF s, t

\* Nothing is known yet of a connection about to be accepted.
LEMMA Fresh ==
  ASSUME Inv, Accepts
  PROVE  /\ nextConnId_ \in Conns /\ nextConnId_ \in Nat /\ state_[nextConnId_] = "none"
         /\ channel[nextConnId_] = "new" /\ callbacks[nextConnId_] = <<>>
         /\ nextConnId_ \notin connections_ \cup holds
         /\ \A l \in Loops, op \in Ops : Places(l, op, nextConnId_) = {}
<1>1. nextConnId_ \in Conns /\ nextConnId_ \in Nat
  BY AcceptTypes, ThreadFacts DEF Inv
<1>2. /\ state_[nextConnId_] = "none" /\ channel[nextConnId_] = "new"
      /\ callbacks[nextConnId_] = <<>> /\ nextConnId_ \notin connections_ \cup holds
  BY <1>1 DEF Inv, Stage
<1>3. \A l \in Loops, op \in Ops : Places(l, op, nextConnId_) = {}
  BY <1>1, <1>2 DEF Inv, Queues, Placed, Ops
<1>4. QED
  BY <1>1, <1>2, <1>3

\* newConnection on the base loop.
LEMMA AcceptHereStep ==
  ASSUME Inv, AcceptHere, NEW d \in Conns
  PROVE  Stage(d)' /\ Queues(d)'
<1> DEFINE n == nextConnId_
<1>1. /\ n \in Conns /\ n \in Nat /\ state_[n] = "none" /\ channel[n] = "new" /\ callbacks[n] = <<>>
      /\ \A l \in Loops, op \in Ops : Places(l, op, n) = {}
  BY Fresh DEF AcceptHere
<1>2. /\ nextConnId_' = n + 1 /\ connections_' = connections_ \cup {n}
      /\ holds' \subseteq holds \cup {n} /\ UNCHANGED <<loopOf, phase>>
  BY DEF AcceptHere, loopVars
<1>3. /\ state_'[n] = "kConnected" /\ \A c \in Conns : c # n => state_'[c] = state_[c]
      /\ channel'[n] = "watched" /\ \A c \in Conns : c # n => channel'[c] = channel[c]
      /\ callbacks'[n] = <<"up">> /\ \A c \in Conns : c # n => callbacks'[c] = callbacks[c]
  BY <1>1 DEF AcceptHere, Established, Inv, TypeOK
<1>4. \A l \in Loops : (\A op, c : Places(l, op, c)' = Places(l, op, c)) /\ \A c : Moves(c, l)
  BY MovesWhenStill DEF AcceptHere, loopVars, Work, Inv
<1>5. d \in Nat
  BY ThreadFacts
<1>6. Stage(d) /\ n = nextConnId_
  BY DEF Inv
<1> HIDE DEF n
<1>7. CASE d = n
  <2>1. \A l \in Loops, op \in Ops : Places(l, op, d)' = {}
    BY <1>1, <1>4, <1>7
  <2>2. Stage(d)'
    BY <1>1, <1>2, <1>3, <1>7 DEF Stage
  <2>3. Queues(d)'
    BY <1>2, <1>3, <1>7, <2>1, ThreadFacts
    DEF Queues, Placed, Establishing, Custody, Removing, RawFirst, Ops
  <2>4. QED
    BY <2>2, <2>3
<1>8. CASE d # n
  <2>1. Stage(d)'
    BY <1>1, <1>2, <1>3, <1>5, <1>6, <1>8 DEF Stage
  <2>2. Queues(d)'
    BY <1>2, <1>3, <1>4, <1>8, Others
  <2>3. QED
    BY <2>1, <2>2
<1>9. QED
  BY <1>7, <1>8

\* newConnection for a loop of the pool: connectEstablished is the first
\* functor that the connection has anywhere.
LEMMA AcceptElsewhereStep ==
  ASSUME Inv, AcceptElsewhere, NEW d \in Conns
  PROVE  Stage(d)' /\ Queues(d)'
<1> DEFINE n == nextConnId_
           f == Functor("connectEstablished", n)
<1>1. /\ n \in Conns /\ n \in Nat /\ state_[n] = "none" /\ channel[n] = "new" /\ callbacks[n] = <<>>
      /\ \A l \in Loops, op \in Ops : Places(l, op, n) = {}
  BY Fresh DEF AcceptElsewhere
<1>2. /\ nextConnId_' = n + 1 /\ connections_' = connections_ \cup {n}
      /\ UNCHANGED <<phase, batch, channel, callbacks, holds>>
  BY DEF AcceptElsewhere, loopVars, userVars
<1>3. PICK k \in Threads : k = next_ + 1
  BY AcceptTypes DEF AcceptElsewhere, Inv
<1>4. k \in Loops /\ k # loop_ /\ f \in Functors
  BY <1>1, <1>3, ThreadFacts, FunctorFacts DEF Ops
<1>5. /\ state_'[n] = "kConnecting" /\ \A c \in Conns : c # n => state_'[c] = state_[c]
      /\ loopOf'[n] = k /\ \A c \in Conns : c # n => loopOf'[c] = loopOf[c]
  BY <1>1, <1>3 DEF AcceptElsewhere, Inv, TypeOK
<1>6. Queue(k, f) /\ batch'[k] = batch[k]
  BY <1>2, <1>3 DEF AcceptElsewhere
<1>7. \A l \in Loops : l # k => (\A op, c : Places(l, op, c)' = Places(l, op, c)) /\ \A c : Moves(c, l)
  BY <1>2, <1>4, <1>6, Queued1, MovesWhenStill DEF Inv
<1>8. d \in Nat
  BY ThreadFacts
<1>9. Stage(d) /\ n = nextConnId_
  BY DEF Inv
<1> HIDE DEF n
<1>10. CASE d = n
  <2>1. PICK p \in Nat : \A op \in Ops :
          Places(k, op, d)' = IF op = "connectEstablished" THEN {p} ELSE {}
    <3>1. PICK p \in Nat : \A op, c :
            Places(k, op, c)' = Places(k, op, c) \cup (IF f = Functor(op, c) THEN {p} ELSE {})
      BY <1>4, <1>6, Appended DEF Inv
    <3>2. \A op \in Ops : f = Functor(op, d) <=> op = "connectEstablished"
      BY <1>10, FunctorFacts
    <3>3. QED
      BY <1>1, <1>4, <1>10, <3>1, <3>2
  <2>2. \A l \in Loops, op \in Ops : l # k => Places(l, op, d)' = {}
    BY <1>1, <1>7, <1>10
  <2>3. Stage(d)'
    BY <1>1, <1>2, <1>5, <1>10 DEF Stage
  <2>4. Placed(d)' /\ Establishing(d)'
    BY <1>4, <1>5, <1>10, <2>1, <2>2 DEF Placed, Establishing, Ops
  <2>5. Custody(d)' /\ Removing(d)' /\ RawFirst(d)'
    BY <1>1, <1>2, <1>4, <1>5, <1>10, <2>1, <2>2, ThreadFacts
    DEF Custody, Removing, RawFirst, Ops
  <2>6. QED
    BY <2>3, <2>4, <2>5 DEF Queues
<1>11. CASE d # n
  <2>1. Stage(d)'
    BY <1>1, <1>2, <1>5, <1>8, <1>9, <1>11 DEF Stage
  <2>2. Moves(d, k)
    <3>1. \A op \in Ops : f # Functor(op, d)
      BY <1>11, FunctorFacts
    <3>2. QED
      BY <1>4, <1>6, <3>1, MovesWhenAppended DEF Inv
  <2>3. Queues(d)'
    BY <1>2, <1>5, <1>7, <1>11, <2>2, Others
  <2>4. QED
    BY <2>1, <2>3
<1>12. QED
  BY <1>10, <1>11

\* handleClose queues the removal, or on the base loop takes the connection
\* out of the map and queues its connectDestoryed.
LEMMA CloseStep ==
  ASSUME Inv, NEW c \in Conns, HandleClose(c), NEW d \in Conns
  PROVE  Stage(d)' /\ Queues(d)'
<1>1. /\ channel[c] = "watched" /\ phase[loopOf[c]] = "poll"
      /\ UNCHANGED <<nextConnId_, loopOf, phase, batch, holds>>
  BY DEF HandleClose, acceptVars, loopVars, userVars
<1>2. /\ state_[c] \in {"kConnected", "kDisconnecting"} /\ callbacks[c] = <<"up">>
      /\ Stage(c) /\ Stage(d) /\ Queues(c)
  BY <1>1 DEF Inv, Stage
<1>3. /\ state_'[c] = "kDisconnected" /\ \A e \in Conns : e # c => state_'[e] = state_[e]
      /\ channel'[c] = "idle" /\ \A e \in Conns : e # c => channel'[e] = channel[e]
      /\ callbacks'[c] = Append(callbacks[c], "down")
      /\ \A e \in Conns : e # c => callbacks'[e] = callbacks[e]
  BY DEF HandleClose, Inv, TypeOK
<1>4. callbacks'[c] = <<"up", "down">>
  BY <1>2, <1>3, UpDown
<1>5. PICK r \in Loops : r = loopOf[c]
  BY DEF Inv, TypeOK
<1> DEFINE op == IF r = loop_ THEN "connectDestoryed" ELSE "removeConnectionInLoop"
           f == Functor(op, c)
<1>6. /\ Queue(loop_, f) /\ batch'[loop_] = batch[loop_]
      /\ connections_' = IF r = loop_ THEN connections_ \ {c} ELSE connections_
  BY <1>1, <1>5 DEF HandleClose, AskRemoval, Removed
<1>7. f \in Functors /\ \A p : f = Functor(p, c) <=> p = op
  BY FunctorFacts DEF Ops
<1>8. \A p \in Ops, e \in Conns : e # c => f # Functor(p, e)
  BY FunctorFacts
<1>9. \A l \in Loops : l # loop_ => (\A p, e : Places(l, p, e)' = Places(l, p, e)) /\ \A e : Moves(e, l)
  BY <1>1, <1>6, <1>7, ThreadFacts, Queued1, MovesWhenStill DEF Inv
<1>10. PICK n \in Nat : \A p, e :
         /\ Places(loop_, p, e)' = Places(loop_, p, e) \cup (IF f = Functor(p, e) THEN {n} ELSE {})
         /\ \A i \in Places(loop_, p, e) : i < n
  BY <1>6, <1>7, ThreadFacts, Appended DEF Inv
<1> HIDE DEF f
<1>11. CASE d = c
  <2>1. Stage(d)'
    BY <1>1, <1>2, <1>3, <1>4, <1>6, <1>11 DEF Stage
  <2>2. \A l \in Loops : Places(l, "connectEstablished", c) = {}
    BY <1>2 DEF Queues, Placed, Establishing
  <2>3. /\ \A l \in Loops, p \in Ops : l # loop_ \/ p # op => Places(l, p, c)' = Places(l, p, c)
        /\ Places(loop_, op, c)' = Places(loop_, op, c) \cup {n}
    <3>1. \A l \in Loops, p \in Ops : l # loop_ => Places(l, p, c)' = Places(l, p, c)
      BY <1>9
    <3>2. \A p : Places(loop_, p, c)' = Places(loop_, p, c) \cup (IF p = op THEN {n} ELSE {})
      BY <1>7, <1>10
    <3>3. QED
      BY <3>1, <3>2
  <2>4. loop_ \in Loops /\ loopOf'[c] = r /\ channel[c] # "removed"
    BY <1>1, <1>5, ThreadFacts
  <2>5. CASE r = loop_
    <3>1. c \in connections_ /\ phase[loop_] # "left" /\ phase[loop_] # "destroyed"
      BY <1>1, <1>2, <1>5, <2>5 DEF Queues, Removing
    <3>2. Places(loop_, "connectDestoryed", c) = {} /\ Places(loop_, "removeConnectionInLoop", c) = {}
      BY <1>2, <1>5, <2>4, <2>5, <3>1 DEF Queues, Custody, Placed
    <3>3. Placed(c)'
      <4>1. \A l \in Loops, p \in Ops :
              Places(l, p, c)' # {} => Places(l, p, c) # {} \/ (l = loop_ /\ p = "connectDestoryed")
        BY <2>3, <2>5
      <4>2. QED
        BY <1>2, <1>3, <1>5, <2>4, <2>5, <4>1 DEF Queues, Placed, Ops
    <3>4. Establishing(c)' /\ Custody(c)' /\ Removing(c)'
      <4>1. Places(loop_, "connectDestoryed", c)' = {n}
            /\ Places(loop_, "connectEstablished", c)' = {}
            /\ Places(loop_, "removeConnectionInLoop", c)' = {}
        BY <2>2, <2>3, <2>4, <2>5, <3>2 DEF Ops
      <4>2. QED
        BY <1>3, <1>6, <2>4, <2>5, <4>1 DEF Establishing, Custody, Removing
    <3>5. RawFirst(c)'
      BY <1>10, <2>3, <2>4, <2>5 DEF RawFirst, Ops
    <3>6. QED
      BY <2>1, <1>11, <3>3, <3>4, <3>5 DEF Queues
  <2>6. CASE r # loop_
    <3>1. phase[loop_] # "left" =>
            c \in connections_ /\ Places(loop_, "removeConnectionInLoop", c) = {}
      BY <1>1, <1>2 DEF Queues, Removing
    <3>2. Placed(c)'
      BY <1>2, <1>3, <1>5, <2>3, <2>4, <2>6 DEF Queues, Placed, Ops
    <3>3. Establishing(c)' /\ Custody(c)'
      BY <1>1, <1>2, <1>3, <1>5, <1>6, <2>2, <2>3, <2>4, <2>6
      DEF Queues, Establishing, Custody, Ops
    <3>4. Removing(c)' /\ RawFirst(c)'
      BY <1>1, <1>2, <1>3, <1>5, <1>6, <2>3, <2>4, <2>6, <3>1
      DEF Queues, Removing, RawFirst, Ops
    <3>5. QED
      BY <2>1, <1>11, <3>2, <3>3, <3>4 DEF Queues
  <2>7. QED
    BY <2>5, <2>6
<1>12. CASE d # c
  <2>1. Stage(d)'
    BY <1>1, <1>2, <1>3, <1>6, <1>12 DEF Stage
  <2>2. Moves(d, loop_)
    BY <1>6, <1>7, <1>8, <1>12, ThreadFacts, MovesWhenAppended DEF Inv
  <2>3. Queues(d)'
    BY <1>1, <1>3, <1>6, <1>9, <1>12, <2>2, Others
  <2>4. QED
    BY <2>1, <2>3
<1>13. QED
  BY <1>11, <1>12

\* A user thread queues shutdownInLoop, late if connectDestoryed is before it.
LEMMA ShutdownStep ==
  ASSUME Inv, NEW c \in Conns, ThreadQueues(c), NEW d \in Conns
  PROVE  Stage(d)' /\ Queues(d)'
<1>1. /\ c \in calling /\ c \in holds
      /\ UNCHANGED <<nextConnId_, loopOf, phase, batch, holds, connections_, state_, channel, callbacks>>
  BY DEF ThreadQueues, acceptVars, loopVars, connVars, Inv, TypeOK
<1>2. Stage(c) /\ Stage(d) /\ Queues(c)
  BY DEF Inv
<1>3. PICK k \in Loops : k = loopOf[c]
  BY DEF Inv, TypeOK
<1> DEFINE op == IF DestroyQueued(c) THEN "lateShutdownInLoop" ELSE "shutdownInLoop"
           f == Functor(op, c)
<1>4. Queue(k, f) /\ batch'[k] = batch[k]
  BY <1>1, <1>3 DEF ThreadQueues
<1>5. f \in Functors /\ (\A p : f = Functor(p, c) <=> p = op) /\ op \in Ops
  BY FunctorFacts DEF Ops
<1>6. op = "lateShutdownInLoop" \/ (op = "shutdownInLoop" /\ ~DestroyQueued(c))
  OBVIOUS
<1>7. \A p, e : e # c => f # Functor(p, e)
  BY FunctorFacts
<1>8. \A l \in Loops : l # k => (\A p, e : Places(l, p, e)' = Places(l, p, e)) /\ \A e : Moves(e, l)
  BY <1>1, <1>4, <1>5, Queued1, MovesWhenStill DEF Inv
<1>9. PICK n \in Nat : \A p, e :
        /\ Places(k, p, e)' = Places(k, p, e) \cup (IF f = Functor(p, e) THEN {n} ELSE {})
        /\ \A i \in Places(k, p, e) : i < n
  BY <1>4, <1>5, Appended DEF Inv
<1> HIDE DEF op, f
<1>10. Stage(d)'
  BY <1>1, <1>2 DEF Stage
<1>11. CASE d = c
  <2>1. state_[c] # "none"
    BY <1>1, <1>2 DEF Stage
  <2>2. \A l \in Loops : \A p : l # k \/ p # op => Places(l, p, c)' = Places(l, p, c)
    BY <1>5, <1>8, <1>9
  <2>3. Placed(c)'
    BY <1>1, <1>2, <1>3, <1>6, <2>1, <2>2 DEF Queues, Placed, Ops
  <2>4. Establishing(c)' /\ Custody(c)'
    BY <1>1, <1>2, <1>6, <2>2 DEF Queues, Establishing, Custody
  <2>5. Removing(c)'
    BY <1>1, <1>2, <1>6, <2>2, ThreadFacts DEF Queues, Removing
  <2>6. ASSUME op = "shutdownInLoop" PROVE c \in connections_
    <3>1. channel[c] # "removed" /\ Functor("connectDestoryed", c) \notin Queued(k)
      BY <1>3, <1>6, <2>6 DEF DestroyQueued
    <3>2. Places(k, "connectDestoryed", c) = {}
      BY <3>1 DEF Queued, Range, Places
    <3>3. phase[k] # "destroyed"
      BY <1>1, ThreadFacts DEF Inv, Ends
    <3>4. QED
      BY <1>2, <1>3, <2>1, <3>1, <3>2, <3>3 DEF Queues, Custody
  <2>7. RawFirst(c)'
    BY <1>1, <1>2, <1>6, <2>2, <2>6 DEF Queues, RawFirst
  <2>8. QED
    BY <1>10, <1>11, <2>3, <2>4, <2>5, <2>7 DEF Queues
<1>12. CASE d # c
  <2>1. Moves(d, k)
    BY <1>4, <1>5, <1>7, <1>12, MovesWhenAppended DEF Inv
  <2>2. Queues(d)'
    BY <1>1, <1>8, <2>1, Others
  <2>3. QED
    BY <1>10, <2>2
<1>13. QED
  BY <1>11, <1>12

\* connectEstablished runs before anything else of its connection.
LEMMA EstablishedStep ==
  ASSUME Inv, NEW k \in Loops, NEW c \in Conns, ConnectEstablished(k, c), NEW d \in Conns
  PROVE  Stage(d)' /\ Queues(d)'
<1>1. /\ Runs(k, "connectEstablished", c)
      /\ UNCHANGED <<nextConnId_, loopOf, phase, pending, connections_>>
      /\ holds' \subseteq holds \cup {c}
  BY DEF ConnectEstablished, acceptVars
<1>2. 1 \in Places(k, "connectEstablished", c) /\ phase[k] = "run"
  BY <1>1, HeadPlace DEF Inv
<1>3. Stage(c) /\ Stage(d) /\ Queues(c)
  BY DEF Inv
<1>4. /\ k = loopOf[c] /\ state_[c] = "kConnecting" /\ channel[c] = "new" /\ callbacks[c] = <<>>
      /\ \A i \in Places(k, "connectEstablished", c) : i = 1
  BY <1>2, <1>3 DEF Queues, Placed, Establishing, Stage
<1>5. /\ state_'[c] = "kConnected" /\ \A e \in Conns : e # c => state_'[e] = state_[e]
      /\ channel'[c] = "watched" /\ \A e \in Conns : e # c => channel'[e] = channel[e]
      /\ callbacks'[c] = <<"up">> /\ \A e \in Conns : e # c => callbacks'[e] = callbacks[e]
  BY <1>4 DEF ConnectEstablished, Established, Inv, TypeOK
<1>6. \A l \in Loops : l # k => (\A p, e : Places(l, p, e)' = Places(l, p, e)) /\ \A e : Moves(e, l)
  BY <1>1, Run1, MovesWhenStill DEF Inv
<1>7. \A p, e : /\ 1 \in Places(k, p, e) <=> Functor(p, e) = Functor("connectEstablished", c)
                /\ \A i \in Places(k, p, e) : i # 1 => i - 1 \in Places(k, p, e)'
                /\ \A i \in Places(k, p, e)' : i \in Nat /\ i + 1 \in Places(k, p, e)
                /\ 0 \notin Places(k, p, e)'
  BY <1>1, RanFirst DEF Inv
<1>8. Stage(d)'
  BY <1>1, <1>3, <1>4, <1>5 DEF Stage
<1>9. CASE d = c
  <2>1. Places(k, "connectEstablished", c)' = {}
    <3>1. ASSUME NEW i \in Places(k, "connectEstablished", c)' PROVE FALSE
      <4>1. i \in Nat /\ i + 1 = 1 /\ i # 0
        BY <1>4, <1>7
      <4>2. QED
        BY <4>1
    <3>2. QED
      BY <3>1
  <2>2. Placed(c)'
    BY <1>1, <1>3, <1>5, <1>6, <1>7 DEF Queues, Placed
  <2>3. Establishing(c)'
    BY <1>1, <1>4, <1>5, <2>1 DEF Establishing
  <2>4. \A i \in Places(k, "connectDestoryed", c) : i \in Nat /\ i - 1 \in Places(k, "connectDestoryed", c)'
    <3>1. 1 \notin Places(k, "connectDestoryed", c)
      BY <1>7, FunctorFacts
    <3>2. QED
      BY <1>7, <3>1, PlacesType DEF Inv
  <2>5. Custody(c)'
    BY <1>1, <1>2, <1>3, <1>4, <1>5, <1>7, <2>4 DEF Queues, Custody
  <2>6. Removing(c)'
    BY <1>1, <1>3, <1>4, <1>5, <1>6, <1>7, ThreadFacts DEF Queues, Removing
  <2>7. RawFirst(c)'
    BY <1>1, <1>3, <1>4, <1>7, <2>4 DEF Queues, RawFirst
  <2>8. QED
    BY <1>8, <1>9, <2>2, <2>3, <2>5, <2>6, <2>7 DEF Queues
<1>10. CASE d # c
  <2>1. Moves(d, k)
    <3>1. \A p : Functor("connectEstablished", c) # Functor(p, d)
      BY <1>10, FunctorFacts
    <3>2. QED
      BY <1>1, <3>1, MovesWhenRun DEF Inv
  <2>2. Queues(d)'
    BY <1>1, <1>5, <1>6, <1>10, <2>1, Others
  <2>3. QED
    BY <1>8, <2>2
<1>11. QED
  BY <1>9, <1>10

\* connectDestoryed is the last functor of its connection that holds it, and
\* finds it established.
LEMMA DestroyedStep ==
  ASSUME Inv, NEW k \in Loops, NEW c \in Conns, ConnectDestroyed(k, c), NEW d \in Conns
  PROVE  Stage(d)' /\ Queues(d)'
<1>1. /\ Runs(k, "connectDestoryed", c)
      /\ UNCHANGED <<nextConnId_, loopOf, phase, pending, connections_, holds>>
  BY DEF ConnectDestroyed, acceptVars, userVars
<1>2. 1 \in Places(k, "connectDestoryed", c) /\ phase[k] = "run"
  BY <1>1, HeadPlace DEF Inv
<1>3. Stage(c) /\ Stage(d) /\ Queues(c)
  BY DEF Inv
<1>4. /\ k = loopOf[c] /\ state_[c] # "none" /\ c \notin connections_
      /\ \A i \in Places(k, "connectDestoryed", c) : i = 1
  BY <1>2, <1>3 DEF Queues, Placed, Custody
<1>5. state_[c] # "kConnecting"
  <2>1. \A i \in Places(k, "connectEstablished", c) : i >= 1 /\ i \in Nat /\ 1 > i
    BY <1>2, <1>3, <1>4, PlacesType DEF Queues, Establishing, Inv
  <2>2. Places(k, "connectEstablished", c) = {}
    BY <2>1
  <2>3. QED
    BY <1>2, <1>3, <1>4, <2>2 DEF Queues, Establishing
<1>6. /\ state_'[c] = (IF state_[c] = "kConnected" THEN "kDisconnected" ELSE state_[c])
      /\ \A e \in Conns : e # c => state_'[e] = state_[e]
      /\ channel'[c] = "removed" /\ \A e \in Conns : e # c => channel'[e] = channel[e]
      /\ callbacks'[c] = (IF state_[c] = "kConnected" THEN Append(callbacks[c], "down")
                                                      ELSE callbacks[c])
      /\ \A e \in Conns : e # c => callbacks'[e] = callbacks[e]
  BY DEF ConnectDestroyed, Destroyed, Inv, TypeOK
<1>7. \A l \in Loops : l # k => (\A p, e : Places(l, p, e)' = Places(l, p, e)) /\ \A e : Moves(e, l)
  BY <1>1, Run1, MovesWhenStill DEF Inv
<1>8. \A p, e : /\ 1 \in Places(k, p, e) <=> Functor(p, e) = Functor("connectDestoryed", c)
                /\ \A i \in Places(k, p, e) : i # 1 => i - 1 \in Places(k, p, e)'
                /\ \A i \in Places(k, p, e)' : i \in Nat /\ i + 1 \in Places(k, p, e)
                /\ 0 \notin Places(k, p, e)'
  BY <1>1, RanFirst DEF Inv
<1>9. CASE d = c
  <2>1. Places(k, "connectDestoryed", c)' = {}
    <3>1. ASSUME NEW i \in Places(k, "connectDestoryed", c)' PROVE FALSE
      <4>1. i \in Nat /\ i + 1 = 1 /\ i # 0
        BY <1>4, <1>8
      <4>2. QED
        BY <4>1
    <3>2. QED
      BY <3>1
  <2>2. state_[c] \in {"kConnected", "kDisconnecting", "kDisconnected"}
    BY <1>4, <1>5 DEF Inv, TypeOK
  <2>3. Stage(c)'
    BY <1>1, <1>3, <1>6, <2>2, UpDown DEF Stage
  <2>4. \A l \in Loops, p \in Ops : Places(l, p, c)' # {} => Places(l, p, c) # {}
    BY <1>7, <1>8
  <2>5. Placed(c)'
    BY <1>1, <1>3, <1>6, <2>4 DEF Queues, Placed, Ops
  <2>6. Establishing(c)'
    <3>1. \A l \in Loops : Places(l, "connectEstablished", c) = {}
      BY <1>3, <1>5 DEF Queues, Placed, Establishing
    <3>2. QED
      BY <1>5, <1>6, <2>4, <3>1 DEF Establishing, Ops
  <2>7. Custody(c)'
    BY <1>1, <1>4, <1>6, <2>1 DEF Custody
  <2>8. Removing(c)'
    <3>1. phase[loop_] # "left" => Places(loop_, "removeConnectionInLoop", c) = {}
      BY <1>3, <1>4 DEF Queues, Removing
    <3>2. QED
      BY <1>1, <1>5, <1>6, <2>4, <3>1, ThreadFacts DEF Removing, Ops
  <2>9. RawFirst(c)'
    <3>1. ASSUME NEW i \in Places(k, "shutdownInLoop", c)', phase[k] # "left" PROVE FALSE
      <4>1. i \in Nat /\ i + 1 \in Places(k, "shutdownInLoop", c) /\ i # 0
        BY <1>8, <3>1
      <4>2. \E j \in Places(k, "connectDestoryed", c) : j > i + 1
        BY <1>3, <1>4, <3>1, <4>1 DEF Queues, RawFirst
      <4>3. QED
        BY <1>4, <4>1, <4>2
    <3>2. QED
      BY <1>1, <1>4, <3>1 DEF RawFirst
  <2>10. QED
    BY <1>9, <2>3, <2>5, <2>6, <2>7, <2>8, <2>9 DEF Queues
<1>10. CASE d # c
  <2>1. Moves(d, k)
    <3>1. \A p : Functor("connectDestoryed", c) # Functor(p, d)
      BY <1>10, FunctorFacts
    <3>2. QED
      BY <1>1, <3>1, MovesWhenRun DEF Inv
  <2>2. Queues(d)'
    BY <1>1, <1>6, <1>7, <1>10, <2>1, Others
  <2>3. Stage(d)'
    BY <1>1, <1>3, <1>6, <1>10 DEF Stage
  <2>4. QED
    BY <2>2, <2>3
<1>11. QED
  BY <1>9, <1>10

\* removeConnectionInLoop runs on the base loop and appends to another's
\* queue: the connection passes from the map to its connectDestoryed.
LEMMA RemovedStep ==
  ASSUME Inv, NEW c \in Conns, RemoveConnectionInLoop(c), NEW d \in Conns
  PROVE  Stage(d)' /\ Queues(d)'
<1>1. /\ Runs(loop_, "removeConnectionInLoop", c) /\ connections_' = connections_ \ {c}
      /\ UNCHANGED <<nextConnId_, loopOf, phase, state_, channel, callbacks, holds>>
  BY DEF RemoveConnectionInLoop, Removed, acceptVars, connVars, userVars
<1>2. 1 \in Places(loop_, "removeConnectionInLoop", c) /\ phase[loop_] = "run"
  BY <1>1, HeadPlace, ThreadFacts DEF Inv
<1>3. Stage(c) /\ Stage(d) /\ Queues(c)
  BY DEF Inv
<1>4. PICK k \in Loops : k = loopOf[c]
  BY DEF Inv, TypeOK
<1>5. /\ k # loop_ /\ state_[c] # "none" /\ c \in connections_ /\ channel[c] = "idle"
      /\ \A i \in Places(loop_, "removeConnectionInLoop", c) : i = 1
  BY <1>2, <1>3, <1>4, ThreadFacts DEF Queues, Placed, Removing
<1>6. state_[c] # "kConnecting" /\ Places(k, "connectEstablished", c) = {}
  BY <1>3, <1>4, <1>5 DEF Stage, Queues, Establishing
<1>7. Places(k, "connectDestoryed", c) = {}
  BY <1>3, <1>4, <1>5 DEF Queues, Custody
<1> DEFINE f == Functor("connectDestoryed", c)
<1>8. /\ Queue(k, f) /\ f \in Functors
      /\ \A l \in Loops : l # k => pending'[l] = pending[l]
      /\ \A l \in Loops : l # loop_ => batch'[l] = batch[l]
  <2>1. Queue(k, f) /\ f \in Functors
    BY <1>4, FunctorFacts DEF RemoveConnectionInLoop, Removed, Ops
  <2>2. \A l \in Loops : l # k => pending'[l] = pending[l]
    BY <2>1 DEF Queue, Inv, TypeOK
  <2>3. \A l \in Loops : l # loop_ => batch'[l] = batch[l]
    BY <1>1 DEF Runs, Inv, TypeOK
  <2>4. QED
    BY <2>1, <2>2, <2>3
<1>9. \A l \in Loops : l # k /\ l # loop_ =>
        (\A p, e : Places(l, p, e)' = Places(l, p, e)) /\ \A e : Moves(e, l)
  BY <1>8, MovesWhenStill DEF Work, Inv
<1>10. PICK n \in Nat : \A p, e :
         /\ Places(k, p, e)' = Places(k, p, e) \cup (IF f = Functor(p, e) THEN {n} ELSE {})
         /\ \A i \in Places(k, p, e) : i < n
  BY <1>5, <1>8, Appended DEF Inv
<1>11. \A p, e : /\ \A i \in Places(loop_, p, e)' : i \in Nat /\ i + 1 \in Places(loop_, p, e)
                 /\ 0 \notin Places(loop_, p, e)'
  BY <1>1, <1>5, <1>8, RanFirst, ThreadFacts DEF Inv
<1>12. \A p, e : f = Functor(p, e) <=> p = "connectDestoryed" /\ e = c
  BY FunctorFacts
<1> HIDE DEF f
<1>13. Stage(d)'
  BY <1>1, <1>3, <1>5 DEF Stage
<1>14. CASE d = c
  <2>1. /\ Places(k, "connectDestoryed", c)' = {n}
        /\ \A p \in Ops : p # "connectDestoryed" => Places(k, p, c)' = Places(k, p, c)
    <3>1. \A p : Places(k, p, c)' =
                   Places(k, p, c) \cup (IF p = "connectDestoryed" THEN {n} ELSE {})
      BY <1>10, <1>12
    <3>2. QED
      BY <1>7, <3>1
  <2>2. Places(loop_, "removeConnectionInLoop", c)' = {}
    <3>1. ASSUME NEW i \in Places(loop_, "removeConnectionInLoop", c)' PROVE FALSE
      <4>1. i \in Nat /\ i + 1 = 1 /\ i # 0
        BY <1>5, <1>11
      <4>2. QED
        BY <4>1
    <3>2. QED
      BY <3>1
  <2>3. Placed(c)'
    <3>1. \A l \in Loops, p \in Ops :
            Places(l, p, c)' # {} => Places(l, p, c) # {} \/ (l = k /\ p = "connectDestoryed")
      BY <1>9, <1>11, <2>1
    <3>2. QED
      BY <1>1, <1>3, <1>4, <1>5, <3>1 DEF Queues, Placed, Ops
  <2>4. Establishing(c)'
    BY <1>1, <1>4, <1>6, <2>1 DEF Establishing, Ops
  <2>5. Custody(c)'
    BY <1>1, <1>4, <1>5, <2>1 DEF Custody
  <2>6. Removing(c)'
    BY <1>1, <1>5, <1>6, <2>2 DEF Removing
  <2>7. RawFirst(c)'
    BY <1>1, <1>4, <1>10, <2>1 DEF RawFirst, Ops
  <2>8. QED
    BY <1>13, <1>14, <2>3, <2>4, <2>5, <2>6, <2>7 DEF Queues
<1>15. CASE d # c
  <2>1. Moves(d, k)
    BY <1>5, <1>8, <1>12, <1>15, MovesWhenAppended DEF Inv
  <2>2. Moves(d, loop_)
    <3>1. \A p : Functor("removeConnectionInLoop", c) # Functor(p, d)
      BY <1>15, FunctorFacts
    <3>2. QED
      BY <1>1, <1>5, <1>8, <3>1, ThreadFacts, MovesWhenRun DEF Inv
  <2>3. Queues(d)'
    BY <1>1, <1>9, <1>15, <2>1, <2>2, Others
  <2>4. QED
    BY <1>13, <2>3
<1>16. QED
  BY <1>14, <1>15

\* The destructor does the same for each connection it still has.
LEMMA DestructorCloses ==
  ASSUME Inv, NEW c \in Conns, CloseConnection(c), NEW d \in Conns
  PROVE  Stage(d)' /\ Queues(d)'
<1>1. /\ c \in connections_ /\ connections_' = connections_ \ {c}
      /\ UNCHANGED <<nextConnId_, loopOf, phase, batch, holds>>
      /\ phase[loop_] = "left"
  BY DEF CloseConnection, acceptVars, loopVars, userVars, Inv, Ends
<1>2. Stage(c) /\ Stage(d) /\ Queues(c)
  BY DEF Inv
<1>3. PICK k \in Loops : k = loopOf[c]
  BY DEF Inv, TypeOK
<1>4. state_[c] # "none" /\ channel[c] # "removed" /\ Places(k, "connectDestoryed", c) = {}
  BY <1>1, <1>2, <1>3 DEF Stage, Queues, Custody
<1>5. CASE k = loop_
  <2>1. Destroyed(c) /\ UNCHANGED pending
    BY <1>3, <1>5 DEF CloseConnection
  <2>2. \A l \in Loops : (\A p, e : Places(l, p, e)' = Places(l, p, e)) /\ \A e : Moves(e, l)
    BY <1>1, <2>1, MovesWhenStill DEF Work, Inv
  <2>3. state_[c] # "kConnecting"
    BY <1>1, <1>2, <1>3, <1>5 DEF Queues, Establishing
  <2>4. /\ state_'[c] = (IF state_[c] = "kConnected" THEN "kDisconnected" ELSE state_[c])
        /\ \A e \in Conns : e # c => state_'[e] = state_[e]
        /\ channel'[c] = "removed" /\ \A e \in Conns : e # c => channel'[e] = channel[e]
        /\ callbacks'[c] = (IF state_[c] = "kConnected" THEN Append(callbacks[c], "down")
                                                        ELSE callbacks[c])
        /\ \A e \in Conns : e # c => callbacks'[e] = callbacks[e]
    BY <2>1 DEF Destroyed, Inv, TypeOK
  <2>5. CASE d = c
    <3>1. state_[c] \in {"kConnected", "kDisconnecting", "kDisconnected"}
      BY <1>4, <2>3 DEF Inv, TypeOK
    <3>2. Stage(c)'
      BY <1>1, <1>2, <2>4, <3>1, UpDown DEF Stage
    <3>3. Placed(c)' /\ Establishing(c)'
      BY <1>1, <1>2, <2>2, <2>3, <2>4 DEF Queues, Placed, Establishing
    <3>4. Custody(c)'
      BY <1>1, <1>3, <1>4, <2>2, <2>4 DEF Custody
    <3>5. Removing(c)' /\ RawFirst(c)'
      BY <1>1, <1>3, <1>5 DEF Removing, RawFirst
    <3>6. QED
      BY <2>5, <3>2, <3>3, <3>4, <3>5 DEF Queues
  <2>6. CASE d # c
    <3>1. Queues(d)'
      BY <1>1, <2>2, <2>4, <2>6, Others
    <3>2. Stage(d)'
      BY <1>1, <1>2, <2>4, <2>6 DEF Stage
    <3>3. QED
      BY <3>1, <3>2
  <2>7. QED
    BY <2>5, <2>6
<1>6. CASE k # loop_
  <2> DEFINE f == Functor("connectDestoryed", c)
  <2>1. Queue(k, f) /\ f \in Functors /\ UNCHANGED connVars
    BY <1>3, <1>6, FunctorFacts DEF CloseConnection, Ops
  <2>2. UNCHANGED <<state_, channel, callbacks>>
    BY <2>1 DEF connVars
  <2>3. \A l \in Loops : l # k => (\A p, e : Places(l, p, e)' = Places(l, p, e)) /\ \A e : Moves(e, l)
    BY <1>1, <2>1, Queued1, MovesWhenStill DEF Inv
  <2>4. PICK n \in Nat : \A p, e :
          /\ Places(k, p, e)' = Places(k, p, e) \cup (IF f = Functor(p, e) THEN {n} ELSE {})
          /\ \A i \in Places(k, p, e) : i < n
    BY <1>1, <2>1, Appended DEF Inv
  <2>5. \A p, e : f = Functor(p, e) <=> p = "connectDestoryed" /\ e = c
    BY FunctorFacts
  <2> HIDE DEF f
  <2>6. Stage(d)'
    BY <1>1, <1>2, <2>2 DEF Stage
  <2>7. CASE d = c
    <3>1. /\ Places(k, "connectDestoryed", c)' = {n}
          /\ \A p \in Ops : p # "connectDestoryed" => Places(k, p, c)' = Places(k, p, c)
      <4>1. \A p : Places(k, p, c)' =
                     Places(k, p, c) \cup (IF p = "connectDestoryed" THEN {n} ELSE {})
        BY <2>4, <2>5
      <4>2. QED
        BY <1>4, <4>1
    <3>2. Placed(c)'
      <4>1. \A l \in Loops, p \in Ops :
              Places(l, p, c)' # {} => Places(l, p, c) # {} \/ (l = k /\ p = "connectDestoryed")
        BY <2>3, <3>1
      <4>2. QED
        BY <1>1, <1>2, <1>3, <1>4, <2>2, <4>1 DEF Queues, Placed, Ops
    <3>3. Establishing(c)'
      BY <1>1, <1>2, <1>3, <2>2, <2>4, <3>1 DEF Queues, Establishing, Ops
    <3>4. Custody(c)'
      BY <1>1, <1>3, <1>4, <2>2, <3>1 DEF Custody
    <3>5. Removing(c)' /\ RawFirst(c)'
      BY <1>1, <1>3, <2>4, <3>1 DEF Removing, RawFirst, Ops
    <3>6. QED
      BY <2>6, <2>7, <3>2, <3>3, <3>4, <3>5 DEF Queues
  <2>8. CASE d # c
    <3>1. Moves(d, k)
      BY <1>1, <2>1, <2>5, <2>8, MovesWhenAppended DEF Inv
    <3>2. Queues(d)'
      BY <1>1, <2>2, <2>3, <2>8, <3>1, Others
    <3>3. QED
      BY <2>6, <3>2
  <2>9. QED
    BY <2>7, <2>8
<1>7. QED
  BY <1>5, <1>6

\* Functors that run without a connection changing its state.
LEMMA HarmlessRuns ==
  ASSUME Inv, NEW k \in Loops, NEW p \in {"listen", "shutdownInLoop", "lateShutdownInLoop"},
         NEW c, Runs(k, p, c), UNCHANGED pending, UNCHANGED <<nextConnId_, loopOf, connections_>>,
         UNCHANGED connVars, UNCHANGED <<holds, phase>>, NEW d \in Conns
  PROVE  Stage(d)' /\ Queues(d)'
<1>1. Stage(d)'
  BY DEF connVars, Inv, Stage
<1>2. \A op \in {"connectEstablished", "connectDestoryed"} : Functor(p, c) # Functor(op, d)
  BY FunctorFacts
<1>3. Moves(d, k)
  BY <1>2, MovesWhenRun DEF Inv
<1>4. \A l \in Loops : l # k => Moves(d, l)
  BY Run1, MovesWhenStill DEF Inv
<1>5. QED
  BY <1>1, <1>3, <1>4, Others DEF connVars

\* Steps that leave the functors where they are; shutdown may begin.
LEMMA StillStep ==
  ASSUME Inv, NEW d \in Conns, \A l \in Loops : Moves(d, l),
         UNCHANGED <<nextConnId_, loopOf, connections_, channel, callbacks>>,
         state_'[d] = state_[d] \/ (state_[d] = "kConnected" /\ state_'[d] = "kDisconnecting"),
         holds' \subseteq holds,
         \A l \in Loops : /\ phase[l] = "destroyed" => phase'[l] = "destroyed"
                          /\ phase[l] = "left" => phase'[l] = "left"
  PROVE  Stage(d)' /\ Queues(d)'
<1>1. Stage(d)'
  BY DEF Inv, Stage
<1>2. Queues(d)'
  BY Others
<1>3. QED
  BY <1>1, <1>2

\* Taking the queue over as the batch leaves every functor in its place.
LEMMA SwapStill ==
  ASSUME Inv, NEW l \in Loops, Swap(l)
  PROVE  \A k \in Loops : Work(k)' = Work(k)
<1>1. /\ phase[l] = "poll" /\ batch'[l] = pending[l] /\ pending'[l] = <<>>
      /\ \A k \in Loops : k # l => batch'[k] = batch[k] /\ pending'[k] = pending[k]
  BY DEF Swap, Inv, TypeOK
<1>2. batch[l] = <<>> /\ pending[l] \in Seq(Functors)
  BY <1>1, WorkType DEF Inv, Ends
<1>3. pending[l] \o <<>> = <<>> \o pending[l]
  BY <1>2, ConcatEmptySeq
<1>4. Work(l)' = Work(l)
  <2>1. Work(l)' = pending[l] \o <<>>
    BY <1>1 DEF Work
  <2>2. QED
    BY <1>2, <1>3, <2>1 DEF Work
<1>5. QED
  BY <1>1, <1>4 DEF Work

\* The steps of a loop.
LEMMA TurnStep ==
  ASSUME Inv, NEW l \in Loops, Turn(l), NEW d \in Conns
  PROVE  Stage(d)' /\ Queues(d)'
<1> USE DEF acceptVars, connVars, userVars, loopVars
<1>1. CASE Swap(l)
  <2>1. /\ phase[l] = "poll" /\ phase' = [phase EXCEPT ![l] = "run"]
        /\ UNCHANGED <<nextConnId_, loopOf, connections_, state_, channel, callbacks, holds>>
    BY <1>1 DEF Swap, Inv, TypeOK
  <2>2. \A k \in Loops : Moves(d, k)
    BY <1>1, SwapStill, MovesWhenStill DEF Inv
  <2>3. \A k \in Loops : k # l => phase'[k] = phase[k]
    BY <2>1 DEF Inv, TypeOK
  <2>4. QED
    BY <2>1, <2>2, <2>3, StillStep
<1>2. CASE TurnEnds(l)
  <2>1. /\ phase[l] = "run" /\ phase' = [phase EXCEPT ![l] = "poll"]
        /\ UNCHANGED <<nextConnId_, loopOf, connections_, state_, channel, callbacks, holds, batch, pending>>
    BY <1>2 DEF TurnEnds
  <2>2. \A k \in Loops : Moves(d, k)
    BY <2>1, MovesWhenStill DEF Work, Inv
  <2>3. \A k \in Loops : k # l => phase'[k] = phase[k]
    BY <2>1 DEF Inv, TypeOK
  <2>4. QED
    BY <2>1, <2>2, <2>3, StillStep
<1>3. CASE LeaveLoop(l)
  <2>1. /\ phase[l] = "run" /\ batch[l] = <<>>
        /\ phase' = [phase EXCEPT ![l] = IF l = loop_ THEN "left" ELSE "destroyed"]
        /\ IF l = loop_ THEN UNCHANGED pending ELSE pending' = [pending EXCEPT ![l] = <<>>]
        /\ UNCHANGED <<nextConnId_, loopOf, connections_, state_, channel, callbacks, holds, batch>>
    BY <1>3 DEF LeaveLoop
  <2>2. \A k \in Loops : k # l \/ l = loop_ => Moves(d, k)
    <3>1. \A k \in Loops : k # l \/ l = loop_ => pending'[k] = pending[k]
      BY <2>1 DEF Inv, TypeOK
    <3>2. QED
      BY <2>1, <3>1, MovesWhenStill DEF Work, Inv
  <2>3. l # loop_ => Moves(d, l)
    <3>1. SUFFICES ASSUME l # loop_ PROVE Moves(d, l)
      OBVIOUS
    <3>2. phase'[l] = "destroyed" /\ pending'[l] = <<>>
      BY <2>1, <3>1 DEF Inv, TypeOK
    <3>3. Work(l)' = <<>> \o <<>>
      BY <2>1, <3>2 DEF Work
    <3>4. <<>> \o <<>> = <<>>
      <4>1. <<>> \in Seq(Functors)
        OBVIOUS
      <4>2. QED
        BY <4>1, ConcatEmptySeq
    <3>5. DOMAIN Work(l)' = {}
      BY <3>3, <3>4
    <3>6. QED
      BY <3>2, <3>5 DEF Moves, Places
  <2>4. \A k \in Loops : k # l => phase'[k] = phase[k]
    BY <2>1 DEF Inv, TypeOK
  <2>5. QED
    BY <2>1, <2>2, <2>3, <2>4, StillStep
<1>4. CASE l = loop_ /\ RunListen
  <2>1. /\ Runs(loop_, "listen", 0) /\ loop_ \in Loops
        /\ UNCHANGED <<nextConnId_, loopOf, connections_, holds, phase, pending>>
        /\ UNCHANGED connVars
    BY <1>4 DEF RunListen
  <2>2. QED
    BY <2>1, HarmlessRuns
<1>5. ASSUME NEW c \in Conns, ShutdownInLoop(l, c) PROVE Stage(d)' /\ Queues(d)'
  <2>1. /\ UNCHANGED <<nextConnId_, loopOf, connections_, holds, phase, pending>>
        /\ UNCHANGED connVars
    BY <1>5 DEF ShutdownInLoop
  <2>2. Runs(l, "shutdownInLoop", c) \/ Runs(l, "lateShutdownInLoop", c)
    BY <1>5 DEF ShutdownInLoop
  <2>3. QED
    BY <2>1, <2>2, HarmlessRuns
<1>6. CASE EnterLoop(l)
  <2>1. /\ phase[l] = "entering" /\ phase' = [phase EXCEPT ![l] = "run"]
        /\ UNCHANGED <<nextConnId_, loopOf, connections_, state_, channel, callbacks, holds, batch, pending>>
    BY <1>6 DEF EnterLoop
  <2>2. \A k \in Loops : Moves(d, k)
    BY <2>1, MovesWhenStill DEF Work, Inv
  <2>3. \A k \in Loops : k # l => phase'[k] = phase[k]
    BY <2>1 DEF Inv, TypeOK
  <2>4. QED
    BY <2>1, <2>2, <2>3, StillStep
<1>7. QED
  BY <1>1, <1>2, <1>3, <1>4, <1>5, <1>6, EstablishedStep, RemovedStep, DestroyedStep
  DEF Turn, RunFunctor

\* start() finds no pool thread, and queues at most the listen functor.
LEMMA StartStep ==
  ASSUME Inv, NEW m \in ThreadNums, Start(m), NEW d \in Conns
  PROVE  Stage(d)' /\ Queues(d)'
<1>1. /\ server = "new" /\ phase' = [l \in Loops |-> IF l \in 1 .. m THEN "entering" ELSE phase[l]]
      /\ UNCHANGED <<nextConnId_, loopOf, connections_, state_, channel, callbacks, holds, batch>>
      /\ UNCHANGED pending \/ Queue(loop_, Functor("listen", 0))
  BY DEF Start, acceptVars, connVars, userVars
<1>2. \A l \in Loops : /\ phase[l] = "destroyed" => phase'[l] = "destroyed"
                       /\ phase[l] = "left" => phase'[l] = "left"
  <2>1. loop_ \notin 1 .. m
    BY DEF loop_
  <2>2. \A l \in Loops : l # loop_ => phase[l] = "none"
    BY <1>1, ThreadFacts DEF Inv, Ends
  <2>3. QED
    BY <1>1, <2>1, <2>2
<1>3. \A l \in Loops : Moves(d, l)
  <2>1. CASE UNCHANGED pending
    BY <1>1, <2>1, MovesWhenStill DEF Work, Inv
  <2>2. CASE Queue(loop_, Functor("listen", 0))
    <3>1. Functor("listen", 0) \in Functors /\ \A op \in Ops : Functor("listen", 0) # Functor(op, d)
      BY FunctorFacts DEF Ops
    <3>2. Moves(d, loop_)
      BY <1>1, <2>2, <3>1, ThreadFacts, MovesWhenAppended DEF Inv
    <3>3. \A l \in Loops : l # loop_ => Work(l)' = Work(l)
      BY <1>1, <2>2, <3>1, ThreadFacts, Queued1 DEF Inv
    <3>4. QED
      BY <3>2, <3>3, MovesWhenStill DEF Inv
  <2>3. QED
    BY <1>1, <2>1, <2>2
<1>4. QED
  BY <1>1, <1>2, <1>3, StillStep

\* Every step keeps stages and queues of every connection.
LEMMA QueuesStep ==
  ASSUME Inv, [Next]_vars, NEW d \in Conns
  PROVE  Stage(d)' /\ Queues(d)'
<1>1. CASE \/ ClientConnects \/ AcceptFails \/ QuitBaseLoop \/ BeginDestructor
           \/ ConnectionsClosed \/ QuitThread \/ JoinThread \/ EndDestructor
           \/ UNCHANGED vars
  <2>1. UNCHANGED <<nextConnId_, loopOf, connections_, state_, channel, callbacks, holds, phase,
                    batch, pending>>
    BY <1>1
    DEF ClientConnects, AcceptFails, QuitBaseLoop, BeginDestructor, ConnectionsClosed, QuitThread,
        JoinThread, EndDestructor, vars, acceptVars, connVars, userVars, loopVars
  <2>2. \A l \in Loops : Moves(d, l)
    BY <2>1, MovesWhenStill DEF Work, Inv
  <2>3. QED
    BY <2>1, <2>2, StillStep
<1>2. ASSUME NEW c \in Conns, User(c) PROVE Stage(d)' /\ Queues(d)'
  <2>1. /\ UNCHANGED <<nextConnId_, loopOf, connections_, channel, callbacks, phase, batch, pending>>
        /\ holds' \subseteq holds
    BY <1>2
    DEF User, OwnShutdown, ThreadShutdown, DropPointer, Disconnecting, acceptVars, connVars, loopVars
  <2>2. state_'[d] = state_[d] \/ (state_[d] = "kConnected" /\ state_'[d] = "kDisconnecting")
    BY <1>2
    DEF User, OwnShutdown, ThreadShutdown, DropPointer, Disconnecting, connVars, Inv, TypeOK
  <2>3. \A l \in Loops : Moves(d, l)
    BY <2>1, MovesWhenStill DEF Work, Inv
  <2>4. QED
    BY <2>1, <2>2, <2>3, StillStep
<1>3. QED
  BY <1>1, <1>2, StartStep, AcceptHereStep, AcceptElsewhereStep, TurnStep, CloseStep, ShutdownStep,
     DestructorCloses
  DEF Next, Accept, Destructor

\* The inductive invariant: types, ends, stages and queues.
LEMMA Invariant == Spec => []Inv
<1>1. TypeOK /\ Ends /\ Init => Inv
  <2> SUFFICES ASSUME TypeOK, Ends, Init, NEW c \in Conns PROVE Stage(c) /\ Queues(c)
    BY DEF Inv
  <2>1. /\ state_[c] = "none" /\ channel[c] = "new" /\ callbacks[c] = <<>> /\ nextConnId_ = 1
        /\ connections_ = {} /\ holds = {}
    BY DEF Init
  <2>2. c >= 1
    BY ThreadFacts
  <2>3. \A l \in Loops, op \in Ops : Places(l, op, c) = {}
    <3>1. ASSUME NEW l \in Loops PROVE DOMAIN Work(l) = {}
      <4>1. <<>> \in Seq(Functors)
        OBVIOUS
      <4>2. <<>> \o <<>> = <<>>
        BY <4>1, ConcatEmptySeq
      <4>3. Work(l) = <<>> \o <<>>
        BY DEF Init, Work
      <4>4. QED
        BY <4>2, <4>3
    <3>2. QED
      BY <3>1 DEF Places
  <2>4. Stage(c)
    BY <2>1, <2>2 DEF Stage
  <2>5. Queues(c)
    BY <2>1, <2>3, ThreadFacts DEF Queues, Placed, Establishing, Custody, Removing, RawFirst, Ops
  <2>6. QED
    BY <2>4, <2>5
<1>2. (TypeOK /\ Ends)' /\ Inv /\ [Next]_vars => Inv'
  BY QueuesStep DEF Inv
<1>3. QED
  BY <1>1, <1>2, TypesAndEnds, PTL DEF Spec

-----------------------------------------------------------------------------
(***************************************************************************)
(* What follows for every run.                                             *)
(***************************************************************************)

\* A functor in the queues that holds a TcpConnectionPtr keeps c alive.
LEMMA QueuedReference ==
  ASSUME NEW l \in Loops, NEW op \in Owning, NEW c, Places(l, op, c) # {}
  PROVE  References(c)
<1>1. Functor(op, c) \in Queued(l)
  BY DEF Places, Queued, Range
<1>2. Functor(op, c).conn = c /\ Functor(op, c).op \in Owning
  BY DEF Functor
<1>3. QED
  BY <1>1, <1>2 DEF References

\* As long as its loop's thread runs, a connection is freed only after
\* connectDestoryed took its channel off the poller.
LEMMA FreedIsRemoved ==
  ASSUME Inv, NEW c \in Conns, Freed(c), phase[loopOf[c]] # "destroyed"
  PROVE  channel[c] = "removed"
<1>1. PICK l \in Loops : l = loopOf[c]
  BY DEF Inv, TypeOK
<1>2. state_[c] # "none" /\ c \notin connections_ /\ ~References(c)
  BY DEF Freed, References
<1>3. Places(l, "connectDestoryed", c) = {}
  BY <1>2, QueuedReference DEF Owning
<1>4. QED
  BY <1>1, <1>2, <1>3 DEF Inv, Queues, Custody

\* No poller of a running loop keeps the Channel pointer of a freed connection.
THEOREM PollersHoldLiveChannels == Spec => []RegisteredIsAlive
<1>1. Inv => RegisteredIsAlive
  BY FreedIsRemoved DEF RegisteredIsAlive, Registered
<1>2. QED
  BY <1>1, Invariant, PTL

\* However closes, removals and ~TcpServer race, exactly one of connections_,
\* one queued connectDestoryed and the removed channel accounts for a
\* connection whose loop still runs.
THEOREM DestroyedOnce == Spec => []OneCustodian
<1>1. Inv => OneCustodian
  <2>1. SUFFICES ASSUME Inv, NEW c \in Conns, state_[c] # "none", phase[loopOf[c]] # "destroyed"
                 PROVE  1 = (IF c \in connections_ THEN 1 ELSE 0) + Destroys(c)
                              + (IF channel[c] = "removed" THEN 1 ELSE 0)
    BY DEF OneCustodian
  <2>2. PICK l \in Loops : l = loopOf[c]
    BY <2>1 DEF Inv, TypeOK
  <2> DEFINE P == Places(l, "connectDestoryed", c)
  <2>3. Destroys(c) = Cardinality(P)
    BY <2>2 DEF Destroys, Places
  <2>4. /\ c \in connections_ \/ channel[c] = "removed" \/ P # {}
        /\ channel[c] = "removed" => c \notin connections_
        /\ \A i \in P : /\ c \notin connections_ /\ channel[c] # "removed"
                        /\ \A j \in P : j = i
    BY <2>1, <2>2 DEF Inv, Queues, Custody
  <2> HIDE DEF P
  <2>5. CASE P = {}
    <3>1. Cardinality(P) = 0
      BY <2>5, FS_EmptySet
    <3>2. QED
      BY <2>3, <2>4, <2>5, <3>1
  <2>6. CASE P # {}
    <3>1. PICK i \in P : P = {i}
      BY <2>4, <2>6
    <3>2. Cardinality(P) = 1
      BY <3>1, FS_Singleton
    <3>3. QED
      BY <2>3, <2>4, <2>6, <3>2
  <2>7. QED
    BY <2>5, <2>6
<1>2. QED
  BY <1>1, Invariant, PTL

\* connectionCallback_ reports up and then down, each at most once.
THEOREM UpThenDown == Spec => []CallbacksInOrder
<1>1. Inv => CallbacksInOrder
  BY DEF Inv, TypeOK, Stage, CallbacksInOrder
<1>2. QED
  BY <1>1, Invariant, PTL

\* Without shutdown, a connection is freed only after its down callback, unless
\* its loop quit with the functor still queued.
THEOREM FreedAfterDown == Spec => []DownReported
<1>1. Inv => DownReported
  <2>1. SUFFICES ASSUME Inv, NEW c \in Conns, Freed(c), phase[loopOf[c]] # "destroyed"
                 PROVE  \/ callbacks[c] = <<"up", "down">>
                        \/ callbacks[c] = <<"up">> /\ state_[c] = "kDisconnecting"
    BY DEF DownReported
  <2>2. channel[c] = "removed"
    BY <2>1, FreedIsRemoved
  <2>3. QED
    BY <2>1, <2>2 DEF Inv, Stage
<1>2. QED
  BY <1>1, Invariant, PTL

\* A shutdownInLoop queued before the connection's connectDestoryed runs on a
\* live object.
THEOREM RawCallsInTime == Spec => []RawCallFindsObject
<1>1. Inv => RawCallFindsObject
  <2>1. SUFFICES ASSUME Inv, NEW l \in Loops, NEW f \in Queued(l), f.op = "shutdownInLoop",
                        phase[l] # "left", Freed(f.conn)
                 PROVE  FALSE
    BY DEF RawCallFindsObject
  <2>2. Work(l) \in Seq(Functors)
    BY <2>1, WorkType DEF Inv
  <2>3. PICK i \in DOMAIN Work(l) : f = Work(l)[i]
    BY <2>1 DEF Queued, Range
  <2>4. f \in Functors
    BY <2>2, <2>3
  <2>5. PICK c \in Conns : f = Functor("shutdownInLoop", c)
    <3>1. Functor("listen", 0).op = "listen" /\ \A op, c : Functor(op, c).op = op
      BY DEF Functor
    <3>2. QED
      BY <2>1, <2>4, <3>1, FunctorFacts
  <2>6. i \in Places(l, "shutdownInLoop", c) /\ f.conn = c
    <3>1. f.conn = c
      BY <2>5 DEF Functor
    <3>2. QED
      BY <2>3, <2>5, <3>1 DEF Places
  <2>7. l = loopOf[c]
    BY <2>1, <2>6 DEF Inv, Queues, Placed
  <2>8. c \in connections_ \/ Places(l, "connectDestoryed", c) # {}
    BY <2>1, <2>6, <2>7 DEF Inv, Queues, RawFirst
  <2>9. c \in connections_ => References(c)
    BY DEF References
  <2>10. References(c)
    BY <2>8, <2>9, QueuedReference DEF Owning
  <2>11. QED
    BY <2>1, <2>6, <2>10 DEF Freed
<1>2. QED
  BY <1>1, Invariant, PTL

\* Once the server is gone, no running loop watches a connection or has a
\* removal queued: the raw TcpServer of closeCallback_ is not used again.
THEOREM ServerOutlivesRemovals == Spec => []RemovalFindsServer
<1>1. Inv => RemovalFindsServer
  <2>1. SUFFICES ASSUME Inv, server = "gone", NEW c \in Conns
                 PROVE  phase[loop_] = "left" /\ phase[loopOf[c]] \in {"left", "destroyed"}
    BY DEF Inv, Ends, RemovalFindsServer
  <2>2. phase[loop_] = "left"
    BY <2>1 DEF Inv, Ends
  <2>3. loopOf[c] = loop_ \/ loopOf[c] \in Threads
    BY <2>1, ThreadFacts DEF Inv, TypeOK
  <2>4. loopOf[c] \in Threads => phase[loopOf[c]] = "destroyed"
    BY <2>1 DEF Inv, Ends
  <2>5. QED
    BY <2>2, <2>3, <2>4
<1>2. QED
  BY <1>1, Invariant, PTL

\* Raw pointers to Channel, TcpConnection and TcpServer are used in time, for
\* any number of threads, connections and callers.
THEOREM PointersInTime == Spec => []NoDanglingPointer
  BY PollersHoldLiveChannels, RawCallsInTime, ServerOutlivesRemovals, PTL DEF NoDanglingPointer

-----------------------------------------------------------------------------
(***************************************************************************)
(* A closed connection leaves the map.                                     *)
(***************************************************************************)

\* A closed connection in the map has its removal queued.
Leaves(c) ==
  c \in connections_ /\ state_[c] = "kDisconnected" =>
    Places(loop_, "removeConnectionInLoop", c) # {}

\* A queued removal stays until it runs.
LEMMA RemovalStays ==
  ASSUME Inv, NEW d \in Conns, Places(loop_, "removeConnectionInLoop", d) # {},
         \/ Work(loop_)' = Work(loop_)
         \/ \E f \in Functors : Queue(loop_, f) /\ batch'[loop_] = batch[loop_]
         \/ \E p, c : /\ Runs(loop_, p, c) /\ pending'[loop_] = pending[loop_]
                      /\ Functor(p, c) # Functor("removeConnectionInLoop", d)
  PROVE  Places(loop_, "removeConnectionInLoop", d)' # {}
<1>1. CASE Work(loop_)' = Work(loop_)
  BY <1>1 DEF Places
<1>2. ASSUME NEW f \in Functors, Queue(loop_, f), batch'[loop_] = batch[loop_]
      PROVE  Places(loop_, "removeConnectionInLoop", d)' # {}
  <2>1. \E n \in Nat : \A op, c :
          Places(loop_, op, c)' = Places(loop_, op, c) \cup (IF f = Functor(op, c) THEN {n} ELSE {})
    BY <1>2, ThreadFacts, Appended DEF Inv
  <2>2. QED
    BY <2>1
<1>3. ASSUME NEW p, NEW c, Runs(loop_, p, c), pending'[loop_] = pending[loop_],
             Functor(p, c) # Functor("removeConnectionInLoop", d)
      PROVE  Places(loop_, "removeConnectionInLoop", d)' # {}
  <2>1. /\ 1 \notin Places(loop_, "removeConnectionInLoop", d)
        /\ \A i \in Places(loop_, "removeConnectionInLoop", d) :
             i # 1 => i - 1 \in Places(loop_, "removeConnectionInLoop", d)'
    BY <1>3, ThreadFacts, RanFirst DEF Inv
  <2>2. QED
    BY <2>1
<1>4. QED
  BY <1>1, <1>2, <1>3

\* Running another functor, on whatever loop, leaves the map, the states of
\* its connections and their queued removals alone.
LEMMA LeavesWhenRun ==
  ASSUME Inv, NEW d \in Conns, Leaves(d), NEW k \in Loops, NEW p, NEW c, Runs(k, p, c),
         p # "removeConnectionInLoop", UNCHANGED pending,
         d \in connections_' /\ state_'[d] = "kDisconnected" =>
           d \in connections_ /\ state_[d] = "kDisconnected"
  PROVE  Leaves(d)'
<1>1. k # loop_ => Work(loop_)' = Work(loop_)
  BY ThreadFacts, Run1 DEF Inv
<1>2. Functor(p, c) # Functor("removeConnectionInLoop", d)
  BY FunctorFacts
<1>3. Places(loop_, "removeConnectionInLoop", d) # {} =>
        Places(loop_, "removeConnectionInLoop", d)' # {}
  BY <1>1, <1>2, RemovalStays
<1>4. QED
  BY <1>3 DEF Leaves

\* Each step keeps a closed connection on its way out of the map.
LEMMA LeavesStep ==
  ASSUME Inv, [Next]_vars, NEW d \in Conns, Leaves(d)
  PROVE  Leaves(d)'
<1> USE DEF acceptVars, connVars, userVars, loopVars
<1> DEFINE Kept == /\ d \in connections_' => d \in connections_
                   /\ state_'[d] = "kDisconnected" => state_[d] = "kDisconnected"
<1>1. ASSUME Kept, Work(loop_)' = Work(loop_) PROVE Leaves(d)'
  BY <1>1, RemovalStays DEF Leaves
<1>2. ASSUME Kept, NEW k \in Loops, NEW f \in Functors, Queue(k, f), UNCHANGED batch
      PROVE  Leaves(d)'
  <2>1. k # loop_ => Work(loop_)' = Work(loop_)
    BY <1>2, ThreadFacts, Queued1 DEF Inv
  <2>2. Places(loop_, "removeConnectionInLoop", d) # {} =>
          Places(loop_, "removeConnectionInLoop", d)' # {}
    BY <1>2, <2>1, RemovalStays
  <2>3. QED
    BY <1>2, <2>2 DEF Leaves
<1>3. CASE \/ ClientConnects \/ AcceptFails \/ QuitBaseLoop \/ BeginDestructor
           \/ ConnectionsClosed \/ QuitThread \/ JoinThread \/ EndDestructor
           \/ \E c \in Conns : User(c)
           \/ UNCHANGED vars
  <2>1. /\ UNCHANGED <<connections_, batch, pending>>
        /\ state_'[d] = "kDisconnected" => state_[d] = "kDisconnected"
    BY <1>3
    DEF ClientConnects, AcceptFails, QuitBaseLoop, BeginDestructor, ConnectionsClosed, QuitThread,
        JoinThread, EndDestructor, vars, User, OwnShutdown, ThreadShutdown, DropPointer,
        Disconnecting, Inv, TypeOK
  <2>2. QED
    BY <1>1, <2>1 DEF Work
<1>4. ASSUME NEW n \in ThreadNums, Start(n) PROVE Leaves(d)'
  <2>1. /\ UNCHANGED <<connections_, state_, batch>>
        /\ UNCHANGED pending \/ Queue(loop_, Functor("listen", 0))
    BY <1>4 DEF Start
  <2>2. CASE UNCHANGED pending
    BY <1>1, <2>1, <2>2 DEF Work
  <2>3. CASE Queue(loop_, Functor("listen", 0))
    BY <1>2, <2>1, <2>3, ThreadFacts, FunctorFacts
  <2>4. QED
    BY <2>1, <2>2, <2>3
<1>5. CASE AcceptHere
  <2>1. /\ connections_' = connections_ \cup {nextConnId_} /\ UNCHANGED <<batch, pending>>
        /\ state_'[nextConnId_] = "kConnected"
        /\ \A c \in Conns : c # nextConnId_ => state_'[c] = state_[c]
    BY <1>5, Fresh DEF AcceptHere, Established, Inv, TypeOK
  <2>2. d = nextConnId_ => Leaves(d)'
    BY <2>1 DEF Leaves
  <2>3. d # nextConnId_ => Leaves(d)'
    BY <1>1, <2>1 DEF Work
  <2>4. QED
    BY <2>2, <2>3
<1>6. CASE AcceptElsewhere
  <2>1. /\ connections_' = connections_ \cup {nextConnId_} /\ UNCHANGED batch
        /\ state_'[nextConnId_] = "kConnecting"
        /\ \A c \in Conns : c # nextConnId_ => state_'[c] = state_[c]
        /\ nextConnId_ \in Conns
    BY <1>6, Fresh DEF AcceptElsewhere, Inv, TypeOK
  <2>2. PICK k \in Threads : k = next_ + 1
    BY <1>6, AcceptTypes DEF AcceptElsewhere, Inv
  <2>3. Queue(k, Functor("connectEstablished", nextConnId_)) /\ k \in Loops
    BY <1>6, <2>2, ThreadFacts DEF AcceptElsewhere
  <2>4. Functor("connectEstablished", nextConnId_) \in Functors
    BY <2>1, FunctorFacts DEF Ops
  <2>5. d = nextConnId_ => Leaves(d)'
    BY <2>1 DEF Leaves
  <2>6. d # nextConnId_ => Leaves(d)'
    BY <1>2, <2>1, <2>3, <2>4
  <2>7. QED
    BY <2>5, <2>6
<1>7. ASSUME NEW c \in Conns, HandleClose(c) PROVE Leaves(d)'
  <2>1. /\ UNCHANGED batch
        /\ \A e \in Conns : e # c => state_'[e] = state_[e]
        /\ \/ connections_' = connections_ \ {c} /\ Queue(loop_, Functor("connectDestoryed", c))
           \/ UNCHANGED connections_ /\ Queue(loop_, Functor("removeConnectionInLoop", c))
    BY <1>7 DEF HandleClose, AskRemoval, Removed, Inv, TypeOK
  <2>2. /\ Functor("connectDestoryed", c) \in Functors
        /\ Functor("removeConnectionInLoop", c) \in Functors
    BY FunctorFacts DEF Ops
  <2>3. d # c => Leaves(d)'
    BY <1>2, <2>1, <2>2, ThreadFacts
  <2>4. ASSUME d = c, UNCHANGED connections_, Queue(loop_, Functor("removeConnectionInLoop", c))
        PROVE  Leaves(d)'
    <3>1. \E n \in Nat : \A p, e :
            Places(loop_, p, e)' = Places(loop_, p, e)
              \cup (IF Functor("removeConnectionInLoop", c) = Functor(p, e) THEN {n} ELSE {})
      BY <2>1, <2>2, <2>4, ThreadFacts, Appended DEF Inv
    <3>2. QED
      BY <2>4, <3>1 DEF Leaves
  <2>5. QED
    BY <2>1, <2>3, <2>4 DEF Leaves
<1>8. ASSUME NEW c \in Conns, ThreadQueues(c) PROVE Leaves(d)'
  <2>1. /\ UNCHANGED <<connections_, state_, batch>>
        /\ \/ Queue(loopOf[c], Functor("shutdownInLoop", c))
           \/ Queue(loopOf[c], Functor("lateShutdownInLoop", c))
        /\ loopOf[c] \in Loops
    BY <1>8 DEF ThreadQueues, Inv, TypeOK
  <2>2. /\ Functor("shutdownInLoop", c) \in Functors
        /\ Functor("lateShutdownInLoop", c) \in Functors
    BY FunctorFacts DEF Ops
  <2>3. QED
    BY <1>2, <2>1, <2>2
<1>9. ASSUME NEW c \in Conns, CloseConnection(c) PROVE Leaves(d)'
  <2>1. /\ connections_' = connections_ \ {c} /\ UNCHANGED batch
        /\ \A e \in Conns : e # c => state_'[e] = state_[e]
        /\ UNCHANGED pending \/ Queue(loopOf[c], Functor("connectDestoryed", c))
        /\ loopOf[c] \in Loops
    BY <1>9 DEF CloseConnection, Destroyed, Inv, TypeOK
  <2>2. Functor("connectDestoryed", c) \in Functors
    BY FunctorFacts DEF Ops
  <2>3. d = c => Leaves(d)'
    BY <2>1 DEF Leaves
  <2>4. d # c => Leaves(d)'
    BY <1>1, <1>2, <2>1, <2>2 DEF Work
  <2>5. QED
    BY <2>3, <2>4
<1>10. ASSUME NEW l \in Loops, Turn(l) PROVE Leaves(d)'
  <2>1. CASE Swap(l)
    <3>1. UNCHANGED <<connections_, state_>>
      BY <2>1 DEF Swap
    <3>2. QED
      BY <1>1, <2>1, <3>1, SwapStill, ThreadFacts
  <2>2. CASE EnterLoop(l) \/ TurnEnds(l) \/ LeaveLoop(l)
    <3>1. UNCHANGED <<connections_, state_, batch>> /\ pending'[loop_] = pending[loop_]
      BY <2>2, ThreadFacts DEF EnterLoop, TurnEnds, LeaveLoop, Inv, TypeOK
    <3>2. QED
      BY <1>1, <3>1 DEF Work
  <2>3. CASE l = loop_ /\ RunListen
    BY <2>3, LeavesWhenRun DEF RunListen
  <2>4. ASSUME NEW c \in Conns, ConnectEstablished(l, c) PROVE Leaves(d)'
    <3>1. /\ Runs(l, "connectEstablished", c) /\ UNCHANGED <<connections_, pending>>
          /\ state_'[d] = "kDisconnected" => state_[d] = "kDisconnected"
      BY <2>4 DEF ConnectEstablished, Established, Inv, TypeOK
    <3>2. QED
      BY <3>1, LeavesWhenRun
  <2>5. ASSUME NEW c \in Conns, l = loop_, RemoveConnectionInLoop(c) PROVE Leaves(d)'
    <3>1. /\ Runs(loop_, "removeConnectionInLoop", c)
          /\ connections_' = connections_ \ {c} /\ UNCHANGED state_
          /\ Queue(loopOf[c], Functor("connectDestoryed", c))
      BY <2>5 DEF RemoveConnectionInLoop, Removed
    <3>2. Places(loop_, "removeConnectionInLoop", c) # {}
      BY <3>1, HeadPlace, ThreadFacts DEF Inv
    <3>3. loopOf[c] # loop_
      BY <3>2, ThreadFacts DEF Inv, Queues, Placed
    <3>4. pending'[loop_] = pending[loop_]
      BY <3>1, <3>3, ThreadFacts DEF Queue, Inv, TypeOK
    <3>5. d = c => Leaves(d)'
      BY <3>1 DEF Leaves
    <3>6. d # c => Leaves(d)'
      BY <3>1, <3>4, FunctorFacts, RemovalStays DEF Leaves
    <3>7. QED
      BY <3>5, <3>6
  <2>6. ASSUME NEW c \in Conns, ConnectDestroyed(l, c) PROVE Leaves(d)'
    <3>1. /\ Runs(l, "connectDestoryed", c) /\ UNCHANGED <<connections_, pending>>
          /\ \A e \in Conns : e # c => state_'[e] = state_[e]
      BY <2>6 DEF ConnectDestroyed, Destroyed, Inv, TypeOK
    <3>2. Places(l, "connectDestoryed", c) # {}
      BY <3>1, HeadPlace DEF Inv
    <3>3. l = loopOf[c]
      BY <3>2 DEF Inv, Queues, Placed
    <3>4. c \notin connections_
      BY <3>2, <3>3 DEF Inv, Queues, Custody
    <3>5. QED
      BY <3>1, <3>4, LeavesWhenRun
  <2>7. ASSUME NEW c \in Conns, ShutdownInLoop(l, c) PROVE Leaves(d)'
    <3>1. /\ Runs(l, "shutdownInLoop", c) \/ Runs(l, "lateShutdownInLoop", c)
          /\ UNCHANGED <<connections_, state_, pending>>
      BY <2>7 DEF ShutdownInLoop
    <3>2. QED
      BY <3>1, LeavesWhenRun
  <2>8. QED
    BY <1>10, <2>1, <2>2, <2>3, <2>4, <2>5, <2>6, <2>7 DEF Turn, RunFunctor
<1>11. QED
  BY <1>3, <1>4, <1>5, <1>6, <1>7, <1>8, <1>9, <1>10 DEF Next, Accept, Destructor

\* As long as a closed connection is in the server's map, its removal is on
\* its way to the base loop.
THEOREM ClosedIsRemoved == Spec => []ClosedLeavesMap
<1> DEFINE AllLeave == \A c \in Conns : Leaves(c)
<1>1. Init => AllLeave
  BY DEF Init, Leaves
<1>2. Inv /\ AllLeave /\ [Next]_vars => AllLeave'
  BY LeavesStep
<1>3. Inv /\ AllLeave => ClosedLeavesMap
  <2>1. SUFFICES ASSUME Inv, AllLeave, NEW c \in connections_, state_[c] = "kDisconnected"
                 PROVE  Functor("removeConnectionInLoop", c) \in Queued(loop_)
    BY DEF ClosedLeavesMap
  <2>2. c \in Conns
    BY <2>1 DEF Inv, TypeOK
  <2>3. Places(loop_, "removeConnectionInLoop", c) # {}
    BY <2>1, <2>2 DEF Leaves
  <2>4. QED
    BY <2>3 DEF Places, Queued, Range
<1> HIDE DEF AllLeave
<1>4. QED
  BY <1>1, <1>2, <1>3, Invariant, PTL DEF Spec
=============================================================================
