------------------------- MODULE TcpConnectionProofs -------------------------
(***************************************************************************)
(* Safety of TcpConnection, for any threads, messages and sizes.           *)
(***************************************************************************)
EXTENDS TcpConnection, SequenceTheorems, TLAPS


-----------------------------------------------------------------------------
(***************************************************************************)
(* Types.                                                                  *)
(***************************************************************************)

\* Every functor the handlers queue is one the queue may hold.
LEMMA FunctorTypes ==
  /\ \A op \in {"connectEstablished", "connectDestoryed", "shutdownInLoop",
                "writeComplete", "highWaterMark"} : Functor(op) \in Functors
  /\ \A m \in Messages : SendFunctor(m) \in Functors
  /\ \A f \in Functors : f.op = "sendInLoop" => f.message \in Messages
  /\ \A f \in Functors : f # Functor("none")
<1>1. /\ \A op : Functor(op).op = op
      /\ \A m : SendFunctor(m).op = "sendInLoop" /\ SendFunctor(m).message = m
  BY DEF Functor, SendFunctor
<1>2. QED
  BY <1>1 DEF Functors

\* A message, and what a dangling payload reads as, are sequences of bytes.
LEMMA BytesTypes ==
  /\ \A m \in Messages : Bytes(m) \in Seq(Byte) /\ Len(Bytes(m)) = MessageSize
  /\ Garbage \in Seq(Byte) /\ Len(Garbage) = MessageSize
<1> USE TcpConnectionAssumption
<1>1. ASSUME NEW m \in Messages \cup {"garbage"}
      PROVE  LET s == [i \in 1 .. MessageSize |-> <<m, i>>]
             IN  s \in Seq(Byte) /\ Len(s) = MessageSize
  <2>1. \A i \in 1 .. MessageSize : <<m, i>> \in Byte
    BY DEF Byte
  <2>2. QED
    BY <2>1
<1>2. QED
  BY <1>1 DEF Bytes, Garbage

\* What a sender passes to send is a sequence of bytes.
LEMMA PayloadTypes ==
  ASSUME NEW m \in Messages, NEW payload \in Payloads(m)
  PROVE  payload \in Seq(Byte) /\ payload # <<>>
  BY BytesTypes, TcpConnectionAssumption DEF Payloads

\* The fields of a write() under way.
LEMMA WriteTypes ==
  /\ \A by \in {"sendInLoop", "handleWrite"}, bytes \in Seq(Byte), resume \in {"loop", "event"} :
       /\ Write(by, bytes, resume) \in Writes
       /\ Write(by, bytes, resume).by = by /\ Write(by, bytes, resume).left = bytes
       /\ Write(by, bytes, resume).resume = resume
  /\ NoWrite \in Writes /\ NoWrite.by = "nobody" /\ NoWrite.left = <<>>
  /\ \A w \in Writes : /\ w.left \in Seq(Byte) /\ w.resume \in {"loop", "event"}
                       /\ w.by \in {"nobody", "sendInLoop", "handleWrite"}
  BY DEF Write, NoWrite, Writes

\* Queueing a functor and taking the first one off.
LEMMA QueueTypes ==
  ASSUME NEW queue \in Seq(Functors)
  PROVE  /\ \A f \in Functors : Append(queue, f) \in Seq(Functors)
         /\ queue # <<>> => Head(queue) \in Functors /\ Tail(queue) \in Seq(Functors)
  OBVIOUS

\* sendInLoop keeps what write() left over.
LEMMA BufferRemainderTypes ==
  ASSUME TypeOK, NEW rest \in Seq(Byte), NEW queue \in Seq(Functors),
         NEW resume \in {"loop", "event"}, BufferRemainder(rest, queue, resume)
  PROVE  /\ functors' \in Seq(Functors)
         /\ events_' \in SUBSET {"read", "write"} /\ inPoller' \in BOOLEAN
         /\ outputBuffer_' \in Seq(Byte) /\ writable' \in Nat /\ freed' \in Nat
         /\ pc' \in {"loop", "event", "undefined"}
<1>1. functors' = queue \/ functors' = Append(queue, Functor("highWaterMark"))
  BY DEF BufferRemainder
<1>2. functors' \in Seq(Functors)
  BY <1>1, QueueTypes, FunctorTypes
<1>3. outputBuffer_' \in Seq(Byte)
  BY ConcatProperties DEF BufferRemainder, AppendOutput, TypeOK
<1>4. writable' \in Nat /\ freed' \in Nat
  BY DEF BufferRemainder, AppendOutput, TypeOK
<1>5. events_' \in SUBSET {"read", "write"} /\ inPoller' \in BOOLEAN
  BY DEF BufferRemainder, SetEvents, channelVars, TypeOK
<1>6. pc' \in {"loop", "event", "undefined"}
  BY DEF BufferRemainder
<1>7. QED
  BY <1>2, <1>3, <1>4, <1>5, <1>6

\* sendInLoop keeps the types, in whatever way it is called.
LEMMA SendInLoopTypes ==
  ASSUME TypeOK, NEW payload \in Seq(Byte), NEW bytes \in Seq(Byte),
         NEW queue \in Seq(Functors), NEW resume \in {"loop", "event"},
         SendInLoop(payload, bytes, queue, resume)
  PROVE  /\ functors' \in Seq(Functors)
         /\ events_' \in SUBSET {"read", "write"} /\ inPoller' \in BOOLEAN
         /\ outputBuffer_' \in Seq(Byte) /\ writable' \in Nat /\ freed' \in Nat
         /\ given' \in Seq(Byte)
         /\ pc' \in {"loop", "event", "write", "exited", "undefined"}
         /\ syscall' \in Writes
<1>1. given \o bytes \in Seq(Byte)
  BY ConcatProperties DEF TypeOK
<1>2. CASE UNCHANGED <<outputVars, pc, syscall, given>> /\ functors' = queue
  BY <1>2 DEF TypeOK, outputVars, bufferVars, channelVars
<1>3. CASE /\ given' = given \o bytes /\ pc' = "write" /\ functors' = queue
           /\ syscall' = Write("sendInLoop", payload, resume) /\ UNCHANGED outputVars
  BY <1>1, <1>3, WriteTypes DEF TypeOK, outputVars, bufferVars, channelVars
<1>4. CASE /\ given' = given \o bytes /\ UNCHANGED syscall
           /\ BufferRemainder(payload, queue, resume)
  BY <1>1, <1>4, BufferRemainderTypes DEF TypeOK
<1>5. QED
  BY <1>2, <1>3, <1>4 DEF SendInLoop

\* A functor taken off the queue, and one that is put on it.
LEMMA QueuedTypes ==
  ASSUME TypeOK
  PROVE  /\ functors # <<>> => Next1 \in Functors /\ Tail(functors) \in Seq(Functors)
         /\ \A op \in {"connectDestoryed", "writeComplete", "highWaterMark"} :
              Append(functors, Functor(op)) \in Seq(Functors)
         /\ \A f \in Functors : Append(functors, f) \in Seq(Functors)
<1>1. functors \in Seq(Functors)
  BY DEF TypeOK
<1>2. QED
  BY <1>1, QueueTypes, FunctorTypes DEF Next1

\* handleWrite never has more left than outputBuffer_ holds.
FlushFits ==
  Writing /\ syscall.by = "handleWrite" => Len(syscall.left) <= Len(outputBuffer_)

\* Each action keeps it: nothing changes outputBuffer_ during write().
LEMMA FlushStep ==
  ASSUME TypeOK, FlushFits, [Next]_vars
  PROVE  FlushFits'
<1> USE DEF channelVars, bufferVars, outputVars, loopVars, userVars,
            kernelVars, inputVars, socketVars, callbackVars, history
<1>1. ASSUME NEW payload \in Seq(Byte), NEW bytes, NEW queue, InUserCode,
             SendInLoop(payload, bytes, queue, pc)
      PROVE  FlushFits'
  BY <1>1, WriteTypes DEF SendInLoop, BufferRemainder, InUserCode, FlushFits, Writing
<1>2. CASE \E m \in Messages : OwnSend(m)
  <2>1. PICK m \in Messages :
          InUserCode /\ SendInLoop(Bytes(m), Bytes(m), functors, pc)
    BY <1>2 DEF OwnSend
  <2>2. QED
    BY <1>1, <2>1, BytesTypes
<1>3. CASE RunSendInLoop
  <2>1. functors # <<>> /\ pc = "loop" /\ Next1.op = "sendInLoop"
    BY <1>3 DEF RunSendInLoop, Runs
  <2>2. Next1.message \in Messages
    BY <2>1, QueuedTypes, FunctorTypes
  <2>3. PICK payload \in Payloads(Next1.message) :
          SendInLoop(payload, Bytes(Next1.message), Tail(functors), pc)
    BY <1>3, <2>1 DEF RunSendInLoop
  <2>4. QED
    BY <1>1, <2>1, <2>2, <2>3, PayloadTypes DEF InUserCode
<1>4. CASE HandleWrite
  BY <1>4, WriteTypes DEF HandleWrite, FlushFits, Writing, TypeOK
<1>5. CASE KernelTakes
  <2> DEFINE n == IF room < Len(syscall.left) THEN room ELSE Len(syscall.left)
  <2>1. syscall.left \in Seq(Byte) /\ syscall \in Writes /\ outputBuffer_ \in Seq(Byte)
    BY WriteTypes DEF TypeOK
  <2>2. n \in 0 .. Len(syscall.left)
    BY <2>1, TcpConnectionAssumption DEF TypeOK
  <2> HIDE DEF n
  <2>3. /\ Writing /\ UNCHANGED <<outputBuffer_, pc>>
        /\ syscall' = [syscall EXCEPT !.left = SubSeq(syscall.left, n + 1, Len(syscall.left)),
                                      !.taken = TRUE]
    BY <1>5 DEF KernelTakes, n
  <2>4. /\ syscall'.left = SubSeq(syscall.left, n + 1, Len(syscall.left))
        /\ syscall'.by = syscall.by
    BY <2>1, <2>3 DEF Writes
  <2>5. Len(syscall'.left) <= Len(syscall.left)
    BY <2>1, <2>2, <2>4
  <2>6. Len(syscall'.left) \in Nat /\ Len(syscall.left) \in Nat /\ Len(outputBuffer_) \in Nat
    BY <2>1, <2>2, <2>4
  <2> SUFFICES ASSUME syscall'.by = "handleWrite"
               PROVE  Len(syscall'.left) <= Len(outputBuffer_')
    BY DEF FlushFits
  <2>7. Len(syscall.left) <= Len(outputBuffer_)
    BY <2>3, <2>4 DEF FlushFits
  <2>8. Len(syscall'.left) <= Len(outputBuffer_)
    BY <2>5, <2>6, <2>7
  <2>9. outputBuffer_' = outputBuffer_
    BY <2>3
  <2>10. QED
    BY <2>8, <2>9, Zenon
<1>6. CASE SendInLoopReturns \/ HandleWriteReturns
  <2>1. pc' # "write"
    BY <1>6, WriteTypes
    DEF SendInLoopReturns, HandleWriteReturns, WriteReturns, BufferRemainder, TypeOK
  <2>2. QED
    BY <2>1 DEF FlushFits, Writing
<1>7. CASE WriteFails \/ Poll \/ EventHandled
  BY <1>7 DEF WriteFails, Poll, EventHandled, FlushFits, Writing
<1>8. CASE \/ OwnShutdown \/ (\E t \in Threads : Thread(t))
           \/ ConnectEstablished \/ RunShutdownInLoop \/ RunUserCallback \/ ConnectDestroyed
           \/ HandleError \/ HandleReadData \/ HandleReadError \/ HandleClose
           \/ ServerRemoves \/ ServerDies \/ Peer \/ UNCHANGED vars
  <2>1. UNCHANGED <<outputBuffer_, pc, syscall>>
    BY <1>8
    DEF OwnShutdown, Thread, ThreadShutdown, ThreadQueues, ThreadSend, ConnectEstablished,
        RunShutdownInLoop, RunUserCallback, ConnectDestroyed, HandleError, HandleReadData,
        HandleReadError, HandleClose, ServerRemoves, ServerDies, Peer, PeerReads, PeerSends,
        PeerCloses, PeerResets, vars
  <2>2. QED
    BY <2>1 DEF FlushFits, Writing
<1>9. QED
  BY <1>2, <1>3, <1>4, <1>5, <1>6, <1>7, <1>8
  DEF Next, RunFunctor, HandleEvent, WriteStep, Own

\* Every variable keeps its type, whatever the interleaving.
THEOREM TypeCorrect == Spec => []TypeOK
<1>1. Init => TypeOK
  <2> SUFFICES ASSUME Init PROVE TypeOK
    OBVIOUS
  <2>1. functors \in Seq(Functors) /\ syscall \in Writes
    BY FunctorTypes, WriteTypes DEF Init
  <2>2. call \in [Threads -> Functors \cup {Functor("none")}]
    BY DEF Init
  <2>3. outputBuffer_ \in Seq(Byte) /\ wire \in Seq(Byte) /\ given \in Seq(Byte)
    BY DEF Init
  <2>4. room \in 0 .. SndBuf /\ inputs \in 0 .. MaxInput /\ signals \in 0 .. MaxSignals
    BY TcpConnectionAssumption DEF Init
  <2>5. writable \in Nat /\ freed \in Nat
    BY TcpConnectionAssumption DEF Init
  <2>6. QED
    BY <2>1, <2>2, <2>3, <2>4, <2>5 DEF Init, TypeOK
<1>2. ASSUME TypeOK, FlushFits, [Next]_vars PROVE TypeOK'
  <2> USE <1>2 DEF channelVars, bufferVars, outputVars, loopVars, userVars,
            kernelVars, inputVars, socketVars, callbackVars, history
  <2>1. ASSUME NEW m \in Messages, OwnSend(m) PROVE TypeOK'
    <3>1. pc \in {"loop", "event"} /\ SendInLoop(Bytes(m), Bytes(m), functors, pc)
      BY <2>1 DEF OwnSend, InUserCode
    <3>2. functors \in Seq(Functors) /\ Bytes(m) \in Seq(Byte)
      BY BytesTypes DEF TypeOK
    <3>3. /\ functors' \in Seq(Functors)
          /\ events_' \in SUBSET {"read", "write"} /\ inPoller' \in BOOLEAN
          /\ outputBuffer_' \in Seq(Byte) /\ writable' \in Nat /\ freed' \in Nat
          /\ given' \in Seq(Byte)
          /\ pc' \in {"loop", "event", "write", "exited", "undefined"}
          /\ syscall' \in Writes
      BY <3>1, <3>2, SendInLoopTypes
    <3>4. QED
      BY <2>1, <3>3 DEF OwnSend, TypeOK
  <2>2. CASE RunSendInLoop
    <3>1. Next1 \in Functors /\ Next1.op = "sendInLoop" /\ Tail(functors) \in Seq(Functors)
      BY <2>2, QueuedTypes DEF RunSendInLoop, Runs
    <3>2. Next1.message \in Messages
      BY <3>1, FunctorTypes
    <3>3. PICK payload \in Payloads(Next1.message) :
            SendInLoop(payload, Bytes(Next1.message), Tail(functors), "loop")
      BY <2>2 DEF RunSendInLoop
    <3>4. payload \in Seq(Byte) /\ Bytes(Next1.message) \in Seq(Byte)
      BY <3>2, BytesTypes, PayloadTypes
    <3>5. /\ functors' \in Seq(Functors)
          /\ events_' \in SUBSET {"read", "write"} /\ inPoller' \in BOOLEAN
          /\ outputBuffer_' \in Seq(Byte) /\ writable' \in Nat /\ freed' \in Nat
          /\ given' \in Seq(Byte)
          /\ pc' \in {"loop", "event", "write", "exited", "undefined"}
          /\ syscall' \in Writes
      BY <3>1, <3>3, <3>4, SendInLoopTypes
    <3>6. QED
      BY <2>2, <3>5 DEF RunSendInLoop, TypeOK
  <2>3. CASE OwnShutdown
    BY <2>3 DEF OwnShutdown, ShutdownInLoop, TypeOK
  <2>4. ASSUME NEW t \in Threads, Thread(t) PROVE TypeOK'
    <3>1. CASE ThreadShutdown(t)
      <4>1. call' \in [Threads -> Functors \cup {Functor("none")}]
        BY <3>1, FunctorTypes DEF ThreadShutdown, TypeOK
      <4>2. QED
        BY <3>1, <4>1 DEF ThreadShutdown, TypeOK
    <3>2. CASE ThreadQueues(t)
      <4>1. call' \in [Threads -> Functors \cup {Functor("none")}] /\ call[t] \in Functors
        BY <3>2 DEF ThreadQueues, TypeOK
      <4>2. functors' \in Seq(Functors)
        BY <3>2, <4>1, QueuedTypes DEF ThreadQueues, Queue
      <4>3. QED
        BY <3>2, <4>1, <4>2 DEF ThreadQueues, TypeOK
    <3>3. ASSUME NEW m \in Messages, ThreadSend(t, m) PROVE TypeOK'
      <4>1. call' \in [Threads -> Functors \cup {Functor("none")}]
        BY <3>3, FunctorTypes DEF ThreadSend, TypeOK
      <4>2. QED
        BY <3>3, <4>1 DEF ThreadSend, TypeOK
    <3>4. QED
      BY <2>4, <3>1, <3>2, <3>3 DEF Thread
  <2>5. CASE ConnectEstablished
    <3>1. functors' \in Seq(Functors)
      BY <2>5, QueuedTypes DEF ConnectEstablished, Runs
    <3>2. QED
      BY <2>5, <3>1 DEF ConnectEstablished, SetEvents, TypeOK
  <2>6. CASE RunShutdownInLoop
    <3>1. functors' \in Seq(Functors)
      BY <2>6, QueuedTypes DEF RunShutdownInLoop, Runs
    <3>2. QED
      BY <2>6, <3>1 DEF RunShutdownInLoop, ShutdownInLoop, TypeOK
  <2>7. CASE RunUserCallback
    <3>1. functors' \in Seq(Functors)
      BY <2>7, QueuedTypes DEF RunUserCallback, Runs
    <3>2. QED
      BY <2>7, <3>1 DEF RunUserCallback, TypeOK
  <2>8. CASE ConnectDestroyed
    <3>1. functors' \in Seq(Functors)
      BY <2>8, QueuedTypes DEF ConnectDestroyed, Runs
    <3>2. /\ state_' \in {"kDisconnected", "kConnecting", "kConnected", "kDisconnecting"}
          /\ events_' \in SUBSET {"read", "write"} /\ downs' \in Nat
      <4>1. CASE state_ = "kConnected"
        BY <2>8, <4>1 DEF ConnectDestroyed, DestroyedState, TypeOK
      <4>2. CASE UNCHANGED <<state_, events_, downs>>
        BY <4>2 DEF TypeOK
      <4>3. QED
        BY <2>8, <4>1, <4>2 DEF ConnectDestroyed, DestroyedState
    <3>3. QED
      BY <2>8, <3>1, <3>2 DEF ConnectDestroyed, TypeOK
  <2>9. CASE Poll
    BY <2>9 DEF Poll, Ready, TypeOK
  <2>10. CASE EventHandled
    BY <2>10 DEF EventHandled, TypeOK
  <2>11. CASE HandleError
    BY <2>11 DEF HandleError, TypeOK
  <2>12. CASE HandleReadData
    BY <2>12 DEF HandleReadData, Reads, TypeOK
  <2>13. CASE HandleReadError
    BY <2>13 DEF HandleReadError, Reads, TypeOK
  <2>14. CASE HandleClose
    BY <2>14 DEF HandleClose, Reads, SetEvents, TypeOK
  <2>15. CASE HandleWrite
    <3>1. syscall' \in Writes /\ pc' \in {"loop", "event", "write", "exited", "undefined"}
      BY <2>15, WriteTypes DEF HandleWrite, TypeOK
    <3>2. QED
      BY <2>15, <3>1 DEF HandleWrite, TypeOK
  <2>16. CASE KernelTakes
    <3> DEFINE n == IF room < Len(syscall.left) THEN room ELSE Len(syscall.left)
    <3>1. syscall.left \in Seq(Byte)
      BY WriteTypes DEF TypeOK
    <3>2. n \in 0 .. Len(syscall.left) /\ room - n \in 0 .. SndBuf
      BY <3>1, TcpConnectionAssumption DEF TypeOK
    <3> HIDE DEF n
    <3>3. /\ SubSeq(syscall.left, 1, n) \in Seq(Byte)
          /\ SubSeq(syscall.left, n + 1, Len(syscall.left)) \in Seq(Byte)
      BY <3>1, <3>2
    <3>4. /\ wire' = wire \o SubSeq(syscall.left, 1, n) /\ room' = room - n
          /\ syscall' = [syscall EXCEPT !.left = SubSeq(syscall.left, n + 1, Len(syscall.left)),
                                        !.taken = TRUE]
      BY <2>16 DEF KernelTakes, n
    <3>5. wire' \in Seq(Byte) /\ syscall' \in Writes
      BY <3>3, <3>4, ConcatProperties DEF TypeOK, Writes
    <3>6. QED
      BY <2>16, <3>2, <3>4, <3>5, SMTT(30) DEF KernelTakes, TypeOK
  <2>17. CASE SendInLoopReturns
    <3>1. /\ syscall.left \in Seq(Byte) /\ syscall' \in Writes
          /\ syscall.resume \in {"loop", "event"}
      BY <2>17, WriteTypes DEF SendInLoopReturns, WriteReturns, TypeOK
    <3>2. signals' \in 0 .. MaxSignals
      BY <2>17, TcpConnectionAssumption
      DEF SendInLoopReturns, WriteReturns, CutShort, CountSignal, TypeOK
    <3>3. /\ functors' \in Seq(Functors) /\ outputBuffer_' \in Seq(Byte)
          /\ writable' \in Nat /\ freed' \in Nat
          /\ pc' \in {"loop", "event", "write", "exited", "undefined"}
          /\ events_' \in SUBSET {"read", "write"} /\ inPoller' \in BOOLEAN
      <4>1. CASE Written
        BY <2>17, <3>1, <4>1, QueuedTypes DEF SendInLoopReturns, Queue, TypeOK
      <4>2. CASE ~Written
        <5>1. /\ BufferRemainder(syscall.left, functors, syscall.resume)
              /\ functors \in Seq(Functors)
          BY <2>17, <4>2 DEF SendInLoopReturns, TypeOK
        <5>2. QED
          BY <3>1, <5>1, BufferRemainderTypes
      <4>3. QED
        BY <4>1, <4>2
    <3>4. QED
      BY <2>17, <3>1, <3>2, <3>3 DEF SendInLoopReturns, TypeOK
  <2>18. CASE HandleWriteReturns
    <3>1. /\ outputBuffer_' \in Seq(Byte) /\ syscall' \in Writes
          /\ pc' \in {"loop", "event", "write", "exited", "undefined"}
      BY <2>18, WriteTypes DEF HandleWriteReturns, WriteReturns, TypeOK
    <3>2. signals' \in 0 .. MaxSignals
      BY <2>18, TcpConnectionAssumption
      DEF HandleWriteReturns, WriteReturns, CutShort, CountSignal, TypeOK
    <3>3. functors' \in Seq(Functors)
      BY <2>18, QueuedTypes DEF HandleWriteReturns, Queue, TypeOK
    <3>4. /\ events_' \in SUBSET {"read", "write"} /\ inPoller' \in BOOLEAN
          /\ finSent' \in BOOLEAN
      BY <2>18 DEF HandleWriteReturns, SetEvents, FlushedInLoop, TypeOK
    <3>5. writable' \in Nat /\ freed' \in Nat
      <4>1. /\ Len(syscall.left) \in Nat /\ Len(outputBuffer_) \in Nat
            /\ Len(syscall.left) <= Len(outputBuffer_)
        BY <1>2, <2>18, WriteTypes
        DEF HandleWriteReturns, WriteReturns, FlushFits, Writing, TypeOK
      <4>2. QED
        BY <2>18, <4>1 DEF HandleWriteReturns, TypeOK
    <3>6. QED
      BY <2>18, <3>1, <3>2, <3>3, <3>4, <3>5 DEF HandleWriteReturns, TypeOK
  <2>19. CASE WriteFails
    <3>1. signals' \in 0 .. MaxSignals
      BY <2>19, TcpConnectionAssumption DEF WriteFails, CutShort, CountSignal, TypeOK
    <3>2. QED
      BY <2>19, <3>1 DEF WriteFails, TypeOK
  <2>20. CASE ServerRemoves \/ ServerDies
    <3>1. functors' \in Seq(Functors)
      BY <2>20, QueuedTypes DEF ServerRemoves, ServerDies, Queue
    <3>2. QED
      BY <2>20, <3>1, ZenonT(30) DEF ServerRemoves, ServerDies, TypeOK
  <2>21. CASE Peer
    <3>1. CASE PeerReads
      BY <3>1, TcpConnectionAssumption, SMTT(30) DEF PeerReads, TypeOK
    <3>2. CASE PeerSends
      BY <3>2, TcpConnectionAssumption DEF PeerSends, TypeOK
    <3>3. CASE PeerCloses
      BY <3>3 DEF PeerCloses, TypeOK
    <3>4. CASE PeerResets
      BY <3>4 DEF PeerResets, TypeOK
    <3>5. QED
      BY <2>21, <3>1, <3>2, <3>3, <3>4 DEF Peer
  <2>22. CASE UNCHANGED vars
    BY <2>22 DEF vars, TypeOK
  <2>23. QED
    BY <2>1, <2>2, <2>3, <2>4, <2>5, <2>6, <2>7, <2>8, <2>9, <2>10, <2>11, <2>12,
       <2>13, <2>14, <2>15, <2>16, <2>17, <2>18, <2>19, <2>20, <2>21, <2>22
    DEF Next, RunFunctor, HandleEvent, WriteStep, Own
<1>3. Init => FlushFits
  BY DEF Init, FlushFits, Writing
<1>4. QED
  BY <1>1, <1>2, <1>3, FlushStep, PTL DEF Spec

-----------------------------------------------------------------------------
(***************************************************************************)
(* The life of the connection.                                             *)
(***************************************************************************)

NoEstablish(queue) == \A i \in DOMAIN queue : queue[i].op # "connectEstablished"

\* Before connectEstablished nobody can use the connection.
Unused ==
  /\ pc = "loop" /\ ~inPoller /\ events_ = {} /\ outputBuffer_ = <<>>
  /\ functors # <<>> /\ Next1 = Functor("connectEstablished")
  /\ NoEstablish(Tail(functors))

\* What the callbacks so far say of state_, and what cannot come any more:
\* a second connectEstablished, and reads, writes and events of a connection
\* that is down.
Life ==
  /\ downs = IF state_ = "kDisconnected" THEN 1 ELSE 0
  /\ ups = IF state_ = "kConnecting" THEN 0 ELSE 1
  /\ IF state_ = "kConnecting" THEN Unused ELSE NoEstablish(functors)
  /\ \A t \in Threads : call[t].op # "connectEstablished"
  /\ state_ = "kDisconnected" =>
       ~inPoller /\ events_ = {} /\ "in" \notin revents_ /\ pc # "write"
  /\ pc = "loop" => revents_ = {}
  /\ pc = "write" /\ syscall.resume = "loop" => revents_ = {}

\* connectEstablished is queued once: other functors, and the queue without
\* its head, add none.
LEMMA NoEstablishQueue ==
  ASSUME NEW queue \in Seq(Functors)
  PROVE  /\ NoEstablish(queue) /\ queue # <<>> => NoEstablish(Tail(queue))
         /\ \A f \in Functors : f.op # "connectEstablished" =>
              /\ NoEstablish(queue) => NoEstablish(Append(queue, f))
              /\ queue # <<>> => /\ Head(Append(queue, f)) = Head(queue)
                                 /\ Tail(Append(queue, f)) = Append(Tail(queue), f)
<1>1. ASSUME NoEstablish(queue), queue # <<>> PROVE NoEstablish(Tail(queue))
  BY <1>1 DEF NoEstablish
<1>2. ASSUME NEW f \in Functors, f.op # "connectEstablished"
      PROVE  /\ NoEstablish(queue) => NoEstablish(Append(queue, f))
             /\ queue # <<>> => /\ Head(Append(queue, f)) = Head(queue)
                                /\ Tail(Append(queue, f)) = Append(Tail(queue), f)
  <2>1. NoEstablish(queue) => NoEstablish(Append(queue, f))
    BY <1>2 DEF NoEstablish
  <2>2. ASSUME queue # <<>>
        PROVE  /\ Head(Append(queue, f)) = Head(queue)
               /\ Tail(Append(queue, f)) = Append(Tail(queue), f)
    <3>1. Len(queue) \in Nat \ {0} /\ Tail(queue) \in Seq(Functors)
      BY <2>2
    <3>2. \A i \in 1 .. Len(queue) :
            Tail(Append(queue, f))[i] = Append(Tail(queue), f)[i]
      BY <3>1, HeadTailProperties
    <3>3. Len(Tail(Append(queue, f))) = Len(Append(Tail(queue), f))
      BY <3>1
    <3>4. QED
      BY <2>2, <3>1, <3>2, <3>3
  <2>3. QED
    BY <2>1, <2>2
<1>3. QED
  BY <1>1, <1>2

\* A functor that is not connectEstablished may be queued at any time.
LEMMA LifeQueue ==
  ASSUME TypeOK, Life, NEW f \in Functors, f.op # "connectEstablished",
         functors' = Append(functors, f), 
         UNCHANGED <<state_, pc, inPoller, events_, outputBuffer_>>
  PROVE  IF state_' = "kConnecting" THEN Unused' ELSE NoEstablish(functors)'
<1>1. CASE state_ = "kConnecting"
  <2>1. functors \in Seq(Functors) /\ functors # <<>> /\ NoEstablish(Tail(functors))
    BY <1>1 DEF TypeOK, Life, Unused
  <2>2. Tail(functors) \in Seq(Functors)
    BY <2>1, QueueTypes
  <2>3. NoEstablish(Append(Tail(functors), f))
    BY <2>1, <2>2, NoEstablishQueue
  <2>4. Head(functors') = Head(functors) /\ Tail(functors') = Append(Tail(functors), f)
    BY <2>1, NoEstablishQueue
  <2>5. functors' # <<>>
    BY <2>1
  <2>6. QED
    BY <1>1, <2>3, <2>4, <2>5 DEF Life, Unused, Next1, NoEstablish
<1>2. CASE state_ # "kConnecting"
  BY <1>2, NoEstablishQueue DEF TypeOK, Life, NoEstablish
<1>3. QED
  BY <1>1, <1>2

\* sendInLoop once the connection is established: it queues no second
\* connectEstablished and leaves a connection that is down alone.
LEMMA LifeSend ==
  ASSUME TypeOK, Life, state_ # "kConnecting", pc \in {"loop", "event"},
         NEW payload \in Seq(Byte), NEW bytes, NEW queue \in Seq(Functors),
         NoEstablish(queue), SendInLoop(payload, bytes, queue, pc)
  PROVE  /\ NoEstablish(functors)'
         /\ state_ = "kDisconnected" => UNCHANGED <<inPoller, events_, pc>>
         /\ pc' \in {pc, "undefined"} \/ (pc' = "write" /\ syscall'.resume = pc)
<1>1. CASE state_ = "kDisconnected"
  BY <1>1 DEF SendInLoop, outputVars, channelVars, NoEstablish
<1>2. CASE state_ # "kDisconnected" /\ pc' = "write" /\ functors' = queue
           /\ syscall' = Write("sendInLoop", payload, pc)
  BY <1>2, WriteTypes DEF NoEstablish
<1>3. CASE state_ # "kDisconnected" /\ BufferRemainder(payload, queue, pc)
  <2>1. functors' = queue \/ functors' = Append(queue, Functor("highWaterMark"))
    BY <1>3 DEF BufferRemainder
  <2>2. Functor("highWaterMark") \in Functors
        /\ Functor("highWaterMark").op # "connectEstablished"
    BY FunctorTypes DEF Functor
  <2>3. NoEstablish(functors')
    BY <2>1, <2>2, NoEstablishQueue
  <2>4. pc' \in {pc, "undefined"}
    BY <1>3 DEF BufferRemainder
  <2>5. QED
    BY <1>3, <2>3, <2>4 DEF NoEstablish
<1>4. QED
  BY <1>1, <1>2, <1>3 DEF SendInLoop

\* Taking a functor other than connectEstablished off the queue.
LEMMA LifeDequeue ==
  ASSUME TypeOK, Life, functors # <<>>, Next1.op # "connectEstablished"
  PROVE  state_ # "kConnecting" /\ NoEstablish(Tail(functors)) /\ Tail(functors) \in Seq(Functors)
<1>1. state_ # "kConnecting"
  BY DEF Life, Unused, Functor
<1>2. QED
  BY <1>1, NoEstablishQueue, QueuedTypes DEF Life, TypeOK

\* Each action keeps the order of a connection's life.
LEMMA LifeStep ==
  ASSUME TypeOK, Life, [Next]_vars
  PROVE  Life'
<1> USE DEF channelVars, bufferVars, outputVars, loopVars, userVars,
            kernelVars, inputVars, socketVars, callbackVars, history
<1>1. ASSUME NEW m \in Messages, OwnSend(m) PROVE Life'
  <2>1. /\ state_ # "kConnecting" /\ pc \in {"loop", "event"}
        /\ SendInLoop(Bytes(m), Bytes(m), functors, pc)
        /\ functors \in Seq(Functors) /\ NoEstablish(functors) /\ Bytes(m) \in Seq(Byte)
    BY <1>1, BytesTypes DEF OwnSend, InUserCode, Life, TypeOK
  <2>2. /\ NoEstablish(functors)'
        /\ state_ = "kDisconnected" => UNCHANGED <<inPoller, events_, pc>>
        /\ pc' \in {pc, "undefined"} \/ (pc' = "write" /\ syscall'.resume = pc)
    BY <2>1, LifeSend
  <2>3. QED
    BY <1>1, <2>1, <2>2 DEF OwnSend, Life
<1>2. CASE RunSendInLoop
  <2>1. functors # <<>> /\ pc = "loop" /\ Next1.op = "sendInLoop"
    BY <1>2 DEF RunSendInLoop, Runs
  <2>2. state_ # "kConnecting" /\ NoEstablish(Tail(functors)) /\ Tail(functors) \in Seq(Functors)
    BY <2>1, LifeDequeue
  <2>3. Next1.message \in Messages
    BY <2>1, QueuedTypes, FunctorTypes
  <2>4. PICK payload \in Payloads(Next1.message) :
          SendInLoop(payload, Bytes(Next1.message), Tail(functors), pc)
    BY <1>2, <2>1 DEF RunSendInLoop
  <2>5. payload \in Seq(Byte)
    BY <2>3, PayloadTypes
  <2>6. /\ NoEstablish(functors)'
        /\ state_ = "kDisconnected" => UNCHANGED <<inPoller, events_, pc>>
        /\ pc' \in {pc, "undefined"} \/ (pc' = "write" /\ syscall'.resume = pc)
    BY <2>1, <2>2, <2>4, <2>5, LifeSend
  <2>7. QED
    BY <1>2, <2>1, <2>2, <2>6 DEF RunSendInLoop, Life
<1>3. CASE OwnShutdown
  BY <1>3 DEF OwnShutdown, Life, NoEstablish
<1>4. ASSUME NEW t \in Threads, Thread(t) PROVE Life'
  <2>1. CASE ThreadShutdown(t)
    <3>1. \A u \in Threads : call'[u].op # "connectEstablished"
      BY <2>1 DEF ThreadShutdown, Life, TypeOK, Functor
    <3>2. QED
      BY <2>1, <3>1 DEF ThreadShutdown, Life, NoEstablish
  <2>2. CASE ThreadQueues(t)
    <3>1. \A u \in Threads : call'[u].op # "connectEstablished"
      BY <2>2 DEF ThreadQueues, Life, TypeOK, Functor
    <3>2. call[t] \in Functors /\ call[t].op # "connectEstablished"
      BY <2>2 DEF ThreadQueues, Life, TypeOK
    <3>3. IF state_' = "kConnecting" THEN Unused' ELSE NoEstablish(functors)'
      BY <2>2, <3>2, LifeQueue DEF ThreadQueues, Queue
    <3>4. QED
      BY <2>2, <3>1, <3>3 DEF ThreadQueues, Life
  <2>3. ASSUME NEW m \in Messages, ThreadSend(t, m) PROVE Life'
    <3>1. \A u \in Threads : call'[u].op # "connectEstablished"
      BY <2>3 DEF ThreadSend, Life, TypeOK, SendFunctor
    <3>2. QED
      BY <2>3, <3>1 DEF ThreadSend, Life, NoEstablish
  <2>4. QED
    BY <1>4, <2>1, <2>2, <2>3 DEF Thread
<1>5. CASE ConnectEstablished
  <2>1. functors \in Seq(Functors) /\ functors # <<>> /\ functors[1].op = "connectEstablished"
    BY <1>5 DEF ConnectEstablished, Runs, Next1, TypeOK
  <2>2. ~NoEstablish(functors)
    BY <2>1 DEF NoEstablish
  <2>3. state_ = "kConnecting" /\ NoEstablish(Tail(functors))
    BY <2>2 DEF Life, Unused
  <2>4. QED
    BY <1>5, <2>3 DEF ConnectEstablished, Runs, Life, Unused, SetEvents, NoEstablish
<1>6. CASE RunShutdownInLoop \/ RunUserCallback
  <2>1. functors # <<>> /\ Next1.op # "connectEstablished"
    BY <1>6 DEF RunShutdownInLoop, RunUserCallback, Runs
  <2>2. state_ # "kConnecting" /\ NoEstablish(Tail(functors))
    BY <2>1, LifeDequeue
  <2>3. functors' = Tail(functors)
        /\ UNCHANGED <<state_, outputVars, loopVars, userVars, history>>
    BY <1>6 DEF RunShutdownInLoop, RunUserCallback
  <2>4. QED
    BY <2>2, <2>3 DEF Life, NoEstablish
<1>7. CASE ConnectDestroyed
  <2>1. functors # <<>> /\ Next1.op # "connectEstablished" /\ pc = "loop"
    BY <1>7 DEF ConnectDestroyed, Runs
  <2>2. state_ # "kConnecting" /\ NoEstablish(functors)'
    BY <1>7, <2>1, LifeDequeue DEF ConnectDestroyed, NoEstablish
  <2>3. CASE state_ = "kConnected"
    BY <1>7, <2>1, <2>2, <2>3 DEF ConnectDestroyed, DestroyedState, Life
  <2>4. CASE state_ # "kConnected"
    BY <1>7, <2>1, <2>2, <2>4 DEF ConnectDestroyed, DestroyedState, Life
  <2>5. QED
    BY <2>3, <2>4
<1>8. CASE Poll
  BY <1>8 DEF Poll, Ready, Life, Unused, NoEstablish
<1>9. CASE HandleError \/ HandleReadData \/ HandleReadError
  BY <1>9 DEF HandleError, HandleReadData, HandleReadError, Reads, Life, Unused, NoEstablish
<1>10. CASE HandleClose
  <2>1. state_ \notin {"kConnecting", "kDisconnected"} /\ NoEstablish(functors)
    BY <1>10 DEF HandleClose, Reads, Life, Unused
  <2>2. /\ state_' = "kDisconnected" /\ downs' = downs + 1 /\ pc' = "event"
        /\ ~inPoller' /\ events_' = {} /\ "in" \notin revents_'
        /\ UNCHANGED <<functors, call, ups>>
    BY <1>10 DEF HandleClose, Reads, SetEvents
  <2>3. QED
    BY <2>1, <2>2 DEF Life, NoEstablish
<1>11. CASE HandleWrite
  BY <1>11, WriteTypes DEF HandleWrite, Life, Unused, NoEstablish, TypeOK
<1>12. CASE EventHandled
  BY <1>12 DEF EventHandled, Life, Unused, NoEstablish
<1>13. CASE KernelTakes
  <2>1. pc = "write" /\ syscall'.resume = syscall.resume
    BY <1>13 DEF KernelTakes, Writing, TypeOK, Writes
  <2>2. UNCHANGED <<state_, outputVars, pc, revents_, functors, userVars, history>>
    BY <1>13 DEF KernelTakes
  <2>3. QED
    BY <2>1, <2>2 DEF Life, Unused, NoEstablish
<1>14. CASE SendInLoopReturns \/ HandleWriteReturns
  <2>1. /\ pc = "write" /\ pc' \in {syscall.resume, "undefined"}
        /\ syscall.resume \in {"loop", "event"}
        /\ syscall.left \in Seq(Byte)
        /\ UNCHANGED <<state_, revents_, userVars, history>>
    BY <1>14, WriteTypes
    DEF SendInLoopReturns, HandleWriteReturns, WriteReturns, Writing, BufferRemainder, TypeOK
  <2>2. state_ # "kConnecting" /\ state_ # "kDisconnected" /\ NoEstablish(functors)
    BY <2>1 DEF Life, Unused
  <2>3. \/ functors' = functors \/ functors' = Append(functors, Functor("writeComplete"))
        \/ functors' = Append(functors, Functor("highWaterMark"))
    BY <1>14 DEF SendInLoopReturns, HandleWriteReturns, Queue, BufferRemainder
  <2>4. NoEstablish(functors')
    <3>1. ASSUME NEW op \in {"writeComplete", "highWaterMark"}
          PROVE  Functor(op) \in Functors /\ Functor(op).op # "connectEstablished"
      BY <3>1, FunctorTypes DEF Functor
    <3>2. QED
      BY <2>2, <2>3, <3>1, NoEstablishQueue DEF TypeOK
  <2>5. QED
    BY <2>1, <2>2, <2>4, SMTT(30) DEF Life, NoEstablish
<1>15. CASE WriteFails
  BY <1>15 DEF WriteFails, Writing, Life, Unused, NoEstablish
<1>16. CASE ServerRemoves \/ ServerDies
  <2>1. /\ functors' = Append(functors, Functor("connectDestoryed"))
        /\ UNCHANGED <<state_, outputVars, loopVars, call, history>>
    BY <1>16 DEF ServerRemoves, ServerDies, Queue
  <2>2. IF state_' = "kConnecting" THEN Unused' ELSE NoEstablish(functors)'
    <3>1. Functor("connectDestoryed") \in Functors
          /\ Functor("connectDestoryed").op # "connectEstablished"
      BY FunctorTypes DEF Functor
    <3>2. QED
      BY <2>1, <3>1, LifeQueue
  <2>3. QED
    BY <2>1, <2>2 DEF Life
<1>17. CASE Peer \/ UNCHANGED vars
  <2>1. UNCHANGED <<state_, events_, inPoller, outputBuffer_, pc, revents_, syscall,
                    functors, call, ups, downs>>
    BY <1>17 DEF Peer, PeerReads, PeerSends, PeerCloses, PeerResets, vars
  <2>2. QED
    BY <2>1 DEF Life, Unused, Next1, NoEstablish
<1>18. QED
  BY <1>1, <1>2, <1>3, <1>4, <1>5, <1>6, <1>7, <1>8, <1>9, <1>10, <1>11, <1>12,
     <1>13, <1>14, <1>15, <1>16, <1>17
  DEF Next, RunFunctor, HandleEvent, WriteStep, Own

\* The first inductive invariant: types and the life of the connection.
LEMMA LifeInvariant == Spec => []Life
<1>1. Init => Life
  BY DEF Init, Life, Unused, Next1, Functor, NoEstablish
<1>2. QED
  BY <1>1, LifeStep, TypeCorrect, PTL DEF Spec

\* The connection callback reports the connection up once and down at most
\* once, and never down before up.
THEOREM CallbacksOnce == Spec => []UpOnceDownOnce
<1>1. Life => UpOnceDownOnce
  BY DEF Life, UpOnceDownOnce
<1>2. QED
  BY <1>1, LifeInvariant, PTL

\* Once the user was told that the connection is down, the poller does not
\* watch its channel, whatever functors are still queued.
THEOREM DownIsUnwatched == Spec => []UnwatchedAfterDown
<1>1. Life => UnwatchedAfterDown
  BY DEF Life, UnwatchedAfterDown
<1>2. QED
  BY <1>1, LifeInvariant, PTL

\* The message callback runs only between the up and the down callback.
THEOREM MessagesBetween == Spec => MessagesWhileUp
<1>1. ASSUME TypeOK, Life, [Next]_vars
      PROVE  [delivered' # delivered => ups = 1 /\ downs = 0]_vars
  <2> SUFFICES ASSUME delivered' # delivered PROVE ups = 1 /\ downs = 0
    OBVIOUS
  <2> USE DEF history, callbackVars
  <2>1. HandleReadData
    <3>1. \A m \in Messages : ~OwnSend(m)
      BY DEF OwnSend
    <3>2. \A t \in Threads : ~Thread(t)
      BY DEF Thread, ThreadShutdown, ThreadQueues, ThreadSend
    <3>3. ~RunFunctor
      BY DEF RunFunctor, ConnectEstablished, RunSendInLoop, RunShutdownInLoop,
             RunUserCallback, ConnectDestroyed
    <3>4. ~WriteStep /\ ~WriteFails
      BY DEF WriteStep, KernelTakes, SendInLoopReturns, HandleWriteReturns, WriteFails
    <3>5. ~OwnShutdown /\ ~Poll /\ ~ServerRemoves /\ ~ServerDies
      BY DEF OwnShutdown, Poll, ServerRemoves, ServerDies
    <3>6. ~Peer
      BY DEF Peer, PeerReads, PeerSends, PeerCloses, PeerResets
    <3>7. HandleEvent => HandleReadData
      BY DEF HandleEvent, HandleError, HandleReadError, HandleClose, HandleWrite, EventHandled
    <3>8. QED
      BY <1>1, <3>1, <3>2, <3>3, <3>4, <3>5, <3>6, <3>7 DEF Next, Own, vars
  <2>2. pc = "event" /\ "in" \in revents_
    BY <2>1 DEF HandleReadData, Reads
  <2>3. state_ \notin {"kConnecting", "kDisconnected"}
    BY <1>1, <2>2 DEF Life, Unused
  <2>4. QED
    BY <1>1, <2>3 DEF Life
<1>2. QED
  BY <1>1, TypeCorrect, LifeInvariant, PTL DEF Spec, MessagesWhileUp

-----------------------------------------------------------------------------
(***************************************************************************)
(* What is still to be written.                                            *)
(***************************************************************************)

\* Outside write() outputBuffer_ and the interest in writing go together; a
\* sendInLoop that writes found both empty, a handleWrite found the interest.
Output ==
  /\ WaitingBytesAreWatched
  /\ Writing => syscall.by \in {"sendInLoop", "handleWrite"}
  /\ Writing /\ syscall.by = "sendInLoop" => "write" \notin events_ /\ outputBuffer_ = <<>>
  /\ Writing /\ syscall.by = "handleWrite" => "write" \in events_

\* A remainder is kept together with the interest in writing.
LEMMA RemainderWatched ==
  ASSUME TypeOK, NEW rest \in Seq(Byte), rest # <<>>, NEW queue, NEW resume,
         BufferRemainder(rest, queue, resume)
  PROVE  "write" \in events_' /\ outputBuffer_' # <<>>
<1>1. outputBuffer_ \o rest # <<>>
  BY DEF TypeOK
<1>2. QED
  BY <1>1 DEF BufferRemainder, AppendOutput, SetEvents, channelVars

\* A send keeps the invariant of the output: what the socket does not take is
\* buffered and watched for.
LEMMA OutputSend ==
  ASSUME TypeOK, Output, state_ # "kConnecting", UNCHANGED state_, pc \in {"loop", "event"},
         NEW payload \in Seq(Byte), payload # <<>>, NEW bytes, NEW queue,
         SendInLoop(payload, bytes, queue, pc)
  PROVE  Output'
<1>1. CASE UNCHANGED <<outputVars, pc, syscall>>
  BY <1>1 DEF Output, WaitingBytesAreWatched, InUserCode, Writing, outputVars,
      bufferVars, channelVars
<1>2. CASE /\ pc' = "write" /\ syscall' = Write("sendInLoop", payload, pc)
           /\ "write" \notin events_ /\ outputBuffer_ = <<>> /\ UNCHANGED outputVars
  BY <1>2, WriteTypes
  DEF Output, WaitingBytesAreWatched, InUserCode, Writing, outputVars,
      bufferVars, channelVars
<1>3. CASE UNCHANGED syscall /\ BufferRemainder(payload, queue, pc)
  <2>1. "write" \in events_' /\ outputBuffer_' # <<>> /\ pc' \in {pc, "undefined"}
    BY <1>3, RemainderWatched DEF BufferRemainder
  <2>2. QED
    BY <1>3, <2>1 DEF Output, WaitingBytesAreWatched, InUserCode, Writing
<1>4. QED
  BY <1>1, <1>2, <1>3 DEF SendInLoop

\* Each action keeps the invariant of the output.
LEMMA OutputStep ==
  ASSUME TypeOK, Life, Output, [Next]_vars
  PROVE  Output'
<1> USE DEF channelVars, bufferVars, outputVars, loopVars, userVars,
            kernelVars, inputVars, socketVars, callbackVars, history
<1>1. ASSUME NEW m \in Messages, OwnSend(m) PROVE Output'
  <2>1. /\ state_ # "kConnecting" /\ pc \in {"loop", "event"} /\ UNCHANGED state_
        /\ SendInLoop(Bytes(m), Bytes(m), functors, pc)
    BY <1>1 DEF OwnSend, InUserCode
  <2>2. Bytes(m) \in Seq(Byte) /\ Bytes(m) # <<>>
    BY BytesTypes, TcpConnectionAssumption
  <2>3. QED
    BY <2>1, <2>2, OutputSend
<1>2. CASE RunSendInLoop
  <2>1. /\ functors # <<>> /\ pc = "loop" /\ Next1.op = "sendInLoop" /\ UNCHANGED state_
    BY <1>2 DEF RunSendInLoop, Runs
  <2>2. state_ # "kConnecting" /\ Next1.message \in Messages
    BY <2>1, LifeDequeue, QueuedTypes, FunctorTypes
  <2>3. PICK payload \in Payloads(Next1.message) :
          SendInLoop(payload, Bytes(Next1.message), Tail(functors), pc)
    BY <1>2, <2>1 DEF RunSendInLoop
  <2>4. payload \in Seq(Byte) /\ payload # <<>>
    BY <2>2, PayloadTypes
  <2>5. QED
    BY <2>1, <2>2, <2>3, <2>4, OutputSend
<1>3. CASE OwnShutdown \/ \E t \in Threads : Thread(t)
  <2>1. UNCHANGED <<outputVars, pc, syscall>>
    BY <1>3 DEF OwnShutdown, Thread, ThreadShutdown, ThreadQueues, ThreadSend
  <2>2. state_' = state_ \/ (state_ = "kConnected" /\ state_' = "kDisconnecting")
    BY <1>3 DEF OwnShutdown, Thread, ThreadShutdown, ThreadQueues, ThreadSend
  <2>3. QED
    BY <2>1, <2>2 DEF Output, WaitingBytesAreWatched, InUserCode, Writing
<1>4. CASE ConnectEstablished
  <2>1. functors \in Seq(Functors) /\ functors # <<>> /\ functors[1].op = "connectEstablished"
    BY <1>4 DEF ConnectEstablished, Runs, Next1, TypeOK
  <2>2. ~NoEstablish(functors)
    BY <2>1 DEF NoEstablish
  <2>3. pc = "loop" /\ events_ = {} /\ outputBuffer_ = <<>>
    BY <2>2 DEF Life, Unused
  <2>4. QED
    BY <1>4, <2>3 DEF ConnectEstablished, SetEvents, Output, WaitingBytesAreWatched, Writing
<1>5. CASE ConnectDestroyed
  <2>1. pc = "loop" /\ UNCHANGED <<pc, outputBuffer_>>
    BY <1>5 DEF ConnectDestroyed, Runs
  <2>2. state_' = "kDisconnected" \/ UNCHANGED <<state_, events_>>
    BY <1>5 DEF ConnectDestroyed, DestroyedState
  <2>3. QED
    BY <2>1, <2>2 DEF Output, WaitingBytesAreWatched, InUserCode, Writing
<1>6. CASE HandleClose
  BY <1>6 DEF HandleClose, Reads, Output, WaitingBytesAreWatched, Writing
<1>7. CASE HandleWrite
  <2>1. CASE "write" \in events_
    BY <1>7, <2>1, WriteTypes
    DEF HandleWrite, Output, WaitingBytesAreWatched, InUserCode, Writing, TypeOK
  <2>2. CASE "write" \notin events_
    BY <1>7, <2>2 DEF HandleWrite, Output, WaitingBytesAreWatched, InUserCode, Writing
  <2>3. QED
    BY <2>1, <2>2
<1>8. CASE KernelTakes
  <2>1. syscall'.by = syscall.by
    BY <1>8 DEF KernelTakes, TypeOK, Writes
  <2>2. pc = "write" /\ UNCHANGED <<state_, outputVars, pc>>
    BY <1>8 DEF KernelTakes, Writing
  <2>3. QED
    BY <2>1, <2>2 DEF Output, WaitingBytesAreWatched, InUserCode, Writing
<1>9. CASE SendInLoopReturns
  <2>1. /\ syscall.left \in Seq(Byte) /\ pc' # "write"
        /\ "write" \notin events_ /\ outputBuffer_ = <<>>
    BY <1>9, WriteTypes
    DEF SendInLoopReturns, WriteReturns, BufferRemainder, Output, Writing, TypeOK
  <2>2. CASE Written
    BY <1>9, <2>1, <2>2 DEF SendInLoopReturns, Output, WaitingBytesAreWatched, Writing
  <2>3. CASE ~Written
    <3>1. BufferRemainder(syscall.left, functors, syscall.resume) /\ syscall.left # <<>>
      BY <1>9, <2>3 DEF SendInLoopReturns, Written
    <3>2. "write" \in events_' /\ outputBuffer_' # <<>>
      BY <2>1, <3>1, RemainderWatched
    <3>3. QED
      BY <2>1, <3>2 DEF Output, WaitingBytesAreWatched, Writing
  <2>4. QED
    BY <2>2, <2>3
<1>10. CASE HandleWriteReturns
  <2>1. "write" \in events_ /\ pc' # "write"
    BY <1>10, WriteTypes DEF HandleWriteReturns, WriteReturns, Output, Writing, TypeOK
  <2>2. CASE Written
    BY <1>10, <2>1, <2>2
    DEF HandleWriteReturns, SetEvents, Written, Output, WaitingBytesAreWatched, Writing
  <2>3. CASE ~Written
    BY <1>10, <2>1, <2>3
    DEF HandleWriteReturns, Written, Output, WaitingBytesAreWatched, Writing
  <2>4. QED
    BY <2>2, <2>3
<1>11. CASE WriteFails
  BY <1>11 DEF WriteFails, Output, WaitingBytesAreWatched, InUserCode, Writing
<1>12. CASE Poll \/ EventHandled
  BY <1>12
  DEF Poll, EventHandled, Output, WaitingBytesAreWatched, InUserCode, Writing
<1>13. CASE \/ RunShutdownInLoop \/ RunUserCallback
            \/ HandleError \/ HandleReadData \/ HandleReadError
            \/ ServerRemoves \/ ServerDies \/ Peer \/ UNCHANGED vars
  <2>1. UNCHANGED <<state_, outputVars, pc, syscall>>
    BY <1>13
    DEF RunShutdownInLoop, RunUserCallback, HandleError, HandleReadData, HandleReadError,
        ServerRemoves, ServerDies, Peer, PeerReads, PeerSends, PeerCloses, PeerResets, vars
  <2>2. QED
    BY <2>1 DEF Output, WaitingBytesAreWatched, InUserCode, Writing
<1>14. QED
  BY <1>1, <1>2, <1>3, <1>4, <1>5, <1>6, <1>7, <1>8, <1>9, <1>10, <1>11, <1>12, <1>13
  DEF Next, RunFunctor, HandleEvent, WriteStep, Own

\* The second inductive invariant: the life and the output of the connection.
LEMMA OutputInvariant == Spec => []Output
<1>1. Init => Output
  BY DEF Init, Output, WaitingBytesAreWatched, Writing
<1>2. QED
  BY <1>1, OutputStep, TypeCorrect, LifeInvariant, PTL DEF Spec

\* Bytes wait in outputBuffer_ exactly when the poller is asked to report that
\* the socket can be written.
THEOREM BytesWatched == Spec => []WaitingBytesAreWatched
<1>1. Output => WaitingBytesAreWatched
  BY DEF Output
<1>2. QED
  BY <1>1, OutputInvariant, PTL

\* The write side is shut down only when nothing accepted is left to write,
\* unless the connection is down.
THEOREM FinIsLast == Spec => FinAfterData
<1>1. ASSUME TypeOK, Life, Output, [Next]_vars
      PROVE  [finSent' /\ ~finSent => Pending = <<>> \/ state_ = "kDisconnected"]_vars
  <2> SUFFICES ASSUME finSent', ~finSent PROVE Pending = <<>> \/ state_ = "kDisconnected"
    OBVIOUS
  <2> USE DEF socketVars, kernelVars
  <2>1. OwnShutdown \/ RunShutdownInLoop \/ HandleWriteReturns
    <3>1. \A m \in Messages : ~OwnSend(m)
      BY DEF OwnSend
    <3>2. \A t \in Threads : ~Thread(t)
      BY DEF Thread, ThreadShutdown, ThreadQueues, ThreadSend
    <3>3. ~ConnectEstablished /\ ~RunSendInLoop /\ ~RunUserCallback /\ ~ConnectDestroyed
      BY DEF ConnectEstablished, RunSendInLoop, RunUserCallback, ConnectDestroyed
    <3>4. ~KernelTakes /\ ~SendInLoopReturns /\ ~WriteFails
      BY DEF KernelTakes, SendInLoopReturns, WriteFails
    <3>5. ~Poll /\ ~ServerRemoves /\ ~ServerDies
      BY DEF Poll, ServerRemoves, ServerDies
    <3>6. ~Peer
      BY DEF Peer, PeerReads, PeerSends, PeerCloses, PeerResets
    <3>7. ~HandleEvent
      BY DEF HandleEvent, HandleError, HandleReadData, HandleReadError, HandleClose,
             HandleWrite, EventHandled
    <3>8. QED
      BY <1>1, <3>1, <3>2, <3>3, <3>4, <3>5, <3>6, <3>7
      DEF Next, Own, RunFunctor, WriteStep, vars
  <2>2. CASE OwnShutdown
    BY <1>1, <2>2
    DEF OwnShutdown, ShutdownInLoop, Output, WaitingBytesAreWatched, InUserCode, Writing, Pending
  <2>3. CASE RunShutdownInLoop
    <3>1. functors # <<>> /\ Next1.op = "shutdownInLoop" /\ pc = "loop" /\ "write" \notin events_
      BY <2>3 DEF RunShutdownInLoop, ShutdownInLoop, Runs
    <3>2. state_ # "kConnecting"
      BY <1>1, <3>1, LifeDequeue
    <3>3. QED
      BY <1>1, <3>1, <3>2
      DEF Output, WaitingBytesAreWatched, InUserCode, Writing, Pending, TypeOK
  <2>4. CASE HandleWriteReturns
    BY <2>4 DEF HandleWriteReturns, WriteReturns, Writing, Written, Pending
  <2>5. QED
    BY <2>1, <2>2, <2>3, <2>4
<1>2. QED
  BY <1>1, TypeCorrect, LifeInvariant, OutputInvariant, PTL DEF Spec, FinAfterData

-----------------------------------------------------------------------------
(***************************************************************************)
(* A shutdown is carried through: what a connection still has to do is     *)
(* somewhere in its queues or in the poller's hands.                       *)
(***************************************************************************)

NoDestroy(queue) == \A i \in DOMAIN queue : queue[i].op # "connectDestoryed"
HoldsShutdown(queue) == \E i \in DOMAIN queue : queue[i].op = "shutdownInLoop"

\* As long as the server holds the connection the poller watches its channel
\* exactly when there is interest: only connectDestoryed separates the two,
\* and it is queued by a server that let the connection go.
Attached ==
  /\ \A t \in Threads : call[t].op # "connectDestoryed"
  /\ server # "gone" => NoDestroy(functors) /\ (inPoller <=> events_ # {})

\* What a queue holds when a functor is put on it or taken off it.
LEMMA HeldQueue ==
  ASSUME NEW queue \in Seq(Functors)
  PROVE  /\ NoDestroy(queue) /\ queue # <<>> => NoDestroy(Tail(queue))
         /\ \A f \in Functors : f.op # "connectDestoryed" /\ NoDestroy(queue) =>
              NoDestroy(Append(queue, f))
         /\ HoldsShutdown(queue) /\ queue # <<>> /\ Head(queue).op # "shutdownInLoop" =>
              HoldsShutdown(Tail(queue))
         /\ \A f \in Functors : HoldsShutdown(queue) \/ f.op = "shutdownInLoop" =>
              HoldsShutdown(Append(queue, f))
<1>1. ASSUME NoDestroy(queue), queue # <<>> PROVE NoDestroy(Tail(queue))
  BY <1>1 DEF NoDestroy
<1>2. ASSUME NEW f \in Functors, f.op # "connectDestoryed", NoDestroy(queue)
      PROVE  NoDestroy(Append(queue, f))
  BY <1>2 DEF NoDestroy
<1>3. ASSUME HoldsShutdown(queue), queue # <<>>, Head(queue).op # "shutdownInLoop"
      PROVE  HoldsShutdown(Tail(queue))
  <2>1. PICK i \in DOMAIN queue : queue[i].op = "shutdownInLoop"
    BY <1>3 DEF HoldsShutdown
  <2>2. i # 1 /\ i \in 1 .. Len(queue)
    BY <1>3, <2>1
  <2>3. i - 1 \in DOMAIN Tail(queue) /\ Tail(queue)[i - 1] = queue[i]
    BY <1>3, <2>2
  <2>4. QED
    BY <2>1, <2>3 DEF HoldsShutdown
<1>4. ASSUME NEW f \in Functors, HoldsShutdown(queue)
      PROVE  HoldsShutdown(Append(queue, f))
  <2>1. PICK i \in DOMAIN queue : queue[i].op = "shutdownInLoop"
    BY <1>4 DEF HoldsShutdown
  <2>2. i \in DOMAIN Append(queue, f) /\ Append(queue, f)[i] = queue[i]
    BY <2>1
  <2>3. QED
    BY <2>1, <2>2 DEF HoldsShutdown
<1>5. ASSUME NEW f \in Functors, f.op = "shutdownInLoop"
      PROVE  HoldsShutdown(Append(queue, f))
  <2>1. /\ Len(queue) + 1 \in DOMAIN Append(queue, f)
        /\ Append(queue, f)[Len(queue) + 1] = f
    OBVIOUS
  <2>2. QED
    BY <1>5, <2>1 DEF HoldsShutdown
<1>6. QED
  BY <1>1, <1>2, <1>3, <1>4, <1>5

\* sendInLoop keeps the functors of the queue it is left with, gives up no
\* interest, and has the poller follow what it adds.
LEMMA HeldRemainder ==
  ASSUME NEW rest, NEW queue \in Seq(Functors), NEW resume,
         BufferRemainder(rest, queue, resume)
  PROVE  /\ NoDestroy(queue) => NoDestroy(functors)'
         /\ HoldsShutdown(queue) => HoldsShutdown(functors)'
         /\ UNCHANGED channelVars \/ ("write" \in events_' /\ inPoller')
<1>1. functors' = queue \/ functors' = Append(queue, Functor("highWaterMark"))
  BY DEF BufferRemainder
<1>2. Functor("highWaterMark") \in Functors /\ Functor("highWaterMark").op = "highWaterMark"
  BY FunctorTypes DEF Functor
<1>3. /\ NoDestroy(queue) => NoDestroy(functors')
      /\ HoldsShutdown(queue) => HoldsShutdown(functors')
  BY <1>1, <1>2, HeldQueue
<1>4. QED
  BY <1>3 DEF BufferRemainder, SetEvents, NoDestroy, HoldsShutdown

LEMMA HeldSend ==
  ASSUME NEW payload, NEW bytes, NEW queue \in Seq(Functors), NEW resume,
         SendInLoop(payload, bytes, queue, resume)
  PROVE  /\ NoDestroy(queue) => NoDestroy(functors)'
         /\ HoldsShutdown(queue) => HoldsShutdown(functors)'
         /\ UNCHANGED channelVars \/ ("write" \in events_' /\ inPoller')
<1>1. CASE functors' = queue /\ UNCHANGED outputVars
  BY <1>1 DEF outputVars, NoDestroy, HoldsShutdown
<1>2. CASE BufferRemainder(payload, queue, resume)
  BY <1>2, HeldRemainder
<1>3. QED
  BY <1>1, <1>2 DEF SendInLoop

\* What every step keeps, but those that establish the connection, shut it
\* down, flush its output or take it off the server's hands.
LEMMA HeldStep ==
  ASSUME TypeOK, Life,
         \/ \E m \in Messages : OwnSend(m)
         \/ RunSendInLoop \/ RunUserCallback
         \/ SendInLoopReturns
  PROVE  /\ UNCHANGED <<state_, call, server, finSent>>
         /\ NoDestroy(functors) => NoDestroy(functors)'
         /\ HoldsShutdown(functors) => HoldsShutdown(functors)'
         /\ UNCHANGED channelVars \/ ("write" \in events_' /\ inPoller')
<1> USE DEF outputVars, loopVars, userVars, kernelVars, socketVars
<1>0. functors \in Seq(Functors)
  BY DEF TypeOK
<1>1. ASSUME NEW m \in Messages, OwnSend(m)
      PROVE  /\ UNCHANGED <<state_, call, server, finSent>>
             /\ SendInLoop(Bytes(m), Bytes(m), functors, pc)
  BY <1>1 DEF OwnSend
<1>2. CASE RunSendInLoop
  <2>1. /\ functors # <<>> /\ Head(functors).op = "sendInLoop"
        /\ UNCHANGED <<state_, call, server, finSent>>
    BY <1>2 DEF RunSendInLoop, Runs, Next1
  <2>2. PICK payload : SendInLoop(payload, Bytes(Next1.message), Tail(functors), "loop")
    BY <1>2 DEF RunSendInLoop
  <2>3. Tail(functors) \in Seq(Functors)
    BY <1>0, <2>1, QueueTypes
  <2>4. /\ NoDestroy(functors) => NoDestroy(Tail(functors))
        /\ HoldsShutdown(functors) => HoldsShutdown(Tail(functors))
    BY <1>0, <2>1, HeldQueue
  <2>5. QED
    BY <2>1, <2>2, <2>3, <2>4, HeldSend
<1>3. CASE RunUserCallback
  <2>1. /\ functors # <<>> /\ functors' = Tail(functors)
        /\ Head(functors).op \in {"writeComplete", "highWaterMark"}
        /\ UNCHANGED <<state_, call, server, finSent, channelVars>>
    BY <1>3 DEF RunUserCallback, Runs, Next1
  <2>2. /\ NoDestroy(functors) => NoDestroy(functors')
        /\ HoldsShutdown(functors) => HoldsShutdown(functors')
    BY <1>0, <2>1, HeldQueue
  <2>3. QED
    BY <2>1, <2>2 DEF NoDestroy, HoldsShutdown
<1>4. CASE SendInLoopReturns
  <2>1. UNCHANGED <<state_, call, server, finSent>>
    BY <1>4 DEF SendInLoopReturns
  <2>2. CASE functors' = Append(functors, Functor("writeComplete")) /\ UNCHANGED channelVars
    <3>1. Functor("writeComplete") \in Functors
          /\ Functor("writeComplete").op = "writeComplete"
      BY FunctorTypes DEF Functor
    <3>2. /\ NoDestroy(functors) => NoDestroy(functors')
          /\ HoldsShutdown(functors) => HoldsShutdown(functors')
      BY <1>0, <2>2, <3>1, HeldQueue
    <3>3. QED
      BY <2>1, <2>2, <3>2 DEF NoDestroy, HoldsShutdown
  <2>3. CASE BufferRemainder(syscall.left, functors, syscall.resume)
    BY <1>0, <2>1, <2>3, HeldRemainder
  <2>4. QED
    BY <1>4, <2>2, <2>3 DEF SendInLoopReturns, Queue
<1>5. QED
  BY <1>0, <1>1, <1>2, <1>3, <1>4, HeldSend

\* Each action keeps the connection attached to the poller.
LEMMA AttachedStep ==
  ASSUME TypeOK, Life, Attached, [Next]_vars
  PROVE  Attached'
<1> USE DEF channelVars, bufferVars, outputVars, loopVars, userVars,
            kernelVars, inputVars, socketVars, callbackVars, history
<1>0. functors \in Seq(Functors)
  BY DEF TypeOK
<1>1. CASE \/ \E m \in Messages : OwnSend(m)
           \/ RunSendInLoop \/ RunUserCallback
           \/ SendInLoopReturns
  <2>1. /\ UNCHANGED <<call, server>>
        /\ NoDestroy(functors) => NoDestroy(functors)'
        /\ UNCHANGED channelVars \/ ("write" \in events_' /\ inPoller')
    BY <1>1, HeldStep
  <2>2. QED
    BY <2>1 DEF Attached
<1>2. CASE OwnShutdown
  BY <1>2 DEF OwnShutdown, Attached, NoDestroy
<1>3. ASSUME NEW t \in Threads, Thread(t) PROVE Attached'
  <2>1. CASE ThreadShutdown(t)
    <3>1. \A u \in Threads : call'[u].op # "connectDestoryed"
      BY <2>1 DEF ThreadShutdown, Attached, TypeOK, Functor
    <3>2. QED
      BY <2>1, <3>1 DEF ThreadShutdown, Attached, NoDestroy
  <2>2. CASE ThreadQueues(t)
    <3>1. \A u \in Threads : call'[u].op # "connectDestoryed"
      BY <2>2 DEF ThreadQueues, Attached, TypeOK, Functor
    <3>2. call[t] \in Functors /\ call[t].op # "connectDestoryed"
      BY <2>2 DEF ThreadQueues, Attached, TypeOK
    <3>3. functors' = Append(functors, call[t]) /\ UNCHANGED <<server, channelVars>>
      BY <2>2 DEF ThreadQueues, Queue
    <3>4. NoDestroy(functors) => NoDestroy(functors')
      BY <1>0, <3>2, <3>3, HeldQueue
    <3>5. QED
      BY <3>1, <3>3, <3>4 DEF Attached, NoDestroy
  <2>3. ASSUME NEW m \in Messages, ThreadSend(t, m) PROVE Attached'
    <3>1. \A u \in Threads : call'[u].op # "connectDestoryed"
      BY <2>3 DEF ThreadSend, Attached, TypeOK, SendFunctor
    <3>2. QED
      BY <2>3, <3>1 DEF ThreadSend, Attached, NoDestroy
  <2>4. QED
    BY <1>3, <2>1, <2>2, <2>3 DEF Thread
<1>4. CASE ConnectEstablished \/ RunShutdownInLoop
  <2>1. /\ functors # <<>> /\ functors' = Tail(functors)
        /\ UNCHANGED <<call, server>>
        /\ UNCHANGED channelVars \/ SetEvents(events_ \cup {"read"})
    BY <1>4 DEF ConnectEstablished, RunShutdownInLoop, Runs
  <2>2. NoDestroy(functors) => NoDestroy(functors')
    BY <1>0, <2>1, HeldQueue
  <2>3. \/ UNCHANGED channelVars
        \/ inPoller' <=> events_' # {}
    BY <2>1 DEF SetEvents
  <2>4. QED
    BY <2>1, <2>2, <2>3 DEF Attached, NoDestroy
<1>5. CASE ConnectDestroyed
  <2>1. /\ functors # <<>> /\ Head(functors).op = "connectDestoryed"
        /\ UNCHANGED <<call, server>>
    BY <1>5 DEF ConnectDestroyed, Runs, Next1
  <2>2. ~NoDestroy(functors)
    BY <1>0, <2>1 DEF NoDestroy
  <2>3. QED
    BY <2>1, <2>2 DEF Attached
<1>6. CASE HandleClose
  <2>1. UNCHANGED <<call, functors>> /\ SetEvents({}) /\ (server' # "gone" => server # "gone")
    BY <1>6 DEF HandleClose
  <2>2. QED
    BY <2>1 DEF Attached, NoDestroy, SetEvents
<1>7. CASE HandleWriteReturns
  <2>1. /\ UNCHANGED <<call, server>>
        /\ \/ UNCHANGED <<functors, channelVars>>
           \/ /\ functors' = Append(functors, Functor("writeComplete"))
              /\ SetEvents(events_ \ {"write"})
    BY <1>7 DEF HandleWriteReturns, Queue
  <2>2. Functor("writeComplete") \in Functors /\ Functor("writeComplete").op = "writeComplete"
    BY FunctorTypes DEF Functor
  <2>3. NoDestroy(functors) => NoDestroy(functors')
    BY <1>0, <2>1, <2>2, HeldQueue
  <2>4. \/ UNCHANGED channelVars
        \/ inPoller' <=> events_' # {}
    BY <2>1 DEF SetEvents
  <2>5. QED
    BY <2>1, <2>3, <2>4 DEF Attached, NoDestroy
<1>8. CASE ServerRemoves \/ ServerDies
  BY <1>8 DEF ServerRemoves, ServerDies, Attached
<1>9. CASE \/ Poll \/ HandleError \/ HandleReadData \/ HandleReadError
           \/ HandleWrite \/ EventHandled \/ KernelTakes \/ WriteFails
           \/ Peer \/ UNCHANGED vars
  <2>1. UNCHANGED <<call, server, functors, channelVars>>
    BY <1>9
    DEF Poll, HandleError, HandleReadData, HandleReadError, HandleWrite, EventHandled,
        KernelTakes, WriteFails, Peer, PeerReads, PeerSends, PeerCloses, PeerResets, vars
  <2>2. QED
    BY <2>1 DEF Attached, NoDestroy
<1>10. QED
  BY <1>1, <1>2, <1>3, <1>4, <1>5, <1>6, <1>7, <1>8, <1>9
  DEF Next, RunFunctor, HandleEvent, WriteStep, Own

\* The third inductive invariant: the connection and the poller.
LEMMA AttachedInvariant == Spec => []Attached
<1>1. Init => Attached
  BY DEF Init, Attached, NoDestroy, Functor
<1>2. QED
  BY <1>1, AttachedStep, TypeCorrect, LifeInvariant, PTL DEF Spec

\* Each action carries a shutdown on: it leaves it where it was, hands it to
\* the next in turn or sends FIN.
LEMMA ShutdownStep ==
  ASSUME TypeOK, Life, Attached, ShutdownNotForgotten, [Next]_vars
  PROVE  ShutdownNotForgotten'
<1> USE DEF channelVars, bufferVars, outputVars, loopVars, userVars,
            kernelVars, inputVars, socketVars, callbackVars, history
<1> SUFFICES ASSUME state_' = "kDisconnecting", ~Over'
             PROVE  finSent' \/ ShutdownQueued' \/ ("write" \in events_' /\ inPoller')
  BY DEF ShutdownNotForgotten
<1>0. /\ functors \in Seq(Functors)
      /\ ShutdownQueued <=>
           HoldsShutdown(functors) \/ \E t \in Threads : call[t].op = "shutdownInLoop"
      /\ HoldsShutdown(functors)' => ShutdownQueued'
      /\ server' # "gone"
  BY DEF TypeOK, ShutdownQueued, HoldsShutdown, Over
<1>1. CASE \/ \E m \in Messages : OwnSend(m)
           \/ RunSendInLoop \/ RunUserCallback
           \/ SendInLoopReturns
  <2>1. /\ UNCHANGED <<state_, call, server, finSent>>
        /\ HoldsShutdown(functors) => HoldsShutdown(functors)'
        /\ UNCHANGED channelVars \/ ("write" \in events_' /\ inPoller')
    BY <1>1, HeldStep
  <2>2. Running
    BY <1>1 DEF Running, OwnSend, InUserCode, RunSendInLoop, RunUserCallback, Runs,
                SendInLoopReturns, WriteReturns, Writing
  <2>3. finSent \/ ShutdownQueued \/ ("write" \in events_ /\ inPoller)
    BY <1>0, <2>1, <2>2 DEF ShutdownNotForgotten, Over, Running
  <2>4. QED
    BY <1>0, <2>1, <2>3 DEF ShutdownQueued
<1>2. CASE OwnShutdown
  <2>1. finSent' \/ "write" \in events_
    BY <1>2 DEF OwnShutdown, ShutdownInLoop
  <2>2. UNCHANGED <<events_, inPoller, server>>
    BY <1>2 DEF OwnShutdown
  <2>3. QED
    BY <1>0, <2>1, <2>2 DEF Attached
<1>3. ASSUME NEW t \in Threads, Thread(t)
      PROVE  finSent' \/ ShutdownQueued' \/ ("write" \in events_' /\ inPoller')
  <2>1. CASE ThreadShutdown(t)
    <3>1. call'[t].op = "shutdownInLoop"
      BY <2>1 DEF ThreadShutdown, TypeOK, Functor
    <3>2. QED
      BY <3>1 DEF ShutdownQueued
  <2>2. CASE ThreadQueues(t)
    <3>1. /\ call[t] \in Functors /\ functors' = Append(functors, call[t])
          /\ call' = [call EXCEPT ![t] = Functor("none")]
          /\ UNCHANGED <<state_, events_, inPoller, server, finSent, pc>>
      BY <2>2 DEF ThreadQueues, Queue, TypeOK
    <3>2. \/ finSent \/ ("write" \in events_ /\ inPoller) \/ HoldsShutdown(functors)
          \/ \E u \in Threads : call[u].op = "shutdownInLoop"
      BY <1>0, <3>1 DEF ShutdownNotForgotten, Over, Running
    <3>3. CASE HoldsShutdown(functors) \/ call[t].op = "shutdownInLoop"
      <4>1. HoldsShutdown(functors')
        BY <1>0, <3>1, <3>3, HeldQueue
      <4>2. QED
        BY <1>0, <4>1 DEF HoldsShutdown
    <3>4. ASSUME NEW u \in Threads, u # t, call[u].op = "shutdownInLoop"
          PROVE  ShutdownQueued'
      <4>1. call'[u].op = "shutdownInLoop"
        BY <3>1, <3>4 DEF TypeOK
      <4>2. QED
        BY <4>1 DEF ShutdownQueued
    <3>5. QED
      BY <3>1, <3>2, <3>3, <3>4
  <2>3. ASSUME NEW m \in Messages, ThreadSend(t, m) PROVE FALSE
    BY <2>3 DEF ThreadSend
  <2>4. QED
    BY <1>3, <2>1, <2>2, <2>3 DEF Thread
<1>4. CASE RunShutdownInLoop
  <2>1. finSent' \/ "write" \in events_
    BY <1>4 DEF RunShutdownInLoop, ShutdownInLoop
  <2>2. UNCHANGED <<events_, inPoller, server>>
    BY <1>4 DEF RunShutdownInLoop
  <2>3. QED
    BY <1>0, <2>1, <2>2 DEF Attached
<1>5. CASE ConnectEstablished \/ HandleClose
  BY <1>5 DEF ConnectEstablished, HandleClose
<1>6. CASE ConnectDestroyed
  <2>1. /\ functors # <<>> /\ Head(functors).op = "connectDestoryed"
        /\ UNCHANGED server
    BY <1>6 DEF ConnectDestroyed, Runs, Next1
  <2>2. ~NoDestroy(functors)
    BY <1>0, <2>1 DEF NoDestroy
  <2>3. QED
    BY <1>0, <2>1, <2>2 DEF Attached
<1>7. CASE HandleWriteReturns
  <2>1. CASE Written
    BY <1>7, <2>1 DEF HandleWriteReturns, FlushedInLoop
  <2>2. CASE ~Written
    <3>1. Running /\ UNCHANGED <<state_, call, functors, server, finSent, channelVars>>
      BY <1>7, <2>2 DEF HandleWriteReturns, WriteReturns, Writing, Running
    <3>2. QED
      BY <1>0, <3>1 DEF ShutdownNotForgotten, Over, Running, ShutdownQueued
  <2>3. QED
    BY <2>1, <2>2
<1>8. CASE ServerRemoves \/ ServerDies
  BY <1>0, <1>8 DEF ServerRemoves, ServerDies
<1>9. CASE \/ Poll \/ HandleError \/ HandleReadData \/ HandleReadError
           \/ HandleWrite \/ EventHandled \/ KernelTakes
           \/ (Peer /\ Running) \/ UNCHANGED vars
  <2>1. /\ UNCHANGED <<state_, call, server, functors, finSent, channelVars>>
        /\ ~Running => UNCHANGED pc
    BY <1>9
    DEF Running, Writing, Poll, HandleError, HandleReadData, HandleReadError, HandleWrite, EventHandled, Reads,
        KernelTakes, Peer, PeerReads, PeerSends, PeerCloses, PeerResets, vars
  <2>2. QED
    BY <1>0, <2>1 DEF ShutdownNotForgotten, Over, Running, ShutdownQueued
<1>10. CASE WriteFails
  BY <1>10 DEF WriteFails, Over, Running
<1>11. QED
  BY <1>1, <1>2, <1>3, <1>4, <1>5, <1>6, <1>7, <1>8, <1>9, <1>10
  DEF Next, RunFunctor, HandleEvent, WriteStep, Own

\* A shutdown is never dropped: until FIN is sent it is queued somewhere or
\* the poller watches for the write that will end with it.
THEOREM ShutdownRemembered == Spec => []ShutdownNotForgotten
<1>1. Init => ShutdownNotForgotten
  BY DEF Init, ShutdownNotForgotten
<1>2. QED
  BY <1>1, ShutdownStep, TypeCorrect, LifeInvariant, AttachedInvariant, PTL DEF Spec

-----------------------------------------------------------------------------
(***************************************************************************)
(* The stream, provided that the strings given to send outlive sendInLoop  *)
(* (without that tcp_connection_payload shows what becomes of it), and     *)
(* until outputBuffer_ overruns (what buffer_overrun shows).               *)
(***************************************************************************)

\* Concatenation is associative.
LEMMA Associative ==
  \A r, s, t \in Seq(Byte) : (r \o s) \o t = r \o (s \o t)
<1>1. ASSUME NEW r \in Seq(Byte), NEW s \in Seq(Byte), NEW t \in Seq(Byte)
      PROVE  (r \o s) \o t = r \o (s \o t)
  <2>1. r \o s \in Seq(Byte) /\ s \o t \in Seq(Byte)
    BY ConcatProperties
  <2>2. Len((r \o s) \o t) = Len(r \o (s \o t))
    BY <2>1, ConcatProperties
  <2>3. \A i \in 1 .. Len((r \o s) \o t) : ((r \o s) \o t)[i] = (r \o (s \o t))[i]
    BY <2>1, ConcatProperties
  <2>4. QED
    BY <2>1, <2>2, <2>3
<1>2. QED
  BY <1>1

\* What write() took and what it has left are together what it had.
LEMMA SplitSeq ==
  ASSUME NEW prefix \in Seq(Byte), NEW s \in Seq(Byte), NEW n \in 0 .. Len(s)
  PROVE  (prefix \o SubSeq(s, 1, n)) \o SubSeq(s, n + 1, Len(s)) = prefix \o s
<1>1. SubSeq(s, 1, n) \in Seq(Byte) /\ SubSeq(s, n + 1, Len(s)) \in Seq(Byte)
  OBVIOUS
<1>2. Len(s) \in Nat /\ n \in 0 .. Len(s)
  OBVIOUS
<1>3. SubSeq(s, 1, n) \o SubSeq(s, n + 1, Len(s)) = SubSeq(s, 1, Len(s))
  <2>1. 1 \in 1 .. Len(s) + 1 /\ n \in (1 - 1) .. Len(s) /\ Len(s) \in n .. Len(s)
    BY <1>2
  <2>2. QED
    BY <2>1, ConcatAdjacentSubSeq, Zenon
<1>4. SubSeq(s, 1, Len(s)) = s
  BY SubSeqFull
<1>5. (prefix \o SubSeq(s, 1, n)) \o SubSeq(s, n + 1, Len(s))
      = prefix \o (SubSeq(s, 1, n) \o SubSeq(s, n + 1, Len(s)))
  BY <1>1, Associative
<1>6. QED
  BY <1>3, <1>4, <1>5, Zenon

\* sendInLoop adds to what is pending what it adds to the stream.
LEMMA StreamSend ==
  ASSUME TypeOK, StreamIntact, pc \in {"loop", "event"}, UNCHANGED wire,
         NEW bytes \in Seq(Byte), NEW queue, SendInLoop(bytes, bytes, queue, pc)
  PROVE  StreamIntact'
<1>1. wire \o outputBuffer_ = given /\ wire \in Seq(Byte) /\ outputBuffer_ \in Seq(Byte)
  BY DEF StreamIntact, Running, Pending, Writing, TypeOK
<1>2. CASE UNCHANGED <<outputVars, pc, syscall, given>>
  BY <1>1, <1>2 DEF StreamIntact, Running, Pending, Writing, outputVars, bufferVars
<1>3. CASE /\ given' = given \o bytes /\ pc' = "write" /\ outputBuffer_ = <<>>
           /\ syscall' = Write("sendInLoop", bytes, pc)
  <2>1. given = wire
    <3>1. wire \o <<>> = wire
      BY <1>1, ConcatEmptySeq
    <3>2. QED
      BY <1>1, <1>3, <3>1
  <2>2. syscall'.left = bytes
    BY <1>3, WriteTypes
  <2>3. QED
    BY <1>3, <2>1, <2>2 DEF StreamIntact, Pending, Writing
<1>4. CASE /\ given' = given \o bytes /\ pc' \in {pc, "undefined"}
           /\ outputBuffer_' = outputBuffer_ \o bytes
  <2>1. wire \o (outputBuffer_ \o bytes) = given \o bytes
    <3>1. (wire \o outputBuffer_) \o bytes = wire \o (outputBuffer_ \o bytes)
      BY <1>1, Associative
    <3>2. QED
      BY <1>1, <3>1, Zenon
  <2>2. QED
    BY <1>4, <2>1 DEF StreamIntact, Running, Pending, Writing
<1>5. QED
  BY <1>2, <1>3, <1>4 DEF SendInLoop, BufferRemainder, AppendOutput

\* Each action hands the kernel, or appends to the buffer, what send accepted.
LEMMA StreamStep ==
  ASSUME PayloadsOutlive, TypeOK, Life, Output, StreamIntact, [Next]_vars
  PROVE  StreamIntact'
<1> USE DEF channelVars, bufferVars, outputVars, loopVars, userVars,
            kernelVars, inputVars, socketVars, callbackVars, history
<1>1. ASSUME NEW m \in Messages, OwnSend(m) PROVE StreamIntact'
  <2>1. /\ pc \in {"loop", "event"} /\ UNCHANGED wire
        /\ SendInLoop(Bytes(m), Bytes(m), functors, pc)
    BY <1>1 DEF OwnSend, InUserCode
  <2>2. QED
    BY <2>1, StreamSend, BytesTypes
<1>2. CASE RunSendInLoop
  <2>1. functors # <<>> /\ pc = "loop" /\ Next1.op = "sendInLoop" /\ UNCHANGED wire
    BY <1>2 DEF RunSendInLoop, Runs
  <2>2. Bytes(Next1.message) \in Seq(Byte)
    BY <2>1, QueuedTypes, FunctorTypes, BytesTypes
  <2>3. SendInLoop(Bytes(Next1.message), Bytes(Next1.message), Tail(functors), pc)
    BY <1>2, <2>1 DEF RunSendInLoop, Payloads
  <2>4. QED
    BY <2>1, <2>2, <2>3, StreamSend
<1>3. CASE HandleWrite
  <2>1. CASE "write" \in events_
    <3>1. /\ pc = "event" /\ pc' = "write" /\ UNCHANGED <<wire, given>>
          /\ syscall' = Write("handleWrite", outputBuffer_, "event")
      BY <1>3, <2>1 DEF HandleWrite
    <3>2. syscall'.left = outputBuffer_
      BY <3>1, WriteTypes DEF TypeOK
    <3>3. Pending = outputBuffer_ /\ Pending' = outputBuffer_
      BY <3>1, <3>2 DEF Pending, Writing
    <3>4. QED
      BY <3>1, <3>3 DEF StreamIntact, Running
  <2>2. CASE "write" \notin events_
    BY <1>3, <2>2 DEF HandleWrite, StreamIntact, Running, Pending, Writing
  <2>3. QED
    BY <2>1, <2>2
<1>4. CASE KernelTakes
  <2> DEFINE n == IF room < Len(syscall.left) THEN room ELSE Len(syscall.left)
  <2>1. syscall.left \in Seq(Byte) /\ wire \in Seq(Byte) /\ syscall \in Writes
    BY WriteTypes DEF TypeOK
  <2>2. n \in 0 .. Len(syscall.left)
    BY <2>1, TcpConnectionAssumption DEF TypeOK
  <2> HIDE DEF n
  <2>3. /\ pc = "write" /\ UNCHANGED <<pc, given>>
        /\ wire' = wire \o SubSeq(syscall.left, 1, n)
        /\ syscall' = [syscall EXCEPT !.left = SubSeq(syscall.left, n + 1, Len(syscall.left)),
                                      !.taken = TRUE]
    BY <1>4 DEF KernelTakes, Writing, n
  <2>4. syscall'.left = SubSeq(syscall.left, n + 1, Len(syscall.left))
    BY <2>1, <2>3 DEF Writes
  <2>5. wire' \o syscall'.left = wire \o syscall.left
    BY <2>1, <2>2, <2>3, <2>4, SplitSeq
  <2>6. QED
    BY <2>3, <2>5 DEF StreamIntact, Running, Pending, Writing
<1>5. CASE SendInLoopReturns
  <2>1. /\ pc = "write" /\ pc' # "write" /\ outputBuffer_ = <<>> /\ UNCHANGED <<wire, given>>
        /\ syscall.left \in Seq(Byte)
    BY <1>5, WriteTypes
    DEF SendInLoopReturns, WriteReturns, BufferRemainder, Writing, Output, TypeOK
  <2>2. outputBuffer_' = syscall.left
    <3>1. CASE Written
      BY <1>5, <2>1, <3>1 DEF SendInLoopReturns, Written
    <3>2. CASE ~Written
      <4>1. outputBuffer_' = <<>> \o syscall.left
        BY <1>5, <2>1, <3>2 DEF SendInLoopReturns, BufferRemainder, AppendOutput
      <4>2. QED
        BY <2>1, <4>1, ConcatEmptySeq
    <3>3. QED
      BY <3>1, <3>2
  <2>3. QED
    BY <2>1, <2>2 DEF StreamIntact, Running, Pending, Writing
<1>6. CASE HandleWriteReturns
  <2>1. /\ pc = "write" /\ pc' # "write" /\ outputBuffer_' = syscall.left
        /\ UNCHANGED <<wire, given>>
    BY <1>6, WriteTypes DEF HandleWriteReturns, WriteReturns, Writing, TypeOK
  <2>2. QED
    BY <2>1 DEF StreamIntact, Running, Pending, Writing
<1>7. CASE WriteFails
  BY <1>7 DEF WriteFails, StreamIntact, Running
<1>8. CASE Poll \/ EventHandled
  BY <1>8 DEF Poll, EventHandled, StreamIntact, Running, Pending, Writing
<1>9. CASE \/ OwnShutdown \/ (\E t \in Threads : Thread(t))
           \/ ConnectEstablished \/ RunShutdownInLoop \/ RunUserCallback \/ ConnectDestroyed
           \/ HandleError \/ HandleReadData \/ HandleReadError \/ HandleClose
           \/ ServerRemoves \/ ServerDies \/ Peer \/ UNCHANGED vars
  <2>1. UNCHANGED <<outputBuffer_, pc, syscall, wire, given>>
    BY <1>9
    DEF OwnShutdown, Thread, ThreadShutdown, ThreadQueues, ThreadSend, ConnectEstablished,
        RunShutdownInLoop, RunUserCallback, ConnectDestroyed, HandleError, HandleReadData,
        HandleReadError, HandleClose, ServerRemoves, ServerDies, Peer, PeerReads, PeerSends,
        PeerCloses, PeerResets, vars
  <2>2. QED
    BY <2>1 DEF StreamIntact, Running, Pending, Writing
<1>10. QED
  BY <1>1, <1>2, <1>3, <1>4, <1>5, <1>6, <1>7, <1>8, <1>9
  DEF Next, RunFunctor, HandleEvent, WriteStep, Own

\* The peer is sent exactly the bytes that were given to send, in order, when
\* the strings outlive the functors they were bound to, until an append to
\* outputBuffer_ that fits only with freed bytes overruns it.
THEOREM StreamUnchanged ==
  ASSUME PayloadsOutlive
  PROVE  Spec => []StreamIntact
<1>1. Init => StreamIntact
  BY ConcatEmptySeq DEF Init, StreamIntact, Running, Pending, Writing
<1>2. ASSUME TypeOK, Life, Output, StreamIntact, [Next]_vars
      PROVE  StreamIntact'
  BY <1>2, StreamStep
<1>3. QED
  BY <1>1, <1>2, TypeCorrect, LifeInvariant, OutputInvariant, PTL DEF Spec
=============================================================================
