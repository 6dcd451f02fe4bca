---------------------------- MODULE TcpConnection ----------------------------
(***************************************************************************)
(* One accepted connection (mudlite/net/TcpConnection.{h,cc}): its I/O     *)
(* loop's thread, other threads that call send and shutdown on it, the     *)
(* TcpServer that owns it, the kernel's socket and the peer.               *)
(*                                                                         *)
(* A handler is one step of the loop's thread, except that write() is a    *)
(* state of its own: Socket::accept makes blocking sockets, and the thread *)
(* stays in write() until the kernel took everything, a signal handler ran *)
(* or the connection broke.  Other threads read or swap state_ in one step *)
(* and queue a functor in another.  The loop is abstracted to what         *)
(* EventLoop shows of it, a FIFO queue of functors (FunctorQueue), and the *)
(* poller to inPoller.  outputBuffer_ is the queue of bytes a Buffer       *)
(* stands for (ByteQueue), with the room around them, writable and freed,  *)
(* that decides when its append overruns (Buffer); what the program does   *)
(* after that is undefined, and the model stops.  Readable input is        *)
(* counted in chunks.                                                      *)
(*                                                                         *)
(* An operator named X_Y is a faulty variant of X that a property must     *)
(* catch; the specification does not use it.                               *)
(***************************************************************************)
EXTENDS Naturals, Sequences

CONSTANTS
  Threads,          \* threads other than the loop's that use the connection
  Messages,         \* one name for each call of send
  MessageSize,      \* bytes in a message
  kInitialSize,     \* bytes a new Buffer has room for
  SndBuf,           \* bytes the kernel holds until the peer reads them
  highWaterMark_,
  MaxInput,         \* chunks the peer sends (bound)
  MaxSignals,       \* writes cut short by a signal handler (bound)
  PeerMayReset,     \* the peer may send RST
  PayloadsOutlive,  \* strings given to send live until sendInLoop has run
  ServerMayDie      \* ~TcpServer may run while it holds the connection

ASSUME TcpConnectionAssumption ==
  /\ MessageSize \in Nat \ {0}
  /\ kInitialSize \in Nat
  /\ SndBuf \in Nat \ {0}
  /\ highWaterMark_ \in Nat
  /\ MaxInput \in Nat
  /\ MaxSignals \in Nat
  /\ PeerMayReset \in BOOLEAN
  /\ PayloadsOutlive \in BOOLEAN
  /\ ServerMayDie \in BOOLEAN

VARIABLES
  state_,
  events_,        \* channel_'s interest
  inPoller,       \* the poller watches channel_
  outputBuffer_,
  writable,       \* outputBuffer_.writableBytes()
  freed,          \* outputBuffer_.prependableBytes() beyond kCheapPrepend
  pc,             \* the loop's thread: "loop", "event", "write", "exited" or
                  \* "undefined"
  revents_,       \* what handleEvent still has to dispatch
  syscall,        \* the write() under way
  functors,       \* functors queued on the loop that concern the connection
  call,           \* per thread: what it still has to queue
  server,         \* the TcpServer "holds" it, is "removing" it, or it is "gone"
  wire,           \* bytes the kernel took, in order
  room,           \* free bytes in the kernel's send buffer
  finSent,        \* the write side is shut down
  input, inputs,  \* chunks to read, and chunks the peer ever sent
  peer,           \* "open", "fin" (it sent FIN) or "reset"
  sockError,      \* SO_ERROR is set
  signals,        \* writes cut short by a signal so far
  sent,           \* history: messages given to send while kConnected
  given,          \* history: bytes sendInLoop accepted, as their senders meant
  ups, downs,     \* history: connection callbacks, with connected() or not
  delivered       \* history: message callbacks

channelVars == <<events_, inPoller>>
bufferVars == <<outputBuffer_, writable, freed>>
outputVars == <<channelVars, bufferVars>>
loopVars == <<pc, revents_, syscall>>
userVars == <<call, sent, server>>
kernelVars == <<wire, room, finSent>>
inputVars == <<input, inputs, peer, sockError>>
socketVars == <<kernelVars, inputVars, signals>>
callbackVars == <<ups, downs, delivered>>
history == <<given, callbackVars>>
vars == <<state_, outputVars, loopVars, functors, userVars, socketVars, history>>

Functor(op)      == [op |-> op]
SendFunctor(m)   == [op |-> "sendInLoop", message |-> m]

\* A write() of bytes on behalf of a handler, after which the thread resumes.
Write(by, bytes, resume) ==
  [by |-> by, left |-> bytes, taken |-> FALSE, resume |-> resume]
NoWrite == Write("nobody", <<>>, "loop")

\* TcpServer::newConnection has queued connectEstablished.
Init ==
  /\ state_ = "kConnecting"
  /\ events_ = {} /\ inPoller = FALSE
  /\ outputBuffer_ = <<>> /\ writable = kInitialSize /\ freed = 0
  /\ pc = "loop" /\ revents_ = {} /\ syscall = NoWrite
  /\ functors = <<Functor("connectEstablished")>>
  /\ call = [t \in Threads |-> Functor("none")]
  /\ server = "holds"
  /\ wire = <<>> /\ room = SndBuf /\ finSent = FALSE
  /\ input = 0 /\ inputs = 0 /\ peer = "open" /\ sockError = FALSE
  /\ signals = 0
  /\ sent = {} /\ given = <<>>
  /\ ups = 0 /\ downs = 0 /\ delivered = 0

-----------------------------------------------------------------------------
Bytes_WithTerminator(m) == [i \in 1 .. MessageSize + 1 |-> <<m, i>>]

Bytes(m) == [i \in 1 .. MessageSize |-> <<m, i>>]
Garbage  == [i \in 1 .. MessageSize |-> <<"garbage", i>>]

\* sendInLoop is bound to buf.c_str(), not to a copy of the string.
Payloads(m) == IF PayloadsOutlive THEN {Bytes(m)} ELSE {Bytes(m), Garbage}

\* Channel::update through the poller: a channel with interest is watched.
SetEvents(events) == events_' = events /\ inPoller' = (events # {})

Queue(f) == functors' = Append(functors, f)

ShutdownInLoop_Always == finSent' = TRUE

ShutdownInLoop == finSent' = (finSent \/ "write" \notin events_)

\* Buffer::append of n bytes that fit only with the freed bytes makes space
\* without moving the indices, and writes past the end of the vector.
Overruns(n) == n > writable /\ n <= writable + freed

\* Bytes that do not fit at all make the vector grow by just enough.
AppendOutput(bytes) ==
  /\ outputBuffer_' = outputBuffer_ \o bytes
  /\ writable' = IF Len(bytes) <= writable THEN writable - Len(bytes) ELSE 0
  /\ UNCHANGED freed

\* The part of sendInLoop that keeps what write() left over; queue is what is
\* left of the functors, resume where the thread goes on.
BufferRemainder_NoInterest(rest, queue, resume) ==
  /\ AppendOutput(rest)
  /\ pc' = IF Overruns(Len(rest)) THEN "undefined" ELSE resume
  /\ functors' = queue
  /\ UNCHANGED channelVars

BufferRemainder(rest, queue, resume) ==
  /\ AppendOutput(rest)
  /\ pc' = IF Overruns(Len(rest)) THEN "undefined" ELSE resume
  /\ functors' =
       IF /\ Len(outputBuffer_) < highWaterMark_
          /\ Len(outputBuffer_ \o rest) >= highWaterMark_
       THEN Append(queue, Functor("highWaterMark")) ELSE queue
  /\ IF "write" \in events_ THEN UNCHANGED channelVars
     ELSE SetEvents(events_ \cup {"write"})

\* sendInLoop of a payload whose sender meant bytes.
SendInLoop_IgnoresOutput(payload, bytes, queue, resume) ==
  /\ given' = given \o bytes
  /\ pc' = "write"
  /\ syscall' = Write("sendInLoop", payload, resume)
  /\ functors' = queue
  /\ UNCHANGED outputVars

SendInLoop(payload, bytes, queue, resume) ==
  \/ /\ state_ = "kDisconnected"
     /\ functors' = queue
     /\ UNCHANGED <<outputVars, pc, syscall, given>>
  \/ /\ state_ # "kDisconnected"
     /\ "write" \notin events_ /\ outputBuffer_ = <<>>
     /\ given' = given \o bytes
     /\ pc' = "write"
     /\ syscall' = Write("sendInLoop", payload, resume)
     /\ functors' = queue
     /\ UNCHANGED outputVars
  \/ /\ state_ # "kDisconnected"
     /\ "write" \in events_ \/ outputBuffer_ # <<>>
     /\ given' = given \o bytes
     /\ BufferRemainder(payload, queue, resume)
     /\ UNCHANGED syscall

-----------------------------------------------------------------------------
(***************************************************************************)
(* send and shutdown, from user code on the loop's thread (a callback of   *)
(* this connection or of another channel) and from other threads.  With    *)
(* state_ not kConnected both return at once.                              *)
(***************************************************************************)

InUserCode == pc \in {"loop", "event"}

OwnSend(m) ==
  /\ InUserCode
  /\ state_ = "kConnected" /\ m \notin sent
  /\ sent' = sent \cup {m}
  /\ SendInLoop(Bytes(m), Bytes(m), functors, pc)
  /\ UNCHANGED <<state_, revents_, call, server, socketVars, callbackVars>>

OwnShutdown ==
  /\ InUserCode
  /\ state_ = "kConnected"
  /\ state_' = "kDisconnecting"
  /\ ShutdownInLoop
  /\ UNCHANGED <<outputVars, loopVars, functors, userVars, wire, room,
                 inputVars, signals, history>>

ThreadSend(t, m) ==
  /\ call[t] = Functor("none")
  /\ state_ = "kConnected" /\ m \notin sent
  /\ sent' = sent \cup {m}
  /\ call' = [call EXCEPT ![t] = SendFunctor(m)]
  /\ UNCHANGED <<state_, outputVars, loopVars, functors, server, socketVars,
                 history>>

ThreadShutdown(t) ==
  /\ call[t] = Functor("none")
  /\ state_ = "kConnected"
  /\ state_' = "kDisconnecting"
  /\ call' = [call EXCEPT ![t] = Functor("shutdownInLoop")]
  /\ UNCHANGED <<outputVars, loopVars, functors, sent, server, socketVars,
                 history>>

\* The second half of both: runInLoop queues the functor.
ThreadQueues(t) ==
  /\ call[t] # Functor("none")
  /\ Queue(call[t])
  /\ call' = [call EXCEPT ![t] = Functor("none")]
  /\ UNCHANGED <<state_, outputVars, loopVars, sent, server, socketVars,
                 history>>

-----------------------------------------------------------------------------
(***************************************************************************)
(* Functors that the loop runs.                                            *)
(***************************************************************************)

Next1 == Head(functors)

Runs(op) ==
  /\ pc = "loop"
  /\ functors # <<>> /\ Next1.op = op

ConnectEstablished ==
  /\ Runs("connectEstablished")
  /\ functors' = Tail(functors)
  /\ state_' = "kConnected"
  /\ SetEvents(events_ \cup {"read"})
  /\ ups' = ups + 1
  /\ UNCHANGED <<bufferVars, loopVars, userVars, socketVars, given, downs,
                 delivered>>

RunSendInLoop ==
  /\ Runs("sendInLoop")
  /\ \E payload \in Payloads(Next1.message) :
       SendInLoop(payload, Bytes(Next1.message), Tail(functors), "loop")
  /\ UNCHANGED <<state_, revents_, userVars, socketVars, callbackVars>>

RunShutdownInLoop ==
  /\ Runs("shutdownInLoop")
  /\ functors' = Tail(functors)
  /\ ShutdownInLoop
  /\ UNCHANGED <<state_, outputVars, loopVars, userVars, wire, room, inputVars,
                 signals, history>>

\* writeCompleteCallback_ and highWaterMarkCallback_ are user code.
RunUserCallback ==
  /\ Runs("writeComplete") \/ Runs("highWaterMark")
  /\ functors' = Tail(functors)
  /\ UNCHANGED <<state_, outputVars, loopVars, userVars, socketVars, history>>

DestroyedState_AlwaysDown ==
  /\ state_' = "kDisconnected"
  /\ events_' = {}
  /\ downs' = downs + 1

\* The compare-and-exchange of connectDestoryed, and what it guards.
DestroyedState ==
  \/ /\ state_ = "kConnected"
     /\ state_' = "kDisconnected"
     /\ events_' = {}
     /\ downs' = downs + 1
  \/ /\ state_ # "kConnected"
     /\ UNCHANGED <<state_, events_, downs>>

ConnectDestroyed_KeepsChannel ==
  /\ Runs("connectDestoryed")
  /\ functors' = Tail(functors)
  /\ state_' = "kDisconnected"
  /\ downs' = IF state_ = "kConnected" THEN downs + 1 ELSE downs
  /\ UNCHANGED <<outputVars, loopVars, userVars, socketVars, given, ups,
                 delivered>>

ConnectDestroyed ==
  /\ Runs("connectDestoryed")
  /\ functors' = Tail(functors)
  /\ DestroyedState
  /\ inPoller' = FALSE
  /\ UNCHANGED <<bufferVars, loopVars, userVars, socketVars, given, ups,
                 delivered>>

-----------------------------------------------------------------------------
(***************************************************************************)
(* poll and handleEvent.  A TCP socket with a hang-up is readable too, so  *)
(* handleEvent's own closeCallback_ branch (HUP without IN) is never taken.*)
(***************************************************************************)

Ready ==
  {e \in {"err", "in", "out"} :
     \/ e = "err" /\ sockError
     \/ e = "in"  /\ "read" \in events_ /\ (input > 0 \/ peer # "open")
     \/ e = "out" /\ "write" \in events_ /\ (room > 0 \/ finSent \/ peer = "reset")}

Poll ==
  /\ pc = "loop" /\ inPoller
  /\ Ready # {}
  /\ revents_' = Ready
  /\ pc' = "event"
  /\ UNCHANGED <<state_, outputVars, syscall, functors, userVars, socketVars,
                 history>>

\* getsockopt(SO_ERROR) clears the error.
HandleError ==
  /\ pc = "event" /\ "err" \in revents_
  /\ revents_' = revents_ \ {"err"}
  /\ sockError' = FALSE
  /\ UNCHANGED <<state_, outputVars, pc, syscall, functors, userVars,
                 kernelVars, input, inputs, peer, signals, history>>

Reads ==
  /\ pc = "event" /\ "err" \notin revents_ /\ "in" \in revents_
  /\ revents_' = revents_ \ {"in"}

HandleReadData ==
  /\ Reads /\ input > 0
  /\ input' = 0
  /\ delivered' = delivered + 1
  /\ UNCHANGED <<state_, outputVars, pc, syscall, functors, userVars,
                 kernelVars, inputs, peer, sockError, signals, given, ups,
                 downs>>

\* read fails: handleError logs and clears the error, nothing is closed yet.
HandleReadError ==
  /\ Reads /\ input = 0 /\ sockError
  /\ sockError' = FALSE
  /\ UNCHANGED <<state_, outputVars, pc, syscall, functors, userVars,
                 kernelVars, input, inputs, peer, signals, history>>

\* read returns 0: handleClose, whose closeCallback_ asks the server's loop
\* to remove the connection.
HandleClose_StaysEnabled ==
  /\ Reads /\ input = 0 /\ ~sockError
  /\ state_' = "kDisconnected"
  /\ downs' = downs + 1
  /\ server' = IF server = "holds" THEN "removing" ELSE server
  /\ UNCHANGED <<outputVars, pc, syscall, functors, call, sent, socketVars,
                 given, ups, delivered>>

HandleClose ==
  /\ Reads /\ input = 0 /\ ~sockError
  /\ state_' = "kDisconnected"
  /\ SetEvents({})
  /\ downs' = downs + 1
  /\ server' = IF server = "holds" THEN "removing" ELSE server
  /\ UNCHANGED <<bufferVars, pc, syscall, functors, call, sent, socketVars,
                 given, ups, delivered>>

HandleWrite ==
  /\ pc = "event" /\ revents_ = {"out"}
  /\ revents_' = {}
  /\ IF "write" \in events_
     THEN /\ pc' = "write"
          /\ syscall' = Write("handleWrite", outputBuffer_, "event")
     ELSE UNCHANGED <<pc, syscall>>
  /\ UNCHANGED <<state_, outputVars, functors, userVars, socketVars, history>>

EventHandled ==
  /\ pc = "event" /\ revents_ = {}
  /\ pc' = "loop"
  /\ UNCHANGED <<state_, outputVars, revents_, syscall, functors, userVars,
                 socketVars, history>>

-----------------------------------------------------------------------------
(***************************************************************************)
(* write(): it takes bytes as long as there is room, waits when there is   *)
(* none, and returns early only with what it took so far.  With nothing    *)
(* taken it fails: EINTR, ECONNRESET or EPIPE, where SIGPIPE or LOG_FATAL  *)
(* ends the process.                                                       *)
(***************************************************************************)

Broken == finSent \/ peer = "reset"

Writing == pc = "write"
Written == syscall.left = <<>>
CutShort == ~Written /\ (Broken \/ signals < MaxSignals)

CountSignal == signals' = IF Written \/ Broken THEN signals ELSE signals + 1

KernelTakes ==
  LET left == syscall.left
      n == IF room < Len(left) THEN room ELSE Len(left)
  IN  /\ Writing /\ ~Broken /\ n > 0
      /\ wire' = wire \o SubSeq(left, 1, n)
      /\ room' = room - n
      /\ syscall' = [syscall EXCEPT !.left = SubSeq(left, n + 1, Len(left)),
                                    !.taken = TRUE]
      /\ UNCHANGED <<state_, outputVars, pc, revents_, functors, userVars,
                     finSent, inputVars, signals, history>>

WriteReturns(by) ==
  /\ Writing /\ syscall.by = by
  /\ Written \/ (syscall.taken /\ CutShort)
  /\ CountSignal
  /\ syscall' = NoWrite

SendInLoopReturns ==
  /\ WriteReturns("sendInLoop")
  /\ IF Written
     THEN /\ pc' = syscall.resume
          /\ Queue(Functor("writeComplete"))
          /\ UNCHANGED outputVars
     ELSE BufferRemainder(syscall.left, functors, syscall.resume)
  /\ UNCHANGED <<state_, revents_, userVars, kernelVars, inputVars, history>>

FlushedInLoop_NoShutdown == finSent

\* handleWrite with everything written: the FIN that shutdown held back.
FlushedInLoop == finSent \/ state_ = "kDisconnecting"

\* retrieve only moves readerIndex_, even when it leaves nothing.
HandleWriteReturns ==
  /\ WriteReturns("handleWrite")
  /\ pc' = syscall.resume
  /\ outputBuffer_' = syscall.left
  /\ freed' = freed + Len(outputBuffer_) - Len(syscall.left)
  /\ UNCHANGED writable
  /\ IF Written
     THEN /\ SetEvents(events_ \ {"write"})
          /\ Queue(Functor("writeComplete"))
          /\ finSent' = FlushedInLoop
     ELSE UNCHANGED <<channelVars, functors, finSent>>
  /\ UNCHANGED <<state_, revents_, userVars, wire, room, inputVars, history>>

WriteFails ==
  /\ Writing
  /\ ~syscall.taken /\ CutShort
  /\ CountSignal
  /\ pc' = "exited"
  /\ UNCHANGED <<state_, outputVars, revents_, syscall, functors, userVars,
                 kernelVars, inputVars, history>>

-----------------------------------------------------------------------------
(***************************************************************************)
(* The server, on its own loop, and the peer.                              *)
(***************************************************************************)

\* removeConnectionInLoop, which closeCallback_ asked for.
ServerRemoves ==
  /\ server = "removing"
  /\ server' = "gone"
  /\ Queue(Functor("connectDestoryed"))
  /\ UNCHANGED <<state_, outputVars, loopVars, call, sent, socketVars,
                 history>>

\* ~TcpServer.  What becomes of a removal under way then is TcpServer's.
ServerDies ==
  /\ ServerMayDie
  /\ server = "holds"
  /\ server' = "gone"
  /\ Queue(Functor("connectDestoryed"))
  /\ UNCHANGED <<state_, outputVars, loopVars, call, sent, socketVars,
                 history>>

PeerReads ==
  /\ peer # "reset" /\ room < SndBuf
  /\ room' = SndBuf
  /\ UNCHANGED <<state_, outputVars, loopVars, functors, userVars, wire,
                 finSent, inputVars, signals, history>>

PeerSends ==
  /\ peer = "open" /\ inputs < MaxInput
  /\ input' = input + 1 /\ inputs' = inputs + 1
  /\ UNCHANGED <<state_, outputVars, loopVars, functors, userVars, kernelVars,
                 peer, sockError, signals, history>>

PeerCloses ==
  /\ peer = "open"
  /\ peer' = "fin"
  /\ UNCHANGED <<state_, outputVars, loopVars, functors, userVars, kernelVars,
                 input, inputs, sockError, signals, history>>

PeerResets ==
  /\ PeerMayReset
  /\ peer # "reset"
  /\ peer' = "reset" /\ sockError' = TRUE
  /\ UNCHANGED <<state_, outputVars, loopVars, functors, userVars, kernelVars,
                 input, inputs, signals, history>>

-----------------------------------------------------------------------------
RunFunctor ==
  \/ ConnectEstablished
  \/ RunSendInLoop
  \/ RunShutdownInLoop
  \/ RunUserCallback
  \/ ConnectDestroyed

HandleEvent ==
  \/ HandleError
  \/ HandleReadData
  \/ HandleReadError
  \/ HandleClose
  \/ HandleWrite
  \/ EventHandled

WriteStep ==
  \/ KernelTakes
  \/ SendInLoopReturns
  \/ HandleWriteReturns

Own == OwnShutdown \/ \E m \in Messages : OwnSend(m)

Thread(t) ==
  \/ ThreadShutdown(t)
  \/ ThreadQueues(t)
  \/ \E m \in Messages : ThreadSend(t, m)

Peer == PeerReads \/ PeerSends \/ PeerCloses \/ PeerResets

\* The process lives, and what it does is defined.
Running == pc \notin {"exited", "undefined"}

Next ==
  /\ Running
  /\ \/ RunFunctor
     \/ Poll
     \/ HandleEvent
     \/ WriteStep
     \/ WriteFails
     \/ Own
     \/ \E t \in Threads : Thread(t)
     \/ ServerRemoves
     \/ ServerDies
     \/ Peer

\* The loop's thread runs, polls again and again and empties its queue, a
\* broken write() fails, the other threads finish their calls, and the peer
\* reads what it is sent.
Fairness ==
  /\ WF_vars(RunFunctor)
  /\ WF_vars(Poll)
  /\ WF_vars(HandleEvent)
  /\ WF_vars(WriteStep \/ (WriteFails /\ Broken))
  /\ WF_vars(PeerReads /\ Running)
  /\ \A t \in Threads : WF_vars(ThreadQueues(t) /\ Running)

Spec == Init /\ [][Next]_vars /\ Fairness

-----------------------------------------------------------------------------
Byte == {<<m, i>> : m \in Messages \cup {"garbage"}, i \in 1 .. MessageSize}
Functors ==
  {Functor(op) : op \in {"connectEstablished", "connectDestoryed", "shutdownInLoop",
                         "writeComplete", "highWaterMark"}}
  \cup {SendFunctor(m) : m \in Messages}
Writes == [by : {"nobody", "sendInLoop", "handleWrite"}, left : Seq(Byte),
           taken : BOOLEAN, resume : {"loop", "event"}]

TypeOK ==
  /\ state_ \in {"kDisconnected", "kConnecting", "kConnected", "kDisconnecting"}
  /\ events_ \in SUBSET {"read", "write"} /\ inPoller \in BOOLEAN
  /\ outputBuffer_ \in Seq(Byte) /\ writable \in Nat /\ freed \in Nat
  /\ pc \in {"loop", "event", "write", "exited", "undefined"}
  /\ revents_ \in SUBSET {"err", "in", "out"}
  /\ syscall \in Writes
  /\ functors \in Seq(Functors)
  /\ call \in [Threads -> Functors \cup {Functor("none")}]
  /\ server \in {"holds", "removing", "gone"}
  /\ wire \in Seq(Byte) /\ room \in 0 .. SndBuf /\ finSent \in BOOLEAN
  /\ input \in Nat /\ inputs \in 0 .. MaxInput
  /\ peer \in {"open", "fin", "reset"} /\ sockError \in BOOLEAN
  /\ signals \in 0 .. MaxSignals
  /\ sent \in SUBSET Messages /\ given \in Seq(Byte)
  /\ ups \in Nat /\ downs \in Nat /\ delivered \in Nat

\* The bytes that still have to reach the kernel.
Pending == IF Writing THEN syscall.left ELSE outputBuffer_

\* The peer is sent exactly the bytes that send was given, in order, none
\* twice and none left out: what the kernel has and what is still pending
\* make up what sendInLoop accepted, until an append to outputBuffer_ that
\* fits only with freed bytes overruns it.
StreamIntact == Running => wire \o Pending = given

\* Bytes wait in outputBuffer_ exactly when the poller is asked to report
\* that the socket can be written; otherwise they would wait for ever.
WaitingBytesAreWatched ==
  InUserCode /\ state_ \in {"kConnected", "kDisconnecting"} =>
    ("write" \in events_ <=> outputBuffer_ # <<>>)

\* The connection callback reports the connection up once and down at most
\* once, though a close and connectDestoryed race.
UpOnceDownOnce == downs <= ups /\ ups <= 1

Destroyed ==
  server = "gone" /\ \A i \in DOMAIN functors : functors[i].op # "connectDestoryed"

\* The poller does not watch the channel once the user was told that the
\* connection is down, whatever functors and events are still on their way.
UnwatchedAfterDown == downs > 0 => ~inPoller

\* TcpConnection.cc:235 calls connectDestoryed the connection's destruction:
\* the poller does not watch the channel afterwards, when the last reference
\* may go and free it.
UnwatchedInTheEnd == Destroyed => ~inPoller

\* FIN follows the data: the write side is shut down only with every byte
\* that was accepted given to the kernel, unless the connection is closed.
FinAfterData ==
  [][finSent' /\ ~finSent => Pending = <<>> \/ state_ = "kDisconnected"]_vars

\* Messages are delivered only between the up and the down callback.
MessagesWhileUp == [][delivered' # delivered => ups = 1 /\ downs = 0]_vars

Over == state_ = "kDisconnected" \/ server = "gone" \/ ~Running

ShutdownQueued ==
  \/ \E t \in Threads : call[t].op = "shutdownInLoop"
  \/ \E i \in DOMAIN functors : functors[i].op = "shutdownInLoop"

\* A shutdown is never dropped: until FIN is sent, somebody still has it to do,
\* shutdownInLoop itself or the handleWrite that it left the FIN to, for which
\* the poller watches the channel.
ShutdownNotForgotten ==
  state_ = "kDisconnecting" =>
    Over \/ finSent \/ ShutdownQueued \/ ("write" \in events_ /\ inPoller)

\* shutdown sends FIN in the end, however it races with the flushing of
\* outputBuffer_, as long as the peer reads and the connection lasts.
ShutdownCompletes == state_ = "kDisconnecting" ~> (finSent \/ Over)

\* Buffered bytes are flushed in the end, unless the connection is closed or
\* ~TcpServer destroys it, which drops them even after shutdown.
OutputFlushed == outputBuffer_ # <<>> ~> (outputBuffer_ = <<>> \/ Over)

\* TcpConnection.h:62 says that shutdown closes this connection: a send that
\* races with it is given up, and the process goes on.
ProcessSurvives == pc # "exited"
=============================================================================
