# mudlite in TLA+

mudlite is a multi-reactor TCP library in C++: each thread runs one event loop
over epoll, an acceptor hands new connections to the loops in turn, and every
handler of a connection runs on its loop's thread. These modules model its core
from the source in `src/mudlite`, check it with TLC and prove its main
invariants with TLAPS.

## The system

| Component | State | Operations | Interacts with | Hard | Correct when |
|---|---|---|---|---|---|
| EventLoop | `quit_`, `pendingFunctors_`, `callingPendingFunctors_`, eventfd, `activeChannels_` | `loop`, `quit`, `runInLoop`, `queueInLoop`, `wakeup`, `handleRead`, `doPendingFunctors` | called from every thread; polls through EPollPoller, calls Channels | interleaving of calls with sleep, wakeup and swap | never sleeps on work or through `quit`; functors run once, in order |
| Channel, EPollPoller | `events_`, `revents_`, `index_`; `channels_`, the kernel's list, array size | `enable*`, `disable*`, `remove`, `updateChannel`, `removeChannel`, `poll`, `handleEvent` | owners: EventLoop, Acceptor, TcpConnection; one thread | sequences of calls, reuse of descriptors and objects, raw pointers | the two registrations and `index_` agree; `epoll_ctl` never fails; only live channels are dispatched |
| Buffer | vector, `readerIndex_`, `writerIndex_` | `append`, `readFd`, `retrieve`, `retrieveAll`, `makeSpace` | used by TcpConnection and user callbacks; one thread | arithmetic at the boundaries | is a queue of bytes, stays inside the vector |
| TcpConnection | `state_`, channel, buffers | `send`, `shutdown`, `connectEstablished`, `connectDestoryed`, `handleRead/Write/Close/Error` | user threads, its loop, TcpServer, the peer | `state_` read in one thread and used in another; short writes; close against shutdown against destruction | stream intact, FIN after data, callbacks once, unwatched in the end |
| TcpServer | `connections_`, `started_`, `nextConnId_` | `start`, `newConnection`, `removeConnection(InLoop)`, destructor | Acceptor's callback, its own loop and the connections' loops | destruction while connections close; references held by queued functors | every connection is destroyed once and freed, and not before its poller let go of it |
| Acceptor | `listening_`, its channel | `listen`, `handleRead` | its loop, TcpServer | EMFILE | running out of descriptors does not stop it for good |
| EventLoopThread, MThread | `loop_`, mutex, condition, `exiting_` | `startLoop`, `threadFunc`, `start`, `join`, destructors | creates an EventLoop in a thread | the handshake; destruction against start and end of `loop` | `startLoop` returns a live loop; the destructor ends |
| EventLoopThreadPool | `threads_`, `loops_`, `next_` | `start`, `getNextLoop`, `getAllLoops` | EventLoopThread; used by TcpServer | little: one thread | round robin over every loop |
| Logger | one shared `logLevel_` | `setLogLevel`, `log` | every component; `LOG_FATAL` exits | two calls that are not atomic | a line carries its own level |
| Socket, InetAddr, Timestamp, currthread | none shared | wrappers and conversions | – | – | – |

`PROJECT.json` lists the hazards of this code at the lines where they bite,
with the properties that cover each one.

## Modules

| Module | Models | Uses |
|---|---|---|
| `FunctorQueue` | what a loop promises: one FIFO queue of functors | – |
| `EventLoop` | one loop, its own thread and others | refines `FunctorQueue` |
| `FunctorQueueProofs` | theorem about `FunctorQueue` | |
| `EventLoopProofs` | theorems about `EventLoop` | uses `FunctorQueueProofs` through the refinement |
| `Poller` | channels, the poller and the kernel's interest list | – |
| `PollerProofs` | theorems about `Poller` | |
| `ByteQueue` | what a buffer promises: a queue of bytes | – |
| `Buffer` | the vector and its two indices | refines `ByteQueue` until overrun |
| `BufferProofs` | theorems about `Buffer` | |
| `EventLoopThreadPool` | the pool, its EventLoopThreads and MThreads | takes of a loop what concerns `quit` |
| `EventLoopThreadPoolProofs` | theorems about `EventLoopThreadPool` | |
| `TcpConnection` | one connection, user threads, its server and its peer | takes a loop to be what `EventLoop` refines, a FIFO of functors, and `outputBuffer_` to be what `Buffer` refines, a queue until it overruns |
| `TcpConnectionProofs` | theorems about `TcpConnection` | |
| `TcpServer` | the server, its acceptor, the pool's loops and the lifetimes of the connections | refines `ConnectionLifecycle`; of a connection, `state_`, its channel, its callbacks and who refers to it; of a loop, its turns; of the pool, its threads |
| `ConnectionLifecycle` | what the references to a connection promise: made once, reported while alive, freed once | – |
| `TcpServerProofs` | theorems about `TcpServer` | |
| `ConnectionLifecycleProofs` | `TcpServer` implements `ConnectionLifecycle` | uses the invariant of `TcpServerProofs` |
| `MCPoller`, `MCTcpConnection` | symmetry for TLC, used where only invariants are checked; the other runs check the component's module itself | |

An operator named `X_Y` is a faulty variant of `X`, written beside it, with the
mistake a plausible bug would make; `PROJECT.json` ("mutants") says which
property notices it. No specification uses one.

**EventLoop.** `pc` is where the loop's thread is (`test`, `poll`, `handle`,
`run`, or `outside` of `loop()`). One access to an atomic, one critical section
and one system call are a step each: another thread's `queueInLoop` is a push
(`CallerQueueInLoop`) and a later `wakeup` (`CallerWakeup`). The loop's own
thread can call the same functions from user code; there the test of
`callingPendingFunctors_` decides about the wakeup, and since only that thread
writes the flag, push, test and wakeup are one step. The eventfd is a Boolean:
its counter is zero or not. `early` records functors queued before `loop()`,
for which the code makes no wakeup.

**Poller.** `index_`, `events_` and `channels_` are the members of that name;
`epoll` is the kernel's list, a function from descriptors to the pointer and
events last given. `EpollCtl` fails where the kernel would (ADD on a present
descriptor, MOD and DEL on an absent one). `stage` is how far the owner has
come: the owners' code fixes which calls follow which. `Free` closes the
descriptor, which takes it off the kernel's list, and both can be used again.
A `sendInLoop` queued before `connectDestoryed` may run after it, and enable the
channel again after `remove` (`SendAfterRemoval`, with `LateSends`; the finding
`tcp_connection_rewatched`). Nothing then removes the channel, and when the
object is freed `channels_` keeps its entry and `activeChannels_` may keep its
pointer. `late` remembers the objects this happened to.

**Buffer.** Bytes are their numbers in the order of writing, so any loss,
repetition or misplacement shows. `makeSpace`'s compaction moves the bytes and
not the indices, as the code does; what `append` then writes leaves the vector,
and the model stops there, since what follows is undefined.

**EventLoopThreadPool.** `base` is where the owner's thread is, `pc` where each
thread it made. Critical sections under `mutex_` are one step, the two reads of
`loop_` outside it are steps of their own. Thread `i`'s loop is called `i`;
`quit` is its store and, later, its wakeup, and `loop()` its reset, test and
sleep. `WaitsForLoops` says that the owner destroys the pool only when every
loop runs.

**TcpConnection.** A handler is one step of the loop's thread, except for
`write()`, in which the thread can wait: `Socket::accept` makes blocking
sockets, so a slow peer stops every connection of the loop. `write()` takes
bytes while the kernel has room, and returns early
only after a signal or when the connection broke. Another thread's `send` is
the test of `state_` (`ThreadSend`) and the queueing (`ThreadQueues`).
`outputBuffer_` is a queue with the room around it: `writable` behind the bytes
and `freed` before them. Handing bytes to the kernel moves `readerIndex_` only,
so an `append` that fits just with the freed room overruns the vector
(`Overruns`, what `Buffer` shows of `makeSpace`); the program is then undefined
and the model stops, at `pc = "undefined"`.
`PayloadsOutlive` says whether callers keep the string until it was sent,
`ServerMayDie` whether `~TcpServer` may run, `PeerMayReset` whether RST may
come.

**TcpServer.** A handler is one step of its loop's thread, and so are a functor
and `doPendingFunctors`' swap. `start` returns when each thread has published
its loop, which is then "entering": `EnterLoop` is the start of `loop()`, where
`quit_` is reset, so that a quit before it is lost. `quit_` is tested between
turns, so a loop may end with functors in `pending` (a pool thread's are
destroyed with it, the base loop's outlive the server). A functor bound to a
`TcpConnectionPtr` is a reference until the local vector of its batch is
destroyed (`batch`, then `spent`); `connections_` and pointers that user code
keeps (`holds`) are the others. `Freed` says that none is left:
`~TcpConnection` has closed the descriptor. `fdLimit` is how many connections
may have one at a time; when all are used `accept` fails and the client stays
in the backlog (`AcceptFails`). `shutdown` of a user thread is its
compare-and-exchange (`ThreadShutdown`, taken never to fail spuriously) and its
queueing (`ThreadQueues`), of a raw `this`; one that `connectDestoryed` may
overtake is called late: `NoDanglingPointer` does not cover it, and when its
caller drops the last pointer it is a call on a freed connection, which the
model can do and no property forbids. The destructor goes through `server`:
"closing" (its own loop over `connections_`), "quitting" and "joining" (the
members of the pool, one `EventLoopThread` after another) and "gone"; the
actions `CloseConnection` to `EndDestructor` are its steps. It begins after the
base loop returned and when no user thread is inside a call, as in the example:
destroyed earlier, the server is in use, and what then happens is the finding
`poller_destroy`. A user callback on a pool thread may still be in a call at
that moment in the real program; such a call of another connection is not
modelled. Nor are sends in this module: a late one that registers a channel
again is in `TcpConnection` and `Poller`.

## Runs

Passing runs, with their bounds:

| Run | Bounds | Shows |
|---|---|---|
| `event_loop` | 2 callers, 3 functors, `loop()` entered twice | safety of the wakeup protocol and of the swap; refinement of `FunctorQueue`, and through it that no functor runs twice; queued work runs and `quit` ends `loop` |
| `poller` | 3 channels, 3 descriptors, first array size 1, late sends | consistency of the registry; dispatch of registered channels; both apart from objects that a late send brought back |
| `pool` | up to 3 threads, 4 connections | start, round robin, destruction; every wait and join has its answer coming, and nobody waits for ever |
| `buffer` | prepend 2, size 3, extrabuf 2, 10 bytes | refinement of `ByteQueue` until overrun; the vector has room for prepend and readable bytes at all times |
| `tcp_connection` | 2 threads, 2 messages of 3 bytes, 1 byte of kernel room and 4 in a new buffer, 2 short writes; the peer may reset and the server die | stream until an overrun, FIN, callbacks, watching; a shutdown is never dropped; FIN is sent and buffered bytes leave |
| `tcp_server` | up to 2 pool threads, 2 connections, 1 or 2 descriptors | refinement of `ConnectionLifecycle`; each connection is destroyed once, leaves the map when it closed, is freed after its channel left the poller, and reported up and down; raw pointers to connection and server are used in time; clients are served, closed connections freed, the destructor ends if every thread has entered `loop()` |

Two callers are enough to have one between push and wakeup while the other
acts; three functors give one running, one in the batch and one pending; a
second `loop()` meets leftovers of the first. Three channels fill the array,
grow it, and leave one out. Messages larger than the kernel's room, with short
writes, reach every branch of `sendInLoop` and `handleWrite`; two of them from
two threads show reordering. A buffer of four bytes holds what the first write
left over; after a short flush the second message fits only with the freed byte
and overruns, and before it the vector grows. Two pool threads let the
destructor join one while the other still queues removals; one descriptor for
two connections makes the second client wait for the first connection's whole
way through two loops; with no pool thread everything runs on the base loop.
Every name in capitals that bounds a counter (`MaxLoops`, `MaxThreads`,
`MaxConnections`, `MaxConns`, `MaxFds`, `MaxInput`, `MaxSignals`, `MaxAppend`,
`MaxBytes`) is declared a bound where it is declared. Deadlock is checked,
except where the system really stops: a connection that is over, a process that
exited, a pool or a server that is gone, a buffer that is full or overrun.

Runs that end in a violation compare a doc or comment with the code, or show a
defect of the code; `PROJECT.json` ("findings") quotes the lines:

- `pool_quit_lost`: `loop()` resets `quit_`, so destroying a pool right after
  `start` can wait for ever in `join`.
- `poller_destroy`: `~TcpServer` inside a callback of its own loop leaves freed
  channels in `activeChannels_`.
- `buffer_overrun`: compaction does not move the indices and the next append
  overruns the vector. (Reading exactly everything does not reset them either,
  so compaction is met more often than the comments at Buffer.h:82-85 expect.)
  `outputBuffer_` meets it when a message is appended after a short flush.
- `tcp_connection_exits`: a `send` that overtakes nothing but arrives after FIN
  ends the process.
- `tcp_connection_payload`: `send` from another thread keeps a pointer, not the
  bytes.
- `tcp_connection_rewatched`: a late `sendInLoop` registers a channel again
  after `connectDestoryed` removed it.

## Fairness

`EventLoop`: every thread is scheduled, callbacks return, and `epoll_wait`
returns when the eventfd is readable. Nothing is assumed of sockets or of the
ten-second timeout, so the liveness properties hold by the wakeups alone.
Callers need not call anything; one that pushed goes on to `wakeup`.
`TcpConnection`: its loop keeps polling and running functors (what `EventLoop`
shows), other threads finish a call they began, a `write()` on a broken
connection fails, and the peer reads what it is sent; without the last, the
blocking `write()` need never return. The peer need not send, close or reset.
`EventLoopThreadPool`: every thread is scheduled and `epoll_wait` returns for a
wakeup; spurious wakeups of the condition variable happen and are not relied on.
`TcpServer`: every loop is entered, takes its turns and dispatches the
acceptor's channel (what `EventLoop` shows, as long as handlers return: a
`write()` to a peer that does not read blocks its loop, and a destructor that
waits for it), a user thread inside `shutdown` returns, and a destructor that
began goes on. Nobody need connect, close, quit or drop a pointer; the liveness
properties exempt a pointer that is kept and a base loop that was told to quit.
`DestructorEnds` speaks of a destructor that begins when every thread has
entered `loop()`; otherwise its quit may be lost and the join wait for ever,
which the model can do and `pool_quit_lost` shows.

## Proofs

For every value of the constants:

- `EventLoopProofs`: the types, the wakeup protocol and the refinement of
  `FunctorQueue`. `NoStrandedFunctor` alone is not inductive: that no work is
  stranded in `epoll_wait` depends on it having its wakeup when the thread
  returns to the `while` test, on the local batch being empty by then, and on
  `activeChannels_` being cleared before a poll, so that an eventfd read never
  takes the wakeup of a later functor unseen. `WakeProtocol` adds these.
  That each functor runs once (`FunctorsRunOnce`) is proved of the abstract
  queue, in `FunctorQueueProofs`, and carried to the loop by the refinement.
- `PollerProofs`: `index_`, `channels_`, the kernel's list, the owners' stages
  and `ctlFailed` are inductive only together (`Inv`): that ADD does not fail
  needs `index_` to be right, which needs the descriptor to be this channel's
  alone. A channel that a late send brought back is registered like any other
  until it is freed, which closes its descriptor; so `index_` and the kernel
  agree without exception, and only entries of `channels_` and pointers in
  `activeChannels_` that belong to such objects are exempted. The dispatch of
  registered channels assumes `DestroyInCallbacks = FALSE`, the code's practice
  apart from the finding above.
- `EventLoopThreadPoolProofs`: `LoopsAlive` holds because a thread leaves
  `loop()` only after the destructor's quit, and `loop_` is what the thread's
  place says it is; `Inv` states both with how far the owner has come.
  `RoundRobin` follows from a stronger form that counts turns: the loops before
  `next_` have had one more than those from it on. `WaitIsAnswered` and
  `JoinIsAnswered` are the safety behind the two liveness properties of the
  run (`SleepersAreWoken` is both). The second assumes
  `WaitsForLoops`, without which `pool_quit_lost` refutes `QuitEndsLoop`.
- `BufferProofs`: `ContentIsLatest` is inductive with the types, and gives the
  refinement of `ByteQueue` by the shape of the content, a run of consecutive
  numbers; growth, both parts of `readv` and every retrieve are lemmas.
  `ReadableFits` is proved without excluding the overrun, and gives
  `OverrunNeedsReading`: the finding `buffer_overrun` needs a buffer from which
  something, in part or all of it, was read since the indices were last reset.
- `TcpConnectionProofs`: two inductive invariants over the types. `Life` ties
  `state_`, the counted callbacks, the channel, what is still to be dispatched and
  the loop's place: nothing but a first, single `connectEstablished` precedes
  the connection, and one that is down has no interest, no read to dispatch and
  no `write()` under way. It gives `UpOnceDownOnce`, `UnwatchedAfterDown` and
  `MessagesWhileUp`.
  `Output` says of what `outputBuffer_` holds, or a `write()` has left, whether
  the channel watches for it; it gives `WaitingBytesAreWatched` and
  `FinAfterData`. `StreamIntact` is inductive with both (what the kernel took,
  what is left of the `write()` under way and the buffer are what `send` was given),
  under `PayloadsOutlive`, without which `tcp_connection_payload` refutes it, and
  until `outputBuffer_` overruns; that a flush never frees more than it holds
  (`FlushFits`) keeps the room counted right.
  `ShutdownNotForgotten` needs `Attached` besides: until the server lets the
  connection go, the poller watches its channel exactly when there is interest,
  so the handler that must send FIN once the buffer is empty does get its event.
- `TcpServerProofs`: `OneCustodian` alone is not inductive. `Inv` says where in
  the loops' queues each functor of a connection can stand: on which loop
  (`Placed`), `connectEstablished` before `connectDestoryed` (`Establishing`),
  one `connectDestoryed` and only when neither the map nor the removed
  channel accounts for the connection (`Custody`), a removal only for a closed
  connection that the map still has while the base loop runs (`Removing`), and
  every `shutdownInLoop` before it (`RawFirst`); `Stage` ties callbacks and
  channel to `state_`, and `Ends` orders the ends of threads, base loop and
  server. The lemma `Others` proves once that a step leaves alone every
  connection whose functors keep their order; each action then needs only its
  own connection. `ClosedLeavesMap` needs `Leaves` besides: the removal of a
  closed connection is queued in the step that closes it, and leaves the queue
  only in the step that erases the entry. Every invariant of the run follows;
  `NoDanglingPointer` has a theorem for each of its three pointers.
- `ConnectionLifecycleProofs`: each step of server, loops and user threads is
  one of `ConnectionLifecycle` or a stutter. A report needs a reference, which
  the handler or the functor under way is; freeing is what remains when none is
  left, so the proof follows `References` through each step. A batch may
  release several connections at once, and the destructor reports one down and
  lets go of it in the same step.

The assumptions are the named ones on the constants in each module (sizes are
natural numbers, markers are not among the objects), and `PayloadsOutlive`,
`WaitsForLoops` and `DestroyInCallbacks = FALSE` where a theorem states them.

Every invariant of a passing run is stated by a theorem. Theorems about
`FunctorsRunOnce`, `ContentIsLatest` and `CallbacksInOrder` have no run of their
own: a refinement that a run checks (`ImplementsFunctorQueue`,
`QueueUntilOverrun`, `ImplementsLifecycle`) implies each. Checked by TLC only:
the liveness properties, out of the prover's reach (`QueuedFunctorRuns`,
`QuitLeavesLoop`, `StartLoopCompletes`, `QuitEndsLoop`, `ShutdownCompletes`,
`OutputFlushed`, `ClientServed`, `ClosedIsFreed`, `DestructorEnds`).

## Not modelled

- Logger: one shared `logLevel_` set and read by two separate calls. Any
  interleaving is possible and only the label of a line depends on it; its
  effect on control, the exit of `LOG_FATAL`, is in `Poller` and
  `TcpConnection`.
- InetAddr, Timestamp, currthread, the socket options, `DefaultPoller` and the
  example: conversions and calls of the kernel without state of their own.
- The raw `this` of a `sendInLoop` queued from another thread: its lifetime is that
  of `shutdownInLoop` in `TcpServer`, and its string that of `PayloadsOutlive`.
  `Channel::tie` is not an action: what its `lock` would find is
  `RegisteredIsAlive`, a part of `NoDanglingPointer`, which holds without it.
- The content of `inputBuffer_` (counted in chunks), and user callbacks beyond
  the calls they may make on the connection.
- An `EventLoop` that user code destroys while other threads still call it, and
  a `TcpServer` destroyed inside its own loop, beyond the finding above.
- Memory after an overrun.
