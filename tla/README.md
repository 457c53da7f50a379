# Verification project for Rocket (`src/rocket`)

Rocket is a small RPC framework in C++: a reactor per thread, timers, TCP
connections with a length-prefixed protocol (TinyPB), a server that deals
connections out to IO threads and dispatches requests to protobuf services, and
a client channel that makes one asynchronous call. This directory holds TLA+
models of its core, translated from the source, the TLC runs that check them,
and proofs about them that TLAPS checks.

`PROJECT.json` lists the components, the runs, a mutant of the model for every
property of a passing run, the source lines behind every definition, the
findings, the hazards and the theorems.

## 1. The system

| component | source | state | operations | modelled in |
|---|---|---|---|---|
| mutex | `common/mutex.h` | lock word, `m_is_lock` | lock, unlock, destructor | `EventLoop`, `Logger` |
| event loop | `net/eventloop.cc`, `wakeup_fd_event.cc` | `m_pending_tasks`, `m_listen_fds`, kernel interest list, eventfd, `m_stop_flag` | `loop`, `addTask`, `stop`, `addEpollEvent`, `deleteEpollEvent` | `EventLoop` |
| descriptor events | `net/fd_event.cc`, `fd_event_group.cc` | mask and callbacks per descriptor, kept for ever | `listen`, `cancle`, `handler` | `RpcCall`, `RpcServer` |
| timer | `net/timer.cc`, `timer_event.cc` | multimap by arrival time, timerfd | `onTimer`, `addTimerEvent`, `deleteTimerEvent` | `TimerQueue` |
| buffer | `net/tcp/tcp_buffer.cc` | vector, read and write index | all | `TcpBuffer` |
| connection, coder | `net/tcp/tcp_connection.cc`, `net/coder/` | `m_state`, two buffers, waiting readers and writers | `onRead`, `excute`, `reply`, `pushSendMessage`, `onWrite`, `clear`, `setState` | `TcpInput`, `TcpOutput`, `RpcCall`, `RpcServer` |
| client, channel, controller | `net/tcp/tcp_client.cc`, `net/rpc/rpc_channel.cc`, `rpc_controller.cc` | descriptor, flags of the call, who holds the channel | `CallMethod`, `connect` and the callbacks | `RpcCall` |
| server, dispatcher | `net/tcp/tcp_server.cc`, `tcp_acceptor.cc`, `net/rpc/rpc_dispatcher.cc` | listening socket, `m_client` | `init`, `onAccept`, `ClearClientTimerFunc`, `dispatch` | `ServerStart`, `RpcServer` |
| IO threads | `net/io_thread.cc`, `io_thread_group.cc` | two semaphores and one loop per thread, round robin index | construction, `start`, `getIOThread` | `ServerStart`, `RpcServer` |
| logger | `common/log.cc`, `log.h` | two buffers, the queue, file, day and number of two writer threads | `pushLog`, `pushAppLog`, `syncLoop`, `pushLogBuffer`, `Loop`, `stop`, `flush`, the signal handler | `Logger`; its construction in `ServerStart` |
| configuration, addresses | `common/config.cc`, `net/tcp/net_addr.cc` | `g_config`, an address | `SetGlobalConfig`, `checkValid` | `ServerStart` |
| message ids, run time, errors, string coder, generator | | thread-local values, constants, a script | | not modelled |

How they interact. A thread owns one `EventLoop`. `loop()` swaps out the queue
of tasks, runs them, calls `epoll_wait`, and for each result queues the handler
that the `FdEvent` holds at that moment; handlers therefore run one iteration
later than they were reported. Other threads reach a loop only through
`addTask(cb, true)` (from `addEpollEvent`, `deleteEpollEvent`) and `stop()`. The
timer is one descriptor of the loop. On the server, the main thread accepts a
connection, constructs a `TcpConnection` whose handlers run on an IO thread, and
deletes it from a timer once `m_state` is `Closed`; the two threads share
`m_state` and the object without a lock. On the client, `RpcChannel` creates a
`TcpClient` that creates a `TcpConnection`; everything runs on the caller's loop,
and callbacks hold a raw `this`. Every thread logs: lines go to a buffer shared by
all, a timer on the main thread's loop hands them to two `AsyncLogger` threads, and
a signal handler does the same on top of whatever it has interrupted. At start-up,
semaphores keep the main thread, the IO threads and the logger threads in step.

What is hard here: the queue and its eventfd between threads (and a scoped lock
that unlocks twice); handlers queued for an object or a registration that an
earlier handler of the same batch has changed; descriptor numbers that come back
while `m_listen_fds` and the `FdEvent` still remember their last user; packages
cut anywhere by TCP; boundary conditions of the two buffer indices; a timeout
that races the answer; a connection closed, reset or replied to late while two
threads look at it; short writes of a buffer that is never emptied; lines handed
from thread to thread while a signal may strike anywhere; threads that are made,
held and released in an order only semaphores enforce. `hazards` in `PROJECT.json` has them one by one.

What makes the components correct:

- event loop: every task handed over is run once, in order, and eventually; the
  kernel watches nothing the loop has forgotten; `stop` stops;
- timer: no event is forgotten, none is late, a deleted one is gone;
- receive path: what the peer sends is handed over in order, once, unaltered;
- send path: every message gets to the peer, whole, at least once;
- call: exactly one outcome, and an end; sockets neither leak nor are shared;
- logger: every line gets to a file, once and in order, and a signal ends the
  process;
- start-up: nothing is used before it is set, no loop runs before it may, and the
  server comes up or ends;
- server: a connection stays watched, its requests are read, its replies are
  written, and it is deleted when the client has gone.

## 2. Modules

`EventLoop` is one `EventLoop` object with the thread that runs `loop()` and any
number of threads that add tasks. Each mutex operation, the push, the swap, the
write to the eventfd, each task, each `epoll_wait` result is a step of its own.
`ScopeMutex` is modelled with its unconditional unlock in the destructor: since
`addTask` and `loop()` have already called `unlock()`, the second unlock releases
a mutex somebody else may hold. `DataRace` is a state in which two threads are
inside the `std::queue`; such states are reachable, C++ defines nothing from
there on, and the model stops in them. `m_stop_flag` is a plain `bool`; it is
read as if it were atomic, since `loop()` makes system calls between two reads.

`TimerQueue` is `Timer`. Times are relative to the present, so that ticking
lowers them; the wall clock may be set, the timerfd counts on. `OnTimer` (collect
what has arrived), `AddAgain`, `Reset`, `RunTask`, `Return` are the parts of
`onTimer` between which time passes; `Add` and `Delete` may happen outside of it
and as one of its tasks. `UpTo` finds where the multimap's upper bound of a time is;
`Kept` is what erasing and the collecting loop leave of a sequence. `tmps` holds all
live events that were collected, as in the code; `AddAgain` looks at each whether it
repeats.

`TcpBuffer` has `TcpBuffer`'s member functions as operators from the old buffer to
the new one. `TcpInput` is the receiving half of a connection over it: `Read`,
`ReadAgain`, `ReadEof` are the outcomes of `read()` in `onRead`'s loop,
`DecodePackage` and `DecodeEnd` an iteration of `decode`, `Excute` the hand-over.
The length field has two bytes instead of four and keeps its sign. Memory around
the vector, which `decode` reads for odd lengths, is any byte of `Outside`.
`MessageChannel` is the abstract specification: messages are delivered in order,
once, unaltered, and none is kept for ever. `TcpInput` implements it with
`sent` and `delivered` mapped to themselves.

`TcpOutput` is the sending half, over `TcpBuffer` as well. `Reply` (server) and
`WriteMessage` (client) are the two ways a message comes to be sent; `OnWrite`,
`EncodeNext`, `WriteAll`, `WritePart`, `WriteAgain`, `WriteForEver` and `Clear` are
the steps and outcomes of `onWrite`. The read index of `m_out_buffer` never moves, so
each `write()` starts with the first message of the connection; a message counts as
received when it appears whole in what the peer has read. `InBuffer` counts the
messages encoded so far: all that were sent on the server; on the client those in
`m_write_dones`, or the rest of them `onWrite` has still to go through, are missing.
`ReplyChannel` is the
abstract specification: while the connection is open the peer gets every message
whole, at least once, and meets them for the first time in the order of sending.
`TcpOutput` implements it with `open` mapped to "the peer is there and the process
runs". Its liveness is stated as a leads-to property (`Delivery`), not as fairness of
`Receive`, because TLC cannot evaluate `ENABLED` of an action whose `open` is an
expression of the implementation.

`Logger` is `Logger` and both `AsyncLogger`s. `Push` and `DestructLog` are `pushLog`
and `pushAppLog`; `Take`, `Swap`, `Hand`, `Enqueue`, `Signal` and the `Destruct...`
actions are `syncLoop` and `pushLogBuffer`; `LockQueue`, `Wait`, `Pop`, `Write` are
`AsyncLogger::Loop`, with `Write` choosing the file by day, number and size.
`Interrupt` puts `CoredumpHandler` on top of a thread, which takes no step any more;
the handler logs, syncs, stops both loggers and joins them. As in `EventLoop`, each
`ScopeMutex` unlocks again when it is destructed (here the release that follows at
once is merged with the explicit one where nothing lies between them), and
`syncLoop` unlocks the wrong mutex at log.cc:97. Where two threads are inside one
container (`DataRace`) the model stops.

`ServerStart` is `main()` of the example server: `SetGlobalConfig`, the two loggers
(`NewAsyncLogger`, `AsyncLoggerMade`, `InitLogger`), the listening socket, the group
of IO threads, `ListenEvents`, `StartThread`, `EnterLoop`, against the threads that
come up meanwhile (`BeginAsync`, `MakeLoop`, `PostInit`, `HoldThread`, `RunThread`)
and clients that connect as soon as the socket listens. Every call that may fail and
whose failure the code looks at, or should, has that outcome. What C++ does not
define (a null `g_logger`, a stub without its nodes, a group without threads,
descriptor -1) is the fate "crashed".

`RpcCall` is a client call. One record per call (`call`) has the flags of its
`RpcController`, the state of its timer, whether the application still holds the
channel, and what its closure saw; another (`conn`) has the `TcpClient` and
`TcpConnection`. `sock`, `inbox`, `asked` are the kernel and the peer; `fdEvent`,
`listed`, `watched` are the `FdEventGroup`, `m_listen_fds` and epoll's own list;
`polled` and `tasks` are the loop. `CallMethod` has one action for every way it
can go (`Rejected`, `ConnectFails`, `ConnectBegins`, `ConnectAtOnce`), the
`Run...` actions are the handlers.

`RpcServer` is the server: `OnAccept` and `SetState` are the two halves of
`onAccept` between which the IO thread may already run; `ClearClient` is the
timer's deletion; `Poll`, `Dispatch` and the `Run...` actions are the loop of an
IO thread; `Finish` is a service that runs its closure later. A use of a deleted
connection (`fate = "dangling"`) and a write to a reset one, which ends in
SIGPIPE (`"killed"`), stop the model, in `RpcCall` too. `RpcCall` and `RpcServer`
do not repeat what `EventLoop`, `TimerQueue`, `TcpInput`, `TcpOutput`, `Logger` and
`ServerStart` say: tasks are a queue of the loop's own, timers just become due, a read
finds whole messages, a write takes all of the output or none of it, the loops run.

`MC...` modules hold the constants of the instances. Definitions whose comment
begins with "fault" are mistakes the code could contain; they are used by the
mutants only.

## 3. Runs

| run | instance | shows |
|---|---|---|
| `event_loop` | one adder with 2 tasks, one descriptor readable once | `TasksRunOnceInOrder`, `NoHandlerSleeps`, `KernelListIsListed`; `AddedTaskRuns`, `StopEndsLoop`, `InputIsHandled` |
| `timer_queue` | three events, one repeated | `AlwaysArmed`, `InTime`, `DeletedIsGone`; `PendingRuns` |
| `tcp_input` | packages of 5 and 6 bytes, buffer of 18, 4 messages, at most 2 under way | `NeverFull`, `ShortReadsAreKept`; implements `MessageChannel` |
| `tcp_input_split` | as above, length fields may be cut | `MessagesGetThrough` fails: `decode` never returns |
| `tcp_output` | three messages of 2 and 3 bytes, buffer of 4, send buffer of 7, server and client | `WatchesWhileUnsent`, `HoldsEverything`; implements `ReplyChannel` |
| `tcp_output_long` | the same with a send buffer of 5 | `MessagesGetThrough` fails: the output never fits again |
| `rpc_call` | two calls, one descriptor | `OneOutcome`, `OwnedSockets`, `WritableGoesToTheOwner`; `CallFinishes` |
| `rpc_call_timeout` | one call | `ClosureRuns` fails: a timed-out call does not report |
| `rpc_server` | two connections on two IO threads, two requests on the first | `StaysReachable`; `RequestsAreRead`, `ClosedIsDeleted`, `RepliesAreSent` |
| `server_start` | eight configuration files, two IO threads, four clients, three descriptors | `CrashesForItsConfig`, `HeldUntilStart`; `StartupEnds`, `ConnectedAreRegistered` |
| `logger` | one thread, two lines, one line per file, an old file, two days, a signal on the main thread | `LinesOnceInOrder`, `NoSleepOverLines`, `FilesInOrder`; `LinesReachFiles` |
| `logger_exit` | no lines but the handler's, a signal on a logging thread | `SignalEndsProcess` fails: the handler waits for ever |

A run that fails refutes what a comment or a logged message of the repository says;
the finding quotes it.

In `tcp_input_split` a read ends after a whole package and the start mark and first
byte of the length of the next one. The rest of that length is read from behind the write
index, where the vector is zero, so the length is 0 and the end position is the byte
before the start mark: the end mark of the package that has just been taken out. `decode`
thus finds a package of length 0, moves the read index by 0, drops the empty package
(`continue`, tinypb_coder.cc:78) and finds it again in the next iteration of its
`while(1)`. The IO thread does not leave `decode` any more; neither the rest of the
stream nor any other connection of that thread is served. In the model that iteration
is a `DecodePackage` step that changes nothing, so the counterexample ends in
stuttering.

Five more configurations are kept for a reader who wants to see where the code
departs from one of its comments; each checks one property and TLC finds it violated:

| configuration | property | what happens |
|---|---|---|
| `MCEventLoopWakeup` | `QueuedTaskWakesLoop` (eventloop.cc:200) | the eventfd is drained by a task, after the queue was swapped out: a wake-up is swallowed and the loop sleeps on a task until `epoll_wait` times out |
| `MCTcpInputFull` | `ReadBytesAreKept` (tcp_connection.cc:55) | a read that fills the vector exactly is dropped by `moveWriteIndex` |
| `MCRpcCallReuse` | `ConnectedIsDone` (tcp_client.cc:38) | a descriptor number comes back while `m_listen_fds` has it: `EPOLL_CTL_MOD` fails, the second connect is never noticed |
| `MCRpcCallThis` | `NoDanglingThis` (rpc_channel.cc:103) | the timer drops the last reference while a handler of the channel is queued |
| `MCRpcServerReset` | `BrokenIsDeleted` (tcp_server.cc:74) | a connection that is reset is removed from epoll by the loop; if no read was queued with it, nobody closes it |

Bounds, and why they are enough.

- `event_loop`: one adder suffices for the order of its tasks and for every race
  of one push against the loop; two tasks make a batch with something behind it.
  An instance with two adders has too many states for a run; the theorems of
  `EventLoop_proofs` hold for any number.
- `timer_queue`: two kinds of events (repeated and not), intervals that tie and
  differ, one setting of the clock in either direction, lag cut off behind the
  retry delay, where no comparison tells ages apart any more.
- `tcp_input`: two messages under way fit the buffer, so that only the portions
  vary; the packages differ in length and one contains a start mark. Messages
  beyond what fits the buffer are the subject of `MCTcpInputFull`. The theorems
  have no such bound.
- `tcp_output`: three messages make the vector grow and let a message follow one
  that is partly written; the send buffer of 7 is as long as the whole output of the
  connection, so that short writes and EAGAIN happen while the peer is behind, and
  none need happen once it has caught up.
- `rpc_call`: with one descriptor the second call always meets what the first
  left behind for its number. With two descriptors the state space is too large
  for the time a run may take; there, calls interact less.
- `rpc_server`: two connections are needed for the round robin and for two IO
  threads; two requests for a reply that meets an earlier one in the buffer. The
  second connection only comes and goes: connections share nothing but a thread.
- `server_start`: two IO threads, so that one is made while another is posted, held
  or missing; four clients for a group of two, so that the index wraps, and one
  client more than there are descriptors; a file of each kind the constructor of
  `Config` treats differently, and ports that are 0 and that do not fit 16 bits.
- `logger`: two lines may meet in one buffer, one batch or two, one file or two, in
  one stream or both; one line per file makes every batch rotate; the old file is
  the one a restart finds. One thread that logs races the timer, the handler and the
  writers; two would only push, under one mutex, into the same buffer.

Deadlock is not checked where the environment may stop for good (clients leave,
nobody adds tasks or logs, the process has died); `timer_queue` checks it.

Fairness. A thread that can take a step takes one (weak fairness of each thread's
steps, not of its single actions: what comes first is up to the code). `Tick` and
`TimerExpires` are fair because time passes. `TcpInput` assumes strong fairness
of `Read`: bytes under way arrive, so `EAGAIN` is not the answer for ever.
`RpcServer` assumes the same of `RunOnWrite`: a client that stays reads, so the
send buffer is not full for ever. `TcpOutput` assumes that a peer that stays now and
then reads everything there is, as `onRead` of this library does; a peer that always
took a single byte would make every `write()` take a single byte, the first one of
the buffer. `Logger` assumes that the timer goes on expiring and that the handler,
which runs instead of a thread, runs like one. `ServerStart` assumes that each
client in the backlog has its turn: the accept event is level-triggered, and a
backlog is a queue. Peers, clients, callers, services and threads that log owe
nothing, and nothing is assumed about who gets a contended mutex.

## 4. Proofs

Eight modules hold proofs, for every value of the constants that meets the
assumptions stated with them. Every invariant that a passing run checks is a theorem
here, and so is `ShortReadsAreKept`; what is left to the runs is at the end of this
section.

| module | theorem | property |
|---|---|---|
| `EventLoop_proofs` | `TypeCorrect`, `OnceInOrder`, `HandlersDoNotSleep`, `KernelListKnown` | `TypeOK`, `TasksRunOnceInOrder`, `NoHandlerSleeps`, `KernelListIsListed` |
| `TimerQueue_proofs` | `TypeCorrect`, `StaysArmed`, `ExpiresInTime`, `DeletedStaysGone` | `TypeOK`, `AlwaysArmed`, `InTime`, `DeletedIsGone` |
| `TcpInput_proofs` | `TypeCorrect`, `InputNeverFull`, `ShortReadsKept` | `TypeOK`, `NeverFull`, `ShortReadsAreKept` |
| | `MessagesInOrder` | the safety part of `ImplementsChannel` |
| | `ReadIntoRoom`, `ExactFillIsRefused`, `MoveReadDrops` | about `TcpBuffer` |
| `TcpOutput_proofs` | `TypeCorrect`, `WatchesCorrect`, `BufferIsComplete` | `TypeOK`, `WatchesWhileUnsent`, `HoldsEverything` |
| | `WriteToBufferAppends` | about `TcpBuffer` |
| `RpcCall_proofs` | `TypeCorrect`, `AtMostOneOutcome`, `SocketsAreOwned`, `OwnerIsTold` | `TypeOK`, `OneOutcome`, `OwnedSockets`, `WritableGoesToTheOwner` |
| `RpcServer_proofs` | `TypeCorrect`, `ServerReachable` | `TypeOK`, `StaysReachable` |
| `ServerStart_proofs` | `TypeCorrect`, `Crashes`, `Held` | `TypeOK`, `CrashesForItsConfig`, `HeldUntilStart` |
| `Logger_proofs` | `TypeCorrect`, `NoSleep`, `NoLineLostOrTwice`, `LinesStayInOrder`, `FilesStayInOrder` | `TypeOK`, `NoSleepOverLines`, `LinesOnceInOrder`, `FilesInOrder` |

**Buffer.** For every size, every content and every pair of indices, the lemmas say
what the member functions do to `Content`, the bytes between the two indices:
`resizeBuffer` and `adjustBuffer` keep it, `writeToBuffer` appends to it
(`WriteToBufferAppends`), a read into the room followed by `moveWriteIndex` appends
to it unless it fills the room exactly (`ReadIntoRoom`), in which case it does not
change (`ExactFillIsRefused`), and `moveReadIndex` drops from its front
(`MoveReadDrops`). They stand in the proofs of the half that uses the function; the
few facts both halves need (what a buffer is made of) are in both.

**Receive path.** `TypeOK` of `TcpInput` is not inductive. That
`moveReadIndex(length)` leaves the indices in order needs that a package found by
`decode` ends before the write index, which its guard says; that `moveWriteIndex` is
never handed an index behind the vector needs that `read()` is offered no more than
the room, and that the write index is below the size needs the same of the step
before, through `resizeBuffer` at the top of the read loop. The inductive invariant
is therefore `TypeOK` together with `NeverFull`: since the write index starts below
the size, `resizeBuffer` in `onRead` is never taken and every operation keeps the
vector's size. `ShortReadsKept` follows from the invariant and `ReadIntoRoom`.

`MessagesInOrder` is the refinement of `MessageChannel` without its fairness: every
step is a `Send`, a `Deliver` or changes neither `sent` nor `delivered`. It has three
hypotheses, each of which keeps out something the code does to messages.
- `Fits(L)`: a window of the longest packages fits in what `adjustBuffer` leaves free of
  the vector, two thirds of it. Otherwise a read may fill its room exactly, and its
  bytes are lost (the run with `MCTcpInputFull.cfg`).
- `Unambiguous`: inside a package, a byte that equals the start mark is followed by one
  that no length within the buffer begins with. `decode` examines every position, so
  while a package has not arrived completely it must not find another one in it.
- `SplitHeaders = FALSE`: no read ends inside a length field. Otherwise `decode` takes
  what lies behind the write index for the rest of the length. With zeros there it
  finds an empty package, for ever (the run with `MCTcpInputSplit.cfg`, below the
  table of section 3).

The instance of the passing run meets them with `L = 6`: a window of two packages of at
most six bytes in a buffer of 18, and a start mark in a message that 9 follows. The
inductive invariant `ChannelInv(L)` keeps the stream of all bytes the peer has sent and
the place where each package ends (`Stream`); the content of the buffer followed by the
wire is what remains of the stream after the packages taken (`Follows`), and the messages taken
are the first ones sent (`InOrder`). `BytesFit` shows that no read fills its room,
`WholePackage` that a package which has arrived is the first one found and is cut
correctly, `CutPackage` that nothing is found while it has not.

**Send path.** For `WatchesCorrect` nothing is to be added between two handlers but
the corresponding fact while `onWrite` is under way: the write event is still
registered until the handler cancels it, which it does only after a complete write.
`BufferIsComplete` needs to know what the queues hold: `m_write_dones` and the copy
that `onWrite` goes through are the last messages sent, in their order, and the
latter is empty outside of `onWrite`; on the server both are (`Queues`). `HInv` is
this with `TypeOK` and `HoldsEverything`. That encoding one more message appends it
to the concatenation of the others is an induction over the number of messages.

**Event loop**, for any number of threads, descriptors and calls. Two facts make the
properties inductive. `Adding`: a thread that is about to push holds the task after
its last one. `Looping`: the loop's batch is empty except between the swap and the
poll, and from the swap to the poll none of its own tasks is queued, since it pushes
only while it dispatches. The properties speak of executions up to the first
`DataRace`; nobody needs to own the mutex for them, because the push itself is not
taken in such a state.

**Timer**, for any events, intervals and retry delay, however the clock is set and
however late the loop is. `TInv` is `TypeOK`, `DeletedIsGone` and `OnePlace`: an event
`onTimer` has still to add again is not in the multimap, so that a later `insert`
cannot have it there twice, and `tmps` is empty outside of that part. `SInv` adds
`AlwaysArmed` and `InTime`: when an event comes to the head by being added, the
timerfd is set for it, or for the retry delay, before the application runs again; one
that comes there because others go arrives no earlier than the timerfd expires. What `Kept`, the upper bound and the insertion do to an
ordered sequence are lemmas.

**Call**, for any number of calls and descriptors. A callback works on the descriptor
its client had when the callback was registered, so the types are inductive only
together with `HasSocket`: no callback is registered or queued for a client without
one. `OneOutcome` needs besides that a canceled call is finished. `OInv` follows the
sockets through the loop, for `OwnedSockets` and `WritableGoesToTheOwner`: a socket
that is not free has exactly one owner (`OwnersOK`); what the loop watches was
registered by the client whose descriptor it is (`WatchedOK`); between `epoll_wait`
and the handler this cannot change, as only a handler or a new call could, and a
descriptor is reported once (`PolledOK`); a client that still waits to be connected
waits on its own descriptor (`ConnectOK`).

**Server**, for any number of connections, requests and IO threads. `StaysReachable`
is inductive together with what the two threads rely on (`SInv`): a connection has no
object and no state before it is accepted (`Accepted`), `onRead` does not close one
whose `setState` is still to come (`Unset`), and a descriptor that is removed because
of an error belongs to a client that has reset, now and for good (`ErrorIsReset`).
That `onAccept` and the loop of the IO thread overlap does no harm because the task
that adds the descriptor is on the queue of the thread the connection is given to,
and nothing but the task itself takes it from there.

**Start-up**, for any configuration files, clients, threads and limits. The
semaphores' meaning shows only together with where the main thread is: `Prepared`
says what it has when it gets there (the logger, a size of the group that is not
negative, its events), `Made(t)` which threads have a loop by then, `Started(t)` which
of them have been started, and `Given` that connections go to threads of the group and
that no more descriptors are used than there are. `CrashesForItsConfig` is inductive
with these: no step logs before `g_logger` is set, and the thread a connection is given
to has been made.

**Logger**, for any threads, lines, files and moment of a signal. `NoSleep`: a thread
that has enqueued a batch stands before its signal, and only that signal moves it on.
The lines need more (`LInv`): where a thread stands says whether it carries lines
(`Control`); the open file is the one of the last batch's day, no batch went to a
later one, and the number to go on with is not behind it (`FilesOK`); and `KeptIn(s)`
says that the files, the batch being written, the queue, what is carried and the
buffer of stream `s` hold each of its lines once, but for those a signal caught
between the buffer and the queue. No mutex
plays a part in any of it: a step either appends a line to the last batch, or moves a
whole batch to the next place, or the model has stopped at a data race.
`NoLineLostOrTwice` says so for every choice of `Hosts`, the threads a signal may come
to. That the lines are also in order (`LinesStayInOrder`) has the hypothesis
`Hosts \subseteq {Main}`, which the instance of the run meets: the handler then
stands on top of the thread whose timer calls `syncLoop`, so the two are never both
between taking the buffer and enqueueing it. With a signal on another thread they can
be, the later batch may be enqueued first, and TLC finds `LinesOnceInOrder` violated.

Two techniques recur. What a recursive definition computes (`Kept` in `TimerQueue`,
`Answered` in `RpcServer`, the community modules' `FlattenSeq` in `TcpOutput`) is
shown with the least-number principle, from `WFMin` and `NatLessThanWellFounded`: the
lengths for which the claim fails have a least one, and the claim for the one before
gives a contradiction. (The library's induction theorems have an operator as
parameter and cannot be used by these provers.) `Kept` and `Answered` are written as
recursive functions, and not with `SelectSeq`, so that they can be unfolded.

Only model-checked: liveness (`AddedTaskRuns`, `StopEndsLoop`, `InputIsHandled`,
`PendingRuns`, `CallFinishes`, `RequestsAreRead`, `ClosedIsDeleted`, `RepliesAreSent`,
`StartupEnds`, `ConnectedAreRegistered`, `LinesReachFiles`), which is out of the
prover's reach, with the fairness of `MessageChannel`, and the refinement of
`ReplyChannel`. The safety part of the latter depends on what the messages look like:
a reader that looks for messages in a stream of cut prefixes may find one that was not
sent yet where the rest of one and the beginning of another look like it. A theorem
needs a condition on messages under which this cannot be, and one weaker than that
each has a byte of its own has not been found.

## 5. Not modelled

- Mutex and containers after a data race: C++ defines nothing from there on. The
  states are reachable (`DataRace` in `EventLoop` and `Logger`), since `ScopeMutex`
  unlocks a mutex another thread may hold.
- Connection: `shutdown()`, which nobody calls; a done function that sends the next
  message (`onWrite` clears `m_write_dones` after running it, so that message would
  be lost). The done functions run even when `write()` returned EAGAIN, although
  tcp_client.h says they run when the message has been sent. That the peer's
  `decode` finds a message among cut prefixes of earlier ones is not part of
  `TcpOutput`.
- Fields inside a package; messages that do not fit `decode`'s arrays.
- Client: a reset that follows a FIN; a `socket()` that fails when a refused connection
  is reopened.
- Timer: an `onTimer` that runs after `timerfd_settime` has forgotten the expiration it
  was queued for. It takes out what has arrived and sets the timerfd again, as
  `OnTimer` does.
- A channel used without `Init()`. The `rt == 0` branch of a non-blocking
  `::connect` is modelled (`ConnectAtOnce`) although TCP seldom takes it.
- Descriptor events: the growth of `FdEventGroup` and its unsynchronised creation.
- Logger: type 0, which writes synchronously (its application lines are never
  drained); the text of a line; `fopen` that fails (the null file is then used); a
  handler that is interrupted itself or runs on an `AsyncLogger` thread; the race of
  `flush()`'s `fflush` on the handler's thread with the writer that closes that file. In the model, as in the code, the handler may
  wait for a mutex its own thread holds, the first rotation opens the overfull file
  again (log.cc:279), and lines a signal catches between swap and queue are lost.
- Start-up: the table of stubs, the client's empty configuration and the parsing of
  addresses. The model keeps that `exit(0)` after `ERRORLOG` loses the line, that a
  port is cut to 16 bits before `checkValid` sees it, that a failed `pthread_create`
  of an IO thread leaves the constructor waiting, and that descriptors of
  connections are never closed. `accept()` is given an address length of 4, so the
  peer address reads 0.0.0.0; nothing depends on it. What a crash after `init` makes
  of the logger is `Logger`'s subject.
- Shut-down: `join()`, `~IOThread` and `~TcpServer`, which run after the main loop,
  which never ends.
- Message ids, run time, error codes, string coder, generator, and the test programs
  other than the example server.

## 6. Plan

1. `EventLoop`, `TcpBuffer`, `TcpInput`, `MessageChannel`, `TimerQueue`,
   `RpcCall`, `RpcServer` with their runs; proofs of the receive path. (done)
2. `TcpOutput` with `ReplyChannel`, `Logger`, `ServerStart`; proofs about
   `EventLoop`, `TcpOutput`, `RpcCall`, `Logger` and `ServerStart`. (done)
3. Proofs of the remaining invariants: `TimerQueue`, `RpcServer`, the sockets of
   `RpcCall`, the lines and files of `Logger`, the buffer of `TcpOutput`. (done)
4. The safety part of the refinement of `MessageChannel`. (done)
5. That of `ReplyChannel`, under a condition on the messages.
6. A request and its reply end to end: `TcpInput` fed by the stream `TcpOutput`
   makes, once the library moves the read index of its output buffer.
