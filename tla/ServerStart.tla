---------------------------- MODULE ServerStart ----------------------------
(***************************************************************************)
(* How a server comes up (main of testcases/test_rpc_server.cc): the       *)
(* configuration is read, the logger and its two threads are made, the     *)
(* listening socket is opened, the IO threads are made one after another   *)
(* and held until start(), and then every thread enters its loop.  Three   *)
(* handshakes with semaphores keep the threads in step: an AsyncLogger's   *)
(* constructor waits until its condition variable is initialised, an       *)
(* IOThread's constructor until its loop exists, and an IO thread until it *)
(* is started.                                                             *)
(*                                                                         *)
(* Clients can connect from listen() on; they wait in the backlog until    *)
(* the main loop runs.  What the loops, connections and loggers do then is *)
(* the subject of the other modules.                                       *)
(***************************************************************************)
EXTENDS Integers, Sequences, FiniteSets

CONSTANTS
    Documents,      \* configuration files the server may be started with
    Clients,        \* clients that connect
    MaxThreads,     \* bound: IO threads a document asks for
    MaxFds,         \* descriptors the process may use for connections
    Ephemeral,      \* ports the kernel may choose for port 0
    Faults          \* calls that may fail: "thread", "epoll", "socket"

\* The nodes the macros of config.cc insist on, and those of a stub.
Required ==
    {"root", "log", "server", "log_level", "log_file_name", "log_file_path",
     "log_max_file_size", "log_sync_interval", "port", "io_threads"}
StubNodes == {"name", "timeout", "ip", "port"}

Document ==
    [loads : BOOLEAN, nodes : SUBSET Required, level : 0 .. 3,
     port : Int, ioThreads : Int, stubs : Seq(SUBSET StubNodes)]

Ports == 65536                  \* port numbers are uint16_t
NoPort == -1
Threads == 1 .. MaxThreads
Streams == {"rpc", "app"}

ASSUME ThreadsAssumption == MaxThreads \in Nat /\ MaxFds \in Nat
ASSUME DocumentsAssumption ==
    /\ Documents \subseteq Document
    /\ \A d \in Documents : d.ioThreads <= MaxThreads
ASSUME PortsAssumption == Ephemeral \subseteq 1 .. Ports - 1 /\ Ephemeral # {}
ASSUME FaultsAssumption == Faults \subseteq {"thread", "epoll", "socket"}

VARIABLES
    config,     \* the document, g_config once it is read
    main,       \* where the main thread is
    next,       \* the IO thread it makes or starts next
    fate,       \* of the process: "running", "exited" or "crashed"
    logger,     \* g_logger is set
    pending,    \* m_buffer of the logger has lines
    async,      \* the thread of each AsyncLogger
    events,     \* what the loop of the main thread has been given
    bound,      \* the port listened on, or NoPort
    io,         \* where each IO thread is
    loopMade,   \* m_event_loop of the IO thread is set
    initSem,    \* m_init_semaphore
    startSem,   \* m_start_semaphore
    index,      \* m_index of the group
    client      \* each client: its place and the IO thread it was given to

mainVars == <<config, main, next>>
logVars == <<logger, async>>
threadVars == <<io, loopMade, initSem, startSem>>
netVars == <<events, bound, index, client>>
vars == <<mainVars, fate, pending, logVars, threadVars, netVars>>

Init ==
    /\ config \in Documents
    /\ main = "config" /\ next = 1 /\ fate = "running"
    /\ logger = FALSE /\ pending = FALSE /\ async = [s \in Streams |-> "none"]
    /\ events = {} /\ bound = NoPort
    /\ io = [t \in Threads |-> "none"]
    /\ loopMade = [t \in Threads |-> FALSE]
    /\ initSem = [t \in Threads |-> 0] /\ startSem = [t \in Threads |-> 0]
    /\ index = 0
    /\ client = [c \in Clients |-> [place |-> "away", thread |-> 0]]

At(place) == fate = "running" /\ main = place
Running(t, place) == fate = "running" /\ io[t] = place

(***************************************************************************)
(* Logging.  The macros use g_logger without asking whether it is set, and *)
(* compare the level that is set with their own (1 for DEBUGLOG, which     *)
(* also wants it known, and 2 for INFOLOG).                                *)
(***************************************************************************)
Passes(line) == config.level <= line /\ (line = 1 => config.level # 0)

Log(line) ==
    IF logger THEN pending' = (pending \/ Passes(line)) /\ UNCHANGED fate
              ELSE fate' = "crashed" /\ UNCHANGED pending

\* ERRORLOG and exit(0); the line is not written, and the status is 0.
Fail == fate' = (IF logger THEN "exited" ELSE "crashed") /\ UNCHANGED pending

(***************************************************************************)
(* Config.                                                                 *)
(***************************************************************************)
Readable(d) == d.loads /\ Required \subseteq d.nodes
\* The nodes of a stub are used without looking whether they are there.
StubsComplete(d) == \A i \in DOMAIN d.stubs : d.stubs[i] = StubNodes

SetGlobalConfig ==
    /\ At("config")
    /\ \/ /\ Readable(config) /\ StubsComplete(config)
          /\ main' = "rpc logger" /\ UNCHANGED fate
       \/ /\ ~Readable(config)
          /\ fate' = "exited" /\ UNCHANGED main
       \/ /\ Readable(config) /\ ~StubsComplete(config)
          /\ fate' = "crashed" /\ UNCHANGED main
    /\ UNCHANGED <<config, next, pending, logVars, threadVars, netVars>>

(***************************************************************************)
(* InitGlobalLogger.                                                       *)
(***************************************************************************)
Making(s) == IF s = "rpc" THEN "rpc logger" ELSE "app logger"
Waiting(s) == IF s = "rpc" THEN "rpc semaphore" ELSE "app semaphore"

\* Constructor of AsyncLogger: the thread is created inside an assert.
NewAsyncLogger(s) ==
    /\ At(Making(s))
    /\ \/ async' = [async EXCEPT ![s] = "created"] /\ main' = Waiting(s) /\ UNCHANGED fate
       \/ /\ "thread" \in Faults
          /\ async' = [async EXCEPT ![s] = "failed"] /\ fate' = "crashed" /\ UNCHANGED main
    /\ UNCHANGED <<config, next, pending, logger, threadVars, netVars>>

\* AsyncLogger::Loop before its while: the condition, then the semaphore.
BeginAsync(s) ==
    /\ fate = "running"
    /\ \/ async[s] = "created" /\ async' = [async EXCEPT ![s] = "initialised"]
       \/ async[s] = "initialised" /\ async' = [async EXCEPT ![s] = "posted"]
    /\ UNCHANGED <<mainVars, fate, pending, logger, threadVars, netVars>>

\* fault: the constructor does not wait for the semaphore.
Unasked(s) == TRUE

\* sem_wait of the constructor.
Posted(s) == async[s] = "posted"

\* The constructor returns; after the second one g_logger is set.
AsyncLoggerMade(s) ==
    /\ At(Waiting(s)) /\ Posted(s)
    /\ main' = (IF s = "rpc" THEN "app logger" ELSE "init logger")
    /\ logger' = (s = "app")
    /\ UNCHANGED <<config, next, fate, pending, async, threadVars, netVars>>

\* Logger::init: the constructor of the main thread's EventLoop, which may fail
\* and logs, the timer that syncs the lines, and the signal handlers.
InitLogger ==
    /\ At("init logger")
    /\ \/ events' = {"sync timer"} /\ main' = "acceptor" /\ Log(2)
       \/ "epoll" \in Faults /\ Fail /\ UNCHANGED <<events, main>>
    /\ UNCHANGED <<config, next, logVars, threadVars, bound, index, client>>

(***************************************************************************)
(* TcpServer.                                                              *)
(***************************************************************************)
\* IPNetAddr(ip, port), and checkValid of what it keeps.
Kept(port) == port % Ports
CheckValid(port) == 0 <= port /\ port <= Ports

\* Constructor of TcpAcceptor: socket, bind and listen.
OpenListener ==
    /\ At("acceptor")
    /\ \/ /\ CheckValid(Kept(config.port))
          /\ bound' \in IF Kept(config.port) = 0 THEN Ephemeral ELSE {Kept(config.port)}
          /\ main' = "group" /\ UNCHANGED <<fate, pending>>
       \/ /\ "socket" \in Faults \/ ~CheckValid(Kept(config.port))
          /\ Fail /\ UNCHANGED <<bound, main>>
    /\ UNCHANGED <<config, next, logVars, threadVars, events, index, client>>

\* IOThreadGroup(size): resize refuses a negative size.
NewGroup ==
    /\ At("group")
    /\ \/ config.ioThreads >= 0 /\ main' = "threads" /\ UNCHANGED fate
       \/ config.ioThreads < 0 /\ fate' = "crashed" /\ UNCHANGED main
    /\ UNCHANGED <<config, next, pending, logVars, threadVars, netVars>>

\* Constructor of IOThread; whether pthread_create succeeds is not looked at.
NewIOThread ==
    /\ At("threads") /\ next <= config.ioThreads
    /\ \E outcome \in {"created"} \cup (IF "thread" \in Faults THEN {"failed"} ELSE {}) :
           io' = [io EXCEPT ![next] = outcome]
    /\ main' = "init semaphore"
    /\ UNCHANGED <<config, next, fate, pending, logVars, loopMade, initSem, startSem, netVars>>

\* fault: every wait is answered twice.
PostTwice(sem, t) == sem' = [sem EXCEPT ![t] = @ + 2]

\* sem_wait and sem_post.
SemWait(sem, t) == sem[t] > 0 /\ sem' = [sem EXCEPT ![t] = @ - 1]
SemPost(sem, t) == sem' = [sem EXCEPT ![t] = @ + 1]

IOThreadMade ==
    /\ At("init semaphore")
    /\ SemWait(initSem, next)
    /\ Log(1)
    /\ main' = "threads" /\ next' = next + 1
    /\ UNCHANGED <<config, logVars, io, loopMade, startSem, netVars>>

\* The rest of init() and of the constructor: the loop of the main thread gets
\* the accept handler and the timer that clears connections.
ListenEvents ==
    /\ At("threads") /\ next > config.ioThreads
    /\ events' = events \cup {"accept", "clear timer"}
    /\ Log(2)
    /\ main' = "start" /\ next' = 1
    /\ UNCHANGED <<config, logVars, threadVars, bound, index, client>>

\* fault: the last thread is left out.
Last == config.ioThreads - 1

\* start(): every thread of the group, and then the loop.
ToStart == config.ioThreads

StartThread ==
    /\ At("start") /\ next <= ToStart
    /\ Log(1)
    /\ SemPost(startSem, next)
    /\ next' = next + 1
    /\ UNCHANGED <<config, main, logVars, io, loopMade, initSem, netVars>>

EnterLoop ==
    /\ At("start") /\ next > ToStart
    /\ main' = "loop"
    /\ UNCHANGED <<config, next, fate, pending, logVars, threadVars, netVars>>

(***************************************************************************)
(* IOThread::Main.                                                         *)
(***************************************************************************)
\* The constructor of EventLoop may fail, and logs.
MakeLoop(t) ==
    /\ Running(t, "created")
    /\ \/ /\ loopMade' = [loopMade EXCEPT ![t] = TRUE]
          /\ io' = [io EXCEPT ![t] = "made"]
          /\ Log(2)
       \/ "epoll" \in Faults /\ Fail /\ UNCHANGED <<loopMade, io>>
    /\ UNCHANGED <<mainVars, logVars, initSem, startSem, netVars>>

PostInit(t) ==
    /\ Running(t, "made")
    /\ SemPost(initSem, t)
    /\ io' = [io EXCEPT ![t] = "posted"]
    /\ UNCHANGED <<mainVars, fate, pending, logVars, loopMade, startSem, netVars>>

HoldThread(t) ==
    /\ Running(t, "posted")
    /\ Log(1)
    /\ io' = [io EXCEPT ![t] = "held"]
    /\ UNCHANGED <<mainVars, logVars, loopMade, initSem, startSem, netVars>>

\* fault: the thread does not wait to be started.
Unheld(t) == UNCHANGED startSem

\* sem_wait of the thread.
AwaitStart(t) == SemWait(startSem, t)

RunThread(t) ==
    /\ Running(t, "held")
    /\ AwaitStart(t)
    /\ Log(1)
    /\ io' = [io EXCEPT ![t] = "loop"]
    /\ UNCHANGED <<mainVars, logVars, loopMade, initSem, netVars>>

\* The loop runs its tasks: the connections given to it are registered.
RunTasks(t) ==
    /\ Running(t, "loop")
    /\ \E c \in Clients : client[c] = [place |-> "given", thread |-> t]
    /\ client' = [c \in Clients |->
                     IF client[c] = [place |-> "given", thread |-> t]
                     THEN [client[c] EXCEPT !.place = "registered"] ELSE client[c]]
    /\ UNCHANGED <<mainVars, fate, pending, logVars, threadVars, events, bound, index>>

(***************************************************************************)
(* The loop of the main thread.                                            *)
(***************************************************************************)
\* getIOThread, counting from 0: the position used.
Position == IF index = config.ioThreads \/ index = -1 THEN 0 ELSE index

\* Descriptors in use: clear() does not close the one of a connection that ends.
Used == {c \in Clients : client[c].thread # 0}

\* accept() succeeds, the group has a thread for the connection, and the thread
\* has a loop.
Acceptable ==
    /\ Cardinality(Used) < MaxFds
    /\ Position < config.ioThreads
    /\ loopMade[Position + 1]

\* onAccept: the connection goes to a thread of the group, whose loop is given
\* a task.  None of the three is looked at: what comes of getFdEvent(-1), of
\* asking a group without threads, or of using no loop, C++ does not define.
OnAccept(c) ==
    /\ At("loop") /\ "accept" \in events
    /\ client[c].place = "backlog"
    /\ \/ /\ Acceptable
          /\ client' = [client EXCEPT ![c] = [place |-> "given", thread |-> Position + 1]]
          /\ index' = Position + 1
          /\ Log(2)
       \/ /\ ~Acceptable
          /\ fate' = "crashed" /\ UNCHANGED <<client, index, pending>>
    /\ UNCHANGED <<mainVars, logVars, threadVars, events, bound>>

\* The timer of the logger, when there are lines: they go to the AsyncLogger,
\* whose condition is signalled and must have been initialised.
SyncLines ==
    /\ At("loop") /\ "sync timer" \in events /\ pending
    /\ pending' = FALSE
    /\ fate' = (IF async["rpc"] = "created" THEN "crashed" ELSE fate)
    /\ UNCHANGED <<mainVars, logVars, threadVars, netVars>>

\* The kernel accepts a connection for the backlog.
Connect(c) ==
    /\ fate = "running" /\ bound # NoPort
    /\ client[c].place = "away"
    /\ client' = [client EXCEPT ![c].place = "backlog"]
    /\ UNCHANGED <<mainVars, fate, pending, logVars, threadVars, events, bound, index>>

\* A client leaves, and its connection is cleared.
Leave(c) ==
    /\ fate = "running" /\ client[c].place = "registered"
    /\ client' = [client EXCEPT ![c].place = "gone"]
    /\ UNCHANGED <<mainVars, fate, pending, logVars, threadVars, events, bound, index>>

MainStep ==
    \/ SetGlobalConfig \/ InitLogger \/ OpenListener \/ NewGroup
    \/ NewIOThread \/ IOThreadMade \/ ListenEvents \/ StartThread \/ EnterLoop
    \/ \E s \in Streams : NewAsyncLogger(s) \/ AsyncLoggerMade(s)

IOStep(t) == MakeLoop(t) \/ PostInit(t) \/ HoldThread(t) \/ RunThread(t) \/ RunTasks(t)

Next ==
    \/ MainStep \/ SyncLines
    \/ \E c \in Clients : OnAccept(c) \/ Connect(c) \/ Leave(c)
    \/ \E t \in Threads : IOStep(t)
    \/ \E s \in Streams : BeginAsync(s)

\* The threads run.  The accept event of a listening socket is level-triggered:
\* every client of the backlog has its turn.
Fairness ==
    /\ WF_vars(MainStep)
    /\ WF_vars(SyncLines)
    /\ \A c \in Clients : WF_vars(OnAccept(c))
    /\ \A t \in Threads : WF_vars(IOStep(t))
    /\ \A s \in Streams : WF_vars(BeginAsync(s))

Spec == Init /\ [][Next]_vars /\ Fairness

-----------------------------------------------------------------------------
Places == {"away", "backlog", "given", "registered", "gone"}
TypeOK ==
    /\ config \in Documents
    /\ main \in {"config", "init logger", "acceptor", "group", "threads", "init semaphore",
                 "start", "loop"} \cup {Making(s) : s \in Streams} \cup {Waiting(s) : s \in Streams}
    /\ next \in 1 .. MaxThreads + 1
    /\ fate \in {"running", "exited", "crashed"}
    /\ logger \in BOOLEAN /\ pending \in BOOLEAN
    /\ async \in [Streams -> {"none", "created", "failed", "initialised", "posted"}]
    /\ events \subseteq {"sync timer", "accept", "clear timer"}
    /\ bound \in {NoPort} \cup (1 .. Ports - 1)
    /\ io \in [Threads -> {"none", "created", "failed", "made", "posted", "held", "loop"}]
    /\ loopMade \in [Threads -> BOOLEAN]
    /\ initSem \in [Threads -> 0 .. 1] /\ startSem \in [Threads -> 0 .. 1]
    /\ index \in 0 .. MaxThreads
    /\ client \in [Clients -> [place : Places, thread : 0 .. MaxThreads]]

\* The order of construction and the handshakes leave nothing unset when it is
\* used (g_logger, a loop, a condition variable): the process crashes only for a
\* stub without its nodes, a group that is not positive, a logger thread that
\* cannot be created, or a client more than there are descriptors, those of the
\* clients that have gone included.
CrashesForItsConfig ==
    fate = "crashed" =>
        \/ ~StubsComplete(config)
        \/ config.ioThreads < 0
        \/ \E s \in Streams : async[s] = "failed"
        \/ /\ \E c \in Clients : client[c].place = "backlog"
           /\ config.ioThreads = 0 \/ Cardinality(Used) = MaxFds

\* io_thread.cc:56: the loops run only after the events have been added, and a
\* connection is given only to a thread whose loop exists and which runs or has
\* been started.
HeldUntilStart ==
    /\ \A t \in Threads :
           io[t] = "loop" => {"accept", "clear timer"} \subseteq events /\ loopMade[t]
    /\ \A c \in Clients :
           LET t == client[c].thread
           IN  t # 0 => loopMade[t] /\ (io[t] = "loop" \/ startSem[t] = 1)

ThreadFailed == \E t \in Threads : io[t] = "failed"

\* The server comes up with all its threads, or the process ends; it waits for
\* ever only for a thread that could not be created.
Up == main = "loop" /\ \A t \in Threads : t <= config.ioThreads => io[t] = "loop"
StartupEnds == <>(Up \/ fate # "running" \/ ThreadFailed)

\* A client that connects, however early, is registered with the loop of an IO
\* thread, unless the startup fails.
ConnectedAreRegistered ==
    \A c \in Clients :
        (client[c].place = "backlog") ~>
            (client[c].place = "registered" \/ fate # "running" \/ ThreadFailed)
=============================================================================
