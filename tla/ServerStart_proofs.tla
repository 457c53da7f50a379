------------------------- MODULE ServerStart_proofs -------------------------
(***************************************************************************)
(* The start of the server, for every configuration, every number of IO    *)
(* threads, every set of clients and every limit on descriptors: nothing   *)
(* is used before it is set, and no loop runs before it is allowed to.     *)
(*                                                                         *)
(* What the semaphores of IOThread and AsyncLogger guarantee is only       *)
(* visible together with where the main thread is: which of the threads    *)
(* have been made, and which have been started, is a function of main and  *)
(* next (Made, Started).                                                   *)
(***************************************************************************)
EXTENDS ServerStart, FiniteSetTheorems, TLAPS

\* Where the main thread is after the loggers, after the group has been begun,
\* and after the listening socket's events have been added.
Starting == {"start", "loop"}
Threaded == {"threads", "init semaphore"} \cup Starting
Logging == {"init logger", "acceptor", "group"} \cup Threaded

\* The main thread has what it is going to use.
Prepared ==
    /\ main \in {"app logger", "app semaphore"} \cup Logging => async["rpc"] = "posted"
    /\ main \in Logging => logger /\ async["app"] = "posted"
    /\ main \in Threaded => 0 <= config.ioThreads
    /\ main \notin Threaded => next = 1
    /\ main = "init semaphore" => next <= config.ioThreads
    /\ main \in Starting => {"accept", "clear timer"} \subseteq events

\* Thread t and its first semaphore.
Made(t) ==
    /\ io[t] # "none" => main \in Threaded
    /\ initSem[t] # 0 => io[t] \in {"posted", "held", "loop"}
    /\ io[t] \in {"made", "posted", "held", "loop"} => loopMade[t]
    /\ main = "threads" => IF t < next THEN loopMade[t] ELSE io[t] = "none"
    /\ main = "init semaphore" => (t < next => loopMade[t]) /\ (t > next => io[t] = "none")
    /\ main \in Starting /\ t <= config.ioThreads => loopMade[t]

\* Thread t and its second semaphore.
IsStarted(t) == io[t] = "loop" \/ startSem[t] = 1
Started(t) ==
    /\ io[t] = "loop" \/ startSem[t] # 0 => main \in Starting
    /\ main = "start" => IF t < next THEN IsStarted(t) ELSE startSem[t] = 0 /\ io[t] # "loop"
    /\ main = "loop" /\ t <= config.ioThreads => IsStarted(t)

\* Connections are given to threads of the group, one descriptor each.
Given ==
    /\ main # "loop" => index = 0 /\ \A c \in Clients : client[c].thread = 0
    /\ main = "loop" => index <= config.ioThreads
    /\ \A c \in Clients : client[c].thread # 0 => client[c].thread <= config.ioThreads
    /\ IsFiniteSet(Used) /\ Cardinality(Used) <= MaxFds

\* The inductive invariant.
IInv ==
    /\ TypeOK
    /\ Prepared
    /\ \A t \in Threads : Made(t) /\ Started(t)
    /\ Given
    /\ CrashesForItsConfig

-----------------------------------------------------------------------------
LEMMA ConfigFields ==
    ASSUME config \in Documents
    PROVE  /\ config.ioThreads \in Int /\ config.ioThreads <= MaxThreads
           /\ config.port \in Int /\ config.level \in Int
           /\ MaxThreads \in Nat
  BY DocumentsAssumption, ThreadsAssumption DEF Document

\* Arithmetic and functions.
LEMMA Remainder ==
    ASSUME NEW n \in Int, NEW k \in Nat, k > 0
    PROVE  n % k \in 0 .. k - 1
  OBVIOUS

LEMMA Replaced ==
    ASSUME NEW S, NEW R, NEW f \in [S -> R], NEW i, NEW v \in R
    PROVE  [f EXCEPT ![i] = v] \in [S -> R]
  OBVIOUS

\* The numbers, the functions, and one thread.
LEMMA Numbers ==
    ASSUME IInv
    PROVE  /\ next \in Int /\ 1 <= next /\ next <= MaxThreads + 1
           /\ MaxThreads \in Nat
  <1>1. next \in 1 .. MaxThreads + 1
    BY DEF IInv, TypeOK
  <1>2. MaxThreads \in Nat
    BY ThreadsAssumption
  <1>. QED
    BY <1>1, <1>2

LEMMA Fields ==
    ASSUME IInv
    PROVE  /\ config.ioThreads \in Int /\ config.ioThreads <= MaxThreads
           /\ config.port \in Int
  <1>1. config \in Documents
    BY DEF IInv, TypeOK
  <1>. QED
    BY <1>1, ConfigFields

LEMMA Functions ==
    ASSUME IInv
    PROVE  /\ io \in [Threads -> {"none", "created", "failed", "made", "posted", "held", "loop"}]
           /\ loopMade \in [Threads -> BOOLEAN]
           /\ initSem \in [Threads -> 0 .. 1] /\ startSem \in [Threads -> 0 .. 1]
  BY DEF IInv, TypeOK

LEMMA Thread ==
    ASSUME IInv, NEW t \in Threads
    PROVE  Made(t) /\ Started(t) /\ t \in Int /\ 1 <= t /\ t <= MaxThreads
  <1>1. MaxThreads \in Nat
    BY ThreadsAssumption
  <1>. QED
    BY <1>1 DEF IInv, Threads

\* Logging and failing, once g_logger is set.
LEMMA LogKept ==
    ASSUME logger, TypeOK, NEW line, Log(line)
    PROVE  fate' = fate /\ pending' \in BOOLEAN
  BY DEF Log, Passes, TypeOK

LEMMA FailKept ==
    ASSUME logger, TypeOK, Fail
    PROVE  fate' = "exited" /\ pending' = pending
  BY DEF Fail, TypeOK

LEMMA NotCrashed ==
    ASSUME fate' # "crashed"
    PROVE  CrashesForItsConfig'
  BY DEF CrashesForItsConfig

\* Connections that are not given to another thread.
LEMMA GivenKept ==
    ASSUME Given, UNCHANGED <<config, index, client>>,
           main' = main \/ (main # "loop" /\ main' # "loop")
    PROVE  Given'
  BY DEF Given, Used

\* The steps before the group of IO threads, which make no thread and give no
\* connection away.
LEMMA Before ==
    ASSUME IInv, main \notin Threaded, main' \notin Threaded,
           UNCHANGED <<config, next, threadVars, index, client>>
    PROVE  /\ \A t \in Threads : Made(t)' /\ Started(t)'
           /\ Given'
           /\ main' \notin Threaded => next' = 1
  <1>1. Given'
    BY GivenKept DEF IInv, Threaded, Starting
  <1>2. \A t \in Threads : Made(t)' /\ Started(t)'
    BY DEF IInv, Made, Started, IsStarted, Threaded, Starting, threadVars
  <1>. QED
    BY <1>1, <1>2 DEF IInv, Prepared

LEMMA InitIInv == Init => IInv
  <1>. SUFFICES ASSUME Init PROVE IInv
    OBVIOUS
  <1>1. config \in Documents /\ MaxThreads \in Nat /\ MaxFds \in Nat
    BY ThreadsAssumption DEF Init
  <1>2. TypeOK
    <2>1. /\ next \in 1 .. MaxThreads + 1 /\ index \in 0 .. MaxThreads
          /\ events \subseteq {"sync timer", "accept", "clear timer"}
      BY <1>1 DEF Init
    <2>2. /\ io \in [Threads -> {"none", "created", "failed", "made", "posted", "held", "loop"}]
          /\ loopMade \in [Threads -> BOOLEAN]
          /\ initSem \in [Threads -> 0 .. 1] /\ startSem \in [Threads -> 0 .. 1]
      BY DEF Init
    <2>3. client \in [Clients -> [place : Places, thread : 0 .. MaxThreads]]
      BY <1>1 DEF Init, Places
    <2>4. async \in [Streams -> {"none", "created", "failed", "initialised", "posted"}]
      BY DEF Init
    <2>. QED
      BY <1>1, <2>1, <2>2, <2>3, <2>4 DEF Init, TypeOK
  <1>3. Prepared
    BY DEF Init, Prepared, Logging, Threaded, Starting
  <1>4. \A t \in Threads : Made(t) /\ Started(t)
    BY DEF Init, Made, Started, IsStarted, Threaded, Starting
  <1>5. Given
    <2>1. Used = {}
      BY DEF Init, Used
    <2>. QED
      BY <1>1, <2>1, FS_EmptySet DEF Init, Given
  <1>6. CrashesForItsConfig
    BY DEF Init, CrashesForItsConfig
  <1>. QED
    BY <1>2, <1>3, <1>4, <1>5, <1>6 DEF IInv

-----------------------------------------------------------------------------
\* The main thread, until it begins the group.
LEMMA SetGlobalConfigStep ==
    ASSUME IInv, SetGlobalConfig
    PROVE  IInv'
  <1>1. /\ main = "config" /\ main' \in {"config", "rpc logger"}
        /\ fate' \in {"running", "exited", "crashed"}
        /\ fate' = "crashed" => ~StubsComplete(config)
        /\ UNCHANGED <<config, next, pending, logVars, threadVars, netVars>>
    BY DEF SetGlobalConfig, At
  <1>2. TypeOK'
    BY <1>1 DEF IInv, TypeOK, logVars, threadVars, netVars, Making, Streams
  <1>3. /\ \A t \in Threads : Made(t)' /\ Started(t)'
        /\ Given' /\ next' = 1
    BY <1>1, Before DEF Threaded, Starting, netVars
  <1>4. Prepared'
    BY <1>1, <1>3 DEF Prepared, Logging, Threaded, Starting
  <1>5. CrashesForItsConfig'
    BY <1>1 DEF CrashesForItsConfig, StubsComplete
  <1>. QED
    BY <1>2, <1>3, <1>4, <1>5 DEF IInv

LEMMA LoggerSteps ==
    ASSUME IInv, NEW s \in Streams, NewAsyncLogger(s) \/ AsyncLoggerMade(s)
    PROVE  IInv'
  <1>1. /\ main \in {"rpc logger", "rpc semaphore", "app logger", "app semaphore"}
        /\ main' \in {"rpc logger", "rpc semaphore", "app logger", "app semaphore", "init logger"}
        /\ UNCHANGED <<config, next, pending, threadVars, netVars>>
    BY DEF NewAsyncLogger, AsyncLoggerMade, At, Making, Waiting, Streams
  <1>2. /\ \A t \in Threads : Made(t)' /\ Started(t)'
        /\ Given' /\ next' = 1
    BY <1>1, Before DEF Threaded, Starting, netVars
  <1>3. CASE NewAsyncLogger(s)
    <2>1. /\ main = Making(s) /\ main' \in {Making(s), Waiting(s)} /\ UNCHANGED logger
          /\ async' \in {[async EXCEPT ![s] = "created"], [async EXCEPT ![s] = "failed"]}
          /\ fate' \in {"running", "crashed"}
          /\ fate' = "crashed" => async' = [async EXCEPT ![s] = "failed"]
      BY <1>3 DEF NewAsyncLogger, At
    <2>2. TypeOK'
      BY <1>1, <2>1 DEF IInv, TypeOK, threadVars, netVars
    <2>3. Prepared'
      BY <1>1, <1>2, <2>1 DEF IInv, TypeOK, Prepared, Logging, Threaded, Starting, Making, Waiting,
                              Streams
    <2>4. CrashesForItsConfig'
      BY <2>1 DEF CrashesForItsConfig, IInv, TypeOK
    <2>. QED
      BY <1>2, <2>2, <2>3, <2>4 DEF IInv
  <1>4. CASE AsyncLoggerMade(s)
    <2>1. /\ main = Waiting(s) /\ async[s] = "posted" /\ logger' = (s = "app")
          /\ main' = (IF s = "rpc" THEN "app logger" ELSE "init logger")
          /\ fate' = "running" /\ UNCHANGED async
      BY <1>4 DEF AsyncLoggerMade, At, Posted
    <2>2. logger' \in BOOLEAN
      BY <2>1
    <2>3. TypeOK'
      BY <1>1, <2>1, <2>2 DEF IInv, TypeOK, threadVars, netVars, Making, Streams
    <2>4. Prepared'
      BY <1>1, <1>2, <2>1 DEF IInv, Prepared, Logging, Threaded, Starting, Waiting, Streams
    <2>5. CrashesForItsConfig'
      BY <2>1 DEF CrashesForItsConfig
    <2>. QED
      BY <1>2, <2>3, <2>4, <2>5 DEF IInv
  <1>. QED
    BY <1>3, <1>4

\* Every line but the first of the logger's own is logged when g_logger is set.
LEMMA Logged ==
    ASSUME IInv, main \in Logging, fate = "running", NEW line, Log(line)
    PROVE  fate' = "running" /\ pending' \in BOOLEAN
  BY LogKept DEF IInv, Prepared

LEMMA InitLoggerStep ==
    ASSUME IInv, InitLogger
    PROVE  IInv'
  <1>1. /\ main = "init logger" /\ main' \in {"init logger", "acceptor"}
        /\ events' \in {events, {"sync timer"}}
        /\ UNCHANGED <<config, next, logVars, threadVars, bound, index, client>>
    BY DEF InitLogger, At
  <1>2. logger /\ fate = "running"
    BY <1>1 DEF InitLogger, At, IInv, Prepared, Logging
  <1>3. fate' \in {"running", "exited"} /\ pending' \in BOOLEAN
    BY <1>1, <1>2, Logged, FailKept DEF InitLogger, IInv, TypeOK, Logging
  <1>4. TypeOK'
    BY <1>1, <1>3 DEF IInv, TypeOK, logVars, threadVars
  <1>5. /\ \A t \in Threads : Made(t)' /\ Started(t)'
        /\ Given' /\ next' = 1
    BY <1>1, Before DEF Threaded, Starting
  <1>6. Prepared'
    BY <1>1, <1>5 DEF IInv, Prepared, Logging, Threaded, Starting, logVars
  <1>. QED
    BY <1>3, <1>4, <1>5, <1>6, NotCrashed DEF IInv

LEMMA OpenListenerStep ==
    ASSUME IInv, OpenListener
    PROVE  IInv'
  <1>1. /\ main = "acceptor" /\ main' \in {"acceptor", "group"}
        /\ UNCHANGED <<config, next, logVars, threadVars, events, index, client>>
    BY DEF OpenListener, At
  <1>2. logger /\ fate = "running"
    BY <1>1 DEF OpenListener, At, IInv, Prepared, Logging
  <1>3. fate' \in {"running", "exited"} /\ pending' \in BOOLEAN
    BY <1>2, FailKept DEF OpenListener, IInv, TypeOK
  <1>4. bound' \in {NoPort} \cup (1 .. Ports - 1)
    <2>0. ASSUME NEW port \in Int
          PROVE  Kept(port) # 0 => Kept(port) \in 1 .. Ports - 1
      <3>1. Ports \in Nat /\ Ports > 0
        BY DEF Ports
      <3>2. Kept(port) \in 0 .. Ports - 1
        BY <3>1, Remainder DEF Kept
      <3>. QED
        BY <3>1, <3>2
    <2>1. Kept(config.port) # 0 => Kept(config.port) \in 1 .. Ports - 1
      BY <2>0, Fields
    <2>2. bound \in {NoPort} \cup (1 .. Ports - 1)
      BY DEF IInv, TypeOK
    <2>3. bound' = bound \/ bound' \in IF Kept(config.port) = 0 THEN Ephemeral ELSE {Kept(config.port)}
      BY DEF OpenListener
    <2>. QED
      BY <2>1, <2>2, <2>3, PortsAssumption
  <1>5. TypeOK'
    BY <1>1, <1>3, <1>4 DEF IInv, TypeOK, logVars, threadVars
  <1>6. /\ \A t \in Threads : Made(t)' /\ Started(t)'
        /\ Given' /\ next' = 1
    BY <1>1, Before DEF Threaded, Starting
  <1>7. Prepared'
    BY <1>1, <1>6 DEF IInv, Prepared, Logging, Threaded, Starting, logVars
  <1>. QED
    BY <1>3, <1>5, <1>6, <1>7, NotCrashed DEF IInv

-----------------------------------------------------------------------------
\* The main thread, from the group on.
LEMMA NewGroupStep ==
    ASSUME IInv, NewGroup
    PROVE  IInv'
  <1>1. /\ main = "group" /\ main' \in {"group", "threads"}
        /\ main' = "threads" => config.ioThreads >= 0
        /\ fate' = "running" \/ (fate' = "crashed" /\ config.ioThreads < 0)
        /\ UNCHANGED <<config, next, pending, logVars, threadVars, netVars>>
    BY DEF NewGroup, At
  <1>2. TypeOK'
    BY <1>1 DEF IInv, TypeOK, logVars, threadVars, netVars
  <1>3. config.ioThreads \in Int /\ next = 1
    BY <1>1, ConfigFields DEF IInv, TypeOK, Prepared, Threaded, Starting
  <1>4. Prepared'
    BY <1>1, <1>3 DEF IInv, Prepared, Logging, Threaded, Starting, logVars
  <1>5. ASSUME NEW t \in Threads PROVE Made(t)' /\ Started(t)'
    <2>1. io[t] = "none" /\ initSem[t] = 0 /\ startSem[t] = 0
      BY <1>1, Thread DEF Made, Started, Threaded, Starting
    <2>2. next = 1 /\ ~(t < next)
      BY <1>3, Thread
    <2>. QED
      BY <1>1, <2>1, <2>2, Thread DEF Made, Started, Threaded, Starting, threadVars
  <1>6. Given'
    BY <1>1, GivenKept DEF IInv, netVars
  <1>7. CrashesForItsConfig'
    BY <1>1 DEF CrashesForItsConfig
  <1>. QED
    BY <1>2, <1>4, <1>5, <1>6, <1>7 DEF IInv

LEMMA NewIOThreadStep ==
    ASSUME IInv, NewIOThread
    PROVE  IInv'
  <1>1. /\ main = "threads" /\ main' = "init semaphore" /\ fate' = "running"
        /\ next <= config.ioThreads
        /\ io' \in {[io EXCEPT ![next] = "created"], [io EXCEPT ![next] = "failed"]}
        /\ UNCHANGED <<config, next, pending, logVars, loopMade, initSem, startSem, netVars>>
    BY DEF NewIOThread, At
  <1>2. next \in Threads
    <2>1. next <= config.ioThreads
      BY <1>1
    <2>2. next <= MaxThreads
      BY <2>1, Numbers, Fields
    <2>. QED
      BY <2>2, Numbers DEF Threads
  <1>3. TypeOK'
    BY <1>1 DEF IInv, TypeOK, logVars, netVars
  <1>4. Prepared'
    BY <1>1 DEF IInv, Prepared, Logging, Threaded, Starting, logVars, netVars
  <1>5. ASSUME NEW t \in Threads PROVE Made(t)' /\ Started(t)'
    <2>1. Made(t) /\ Started(t) /\ t \in Int /\ next \in Int
      BY Thread, Numbers
    <2>2. CASE t = next
      <3>1. ~(t < next) /\ ~(t > next)
        BY <2>1, <2>2
      <3>2. io[t] = "none"
        BY <1>1, <2>1, <3>1 DEF Made
      <3>3. initSem[t] = 0 /\ startSem[t] = 0
        BY <1>1, <2>1, <3>2 DEF Made, Started, Starting
      <3>4. io'[t] \in {"created", "failed"}
        BY <1>1, <2>2, Functions
      <3>. QED
        BY <1>1, <2>1, <3>1, <3>3, <3>4 DEF Made, Started, Starting, Threaded
    <2>3. CASE t # next
      <3>1. io'[t] = io[t]
        BY <1>1, <2>3, Functions
      <3>2. t < next => loopMade[t]
        BY <1>1, <2>1 DEF Made
      <3>3. t > next => io[t] = "none"
        <4>1. t > next => ~(t < next)
          BY <2>1
        <4>. QED
          BY <1>1, <2>1, <4>1 DEF Made
      <3>4. ~(t \in Threads /\ io[t] # "none" /\ main \notin Threaded)
        BY <2>1 DEF Made
      <3>. QED
        BY <1>1, <2>1, <3>1, <3>2, <3>3 DEF Made, Started, Starting, Threaded
    <2>. QED
      BY <2>2, <2>3
  <1>6. Given'
    BY <1>1, GivenKept DEF IInv, netVars
  <1>. QED
    BY <1>1, <1>3, <1>4, <1>5, <1>6, NotCrashed DEF IInv

LEMMA IOThreadMadeStep ==
    ASSUME IInv, IOThreadMade
    PROVE  IInv'
  <1>1. /\ main = "init semaphore" /\ main' = "threads" /\ next' = next + 1
        /\ initSem[next] > 0 /\ initSem' = [initSem EXCEPT ![next] = @ - 1]
        /\ UNCHANGED <<config, logVars, io, loopMade, startSem, netVars>>
    BY DEF IOThreadMade, At, SemWait
  <1>2. next \in Threads /\ next' \in 1 .. MaxThreads + 1
    <2>1. next <= config.ioThreads
      BY <1>1 DEF IInv, Prepared
    <2>2. next <= MaxThreads
      BY <2>1, Numbers, Fields
    <2>3. next' = next + 1
      BY <1>1
    <2>. QED
      BY <2>2, <2>3, Numbers DEF Threads
  <1>3. fate' = "running" /\ pending' \in BOOLEAN
    BY <1>1, Logged DEF IOThreadMade, At, Logging, Threaded
  <1>4. initSem[next] = 1 /\ initSem' = [initSem EXCEPT ![next] = 0]
    <2>1. initSem[next] > 0 /\ initSem' = [initSem EXCEPT ![next] = initSem[next] - 1]
      BY <1>1
    <2>2. initSem[next] \in 0 .. 1
      BY <1>2, Functions
    <2>3. initSem[next] = 1
      BY <2>1, <2>2
    <2>. QED
      BY <2>1, <2>3
  <1>5. TypeOK'
    <2>1. initSem' \in [Threads -> 0 .. 1]
      <3>1. initSem \in [Threads -> 0 .. 1] /\ 0 \in 0 .. 1
        BY Functions
      <3>2. initSem' = [initSem EXCEPT ![next] = 0]
        BY <1>4
      <3>. QED
        BY <3>1, <3>2, Replaced
    <2>. QED
      BY <1>1, <1>2, <1>3, <2>1 DEF IInv, TypeOK, logVars, netVars
  <1>6. Prepared'
    BY <1>1 DEF IInv, Prepared, Logging, Threaded, Starting, logVars, netVars
  <1>7. ASSUME NEW t \in Threads PROVE Made(t)' /\ Started(t)'
    <2>1. Made(t) /\ Made(next) /\ Started(t) /\ t \in Int /\ next \in Int
      <3>1. Made(next)
        BY <1>2, Thread
      <3>2. Made(t) /\ Started(t) /\ t \in Int
        BY Thread
      <3>3. next \in Int
        BY Numbers
      <3>. QED
        BY <3>1, <3>2, <3>3
    <2>2. loopMade[next]
      <3>1. initSem[next] # 0
        BY <1>4
      <3>2. io[next] \in {"posted", "held", "loop"}
        BY <2>1, <3>1 DEF Made
      <3>. QED
        BY <2>1, <3>2 DEF Made
    <2>3. initSem'[t] # 0 => initSem[t] # 0
      BY <1>4, Functions
    <2>0. t \in Int /\ next \in Int /\ next' = next + 1
      BY <1>1, <2>1
    <2>4. t < next' \/ t > next
      BY <2>0
    <2>5. t < next' => t < next \/ t = next
      BY <2>0
    <2>6. t > next => ~(t < next')
      BY <2>0
    <2>. QED
      BY <1>1, <2>1, <2>2, <2>3, <2>4, <2>5, <2>6 DEF Made, Started, Starting, Threaded
  <1>8. Given'
    BY <1>1, GivenKept DEF IInv, netVars
  <1>. QED
    BY <1>3, <1>5, <1>6, <1>7, <1>8, NotCrashed DEF IInv

LEMMA ListenEventsStep ==
    ASSUME IInv, ListenEvents
    PROVE  IInv'
  <1>1. /\ main = "threads" /\ main' = "start" /\ next > config.ioThreads /\ next' = 1
        /\ events' = events \cup {"accept", "clear timer"}
        /\ UNCHANGED <<config, logVars, threadVars, bound, index, client>>
    BY DEF ListenEvents, At
  <1>2. fate' = "running" /\ pending' \in BOOLEAN
    BY <1>1, Logged DEF ListenEvents, At, Logging, Threaded
  <1>4. TypeOK'
    <2>0. next' = 1
      BY <1>1
    <2>1. next' \in 1 .. MaxThreads + 1
      BY <2>0, Numbers
    <2>. QED
      BY <1>1, <1>2, <2>1 DEF IInv, TypeOK, logVars, threadVars
  <1>5. Prepared'
    BY <1>1 DEF IInv, Prepared, Logging, Threaded, Starting, logVars
  <1>6. ASSUME NEW t \in Threads PROVE Made(t)' /\ Started(t)'
    <2>1. Made(t) /\ Started(t) /\ t \in Int /\ 1 <= t
      BY Thread
    <2>2. t <= config.ioThreads => t < next
      <3>1. next > config.ioThreads
        BY <1>1
      <3>. QED
        BY <2>1, <3>1, Numbers, Fields
    <2>3. ~(t < next')
      <3>1. next' = 1 /\ t \in Int /\ 1 <= t
        BY <1>1, <2>1
      <3>. QED
        BY <3>1
    <2>4. io[t] # "loop" /\ startSem[t] = 0
      BY <1>1, <2>1 DEF Started, Starting
    <2>5. loopMade[t] \/ ~(t <= config.ioThreads)
      BY <1>1, <2>1, <2>2 DEF Made
    <2>. QED
      BY <1>1, <2>1, <2>3, <2>4, <2>5 DEF Made, Started, Starting, Threaded, threadVars
  <1>7. Given'
    BY <1>1, GivenKept DEF IInv
  <1>. QED
    BY <1>2, <1>4, <1>5, <1>6, <1>7, NotCrashed DEF IInv

LEMMA StartThreadStep ==
    ASSUME IInv, StartThread
    PROVE  IInv'
  <1>1. /\ main = "start" /\ next <= config.ioThreads /\ next' = next + 1
        /\ startSem' = [startSem EXCEPT ![next] = @ + 1]
        /\ UNCHANGED <<config, main, logVars, io, loopMade, initSem, netVars>>
    BY DEF StartThread, At, ToStart, SemPost
  <1>2. next \in Threads /\ next' \in 1 .. MaxThreads + 1
    <2>1. next <= config.ioThreads /\ next' = next + 1
      BY <1>1
    <2>2. next <= MaxThreads
      BY <2>1, Numbers, Fields
    <2>. QED
      BY <2>1, <2>2, Numbers DEF Threads
  <1>3. fate' = "running" /\ pending' \in BOOLEAN
    BY <1>1, Logged DEF StartThread, At, Logging, Threaded, Starting
  <1>4. startSem[next] = 0 /\ io[next] # "loop"
    <2>1. Started(next) /\ next \in Int
      BY <1>2, Thread
    <2>. QED
      BY <1>1, <2>1 DEF Started
  <1>5. TypeOK'
    <2>1. startSem' \in [Threads -> 0 .. 1]
      <3>1. startSem' = [startSem EXCEPT ![next] = startSem[next] + 1] /\ startSem[next] = 0
        BY <1>1, <1>4
      <3>2. startSem' = [startSem EXCEPT ![next] = 1]
        BY <3>1
      <3>3. startSem \in [Threads -> 0 .. 1] /\ 1 \in 0 .. 1
        BY Functions
      <3>. QED
        BY <3>2, <3>3, Replaced
    <2>. QED
      BY <1>1, <1>2, <1>3, <2>1 DEF IInv, TypeOK, logVars, netVars
  <1>6. Prepared'
    BY <1>1 DEF IInv, Prepared, Logging, Threaded, Starting, logVars, netVars
  <1>7. ASSUME NEW t \in Threads PROVE Made(t)' /\ Started(t)'
    <2>1. Made(t) /\ Started(t) /\ t \in Int /\ next \in Int
      BY Thread, Numbers
    <2>2. Made(t)'
      BY <1>1, <2>1 DEF Made, Starting, Threaded
    <2>3. CASE t = next
      <3>1. startSem'[t] = 1 /\ t < next'
        BY <1>1, <1>4, <2>1, <2>3, Functions
      <3>. QED
        BY <1>1, <2>2, <3>1 DEF Started, IsStarted, Starting
    <2>4. CASE t # next
      <3>1. startSem'[t] = startSem[t] /\ (t < next' <=> t < next)
        BY <1>1, <2>1, <2>4, Functions
      <3>. QED
        BY <1>1, <2>1, <2>2, <3>1 DEF Started, IsStarted, Starting
    <2>. QED
      BY <2>3, <2>4
  <1>8. Given'
    BY <1>1, GivenKept DEF IInv, netVars
  <1>. QED
    BY <1>3, <1>5, <1>6, <1>7, <1>8, NotCrashed DEF IInv

LEMMA EnterLoopStep ==
    ASSUME IInv, EnterLoop
    PROVE  IInv'
  <1>1. /\ main = "start" /\ main' = "loop" /\ next > config.ioThreads /\ fate' = "running"
        /\ UNCHANGED <<config, next, pending, logVars, threadVars, netVars>>
    BY DEF EnterLoop, At, ToStart
  <1>2. config.ioThreads \in Int /\ config.ioThreads >= 0
    BY <1>1, Fields DEF IInv, Prepared, Threaded, Starting
  <1>3. TypeOK'
    BY <1>1 DEF IInv, TypeOK, logVars, threadVars, netVars
  <1>4. Prepared'
    BY <1>1 DEF IInv, Prepared, Logging, Threaded, Starting, logVars, netVars
  <1>5. ASSUME NEW t \in Threads PROVE Made(t)' /\ Started(t)'
    <2>1. Made(t) /\ Started(t) /\ (t <= config.ioThreads => t < next)
      BY <1>1, Thread, Numbers, Fields
    <2>. QED
      BY <1>1, <2>1 DEF Made, Started, IsStarted, Starting, Threaded, threadVars
  <1>6. Given'
    BY <1>1, <1>2 DEF IInv, Given, Used, netVars
  <1>. QED
    BY <1>1, <1>3, <1>4, <1>5, <1>6, NotCrashed DEF IInv

-----------------------------------------------------------------------------
\* The threads of the loggers, and the IO threads.
LEMMA BeginAsyncStep ==
    ASSUME IInv, NEW s \in Streams, BeginAsync(s)
    PROVE  IInv'
  <1>1. /\ \/ async[s] = "created" /\ async' = [async EXCEPT ![s] = "initialised"]
           \/ async[s] = "initialised" /\ async' = [async EXCEPT ![s] = "posted"]
        /\ fate' = "running"
        /\ UNCHANGED <<mainVars, pending, logger, threadVars, netVars>>
    BY DEF BeginAsync
  <1>2. \A r \in Streams : async[r] = "posted" => async'[r] = "posted"
    BY <1>1 DEF IInv, TypeOK
  <1>3. TypeOK'
    BY <1>1 DEF IInv, TypeOK, mainVars, threadVars, netVars
  <1>4. Prepared'
    BY <1>1, <1>2 DEF IInv, Prepared, Streams, mainVars, netVars
  <1>5. \A t \in Threads : Made(t)' /\ Started(t)'
    BY <1>1 DEF IInv, Made, Started, IsStarted, mainVars, threadVars
  <1>6. Given'
    BY <1>1, GivenKept DEF IInv, mainVars, netVars
  <1>. QED
    BY <1>1, <1>3, <1>4, <1>5, <1>6, NotCrashed DEF IInv

\* A step of thread t is checked for t, and leaves the other threads alone.
LEMMA IOThreadStep ==
    ASSUME IInv, NEW t \in Threads,
           fate' \in {"running", "exited"}, pending' \in BOOLEAN,
           UNCHANGED <<mainVars, logVars, netVars>>,
           /\ io' \in [Threads -> {"none", "created", "failed", "made", "posted", "held", "loop"}]
           /\ loopMade' \in [Threads -> BOOLEAN]
           /\ initSem' \in [Threads -> 0 .. 1] /\ startSem' \in [Threads -> 0 .. 1],
           Made(t)' /\ Started(t)',
           \A u \in Threads \ {t} : /\ io'[u] = io[u] /\ loopMade'[u] = loopMade[u]
                                    /\ initSem'[u] = initSem[u] /\ startSem'[u] = startSem[u]
    PROVE  IInv'
  <1>1. TypeOK'
    BY DEF IInv, TypeOK, mainVars, logVars, netVars
  <1>2. Prepared'
    BY DEF IInv, Prepared, mainVars, logVars, netVars
  <1>3. ASSUME NEW u \in Threads PROVE Made(u)' /\ Started(u)'
    <2>1. CASE u = t
      BY <2>1
    <2>2. CASE u # t
      BY <2>2, Thread DEF Made, Started, IsStarted, mainVars
    <2>. QED
      BY <2>1, <2>2
  <1>4. Given'
    BY GivenKept DEF IInv, mainVars, netVars
  <1>. QED
    BY <1>1, <1>2, <1>3, <1>4, NotCrashed DEF IInv

LEMMA MakeLoopStep ==
    ASSUME IInv, NEW t \in Threads, MakeLoop(t)
    PROVE  IInv'
  <1>1. /\ fate = "running" /\ io[t] = "created"
        /\ UNCHANGED <<mainVars, logVars, initSem, startSem, netVars>>
    BY DEF MakeLoop, Running
  <1>2. \/ UNCHANGED <<loopMade, io>>
        \/ io' = [io EXCEPT ![t] = "made"] /\ loopMade' = [loopMade EXCEPT ![t] = TRUE]
    BY DEF MakeLoop
  <1>3. main \in Logging
    BY <1>1, Thread DEF Made, Logging
  <1>4. fate' \in {"running", "exited"} /\ pending' \in BOOLEAN
    <2>1. CASE Log(2)
      BY <1>1, <1>3, <2>1, Logged
    <2>2. CASE Fail
      BY <1>3, <2>2, FailKept DEF IInv, TypeOK, Prepared
    <2>. QED
      BY <2>1, <2>2 DEF MakeLoop
  <1>5. Made(t)' /\ Started(t)'
    <2>1. \/ io'[t] = "created" /\ loopMade'[t] = loopMade[t]
          \/ io'[t] = "made" /\ loopMade'[t] = TRUE
      <3>1. CASE UNCHANGED <<loopMade, io>>
        BY <1>1, <3>1
      <3>2. CASE io' = [io EXCEPT ![t] = "made"] /\ loopMade' = [loopMade EXCEPT ![t] = TRUE]
        <4>1. io'[t] = "made"
          BY <3>2, Functions
        <4>2. loopMade'[t] = TRUE
          BY <3>2, Functions
        <4>. QED
          BY <4>1, <4>2
      <3>. QED
        BY <1>2, <3>1, <3>2
    <2>2. initSem[t] = 0
      BY <1>1, Thread DEF Made
    <2>3. Made(t)'
      BY <1>1, <2>1, <2>2, Thread DEF Made, mainVars
    <2>4. Started(t)'
      BY <1>1, <2>1, Thread DEF Started, IsStarted, mainVars
    <2>. QED
      BY <2>3, <2>4
  <1>. QED
    BY <1>1, <1>2, <1>4, <1>5, Functions, IOThreadStep

LEMMA PostInitStep ==
    ASSUME IInv, NEW t \in Threads, PostInit(t)
    PROVE  IInv'
  <1>1. /\ fate = "running" /\ io[t] = "made" /\ initSem' = [initSem EXCEPT ![t] = @ + 1]
        /\ io' = [io EXCEPT ![t] = "posted"]
        /\ UNCHANGED <<mainVars, fate, pending, logVars, loopMade, startSem, netVars>>
    BY DEF PostInit, Running, SemPost
  <1>2. initSem[t] = 0 /\ loopMade[t]
    BY <1>1, Thread DEF Made
  <1>3. initSem' \in [Threads -> 0 .. 1]
    <2>1. initSem' = [initSem EXCEPT ![t] = initSem[t] + 1] /\ initSem[t] + 1 = 1
      BY <1>1, <1>2
    <2>2. initSem' = [initSem EXCEPT ![t] = 1]
      BY <2>1
    <2>3. 1 \in 0 .. 1 /\ initSem \in [Threads -> 0 .. 1]
      BY Functions
    <2>. QED
      BY <2>2, <2>3, Replaced
  <1>4. Made(t)' /\ Started(t)'
    <2>1. io'[t] = "posted"
      BY <1>1, Functions
    <2>. QED
      BY <1>1, <1>2, <2>1, Thread DEF Made, Started, IsStarted, mainVars
  <1>5. \A u \in Threads \ {t} : io'[u] = io[u] /\ initSem'[u] = initSem[u]
    BY <1>1, Functions
  <1>6. pending' \in BOOLEAN
    BY <1>1 DEF IInv, TypeOK
  <1>. QED
    BY <1>1, <1>3, <1>4, <1>5, <1>6, Functions, IOThreadStep

LEMMA HoldThreadStep ==
    ASSUME IInv, NEW t \in Threads, HoldThread(t)
    PROVE  IInv'
  <1>1. /\ fate = "running" /\ io[t] = "posted" /\ io' = [io EXCEPT ![t] = "held"]
        /\ UNCHANGED <<mainVars, logVars, loopMade, initSem, startSem, netVars>>
    BY DEF HoldThread, Running
  <1>2. fate' \in {"running", "exited"} /\ pending' \in BOOLEAN
    BY <1>1, Logged, Thread DEF HoldThread, Made, Logging
  <1>3. Made(t)' /\ Started(t)'
    <2>1. io'[t] = "held"
      BY <1>1, Functions
    <2>. QED
      BY <1>1, <2>1, Thread DEF Made, Started, IsStarted, mainVars
  <1>4. \A u \in Threads \ {t} : io'[u] = io[u]
    BY <1>1, Functions
  <1>. QED
    BY <1>1, <1>2, <1>3, <1>4, Functions, IOThreadStep

LEMMA RunThreadStep ==
    ASSUME IInv, NEW t \in Threads, RunThread(t)
    PROVE  IInv'
  <1>1. /\ fate = "running" /\ io[t] = "held" /\ io' = [io EXCEPT ![t] = "loop"]
        /\ startSem[t] > 0 /\ startSem' = [startSem EXCEPT ![t] = @ - 1]
        /\ UNCHANGED <<mainVars, logVars, loopMade, initSem, netVars>>
    BY DEF RunThread, Running, AwaitStart, SemWait
  <1>2. startSem[t] = 1 /\ startSem' \in [Threads -> 0 .. 1]
    <2>1. startSem[t] = 1
      BY <1>1, Functions
    <2>2. startSem' = [startSem EXCEPT ![t] = 0]
      BY <1>1, <2>1
    <2>3. 0 \in 0 .. 1 /\ startSem \in [Threads -> 0 .. 1]
      BY Functions
    <2>. QED
      BY <2>1, <2>2, <2>3, Replaced
  <1>3. fate' \in {"running", "exited"} /\ pending' \in BOOLEAN
    BY <1>1, Logged, Thread DEF RunThread, Made, Logging
  <1>4. Made(t)' /\ Started(t)'
    <2>1. io'[t] = "loop"
      BY <1>1, Functions
    <2>2. main \in Starting /\ loopMade[t]
      <3>1. startSem[t] # 0
        BY <1>2
      <3>2. main \in Starting
        BY <3>1, Thread DEF Started
      <3>. QED
        BY <1>1, <3>2, Thread DEF Made
    <2>3. Made(t)'
      BY <1>1, <2>1, <2>2, Thread DEF Made, mainVars
    <2>4. main = "start" => t < next
      BY <1>1, <1>2, Thread DEF Started
    <2>5. Started(t)'
      BY <1>1, <2>1, <2>2, <2>4, Thread DEF Started, IsStarted, mainVars
    <2>. QED
      BY <2>3, <2>5
  <1>5. \A u \in Threads \ {t} : io'[u] = io[u] /\ startSem'[u] = startSem[u]
    BY <1>1, Functions
  <1>. QED
    BY <1>1, <1>2, <1>3, <1>4, <1>5, Functions, IOThreadStep

-----------------------------------------------------------------------------
\* The loops and the clients.  No step below starts a thread, and only OnAccept
\* gives a connection away.
LEMMA LoopStep ==
    ASSUME IInv, fate = "running", pending' \in BOOLEAN, fate' \in {"running", "crashed"},
           client' \in [Clients -> [place : Places, thread : 0 .. MaxThreads]],
           index' \in 0 .. MaxThreads, Given', CrashesForItsConfig',
           UNCHANGED <<mainVars, logVars, threadVars, events, bound>>
    PROVE  IInv'
  <1>1. TypeOK'
    BY DEF IInv, TypeOK, mainVars, logVars, threadVars
  <1>2. Prepared'
    BY DEF IInv, Prepared, mainVars, logVars
  <1>3. \A t \in Threads : Made(t)' /\ Started(t)'
    BY DEF IInv, Made, Started, IsStarted, mainVars, threadVars
  <1>. QED
    BY <1>1, <1>2, <1>3 DEF IInv

\* The place of a client is nothing to the group.
LEMMA PlaceKept ==
    ASSUME IInv, NEW S \in SUBSET Clients, NEW place \in Places,
           client' = [c \in Clients |-> IF c \in S THEN [client[c] EXCEPT !.place = place]
                                                   ELSE client[c]],
           UNCHANGED <<config, main, index>>
    PROVE  /\ client' \in [Clients -> [place : Places, thread : 0 .. MaxThreads]]
           /\ index' \in 0 .. MaxThreads
           /\ Given'
  <1>1. /\ client \in [Clients -> [place : Places, thread : 0 .. MaxThreads]]
        /\ index \in 0 .. MaxThreads
    BY DEF IInv, TypeOK
  <1>2. client' \in [Clients -> [place : Places, thread : 0 .. MaxThreads]]
    BY <1>1
  <1>3. \A c \in Clients : client'[c].thread = client[c].thread
    BY <1>1
  <1>4. Used' = Used
    BY <1>3 DEF Used
  <1>. QED
    BY <1>1, <1>2, <1>3, <1>4 DEF IInv, Given

LEMMA PlaceSteps ==
    ASSUME IInv,
           \/ \E t \in Threads : RunTasks(t)
           \/ \E c \in Clients : Connect(c) \/ Leave(c)
    PROVE  IInv'
  <1>1. /\ fate = "running" /\ fate' = "running" /\ UNCHANGED <<pending, config, main, index>>
        /\ UNCHANGED <<mainVars, logVars, threadVars, events, bound>>
    BY DEF RunTasks, Running, Connect, Leave, mainVars
  <1>2. client \in [Clients -> [place : Places, thread : 0 .. MaxThreads]]
    BY DEF IInv, TypeOK
  <1>3. PICK S \in SUBSET Clients, place \in Places :
            client' = [c \in Clients |-> IF c \in S THEN [client[c] EXCEPT !.place = place]
                                                    ELSE client[c]]
    <2>1. ASSUME NEW t \in Threads, RunTasks(t)
          PROVE  client' = [c \in Clients |->
                               IF c \in {d \in Clients : client[d] = [place |-> "given", thread |-> t]}
                               THEN [client[c] EXCEPT !.place = "registered"] ELSE client[c]]
      BY <2>1 DEF RunTasks
    <2>2. ASSUME NEW c \in Clients, Connect(c)
          PROVE  client' = [d \in Clients |-> IF d \in {c} THEN [client[d] EXCEPT !.place = "backlog"]
                                                           ELSE client[d]]
      BY <1>2, <2>2 DEF Connect
    <2>3. ASSUME NEW c \in Clients, Leave(c)
          PROVE  client' = [d \in Clients |-> IF d \in {c} THEN [client[d] EXCEPT !.place = "gone"]
                                                           ELSE client[d]]
      BY <1>2, <2>3 DEF Leave
    <2>4. {"registered", "backlog", "gone"} \subseteq Places
      BY DEF Places
    <2>5. CASE \E t \in Threads : RunTasks(t)
      <3>1. PICK t \in Threads : RunTasks(t)
        BY <2>5
      <3>2. {d \in Clients : client[d] = [place |-> "given", thread |-> t]} \in SUBSET Clients
        OBVIOUS
      <3>. QED
        BY <2>1, <2>4, <3>1, <3>2
    <2>6. CASE \E c \in Clients : Connect(c) \/ Leave(c)
      <3>1. PICK c \in Clients : Connect(c) \/ Leave(c)
        BY <2>6
      <3>2. {c} \in SUBSET Clients
        OBVIOUS
      <3>3. CASE Connect(c)
        BY <2>2, <2>4, <3>2, <3>3
      <3>4. CASE Leave(c)
        BY <2>3, <2>4, <3>2, <3>4
      <3>. QED
        BY <3>1, <3>3, <3>4
    <2>. QED
      BY <2>5, <2>6
  <1>4. /\ client' \in [Clients -> [place : Places, thread : 0 .. MaxThreads]]
        /\ index' \in 0 .. MaxThreads
        /\ Given'
    BY <1>1, <1>3, PlaceKept
  <1>5. pending' \in BOOLEAN
    BY <1>1 DEF IInv, TypeOK
  <1>. QED
    BY <1>1, <1>4, <1>5, LoopStep, NotCrashed

LEMMA SyncLinesStep ==
    ASSUME IInv, SyncLines
    PROVE  IInv'
  <1>1. /\ main = "loop" /\ fate = "running" /\ pending' = FALSE
        /\ fate' = (IF async["rpc"] = "created" THEN "crashed" ELSE fate)
        /\ UNCHANGED <<mainVars, logVars, threadVars, netVars>>
    BY DEF SyncLines, At
  <1>2. fate' = "running"
    BY <1>1 DEF IInv, Prepared, Logging, Threaded, Starting
  <1>3. TypeOK'
    BY <1>1, <1>2 DEF IInv, TypeOK, mainVars, logVars, threadVars, netVars
  <1>4. Prepared'
    BY <1>1 DEF IInv, Prepared, mainVars, logVars, netVars
  <1>5. \A t \in Threads : Made(t)' /\ Started(t)'
    BY <1>1 DEF IInv, Made, Started, IsStarted, mainVars, threadVars
  <1>6. Given'
    BY <1>1, GivenKept DEF IInv, mainVars, netVars
  <1>. QED
    BY <1>2, <1>3, <1>4, <1>5, <1>6, NotCrashed DEF IInv

\* The position a connection goes to is one of the group's, when it has any, and
\* the thread there has its loop.
LEMMA PositionOfGroup ==
    ASSUME IInv, main = "loop", config.ioThreads > 0
    PROVE  /\ Position + 1 \in Threads /\ Position < config.ioThreads
           /\ Position + 1 <= config.ioThreads
           /\ loopMade[Position + 1]
  <1>1. /\ index \in Nat /\ index <= config.ioThreads
        /\ config.ioThreads \in Int /\ config.ioThreads <= MaxThreads /\ MaxThreads \in Nat
    <2>1. index \in 0 .. MaxThreads /\ index <= config.ioThreads
      BY DEF IInv, TypeOK, Given
    <2>2. index \in Nat
      BY <2>1, Numbers
    <2>. QED
      BY <2>1, <2>2, Numbers, Fields
  <1>2. Position \in Nat /\ Position < config.ioThreads
    BY <1>1 DEF Position
  <1>3. Position + 1 \in Threads /\ Position + 1 <= config.ioThreads
    BY <1>1, <1>2 DEF Threads
  <1>4. loopMade[Position + 1]
    BY <1>3, Thread DEF Made, Starting
  <1>. QED
    BY <1>2, <1>3, <1>4

LEMMA OnAcceptStep ==
    ASSUME IInv, NEW c \in Clients, OnAccept(c)
    PROVE  IInv'
  <1>1. /\ main = "loop" /\ fate = "running" /\ client[c].place = "backlog"
        /\ UNCHANGED <<mainVars, logVars, threadVars, events, bound>>
        /\ config' = config /\ main' = main
    BY DEF OnAccept, At, mainVars
  <1>2. /\ client \in [Clients -> [place : Places, thread : 0 .. MaxThreads]]
        /\ index \in 0 .. MaxThreads /\ pending \in BOOLEAN
        /\ IsFiniteSet(Used) /\ Cardinality(Used) <= MaxFds /\ MaxFds \in Nat
        /\ Cardinality(Used) \in Nat
    BY FS_CardinalityType, ThreadsAssumption DEF IInv, TypeOK, Given
  <1>3. 0 <= config.ioThreads
    BY <1>1 DEF IInv, Prepared, Threaded, Starting
  <1>4. CASE /\ Acceptable
             /\ client' = [client EXCEPT ![c] = [place |-> "given", thread |-> Position + 1]]
             /\ index' = Position + 1
             /\ Log(2)
    <2>1. config.ioThreads > 0
      <3>1. Position < config.ioThreads
        BY <1>4 DEF Acceptable
      <3>2. config.ioThreads \in Int /\ index \in Int
        BY <1>2, Fields, Numbers
      <3>3. index >= 0
        BY <1>2, Numbers
      <3>4. Position \in Int /\ Position >= 0
        BY <3>2, <3>3 DEF Position
      <3>. QED
        BY <3>1, <3>2, <3>4
    <2>2. Position + 1 \in 0 .. MaxThreads /\ Position + 1 <= config.ioThreads /\ Position + 1 # 0
      <3>1. Position + 1 \in Threads /\ Position + 1 <= config.ioThreads
        BY <1>1, <2>1, PositionOfGroup
      <3>. QED
        BY <3>1, Numbers DEF Threads
    <2>3. client' \in [Clients -> [place : Places, thread : 0 .. MaxThreads]]
      BY <1>2, <1>4, <2>2 DEF Places
    <2>4. Used' = Used \cup {c}
      BY <1>2, <1>4, <2>2 DEF Used
    <2>5. IsFiniteSet(Used') /\ Cardinality(Used') <= MaxFds
      <3>1. Cardinality(Used) < MaxFds
        BY <1>4 DEF Acceptable
      <3>2. IsFiniteSet(Used \cup {c})
        BY <1>2, FS_AddElement
      <3>3. Cardinality(Used \cup {c}) = Cardinality(Used) \/ Cardinality(Used \cup {c}) = Cardinality(Used) + 1
        BY <1>2, FS_AddElement
      <3>. QED
        BY <1>2, <2>4, <3>1, <3>2, <3>3
    <2>6. \A d \in Clients : client'[d].thread # 0 => client'[d].thread <= config.ioThreads
      <3>1. \A d \in Clients : client[d].thread # 0 => client[d].thread <= config.ioThreads
        BY DEF IInv, Given
      <3>2. \A d \in Clients : client'[d].thread = client[d].thread \/ client'[d].thread = Position + 1
        BY <1>2, <1>4
      <3>. QED
        BY <2>2, <3>1, <3>2
    <2>7. Given'
      BY <1>1, <1>4, <2>2, <2>5, <2>6 DEF Given
    <2>8. fate' = "running" /\ pending' \in BOOLEAN
      BY <1>1, <1>4, Logged DEF Logging, Threaded, Starting
    <2>. QED
      BY <1>1, <1>4, <2>2, <2>3, <2>7, <2>8, LoopStep, NotCrashed
  <1>5. CASE /\ ~Acceptable
             /\ fate' = "crashed" /\ UNCHANGED <<client, index, pending>>
    <2>1. config.ioThreads = 0 \/ Cardinality(Used) = MaxFds
      <3>1. CASE config.ioThreads > 0
        <4>1. ~(Cardinality(Used) < MaxFds)
          BY <1>1, <1>5, <3>1, PositionOfGroup DEF Acceptable
        <4>. QED
          BY <1>2, <4>1
      <3>2. CASE ~(config.ioThreads > 0)
        BY <1>3, <3>2, Fields
      <3>. QED
        BY <3>1, <3>2
    <2>2. Used' = Used
      BY <1>5 DEF Used
    <2>3. CrashesForItsConfig'
      BY <1>1, <1>5, <2>1, <2>2 DEF CrashesForItsConfig
    <2>4. Given'
      BY <1>1, <1>5, GivenKept DEF IInv
    <2>. QED
      BY <1>1, <1>2, <1>5, <2>3, <2>4, LoopStep
  <1>. QED
    BY <1>4, <1>5 DEF OnAccept

-----------------------------------------------------------------------------
LEMMA NextIInv == IInv /\ [Next]_vars => IInv'
  <1>. SUFFICES ASSUME IInv, [Next]_vars PROVE IInv'
    OBVIOUS
  <1>1. CASE MainStep
    BY <1>1, SetGlobalConfigStep, InitLoggerStep, OpenListenerStep, NewGroupStep, NewIOThreadStep,
       IOThreadMadeStep, ListenEventsStep, StartThreadStep, EnterLoopStep, LoggerSteps DEF MainStep
  <1>2. CASE SyncLines
    BY <1>2, SyncLinesStep
  <1>3. CASE \E c \in Clients : OnAccept(c) \/ Connect(c) \/ Leave(c)
    BY <1>3, OnAcceptStep, PlaceSteps
  <1>4. CASE \E t \in Threads : IOStep(t)
    BY <1>4, MakeLoopStep, PostInitStep, HoldThreadStep, RunThreadStep, PlaceSteps DEF IOStep
  <1>5. CASE \E s \in Streams : BeginAsync(s)
    BY <1>5, BeginAsyncStep
  <1>6. CASE UNCHANGED vars
    <2>1. UNCHANGED <<mainVars, logVars, threadVars, netVars, fate, pending>>
      BY <1>6 DEF vars
    <2>0. Prepared'
      BY <2>1 DEF IInv, Prepared, mainVars, logVars, netVars
    <2>2. TypeOK'
      BY <2>1 DEF IInv, TypeOK, mainVars, logVars, threadVars, netVars
    <2>3. \A t \in Threads : Made(t)' /\ Started(t)'
      BY <2>1 DEF IInv, Made, Started, IsStarted, mainVars, threadVars
    <2>4. Given'
      BY <2>1, GivenKept DEF IInv, mainVars, netVars
    <2>5. CrashesForItsConfig'
      <3>1. Used' = Used
        BY <2>1 DEF Used, netVars
      <3>. QED
        BY <2>1, <3>1 DEF IInv, CrashesForItsConfig, mainVars, logVars, netVars
    <2>. QED
      BY <2>0, <2>2, <2>3, <2>4, <2>5 DEF IInv
  <1>. QED
    BY <1>1, <1>2, <1>3, <1>4, <1>5, <1>6 DEF Next

\* The main thread has been past every start, once a thread runs.
LEMMA HeldFromIInv == IInv => HeldUntilStart
  <1>. SUFFICES ASSUME IInv PROVE HeldUntilStart
    OBVIOUS
  <1>1. ASSUME NEW t \in Threads, io[t] = "loop"
        PROVE  {"accept", "clear timer"} \subseteq events /\ loopMade[t]
    BY <1>1, Thread DEF Made, Started, IInv, Prepared
  <1>2. ASSUME NEW c \in Clients, client[c].thread # 0
        PROVE  loopMade[client[c].thread]
               /\ (io[client[c].thread] = "loop" \/ startSem[client[c].thread] = 1)
    <2>1. main = "loop" /\ client[c].thread <= config.ioThreads
      BY <1>2 DEF IInv, Given
    <2>2. client[c].thread \in Threads
      <3>1. client[c].thread \in 0 .. MaxThreads
        BY DEF IInv, TypeOK
      <3>. QED
        BY <1>2, <3>1, Numbers DEF Threads
    <2>. QED
      BY <2>1, <2>2, Thread DEF Made, Started, IsStarted, Starting
  <1>. QED
    BY <1>1, <1>2 DEF HeldUntilStart

LEMMA Inductive == Spec => []IInv
  BY InitIInv, NextIInv, PTL DEF Spec

\* Every variable keeps its type: no semaphore of an IO thread ever exceeds one,
\* and the round robin index of the group stays inside it.
THEOREM TypeCorrect == Spec => []TypeOK
  <1>1. IInv => TypeOK
    BY DEF IInv
  <1>. QED
    BY <1>1, Inductive, PTL

\* Whatever order the threads run in, the startup uses nothing before it is set:
\* a server that is configured with complete stubs and at least one thread, and
\* whose logger threads can be created, crashes only when its descriptors are
\* used up.
THEOREM Crashes == Spec => []CrashesForItsConfig
  <1>1. IInv => CrashesForItsConfig
    BY DEF IInv
  <1>. QED
    BY <1>1, Inductive, PTL

\* No IO thread runs its loop before the listening socket is set up, and every
\* connection is given to a thread that has a loop and runs or has been started
\* (the two semaphores of IOThread).
THEOREM Held == Spec => []HeldUntilStart
  BY Inductive, HeldFromIInv, PTL
=============================================================================
