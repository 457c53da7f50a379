------------------------------- MODULE Logger -------------------------------
(***************************************************************************)
(* The asynchronous logger of src/rocket/common/log.{h,cc}.  Threads push  *)
(* lines into one of two buffers of the Logger ("rpc": the framework's     *)
(* own, "app": the application's).  A timer of the main thread's loop runs *)
(* syncLoop, which swaps the buffers out and hands each of them as a batch *)
(* to the AsyncLogger of its stream; that is a thread of its own, woken by *)
(* a condition variable, which chooses the file and writes the batch.  On  *)
(* a signal CoredumpHandler flushes and waits for both threads to end.     *)
(*                                                                         *)
(* As in EventLoop, every ScopeMutex unlocks once more when it is          *)
(* destructed.  Here the extra unlock of an AsyncLogger comes after its    *)
(* file has been written, and syncLoop unlocks the framework's mutex where *)
(* it means the application's (log.cc:97).  From a state in which two      *)
(* threads are inside the same container C++ defines nothing: the model    *)
(* stops there, and every property speaks of executions up to it.          *)
(*                                                                         *)
(* A line is the number of its push in its stream; files are measured in   *)
(* lines.  Only the asynchronous kind of logger is modelled (type 1), and  *)
(* every file can be opened.                                               *)
(***************************************************************************)
EXTENDS Naturals, Sequences, FiniteSets, SequencesExt

CONSTANTS
    Loggers,        \* threads that log
    Main,           \* the thread whose loop runs syncLoop
    Handler,        \* stands for CoredumpHandler, on top of the thread it interrupts
    Hosts,          \* threads a signal may be delivered to
    SetLevel,       \* m_set_level
    MaxLines,       \* bound: lines the threads push, into either stream
    MaxFileSize,    \* m_max_file_size
    Earlier,        \* lines file 0 of the first day has from an earlier life of the process
    MaxDay          \* bound: the last day

Streams == {"rpc", "app"}
Threads == Loggers \cup {Main, Handler}

ASSUME ThreadsAssumption == Main # Handler /\ Handler \notin Loggers /\ Hosts \subseteq Loggers \cup {Main}
ASSUME BoundAssumption ==
    /\ MaxLines \in Nat
    /\ MaxFileSize \in Nat /\ Earlier \in Nat /\ MaxDay \in Nat \ {0}

\* enum LogLevel and the macros of log.h: all but DEBUGLOG log at an unknown level.
Unknown == 0
Debug == 1
Info == 2
Error == 3
Levels == {Debug, Info, Error}
Passes(s, level) == SetLevel <= level /\ (s = "rpc" /\ level = Debug => SetLevel # Unknown)

ASSUME LevelAssumption == SetLevel \in Levels \cup {Unknown}

VARIABLES
    pc,         \* control point of each thread
    stream,     \* the stream each thread is busy with ("rpc" if with none)
    tmp,        \* the lines each thread has swapped out
    loop,       \* control point of the AsyncLogger of each stream
    locked,     \* m_mutex ("log", "rpc"), m_app_mutex ("log", "app"), the AsyncLoggers' m_mutex
    buffer,     \* m_buffer and m_app_buffer
    pushed,     \* number of lines pushed into each stream
    queue,      \* the batches each AsyncLogger has been given
    batch,      \* the batch it is about to write
    written,    \* the batches it has written, each with the file
    file,       \* its open file (or NoFile)
    date, no,   \* m_date and m_no
    stop,       \* m_stop_flag
    host,       \* the thread the handler has interrupted (or Handler: none)
    day         \* the day of the last batch written

threadVars == <<pc, stream, tmp, host>>
bufferVars == <<buffer, pushed>>
fileVars   == <<written, file, date, no>>
vars == <<threadVars, loop, locked, bufferVars, queue, batch, fileVars, stop, day>>

\* A file is a day and a number; days begin with 1.
NoFile == <<0, 0>>

Init ==
    /\ pc = [t \in Threads |-> IF t = Handler THEN "off" ELSE "idle"]
    /\ stream = [t \in Threads |-> "rpc"]
    /\ tmp = [t \in Threads |-> <<>>]
    /\ loop = [s \in Streams |-> "lock"]
    /\ locked = {}
    /\ buffer = [s \in Streams |-> <<>>] /\ pushed = [s \in Streams |-> 0]
    /\ queue = [s \in Streams |-> <<>>] /\ batch = [s \in Streams |-> <<>>]
    /\ written = [s \in Streams |-> <<>>]
    /\ file = [s \in Streams |-> NoFile]
    /\ date = [s \in Streams |-> 0] /\ no = [s \in Streams |-> 0]
    /\ stop = [s \in Streams |-> FALSE]
    /\ host = Handler
    /\ day = 1

(***************************************************************************)
(* Mutexes and what they are meant to protect.                             *)
(***************************************************************************)

LogMutex(s) == <<"log", s>>
QueueMutex(s) == <<"queue", s>>

InLog(t, s) == pc[t] \in {"push", "swap"} /\ stream[t] = s
InQueue(t, s) == pc[t] = "enqueue" /\ stream[t] = s

DataRace ==
    \E s \in Streams :
        \/ \E t, u \in Threads : t # u /\ InLog(t, s) /\ InLog(u, s)
        \/ \E t, u \in Threads : t # u /\ InQueue(t, s) /\ InQueue(u, s)
        \/ \E t \in Threads : InQueue(t, s) /\ loop[s] = "test"

\* The process is alive and its behaviour defined.
Running == pc[Handler] # "raised" /\ ~DataRace

\* Thread t is there; the thread the handler has interrupted is not.
At(t, where) == pc[t] = where /\ t # host /\ Running
Goto(t, where) == pc' = [pc EXCEPT ![t] = where]
AsyncAt(s, where) == loop[s] = where /\ Running
AsyncGoto(s, where) == loop' = [loop EXCEPT ![s] = where]

Acquire(m) == m \notin locked /\ locked' = locked \cup {m}

\* fault: m_is_lock is false, as after the default initialiser, and nothing is unlocked.
ReleaseNothing(m) == UNCHANGED locked

\* unlock() and ~ScopeMutex alike, whoever holds the mutex.
Release(m) == locked' = locked \ {m}

(***************************************************************************)
(* pushLog and pushAppLog.                                                 *)
(***************************************************************************)

OnlyThread == UNCHANGED <<tmp, host, loop, bufferVars, queue, batch, fileVars, stop, day>>

\* One of the macros of log.h, at a level that is enabled, and the lock.
CallLog(t, s) ==
    /\ At(t, "idle") /\ pushed["rpc"] + pushed["app"] < MaxLines
    /\ \E level \in Levels : Passes(s, level)
    /\ Acquire(LogMutex(s))
    /\ stream' = [stream EXCEPT ![t] = s]
    /\ Goto(t, "push")
    /\ OnlyThread

\* The ERRORLOG of CoredumpHandler.
HandlerLogs ==
    /\ At(Handler, "lock") /\ Acquire(LogMutex("rpc"))
    /\ Goto(Handler, "push")
    /\ UNCHANGED stream /\ OnlyThread

\* push_back and unlock().
Push(t) ==
    /\ At(t, "push")
    /\ LET s == stream[t] IN
         /\ buffer' = [buffer EXCEPT ![s] = Append(@, pushed[s] + 1)]
         /\ pushed' = [pushed EXCEPT ![s] = @ + 1]
         /\ Release(LogMutex(s))
    /\ Goto(t, "destruct")
    /\ UNCHANGED <<stream, tmp, host, loop, queue, batch, fileVars, stop, day>>

\* ~ScopeMutex.  The handler goes on with flush(), which begins with syncLoop.
DestructLog(t) ==
    /\ At(t, "destruct") /\ Release(LogMutex(stream[t]))
    /\ Goto(t, IF t = Handler THEN "take" ELSE "idle")
    /\ stream' = [stream EXCEPT ![t] = "rpc"]
    /\ OnlyThread

(***************************************************************************)
(* syncLoop, run by the timer on the main thread and by the handler.       *)
(***************************************************************************)

\* The timer begins with the framework's buffer, as the handler does.
Take(t, s) ==
    /\ \/ s = stream[t] /\ At(t, "take")
       \/ t = Main /\ s = "rpc" /\ At(Main, "idle")
    /\ Acquire(LogMutex(s))
    /\ stream' = [stream EXCEPT ![t] = s]
    /\ Goto(t, "swap")
    /\ OnlyThread

\* After the first stream comes the second, then the destructors.
Onward(t) ==
    IF stream[t] = "rpc" THEN Goto(t, "take") /\ stream' = [stream EXCEPT ![t] = "app"]
    ELSE Goto(t, "leave") /\ UNCHANGED stream

\* fault: what the buffer holds is copied, not swapped.
CopyOut(t) == UNCHANGED buffer

\* tmp_vec was empty.
EmptyBuffer(t) == buffer' = [buffer EXCEPT ![stream[t]] = <<>>]

\* swap, then lock.unlock(): both times that of the framework's mutex, so that
\* m_app_mutex stays locked.  An empty vector is not handed on.
Swap(t) ==
    /\ At(t, "swap")
    /\ tmp' = [tmp EXCEPT ![t] = buffer[stream[t]]]
    /\ EmptyBuffer(t)
    /\ Release(LogMutex("rpc"))
    /\ IF buffer[stream[t]] = <<>> THEN Onward(t) ELSE Goto(t, "hand") /\ UNCHANGED stream
    /\ UNCHANGED <<host, loop, pushed, queue, batch, fileVars, stop, day>>

\* pushLogBuffer.
Hand(t) ==
    /\ At(t, "hand") /\ Acquire(QueueMutex(stream[t]))
    /\ Goto(t, "enqueue")
    /\ UNCHANGED stream /\ OnlyThread

Enqueue(t) ==
    /\ At(t, "enqueue")
    /\ queue' = [queue EXCEPT ![stream[t]] = Append(@, tmp[t])]
    /\ tmp' = [tmp EXCEPT ![t] = <<>>]
    /\ Goto(t, "signal")
    /\ UNCHANGED <<stream, host, loop, locked, bufferVars, batch, fileVars, stop, day>>

\* fault: nobody is woken.
WakeNobody(s) == UNCHANGED loop

\* pthread_cond_signal.
Wake(s) == loop' = IF loop[s] = "wait" THEN [loop EXCEPT ![s] = "woken"] ELSE loop

Signal(t) ==
    /\ At(t, "signal")
    /\ Wake(stream[t])
    /\ Release(QueueMutex(stream[t]))
    /\ Goto(t, "handed")
    /\ UNCHANGED <<stream, tmp, host, bufferVars, queue, batch, fileVars, stop, day>>

DestructQueue(t) ==
    /\ At(t, "handed") /\ Release(QueueMutex(stream[t]))
    /\ Onward(t)
    /\ OnlyThread

\* The destructors of lock2 and lock, in this order.
DestructApp(t) ==
    /\ At(t, "leave") /\ Release(LogMutex("app"))
    /\ Goto(t, "left")
    /\ UNCHANGED stream /\ OnlyThread

DestructRpc(t) ==
    /\ At(t, "left") /\ Release(LogMutex("rpc"))
    /\ Goto(t, IF t = Handler THEN "stop" ELSE "idle")
    /\ stream' = [stream EXCEPT ![t] = "rpc"]
    /\ OnlyThread

(***************************************************************************)
(* AsyncLogger::Loop of a stream.                                          *)
(***************************************************************************)

LockQueue(s) ==
    /\ AsyncAt(s, "lock") \/ AsyncAt(s, "woken")
    /\ Acquire(QueueMutex(s))
    /\ AsyncGoto(s, "test")
    /\ UNCHANGED <<threadVars, bufferVars, queue, batch, fileVars, stop, day>>

\* pthread_cond_wait unlocks and sleeps.
Wait(s) ==
    /\ AsyncAt(s, "test") /\ queue[s] = <<>>
    /\ Release(QueueMutex(s))
    /\ AsyncGoto(s, "wait")
    /\ UNCHANGED <<threadVars, bufferVars, queue, batch, fileVars, stop, day>>

\* The first batch is taken and the mutex unlocked.
Pop(s) ==
    /\ AsyncAt(s, "test") /\ queue[s] # <<>>
    /\ batch' = [batch EXCEPT ![s] = Head(queue[s])]
    /\ queue' = [queue EXCEPT ![s] = Tail(@)]
    /\ Release(QueueMutex(s))
    /\ AsyncGoto(s, "write")
    /\ UNCHANGED <<threadVars, bufferVars, fileVars, stop, day>>

\* ftell, in lines.
Size(s, f) ==
    Cardinality({p \in (1 .. Len(written[s])) \X (1 .. pushed[s]) :
                    written[s][p[1]].file = f /\ p[2] <= Len(written[s][p[1]].lines)})
      + (IF f = <<1, 0>> THEN Earlier ELSE 0)

\* The number to go on with: zero on a new day.
Number(s, today) == IF date[s] # today THEN 0 ELSE no[s]

\* fault: whether a file is open is not tested.
BegunUntested(s, today) == file[s]

\* The file to begin with: a new one on a new day, and in the beginning.
Begun(s, today) ==
    IF date[s] # today \/ file[s] = NoFile THEN <<today, Number(s, today)>> ELSE file[s]

Overfull(s, f) == Size(s, f) > MaxFileSize

Open(s, f, n) == file' = [file EXCEPT ![s] = f] /\ no' = [no EXCEPT ![s] = n]

\* fault: only two files are used, in turn.
ChooseInTurn(s, today) ==
    IF Overfull(s, Begun(s, today))
    THEN Open(s, <<today, Number(s, today)>>, (Number(s, today) + 1) % 2)
    ELSE Open(s, Begun(s, today), Number(s, today))

\* An overfull file is closed and the one with the current number opened; then
\* the number is advanced.  (The first time, that is the same file again.)
ChooseFile(s, today) ==
    IF Overfull(s, Begun(s, today))
    THEN Open(s, <<today, Number(s, today)>>, Number(s, today) + 1)
    ELSE Open(s, Begun(s, today), Number(s, today))

\* The batch goes to a file and is flushed.  Midnight may have passed since the
\* last batch.  At the end of the iteration, or on return when the stop flag is
\* set, the lock is destructed.
Write(s) ==
    /\ AsyncAt(s, "write")
    /\ \E today \in day .. MaxDay :
         /\ ChooseFile(s, today)
         /\ date' = [date EXCEPT ![s] = today]
         /\ day' = today
    /\ written' = [written EXCEPT ![s] = Append(@, [lines |-> batch[s], file |-> file'[s]])]
    /\ batch' = [batch EXCEPT ![s] = <<>>]
    /\ Release(QueueMutex(s))
    /\ AsyncGoto(s, IF stop[s] THEN "exited" ELSE "lock")
    /\ UNCHANGED <<threadVars, bufferVars, queue, stop>>

(***************************************************************************)
(* CoredumpHandler.  It runs on the thread it interrupts, wherever that    *)
(* is, and never returns to it: raise() ends the process.                  *)
(***************************************************************************)

Interrupt(t) ==
    /\ pc[Handler] = "off" /\ Running
    /\ host' = t
    /\ pc' = [pc EXCEPT ![Handler] = "lock"]
    /\ UNCHANGED <<stream, tmp, loop, locked, bufferVars, queue, batch, fileVars, stop, day>>

\* stop() and flush() of both AsyncLoggers, after syncLoop.  (What has been
\* written is already flushed.)
Stop(s, from, to) ==
    /\ At(Handler, from)
    /\ stop' = [stop EXCEPT ![s] = TRUE]
    /\ Goto(Handler, to)
    /\ UNCHANGED <<stream, tmp, host, loop, locked, bufferVars, queue, batch, fileVars, day>>

\* pthread_join.
Join(s, from, to) ==
    /\ At(Handler, from) /\ loop[s] = "exited"
    /\ Goto(Handler, to)
    /\ UNCHANGED <<stream, locked>> /\ OnlyThread

Ends ==
    \/ Stop("rpc", "stop", "stopapp") \/ Stop("app", "stopapp", "join")
    \/ Join("rpc", "join", "joinapp") \/ Join("app", "joinapp", "raised")

PushStep(t) == Push(t) \/ DestructLog(t)

SyncStep(t) ==
    \/ \E s \in Streams : Take(t, s)
    \/ Swap(t)
    \/ Hand(t) \/ Enqueue(t) \/ Signal(t) \/ DestructQueue(t)
    \/ DestructApp(t) \/ DestructRpc(t)

AsyncStep(s) == LockQueue(s) \/ Wait(s) \/ Pop(s) \/ Write(s)

Next ==
    \/ \E t \in Loggers, s \in Streams : CallLog(t, s)
    \/ HandlerLogs
    \/ \E t \in Loggers \cup {Handler} : PushStep(t)
    \/ \E t \in {Main, Handler} : SyncStep(t)
    \/ \E s \in Streams : AsyncStep(s)
    \/ \E t \in Hosts : Interrupt(t)
    \/ Ends

(***************************************************************************)
(* Threads that can take a step take one, and the timer goes on expiring.  *)
(* Nobody has to log, and no signal has to come.                           *)
(***************************************************************************)
Fairness ==
    /\ WF_vars(SyncStep(Main))
    /\ WF_vars(HandlerLogs \/ PushStep(Handler) \/ SyncStep(Handler) \/ Ends)
    /\ \A t \in Loggers : WF_vars(PushStep(t))
    /\ \A s \in Streams : WF_vars(AsyncStep(s))

Spec == Init /\ [][Next]_vars /\ Fairness

(***************************************************************************)
(* Properties.                                                             *)
(***************************************************************************)

Lines == Seq(Nat)

TypeOK ==
    /\ pc \in [Threads -> {"off", "idle", "lock", "push", "destruct", "take", "swap", "hand",
                           "enqueue", "signal", "handed", "leave", "left", "stop", "stopapp",
                           "join", "joinapp", "raised"}]
    /\ stream \in [Threads -> Streams] /\ tmp \in [Threads -> Lines]
    /\ host \in Threads
    /\ loop \in [Streams -> {"lock", "test", "wait", "woken", "write", "exited"}]
    /\ locked \subseteq {"log", "queue"} \X Streams
    /\ buffer \in [Streams -> Lines] /\ pushed \in [Streams -> Nat]
    /\ queue \in [Streams -> Seq(Lines)] /\ batch \in [Streams -> Lines]
    /\ written \in [Streams -> Seq([lines : Lines, file : (1 .. MaxDay) \X Nat])]
    /\ file \in [Streams -> Nat \X Nat]
    /\ date \in [Streams -> Nat] /\ no \in [Streams -> Nat]
    /\ day \in 1 .. MaxDay
    /\ stop \in [Streams -> BOOLEAN]

\* The batches of a stream, from the oldest to the newest: in files, about to be
\* written, queued, swapped out, and what is still in the buffer.
OutOf(t, s) == IF stream[t] = s /\ t # host THEN tmp[t] ELSE <<>>
InFiles(s) == [i \in DOMAIN written[s] |-> written[s][i].lines]
Batches(s) ==
    InFiles(s) \o <<batch[s]>> \o queue[s]
      \o <<OutOf(Main, s), OutOf(Handler, s), buffer[s]>>

LinesOf(batches) == UNION {ToSet(batches[i]) : i \in DOMAIN batches}

\* Line after line, and batch after batch, the numbers grow.
Increasing(batches) ==
    \A i, k \in DOMAIN batches : \A j \in DOMAIN batches[i], l \in DOMAIN batches[k] :
        i < k \/ (i = k /\ j < l) => batches[i][j] < batches[k][l]

\* Lines the main thread had swapped out when the handler interrupted it.
Caught(s) == IF host = Main /\ stream[Main] = s THEN ToSet(tmp[Main]) ELSE {}

\* Between the threads that log, the timer, the handler and the writer no line
\* is lost or written twice, and none overtakes another one; only those a signal
\* catches between the swap and the queue are lost.  (For the order, signals must
\* come to the main thread: elsewhere the handler and the timer both run syncLoop.)
LinesOnceInOrder ==
    \A s \in Streams :
        /\ LinesOf(Batches(s)) = (1 .. pushed[s]) \ Caught(s)
        /\ Increasing(Batches(s))

\* An AsyncLogger never sleeps over a batch: when it waits for the condition,
\* the queue is empty or a thread has yet to give the signal (which it never does
\* when the handler has interrupted it there).
NoSleepOverLines ==
    \A s \in Streams :
        loop[s] = "wait" => queue[s] = <<>> \/ \E t \in Threads : pc[t] = "signal" /\ stream[t] = s

\* In the order of days and numbers the files of one life of the process contain
\* its lines in order.
NotAfter(f, g) == f[1] < g[1] \/ (f[1] = g[1] /\ f[2] <= g[2])
FilesInOrder ==
    \A s \in Streams : \A i, j \in DOMAIN written[s] :
        i <= j => NotAfter(written[s][i].file, written[s][j].file)

\* Every line gets to a file, as long as no signal comes.  (The threads log a
\* bounded number of lines, so it is enough to ask when they have logged them.)
AllInFiles == \A s \in Streams : LinesOf(InFiles(s)) = 1 .. pushed[s]
LinesReachFiles ==
    (pushed["rpc"] + pushed["app"] >= MaxLines) ~> (AllInFiles \/ DataRace \/ pc[Handler] # "off")

\* log.cc:21 logs that the process, having received a signal, will exit.
SignalEndsProcess == (pc[Handler] # "off") ~> (pc[Handler] = "raised" \/ DataRace)
=============================================================================
