----------------------------- MODULE EventLoop -----------------------------
(***************************************************************************)
(* The reactor of src/rocket/net/eventloop.cc: one thread runs loop(),     *)
(* other threads hand it work through addTask(cb, true) and stop().  Four  *)
(* mechanisms interact: the task queue m_pending_tasks and its mutex, the  *)
(* eventfd that interrupts epoll_wait, the epoll interest list shadowed by *)
(* m_listen_fds, and m_stop_flag.                                          *)
(*                                                                         *)
(* The queue is guarded by ScopeMutex (src/rocket/common/mutex.h), whose   *)
(* destructor unlocks even after an explicit unlock().  Both addTask and   *)
(* loop() call unlock() and then run the destructor, so each critical      *)
(* section is followed by a second pthread_mutex_unlock of a mutex another *)
(* thread may hold by then; glibc's default mutex releases it.  Two        *)
(* threads can therefore be inside the std::queue at once.  From such a    *)
(* state on, C++ defines nothing (tasks may be lost, the process may die): *)
(* the model stops there, and every property speaks of executions up to    *)
(* it.                                                                     *)
(*                                                                         *)
(* Definitions marked "fault" are mistakes this code could contain; the    *)
(* mutants of PROJECT.json put them in the place of the definition below.  *)
(***************************************************************************)
EXTENDS Naturals, Sequences, FiniteSets

CONSTANTS
    Loop,       \* the thread that constructed the EventLoop and runs loop()
    Adders,     \* other threads that hold a pointer to the EventLoop
    Fds,        \* descriptors whose FdEvents may be registered with the loop
    NoFd,       \* stands for the eventfd, and for a task that concerns no descriptor
    MaxCalls,   \* bound: tasks each adder adds
    MaxReady    \* bound: how often a descriptor becomes readable

ASSUME LoopAssumption == Loop \notin Adders
ASSUME FdAssumption == NoFd \notin Fds
ASSUME BoundAssumption == MaxCalls \in Nat /\ MaxReady \in Nat

Threads == Adders \cup {Loop}

(***************************************************************************)
(* A task is what its std::function does when the loop calls it.  Threads  *)
(* other than the loop's add: an application callback; the closures of     *)
(* addEpollEvent and deleteEpollEvent; a callback that destroys a          *)
(* TcpClient, which closes its descriptor without deleteEpollEvent; a      *)
(* callback that stops the loop.  The loop adds for itself the read        *)
(* handlers of descriptors and the handler that drains the eventfd.  `by'  *)
(* and `no' identify a task: the no-th of thread by.                       *)
(***************************************************************************)
FdOps == {"add", "del", "close"}
Calls == [op : {"callback", "stop"}, fd : {NoFd}] \cup [op : FdOps, fd : Fds]
Handlers == [op : {"drain"}, fd : {NoFd}] \cup [op : {"read"}, fd : Fds]
TaskOf(c, t, n) == [op |-> c.op, fd |-> c.fd, by |-> t, no |-> n]
Tasks == {TaskOf(c, a, n) : c \in Calls, a \in Adders, n \in 1 .. MaxCalls}
           \cup {TaskOf(h, Loop, 0) : h \in Handlers}
NoTask == [op |-> "none", fd |-> NoFd, by |-> Loop, no |-> 0]

VARIABLES
    pc,         \* control point of each thread
    locked,     \* the lock word of m_mutex
    pending,    \* m_pending_tasks
    batch,      \* tmp_tasks of the current iteration of loop()
    current,    \* the task each thread is about to push
    pushed,     \* number of tasks each adder has pushed
    ran,        \* number of tasks of each adder the loop has run
    counter,    \* value of the eventfd
    listenFds,  \* m_listen_fds
    interest,   \* the kernel's interest list (the eventfd is always in it)
    ready,      \* descriptors with unread input
    failed,     \* descriptors in error state
    arrivals,   \* how often each descriptor became readable
    events,     \* epoll_wait results the loop has not processed yet
    stopFlag    \* m_stop_flag

queueVars == <<pending, batch, current, pushed, ran>>
fdVars    == <<listenFds, interest, ready, failed, arrivals>>
vars == <<pc, locked, queueVars, counter, fdVars, events, stopFlag>>

Init ==
    /\ pc = [t \in Threads |-> IF t = Loop THEN "check" ELSE "idle"]
    /\ locked = FALSE
    /\ pending = <<>> /\ batch = <<>>
    /\ current = [t \in Threads |-> NoTask]
    /\ pushed = [a \in Adders |-> 0]
    /\ ran = [a \in Adders |-> 0]
    /\ counter = 0
    /\ listenFds = {} /\ interest = {}
    /\ ready = {} /\ failed = {} /\ arrivals = [f \in Fds |-> 0]
    /\ events = {}
    /\ stopFlag = FALSE

(***************************************************************************)
(* The mutex and the queue, used by every thread.                          *)
(***************************************************************************)

\* Threads between their lock and their unlock are using the std::queue.
Inside(t) == pc[t] \in {"push", "swap"}
DataRace == \E t, u \in Threads : t # u /\ Inside(t) /\ Inside(u)

At(t, where) == pc[t] = where /\ ~DataRace
Goto(t, where) == pc' = [pc EXCEPT ![t] = where]

\* Acquire and Release change the mutex and the thread's control point only.
Acquire(t, from, to) ==
    /\ At(t, from) /\ ~locked
    /\ locked' = TRUE
    /\ Goto(t, to)
    /\ UNCHANGED <<queueVars, counter, fdVars, events, stopFlag>>

\* unlock() and ~ScopeMutex alike: whoever holds the mutex loses it.
Release(t, from, to) ==
    /\ At(t, from)
    /\ locked' = FALSE
    /\ Goto(t, to)
    /\ UNCHANGED <<queueVars, counter, fdVars, events, stopFlag>>

\* fault: the task is pushed at the wrong end.
EnqueueFirst(t) == pending' = <<current[t]>> \o pending

\* fault: the function object is moved from before it is pushed.
EnqueueEmpty(t) == pending' = Append(pending, NoTask)

Enqueue(t) == pending' = Append(pending, current[t])

Push(t) ==
    /\ At(t, "push")
    /\ Enqueue(t)
    /\ pushed' = IF t \in Adders THEN [pushed EXCEPT ![t] = @ + 1] ELSE pushed
    /\ current' = [current EXCEPT ![t] = NoTask]
    /\ Goto(t, "unlock")
    /\ UNCHANGED <<locked, batch, ran, counter, fdVars, events, stopFlag>>

(***************************************************************************)
(* addTask(cb, true) and stop(), called by the other threads.              *)
(***************************************************************************)

CallAddTask(a) ==
    /\ At(a, "idle") /\ pushed[a] < MaxCalls
    /\ \E c \in Calls :
         current' = [current EXCEPT ![a] = TaskOf(c, a, pushed[a] + 1)]
    /\ Goto(a, "lock")
    /\ UNCHANGED <<locked, pending, batch, pushed, ran, counter, fdVars, events,
                   stopFlag>>

Lock(a) == Acquire(a, "lock", "push")

Unlock(a) == Release(a, "unlock", "wake")

\* WakeUpFdEvent::wakeup adds to the eventfd.
Wakeup(a) ==
    /\ At(a, "wake") \/ At(a, "stopwake")
    /\ counter' = counter + 1
    /\ Goto(a, IF pc[a] = "wake" THEN "dtor" ELSE "idle")
    /\ UNCHANGED <<locked, queueVars, fdVars, events, stopFlag>>

\* ~ScopeMutex when addTask returns.
Destruct(a) == Release(a, "dtor", "idle")

CallStop(a) ==
    /\ At(a, "idle") /\ ~stopFlag
    /\ stopFlag' = TRUE
    /\ Goto(a, "stopwake")
    /\ UNCHANGED <<locked, queueVars, counter, fdVars, events>>

(***************************************************************************)
(* loop(): test the stop flag, take the queue, run what was taken, poll.   *)
(***************************************************************************)

\* fault: the flag is tested once, before the loop.
CheckStopOnce ==
    /\ At(Loop, "check")
    /\ Goto(Loop, "lock")
    /\ UNCHANGED <<locked, queueVars, counter, fdVars, events, stopFlag>>

CheckStop ==
    /\ At(Loop, "check")
    /\ Goto(Loop, IF stopFlag THEN "exited" ELSE "lock")
    /\ UNCHANGED <<locked, queueVars, counter, fdVars, events, stopFlag>>

LoopLock == Acquire(Loop, "lock", "swap")

\* fault: one task per iteration.
TakeOne ==
    IF pending = <<>> THEN batch' = <<>> /\ pending' = <<>>
    ELSE batch' = <<Head(pending)>> /\ pending' = Tail(pending)

Take == batch' = pending /\ pending' = <<>>

Swap ==
    /\ At(Loop, "swap")
    /\ Take
    /\ Goto(Loop, "swapped")
    /\ UNCHANGED <<locked, current, pushed, ran, counter, fdVars, events, stopFlag>>

\* fault: the mutex is held until the end of the iteration.
LoopKeepsLock ==
    /\ At(Loop, "swapped")
    /\ Goto(Loop, "run")
    /\ UNCHANGED <<locked, queueVars, counter, fdVars, events, stopFlag>>

LoopUnlock == Release(Loop, "swapped", "run")

\* ADD_TO_EPOLL.  A listed descriptor is modified, which fails (and is only
\* logged) when the kernel does not have it; it is inserted all the same.
AddToEpoll(f) ==
    /\ listenFds' = listenFds \cup {f}
    /\ interest' = IF f \in listenFds THEN interest ELSE interest \cup {f}

\* fault: the entry is erased without EPOLL_CTL_DEL.
EraseOnly(f) == listenFds' = listenFds \ {f} /\ UNCHANGED interest

\* DELETE_TO_EPOLL returns early for a descriptor that is not listed.
DeleteFromEpoll(f) ==
    /\ listenFds' = listenFds \ {f}
    /\ interest' = IF f \in listenFds THEN interest \ {f} ELSE interest

\* Closing a descriptor removes it from the kernel's list; its number is free.
CloseFd(f) ==
    /\ interest' = interest \ {f}
    /\ ready' = ready \ {f}
    /\ failed' = failed \ {f}

TaskEffect(t) ==
    \/ t.op = "callback" /\ UNCHANGED <<counter, fdVars, stopFlag>>
    \/ t.op = "stop" /\ stopFlag' = TRUE /\ counter' = counter + 1 /\ UNCHANGED fdVars
    \/ /\ t.op = "add" /\ AddToEpoll(t.fd)
       /\ UNCHANGED <<counter, ready, failed, arrivals, stopFlag>>
    \/ /\ t.op = "del" /\ DeleteFromEpoll(t.fd)
       /\ UNCHANGED <<counter, ready, failed, arrivals, stopFlag>>
    \/ /\ t.op = "close" /\ CloseFd(t.fd)
       /\ UNCHANGED <<counter, listenFds, arrivals, stopFlag>>
    \/ /\ t.op = "read" /\ ready' = ready \ {t.fd}
       /\ UNCHANGED <<counter, listenFds, interest, failed, arrivals, stopFlag>>
    \/ t.op = "drain" /\ counter' = 0 /\ UNCHANGED <<fdVars, stopFlag>>

RunTask ==
    /\ At(Loop, "run") /\ batch # <<>>
    /\ LET t == Head(batch) IN
         /\ TaskEffect(t)
         /\ ran' = IF t.by \in Adders THEN [ran EXCEPT ![t.by] = @ + 1] ELSE ran
    /\ batch' = Tail(batch)
    /\ UNCHANGED <<pc, locked, pending, current, pushed, events>>

BatchDone ==
    /\ At(Loop, "run") /\ batch = <<>>
    /\ Goto(Loop, "poll")
    /\ UNCHANGED <<locked, queueVars, counter, fdVars, events, stopFlag>>

\* What the level-triggered epoll instance reports: EPOLLERR comes with EPOLLIN.
Reportable ==
    {[fd |-> f, err |-> f \in failed] : f \in (ready \cup failed) \cap interest}
      \cup {[fd |-> NoFd, err |-> FALSE] : n \in {counter} \ {0}}

PollReturns ==
    /\ At(Loop, "poll") /\ Reportable # {}
    /\ events' = Reportable
    /\ Goto(Loop, "dispatch")
    /\ UNCHANGED <<locked, queueVars, counter, fdVars, stopFlag>>

\* fault: epoll_wait without a timeout.
PollForever == At(Loop, "poll") /\ Reportable = {} /\ UNCHANGED vars

\* g_epoll_max_timeout: epoll_wait returns 0 after ten seconds without event.
PollTimesOut ==
    /\ At(Loop, "poll") /\ Reportable = {}
    /\ Goto(Loop, "dispatch")
    /\ UNCHANGED <<locked, queueVars, counter, fdVars, events, stopFlag>>

\* One result: addTask(handler(IN_EVENT)) begins.  A descriptor in error is
\* also deleted, inline; its error handler is never set, so nothing is queued
\* for it.  (The order of the two is not observable: both lists are the loop's.)
Dispatch ==
    /\ At(Loop, "dispatch")
    /\ \E e \in events :
         /\ events' = events \ {e}
         /\ current' = [current EXCEPT ![Loop] =
               TaskOf([op |-> IF e.fd = NoFd THEN "drain" ELSE "read", fd |-> e.fd], Loop, 0)]
         /\ IF e.err THEN DeleteFromEpoll(e.fd) ELSE UNCHANGED <<listenFds, interest>>
    /\ Goto(Loop, "relock")
    /\ UNCHANGED <<locked, pending, batch, pushed, ran, counter, ready, failed, arrivals,
                   stopFlag>>

LoopRelock == Acquire(Loop, "relock", "push")

LoopReunlock == Release(Loop, "unlock", "dtor")

LoopDestruct == Release(Loop, "dtor", "dispatch")

\* ~ScopeMutex of the lock taken at the top of the iteration.
IterationEnds == events = {} /\ Release(Loop, "dispatch", "check")

(***************************************************************************)
(* The outside world.                                                      *)
(***************************************************************************)

Arrives(f) ==
    /\ ~DataRace /\ f \notin ready /\ arrivals[f] < MaxReady
    /\ ready' = ready \cup {f}
    /\ arrivals' = [arrivals EXCEPT ![f] = @ + 1]
    /\ UNCHANGED <<pc, locked, queueVars, counter, listenFds, interest, failed, events,
                   stopFlag>>

Fails(f) ==
    /\ ~DataRace /\ f \in interest \ failed
    /\ failed' = failed \cup {f}
    /\ UNCHANGED <<pc, locked, queueVars, counter, listenFds, interest, ready, arrivals,
                   events, stopFlag>>

AdderStep(a) == Lock(a) \/ Push(a) \/ Unlock(a) \/ Wakeup(a) \/ Destruct(a)

LoopStep ==
    \/ CheckStop \/ LoopLock \/ Swap \/ LoopUnlock \/ RunTask \/ BatchDone
    \/ PollReturns \/ PollTimesOut
    \/ Dispatch \/ LoopRelock \/ Push(Loop) \/ LoopReunlock \/ LoopDestruct
    \/ IterationEnds

Next ==
    \/ \E a \in Adders : AdderStep(a) \/ CallAddTask(a) \/ CallStop(a)
    \/ LoopStep
    \/ \E f \in Fds : Arrives(f) \/ Fails(f)

(***************************************************************************)
(* The scheduler runs every thread that can take a step; epoll_wait        *)
(* returns at the latest after its timeout.  Nothing is assumed about who  *)
(* gets the mutex when several threads want it, threads need not call      *)
(* anything and descriptors need not become ready.                         *)
(***************************************************************************)
Fairness == WF_vars(LoopStep) /\ \A a \in Adders : WF_vars(AdderStep(a))

Spec == Init /\ [][Next]_vars /\ Fairness

(***************************************************************************)
(* Properties.                                                             *)
(***************************************************************************)

ControlPoints == {"idle", "lock", "push", "unlock", "wake", "dtor", "stopwake", "check",
                  "swap", "swapped", "run", "poll", "dispatch", "relock", "exited"}

\* Types of the variables; in particular the queue never holds an empty
\* function object, and every counter stays within what was called.
TypeOK ==
    /\ pc \in [Threads -> ControlPoints]
    /\ locked \in BOOLEAN /\ stopFlag \in BOOLEAN
    /\ pending \in Seq(Tasks) /\ batch \in Seq(Tasks)
    /\ current \in [Threads -> Tasks \cup {NoTask}]
    /\ pushed \in [Adders -> 0 .. MaxCalls]
    /\ ran \in [Adders -> 0 .. MaxCalls]
    /\ counter \in Nat
    /\ listenFds \subseteq Fds /\ interest \subseteq Fds
    /\ ready \subseteq Fds /\ failed \subseteq Fds
    /\ arrivals \in [Fds -> 0 .. MaxReady]
    /\ events \subseteq [fd : Fds \cup {NoFd}, err : BOOLEAN]

\* Queue q holds the tasks of thread a with numbers lo + 1 .. hi, each once and in
\* this order, and no other tasks of a.
Holds(q, a, lo, hi) ==
    /\ lo <= hi
    /\ \A n \in lo + 1 .. hi : \E i \in 1 .. Len(q) : q[i].by = a /\ q[i].no = n
    /\ \A i \in 1 .. Len(q) : q[i].by = a => q[i].no \in lo + 1 .. hi
    /\ \A i, j \in 1 .. Len(q) : i < j /\ q[i].by = a /\ q[j].by = a => q[i].no < q[j].no

\* Every task a thread pushed is run exactly once and in the order that thread
\* pushed them: what is still queued (the rest of the taken batch, then
\* m_pending_tasks) is precisely the tasks from the first one not run to the last
\* one pushed.
TasksRunOnceInOrder == \A a \in Adders : Holds(batch \o pending, a, ran[a], pushed[a])

\* When the loop goes to sleep in epoll_wait, nothing it queued for itself
\* (a read handler, the eventfd's drain) is waiting: only other threads' tasks
\* can be, so no socket's handler is delayed by the poll.
NoHandlerSleeps ==
    pc[Loop] = "poll" =>
        /\ batch = <<>>
        /\ \A i \in 1 .. Len(pending) : pending[i].by # Loop

\* The kernel watches no descriptor that m_listen_fds has forgotten, so
\* deleteEpollEvent can always stop the events of a descriptor.  (The converse
\* fails: a closed descriptor stays in m_listen_fds.)
KernelListIsListed == interest \subseteq listenFds

\* A task handed over with addTask(cb, true) is run, unless the loop stops:
\* even when its wake-up is lost, because epoll_wait times out.
AddedTaskRuns ==
    \A a \in Adders : \A n \in 1 .. MaxCalls :
        (pushed[a] >= n) ~> (ran[a] >= n \/ DataRace \/ pc[Loop] = "exited")

\* stop() ends loop(), from another thread as well as from a task.
StopEndsLoop == stopFlag ~> (pc[Loop] = "exited" \/ DataRace)

\* Input on a watched descriptor is read by its handler, unless the descriptor
\* is removed or closed first or the loop stops.
InputIsHandled ==
    \A f \in Fds :
        (f \in ready \cap interest) ~> (f \notin ready \cap interest \/ DataRace \/ pc[Loop] = "exited")

\* eventloop.cc:200 says of a task added by another thread that the loop is
\* woken up directly to execute it: the loop does not sleep on a queued task
\* without a wake-up that is already written or about to be.
QueuedTaskWakesLoop ==
    (pc[Loop] = "poll" /\ pending # <<>>) =>
        counter > 0 \/ \E a \in Adders : pc[a] \in {"unlock", "wake"}
=============================================================================
