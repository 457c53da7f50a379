-------------------------- MODULE EventLoop_proofs --------------------------
(***************************************************************************)
(* The reactor, for any number of threads that add tasks, any descriptors  *)
(* and any number of calls: tasks are run once and in order, no handler of *)
(* the loop waits while it sleeps, and the kernel's list is known to       *)
(* m_listen_fds, up to the first state in which two threads are inside the *)
(* queue.                                                                  *)
(*                                                                         *)
(* What a thread is about to push and where the loop stands have to be     *)
(* added to make these inductive (Adding, Looping).                        *)
(***************************************************************************)
EXTENDS EventLoop, SequenceTheorems, TLAPS

\* The number a thread gives to the task it adds is the one after its last.
Adding ==
    \A a \in Adders :
        pc[a] \in {"lock", "push"} =>
            /\ current[a] \in Tasks
            /\ current[a].by = a
            /\ current[a].no = pushed[a] + 1

\* The loop pushes tasks of its own only while it dispatches; its batch is
\* empty except between swap and poll, and the queue is free of its tasks from
\* the swap to the poll.
Looping ==
    /\ pc[Loop] \in {"relock", "push"} => current[Loop] \in Tasks /\ current[Loop].by = Loop
    /\ pc[Loop] \notin {"swapped", "run"} => batch = <<>>
    /\ pc[Loop] \in {"swapped", "run", "poll"} =>
           \A i \in 1 .. Len(pending) : pending[i].by # Loop

\* What the invariant says of everything but the queue and the control points.
Outside ==
    /\ locked \in BOOLEAN /\ stopFlag \in BOOLEAN /\ counter \in Nat
    /\ listenFds \subseteq Fds /\ interest \subseteq Fds
    /\ ready \subseteq Fds /\ failed \subseteq Fds
    /\ arrivals \in [Fds -> 0 .. MaxReady]
    /\ events \subseteq [fd : Fds \cup {NoFd}, err : BOOLEAN]
    /\ KernelListIsListed

\* What the invariant says of the queue and the threads that use it.
Queue ==
    /\ pc \in [Threads -> ControlPoints]
    /\ pending \in Seq(Tasks) /\ batch \in Seq(Tasks)
    /\ current \in [Threads -> Tasks \cup {NoTask}]
    /\ pushed \in [Adders -> 0 .. MaxCalls]
    /\ ran \in [Adders -> 0 .. MaxCalls]
    /\ Adding /\ Looping /\ TasksRunOnceInOrder

\* The inductive invariant.
IInv == TypeOK /\ Adding /\ Looping /\ TasksRunOnceInOrder /\ KernelListIsListed

-----------------------------------------------------------------------------
\* Fields of a task.
LEMMA TaskFields ==
    ASSUME NEW t \in Tasks
    PROVE  /\ t.by \in Threads
           /\ t.by \in Adders => t.no \in 1 .. MaxCalls
           /\ t.op \in {"callback", "stop", "drain", "read"} \cup FdOps
           /\ t.op \in FdOps \cup {"read"} => t.fd \in Fds
  <1>1. CASE \E c \in Calls, a \in Adders, n \in 1 .. MaxCalls : t = TaskOf(c, a, n)
    BY <1>1 DEF TaskOf, Calls, FdOps, Threads
  <1>2. CASE \E h \in Handlers : t = TaskOf(h, Loop, 0)
    BY <1>2, LoopAssumption DEF TaskOf, Handlers, FdOps, Threads
  <1>. QED
    BY <1>1, <1>2 DEF Tasks

\* A task added at the end, with the next number if it is a's.
LEMMA HoldsAppend ==
    ASSUME NEW q \in Seq(Tasks), NEW t \in Tasks, NEW a, NEW lo \in Nat, NEW hi \in Nat,
           Holds(q, a, lo, hi), t.by = a => t.no = hi + 1
    PROVE  Holds(Append(q, t), a, lo, IF t.by = a THEN hi + 1 ELSE hi)
  <1>. DEFINE r == Append(q, t)
              top == IF t.by = a THEN hi + 1 ELSE hi
  <1>1. /\ Len(q) \in Nat /\ Len(r) = Len(q) + 1
        /\ \A i \in 1 .. Len(q) : r[i] = q[i]
        /\ r[Len(q) + 1] = t
    OBVIOUS
  <1>. HIDE DEF r
  <1>2. lo <= hi
    BY DEF Holds
  <1>3. \A n \in lo + 1 .. top : \E i \in 1 .. Len(r) : r[i].by = a /\ r[i].no = n
    <2>. SUFFICES ASSUME NEW n \in lo + 1 .. top
                  PROVE  \E i \in 1 .. Len(r) : r[i].by = a /\ r[i].no = n
      OBVIOUS
    <2>1. CASE n \in lo + 1 .. hi
      <3>1. PICK i \in 1 .. Len(q) : q[i].by = a /\ q[i].no = n
        BY <2>1 DEF Holds
      <3>. QED
        BY <1>1, <3>1
    <2>2. CASE n \notin lo + 1 .. hi
      <3>1. t.by = a /\ n = hi + 1
        BY <1>2, <2>2
      <3>. QED
        BY <1>1, <3>1
    <2>. QED
      BY <2>1, <2>2
  <1>4. \A i \in 1 .. Len(r) : r[i].by = a => r[i].no \in lo + 1 .. top
    <2>. SUFFICES ASSUME NEW i \in 1 .. Len(r), r[i].by = a
                  PROVE  r[i].no \in lo + 1 .. top
      OBVIOUS
    <2>1. CASE i \in 1 .. Len(q)
      <3>1. r[i] = q[i] /\ q[i].no \in lo + 1 .. hi
        BY <1>1, <2>1 DEF Holds
      <3>. QED
        BY <3>1
    <2>2. CASE i = Len(q) + 1
      BY <1>1, <1>2, <2>2
    <2>. QED
      BY <1>1, <2>1, <2>2
  <1>5. \A i, j \in 1 .. Len(r) : i < j /\ r[i].by = a /\ r[j].by = a => r[i].no < r[j].no
    <2>. SUFFICES ASSUME NEW i \in 1 .. Len(r), NEW j \in 1 .. Len(r),
                         i < j, r[i].by = a, r[j].by = a
                  PROVE  r[i].no < r[j].no
      OBVIOUS
    <2>1. i \in 1 .. Len(q) /\ r[i] = q[i]
      BY <1>1
    <2>2. CASE j \in 1 .. Len(q)
      BY <1>1, <2>1, <2>2 DEF Holds
    <2>3. CASE j = Len(q) + 1
      <3>1. r[j].no = hi + 1
        BY <1>1, <2>3
      <3>2. q[i].no \in lo + 1 .. hi
        BY <2>1 DEF Holds
      <3>. QED
        BY <2>1, <3>1, <3>2
    <2>. QED
      BY <1>1, <2>2, <2>3
  <1>6. lo <= top
    BY <1>2
  <1>. HIDE DEF top
  <1>7. Holds(r, a, lo, top)
    BY <1>3, <1>4, <1>5, <1>6 DEF Holds
  <1>. QED
    BY <1>7 DEF r, top

\* The first task taken away: if it is a's, it is the one after the last run.
LEMMA HoldsTail ==
    ASSUME NEW q \in Seq(Tasks), q # <<>>, NEW a, NEW lo \in Nat, NEW hi \in Nat,
           Holds(q, a, lo, hi)
    PROVE  /\ Head(q).by = a => lo + 1 <= hi
           /\ Holds(Tail(q), a, IF Head(q).by = a THEN lo + 1 ELSE lo, hi)
  <1>. DEFINE r == Tail(q)
              low == IF Head(q).by = a THEN lo + 1 ELSE lo
  <1>1. /\ Len(q) \in Nat \ {0} /\ Len(r) = Len(q) - 1
        /\ \A i \in 1 .. Len(r) : r[i] = q[i + 1]
        /\ Head(q) = q[1]
    BY HeadTailProperties, EmptySeq
  <1>. HIDE DEF r
  <1>2. Head(q).by = a => Head(q).no = lo + 1 /\ lo + 1 <= hi
    <2>. SUFFICES ASSUME q[1].by = a
                  PROVE  q[1].no = lo + 1 /\ lo + 1 <= hi
      BY <1>1
    <2>1. q[1].no \in lo + 1 .. hi
      BY <1>1 DEF Holds
    <2>2. PICK i \in 1 .. Len(q) : q[i].by = a /\ q[i].no = lo + 1
      BY <2>1 DEF Holds
    <2>3. ~(1 < i)
      BY <1>1, <2>1, <2>2 DEF Holds
    <2>4. i = 1
      BY <1>1, <2>3
    <2>. QED
      BY <2>1, <2>2, <2>4
  <1>3. \A n \in low + 1 .. hi : \E i \in 1 .. Len(r) : r[i].by = a /\ r[i].no = n
    <2>. SUFFICES ASSUME NEW n \in low + 1 .. hi
                  PROVE  \E i \in 1 .. Len(r) : r[i].by = a /\ r[i].no = n
      OBVIOUS
    <2>1. PICK i \in 1 .. Len(q) : q[i].by = a /\ q[i].no = n
      BY DEF Holds
    <2>2. i # 1
      BY <1>1, <1>2, <2>1
    <2>3. i - 1 \in 1 .. Len(r) /\ r[i - 1] = q[i]
      BY <1>1, <2>2
    <2>. QED
      BY <2>1, <2>3
  <1>4. \A i \in 1 .. Len(r) : r[i].by = a => r[i].no \in low + 1 .. hi
    <2>. SUFFICES ASSUME NEW i \in 1 .. Len(r), r[i].by = a
                  PROVE  r[i].no \in low + 1 .. hi
      OBVIOUS
    <2>1. i + 1 \in 1 .. Len(q) /\ r[i] = q[i + 1] /\ 1 < i + 1 /\ 1 \in 1 .. Len(q)
      BY <1>1
    <2>2. q[i + 1].no \in lo + 1 .. hi
      BY <2>1 DEF Holds
    <2>3. q[1].by = a => q[1].no < q[i + 1].no
      BY <2>1 DEF Holds
    <2>. QED
      BY <1>1, <1>2, <2>1, <2>2, <2>3
  <1>5. \A i, j \in 1 .. Len(r) : i < j /\ r[i].by = a /\ r[j].by = a => r[i].no < r[j].no
    <2>. SUFFICES ASSUME NEW i \in 1 .. Len(r), NEW j \in 1 .. Len(r),
                         i < j, r[i].by = a, r[j].by = a
                  PROVE  r[i].no < r[j].no
      OBVIOUS
    <2>. DEFINE k == i + 1
                l == j + 1
    <2>1. k \in 1 .. Len(q) /\ l \in 1 .. Len(q) /\ k < l /\ r[i] = q[k] /\ r[j] = q[l]
      BY <1>1
    <2>. HIDE DEF k, l
    <2>2. q[k].no < q[l].no
      BY <2>1 DEF Holds
    <2>. QED
      BY <2>1, <2>2
  <1>. QED
    BY <1>2, <1>3, <1>4, <1>5 DEF Holds, r

-----------------------------------------------------------------------------
LEMMA Parts ==
    /\ IInv <=> Outside /\ Queue
    /\ IInv' <=> Outside' /\ Queue'
  BY DEF IInv, Outside, Queue, TypeOK

LEMMA InitIInv == Init => IInv
  <1>. SUFFICES ASSUME Init PROVE IInv
    OBVIOUS
  <1>. USE DEF Init
  <1>1. Outside
    <2>1. arrivals \in [Fds -> 0 .. MaxReady]
      BY BoundAssumption
    <2>. QED
      BY <2>1 DEF Outside, KernelListIsListed
  <1>2. pc \in [Threads -> ControlPoints] /\ current \in [Threads -> Tasks \cup {NoTask}]
    BY DEF ControlPoints
  <1>3. pushed \in [Adders -> 0 .. MaxCalls] /\ ran \in [Adders -> 0 .. MaxCalls]
    BY BoundAssumption
  <1>4. Adding
    BY LoopAssumption DEF Adding, Threads
  <1>5. Looping
    BY DEF Looping, Threads
  <1>6. TasksRunOnceInOrder
    <2>1. batch \o pending = <<>> /\ Len(batch \o pending) = 0
      OBVIOUS
    <2>. QED
      BY <2>1 DEF TasksRunOnceInOrder, Holds
  <1>. QED
    BY <1>1, <1>2, <1>3, <1>4, <1>5, <1>6, Parts DEF Queue

\* A step of a thread that leaves the queue alone.  It must not bring an adder
\* to its push, nor the loop to its own push, nor to a sleep or a batch.
LEMMA Moves ==
    ASSUME Queue, UNCHANGED queueVars,
           NEW t \in Threads, NEW to \in ControlPoints, Goto(t, to),
           t \in Adders /\ to \in {"lock", "push"} => pc[t] \in {"lock", "push"},
           t = Loop /\ to \in {"relock", "push"} => pc[t] \in {"relock", "push"},
           t = Loop /\ to \notin {"swapped", "run"} => batch = <<>>,
           t = Loop /\ to \in {"swapped", "run", "poll"} =>
               pc[t] \in {"swapped", "run", "poll"}
    PROVE  Queue'
  <1>. USE DEF Queue, queueVars, Goto
  <1>1. pc' \in [Threads -> ControlPoints]
    OBVIOUS
  <1>2. Adding'
    BY DEF Adding, Threads
  <1>3. Looping'
    BY DEF Looping, Threads
  <1>4. TasksRunOnceInOrder'
    BY DEF TasksRunOnceInOrder, Holds
  <1>. QED
    BY <1>1, <1>2, <1>3, <1>4

\* addTask's push, by an adder or by the loop.
LEMMA PushStep ==
    ASSUME Queue, NEW t \in Threads, Push(t)
    PROVE  Queue'
  <1>. USE DEF Queue
  <1>1. /\ pc[t] = "push" /\ pending' = Append(pending, current[t])
        /\ pushed' = IF t \in Adders THEN [pushed EXCEPT ![t] = @ + 1] ELSE pushed
        /\ current' = [current EXCEPT ![t] = NoTask]
        /\ pc' = [pc EXCEPT ![t] = "unlock"]
        /\ batch' = batch /\ ran' = ran
    BY DEF Push, At, Enqueue, Goto
  <1>2. current[t] \in Tasks /\ current[t].by = t
    BY <1>1 DEF Adding, Looping, Threads
  <1>3. t \in Adders => current[t].no = pushed[t] + 1 /\ pushed[t] + 1 \in 1 .. MaxCalls
    BY <1>1, <1>2, TaskFields DEF Adding
  <1>4. /\ pc' \in [Threads -> ControlPoints]
        /\ pending' \in Seq(Tasks) /\ batch' \in Seq(Tasks)
        /\ current' \in [Threads -> Tasks \cup {NoTask}]
        /\ ran' \in [Adders -> 0 .. MaxCalls]
    <2>1. pc' \in [Threads -> ControlPoints]
      BY <1>1 DEF ControlPoints
    <2>2. pending' \in Seq(Tasks)
      BY <1>1, <1>2, AppendProperties
    <2>. QED
      BY <1>1, <2>1, <2>2
  <1>5. pushed' \in [Adders -> 0 .. MaxCalls]
    <2>1. CASE t \in Adders
      <3>1. pushed[t] + 1 \in 0 .. MaxCalls
        BY <1>3, <2>1
      <3>. QED
        BY <1>1, <2>1, <3>1
    <2>2. CASE t \notin Adders
      BY <1>1, <2>2
    <2>. QED
      BY <2>1, <2>2
  <1>6. Adding'
    BY <1>1 DEF Adding, Threads
  <1>7. Looping'
    <2>1. CASE t = Loop
      BY <1>1, <2>1 DEF Looping
    <2>2. CASE t # Loop
      <3>1. \A i \in 1 .. Len(pending') :
               pending'[i] = current[t] \/ (i \in 1 .. Len(pending) /\ pending'[i] = pending[i])
        BY <1>1, <1>2, AppendProperties
      <3>. QED
        BY <1>1, <1>2, <2>2, <3>1 DEF Looping
    <2>. QED
      BY <2>1, <2>2
  <1>8. TasksRunOnceInOrder'
    <2>. SUFFICES ASSUME NEW a \in Adders
                  PROVE  Holds(batch \o pending, a, ran[a], pushed[a])'
      BY DEF TasksRunOnceInOrder
    <2>. DEFINE q == batch \o pending
                c == current[t]
    <2>1. q \in Seq(Tasks)
      BY ConcatProperties
    <2>2. Holds(q, a, ran[a], pushed[a])
      BY DEF TasksRunOnceInOrder
    <2>3. (batch \o pending)' = Append(q, c)
      BY <1>1, <1>2
    <2>4. pushed'[a] = IF c.by = a THEN pushed[a] + 1 ELSE pushed[a]
      BY <1>1, <1>2
    <2>5. c.by = a => c.no = pushed[a] + 1
      BY <1>2, <1>3
    <2>6. ran[a] \in Nat /\ pushed[a] \in Nat
      OBVIOUS
    <2>. HIDE DEF q, c
    <2>. QED
      BY <1>1, <1>2, <2>1, <2>2, <2>3, <2>4, <2>5, <2>6, HoldsAppend DEF c
  <1>. QED
    BY <1>4, <1>5, <1>6, <1>7, <1>8

\* loop() takes the queue: what waited becomes the batch.
LEMMA SwapStep ==
    ASSUME Queue, Swap
    PROVE  Queue'
  <1>. USE DEF Queue
  <1>1. /\ pc[Loop] = "swap" /\ batch = <<>>
        /\ batch' = pending /\ pending' = <<>>
        /\ pc' = [pc EXCEPT ![Loop] = "swapped"]
        /\ UNCHANGED <<current, pushed, ran>>
    BY DEF Swap, At, Take, Goto, Looping
  <1>2. pc' \in [Threads -> ControlPoints]
    BY <1>1 DEF ControlPoints
  <1>3. Adding'
    BY <1>1, LoopAssumption DEF Adding, Threads
  <1>4. Looping'
    BY <1>1 DEF Looping, Threads
  <1>5. (batch \o pending)' = batch \o pending
    <2>1. (batch \o pending)' = pending /\ batch \o pending = pending
      BY <1>1, ConcatEmptySeq
    <2>. QED
      BY <2>1
  <1>6. TasksRunOnceInOrder'
    <2>. DEFINE q == batch \o pending
    <2>1. q' = q
      BY <1>5
    <2>2. \A a \in Adders : Holds(q, a, ran[a], pushed[a])
      BY DEF TasksRunOnceInOrder
    <2>. HIDE DEF q
    <2>3. \A a \in Adders : Holds(q', a, ran'[a], pushed'[a])
      BY <1>1, <2>1, <2>2
    <2>4. \A a \in Adders : Holds((batch \o pending)', a, ran'[a], pushed'[a])
      BY <2>3 DEF q
    <2>. QED
      BY <2>4 DEF TasksRunOnceInOrder, Holds
  <1>. QED
    BY <1>1, <1>2, <1>3, <1>4, <1>6

\* The loop runs the first task of the batch.
LEMMA RunTaskStep ==
    ASSUME Queue, RunTask
    PROVE  Queue'
  <1>. USE DEF Queue
  <1>. DEFINE t == Head(batch)
              q == batch \o pending
  <1>1. /\ pc[Loop] = "run" /\ batch # <<>> /\ batch' = Tail(batch)
        /\ ran' = IF t.by \in Adders THEN [ran EXCEPT ![t.by] = @ + 1] ELSE ran
        /\ UNCHANGED <<pc, pending, current, pushed>>
    BY DEF RunTask, At
  <1>2. batch' \in Seq(Tasks)
    BY <1>1, HeadTailProperties
  <1>3. q \in Seq(Tasks) /\ q # <<>> /\ Head(q) = t /\ (batch \o pending)' = Tail(q)
    BY <1>1
  <1>4. \A a \in Adders : /\ Holds((batch \o pending)', a, ran'[a], pushed'[a])
                         /\ ran'[a] \in 0 .. MaxCalls
    <2>. SUFFICES ASSUME NEW a \in Adders
                  PROVE  /\ Holds((batch \o pending)', a, ran'[a], pushed'[a])
                         /\ ran'[a] \in 0 .. MaxCalls
      OBVIOUS
    <2>1. Holds(q, a, ran[a], pushed[a])
      BY DEF TasksRunOnceInOrder
    <2>2. ran[a] \in 0 .. MaxCalls /\ pushed[a] \in 0 .. MaxCalls /\ MaxCalls \in Nat
      BY BoundAssumption
    <2>3. ran'[a] = IF t.by = a THEN ran[a] + 1 ELSE ran[a]
      BY <1>1
    <2>. HIDE DEF q, t
    <2>4. /\ t.by = a => ran[a] + 1 <= pushed[a]
          /\ Holds(Tail(q), a, IF t.by = a THEN ran[a] + 1 ELSE ran[a], pushed[a])
      BY <1>3, <2>1, <2>2, HoldsTail
    <2>5. ran'[a] \in 0 .. MaxCalls
      BY <2>2, <2>3, <2>4
    <2>6. Holds((batch \o pending)', a, ran'[a], pushed'[a])
      BY <1>1, <1>3, <2>3, <2>4
    <2>. QED
      BY <2>5, <2>6
  <1>. HIDE DEF t, q
  <1>5. ran' \in [Adders -> 0 .. MaxCalls]
    BY <1>1, <1>4
  <1>6. Adding'
    BY <1>1 DEF Adding
  <1>7. Looping'
    BY <1>1 DEF Looping
  <1>8. TasksRunOnceInOrder'
    BY <1>4 DEF TasksRunOnceInOrder
  <1>. QED
    BY <1>1, <1>2, <1>5, <1>6, <1>7, <1>8

\* A thread calls addTask.
LEMMA CallAddTaskStep ==
    ASSUME Queue, NEW a \in Adders, CallAddTask(a)
    PROVE  Queue'
  <1>. USE DEF Queue
  <1>1. PICK c \in Calls : current' = [current EXCEPT ![a] = TaskOf(c, a, pushed[a] + 1)]
    BY DEF CallAddTask
  <1>2. /\ pushed[a] < MaxCalls /\ pc' = [pc EXCEPT ![a] = "lock"]
        /\ UNCHANGED <<pending, batch, pushed, ran>>
    BY DEF CallAddTask, Goto
  <1>. DEFINE t == TaskOf(c, a, pushed[a] + 1)
  <1>3. t \in Tasks /\ t.by = a /\ t.no = pushed[a] + 1
    <2>1. pushed[a] + 1 \in 1 .. MaxCalls
      BY <1>2, BoundAssumption
    <2>. QED
      BY <2>1 DEF Tasks, TaskOf
  <1>. HIDE DEF t
  <1>4. pc' \in [Threads -> ControlPoints] /\ current' \in [Threads -> Tasks \cup {NoTask}]
    BY <1>1, <1>2, <1>3 DEF ControlPoints, t
  <1>5. Adding'
    BY <1>1, <1>2, <1>3 DEF Adding, Threads, t
  <1>6. Looping'
    BY <1>1, <1>2, LoopAssumption DEF Looping, Threads
  <1>7. TasksRunOnceInOrder'
    <2>1. UNCHANGED <<pending, batch, pushed, ran>>
      BY <1>2
    <2>. HIDE DEF Queue
    <2>2. TasksRunOnceInOrder
      BY DEF Queue
    <2>. QED
      BY <2>1, <2>2 DEF TasksRunOnceInOrder
  <1>. QED
    BY <1>2, <1>4, <1>5, <1>6, <1>7

\* The loop takes an epoll result and calls addTask for its handler.
LEMMA DispatchStep ==
    ASSUME Queue, Outside, Dispatch
    PROVE  Queue'
  <1>. USE DEF Queue
  <1>1. PICK e \in events :
            current' = [current EXCEPT ![Loop] =
               TaskOf([op |-> IF e.fd = NoFd THEN "drain" ELSE "read", fd |-> e.fd], Loop, 0)]
    BY DEF Dispatch
  <1>2. /\ pc[Loop] = "dispatch" /\ pc' = [pc EXCEPT ![Loop] = "relock"]
        /\ UNCHANGED <<pending, batch, pushed, ran>>
    BY DEF Dispatch, At, Goto
  <1>. DEFINE h == [op |-> IF e.fd = NoFd THEN "drain" ELSE "read", fd |-> e.fd]
  <1>3. h \in Handlers
    BY DEF Outside, Handlers
  <1>. HIDE DEF h
  <1>4. TaskOf(h, Loop, 0) \in Tasks /\ TaskOf(h, Loop, 0).by = Loop
    BY <1>3 DEF Tasks, TaskOf
  <1>5. current' = [current EXCEPT ![Loop] = TaskOf(h, Loop, 0)]
    BY <1>1 DEF h
  <1>6. pc' \in [Threads -> ControlPoints] /\ current' \in [Threads -> Tasks \cup {NoTask}]
    BY <1>2, <1>4, <1>5 DEF ControlPoints
  <1>7. Adding'
    BY <1>2, <1>5, LoopAssumption DEF Adding, Threads
  <1>8. Looping'
    BY <1>2, <1>4, <1>5 DEF Looping, Threads
  <1>9. TasksRunOnceInOrder'
    BY <1>2 DEF TasksRunOnceInOrder, Holds
  <1>. QED
    BY <1>2, <1>6, <1>7, <1>8, <1>9

-----------------------------------------------------------------------------
\* The steps of a thread that adds or stops.
LEMMA AdderSteps ==
    ASSUME IInv, NEW a \in Adders, AdderStep(a) \/ CallAddTask(a) \/ CallStop(a)
    PROVE  IInv'
  <1>. /\ Outside /\ Queue /\ a \in Threads /\ a # Loop
       /\ {"idle", "lock", "push", "unlock", "wake", "dtor", "stopwake"} \subseteq ControlPoints
    BY Parts, LoopAssumption DEF Threads, ControlPoints
  <1>1. CASE Lock(a)
    BY <1>1, Moves, Parts DEF Lock, Acquire, At, Outside, KernelListIsListed, fdVars
  <1>2. CASE Push(a)
    BY <1>2, PushStep, Parts DEF Push, Outside, KernelListIsListed, fdVars
  <1>3. CASE Unlock(a)
    BY <1>3, Moves, Parts DEF Unlock, Release, At, Outside, KernelListIsListed, fdVars
  <1>4. CASE Wakeup(a)
    BY <1>4, Moves, Parts DEF Wakeup, At, Outside, KernelListIsListed, fdVars
  <1>5. CASE Destruct(a)
    BY <1>5, Moves, Parts DEF Destruct, Release, At, Outside, KernelListIsListed, fdVars
  <1>6. CASE CallAddTask(a)
    BY <1>6, CallAddTaskStep, Parts DEF CallAddTask, Outside, KernelListIsListed, fdVars
  <1>7. CASE CallStop(a)
    BY <1>7, Moves, Parts DEF CallStop, At, Outside, KernelListIsListed, fdVars
  <1>. QED
    BY <1>1, <1>2, <1>3, <1>4, <1>5, <1>6, <1>7 DEF AdderStep

\* What a task does to the descriptors, the eventfd and the flag.
LEMMA EffectStep ==
    ASSUME Outside, NEW t \in Tasks, TaskEffect(t), UNCHANGED <<locked, events>>
    PROVE  Outside'
  <1>. USE DEF Outside, KernelListIsListed, fdVars
  <1>1. t.op \in FdOps => t.fd \in Fds
    BY TaskFields
  <1>2. CASE t.op = "add" /\ AddToEpoll(t.fd)
                /\ UNCHANGED <<counter, ready, failed, arrivals, stopFlag>>
    BY <1>1, <1>2 DEF AddToEpoll, FdOps
  <1>3. CASE t.op = "del" /\ DeleteFromEpoll(t.fd)
                /\ UNCHANGED <<counter, ready, failed, arrivals, stopFlag>>
    BY <1>3 DEF DeleteFromEpoll
  <1>4. CASE t.op = "close" /\ CloseFd(t.fd)
                /\ UNCHANGED <<counter, listenFds, arrivals, stopFlag>>
    BY <1>4 DEF CloseFd
  <1>5. CASE t.op = "callback" /\ UNCHANGED <<counter, fdVars, stopFlag>>
    BY <1>5
  <1>6. CASE t.op = "stop" /\ stopFlag' = TRUE /\ counter' = counter + 1 /\ UNCHANGED fdVars
    BY <1>6
  <1>7. CASE t.op = "read" /\ ready' = ready \ {t.fd}
                /\ UNCHANGED <<counter, listenFds, interest, failed, arrivals, stopFlag>>
    BY <1>7
  <1>8. CASE t.op = "drain" /\ counter' = 0 /\ UNCHANGED <<fdVars, stopFlag>>
    BY <1>8
  <1>. QED
    BY <1>2, <1>3, <1>4, <1>5, <1>6, <1>7, <1>8 DEF TaskEffect

\* epoll_wait's results name descriptors of the loop or the eventfd.
LEMMA ReportableType ==
    ASSUME ready \subseteq Fds, failed \subseteq Fds
    PROVE  Reportable \subseteq [fd : Fds \cup {NoFd}, err : BOOLEAN]
  <1>. DEFINE Results == [fd : Fds \cup {NoFd}, err : BOOLEAN]
              R(f) == [fd |-> f, err |-> f \in failed]
              None == [fd |-> NoFd, err |-> FALSE]
  <1>1. \A f \in Fds \cup {NoFd} : R(f) \in Results
    <2>1. \A f \in Fds \cup {NoFd}, b \in BOOLEAN : [fd |-> f, err |-> b] \in Results
      OBVIOUS
    <2>2. \A f : (f \in failed) \in BOOLEAN
      OBVIOUS
    <2>. QED
      BY <2>1, <2>2
  <1>2. None \in Results
    OBVIOUS
  <1>3. Reportable = {R(f) : f \in (ready \cup failed) \cap interest}
                        \cup {None : n \in {counter} \ {0}}
    BY DEF Reportable
  <1>. HIDE DEF Results, R, None
  <1>4. Reportable \subseteq Results
    BY <1>1, <1>2, <1>3
  <1>. QED
    BY <1>4 DEF Results

\* The steps of loop().
LEMMA LoopSteps ==
    ASSUME IInv, LoopStep
    PROVE  IInv'
  <1>. /\ Outside /\ Queue /\ Loop \in Threads /\ Loop \notin Adders
       /\ {"check", "lock", "swap", "swapped", "run", "poll", "dispatch", "relock", "push",
            "unlock", "dtor", "exited"} \subseteq ControlPoints
    BY Parts, LoopAssumption DEF Threads, ControlPoints
  <1>. /\ pc[Loop] \notin {"swapped", "run"} => batch = <<>>
    BY DEF Queue, Looping
  <1>. USE DEF At, Outside, KernelListIsListed, fdVars
  <1>1. CASE CheckStop
    BY <1>1, Moves, Parts DEF CheckStop
  <1>2. CASE LoopLock
    BY <1>2, Moves, Parts DEF LoopLock, Acquire
  <1>3. CASE Swap
    BY <1>3, SwapStep, Parts DEF Swap
  <1>4. CASE LoopUnlock
    BY <1>4, Moves, Parts DEF LoopUnlock, Release
  <1>5. CASE RunTask
    <2>1. Head(batch) \in Tasks
      BY <1>5, HeadTailProperties DEF RunTask, Queue
    <2>2. TaskEffect(Head(batch)) /\ UNCHANGED <<locked, events>>
      BY <1>5 DEF RunTask
    <2>3. Outside'
      <3>. HIDE DEF Outside, KernelListIsListed, fdVars
      <3>. QED
        BY <2>1, <2>2, EffectStep
    <2>4. Queue'
      BY <1>5, RunTaskStep
    <2>. QED
      BY <2>3, <2>4, Parts
  <1>6. CASE BatchDone
    BY <1>6, Moves, Parts DEF BatchDone
  <1>7. CASE PollReturns
    <2>1. Reportable \subseteq [fd : Fds \cup {NoFd}, err : BOOLEAN]
      BY ReportableType
    <2>. QED
      BY <1>7, <2>1, Moves, Parts DEF PollReturns
  <1>8. CASE PollTimesOut
    BY <1>8, Moves, Parts DEF PollTimesOut
  <1>9. CASE Dispatch
    <2>1. Outside'
      BY <1>9 DEF Dispatch, DeleteFromEpoll
    <2>. QED
      BY <1>9, <2>1, DispatchStep, Parts
  <1>10. CASE LoopRelock
    BY <1>10, Moves, Parts DEF LoopRelock, Acquire
  <1>11. CASE Push(Loop)
    BY <1>11, PushStep, Parts DEF Push
  <1>12. CASE LoopReunlock
    BY <1>12, Moves, Parts DEF LoopReunlock, Release
  <1>13. CASE LoopDestruct
    BY <1>13, Moves, Parts DEF LoopDestruct, Release
  <1>14. CASE IterationEnds
    BY <1>14, Moves, Parts DEF IterationEnds, Release
  <1>. QED
    BY <1>1, <1>2, <1>3, <1>4, <1>5, <1>6, <1>7, <1>8, <1>9, <1>10, <1>11, <1>12, <1>13,
       <1>14 DEF LoopStep

LEMMA NextIInv == IInv /\ [Next]_vars => IInv'
  <1>. SUFFICES ASSUME IInv, [Next]_vars
                PROVE  IInv'
    OBVIOUS
  <1>. Outside /\ Queue
    BY Parts
  <1>1. CASE \E a \in Adders : AdderStep(a) \/ CallAddTask(a) \/ CallStop(a)
    BY <1>1, AdderSteps
  <1>2. CASE LoopStep
    BY <1>2, LoopSteps
  <1>3. ASSUME UNCHANGED <<pc, queueVars>>
        PROVE  Queue'
    BY <1>3 DEF Queue, queueVars, Adding, Looping, TasksRunOnceInOrder, Holds
  <1>4. ASSUME NEW f \in Fds, Arrives(f)
        PROVE  IInv'
    <2>1. Outside'
      <3>1. arrivals' \in [Fds -> 0 .. MaxReady]
        BY <1>4, BoundAssumption DEF Arrives, Outside
      <3>. QED
        BY <1>4, <3>1 DEF Arrives, Outside, KernelListIsListed
    <2>. QED
      BY <1>3, <1>4, <2>1, Parts DEF Arrives
  <1>5. ASSUME NEW f \in Fds, Fails(f)
        PROVE  IInv'
    <2>1. Outside'
      BY <1>5 DEF Fails, Outside, KernelListIsListed
    <2>. QED
      BY <1>3, <1>5, <2>1, Parts DEF Fails
  <1>6. CASE UNCHANGED vars
    BY <1>3, <1>6, Parts DEF vars, fdVars, Outside, KernelListIsListed
  <1>. QED
    BY <1>1, <1>2, <1>4, <1>5, <1>6 DEF Next

LEMMA Invariance == Spec => []IInv
  BY InitIInv, NextIInv, PTL DEF Spec

-----------------------------------------------------------------------------
\* The queue never holds an empty function object, and every variable keeps
\* its type, whatever the threads call and in whatever order they run.
THEOREM TypeCorrect == Spec => []TypeOK
  <1>1. IInv => TypeOK
    BY DEF IInv
  <1>. QED
    BY <1>1, Invariance, PTL

\* addTask and loop() lose no task, run none twice and keep each thread's order.
THEOREM OnceInOrder == Spec => []TasksRunOnceInOrder
  <1>1. IInv => TasksRunOnceInOrder
    BY DEF IInv
  <1>. QED
    BY <1>1, Invariance, PTL

\* Whenever loop() enters epoll_wait, none of its own handlers is queued.
THEOREM HandlersDoNotSleep == Spec => []NoHandlerSleeps
  <1>1. IInv => NoHandlerSleeps
    BY DEF IInv, Looping, NoHandlerSleeps
  <1>. QED
    BY <1>1, Invariance, PTL

\* The kernel's interest list holds only descriptors m_listen_fds knows.
THEOREM KernelListKnown == Spec => []KernelListIsListed
  <1>1. IInv => KernelListIsListed
    BY DEF IInv
  <1>. QED
    BY <1>1, Invariance, PTL
=============================================================================
