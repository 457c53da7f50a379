---------------------------- MODULE Logger_proofs ----------------------------
(***************************************************************************)
(* The logger, for any number of threads that log, any bounds and any      *)
(* moment of a signal: an AsyncLogger does not sleep over a batch, no line *)
(* is lost or written twice, none overtakes another one, and the files are *)
(* in order.                                                               *)
(*                                                                         *)
(* None of the arguments needs mutual exclusion, although every mutex is   *)
(* unlocked twice.  For the first one it is enough that a thread that has  *)
(* enqueued a batch stands before its signal and only that signal moves it *)
(* on (IInv).  For the others (LInv) a thread has lines only on its way    *)
(* from the buffer to the queue, and an AsyncLogger a batch only before it *)
(* writes; so what a step does to Batches(s) is to append a line to the    *)
(* last batch (Push), to exchange two batches one of which is empty (Swap, *)
(* Enqueue by the handler), to put in or take out an empty one (Enqueue,   *)
(* Pop, Write) or to lose the main thread's (Interrupt); the first part    *)
(* below says what becomes of the lines.  The order needs that the timer   *)
(* and the handler are never both in syncLoop, which is so when signals    *)
(* come to the main thread only: the handler then stands on top of it.     *)
(***************************************************************************)
EXTENDS Logger, SequenceTheorems, TLAPS

\* Functions on the threads and on the streams.
Shape ==
    /\ pc = [t \in Threads |-> pc[t]] /\ stream = [t \in Threads |-> stream[t]]
    /\ loop = [s \in Streams |-> loop[s]] /\ queue = [s \in Streams |-> queue[s]]

\* A thread stands before its signal to the AsyncLogger of s.
Signalling(s) == \E t \in Threads : pc[t] = "signal" /\ stream[t] = s

IInv == Shape /\ NoSleepOverLines

LEMMA InitIInv == Init => IInv
  BY DEF Init, IInv, Shape, NoSleepOverLines

\* A thread that is not before its signal moves on; the queues stay.
LEMMA OthersMove ==
    ASSUME IInv, NEW t \in Threads, NEW to, pc[t] # "signal", pc' = [pc EXCEPT ![t] = to],
           \/ UNCHANGED stream
           \/ \E s \in Streams : stream' = [stream EXCEPT ![t] = s],
           UNCHANGED <<loop, queue>>
    PROVE  IInv'
  <1>1. \A u \in Threads : pc[u] = "signal" => pc'[u] = "signal" /\ stream'[u] = stream[u]
    BY DEF IInv, Shape
  <1>2. Shape'
    BY DEF IInv, Shape
  <1>3. NoSleepOverLines'
    BY <1>1 DEF IInv, NoSleepOverLines
  <1>. QED
    BY <1>2, <1>3 DEF IInv

LEMMA NextIInv == IInv /\ [Next]_vars => IInv'
  <1>. SUFFICES ASSUME IInv, [Next]_vars
                PROVE  IInv'
    OBVIOUS
  <1>. USE DEF At, Goto, OnlyThread
  <1>1. ASSUME NEW t \in Loggers, NEW s \in Streams, CallLog(t, s)
        PROVE  IInv'
    BY <1>1, OthersMove DEF CallLog, Threads
  <1>2. CASE HandlerLogs
    BY <1>2, OthersMove DEF HandlerLogs, Threads
  <1>3. ASSUME NEW t \in Loggers \cup {Handler}, PushStep(t)
        PROVE  IInv'
    <2>1. t \in Threads /\ "rpc" \in Streams
      BY DEF Threads, Streams
    <2>2. CASE Push(t)
      BY <2>1, <2>2, OthersMove DEF Push
    <2>3. CASE DestructLog(t)
      BY <2>1, <2>3, OthersMove DEF DestructLog
    <2>. QED
      BY <1>3, <2>2, <2>3 DEF PushStep
  <1>4. ASSUME NEW t \in {Main, Handler}, SyncStep(t)
        PROVE  IInv'
    <2>1. t \in Threads /\ "rpc" \in Streams /\ "app" \in Streams
      BY DEF Threads, Streams
    <2>2. ASSUME NEW s \in Streams, Take(t, s)
          PROVE  IInv'
      BY <2>1, <2>2, OthersMove DEF Take
    <2>3. CASE Swap(t)
      BY <2>1, <2>3, OthersMove DEF Swap, Onward
    <2>4. CASE Hand(t)
      BY <2>1, <2>4, OthersMove DEF Hand
    <2>5. CASE Enqueue(t)
      <3>1. /\ pc' = [pc EXCEPT ![t] = "signal"] /\ UNCHANGED <<stream, loop>>
            /\ queue' = [queue EXCEPT ![stream[t]] = Append(@, tmp[t])] /\ pc[t] = "enqueue"
        BY <2>5 DEF Enqueue
      <3>2. Shape'
        BY <3>1 DEF IInv, Shape
      <3>3. \A s \in Streams : s # stream[t] => queue'[s] = queue[s]
        BY <3>1 DEF IInv, Shape
      <3>4. \A u \in Threads : pc[u] = "signal" => pc'[u] = "signal"
        BY <3>1 DEF IInv, Shape
      <3>5. pc'[t] = "signal"
        BY <2>1, <3>1 DEF IInv, Shape
      <3>6. NoSleepOverLines'
        BY <2>1, <3>1, <3>3, <3>4, <3>5 DEF IInv, NoSleepOverLines
      <3>. QED
        BY <3>2, <3>6 DEF IInv
    <2>6. CASE Signal(t)
      <3>1. /\ pc' = [pc EXCEPT ![t] = "handed"] /\ UNCHANGED <<stream, queue>>
            /\ loop' = IF loop[stream[t]] = "wait" THEN [loop EXCEPT ![stream[t]] = "woken"]
                       ELSE loop
        BY <2>6 DEF Signal, Wake
      <3>2. Shape'
        BY <3>1 DEF IInv, Shape
      <3>3. \A s \in Streams : loop'[s] = "wait" => loop[s] = "wait" /\ s # stream[t]
        BY <3>1 DEF IInv, Shape
      <3>4. \A u \in Threads : u # t => pc'[u] = pc[u]
        BY <3>1 DEF IInv, Shape
      <3>5. NoSleepOverLines'
        BY <3>1, <3>3, <3>4 DEF IInv, NoSleepOverLines
      <3>. QED
        BY <3>2, <3>5 DEF IInv
    <2>7. CASE DestructQueue(t)
      BY <2>1, <2>7, OthersMove DEF DestructQueue, Onward
    <2>8. CASE DestructApp(t)
      BY <2>1, <2>8, OthersMove DEF DestructApp
    <2>9. CASE DestructRpc(t)
      BY <2>1, <2>9, OthersMove DEF DestructRpc
    <2>. QED
      BY <1>4, <2>2, <2>3, <2>4, <2>5, <2>6, <2>7, <2>8, <2>9 DEF SyncStep
  <1>5. ASSUME NEW s \in Streams, AsyncStep(s)
        PROVE  IInv'
    <2>1. UNCHANGED <<pc, stream>>
      BY <1>5 DEF AsyncStep, LockQueue, Wait, Pop, Write, threadVars
    <2>2. ASSUME NEW where, where # "wait", AsyncGoto(s, where),
                 UNCHANGED queue \/ queue' = [queue EXCEPT ![s] = Tail(@)]
          PROVE  IInv'
      <3>1. Shape'
        BY <2>1, <2>2 DEF IInv, Shape, AsyncGoto
      <3>2. \A r \in Streams : loop'[r] = "wait" => loop[r] = "wait" /\ queue'[r] = queue[r]
        BY <2>2 DEF IInv, Shape, AsyncGoto
      <3>. QED
        BY <2>1, <3>1, <3>2 DEF IInv, NoSleepOverLines
    <2>3. CASE LockQueue(s)
      BY <2>2, <2>3 DEF LockQueue
    <2>4. CASE Wait(s)
      <3>1. queue[s] = <<>> /\ loop' = [loop EXCEPT ![s] = "wait"] /\ UNCHANGED queue
        BY <2>4 DEF Wait, AsyncGoto
      <3>2. Shape'
        BY <2>1, <3>1 DEF IInv, Shape
      <3>3. \A r \in Streams : r # s => loop'[r] = loop[r]
        BY <3>1 DEF IInv, Shape
      <3>. QED
        BY <2>1, <3>1, <3>2, <3>3 DEF IInv, NoSleepOverLines
    <2>5. CASE Pop(s)
      BY <2>2, <2>5 DEF Pop
    <2>6. CASE Write(s)
      BY <2>2, <2>6 DEF Write
    <2>. QED
      BY <1>5, <2>3, <2>4, <2>5, <2>6 DEF AsyncStep
  <1>6. ASSUME NEW t \in Hosts, Interrupt(t)
        PROVE  IInv'
    BY <1>6, OthersMove DEF Interrupt, Threads
  <1>7. CASE Ends
    <2>1. Handler \in Threads
      BY DEF Threads
    <2>2. ASSUME NEW s \in Streams, NEW from, from # "signal", NEW to,
                 Stop(s, from, to) \/ Join(s, from, to)
          PROVE  IInv'
      BY <2>1, <2>2, OthersMove DEF Stop, Join
    <2>. QED
      BY <1>7, <2>2 DEF Ends, Streams
  <1>8. CASE UNCHANGED vars
    BY <1>8 DEF vars, threadVars, IInv, Shape, NoSleepOverLines
  <1>. QED
    BY <1>1, <1>2, <1>3, <1>4, <1>5, <1>6, <1>7, <1>8 DEF Next

\* While an AsyncLogger waits for its condition, its queue is empty or somebody
\* has yet to give the signal.
THEOREM NoSleep == Spec => []NoSleepOverLines
  <1>1. IInv => NoSleepOverLines
    BY DEF IInv
  <1>. QED
    BY <1>1, InitIInv, NextIInv, PTL DEF Spec

-----------------------------------------------------------------------------
\* Lists of batches that are rearranged: batch i of c is batch mu[i] of b.

\* No line is at two places.
OnceEach(b) ==
    \A i, k \in DOMAIN b : \A j \in DOMAIN b[i], l \in DOMAIN b[k] :
        b[i][j] = b[k][l] => i = k /\ j = l

\* Only empty batches are left out or put in.
Moved(b, c, mu) ==
    /\ \A i \in DOMAIN c : c[i] # <<>> => mu[i] \in DOMAIN b /\ c[i] = b[mu[i]]
    /\ \A k \in DOMAIN b : b[k] # <<>> => \E i \in DOMAIN c : mu[i] = k /\ c[i] = b[k]
    /\ \A i, k \in DOMAIN c : c[i] # <<>> /\ c[k] # <<>> /\ mu[i] = mu[k] => i = k

InPlace(c, mu) ==
    \A i, k \in DOMAIN c : c[i] # <<>> /\ c[k] # <<>> /\ i < k => mu[i] < mu[k]

LEMMA SomeLine ==
    ASSUME NEW b \in Seq(Lines), NEW i \in DOMAIN b, NEW j \in DOMAIN b[i]
    PROVE  b[i] # <<>>
  <1>1. b[i] \in Seq(Nat) /\ DOMAIN b[i] = 1 .. Len(b[i])
    BY ElementOfSeq, LenProperties DEF Lines
  <1>. QED
    BY <1>1, EmptySeq

LEMMA LineOf ==
    \A b, n : n \in LinesOf(b) <=> \E i \in DOMAIN b : \E j \in DOMAIN b[i] : b[i][j] = n
  BY DEF LinesOf, ToSet

LEMMA MovedLines ==
    ASSUME NEW b \in Seq(Lines), NEW c \in Seq(Lines), NEW mu, Moved(b, c, mu)
    PROVE  /\ LinesOf(c) = LinesOf(b)
           /\ OnceEach(b) => OnceEach(c)
           /\ InPlace(c, mu) /\ Increasing(b) => Increasing(c)
  <1>1. \A i \in DOMAIN c : \A j \in DOMAIN c[i] : c[i] # <<>>
    BY SomeLine
  <1>2. \A k \in DOMAIN b : \A j \in DOMAIN b[k] : b[k] # <<>>
    BY SomeLine
  <1>3. ASSUME NEW n
        PROVE  n \in LinesOf(c) <=> n \in LinesOf(b)
    <2>1. ASSUME NEW i \in DOMAIN c, NEW j \in DOMAIN c[i], c[i][j] = n
          PROVE  \E k \in DOMAIN b : \E l \in DOMAIN b[k] : b[k][l] = n
      <3>1. mu[i] \in DOMAIN b /\ c[i] = b[mu[i]]
        BY <1>1 DEF Moved
      <3>. QED
        BY <2>1, <3>1
    <2>2. ASSUME NEW k \in DOMAIN b, NEW l \in DOMAIN b[k], b[k][l] = n
          PROVE  \E i \in DOMAIN c : \E j \in DOMAIN c[i] : c[i][j] = n
      <3>1. PICK i \in DOMAIN c : c[i] = b[k]
        BY <1>2 DEF Moved
      <3>. QED
        BY <2>2, <3>1
    <2>. QED
      BY <2>1, <2>2, LineOf
  <1>4. ASSUME OnceEach(b)
        PROVE  OnceEach(c)
    <2>. SUFFICES ASSUME NEW i \in DOMAIN c, NEW k \in DOMAIN c,
                         NEW j \in DOMAIN c[i], NEW l \in DOMAIN c[k], c[i][j] = c[k][l]
                  PROVE  i = k /\ j = l
      BY DEF OnceEach
    <2>1. /\ c[i] # <<>> /\ mu[i] \in DOMAIN b /\ c[i] = b[mu[i]]
          /\ c[k] # <<>> /\ mu[k] \in DOMAIN b /\ c[k] = b[mu[k]]
      BY <1>1 DEF Moved
    <2>2. mu[i] = mu[k] /\ j = l
      BY <1>4, <2>1 DEF OnceEach
    <2>. QED
      BY <2>1, <2>2 DEF Moved
  <1>5. ASSUME InPlace(c, mu), Increasing(b)
        PROVE  Increasing(c)
    <2>. SUFFICES ASSUME NEW i \in DOMAIN c, NEW k \in DOMAIN c,
                         NEW j \in DOMAIN c[i], NEW l \in DOMAIN c[k],
                         i < k \/ (i = k /\ j < l)
                  PROVE  c[i][j] < c[k][l]
      BY DEF Increasing
    <2>1. /\ c[i] # <<>> /\ mu[i] \in DOMAIN b /\ c[i] = b[mu[i]]
          /\ c[k] # <<>> /\ mu[k] \in DOMAIN b /\ c[k] = b[mu[k]]
      BY <1>1 DEF Moved
    <2>2. mu[i] < mu[k] \/ (mu[i] = mu[k] /\ j < l)
      BY <1>5, <2>1 DEF InPlace
    <2>. QED
      BY <1>5, <2>1, <2>2 DEF Increasing
  <1>. QED
    BY <1>3, <1>4, <1>5

\* The newest line is pushed into the last batch.
LEMMA PushedLine ==
    ASSUME NEW b \in Seq(Lines), NEW c \in Seq(Lines), NEW n \in Nat,
           Len(b) > 0, Len(c) = Len(b),
           \A i \in 1 .. Len(b) - 1 : c[i] = b[i],
           c[Len(b)] = Append(b[Len(b)], n),
           \A m \in LinesOf(b) : m \in Nat /\ m < n
    PROVE  /\ LinesOf(c) = LinesOf(b) \cup {n}
           /\ OnceEach(b) => OnceEach(c)
           /\ Increasing(b) => Increasing(c)
  <1>. DEFINE e == Len(b)
              x == b[e]
  <1>1. /\ DOMAIN b = 1 .. e /\ DOMAIN c = 1 .. e /\ e \in Nat /\ e \in 1 .. e
        /\ x \in Seq(Nat) /\ Len(x) \in Nat /\ DOMAIN x = 1 .. Len(x)
    BY ElementOfSeq, LenProperties DEF Lines
  <1>2. /\ DOMAIN c[e] = 1 .. Len(x) + 1
        /\ c[e][Len(x) + 1] = n
        /\ \A j \in 1 .. Len(x) : c[e][j] = x[j]
    BY <1>1, AppendProperties
  <1>3. \A i \in 1 .. e : i # e => c[i] = b[i]
    <2>1. \A k \in Nat : \A i \in 1 .. k : i # k => i \in 1 .. k - 1
      OBVIOUS
    <2>. QED
      BY <1>1, <2>1
  <1>4. \A i \in DOMAIN b : \A j \in DOMAIN b[i] : b[i][j] \in Nat /\ b[i][j] < n
    BY LineOf
  <1>5. /\ \A i \in DOMAIN b : \A j \in DOMAIN b[i] : j \in DOMAIN c[i] /\ c[i][j] = b[i][j]
        /\ \A i \in DOMAIN c : \A j \in DOMAIN c[i] :
              \/ j \in DOMAIN b[i] /\ c[i][j] = b[i][j]
              \/ i = e /\ j = Len(x) + 1 /\ c[i][j] = n
        /\ Len(x) + 1 \in DOMAIN c[e]
    <2>1. 1 .. Len(x) + 1 = (1 .. Len(x)) \cup {Len(x) + 1}
      BY <1>1
    <2>. QED
      BY <1>1, <1>2, <1>3, <2>1
  <1>6. LinesOf(c) = LinesOf(b) \cup {n}
    <2>1. ASSUME NEW w, w \in LinesOf(b)
          PROVE  w \in LinesOf(c)
      <3>1. PICK i \in DOMAIN b : \E j \in DOMAIN b[i] : b[i][j] = w
        BY <2>1, LineOf
      <3>2. \E j \in DOMAIN c[i] : c[i][j] = w
        BY <1>5, <3>1
      <3>. QED
        BY <1>1, <3>1, <3>2, LineOf
    <2>2. ASSUME NEW w, w \in LinesOf(c)
          PROVE  w \in LinesOf(b) \cup {n}
      <3>1. PICK i \in DOMAIN c : \E j \in DOMAIN c[i] : c[i][j] = w
        BY <2>2, LineOf
      <3>2. w = n \/ \E j \in DOMAIN b[i] : b[i][j] = w
        BY <1>5, <3>1
      <3>. QED
        BY <1>1, <3>1, <3>2, LineOf
    <2>3. n \in LinesOf(c)
      BY <1>1, <1>2, <1>5, LineOf
    <2>. QED
      BY <2>1, <2>2, <2>3
  <1>7. \A i, k \in 1 .. e : i <= e /\ k <= e
    BY <1>1
  <1>8. \A j \in DOMAIN x : j \in Nat /\ j < Len(x) + 1 /\ j # Len(x) + 1
    BY <1>1
  <1>. HIDE DEF e, x
  <1>9. ASSUME OnceEach(b)
        PROVE  OnceEach(c)
    <2>. SUFFICES ASSUME NEW i \in DOMAIN c, NEW k \in DOMAIN c,
                         NEW j \in DOMAIN c[i], NEW l \in DOMAIN c[k], c[i][j] = c[k][l]
                  PROVE  i = k /\ j = l
      BY DEF OnceEach
    <2>1. CASE j \in DOMAIN b[i] /\ c[i][j] = b[i][j] /\ l \in DOMAIN b[k] /\ c[k][l] = b[k][l]
      <3>1. i \in DOMAIN b /\ k \in DOMAIN b /\ b[i][j] = b[k][l]
        BY <1>1, <2>1
      <3>. QED
        BY <1>9, <2>1, <3>1 DEF OnceEach
    <2>2. CASE i = e /\ j = Len(x) + 1 /\ c[i][j] = n /\ k = e /\ l = Len(x) + 1
      BY <2>2
    <2>3. \A m \in Nat : m < n => m # n
      OBVIOUS
    <2>. QED
      BY <1>1, <1>4, <1>5, <2>1, <2>2, <2>3
  <1>10. ASSUME Increasing(b)
         PROVE  Increasing(c)
    <2>. SUFFICES ASSUME NEW i \in DOMAIN c, NEW k \in DOMAIN c,
                         NEW j \in DOMAIN c[i], NEW l \in DOMAIN c[k],
                         i < k \/ (i = k /\ j < l)
                  PROVE  c[i][j] < c[k][l]
      BY DEF Increasing
    <2>1. CASE j \in DOMAIN b[i] /\ c[i][j] = b[i][j] /\ l \in DOMAIN b[k] /\ c[k][l] = b[k][l]
      BY <1>1, <1>10, <2>1 DEF Increasing
    <2>2. CASE j \in DOMAIN b[i] /\ c[i][j] = b[i][j] /\ c[k][l] = n
      BY <1>1, <1>4, <2>2
    <2>3. CASE i = e /\ j = Len(x) + 1
      <3>1. ~(i < k)
        BY <1>1, <2>3
      <3>2. l \in DOMAIN c[e] /\ j < l
        BY <2>3, <3>1
      <3>. QED
        BY <1>1, <1>2, <2>3, <3>2
    <2>. QED
      BY <1>5, <2>1, <2>2, <2>3
  <1>. QED
    BY <1>6, <1>9, <1>10 DEF e

\* The same lines, in the same order.
Same(b, c) ==
    /\ LinesOf(c) = LinesOf(b)
    /\ OnceEach(b) => OnceEach(c)
    /\ Increasing(b) => Increasing(c)

\* An empty batch is taken from a place, or put there.
LEMMA Hole ==
    ASSUME NEW f \in Seq(Lines), NEW g \in Seq(Lines)
    PROVE  /\ f \o g \in Seq(Lines) /\ f \o << <<>> >> \o g \in Seq(Lines)
           /\ Same(f \o g, f \o << <<>> >> \o g)
           /\ Same(f \o << <<>> >> \o g, f \o g)
  <1>. DEFINE n == Len(f)
              m == Len(g)
              b == f \o g
              h == f \o << <<>> >>
              c == h \o g
  <1>1. n \in Nat /\ m \in Nat
    BY LenProperties
  <1>2. /\ << <<>> >> \in Seq(Lines) /\ Len(<< <<>> >>) = 1 /\ << <<>> >>[1] = <<>>
        /\ \A i \in 1 .. 1 : << <<>> >>[i] = <<>>
    BY EmptySeq DEF Lines
  <1>3. /\ b \in Seq(Lines) /\ Len(b) = n + m
        /\ \A i \in 1 .. n + m : b[i] = IF i <= n THEN f[i] ELSE g[i - n]
    BY ConcatProperties
  <1>4. /\ h \in Seq(Lines) /\ Len(h) = n + 1
        /\ \A i \in 1 .. n : h[i] = f[i]
        /\ h[n + 1] = <<>>
    BY <1>1, <1>2, ConcatProperties
  <1>. HIDE DEF b, h
  <1>5. /\ c \in Seq(Lines) /\ Len(c) = n + 1 + m
        /\ \A i \in 1 .. n + 1 + m : c[i] = IF i <= n + 1 THEN h[i] ELSE g[i - (n + 1)]
    <2>1. /\ c \in Seq(Lines) /\ Len(c) = Len(h) + Len(g)
          /\ \A i \in 1 .. Len(h) + Len(g) : c[i] = IF i <= Len(h) THEN h[i] ELSE g[i - Len(h)]
      BY <1>4, ConcatProperties
    <2>. QED
      BY <1>4, <2>1
  <1>6. DOMAIN b = 1 .. n + m /\ DOMAIN c = 1 .. n + 1 + m
    BY <1>3, <1>5, LenProperties
  <1>. HIDE DEF c, n, m
  <1>7. /\ \A i \in 1 .. n : i \in 1 .. n + m /\ c[i] = b[i]
        /\ c[n + 1] = <<>>
        /\ \A i \in n + 2 .. n + 1 + m : i - 1 \in 1 .. n + m /\ c[i] = b[i - 1]
    <2>1. ASSUME NEW i \in 1 .. n
          PROVE  i \in 1 .. n + m /\ c[i] = b[i]
      <3>1. /\ i \in 1 .. n + m /\ i \in 1 .. n + 1 + m /\ i <= n /\ i <= n + 1
        BY <1>1
      <3>. QED
        BY <1>3, <1>4, <1>5, <3>1
    <2>2. c[n + 1] = <<>>
      BY <1>1, <1>4, <1>5
    <2>3. ASSUME NEW i \in n + 2 .. n + 1 + m
          PROVE  i - 1 \in 1 .. n + m /\ c[i] = b[i - 1]
      <3>1. /\ i \in 1 .. n + 1 + m /\ ~(i <= n + 1) /\ i - 1 \in 1 .. n + m
            /\ ~(i - 1 <= n) /\ i - 1 - n = i - (n + 1)
        BY <1>1
      <3>2. c[i] = g[i - (n + 1)]
        BY <1>5, <3>1
      <3>3. b[i - 1] = g[i - 1 - n]
        BY <1>3, <3>1
      <3>. QED
        BY <3>1, <3>2, <3>3
    <2>. QED
      BY <2>1, <2>2, <2>3
  <1>. DEFINE mu == [i \in 1 .. n + 1 + m |-> IF i <= n THEN i ELSE i - 1]
              nu == [k \in 1 .. n + m |-> IF k <= n THEN k ELSE k + 1]
  <1>8. Moved(b, c, mu) /\ InPlace(c, mu)
    <2>1. ASSUME NEW i \in DOMAIN c, c[i] # <<>>
          PROVE  mu[i] \in DOMAIN b /\ c[i] = b[mu[i]]
      <3>1. CASE i \in 1 .. n
        <4>1. mu[i] = i
          BY <1>1, <1>6, <3>1
        <4>. QED
          BY <1>6, <1>7, <3>1, <4>1
      <3>2. CASE i \in n + 2 .. n + 1 + m
        <4>1. mu[i] = i - 1
          BY <1>1, <1>6, <3>2
        <4>. QED
          BY <1>6, <1>7, <3>2, <4>1
      <3>3. i \in 1 .. n \/ i = n + 1 \/ i \in n + 2 .. n + 1 + m
        BY <1>1, <1>6
      <3>. QED
        BY <1>7, <2>1, <3>1, <3>2, <3>3
    <2>2. ASSUME NEW k \in DOMAIN b
          PROVE  \E i \in DOMAIN c : mu[i] = k /\ c[i] = b[k]
      <3>1. CASE k <= n
        BY <1>1, <1>6, <1>7, <3>1
      <3>2. CASE ~(k <= n)
        <4>1. k + 1 \in n + 2 .. n + 1 + m /\ k + 1 \in DOMAIN c /\ k + 1 - 1 = k /\ ~(k + 1 <= n)
          BY <1>1, <1>6, <3>2
        <4>. QED
          BY <1>1, <1>6, <1>7, <4>1
      <3>. QED
        BY <3>1, <3>2
    <2>3. ASSUME NEW i \in DOMAIN c, NEW k \in DOMAIN c, c[i] # <<>>, c[k] # <<>>, i < k
          PROVE  mu[i] < mu[k]
      BY <1>1, <1>6, <1>7, <2>3
    <2>4. ASSUME NEW i \in DOMAIN c, NEW k \in DOMAIN c, c[i] # <<>>, c[k] # <<>>, mu[i] = mu[k]
          PROVE  i = k
      BY <1>1, <1>6, <1>7, <2>4
    <2>. HIDE DEF mu
    <2>. QED
      BY <2>1, <2>2, <2>3, <2>4 DEF Moved, InPlace
  <1>9. Moved(c, b, nu) /\ InPlace(b, nu)
    <2>1. ASSUME NEW k \in DOMAIN b
          PROVE  nu[k] \in DOMAIN c /\ b[k] = c[nu[k]]
      <3>1. CASE k <= n
        BY <1>1, <1>6, <1>7, <3>1
      <3>2. CASE ~(k <= n)
        <4>. DEFINE i == k + 1
        <4>1. i \in n + 2 .. n + 1 + m /\ i \in DOMAIN c /\ i - 1 = k
          BY <1>1, <1>6, <3>2
        <4>2. nu[k] = i
          BY <1>6, <3>2
        <4>. HIDE DEF i, nu
        <4>3. c[i] = b[i - 1]
          BY <1>7, <4>1
        <4>. QED
          BY <4>1, <4>2, <4>3
      <3>. QED
        BY <3>1, <3>2
    <2>2. ASSUME NEW i \in DOMAIN c, c[i] # <<>>
          PROVE  \E k \in DOMAIN b : nu[k] = i /\ b[k] = c[i]
      <3>1. CASE i <= n
        BY <1>1, <1>6, <1>7, <3>1
      <3>2. CASE i \in n + 2 .. n + 1 + m
        <4>1. i - 1 \in DOMAIN b /\ b[i - 1] = c[i]
          BY <1>6, <1>7, <3>2
        <4>2. ~(i - 1 <= n) /\ i - 1 + 1 = i
          BY <1>1, <3>2
        <4>3. nu[i - 1] = i
          BY <1>6, <4>1, <4>2
        <4>. QED
          BY <4>1, <4>3
      <3>. QED
        BY <1>1, <1>6, <1>7, <2>2, <3>1, <3>2
    <2>3. ASSUME NEW i \in DOMAIN b, NEW k \in DOMAIN b, i < k
          PROVE  nu[i] < nu[k]
      BY <1>1, <1>6, <2>3
    <2>4. ASSUME NEW i \in DOMAIN b, NEW k \in DOMAIN b, nu[i] = nu[k]
          PROVE  i = k
      BY <1>1, <1>6, <2>4
    <2>. HIDE DEF nu
    <2>. QED
      BY <2>1, <2>2, <2>3, <2>4 DEF Moved, InPlace
  <1>. HIDE DEF mu, nu
  <1>10. Same(b, c) /\ Same(c, b)
    BY <1>3, <1>5, <1>8, <1>9, MovedLines DEF Same
  <1>. QED
    BY <1>3, <1>5, <1>10 DEF b, c, h

LEMMA Located ==
    ASSUME NEW f \in Seq(Lines), NEW t \in Seq(Lines), Len(t) = 3
    PROVE  /\ f \o t \in Seq(Lines) /\ Len(f \o t) = Len(f) + 3
           /\ \A i \in 1 .. Len(f) + 3 : (f \o t)[i] = IF i <= Len(f) THEN f[i] ELSE t[i - Len(f)]
  <1>1. /\ f \o t \in Seq(Lines) /\ Len(f \o t) = Len(f) + Len(t)
        /\ \A i \in 1 .. Len(f) + Len(t) :
              (f \o t)[i] = IF i <= Len(f) THEN f[i] ELSE t[i - Len(f)]
    BY ConcatProperties
  <1>. QED
    BY <1>1

\* The last three batches, which the threads have.
LEMMA Tailed ==
    ASSUME NEW f \in Seq(Lines), NEW x \in Lines, NEW y \in Lines, NEW z \in Lines
    PROVE  /\ f \o <<x, y, z>> \in Seq(Lines)
           /\ Len(f) \in Nat /\ Len(f \o <<x, y, z>>) = Len(f) + 3
           /\ DOMAIN (f \o <<x, y, z>>) = 1 .. Len(f) + 3
           /\ \A i \in 1 .. Len(f) : (f \o <<x, y, z>>)[i] = f[i]
           /\ (f \o <<x, y, z>>)[Len(f) + 1] = x
           /\ (f \o <<x, y, z>>)[Len(f) + 2] = y
           /\ (f \o <<x, y, z>>)[Len(f) + 3] = z
  <1>. DEFINE n == Len(f)
              t == <<x, y, z>>
              b == f \o t
  <1>1. t \in Seq(Lines) /\ Len(t) = 3 /\ t[1] = x /\ t[2] = y /\ t[3] = z
    OBVIOUS
  <1>2. n \in Nat
    BY LenProperties
  <1>. HIDE DEF t
  <1>3. /\ b \in Seq(Lines) /\ Len(b) = n + 3
        /\ \A i \in 1 .. n + 3 : b[i] = IF i <= n THEN f[i] ELSE t[i - n]
    BY <1>1, Located
  <1>4. DOMAIN b = 1 .. n + 3
    BY <1>3, LenProperties
  <1>. HIDE DEF b, n
  <1>5. /\ \A i \in 1 .. n : b[i] = f[i]
        /\ b[n + 1] = t[1] /\ b[n + 2] = t[2] /\ b[n + 3] = t[3]
    <2>1. \A i \in 1 .. n : b[i] = f[i]
      BY <1>2, <1>3
    <2>2. ASSUME NEW k \in 1 .. 3
          PROVE  b[n + k] = t[k]
      <3>. DEFINE i == n + k
      <3>1. i \in 1 .. n + 3 /\ ~(i <= n) /\ i - n = k
        BY <1>2
      <3>. HIDE DEF i
      <3>2. b[i] = t[k]
        BY <1>3, <3>1
      <3>. QED
        BY <3>2 DEF i
    <2>3. 1 \in 1 .. 3 /\ 2 \in 1 .. 3 /\ 3 \in 1 .. 3
      OBVIOUS
    <2>. QED
      BY <2>1, <2>2, <2>3
  <1>. QED
    BY <1>1, <1>2, <1>3, <1>4, <1>5 DEF b, n, t


\* What the threads have is exchanged between them.
Permutes(t, u, pi) ==
    /\ t \in Seq(Lines) /\ u \in Seq(Lines) /\ Len(t) = 3 /\ Len(u) = 3
    /\ pi \in [1 .. 3 -> 1 .. 3]
    /\ \A i \in 1 .. 3 : u[i] = t[pi[i]]
    /\ \A i, k \in 1 .. 3 : pi[i] = pi[k] => i = k
    /\ \A k \in 1 .. 3 : \E i \in 1 .. 3 : pi[i] = k

InTurn(u, pi) ==
    \A i, k \in 1 .. 3 : u[i] # <<>> /\ u[k] # <<>> /\ i < k => pi[i] < pi[k]

LEMMA Exchanged ==
    ASSUME NEW f \in Seq(Lines), NEW t, NEW u, NEW pi, Permutes(t, u, pi)
    PROVE  /\ LinesOf(f \o u) = LinesOf(f \o t)
           /\ OnceEach(f \o t) => OnceEach(f \o u)
           /\ InTurn(u, pi) => (Increasing(f \o t) => Increasing(f \o u))
  <1>. /\ t \in Seq(Lines) /\ u \in Seq(Lines) /\ Len(t) = 3 /\ Len(u) = 3
       /\ pi \in [1 .. 3 -> 1 .. 3]
       /\ \A i \in 1 .. 3 : u[i] = t[pi[i]]
       /\ \A i, k \in 1 .. 3 : pi[i] = pi[k] => i = k
       /\ \A k \in 1 .. 3 : \E i \in 1 .. 3 : pi[i] = k
    BY DEF Permutes
  <1>. DEFINE n == Len(f)
              b == f \o t
              c == f \o u
              mu == [i \in 1 .. n + 3 |-> IF i <= n THEN i ELSE n + pi[i - n]]
  <1>1. n \in Nat
    BY LenProperties
  <1>2. /\ b \in Seq(Lines) /\ Len(b) = n + 3
        /\ \A i \in 1 .. n + 3 : b[i] = IF i <= n THEN f[i] ELSE t[i - n]
    BY Located
  <1>3. /\ c \in Seq(Lines) /\ Len(c) = n + 3
        /\ \A i \in 1 .. n + 3 : c[i] = IF i <= n THEN f[i] ELSE u[i - n]
    BY Located
  <1>4. DOMAIN b = 1 .. n + 3 /\ DOMAIN c = 1 .. n + 3
    BY <1>2, <1>3, LenProperties
  <1>. HIDE DEF b, c, n
  <1>5. ASSUME NEW i \in 1 .. n
        PROVE  i \in 1 .. n + 3 /\ c[i] = b[i] /\ mu[i] = i
    <2>1. i \in 1 .. n + 3 /\ i <= n
      BY <1>1
    <2>. QED
      BY <1>2, <1>3, <2>1
  <1>6. ASSUME NEW k \in 1 .. 3
        PROVE  n + k \in 1 .. n + 3 /\ b[n + k] = t[k] /\ c[n + k] = u[k] /\ mu[n + k] = n + pi[k]
    <2>. DEFINE i == n + k
    <2>1. i \in 1 .. n + 3 /\ ~(i <= n) /\ i - n = k
      BY <1>1
    <2>. HIDE DEF i
    <2>2. b[i] = t[k] /\ c[i] = u[k] /\ mu[i] = n + pi[k]
      BY <1>2, <1>3, <2>1
    <2>. QED
      BY <2>1, <2>2 DEF i
  <1>. HIDE DEF mu
  <1>7. ASSUME NEW i \in 1 .. n + 3, i \notin 1 .. n
        PROVE  \E k \in 1 .. 3 : i = n + k
    <2>1. i - n \in 1 .. 3 /\ i = n + (i - n)
      BY <1>1, <1>7
    <2>. QED
      BY <2>1
  <1>8. ASSUME NEW i \in 1 .. n + 3
        PROVE  mu[i] \in 1 .. n + 3 /\ c[i] = b[mu[i]]
    <2>1. CASE i \in 1 .. n
      BY <1>5, <2>1
    <2>2. ASSUME NEW k \in 1 .. 3, i = n + k
          PROVE  mu[i] \in 1 .. n + 3 /\ c[i] = b[mu[i]]
      <3>1. pi[k] \in 1 .. 3
        OBVIOUS
      <3>2. mu[i] = n + pi[k] /\ c[i] = u[k] /\ u[k] = t[pi[k]]
        BY <1>6, <2>2
      <3>3. n + pi[k] \in 1 .. n + 3 /\ b[n + pi[k]] = t[pi[k]]
        BY <1>6, <3>1
      <3>. QED
        BY <3>2, <3>3
    <2>. QED
      BY <1>7, <2>1, <2>2
  <1>9. ASSUME NEW k \in 1 .. n + 3
        PROVE  \E i \in 1 .. n + 3 : mu[i] = k /\ c[i] = b[k]
    <2>1. CASE k \in 1 .. n
      BY <1>5, <2>1
    <2>2. ASSUME NEW j \in 1 .. 3, k = n + j
          PROVE  \E i \in 1 .. n + 3 : mu[i] = k /\ c[i] = b[k]
      <3>1. PICK i \in 1 .. 3 : pi[i] = j
        OBVIOUS
      <3>2. n + i \in 1 .. n + 3 /\ mu[n + i] = k
        BY <1>6, <2>2, <3>1
      <3>. QED
        BY <1>8, <3>2
    <2>. QED
      BY <1>7, <2>1, <2>2
  <1>10. ASSUME NEW i \in 1 .. n + 3, NEW k \in 1 .. n + 3, mu[i] = mu[k]
         PROVE  i = k
    <2>1. ASSUME NEW h \in 1 .. n, NEW j \in 1 .. 3
          PROVE  mu[h] < mu[n + j]
      <3>1. mu[h] = h /\ mu[n + j] = n + pi[j] /\ pi[j] \in 1 .. 3
        BY <1>5, <1>6
      <3>. QED
        BY <1>1, <3>1
    <2>2. ASSUME NEW h \in 1 .. 3, NEW j \in 1 .. 3, mu[n + h] = mu[n + j]
          PROVE  h = j
      <3>1. mu[n + h] = n + pi[h] /\ mu[n + j] = n + pi[j] /\ pi[h] \in 1 .. 3 /\ pi[j] \in 1 .. 3
        BY <1>6
      <3>2. \A k1, k2 \in 1 .. 3 : n + k1 = n + k2 => k1 = k2
        BY <1>1
      <3>3. PICK x \in 1 .. 3, y \in 1 .. 3 : x = pi[h] /\ y = pi[j]
        BY <3>1
      <3>4. n + x = n + y
        BY <2>2, <3>1, <3>3
      <3>5. x = y
        BY <3>2, <3>4
      <3>. QED
        BY <3>3, <3>5
    <2>3. \A h \in 1 .. n : mu[h] = h
      BY <1>5
    <2>4. \A h \in 1 .. n + 3 : mu[h] \in Nat
      BY <1>1, <1>8
    <2>5. \A h, j \in Nat : h < j => h # j
      OBVIOUS
    <2>6. (i \in 1 .. n \/ \E h \in 1 .. 3 : i = n + h) /\ (k \in 1 .. n \/ \E h \in 1 .. 3 : k = n + h)
      BY <1>7
    <2>. QED
      BY <1>10, <2>1, <2>2, <2>3, <2>4, <2>5, <2>6
  <1>11. Moved(b, c, mu)
    BY <1>4, <1>8, <1>9, <1>10 DEF Moved
  <1>12. ASSUME InTurn(u, pi)
         PROVE  InPlace(c, mu)
    <2>. SUFFICES ASSUME NEW i \in 1 .. n + 3, NEW k \in 1 .. n + 3, c[i] # <<>>, c[k] # <<>>, i < k
                  PROVE  mu[i] < mu[k]
      BY <1>4 DEF InPlace
    <2>1. CASE i \in 1 .. n /\ k \in 1 .. n
      BY <1>5, <2>1
    <2>2. ASSUME i \in 1 .. n, NEW j \in 1 .. 3, k = n + j
          PROVE  mu[i] < mu[k]
      <3>1. mu[i] = i /\ mu[k] = n + pi[j] /\ pi[j] \in 1 .. 3
        BY <1>5, <1>6, <2>2
      <3>. QED
        BY <1>1, <2>2, <3>1
    <2>3. ASSUME NEW h \in 1 .. 3, i = n + h, NEW j \in 1 .. 3, k = n + j
          PROVE  mu[i] < mu[k]
      <3>1. /\ mu[i] = n + pi[h] /\ mu[k] = n + pi[j] /\ pi[h] \in 1 .. 3 /\ pi[j] \in 1 .. 3
            /\ u[h] # <<>> /\ u[j] # <<>>
        BY <1>6, <2>3
      <3>2. h < j
        BY <1>1, <2>3
      <3>3. pi[h] < pi[j]
        BY <1>12, <3>1, <3>2 DEF InTurn
      <3>. QED
        BY <1>1, <3>1, <3>3
    <2>4. i \notin 1 .. n => k \notin 1 .. n
      BY <1>1
    <2>. QED
      BY <1>7, <2>1, <2>2, <2>3, <2>4
  <1>13. /\ LinesOf(c) = LinesOf(b)
         /\ OnceEach(b) => OnceEach(c)
         /\ InPlace(c, mu) /\ Increasing(b) => Increasing(c)
    BY <1>2, <1>3, <1>11, MovedLines
  <1>. QED
    BY <1>12, <1>13 DEF b, c

\* What a thread has is lost.
LEMMA Emptied ==
    ASSUME NEW f \in Seq(Lines), NEW x \in Lines, NEW y \in Lines, NEW z \in Lines,
           OnceEach(f \o <<x, y, z>>)
    PROVE  /\ LinesOf(f \o << <<>>, y, z>>) = LinesOf(f \o <<x, y, z>>) \ ToSet(x)
           /\ ToSet(x) \subseteq LinesOf(f \o <<x, y, z>>)
           /\ OnceEach(f \o << <<>>, y, z>>)
           /\ Increasing(f \o <<x, y, z>>) => Increasing(f \o << <<>>, y, z>>)
  <1>. DEFINE n == Len(f)
              b == f \o <<x, y, z>>
              c == f \o << <<>>, y, z>>
  <1>1. /\ n \in Nat /\ DOMAIN b = 1 .. n + 3
        /\ \A i \in 1 .. n : b[i] = f[i]
        /\ b[n + 1] = x /\ b[n + 2] = y /\ b[n + 3] = z
    BY Tailed
  <1>2. <<>> \in Lines
    BY EmptySeq DEF Lines
  <1>3. /\ c \in Seq(Lines) /\ DOMAIN c = 1 .. n + 3
        /\ \A i \in 1 .. n : c[i] = f[i]
        /\ c[n + 1] = <<>> /\ c[n + 2] = y /\ c[n + 3] = z
    BY <1>2, Tailed
  <1>. HIDE DEF b, c, n
  <1>4. \A i \in 1 .. n + 3 : i # n + 1 => c[i] = b[i]
    <2>1. \A i \in 1 .. n + 3 : i \in 1 .. n \/ i = n + 1 \/ i = n + 2 \/ i = n + 3
      BY <1>1
    <2>. QED
      BY <1>1, <1>3, <2>1
  <1>5. ASSUME NEW i \in DOMAIN c, NEW j \in DOMAIN c[i]
        PROVE  i \in DOMAIN b /\ j \in DOMAIN b[i] /\ c[i][j] = b[i][j] /\ i # n + 1
    <2>1. c[i] # <<>>
      BY <1>3, SomeLine
    <2>. QED
      BY <1>1, <1>3, <1>4, <2>1
  <1>6. OnceEach(b)
    BY DEF b
  <1>7. OnceEach(c)
    BY <1>5, <1>6 DEF OnceEach
  <1>8. Increasing(b) => Increasing(c)
    BY <1>5 DEF Increasing
  <1>9. n + 1 \in DOMAIN b
    BY <1>1
  <1>10. \A w : w \in ToSet(x) <=> \E j \in DOMAIN b[n + 1] : b[n + 1][j] = w
    BY <1>1 DEF ToSet
  <1>11. ToSet(x) \subseteq LinesOf(b)
    BY <1>9, <1>10, LineOf
  <1>12. ASSUME NEW w, w \in LinesOf(c)
         PROVE  w \in LinesOf(b) \ ToSet(x)
    <2>1. PICK i \in DOMAIN c : \E j \in DOMAIN c[i] : c[i][j] = w
      BY <1>12, LineOf
    <2>2. PICK j \in DOMAIN c[i] : c[i][j] = w
      BY <2>1
    <2>3. i \in DOMAIN b /\ j \in DOMAIN b[i] /\ b[i][j] = w /\ i # n + 1
      BY <1>5, <2>2
    <2>4. w \in LinesOf(b)
      BY <2>3, LineOf
    <2>5. ASSUME w \in ToSet(x)
          PROVE  FALSE
      <3>1. PICK k \in DOMAIN b[n + 1] : b[n + 1][k] = w
        BY <1>10, <2>5
      <3>. QED
        BY <1>6, <1>9, <2>3, <3>1 DEF OnceEach
    <2>. QED
      BY <2>4, <2>5
  <1>13. ASSUME NEW w, w \in LinesOf(b), w \notin ToSet(x)
         PROVE  w \in LinesOf(c)
    <2>1. PICK i \in DOMAIN b : \E j \in DOMAIN b[i] : b[i][j] = w
      BY <1>13, LineOf
    <2>2. i # n + 1
      BY <1>10, <1>13, <2>1
    <2>3. i \in DOMAIN c /\ c[i] = b[i]
      BY <1>1, <1>3, <1>4, <2>2
    <2>. QED
      BY <2>1, <2>3, LineOf
  <1>14. LinesOf(c) = LinesOf(b) \ ToSet(x)
    BY <1>12, <1>13
  <1>. QED
    BY <1>7, <1>8, <1>11, <1>14 DEF b, c

-----------------------------------------------------------------------------
\* What the threads and the AsyncLogger do to the batches of a stream, from
\* the first in a file to the last in the queue.

Written == Seq([lines : Lines, file : (1 .. MaxDay) \X Nat])

LinesIn(w) == [i \in DOMAIN w |-> w[i].lines]

HandedOn(w, v, q) == LinesIn(w) \o <<v>> \o q

LEMMA LinesInFiles ==
    ASSUME NEW w \in Written
    PROVE  LinesIn(w) \in Seq(Lines) /\ Len(LinesIn(w)) = Len(w)
  <1>1. Len(w) \in Nat /\ DOMAIN w = 1 .. Len(w)
    BY LenProperties DEF Written
  <1>2. ASSUME NEW i \in 1 .. Len(w)
        PROVE  w[i].lines \in Lines
    <2>1. w[i] \in [lines : Lines, file : (1 .. MaxDay) \X Nat]
      BY ElementOfSeq DEF Written
    <2>. QED
      BY <2>1
  <1>. QED
    BY <1>1, <1>2 DEF LinesIn

LEMMA OneBatch ==
    ASSUME NEW v \in Lines
    PROVE  <<v>> \in Seq(Lines) /\ Len(<<v>>) = 1 /\ <<v>>[1] = v
  OBVIOUS

LEMMA Regrouped ==
    ASSUME NEW f \in Seq(Lines), NEW g \in Seq(Lines), NEW h \in Seq(Lines)
    PROVE  (f \o g) \o h = f \o (g \o h) /\ g \o h \in Seq(Lines) /\ f \o g \in Seq(Lines)
  BY ConcatAssociative, ConcatProperties

LEMMA HandedOnType ==
    ASSUME NEW w \in Written, NEW v \in Lines, NEW q \in Seq(Lines)
    PROVE  /\ LinesIn(w) \o <<v>> \in Seq(Lines)
           /\ HandedOn(w, v, q) \in Seq(Lines)
           /\ HandedOn(w, v, q) = LinesIn(w) \o (<<v>> \o q)
  BY LinesInFiles, OneBatch, ConcatProperties, ConcatAssociative DEF HandedOn

LEMMA NoLines == <<>> \in Lines /\ <<>> \in Seq(Lines)
  BY EmptySeq DEF Lines

\* Pop.
LEMMA Popped ==
    ASSUME NEW w \in Written, NEW q \in Seq(Lines), q # <<>>, NEW t \in Seq(Lines)
    PROVE  Same(HandedOn(w, <<>>, q) \o t, HandedOn(w, Head(q), Tail(q)) \o t)
  <1>. DEFINE p == LinesIn(w)
  <1>1. p \in Seq(Lines)
    BY LinesInFiles
  <1>2. Head(q) \in Lines /\ Tail(q) \in Seq(Lines) /\ <<Head(q)>> \o Tail(q) = q
    <2>1. /\ Head(q) \in Lines /\ Tail(q) \in Seq(Lines)
          /\ Len(Tail(q)) = Len(q) - 1 /\ Len(q) \in Nat \ {0}
          /\ \A i \in 1 .. Len(Tail(q)) : Tail(q)[i] = q[i + 1]
      BY HeadTailProperties, EmptySeq
    <2>2. Len(q) \in 1 .. Len(q) /\ 1 \in 1 .. Len(q)
      BY <2>1
    <2>3. Head(q) = q[1]
      BY <2>2, HeadTailOfSubSeq, SubSeqFull
    <2>4. SubSeq(q, 1, Len(q)) = <<q[1]>> \o SubSeq(q, 1 + 1, Len(q))
      BY <2>2, SubSeqRecursiveFirst
    <2>5. SubSeq(q, 1, Len(q)) = q /\ Tail(q) = SubSeq(q, 2, Len(q))
      BY SubSeqFull, TailIsSubSeq
    <2>. QED
      BY <2>1, <2>3, <2>4, <2>5
  <1>3. HandedOn(w, Head(q), Tail(q)) = p \o q
    <2>1. HandedOn(w, Head(q), Tail(q)) = p \o (<<Head(q)>> \o Tail(q))
      BY <1>2, HandedOnType
    <2>. QED
      BY <1>2, <2>1
  <1>4. HandedOn(w, <<>>, q) = p \o << <<>> >> \o q
    BY DEF HandedOn
  <1>5. p \o q \o t = p \o (q \o t) /\ q \o t \in Seq(Lines)
    BY <1>1, Regrouped
  <1>6. p \o << <<>> >> \o q \o t = p \o << <<>> >> \o (q \o t)
    <2>. DEFINE h == p \o << <<>> >>
    <2>1. h \in Seq(Lines)
      BY <1>1, NoLines, OneBatch, Regrouped
    <2>. HIDE DEF h
    <2>2. h \o q \o t = h \o (q \o t)
      BY <2>1, Regrouped
    <2>. QED
      BY <2>2 DEF h
  <1>. HIDE DEF p
  <1>7. Same(p \o << <<>> >> \o (q \o t), p \o (q \o t))
    BY <1>1, <1>5, Hole
  <1>. QED
    BY <1>3, <1>4, <1>5, <1>6, <1>7

\* Write.
LEMMA Filed ==
    ASSUME NEW w \in Written, NEW v \in Lines, NEW q \in Seq(Lines), NEW t \in Seq(Lines),
           NEW f \in (1 .. MaxDay) \X Nat
    PROVE  Same(HandedOn(w, v, q) \o t, HandedOn(Append(w, [lines |-> v, file |-> f]), <<>>, q) \o t)
  <1>. DEFINE p == LinesIn(w)
              x == Append(w, [lines |-> v, file |-> f])
              g == p \o <<v>>
  <1>1. p \in Seq(Lines) /\ g \in Seq(Lines) /\ Len(p) = Len(w)
    BY LinesInFiles, HandedOnType
  <1>2. /\ x \in Written /\ Len(x) = Len(w) + 1 /\ Len(w) \in Nat
        /\ \A i \in 1 .. Len(w) : x[i] = w[i]
        /\ x[Len(w) + 1] = [lines |-> v, file |-> f]
    <2>1. [lines |-> v, file |-> f] \in [lines : Lines, file : (1 .. MaxDay) \X Nat]
      OBVIOUS
    <2>2. w \in Seq([lines : Lines, file : (1 .. MaxDay) \X Nat])
      BY DEF Written
    <2>. QED
      BY <2>1, <2>2, AppendProperties, LenProperties DEF Written
  <1>3. LinesIn(x) = g
    <2>1. LinesIn(x) \in Seq(Lines) /\ Len(LinesIn(x)) = Len(w) + 1
      BY <1>2, LinesInFiles
    <2>2. Len(g) = Len(w) + 1 /\ \A i \in 1 .. Len(w) : g[i] = p[i]
      BY <1>1, <1>2, OneBatch, ConcatProperties
    <2>3. g[Len(w) + 1] = v
      BY <1>1, <1>2, OneBatch, ConcatProperties
    <2>4. DOMAIN x = 1 .. Len(w) + 1 /\ DOMAIN w = 1 .. Len(w)
      BY <1>2, LenProperties DEF Written
    <2>5. ASSUME NEW i \in 1 .. Len(w)
          PROVE  LinesIn(x)[i] = g[i]
      <3>1. i \in DOMAIN x /\ i \in DOMAIN w
        BY <1>2, <2>4
      <3>. QED
        BY <1>2, <2>2, <3>1 DEF LinesIn
    <2>6. LinesIn(x)[Len(w) + 1] = v
      <3>1. Len(w) + 1 \in DOMAIN x
        BY <1>2, <2>4
      <3>. QED
        BY <1>2, <3>1 DEF LinesIn
    <2>7. \A i \in 1 .. Len(w) + 1 : i \in 1 .. Len(w) \/ i = Len(w) + 1
      BY <1>2
    <2>. HIDE DEF x, g
    <2>8. \A i \in 1 .. Len(LinesIn(x)) : LinesIn(x)[i] = g[i]
      BY <2>1, <2>3, <2>5, <2>6, <2>7
    <2>. QED
      BY <1>1, <2>1, <2>2, <2>8, SeqEqual
  <1>. HIDE DEF x, g
  <1>4. HandedOn(w, v, q) \o t = g \o (q \o t) /\ q \o t \in Seq(Lines)
    <2>1. HandedOn(w, v, q) = g \o q
      BY DEF HandedOn, g
    <2>2. g \in Seq(Lines)
      BY <1>1
    <2>3. g \o q \o t = g \o (q \o t) /\ q \o t \in Seq(Lines)
      BY <2>2, Regrouped
    <2>. QED
      BY <2>1, <2>3
  <1>5. HandedOn(x, <<>>, q) \o t = g \o << <<>> >> \o (q \o t)
    <2>. DEFINE h == g \o << <<>> >>
    <2>1. HandedOn(x, <<>>, q) = h \o q
      BY <1>3 DEF HandedOn
    <2>2. h \in Seq(Lines)
      BY <1>1, NoLines, OneBatch, Regrouped
    <2>. HIDE DEF h
    <2>3. h \o q \o t = h \o (q \o t)
      BY <2>2, Regrouped
    <2>. QED
      BY <2>1, <2>3 DEF h
  <1>6. Same(g \o (q \o t), g \o << <<>> >> \o (q \o t))
    BY <1>1, <1>4, Hole
  <1>. QED
    BY <1>4, <1>5, <1>6 DEF x

\* Enqueue, by the main thread.
LEMMA Queued ==
    ASSUME NEW w \in Written, NEW v \in Lines, NEW q \in Seq(Lines),
           NEW x \in Lines, NEW y \in Lines, NEW z \in Lines
    PROVE  Same(HandedOn(w, v, q) \o <<x, y, z>>, HandedOn(w, v, Append(q, x)) \o << <<>>, y, z>>)
  <1>. DEFINE f == HandedOn(w, v, q)
              g == f \o <<x>>
              t == <<y, z>>
  <1>1. f \in Seq(Lines) /\ <<x>> \in Seq(Lines) /\ << <<>> >> \in Seq(Lines)
    BY HandedOnType, OneBatch, NoLines
  <1>2. t \in Seq(Lines)
    OBVIOUS
  <1>3. <<x, y, z>> = <<x>> \o t /\ << <<>>, y, z>> = << <<>> >> \o t
    OBVIOUS
  <1>4. HandedOn(w, v, Append(q, x)) = g
    <2>1. Append(q, x) = q \o <<x>> /\ LinesIn(w) \o <<v>> \in Seq(Lines)
      BY AppendIsConcat, HandedOnType
    <2>2. HandedOn(w, v, Append(q, x)) = LinesIn(w) \o <<v>> \o (q \o <<x>>)
      BY <2>1 DEF HandedOn
    <2>3. g = LinesIn(w) \o <<v>> \o q \o <<x>>
      BY DEF HandedOn
    <2>. QED
      BY <1>1, <2>1, <2>2, <2>3, Regrouped
  <1>. HIDE DEF f, t
  <1>5. f \o (<<x>> \o t) = g \o t /\ g \in Seq(Lines)
    BY <1>1, <1>2, Regrouped
  <1>. HIDE DEF g
  <1>6. g \o (<< <<>> >> \o t) = g \o << <<>> >> \o t
    BY <1>1, <1>2, <1>5, Regrouped
  <1>7. Same(g \o t, g \o << <<>> >> \o t)
    BY <1>2, <1>5, Hole
  <1>. QED
    BY <1>3, <1>4, <1>5, <1>6, <1>7 DEF f

-----------------------------------------------------------------------------
\* What is true of the batches b of a stream, of which k lines have been pushed
\* and the lines in C caught by a signal.  That they grow is only true when a
\* signal can come to no thread but the main one: on another one the handler
\* runs syncLoop while the timer may run it too, and one of their batches
\* overtakes the other.
Kept(b, k, C) ==
    /\ LinesOf(b) = (1 .. k) \ C
    /\ C \subseteq 1 .. k
    /\ OnceEach(b)
    /\ Hosts \subseteq {Main} => Increasing(b)

LEMMA SameKept ==
    ASSUME NEW b, NEW c, NEW k, NEW C, Same(b, c), Kept(b, k, C)
    PROVE  Kept(c, k, C)
  BY DEF Same, Kept

LEMMA PushKept ==
    ASSUME NEW f \in Seq(Lines), NEW x \in Lines, NEW y \in Lines, NEW z \in Lines,
           NEW k \in Nat, NEW C, Kept(f \o <<x, y, z>>, k, C)
    PROVE  Kept(f \o <<x, y, Append(z, k + 1)>>, k + 1, C)
  <1>. DEFINE n == Len(f)
              b == f \o <<x, y, z>>
              d == Append(z, k + 1)
              c == f \o <<x, y, d>>
  <1>1. /\ b \in Seq(Lines) /\ n \in Nat /\ Len(b) = n + 3
        /\ \A i \in 1 .. n : b[i] = f[i]
        /\ b[n + 1] = x /\ b[n + 2] = y /\ b[n + 3] = z
    BY Tailed
  <1>2. d \in Lines
    BY AppendProperties DEF Lines
  <1>3. /\ c \in Seq(Lines) /\ Len(c) = n + 3
        /\ \A i \in 1 .. n : c[i] = f[i]
        /\ c[n + 1] = x /\ c[n + 2] = y /\ c[n + 3] = d
    BY <1>2, Tailed
  <1>4. Kept(b, k, C)
    OBVIOUS
  <1>. HIDE DEF b, c, n
  <1>5. Len(b) > 0 /\ Len(c) = Len(b) /\ Len(b) - 1 = n + 2
    BY <1>1, <1>3
  <1>6. \A i \in 1 .. n + 2 : c[i] = b[i]
    <2>1. \A i \in 1 .. n + 2 : i \in 1 .. n \/ i = n + 1 \/ i = n + 2
      BY <1>1
    <2>. QED
      BY <1>1, <1>3, <2>1
  <1>7. c[Len(b)] = Append(b[Len(b)], k + 1)
    BY <1>1, <1>3
  <1>8. k + 1 \in Nat /\ 1 .. k + 1 = (1 .. k) \cup {k + 1} /\ \A m \in 1 .. k : m \in Nat /\ m < k + 1
    OBVIOUS
  <1>9. \A m \in LinesOf(b) : m \in Nat /\ m < k + 1
    BY <1>4, <1>8 DEF Kept
  <1>10. /\ LinesOf(c) = LinesOf(b) \cup {k + 1}
         /\ OnceEach(b) => OnceEach(c)
         /\ Increasing(b) => Increasing(c)
    BY <1>1, <1>3, <1>5, <1>6, <1>7, <1>8, <1>9, PushedLine
  <1>11. k + 1 \notin 1 .. k
    OBVIOUS
  <1>12. Kept(c, k + 1, C)
    BY <1>4, <1>8, <1>10, <1>11 DEF Kept
  <1>. QED
    BY <1>12 DEF c

LEMMA ExchangeKept ==
    ASSUME NEW f \in Seq(Lines), NEW t, NEW u, NEW pi, NEW k, NEW C,
           Permutes(t, u, pi), Kept(f \o t, k, C), Hosts \subseteq {Main} => InTurn(u, pi)
    PROVE  Kept(f \o u, k, C)
  BY Exchanged DEF Kept

Turn(a, b, c) == [i \in 1 .. 3 |-> IF i = 1 THEN a ELSE IF i = 2 THEN b ELSE c]

IsTurn(t, u, a, b, c) ==
    /\ a \in 1 .. 3 /\ b \in 1 .. 3 /\ c \in 1 .. 3 /\ a # b /\ a # c /\ b # c
    /\ t \in Seq(Lines) /\ u \in Seq(Lines) /\ Len(t) = 3 /\ Len(u) = 3
    /\ u[1] = t[a] /\ u[2] = t[b] /\ u[3] = t[c]

LEMMA Turned ==
    ASSUME NEW a, NEW b, NEW c, NEW t, NEW u, IsTurn(t, u, a, b, c)
    PROVE  /\ Permutes(t, u, Turn(a, b, c))
           /\ /\ u[1] = <<>> \/ u[2] = <<>> \/ a < b
              /\ u[1] = <<>> \/ u[3] = <<>> \/ a < c
              /\ u[2] = <<>> \/ u[3] = <<>> \/ b < c
              => InTurn(u, Turn(a, b, c))
  <1>. DEFINE pi == Turn(a, b, c)
  <1>. /\ a \in 1 .. 3 /\ b \in 1 .. 3 /\ c \in 1 .. 3 /\ a # b /\ a # c /\ b # c
       /\ t \in Seq(Lines) /\ u \in Seq(Lines) /\ Len(t) = 3 /\ Len(u) = 3
       /\ u[1] = t[a] /\ u[2] = t[b] /\ u[3] = t[c]
    BY DEF IsTurn
  <1>1. pi \in [1 .. 3 -> 1 .. 3] /\ pi[1] = a /\ pi[2] = b /\ pi[3] = c
    BY DEF Turn
  <1>2. \A i \in 1 .. 3 : i = 1 \/ i = 2 \/ i = 3
    OBVIOUS
  <1>. HIDE DEF pi
  <1>3. \A i \in 1 .. 3 : u[i] = t[pi[i]]
    BY <1>1, <1>2
  <1>4. \A i, k \in 1 .. 3 : pi[i] = pi[k] => i = k
    BY <1>1, <1>2
  <1>5. \A k \in 1 .. 3 : \E i \in 1 .. 3 : pi[i] = k
    <2>1. \A k \in 1 .. 3 : k = a \/ k = b \/ k = c
      BY <1>2
    <2>. QED
      BY <1>1, <2>1
  <1>6. Permutes(t, u, pi)
    BY <1>1, <1>3, <1>4, <1>5 DEF Permutes
  <1>7. \A i, j \in 1 .. 3 : i < j => (i = 1 /\ j = 2) \/ (i = 1 /\ j = 3) \/ (i = 2 /\ j = 3)
    OBVIOUS
  <1>8. /\ u[1] = <<>> \/ u[2] = <<>> \/ a < b
        /\ u[1] = <<>> \/ u[3] = <<>> \/ a < c
        /\ u[2] = <<>> \/ u[3] = <<>> \/ b < c
        => InTurn(u, pi)
    BY <1>1, <1>7 DEF InTurn
  <1>. QED
    BY <1>6, <1>8 DEF pi

\* The exchanges there are: of the first two, the first and the last, the last two.
LEMMA Exchanges ==
    ASSUME NEW x \in Lines, NEW y \in Lines, NEW z \in Lines
    PROVE  /\ \E pi : /\ Permutes(<<x, y, z>>, <<y, x, z>>, pi)
                      /\ x = <<>> \/ y = <<>> => InTurn(<<y, x, z>>, pi)
           /\ \E pi : /\ Permutes(<<x, y, z>>, <<z, y, x>>, pi)
                      /\ x = <<>> /\ y = <<>> => InTurn(<<z, y, x>>, pi)
           /\ \E pi : /\ Permutes(<<x, y, z>>, <<x, z, y>>, pi)
                      /\ y = <<>> => InTurn(<<x, z, y>>, pi)
  <1>1. ASSUME NEW p \in Lines, NEW q \in Lines, NEW r \in Lines
        PROVE  /\ <<p, q, r>> \in Seq(Lines) /\ Len(<<p, q, r>>) = 3
               /\ <<p, q, r>>[1] = p /\ <<p, q, r>>[2] = q /\ <<p, q, r>>[3] = r
    OBVIOUS
  <1>. DEFINE t == <<x, y, z>>
  <1>2. \E pi : /\ Permutes(t, <<y, x, z>>, pi)
                /\ (x = <<>> \/ y = <<>>) => InTurn(<<y, x, z>>, pi)
    <2>. DEFINE u == <<y, x, z>>
    <2>1. t \in Seq(Lines) /\ u \in Seq(Lines) /\ Len(t) = 3 /\ Len(u) = 3
      BY <1>1
    <2>2. u[1] = t[2] /\ u[2] = t[1] /\ u[3] = t[3] /\ u[1] = y /\ u[2] = x
      BY <1>1
    <2>. HIDE DEF t, u
    <2>3. IsTurn(t, u, 2, 1, 3)
      BY <2>1, <2>2 DEF IsTurn
    <2>4. /\ Permutes(t, u, Turn(2, 1, 3))
          /\ /\ u[1] = <<>> \/ u[2] = <<>> \/ 2 < 1
             /\ u[1] = <<>> \/ u[3] = <<>> \/ 2 < 3
             /\ u[2] = <<>> \/ u[3] = <<>> \/ 1 < 3
             => InTurn(u, Turn(2, 1, 3))
      BY <2>3, Turned
    <2>5. (x = <<>> \/ y = <<>>) => InTurn(u, Turn(2, 1, 3))
      BY <2>2, <2>4
    <2>. QED
      BY <2>4, <2>5 DEF u
  <1>3. \E pi : /\ Permutes(t, <<z, y, x>>, pi)
                /\ (x = <<>> /\ y = <<>>) => InTurn(<<z, y, x>>, pi)
    <2>. DEFINE u == <<z, y, x>>
    <2>1. t \in Seq(Lines) /\ u \in Seq(Lines) /\ Len(t) = 3 /\ Len(u) = 3
      BY <1>1
    <2>2. u[1] = t[3] /\ u[2] = t[2] /\ u[3] = t[1] /\ u[2] = y /\ u[3] = x
      BY <1>1
    <2>. HIDE DEF t, u
    <2>3. IsTurn(t, u, 3, 2, 1)
      BY <2>1, <2>2 DEF IsTurn
    <2>4. /\ Permutes(t, u, Turn(3, 2, 1))
          /\ /\ u[1] = <<>> \/ u[2] = <<>> \/ 3 < 2
             /\ u[1] = <<>> \/ u[3] = <<>> \/ 3 < 1
             /\ u[2] = <<>> \/ u[3] = <<>> \/ 2 < 1
             => InTurn(u, Turn(3, 2, 1))
      BY <2>3, Turned
    <2>5. (x = <<>> /\ y = <<>>) => InTurn(u, Turn(3, 2, 1))
      BY <2>2, <2>4
    <2>. QED
      BY <2>4, <2>5 DEF u
  <1>4. \E pi : /\ Permutes(t, <<x, z, y>>, pi)
                /\ y = <<>> => InTurn(<<x, z, y>>, pi)
    <2>. DEFINE u == <<x, z, y>>
    <2>1. t \in Seq(Lines) /\ u \in Seq(Lines) /\ Len(t) = 3 /\ Len(u) = 3
      BY <1>1
    <2>2. u[1] = t[1] /\ u[2] = t[3] /\ u[3] = t[2] /\ u[3] = y
      BY <1>1
    <2>. HIDE DEF t, u
    <2>3. IsTurn(t, u, 1, 3, 2)
      BY <2>1, <2>2 DEF IsTurn
    <2>4. /\ Permutes(t, u, Turn(1, 3, 2))
          /\ /\ u[1] = <<>> \/ u[2] = <<>> \/ 1 < 3
             /\ u[1] = <<>> \/ u[3] = <<>> \/ 1 < 2
             /\ u[2] = <<>> \/ u[3] = <<>> \/ 3 < 2
             => InTurn(u, Turn(1, 3, 2))
      BY <2>3, Turned
    <2>5. y = <<>> => InTurn(u, Turn(1, 3, 2))
      BY <2>2, <2>4
    <2>. QED
      BY <2>4, <2>5 DEF u
  <1>. QED
    BY <1>2, <1>3, <1>4

\* The handler's batch is put into the queue.
LEMMA HandlerQueued ==
    ASSUME NEW w \in Written, NEW v \in Lines, NEW q \in Seq(Lines),
           NEW x \in Lines, NEW y \in Lines, NEW z \in Lines, NEW k, NEW C,
           Kept(HandedOn(w, v, q) \o <<x, y, z>>, k, C), Hosts \subseteq {Main} => x = <<>>
    PROVE  Kept(HandedOn(w, v, Append(q, y)) \o <<x, <<>>, z>>, k, C)
  <1>. DEFINE f == HandedOn(w, v, q)
              g == HandedOn(w, v, Append(q, y))
  <1>1. f \in Seq(Lines) /\ g \in Seq(Lines) /\ <<>> \in Lines
    BY HandedOnType, AppendProperties, NoLines
  <1>2. Same(f \o <<y, x, z>>, g \o << <<>>, x, z>>)
    BY Queued
  <1>3. Kept(f \o <<x, y, z>>, k, C)
    OBVIOUS
  <1>. HIDE DEF f, g
  <1>4. Kept(f \o <<y, x, z>>, k, C)
    <2>1. PICK pi : /\ Permutes(<<x, y, z>>, <<y, x, z>>, pi)
                    /\ x = <<>> \/ y = <<>> => InTurn(<<y, x, z>>, pi)
      BY Exchanges
    <2>. QED
      BY <1>1, <1>3, <2>1, ExchangeKept
  <1>5. Kept(g \o << <<>>, x, z>>, k, C)
    BY <1>2, <1>4, SameKept
  <1>6. Kept(g \o <<x, <<>>, z>>, k, C)
    <2>1. PICK pi : /\ Permutes(<< <<>>, x, z>>, <<x, <<>>, z>>, pi)
                    /\ InTurn(<<x, <<>>, z>>, pi)
      BY <1>1, Exchanges
    <2>. QED
      BY <1>1, <1>5, <2>1, ExchangeKept
  <1>. QED
    BY <1>6 DEF g

\* swap.
LEMMA MainSwapped ==
    ASSUME NEW f \in Seq(Lines), NEW y \in Lines, NEW z \in Lines, NEW k, NEW C,
           Kept(f \o << <<>>, y, z>>, k, C), Hosts \subseteq {Main} => y = <<>>
    PROVE  Kept(f \o <<z, y, <<>> >>, k, C)
  <1>1. PICK pi : /\ Permutes(<< <<>>, y, z>>, <<z, y, <<>> >>, pi)
                  /\ y = <<>> => InTurn(<<z, y, <<>> >>, pi)
    BY NoLines, Exchanges
  <1>. QED
    BY <1>1, ExchangeKept

LEMMA HandlerSwapped ==
    ASSUME NEW f \in Seq(Lines), NEW x \in Lines, NEW z \in Lines, NEW k, NEW C,
           Kept(f \o <<x, <<>>, z>>, k, C)
    PROVE  Kept(f \o <<x, z, <<>> >>, k, C)
  <1>1. PICK pi : /\ Permutes(<<x, <<>>, z>>, <<x, z, <<>> >>, pi)
                  /\ InTurn(<<x, z, <<>> >>, pi)
    BY NoLines, Exchanges
  <1>. QED
    BY <1>1, ExchangeKept

\* A signal comes to the main thread.
LEMMA CatchKept ==
    ASSUME NEW f \in Seq(Lines), NEW x \in Lines, NEW y \in Lines, NEW z \in Lines, NEW k,
           Kept(f \o <<x, y, z>>, k, {})
    PROVE  Kept(f \o << <<>>, y, z>>, k, ToSet(x))
  <1>. DEFINE b == f \o <<x, y, z>>
              c == f \o << <<>>, y, z>>
  <1>1. OnceEach(b) /\ LinesOf(b) = 1 .. k /\ (Hosts \subseteq {Main} => Increasing(b))
    BY DEF Kept
  <1>2. /\ LinesOf(c) = LinesOf(b) \ ToSet(x) /\ ToSet(x) \subseteq LinesOf(b)
        /\ OnceEach(c) /\ (Increasing(b) => Increasing(c))
    BY <1>1, Emptied
  <1>. HIDE DEF b, c
  <1>3. Kept(c, k, ToSet(x))
    BY <1>1, <1>2 DEF Kept
  <1>. QED
    BY <1>3 DEF c

-----------------------------------------------------------------------------
\* Types, where a thread has lines, and the files.

\* Only a thread on its way from the buffer to the queue has lines, only an
\* AsyncLogger about to write has a batch, and the handler is where host says.
Control ==
    /\ \A t \in Threads : pc[t] \notin {"hand", "enqueue"} => tmp[t] = <<>>
    /\ \A s \in Streams : loop[s] # "write" => batch[s] = <<>>
    /\ host \in Hosts \cup {Handler}
    /\ pc[Handler] = "off" <=> host = Handler

\* The open file is that of the day of the last batch, no batch is in a later
\* one, and the number to go on with is not behind it.
FileOK(s) ==
    /\ date[s] <= day
    /\ file[s] = NoFile => written[s] = <<>>
    /\ file[s] # NoFile => /\ file[s] \in (1 .. MaxDay) \X Nat
                           /\ file[s][1] = date[s] /\ file[s][2] <= no[s]
    /\ \A i \in DOMAIN written[s] : NotAfter(written[s][i].file, file[s])

FilesOK == FilesInOrder /\ \A s \in Streams : FileOK(s)

LEMMA Replaced ==
    ASSUME NEW S, NEW T, NEW f \in [S -> T], NEW i \in S, NEW v \in T
    PROVE  /\ [f EXCEPT ![i] = v] \in [S -> T]
           /\ [f EXCEPT ![i] = v][i] = v
           /\ \A j \in S : j # i => [f EXCEPT ![i] = v][j] = f[j]
  OBVIOUS

LEMMA InitTypes == Init => TypeOK /\ Control /\ FilesOK
  <1>. SUFFICES ASSUME Init
                PROVE  TypeOK /\ Control /\ FilesOK
    OBVIOUS
  <1>1. TypeOK
    <2>1. <<>> \in Lines /\ <<>> \in Seq(Lines)
      BY NoLines
    <2>2. <<>> \in Written
      BY EmptySeq DEF Written
    <2>3. "rpc" \in Streams /\ Handler \in Threads /\ NoFile \in Nat \X Nat
      BY DEF Streams, Threads, NoFile
    <2>4. 1 \in 1 .. MaxDay
      BY BoundAssumption
    <2>. HIDE DEF NoFile
    <2>. QED
      BY <2>1, <2>2, <2>3, <2>4 DEF Init, TypeOK, Written
  <1>2. Control
    <2>1. Handler \in Threads
      BY DEF Threads
    <2>. QED
      BY <2>1 DEF Init, Control
  <1>3. FilesOK
    <2>1. \A s \in Streams : written[s] = <<>> /\ file[s] = NoFile /\ date[s] = 0 /\ day = 1
      BY DEF Init
    <2>2. DOMAIN <<>> = {}
      OBVIOUS
    <2>. QED
      BY <2>1, <2>2 DEF FilesOK, FileOK, FilesInOrder
  <1>. QED
    BY <1>1, <1>2, <1>3

Points == {"off", "idle", "lock", "push", "destruct", "take", "swap", "hand",
           "enqueue", "signal", "handed", "leave", "left", "stop", "stopapp",
           "join", "joinapp", "raised"}

Mutexes == {"log", "queue"} \X Streams

KeptIn(s) == Kept(Batches(s), pushed[s], Caught(s))

LInv == TypeOK /\ Control /\ FilesOK /\ \A s \in Streams : KeptIn(s)

\* The batches of a stream, as the lemmas above speak of them.
LEMMA BatchesOf ==
    ASSUME NEW s \in Streams
    PROVE  /\ Batches(s) = HandedOn(written[s], batch[s], queue[s])
                             \o <<OutOf(Main, s), OutOf(Handler, s), buffer[s]>>
           /\ Batches(s)' = HandedOn(written'[s], batch'[s], queue'[s])
                             \o <<OutOf(Main, s)', OutOf(Handler, s)', buffer'[s]>>
  BY DEF Batches, InFiles, HandedOn, LinesIn

LEMMA TypesOf ==
    ASSUME TypeOK, NEW s \in Streams
    PROVE  /\ written[s] \in Written /\ batch[s] \in Lines /\ queue[s] \in Seq(Lines)
           /\ OutOf(Main, s) \in Lines /\ OutOf(Handler, s) \in Lines /\ buffer[s] \in Lines
           /\ pushed[s] \in Nat
  <1>1. Main \in Threads /\ Handler \in Threads /\ <<>> \in Lines
    BY NoLines DEF Threads
  <1>2. /\ written \in [Streams -> Written] /\ batch \in [Streams -> Lines]
        /\ queue \in [Streams -> Seq(Lines)] /\ buffer \in [Streams -> Lines]
        /\ pushed \in [Streams -> Nat] /\ tmp \in [Threads -> Lines]
    BY DEF TypeOK, Written
  <1>. QED
    BY <1>1, <1>2 DEF OutOf

\* A stream of which nothing has changed.
LEMMA Elsewhere ==
    ASSUME NEW s \in Streams, KeptIn(s),
           written'[s] = written[s], batch'[s] = batch[s], queue'[s] = queue[s],
           buffer'[s] = buffer[s], pushed'[s] = pushed[s],
           OutOf(Main, s)' = OutOf(Main, s), OutOf(Handler, s)' = OutOf(Handler, s),
           Caught(s)' = Caught(s)
    PROVE  KeptIn(s)'
  <1>1. Batches(s)' = Batches(s)
    BY BatchesOf
  <1>. QED
    BY <1>1 DEF KeptIn

\* What happens to pc, stream and the mutexes.
Threading == /\ pc \in [Threads -> Points] /\ stream \in [Threads -> Streams]
             /\ locked \subseteq Mutexes

LEMMA MoveTypes ==
    ASSUME TypeOK, NEW t \in Threads, NEW to \in Points, pc' = [pc EXCEPT ![t] = to],
           \/ UNCHANGED stream
           \/ \E s \in Streams : stream' = [stream EXCEPT ![t] = s],
           \/ UNCHANGED locked
           \/ \E m \in Mutexes : locked' = locked \cup {m}
           \/ \E m \in Mutexes : locked' = locked \ {m}
    PROVE  Threading'
  <1>1. pc \in [Threads -> Points] /\ stream \in [Threads -> Streams] /\ locked \subseteq Mutexes
    BY DEF TypeOK, Points, Mutexes
  <1>2. pc' \in [Threads -> Points]
    BY <1>1, Replaced
  <1>3. stream' \in [Threads -> Streams]
    BY <1>1, Replaced
  <1>4. locked' \subseteq Mutexes
    BY <1>1
  <1>. QED
    BY <1>2, <1>3, <1>4 DEF Threading

LEMMA MoveControl ==
    ASSUME TypeOK, Control, NEW t \in Threads, NEW to, pc' = [pc EXCEPT ![t] = to],
           pc[t] # "off", to # "off",
           to \in {"hand", "enqueue"} \/ tmp'[t] = <<>>,
           \A u \in Threads : u # t => tmp'[u] = tmp[u],
           \A s \in Streams : loop'[s] # "write" => loop[s] # "write",
           UNCHANGED <<batch, host>>
    PROVE  Control'
  <1>1. pc \in [Threads -> Points] /\ Handler \in Threads
    BY DEF TypeOK, Points, Threads
  <1>2. pc'[t] = to /\ \A u \in Threads : u # t => pc'[u] = pc[u]
    BY <1>1
  <1>3. \A u \in Threads : pc'[u] \notin {"hand", "enqueue"} => tmp'[u] = <<>>
    BY <1>2 DEF Control
  <1>4. pc'[Handler] = "off" <=> pc[Handler] = "off"
    BY <1>1, <1>2
  <1>. QED
    BY <1>3, <1>4 DEF Control

\* A thread moves on and the lines stay where they are.
LEMMA Quiet ==
    ASSUME LInv, NEW t \in Threads, NEW to \in Points, pc' = [pc EXCEPT ![t] = to],
           t # host, pc[t] # "off", to # "off",
           to \in {"hand", "enqueue"} \/ pc[t] \notin {"hand", "enqueue"},
           \/ UNCHANGED stream
           \/ /\ \E s \in Streams : stream' = [stream EXCEPT ![t] = s]
              /\ pc[t] \notin {"hand", "enqueue"},
           \/ UNCHANGED locked
           \/ \E m \in Mutexes : locked' = locked \cup {m}
           \/ \E m \in Mutexes : locked' = locked \ {m},
           \A s \in Streams : loop'[s] # "write" => loop[s] # "write",
           loop' \in [Streams -> {"lock", "test", "wait", "woken", "write", "exited"}],
           stop' \in [Streams -> BOOLEAN],
           UNCHANGED <<tmp, host, bufferVars, queue, batch, fileVars, day>>
    PROVE  LInv'
  <1>1. Threading'
    BY MoveTypes DEF LInv
  <1>2. TypeOK'
    BY <1>1 DEF LInv, TypeOK, Threading, Points, Mutexes, bufferVars, fileVars
  <1>3. Control'
    BY MoveControl DEF LInv, Control
  <1>4. FilesOK'
    BY DEF LInv, FilesOK, FileOK, FilesInOrder, fileVars
  <1>5. ASSUME NEW u \in Threads
        PROVE  stream'[u] = stream[u] \/ (u # host /\ tmp[u] = <<>>)
    BY DEF LInv, TypeOK, Control
  <1>6. ASSUME NEW u \in Threads, NEW s \in Streams
        PROVE  OutOf(u, s)' = OutOf(u, s)
    BY <1>5 DEF OutOf
  <1>7. ASSUME NEW s \in Streams
        PROVE  Caught(s)' = Caught(s)
    <2>1. host = Main => stream'[Main] = stream[Main]
      BY <1>5 DEF Threads
    <2>. QED
      BY <2>1 DEF Caught
  <1>8. ASSUME NEW s \in Streams
        PROVE  KeptIn(s)'
    <2>1. Main \in Threads /\ Handler \in Threads
      BY DEF Threads
    <2>2. OutOf(Main, s)' = OutOf(Main, s) /\ OutOf(Handler, s)' = OutOf(Handler, s)
      BY <1>6, <2>1
    <2>. QED
      BY <1>7, <2>2, Elsewhere DEF LInv, bufferVars, fileVars
  <1>. QED
    BY <1>2, <1>3, <1>4, <1>8 DEF LInv

LEMMA QuietSteps ==
    ASSUME LInv, NEW t \in Threads, NEW s \in Streams,
           \/ CallLog(t, s) \/ HandlerLogs \/ DestructLog(t) \/ Take(t, s) \/ Hand(t) \/ Signal(t)
           \/ DestructQueue(t) \/ DestructApp(t) \/ DestructRpc(t) \/ Ends
    PROVE  LInv'
  <1>1. /\ pc \in [Threads -> Points] /\ stream \in [Threads -> Streams] /\ Handler \in Threads
        /\ Main \in Threads
        /\ loop \in [Streams -> {"lock", "test", "wait", "woken", "write", "exited"}]
        /\ stop \in [Streams -> BOOLEAN]
    BY DEF LInv, TypeOK, Points, Threads
  <1>2. /\ \A r \in Streams : LogMutex(r) \in Mutexes /\ QueueMutex(r) \in Mutexes
        /\ "rpc" \in Streams /\ "app" \in Streams
    BY DEF Streams, LogMutex, QueueMutex, Mutexes
  <1>3. pc[Handler] = "off" => host = Handler
    BY DEF LInv, Control
  <1>. USE DEF At, Goto, OnlyThread, Acquire, Release
  <1>4. CASE CallLog(t, s)
    BY <1>1, <1>2, <1>4, Quiet DEF CallLog, Points
  <1>5. CASE HandlerLogs
    BY <1>1, <1>2, <1>5, Quiet DEF HandlerLogs, Points
  <1>6. CASE DestructLog(t)
    BY <1>1, <1>2, <1>6, Quiet DEF DestructLog, Points
  <1>7. CASE Take(t, s)
    BY <1>1, <1>2, <1>7, Quiet DEF Take, Points
  <1>8. CASE Hand(t)
    BY <1>1, <1>2, <1>8, Quiet DEF Hand, Points
  <1>9. CASE Signal(t)
    <2>1. /\ loop' \in [Streams -> {"lock", "test", "wait", "woken", "write", "exited"}]
          /\ \A r \in Streams : loop'[r] # "write" => loop[r] # "write"
      BY <1>1, <1>9 DEF Signal, Wake
    <2>. QED
      BY <1>1, <1>2, <1>9, <2>1, Quiet DEF Signal, Points
  <1>10. CASE DestructQueue(t)
    BY <1>1, <1>2, <1>10, Quiet DEF DestructQueue, Onward, Points
  <1>11. CASE DestructApp(t)
    BY <1>1, <1>2, <1>11, Quiet DEF DestructApp, Points
  <1>12. CASE DestructRpc(t)
    BY <1>1, <1>2, <1>12, Quiet DEF DestructRpc, Points
  <1>13. CASE Ends
    <2>1. ASSUME NEW r \in Streams, NEW from \in {"stop", "stopapp", "join", "joinapp"},
                 NEW to \in {"stopapp", "join", "joinapp", "raised"},
                 Stop(r, from, to) \/ Join(r, from, to)
          PROVE  LInv'
      <3>1. stop' \in [Streams -> BOOLEAN]
        BY <1>1, <2>1 DEF Stop, Join
      <3>2. /\ At(Handler, from) /\ Goto(Handler, to) /\ UNCHANGED <<locked, stream>>
            /\ UNCHANGED <<tmp, host, loop, bufferVars, queue, batch, fileVars, day>>
        BY <2>1 DEF Stop, Join
      <3>. QED
        BY <1>1, <3>1, <3>2, Quiet DEF Points
    <2>. QED
      BY <1>2, <1>13, <2>1 DEF Ends
  <1>. QED
    BY <1>4, <1>5, <1>6, <1>7, <1>8, <1>9, <1>10, <1>11, <1>12, <1>13

LEMMA PushStepInv ==
    ASSUME LInv, NEW t \in Threads, Push(t)
    PROVE  LInv'
  <1>0. PICK s \in Streams : s = stream[t]
    BY DEF LInv, TypeOK
  <1>1. /\ pc \in [Threads -> Points] /\ LogMutex(s) \in Mutexes
        /\ buffer \in [Streams -> Lines] /\ pushed \in [Streams -> Nat]
        /\ Main \in Threads /\ Handler \in Threads
    BY DEF LInv, TypeOK, Points, LogMutex, Mutexes, Threads
  <1>2. /\ pc[t] = "push" /\ pc' = [pc EXCEPT ![t] = "destruct"]
        /\ buffer' = [buffer EXCEPT ![s] = Append(buffer[s], pushed[s] + 1)]
        /\ pushed' = [pushed EXCEPT ![s] = pushed[s] + 1]
        /\ locked' = locked \ {LogMutex(s)}
        /\ UNCHANGED <<stream, tmp, host, loop, queue, batch, fileVars, stop, day>>
    BY <1>0 DEF Push, At, Goto, Release
  <1>3. Append(buffer[s], pushed[s] + 1) \in Lines /\ pushed[s] + 1 \in Nat
    BY <1>1, AppendProperties DEF Lines
  <1>4. TypeOK'
    <2>1. buffer' \in [Streams -> Lines] /\ pushed' \in [Streams -> Nat]
      BY <1>1, <1>2, <1>3, Replaced
    <2>2. Threading'
      BY <1>1, <1>2, MoveTypes DEF LInv, Points
    <2>. QED
      BY <1>2, <2>1, <2>2 DEF LInv, TypeOK, Threading, Points, Mutexes, fileVars
  <1>5. Control'
    BY <1>2, MoveControl DEF LInv, Control
  <1>6. FilesOK'
    BY <1>2 DEF LInv, FilesOK, FileOK, FilesInOrder, fileVars
  <1>7. ASSUME NEW r \in Streams
        PROVE  /\ OutOf(Main, r)' = OutOf(Main, r) /\ OutOf(Handler, r)' = OutOf(Handler, r)
               /\ Caught(r)' = Caught(r) /\ written'[r] = written[r]
               /\ batch'[r] = batch[r] /\ queue'[r] = queue[r]
    BY <1>2 DEF OutOf, Caught, fileVars
  <1>8. KeptIn(s)'
    <2>. DEFINE f == HandedOn(written[s], batch[s], queue[s])
                x == OutOf(Main, s)
                y == OutOf(Handler, s)
                k == pushed[s]
                C == Caught(s)
    <2>1. f \in Seq(Lines) /\ x \in Lines /\ y \in Lines /\ buffer[s] \in Lines /\ k \in Nat
      BY <1>1, TypesOf, HandedOnType DEF LInv
    <2>2. Kept(f \o <<x, y, buffer[s]>>, k, C)
      BY <1>1, BatchesOf DEF LInv, KeptIn
    <2>3. buffer'[s] = Append(buffer[s], k + 1) /\ pushed'[s] = k + 1
      BY <1>1, <1>2
    <2>4. Batches(s)' = f \o <<x, y, Append(buffer[s], k + 1)>>
      BY <1>1, <1>7, <2>3, BatchesOf
    <2>5. Caught(s)' = C
      BY <1>1, <1>7
    <2>. HIDE DEF f, x, y, k, C
    <2>6. Kept(f \o <<x, y, Append(buffer[s], k + 1)>>, k + 1, C)
      BY <2>1, <2>2, PushKept
    <2>. QED
      BY <2>3, <2>4, <2>5, <2>6 DEF KeptIn
  <1>9. ASSUME NEW r \in Streams, r # s
        PROVE  KeptIn(r)'
    <2>1. buffer'[r] = buffer[r] /\ pushed'[r] = pushed[r]
      BY <1>1, <1>2, <1>9
    <2>. QED
      BY <1>7, <2>1, Elsewhere DEF LInv
  <1>. QED
    BY <1>4, <1>5, <1>6, <1>8, <1>9 DEF LInv

\* When signals come to the main thread only, no two threads run syncLoop at once.
LEMMA OneAtATime ==
    ASSUME Control, Hosts \subseteq {Main}, NEW s \in Streams
    PROVE  /\ Main # host => OutOf(Handler, s) = <<>>
           /\ Handler # host => OutOf(Main, s) = <<>>
  BY DEF Control, OutOf

LEMMA SwapStepInv ==
    ASSUME LInv, NEW t \in {Main, Handler}, Swap(t)
    PROVE  LInv'
  <1>0. PICK s \in Streams : s = stream[t]
    BY DEF LInv, TypeOK, Threads
  <1>1. /\ pc \in [Threads -> Points] /\ LogMutex("rpc") \in Mutexes /\ "app" \in Streams
        /\ buffer \in [Streams -> Lines] /\ tmp \in [Threads -> Lines]
        /\ t \in Threads /\ Main \in Threads /\ Handler \in Threads
        /\ loop \in [Streams -> {"lock", "test", "wait", "woken", "write", "exited"}]
        /\ stop \in [Streams -> BOOLEAN]
    BY DEF LInv, TypeOK, Points, LogMutex, Mutexes, Threads, Streams
  <1>2. /\ pc[t] = "swap" /\ t # host
        /\ tmp' = [tmp EXCEPT ![t] = buffer[s]]
        /\ buffer' = [buffer EXCEPT ![s] = <<>>]
        /\ locked' = locked \ {LogMutex("rpc")}
        /\ UNCHANGED <<host, loop, pushed, queue, batch, fileVars, stop, day>>
    BY <1>0 DEF Swap, At, Release, EmptyBuffer
  <1>3. tmp[t] = <<>>
    BY <1>1, <1>2 DEF LInv, Control
  <1>4. CASE buffer[s] = <<>>
    <2>1. /\ UNCHANGED stream \/ \E r \in Streams : stream' = [stream EXCEPT ![t] = r]
          /\ \E to \in {"take", "leave"} : pc' = [pc EXCEPT ![t] = to]
      BY <1>0, <1>1, <1>4 DEF Swap, Onward, Goto
    <2>2. tmp' = tmp /\ buffer' = buffer
      BY <1>1, <1>2, <1>3, <1>4
    <2>. QED
      BY <1>1, <1>2, <2>1, <2>2, Quiet DEF Points, bufferVars
  <1>5. CASE buffer[s] # <<>>
    <2>1. pc' = [pc EXCEPT ![t] = "hand"] /\ UNCHANGED stream
      BY <1>0, <1>5 DEF Swap, Goto
    <2>2. TypeOK'
      <3>1. buffer' \in [Streams -> Lines] /\ tmp' \in [Threads -> Lines]
        BY <1>1, <1>2, NoLines, Replaced
      <3>2. Threading'
        BY <1>1, <1>2, <2>1, MoveTypes DEF LInv, Points
      <3>. QED
        BY <1>2, <3>1, <3>2 DEF LInv, TypeOK, Threading, Points, Mutexes, fileVars
    <2>3. Control'
      BY <1>1, <1>2, <2>1, MoveControl DEF LInv
    <2>4. FilesOK'
      BY <1>2 DEF LInv, FilesOK, FileOK, FilesInOrder, fileVars
    <2>5. ASSUME NEW r \in Streams
          PROVE  /\ \A u \in {Main, Handler} : u # t \/ r # s => OutOf(u, r)' = OutOf(u, r)
                 /\ OutOf(t, s) = <<>> /\ OutOf(t, s)' = buffer[s]
                 /\ Caught(r)' = Caught(r) /\ written'[r] = written[r]
                 /\ batch'[r] = batch[r] /\ queue'[r] = queue[r] /\ pushed'[r] = pushed[r]
      <3>1. tmp'[t] = buffer[s] /\ \A u \in Threads : u # t => tmp'[u] = tmp[u]
        BY <1>1, <1>2
      <3>2. \A u \in {Main, Handler} : u # t \/ r # s => OutOf(u, r)' = OutOf(u, r)
        BY <1>0, <1>1, <1>2, <2>1, <3>1 DEF OutOf
      <3>3. OutOf(t, s) = <<>> /\ OutOf(t, s)' = buffer[s]
        BY <1>0, <1>2, <1>3, <2>1, <3>1 DEF OutOf
      <3>4. Caught(r)' = Caught(r)
        <4>1. host = Main => tmp'[Main] = tmp[Main]
          BY <1>1, <1>2, <3>1
        <4>. QED
          BY <1>2, <2>1, <4>1 DEF Caught
      <3>. QED
        BY <1>2, <3>2, <3>3, <3>4 DEF fileVars
    <2>6. KeptIn(s)'
      <3>1. PICK f \in Seq(Lines) : f = HandedOn(written[s], batch[s], queue[s])
        BY TypesOf, HandedOnType DEF LInv
      <3>2. PICK x \in Lines, y \in Lines, z \in Lines, k \in Nat :
               x = OutOf(Main, s) /\ y = OutOf(Handler, s) /\ z = buffer[s] /\ k = pushed[s]
        BY TypesOf DEF LInv
      <3>3. PICK C : C = Caught(s)
        OBVIOUS
      <3>4. Kept(f \o <<x, y, z>>, k, C)
        BY <3>1, <3>2, <3>3, BatchesOf DEF LInv, KeptIn
      <3>5. buffer'[s] = <<>> /\ pushed'[s] = k /\ Caught(s)' = C
        BY <1>1, <1>2, <2>5, <3>2, <3>3
      <3>6. CASE t = Main
        <4>1. Batches(s)' = f \o <<z, y, <<>> >>
          BY <2>5, <3>1, <3>2, <3>5, <3>6, BatchesOf, ThreadsAssumption
        <4>2. x = <<>> /\ (Hosts \subseteq {Main} => y = <<>>)
          BY <1>2, <2>5, <3>2, <3>6, OneAtATime DEF LInv
        <4>3. Kept(f \o << <<>>, y, z>>, k, C)
          BY <3>4, <4>2
        <4>4. Kept(f \o <<z, y, <<>> >>, k, C)
          BY <4>2, <4>3, MainSwapped
        <4>. QED
          BY <3>5, <4>1, <4>4 DEF KeptIn
      <3>7. CASE t = Handler
        <4>1. Batches(s)' = f \o <<x, z, <<>> >>
          BY <2>5, <3>1, <3>2, <3>5, <3>7, BatchesOf, ThreadsAssumption
        <4>2. y = <<>>
          BY <2>5, <3>2, <3>7
        <4>3. Kept(f \o <<x, <<>>, z>>, k, C)
          BY <3>4, <4>2
        <4>4. Kept(f \o <<x, z, <<>> >>, k, C)
          BY <4>3, HandlerSwapped
        <4>. QED
          BY <3>5, <4>1, <4>4 DEF KeptIn
      <3>. QED
        BY <3>6, <3>7
    <2>7. ASSUME NEW r \in Streams, r # s
          PROVE  KeptIn(r)'
      <3>1. buffer'[r] = buffer[r]
        BY <1>1, <1>2, <2>7
      <3>. QED
        BY <2>5, <2>7, <3>1, Elsewhere DEF LInv
    <2>. QED
      BY <2>2, <2>3, <2>4, <2>6, <2>7 DEF LInv
  <1>. QED
    BY <1>4, <1>5

LEMMA EnqueueStepInv ==
    ASSUME LInv, NEW t \in {Main, Handler}, Enqueue(t)
    PROVE  LInv'
  <1>0. PICK s \in Streams : s = stream[t]
    BY DEF LInv, TypeOK, Threads
  <1>1. /\ pc \in [Threads -> Points]
        /\ queue \in [Streams -> Seq(Lines)] /\ tmp \in [Threads -> Lines]
        /\ t \in Threads /\ Main \in Threads /\ Handler \in Threads
    BY DEF LInv, TypeOK, Points, Threads
  <1>2. /\ pc[t] = "enqueue" /\ t # host
        /\ pc' = [pc EXCEPT ![t] = "signal"]
        /\ tmp' = [tmp EXCEPT ![t] = <<>>]
        /\ queue' = [queue EXCEPT ![s] = Append(queue[s], tmp[t])]
        /\ UNCHANGED <<stream, host, loop, locked, bufferVars, batch, fileVars, stop, day>>
    BY <1>0 DEF Enqueue, At, Goto
  <1>3. Append(queue[s], tmp[t]) \in Seq(Lines)
    BY <1>1, AppendProperties
  <1>4. TypeOK'
    <2>1. queue' \in [Streams -> Seq(Lines)] /\ tmp' \in [Threads -> Lines]
      BY <1>1, <1>2, <1>3, NoLines, Replaced
    <2>2. Threading'
      BY <1>1, <1>2, MoveTypes DEF LInv, Points
    <2>. QED
      BY <1>2, <2>1, <2>2 DEF LInv, TypeOK, Threading, Points, Mutexes, bufferVars, fileVars
  <1>5. Control'
    BY <1>1, <1>2, MoveControl DEF LInv
  <1>6. FilesOK'
    BY <1>2 DEF LInv, FilesOK, FileOK, FilesInOrder, fileVars
  <1>7. ASSUME NEW r \in Streams
        PROVE  /\ \A u \in {Main, Handler} : u # t \/ r # s => OutOf(u, r)' = OutOf(u, r)
               /\ OutOf(t, s) = tmp[t] /\ OutOf(t, s)' = <<>>
               /\ Caught(r)' = Caught(r) /\ written'[r] = written[r]
               /\ batch'[r] = batch[r] /\ buffer'[r] = buffer[r] /\ pushed'[r] = pushed[r]
    <2>1. tmp'[t] = <<>> /\ \A u \in Threads : u # t => tmp'[u] = tmp[u]
      BY <1>1, <1>2
    <2>2. \A u \in {Main, Handler} : u # t \/ r # s => OutOf(u, r)' = OutOf(u, r)
      BY <1>0, <1>1, <1>2, <2>1 DEF OutOf
    <2>3. OutOf(t, s) = tmp[t] /\ OutOf(t, s)' = <<>>
      BY <1>0, <1>2, <2>1 DEF OutOf
    <2>4. Caught(r)' = Caught(r)
      <3>1. host = Main => tmp'[Main] = tmp[Main]
        BY <1>1, <1>2, <2>1
      <3>. QED
        BY <1>2, <3>1 DEF Caught
    <2>. QED
      BY <1>2, <2>2, <2>3, <2>4 DEF bufferVars, fileVars
  <1>8. KeptIn(s)'
    <2>1. PICK w \in Written, v \in Lines, q \in Seq(Lines) :
             w = written[s] /\ v = batch[s] /\ q = queue[s]
      BY TypesOf DEF LInv
    <2>2. PICK x \in Lines, y \in Lines, z \in Lines, k \in Nat :
             x = OutOf(Main, s) /\ y = OutOf(Handler, s) /\ z = buffer[s] /\ k = pushed[s]
      BY TypesOf DEF LInv
    <2>3. PICK C : C = Caught(s)
      OBVIOUS
    <2>4. Kept(HandedOn(w, v, q) \o <<x, y, z>>, k, C)
      BY <2>1, <2>2, <2>3, BatchesOf DEF LInv, KeptIn
    <2>5. queue'[s] = Append(q, OutOf(t, s)) /\ pushed'[s] = k /\ Caught(s)' = C
      BY <1>1, <1>2, <1>7, <2>1, <2>2, <2>3
    <2>6. CASE t = Main
      <3>1. Batches(s)' = HandedOn(w, v, Append(q, x)) \o << <<>>, y, z>>
        BY <1>7, <2>1, <2>2, <2>5, <2>6, BatchesOf, ThreadsAssumption
      <3>2. Kept(HandedOn(w, v, Append(q, x)) \o << <<>>, y, z>>, k, C)
        BY <2>4, Queued, SameKept
      <3>. QED
        BY <2>5, <3>1, <3>2 DEF KeptIn
    <2>7. CASE t = Handler
      <3>1. Batches(s)' = HandedOn(w, v, Append(q, y)) \o <<x, <<>>, z>>
        BY <1>7, <2>1, <2>2, <2>5, <2>7, BatchesOf, ThreadsAssumption
      <3>2. Hosts \subseteq {Main} => x = <<>>
        BY <1>2, <2>2, <2>7, OneAtATime DEF LInv
      <3>3. Kept(HandedOn(w, v, Append(q, y)) \o <<x, <<>>, z>>, k, C)
        BY <2>4, <3>2, HandlerQueued
      <3>. QED
        BY <2>5, <3>1, <3>3 DEF KeptIn
    <2>. QED
      BY <2>6, <2>7
  <1>9. ASSUME NEW r \in Streams, r # s
        PROVE  KeptIn(r)'
    <2>1. queue'[r] = queue[r]
      BY <1>1, <1>2, <1>9
    <2>. QED
      BY <1>7, <1>9, <2>1, Elsewhere DEF LInv
  <1>. QED
    BY <1>4, <1>5, <1>6, <1>8, <1>9 DEF LInv

\* The AsyncLogger of s does something, and the threads do not.
LEMMA AsyncElsewhere ==
    ASSUME LInv, NEW s \in Streams,
           UNCHANGED <<threadVars, bufferVars>>,
           \A r \in Streams : r # s => /\ written'[r] = written[r] /\ batch'[r] = batch[r]
                                       /\ queue'[r] = queue[r],
           NEW w \in Written, NEW v \in Lines, NEW q \in Seq(Lines),
           written'[s] = w, batch'[s] = v, queue'[s] = q,
           \A t \in Seq(Lines) :
              Same(HandedOn(written[s], batch[s], queue[s]) \o t, HandedOn(w, v, q) \o t)
    PROVE  \A r \in Streams : KeptIn(r)'
  <1>1. ASSUME NEW r \in Streams
        PROVE  /\ OutOf(Main, r)' = OutOf(Main, r) /\ OutOf(Handler, r)' = OutOf(Handler, r)
               /\ Caught(r)' = Caught(r) /\ buffer'[r] = buffer[r] /\ pushed'[r] = pushed[r]
    BY DEF OutOf, Caught, threadVars, bufferVars
  <1>2. KeptIn(s)'
    <2>1. PICK x \in Lines, y \in Lines, z \in Lines :
             x = OutOf(Main, s) /\ y = OutOf(Handler, s) /\ z = buffer[s]
      BY TypesOf DEF LInv
    <2>2. <<x, y, z>> \in Seq(Lines)
      OBVIOUS
    <2>3. Same(HandedOn(written[s], batch[s], queue[s]) \o <<x, y, z>>, HandedOn(w, v, q) \o <<x, y, z>>)
      BY <2>2
    <2>4. Batches(s) = HandedOn(written[s], batch[s], queue[s]) \o <<x, y, z>>
      BY <2>1, BatchesOf
    <2>5. Batches(s)' = HandedOn(w, v, q) \o <<x, y, z>>
      BY <1>1, <2>1, BatchesOf
    <2>6. Kept(Batches(s), pushed[s], Caught(s))
      BY DEF LInv, KeptIn
    <2>7. Kept(Batches(s)', pushed[s], Caught(s))
      BY <2>3, <2>4, <2>5, <2>6, SameKept
    <2>. QED
      BY <1>1, <2>7 DEF KeptIn
  <1>3. ASSUME NEW r \in Streams, r # s
        PROVE  KeptIn(r)'
    BY <1>1, <1>3, Elsewhere DEF LInv
  <1>. QED
    BY <1>2, <1>3

\* Types and control after a step of the AsyncLogger of s.
LEMMA AsyncTypes ==
    ASSUME LInv, NEW s \in Streams,
           NEW where \in {"lock", "test", "wait", "write", "exited"},
           loop' = [loop EXCEPT ![s] = where],
           NEW v \in Lines, where # "write" => v = <<>>,
           batch' = [batch EXCEPT ![s] = v],
           UNCHANGED <<threadVars, bufferVars, stop>>,
           \/ UNCHANGED locked
           \/ \E m \in Mutexes : locked' = locked \cup {m}
           \/ \E m \in Mutexes : locked' = locked \ {m},
           queue' \in [Streams -> Seq(Lines)],
           written' \in [Streams -> Written], file' \in [Streams -> Nat \X Nat],
           date' \in [Streams -> Nat], no' \in [Streams -> Nat], day' \in 1 .. MaxDay
    PROVE  TypeOK' /\ Control'
  <1>1. /\ loop \in [Streams -> {"lock", "test", "wait", "woken", "write", "exited"}]
        /\ batch \in [Streams -> Lines] /\ locked \subseteq Mutexes
    BY DEF LInv, TypeOK, Mutexes
  <1>2. loop' \in [Streams -> {"lock", "test", "wait", "woken", "write", "exited"}]
    BY <1>1, Replaced
  <1>3. batch' \in [Streams -> Lines]
    BY <1>1, Replaced
  <1>4. locked' \subseteq Mutexes
    BY <1>1
  <1>5. TypeOK'
    BY <1>2, <1>3, <1>4 DEF LInv, TypeOK, Mutexes, Written, threadVars, bufferVars
  <1>6. \A r \in Streams : loop'[r] # "write" => batch'[r] = <<>>
    <2>1. loop'[s] = where /\ batch'[s] = v
      BY <1>1
    <2>2. \A r \in Streams : r # s => loop'[r] = loop[r] /\ batch'[r] = batch[r]
      BY <1>1
    <2>. QED
      BY <2>1, <2>2 DEF LInv, Control
  <1>7. Control'
    BY <1>6 DEF LInv, Control, threadVars
  <1>. QED
    BY <1>5, <1>7

LEMMA AsyncTypesOf ==
    ASSUME TypeOK
    PROVE  /\ queue \in [Streams -> Seq(Lines)] /\ batch \in [Streams -> Lines]
           /\ written \in [Streams -> Written] /\ file \in [Streams -> Nat \X Nat]
           /\ date \in [Streams -> Nat] /\ no \in [Streams -> Nat] /\ day \in 1 .. MaxDay
           /\ \A s \in Streams : QueueMutex(s) \in Mutexes
  BY DEF TypeOK, Written, QueueMutex, Mutexes

LEMMA SleepStepInv ==
    ASSUME LInv, NEW s \in Streams, LockQueue(s) \/ Wait(s)
    PROVE  LInv'
  <1>1. PICK where \in {"test", "wait"} :
           /\ loop[s] # "write" /\ loop' = [loop EXCEPT ![s] = where]
           /\ locked' = locked \cup {QueueMutex(s)} \/ locked' = locked \ {QueueMutex(s)}
           /\ UNCHANGED <<threadVars, bufferVars, queue, batch, fileVars, stop, day>>
    BY DEF LockQueue, Wait, AsyncAt, AsyncGoto, Acquire, Release
  <1>2. batch[s] = <<>> /\ batch' = [batch EXCEPT ![s] = <<>>]
    <2>1. batch[s] = <<>>
      BY <1>1 DEF LInv, Control
    <2>2. batch = [batch EXCEPT ![s] = batch[s]]
      BY AsyncTypesOf DEF LInv
    <2>. QED
      BY <1>1, <2>1, <2>2
  <1>3. TypeOK' /\ Control'
    BY <1>1, <1>2, AsyncTypesOf, NoLines, AsyncTypes DEF LInv, fileVars
  <1>4. FilesOK'
    BY <1>1 DEF LInv, FilesOK, FileOK, FilesInOrder, fileVars
  <1>5. ASSUME NEW r \in Streams
        PROVE  KeptIn(r)'
    <2>1. /\ OutOf(Main, r)' = OutOf(Main, r) /\ OutOf(Handler, r)' = OutOf(Handler, r)
          /\ Caught(r)' = Caught(r)
      BY <1>1 DEF OutOf, Caught, threadVars
    <2>. QED
      BY <1>1, <2>1, Elsewhere DEF LInv, bufferVars, fileVars
  <1>. QED
    BY <1>3, <1>4, <1>5 DEF LInv

LEMMA PopStepInv ==
    ASSUME LInv, NEW s \in Streams, Pop(s)
    PROVE  LInv'
  <1>1. /\ loop[s] = "test" /\ queue[s] # <<>>
        /\ batch' = [batch EXCEPT ![s] = Head(queue[s])]
        /\ queue' = [queue EXCEPT ![s] = Tail(queue[s])]
        /\ locked' = locked \ {QueueMutex(s)}
        /\ loop' = [loop EXCEPT ![s] = "write"]
        /\ UNCHANGED <<threadVars, bufferVars, fileVars, stop, day>>
    BY DEF Pop, AsyncAt, AsyncGoto, Release
  <1>2. /\ queue \in [Streams -> Seq(Lines)] /\ batch \in [Streams -> Lines]
        /\ written \in [Streams -> Written]
    BY AsyncTypesOf DEF LInv
  <1>3. Head(queue[s]) \in Lines /\ Tail(queue[s]) \in Seq(Lines)
    BY <1>1, <1>2, HeadTailProperties
  <1>4. queue' \in [Streams -> Seq(Lines)]
    BY <1>1, <1>2, <1>3, Replaced
  <1>5. TypeOK' /\ Control'
    BY <1>1, <1>3, <1>4, AsyncTypesOf, AsyncTypes DEF LInv, fileVars
  <1>6. FilesOK'
    BY <1>1 DEF LInv, FilesOK, FileOK, FilesInOrder, fileVars
  <1>7. batch[s] = <<>>
    BY <1>1 DEF LInv, Control
  <1>8. PICK w \in Written, q \in Seq(Lines) : w = written[s] /\ q = queue[s]
    BY <1>2
  <1>9. \A t \in Seq(Lines) : Same(HandedOn(w, <<>>, q) \o t, HandedOn(w, Head(q), Tail(q)) \o t)
    BY <1>1, <1>8, Popped
  <1>10. /\ batch'[s] = Head(q) /\ queue'[s] = Tail(q) /\ written'[s] = w
         /\ \A r \in Streams : r # s => /\ written'[r] = written[r] /\ batch'[r] = batch[r]
                                        /\ queue'[r] = queue[r]
    BY <1>1, <1>2, <1>8 DEF fileVars
  <1>11. \A r \in Streams : KeptIn(r)'
    BY <1>1, <1>3, <1>7, <1>8, <1>9, <1>10, AsyncElsewhere
  <1>. QED
    BY <1>5, <1>6, <1>11 DEF LInv

\* The file a batch goes to: of today, not before any other, and the number to
\* go on with is not behind it.
LEMMA Chosen ==
    ASSUME LInv, NEW s \in Streams, NEW today \in day .. MaxDay, ChooseFile(s, today)
    PROVE  \E f \in (1 .. MaxDay) \X Nat, n \in Nat :
              /\ file' = [file EXCEPT ![s] = f] /\ no' = [no EXCEPT ![s] = n]
              /\ f[1] = today /\ f[2] <= n
              /\ \A i \in DOMAIN written[s] : NotAfter(written[s][i].file, f)
  <1>1. /\ day \in Nat /\ today \in Nat /\ today \in 1 .. MaxDay /\ day <= today
        /\ date[s] \in Nat /\ no[s] \in Nat /\ date[s] <= day
    BY BoundAssumption DEF LInv, TypeOK, FilesOK, FileOK
  <1>2. \A i \in DOMAIN written[s] : written[s][i].file \in Nat \X Nat
    <2>1. written[s] \in Seq([lines : Lines, file : (1 .. MaxDay) \X Nat])
      BY DEF LInv, TypeOK
    <2>2. \A i \in DOMAIN written[s] : written[s][i] \in [lines : Lines, file : (1 .. MaxDay) \X Nat]
      BY <2>1, LenProperties, ElementOfSeq
    <2>. QED
      BY <2>2, BoundAssumption
  <1>. DEFINE n == Number(s, today)
              g == <<today, n>>
  <1>3. n \in Nat /\ g \in (1 .. MaxDay) \X Nat /\ g[1] = today /\ g[2] = n /\ n + 1 \in Nat /\ n <= n + 1
    BY <1>1 DEF Number
  <1>4. \A i \in DOMAIN written[s] : NotAfter(written[s][i].file, g)
    <2>. SUFFICES ASSUME NEW i \in DOMAIN written[s]
                  PROVE  NotAfter(written[s][i].file, g)
      OBVIOUS
    <2>1. PICK h \in Nat \X Nat : h = written[s][i].file
      BY <1>2
    <2>2. file[s] # NoFile
      <3>1. DOMAIN <<>> = {}
        OBVIOUS
      <3>. QED
        BY <3>1 DEF LInv, FilesOK, FileOK
    <2>3. PICK e \in Nat \X Nat : e = file[s] /\ e[1] = date[s] /\ e[2] <= no[s]
      BY <2>2 DEF LInv, TypeOK, FilesOK, FileOK
    <2>4. h[1] < e[1] \/ (h[1] = e[1] /\ h[2] <= e[2])
      BY <2>1, <2>3 DEF LInv, FilesOK, FileOK, NotAfter
    <2>5. h[1] \in Nat /\ h[2] \in Nat /\ e[1] \in Nat /\ e[2] \in Nat
      OBVIOUS
    <2>6. CASE date[s] = today
      <3>1. n = no[s]
        BY <2>6 DEF Number
      <3>2. h[1] < today \/ (h[1] = today /\ h[2] <= n)
        BY <1>1, <2>3, <2>4, <2>5, <2>6, <3>1
      <3>. QED
        BY <1>3, <2>1, <3>2 DEF NotAfter
    <2>7. CASE date[s] # today
      <3>1. h[1] < today
        BY <1>1, <2>3, <2>4, <2>5, <2>7
      <3>. QED
        BY <1>3, <2>1, <3>1 DEF NotAfter
    <2>. QED
      BY <2>6, <2>7
  <1>5. ASSUME ~(date[s] # today \/ file[s] = NoFile)
        PROVE  /\ n = no[s] /\ file[s] \in (1 .. MaxDay) \X Nat
               /\ file[s][1] = today /\ file[s][2] <= no[s]
               /\ \A i \in DOMAIN written[s] : NotAfter(written[s][i].file, file[s])
    BY <1>5 DEF LInv, FilesOK, FileOK, Number
  <1>. HIDE DEF n, g
  <1>6. CASE Overfull(s, Begun(s, today))
    <2>1. file' = [file EXCEPT ![s] = g] /\ no' = [no EXCEPT ![s] = n + 1]
      BY <1>6 DEF ChooseFile, Open, n, g
    <2>. QED
      BY <1>3, <1>4, <2>1
  <1>7. CASE ~ Overfull(s, Begun(s, today))
    <2>1. file' = [file EXCEPT ![s] = Begun(s, today)] /\ no' = [no EXCEPT ![s] = n]
      BY <1>7 DEF ChooseFile, Open, n
    <2>2. CASE date[s] # today \/ file[s] = NoFile
      <3>1. Begun(s, today) = g
        BY <2>2 DEF Begun, n, g
      <3>2. n <= n
        BY <1>3
      <3>. QED
        BY <1>3, <1>4, <2>1, <3>1, <3>2
    <2>3. CASE ~(date[s] # today \/ file[s] = NoFile)
      <3>1. Begun(s, today) = file[s]
        BY <2>3 DEF Begun
      <3>. QED
        BY <1>3, <1>5, <2>1, <2>3, <3>1
    <2>. QED
      BY <2>2, <2>3
  <1>. QED
    BY <1>6, <1>7

LEMMA WriteStepInv ==
    ASSUME LInv, NEW s \in Streams, Write(s)
    PROVE  LInv'
  <1>1. PICK today \in day .. MaxDay :
           ChooseFile(s, today) /\ date' = [date EXCEPT ![s] = today] /\ day' = today
    BY DEF Write
  <1>2. PICK f \in (1 .. MaxDay) \X Nat, n \in Nat :
           /\ file' = [file EXCEPT ![s] = f] /\ no' = [no EXCEPT ![s] = n]
           /\ f[1] = today /\ f[2] <= n
           /\ \A i \in DOMAIN written[s] : NotAfter(written[s][i].file, f)
    BY <1>1, Chosen
  <1>3. /\ queue \in [Streams -> Seq(Lines)] /\ batch \in [Streams -> Lines]
        /\ written \in [Streams -> Written] /\ file \in [Streams -> Nat \X Nat]
        /\ date \in [Streams -> Nat] /\ no \in [Streams -> Nat] /\ day \in 1 .. MaxDay
    BY AsyncTypesOf DEF LInv
  <1>4. PICK w \in Written, v \in Lines, q \in Seq(Lines) :
           w = written[s] /\ v = batch[s] /\ q = queue[s]
    BY <1>3
  <1>5. file'[s] = f
    BY <1>2, <1>3
  <1>. DEFINE entry == [lines |-> v, file |-> f]
              x == Append(w, entry)
  <1>6. /\ written' = [written EXCEPT ![s] = x] /\ batch' = [batch EXCEPT ![s] = <<>>]
        /\ locked' = locked \ {QueueMutex(s)}
        /\ UNCHANGED <<threadVars, bufferVars, queue, stop>>
    BY <1>4, <1>5 DEF Write, Release
  <1>7. PICK where \in {"exited", "lock"} : loop' = [loop EXCEPT ![s] = where]
    BY DEF Write, AsyncGoto
  <1>8. /\ x \in Written /\ Len(x) = Len(w) + 1 /\ Len(w) \in Nat
        /\ DOMAIN x = 1 .. Len(w) + 1 /\ DOMAIN w = 1 .. Len(w)
        /\ \A i \in 1 .. Len(w) : x[i] = w[i]
        /\ x[Len(w) + 1] = entry
    <2>1. entry \in [lines : Lines, file : (1 .. MaxDay) \X Nat]
      OBVIOUS
    <2>2. w \in Seq([lines : Lines, file : (1 .. MaxDay) \X Nat])
      BY DEF Written
    <2>. HIDE DEF entry
    <2>3. /\ x \in Written /\ Len(x) = Len(w) + 1 /\ Len(w) \in Nat
          /\ \A i \in 1 .. Len(w) : x[i] = w[i]
          /\ x[Len(w) + 1] = entry
      BY <2>1, <2>2, AppendProperties, LenProperties DEF Written
    <2>4. DOMAIN x = 1 .. Len(w) + 1 /\ DOMAIN w = 1 .. Len(w)
      BY <2>3, LenProperties DEF Written
    <2>. QED
      BY <2>3, <2>4
  <1>9. entry.file = f
    OBVIOUS
  <1>10. \A t \in Seq(Lines) : Same(HandedOn(w, v, q) \o t, HandedOn(x, <<>>, q) \o t)
    BY Filed
  <1>. HIDE DEF entry, x
  <1>11. /\ written' \in [Streams -> Written] /\ file' \in [Streams -> Nat \X Nat]
         /\ date' \in [Streams -> Nat] /\ no' \in [Streams -> Nat] /\ day' \in 1 .. MaxDay
    <2>1. f \in Nat \X Nat /\ today \in Nat /\ today \in 1 .. MaxDay
      BY <1>3, BoundAssumption
    <2>. QED
      BY <1>1, <1>2, <1>3, <1>6, <1>8, <2>1, Replaced
  <1>12. TypeOK' /\ Control'
    BY <1>3, <1>6, <1>7, <1>11, NoLines, AsyncTypesOf, AsyncTypes DEF LInv
  <1>13. /\ written'[s] = x /\ batch'[s] = <<>> /\ queue'[s] = q
         /\ date'[s] = today /\ no'[s] = n
         /\ \A r \in Streams : r # s => /\ written'[r] = written[r] /\ batch'[r] = batch[r]
                                        /\ queue'[r] = queue[r] /\ date'[r] = date[r]
                                        /\ file'[r] = file[r] /\ no'[r] = no[r]
    BY <1>1, <1>2, <1>3, <1>4, <1>6
  <1>14. \A r \in Streams : KeptIn(r)'
    BY <1>4, <1>6, <1>8, <1>10, <1>13, NoLines, AsyncElsewhere
  <1>15. today \in Nat /\ day \in Nat /\ day <= today
    BY <1>3, BoundAssumption
  <1>16. /\ \A i \in 1 .. Len(w) : NotAfter(x[i].file, f)
         /\ NotAfter(x[Len(w) + 1].file, f)
    <2>1. NotAfter(f, f)
      <3>1. f[2] \in Nat
        OBVIOUS
      <3>. QED
        BY <3>1 DEF NotAfter
    <2>2. \A i \in 1 .. Len(w) : NotAfter(x[i].file, f)
      BY <1>2, <1>4, <1>8
    <2>. QED
      BY <1>8, <1>9, <2>1, <2>2
  <1>17. \A i \in DOMAIN x : i \in 1 .. Len(w) \/ i = Len(w) + 1
    BY <1>8
  <1>18. FileOK(s)'
    <2>1. date'[s] <= day'
      BY <1>1, <1>13, <1>15
    <2>2. file'[s] # NoFile
      BY <1>5 DEF NoFile
    <2>3. file'[s] \in (1 .. MaxDay) \X Nat /\ file'[s][1] = date'[s] /\ file'[s][2] <= no'[s]
      BY <1>2, <1>5, <1>13
    <2>4. \A i \in DOMAIN written'[s] : NotAfter(written'[s][i].file, file'[s])
      BY <1>5, <1>13, <1>16, <1>17
    <2>. QED
      BY <2>1, <2>2, <2>3, <2>4 DEF FileOK
  <1>19. ASSUME NEW r \in Streams, r # s
         PROVE  FileOK(r)'
    <2>1. FileOK(r) /\ date[r] \in Nat
      BY <1>3 DEF LInv, FilesOK
    <2>2. date[r] <= today
      BY <1>15, <2>1 DEF FileOK
    <2>. QED
      BY <1>1, <1>13, <1>19, <2>1, <2>2 DEF FileOK
  <1>20. FilesInOrder'
    <2>1. ASSUME NEW i \in DOMAIN x, NEW j \in DOMAIN x, i <= j
          PROVE  NotAfter(x[i].file, x[j].file)
      <3>1. CASE j = Len(w) + 1
        BY <1>8, <1>9, <1>16, <1>17, <3>1
      <3>2. CASE j \in 1 .. Len(w)
        <4>1. i \in 1 .. Len(w)
          BY <1>8, <2>1, <3>2
        <4>2. NotAfter(w[i].file, w[j].file)
          BY <1>4, <1>8, <2>1, <3>2, <4>1 DEF LInv, FilesOK, FilesInOrder
        <4>. QED
          BY <1>8, <3>2, <4>1, <4>2
      <3>. QED
        BY <1>17, <3>1, <3>2
    <2>2. ASSUME NEW r \in Streams, NEW i \in DOMAIN written'[r], NEW j \in DOMAIN written'[r], i <= j
          PROVE  NotAfter(written'[r][i].file, written'[r][j].file)
      <3>1. CASE r = s
        BY <1>13, <2>1, <2>2, <3>1
      <3>2. CASE r # s
        BY <1>13, <2>2, <3>2 DEF LInv, FilesOK, FilesInOrder
      <3>. QED
        BY <3>1, <3>2
    <2>. QED
      BY <2>2 DEF FilesInOrder
  <1>. QED
    BY <1>12, <1>14, <1>18, <1>19, <1>20 DEF LInv, FilesOK

LEMMA InterruptStepInv ==
    ASSUME LInv, NEW t \in Hosts, Interrupt(t)
    PROVE  LInv'
  <1>1. /\ t \in Threads /\ t # Handler /\ Main # Handler
        /\ Handler \in Threads /\ Main \in Threads
    BY ThreadsAssumption DEF Threads
  <1>2. /\ pc[Handler] = "off" /\ host' = t /\ pc' = [pc EXCEPT ![Handler] = "lock"]
        /\ UNCHANGED <<stream, tmp, loop, locked, bufferVars, queue, batch, fileVars, stop, day>>
    BY DEF Interrupt
  <1>3. host = Handler /\ tmp[Handler] = <<>>
    BY <1>1, <1>2 DEF LInv, Control
  <1>4. pc \in [Threads -> Points] /\ pc' \in [Threads -> Points]
    <2>1. pc \in [Threads -> Points]
      BY DEF LInv, TypeOK, Points
    <2>. QED
      BY <1>1, <1>2, <2>1, Replaced DEF Points
  <1>5. TypeOK'
    BY <1>1, <1>2, <1>4 DEF LInv, TypeOK, Points, bufferVars, fileVars
  <1>6. Control'
    <2>1. pc'[Handler] = "lock" /\ \A u \in Threads : u # Handler => pc'[u] = pc[u]
      BY <1>1, <1>2, <1>4
    <2>. QED
      BY <1>1, <1>2, <1>3, <2>1 DEF LInv, Control
  <1>7. FilesOK'
    BY <1>2 DEF LInv, FilesOK, FileOK, FilesInOrder, fileVars
  <1>8. ASSUME NEW s \in Streams
        PROVE  KeptIn(s)'
    <2>1. /\ OutOf(Handler, s) = <<>> /\ OutOf(Handler, s)' = <<>>
          /\ OutOf(Main, s) = IF stream[Main] = s THEN tmp[Main] ELSE <<>>
          /\ Caught(s) = {}
      BY <1>1, <1>2, <1>3 DEF OutOf, Caught
    <2>2. CASE t = Main
      <3>1. PICK f \in Seq(Lines) : f = HandedOn(written[s], batch[s], queue[s])
        BY TypesOf, HandedOnType DEF LInv
      <3>2. PICK x \in Lines, z \in Lines, k \in Nat :
               x = OutOf(Main, s) /\ z = buffer[s] /\ k = pushed[s]
        BY TypesOf DEF LInv
      <3>3. Kept(f \o <<x, <<>>, z>>, k, {})
        BY <2>1, <3>1, <3>2, BatchesOf DEF LInv, KeptIn
      <3>4. Kept(f \o << <<>>, <<>>, z>>, k, ToSet(x))
        BY <3>3, NoLines, CatchKept
      <3>5. OutOf(Main, s)' = <<>> /\ Caught(s)' = ToSet(x)
        <4>1. ToSet(<<>>) = {}
          BY DEF ToSet
        <4>. QED
          BY <1>2, <2>1, <2>2, <3>2, <4>1 DEF OutOf, Caught
      <3>6. Batches(s)' = f \o << <<>>, <<>>, z>> /\ pushed'[s] = k
        BY <1>2, <2>1, <3>1, <3>2, <3>5, BatchesOf DEF bufferVars, fileVars
      <3>. QED
        BY <3>4, <3>5, <3>6 DEF KeptIn
    <2>3. CASE t # Main
      <3>1. OutOf(Main, s)' = OutOf(Main, s) /\ Caught(s)' = Caught(s)
        BY <1>1, <1>2, <1>3, <2>3 DEF OutOf, Caught
      <3>. QED
        BY <1>2, <2>1, <3>1, Elsewhere DEF LInv, bufferVars, fileVars
    <2>. QED
      BY <2>2, <2>3
  <1>. QED
    BY <1>5, <1>6, <1>7, <1>8 DEF LInv

LEMMA NoLinesIn ==
    ASSUME NEW h \in Seq(Lines), NEW x \in Lines, NEW y \in Lines, NEW z \in Lines
    PROVE  LET b == h \o <<x, y, z>>
           IN  Len(h) = 1 /\ h[1] = <<>> /\ x = <<>> /\ y = <<>> /\ z = <<>>
                  => LinesOf(b) = {} /\ OnceEach(b) /\ Increasing(b)
  <1>. DEFINE b == h \o <<x, y, z>>
  <1>1. /\ DOMAIN b = 1 .. Len(h) + 3 /\ \A i \in 1 .. Len(h) : b[i] = h[i]
        /\ b[Len(h) + 1] = x /\ b[Len(h) + 2] = y /\ b[Len(h) + 3] = z
    BY Tailed
  <1>2. \A i \in 1 .. 1 + 3 : i \in 1 .. 1 \/ i = 1 + 1 \/ i = 1 + 2 \/ i = 1 + 3
    OBVIOUS
  <1>3. \A i \in 1 .. 1 : i = 1
    OBVIOUS
  <1>. HIDE DEF b
  <1>4. SUFFICES ASSUME Len(h) = 1, h[1] = <<>>, x = <<>>, y = <<>>, z = <<>>
                 PROVE  LinesOf(b) = {} /\ OnceEach(b) /\ Increasing(b)
    BY DEF b
  <1>5. \A i \in DOMAIN b : b[i] = <<>>
    BY <1>1, <1>2, <1>3, <1>4
  <1>6. DOMAIN <<>> = {}
    OBVIOUS
  <1>. QED
    BY <1>5, <1>6 DEF LinesOf, ToSet, OnceEach, Increasing

LEMMA InitLInv == Init => LInv
  <1>. SUFFICES ASSUME Init
                PROVE  LInv
    OBVIOUS
  <1>1. ASSUME NEW s \in Streams
        PROVE  KeptIn(s)
    <2>1. /\ written[s] = <<>> /\ batch[s] = <<>> /\ queue[s] = <<>> /\ buffer[s] = <<>>
          /\ OutOf(Main, s) = <<>> /\ OutOf(Handler, s) = <<>> /\ pushed[s] = 0 /\ Caught(s) = {}
      BY ThreadsAssumption DEF Init, OutOf, Caught, Threads
    <2>2. <<>> \in Written /\ <<>> \in Lines /\ <<>> \in Seq(Lines)
      BY NoLines, EmptySeq DEF Written
    <2>3. LinesIn(<<>>) = <<>>
      BY LinesInFiles, <2>2, EmptySeq
    <2>4. PICK x \in Lines, y \in Lines, z \in Lines : x = <<>> /\ y = <<>> /\ z = <<>>
      BY <2>2
    <2>. DEFINE h == << <<>> >>
                b == h \o <<x, y, z>>
    <2>5. h \in Seq(Lines) /\ Len(h) = 1 /\ h[1] = <<>>
      BY <2>2, OneBatch
    <2>6. /\ Batches(s) = HandedOn(<<>>, <<>>, <<>>) \o <<x, y, z>>
          /\ HandedOn(<<>>, <<>>, <<>>) = <<>> \o h \o <<>>
      BY <2>4, <2>1, <2>3, BatchesOf DEF HandedOn
    <2>. HIDE DEF h
    <2>7. <<>> \o h = h /\ h \o <<>> = h
      BY <2>5, ConcatEmptySeq
    <2>8. Batches(s) = b
      BY <2>6, <2>7
    <2>9. LinesOf(b) = {} /\ OnceEach(b) /\ Increasing(b)
      BY <2>4, <2>5, NoLinesIn
    <2>10. 1 .. 0 = {}
      OBVIOUS
    <2>. QED
      BY <2>1, <2>8, <2>9, <2>10 DEF KeptIn, Kept
  <1>. QED
    BY <1>1, InitTypes DEF LInv

LEMMA NextLInv == LInv /\ [Next]_vars => LInv'
  <1>. SUFFICES ASSUME LInv, [Next]_vars
                PROVE  LInv'
    OBVIOUS
  <1>. Main \in Threads /\ Handler \in Threads /\ Loggers \subseteq Threads /\ "rpc" \in Streams
    BY DEF Threads, Streams
  <1>1. ASSUME NEW t \in Loggers, NEW s \in Streams, CallLog(t, s)
        PROVE  LInv'
    BY <1>1, QuietSteps
  <1>2. CASE HandlerLogs
    BY <1>2, QuietSteps
  <1>3. ASSUME NEW t \in Loggers \cup {Handler}, PushStep(t)
        PROVE  LInv'
    <2>1. t \in Threads
      BY DEF Threads
    <2>. QED
      BY <1>3, <2>1, PushStepInv, QuietSteps DEF PushStep
  <1>4. ASSUME NEW t \in {Main, Handler}, SyncStep(t)
        PROVE  LInv'
    <2>1. t \in Threads
      BY DEF Threads
    <2>. QED
      BY <1>4, <2>1, SwapStepInv, EnqueueStepInv, QuietSteps DEF SyncStep
  <1>5. ASSUME NEW s \in Streams, AsyncStep(s)
        PROVE  LInv'
    BY <1>5, SleepStepInv, PopStepInv, WriteStepInv DEF AsyncStep
  <1>6. ASSUME NEW t \in Hosts, Interrupt(t)
        PROVE  LInv'
    BY <1>6, InterruptStepInv
  <1>7. CASE Ends
    BY <1>7, QuietSteps
  <1>8. CASE UNCHANGED vars
    <2>1. /\ UNCHANGED <<pc, stream, tmp, host, loop, locked, buffer, pushed, queue, batch>>
          /\ UNCHANGED <<written, file, date, no, stop, day>>
      BY <1>8 DEF vars, threadVars, bufferVars, fileVars
    <2>2. TypeOK' /\ Control' /\ FilesOK'
      BY <2>1 DEF LInv, TypeOK, Control, FilesOK, FileOK, FilesInOrder
    <2>3. \A s \in Streams : KeptIn(s)'
      <3>1. ASSUME NEW s \in Streams
            PROVE  /\ OutOf(Main, s)' = OutOf(Main, s) /\ OutOf(Handler, s)' = OutOf(Handler, s)
                   /\ Caught(s)' = Caught(s)
        BY <2>1 DEF OutOf, Caught
      <3>. QED
        BY <2>1, <3>1, Elsewhere DEF LInv
    <2>. QED
      BY <2>2, <2>3 DEF LInv
  <1>. QED
    BY <1>1, <1>2, <1>3, <1>4, <1>5, <1>6, <1>7, <1>8 DEF Next

-----------------------------------------------------------------------------

\* The variables have their types.
THEOREM TypeCorrect == Spec => []TypeOK
  <1>1. LInv => TypeOK
    BY DEF LInv
  <1>. QED
    BY <1>1, InitLInv, NextLInv, PTL DEF Spec

\* Every line that has been pushed is in exactly one place, whatever thread a
\* signal comes to; only lines the signal catches on the main thread are lost.
LinesOnce ==
    \A s \in Streams :
        LinesOf(Batches(s)) = (1 .. pushed[s]) \ Caught(s) /\ OnceEach(Batches(s))

\* Whatever interrupts pushLog, syncLoop and the two AsyncLoggers, no line is
\* written twice and none disappears between the buffers, the queue and a file.
THEOREM NoLineLostOrTwice == Spec => []LinesOnce
  <1>1. LInv => LinesOnce
    BY DEF LInv, KeptIn, Kept, LinesOnce
  <1>. QED
    BY <1>1, InitLInv, NextLInv, PTL DEF Spec

\* As long as signals come to the main thread only, lines do not overtake each
\* other, from the buffer to the files.
THEOREM LinesStayInOrder ==
    ASSUME Hosts \subseteq {Main}
    PROVE  Spec => []LinesOnceInOrder
  <1>1. LInv => LinesOnceInOrder
    BY DEF LInv, KeptIn, Kept, LinesOnceInOrder
  <1>. QED
    BY <1>1, InitLInv, NextLInv, PTL DEF Spec

\* In the order of days and numbers the files contain the batches in the order
\* in which they have been written.
THEOREM FilesStayInOrder == Spec => []FilesInOrder
  <1>1. LInv => FilesInOrder
    BY DEF LInv, FilesOK
  <1>. QED
    BY <1>1, InitLInv, NextLInv, PTL DEF Spec
=============================================================================
