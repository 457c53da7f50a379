-------------------------- MODULE RpcServer_proofs --------------------------
(***************************************************************************)
(* The server, for any number of connections, requests and IO threads: its *)
(* variables keep their types, and a connection that is neither closed nor *)
(* reset stays watched for input, or a task of its loop will watch it.     *)
(*                                                                         *)
(* The latter is inductive together with what the two threads know of each *)
(* other (SInv): a connection has nothing before it is accepted, it is     *)
(* not closed before setState, and a descriptor in error is one that its   *)
(* client has reset, which only the client can do and nobody undoes.       *)
(***************************************************************************)
EXTENDS RpcServer, SequenceTheorems, FiniteSetTheorems, WellFoundedInduction, TLAPS

LEMMA LeastNumber ==
    ASSUME NEW T, T \in SUBSET Nat, T # {}
    PROVE  \E x \in T : \A y \in T : x <= y
  <1>. DEFINE R == {r \in Nat \X Nat : r[1] < r[2]}
  <1>1. IsWellFoundedOn(R, Nat)
    BY NatLessThanWellFounded DEF OpToRel
  <1>2. \A x, y \in Nat : y < x => <<y, x>> \in R
    OBVIOUS
  <1>. HIDE DEF R
  <1>3. PICK x \in T : \A y \in T : ~ (<<y, x>> \in R)
    BY <1>1, WFMin
  <1>4. ASSUME NEW y \in T
        PROVE  x <= y
    <2>1. x \in Nat /\ y \in Nat
      OBVIOUS
    <2>2. ~ (y < x)
      BY <1>2, <1>3, <2>1
    <2>. QED
      BY <2>1, <2>2
  <1>. QED
    BY <1>4

(***************************************************************************)
(* Answered: the requests of a sequence that are answered, by an induction *)
(* over its length.                                                        *)
(***************************************************************************)

\* The function that Answered defines by recursion, on the first m requests.
Answers(f, s, m) ==
    f = [i \in 0 .. m |->
           IF i = 0 THEN <<>>
           ELSE IF s[i].kind = "answered" THEN Append(f[i - 1], s[i])
           ELSE f[i - 1]]

LEMMA AnswersNone ==
    ASSUME NEW s, NEW m \in Nat, NEW f, Answers(f, s, m)
    PROVE  f[0] = <<>>
  <1>1. 0 \in 0 .. m
    OBVIOUS
  <1>. QED
    BY <1>1 DEF Answers

LEMMA AnswersAt ==
    ASSUME NEW s, NEW m \in Nat, NEW f, Answers(f, s, m), NEW i \in 1 .. m
    PROVE  f[i] = IF s[i].kind = "answered" THEN Append(f[i - 1], s[i]) ELSE f[i - 1]
  <1>1. i \in 0 .. m /\ i # 0
    OBVIOUS
  <1>. QED
    BY <1>1 DEF Answers

LEMMA AnswersExists ==
    ASSUME NEW s, NEW n \in Nat
    PROVE  \E f : Answers(f, s, n)
  <1>. DEFINE T == {m \in Nat : ~ \E f : Answers(f, s, m)}
  <1>1. SUFFICES ASSUME T # {} PROVE FALSE
    OBVIOUS
  <1>2. PICK m \in T : \A y \in T : m <= y
    <2>. HIDE DEF T
    <2>1. T \in SUBSET Nat
      BY DEF T
    <2>. QED
      BY <1>1, <2>1, LeastNumber
  <1>3. m \in Nat /\ ~ \E f : Answers(f, s, m)
    OBVIOUS
  <1>4. CASE m = 0
    <2>. DEFINE h == [i \in 0 .. 0 |-> <<>>]
    <2>1. Answers(h, s, 0)
      BY DEF Answers
    <2>. QED
      BY <1>3, <1>4, <2>1
  <1>5. CASE m > 0
    <2>1. m - 1 \in Nat /\ ~ (m <= m - 1)
      BY <1>3, <1>5
    <2>2. m - 1 \notin T
      BY <1>2, <2>1
    <2>3. PICK g : Answers(g, s, m - 1)
      BY <2>1, <2>2
    <2>. DEFINE h == [i \in 0 .. m |->
                        IF i = 0 THEN <<>>
                        ELSE IF s[i].kind = "answered" THEN Append(g[i - 1], s[i]) ELSE g[i - 1]]
    <2>4. ASSUME NEW i \in 0 .. m - 1
          PROVE  h[i] = g[i]
      <3>1. PICK p \in Nat : p = m - 1
        BY <2>1
      <3>2. i \in 0 .. m /\ Answers(g, s, p)
        BY <1>3, <2>3, <3>1
      <3>3. CASE i = 0
        <4>1. g[0] = <<>>
          BY <3>2, AnswersNone
        <4>. QED
          BY <3>2, <3>3, <4>1
      <3>4. CASE i # 0
        <4>1. i \in 1 .. p
          BY <1>3, <3>1, <3>4
        <4>2. g[i] = IF s[i].kind = "answered" THEN Append(g[i - 1], s[i]) ELSE g[i - 1]
          BY <3>2, <4>1, AnswersAt
        <4>. QED
          BY <3>2, <3>4, <4>2
      <3>. QED
        BY <3>3, <3>4
    <2>5. \A i \in 0 .. m : i # 0 => i - 1 \in 0 .. m - 1
      BY <1>3
    <2>6. \A i \in 0 .. m : i # 0 => h[i - 1] = g[i - 1]
      BY <2>4, <2>5
    <2>7. h = [i \in 0 .. m |->
                 IF i = 0 THEN <<>>
                 ELSE IF s[i].kind = "answered" THEN Append(h[i - 1], s[i]) ELSE h[i - 1]]
      BY <2>6
    <2>8. Answers(h, s, m)
      BY <2>7 DEF Answers
    <2>. QED
      BY <2>8, <1>3
  <1>. QED
    BY <1>3, <1>4, <1>5

LEMMA AnsweredType ==
    ASSUME NEW R, NEW s \in Seq(R)
    PROVE  Answered(s) \in Seq(R)
  <1>1. Len(s) \in Nat
    OBVIOUS
  <1>2. PICK f : Answers(f, s, Len(s)) /\ Answered(s) = f[Len(s)]
    <2>. DEFINE g == CHOOSE h : Answers(h, s, Len(s))
    <2>1. Answers(g, s, Len(s))
      BY <1>1, AnswersExists
    <2>2. Answered(s) = g[Len(s)]
      BY DEF Answered, Answers
    <2>. QED
      BY <2>1, <2>2
  <1>. DEFINE T == {i \in Nat : i <= Len(s) /\ f[i] \notin Seq(R)}
  <1>3. T = {}
    <2>1. SUFFICES ASSUME T # {} PROVE FALSE
      OBVIOUS
    <2>2. PICK i \in T : \A j \in T : i <= j
      <3>1. T \in SUBSET Nat
        OBVIOUS
      <3>. HIDE DEF T
      <3>. QED
        BY <2>1, <3>1, LeastNumber
    <2>3. i \in Nat /\ i <= Len(s) /\ f[i] \notin Seq(R)
      OBVIOUS
    <2>4. CASE i = 0
      <3>1. f[0] = <<>>
        BY <1>1, <1>2, AnswersNone
      <3>. QED
        BY <2>3, <2>4, <3>1, EmptySeq
    <2>5. CASE i # 0
      <3>1. i - 1 \in Nat /\ i - 1 <= Len(s) /\ ~ (i <= i - 1) /\ i \in 1 .. Len(s)
        BY <1>1, <2>3, <2>5
      <3>2. f[i - 1] \in Seq(R)
        BY <2>2, <3>1
      <3>3. f[i] = IF s[i].kind = "answered" THEN Append(f[i - 1], s[i]) ELSE f[i - 1]
        BY <1>1, <1>2, <3>1, AnswersAt
      <3>4. s[i] \in R
        BY <3>1
      <3>. QED
        BY <2>3, <3>2, <3>3, <3>4
    <2>. QED
      BY <2>4, <2>5
  <1>. QED
    BY <1>1, <1>2, <1>3

(***************************************************************************)
(* The types.                                                              *)
(***************************************************************************)
Tasks == [kind : {"add", "onRead", "onWrite"}, conn : Conns]

LEMMA TaskType ==
    ASSUME NEW c \in Conns, NEW kind \in {"add", "onRead", "onWrite"}
    PROVE  Task(kind, c) \in Tasks
  BY DEF Task, Tasks

LEMMA HandlersType ==
    ASSUME NEW e, e.conn \in Conns
    PROVE  Handlers(e) \in Seq(Tasks)
  <1>1. Task("onRead", e.conn) \in Tasks /\ Task("onWrite", e.conn) \in Tasks
    BY TaskType
  <1>. QED
    BY <1>1 DEF Handlers

LEMMA NextThreadType ==
    ASSUME NEW i \in 0 .. IoThreads
    PROVE  NextThread(i) \in Threads /\ NextThread(i) \in 0 .. IoThreads
  BY ThreadsAssumption DEF NextThread, Threads

\* What reply() leaves behind.
LEMMA ReplyType ==
    ASSUME TypeOK, NEW c \in Conns, NEW replies \in Seq(Requests), Reply(c, replies)
    PROVE  /\ mask' \in [Conns -> SUBSET {"in", "out"}] /\ watched' \subseteq Conns
           /\ output' \in [Conns -> Seq(Requests)]
  <1>1. output[c] \o replies \in Seq(Requests)
    BY DEF TypeOK
  <1>. QED
    BY <1>1 DEF TypeOK, Reply

LEMMA InitType == Init => TypeOK
  <1>. SUFFICES ASSUME Init PROVE TypeOK
    OBVIOUS
  <1>1. \A c \in Conns : MaxRequests[c] \in Nat
    BY RequestsAssumption
  <1>2. Cardinality(current) <= 1
    BY FS_EmptySet DEF Init
  <1>3. IoThreads \in Nat
    BY ThreadsAssumption
  <1>. QED
    BY <1>1, <1>2, <1>3 DEF Init, TypeOK

LEMMA ClientType ==
    ASSUME TypeOK, NEW c \in Conns, Connect(c) \/ Request(c) \/ Leave(c)
    PROVE  TypeOK'
  <1>1. CASE Connect(c)
    BY <1>1 DEF Connect, TypeOK, objVars, loopVars
  <1>2. CASE Leave(c)
    BY <1>2 DEF Leave, TypeOK, objVars, loopVars
  <1>3. CASE Request(c)
    <2>1. PICK k \in Kinds :
            requests' = [requests EXCEPT ![c] = Append(@, [no |-> sentNo[c] + 1, kind |-> k])]
      BY <1>3 DEF Request
    <2>2. sentNo[c] \in Nat /\ sentNo[c] < MaxRequests[c] /\ MaxRequests[c] \in Nat
      BY <1>3, RequestsAssumption DEF Request, TypeOK
    <2>3. [no |-> sentNo[c] + 1, kind |-> k] \in Requests
      BY <2>2 DEF Requests
    <2>4. requests' \in [Conns -> Seq(Requests)]
      BY <2>1, <2>3 DEF TypeOK
    <2>5. sentNo' \in [Conns -> Nat] /\ \A d \in Conns : sentNo'[d] <= MaxRequests[d]
      BY <1>3, <2>2 DEF Request, TypeOK
    <2>. QED
      BY <1>3, <2>4, <2>5 DEF Request, TypeOK, objVars, loopVars
  <1>. QED
    BY <1>1, <1>2, <1>3

LEMMA MainType ==
    ASSUME TypeOK, MainStep
    PROVE  TypeOK'
  <1>1. PICK c \in Conns : OnAccept(c) \/ SetState(c) \/ ClearClient(c)
    BY DEF MainStep
  <1>2. CASE OnAccept(c)
    <2>1. index' \in Threads /\ index' \in 0 .. IoThreads
      BY <1>2, NextThreadType DEF OnAccept, TypeOK
    <2>2. tasks' \in [Threads -> Seq(Tasks)]
      <3>1. Task("add", c) \in Tasks
        BY TaskType
      <3>2. tasks \in [Threads -> Seq(Tasks)]
        BY DEF TypeOK, Tasks
      <3>3. tasks' = [tasks EXCEPT ![index'] = Append(@, Task("add", c))]
        BY <1>2 DEF OnAccept, ListenFromMain
      <3>. QED
        BY <2>1, <3>1, <3>2, <3>3
    <2>3. mask' \in [Conns -> SUBSET {"in", "out"}]
      BY <1>2 DEF OnAccept, ListenFromMain, TypeOK
    <2>4. current' \subseteq Conns /\ Cardinality(current') <= 1
      <3>1. current' = {c}
        BY <1>2 DEF OnAccept
      <3>2. Cardinality({c}) = 1
        BY FS_Singleton
      <3>. QED
        BY <3>1, <3>2
    <2>. QED
      BY <1>2, <2>1, <2>2, <2>3, <2>4 DEF OnAccept, TypeOK, Tasks
  <1>3. CASE SetState(c)
    <2>1. Cardinality(current') <= 1
      BY <1>3, FS_EmptySet DEF SetState
    <2>. QED
      BY <1>3, <2>1 DEF SetState, TypeOK, netVars, loopVars
  <1>4. CASE ClearClient(c)
    BY <1>4 DEF ClearClient, TypeOK, netVars, loopVars
  <1>. QED
    BY <1>1, <1>2, <1>3, <1>4

LEMMA PollType ==
    ASSUME TypeOK, NEW t \in Threads, Poll(t)
    PROVE  TypeOK'
  <1>1. \A c \in Conns : Reported(c) \subseteq {"in", "out", "err"}
    BY DEF TypeOK, Reported
  <1>2. polled' \in [Threads -> SUBSET [conn : Conns, events : SUBSET {"in", "out", "err"}]]
    BY <1>1 DEF Poll, TypeOK
  <1>. QED
    BY <1>2 DEF Poll, TypeOK, netVars, objVars

LEMMA DispatchType ==
    ASSUME TypeOK, NEW t \in Threads, Dispatch(t)
    PROVE  TypeOK'
  <1>1. PICK e \in polled[t] :
          /\ polled' = [polled EXCEPT ![t] = @ \ {e}]
          /\ tasks' = [tasks EXCEPT ![t] = @ \o Handlers(e)]
          /\ watched' = IF "err" \in e.events THEN watched \ {e.conn} ELSE watched
    BY DEF Dispatch
  <1>2. e.conn \in Conns
    BY DEF TypeOK
  <1>3. Handlers(e) \in Seq(Tasks)
    BY <1>2, HandlersType
  <1>4. tasks' \in [Threads -> Seq(Tasks)]
    <2>1. tasks \in [Threads -> Seq(Tasks)]
      BY DEF TypeOK, Tasks
    <2>2. tasks[t] \o Handlers(e) \in Seq(Tasks)
      BY <1>3, <2>1
    <2>. QED
      BY <1>1, <2>1, <2>2
  <1>5. polled' \in [Threads -> SUBSET [conn : Conns, events : SUBSET {"in", "out", "err"}]]
    BY <1>1 DEF TypeOK
  <1>. QED
    BY <1>1, <1>4, <1>5 DEF Dispatch, TypeOK, Tasks, netVars, objVars

LEMMA StartsType ==
    ASSUME TypeOK, NEW t \in Threads, NEW c, NEW kind, Starts(t, kind, c)
    PROVE  tasks' \in [Threads -> Seq([kind : {"add", "onRead", "onWrite"}, conn : Conns])]
  <1>1. tasks \in [Threads -> Seq(Tasks)] /\ tasks[t] # <<>>
    BY DEF TypeOK, Tasks, Starts
  <1>2. Tail(tasks[t]) \in Seq(Tasks)
    BY <1>1
  <1>3. tasks' = [tasks EXCEPT ![t] = Tail(@)]
    BY DEF Starts
  <1>. QED
    BY <1>1, <1>2, <1>3 DEF Tasks

LEMMA HandlerType ==
    ASSUME TypeOK, NEW t \in Threads, NEW c \in Conns,
           \/ RunAdd(t, c) \/ RunDangling(t, c) \/ RunOnRead(t, c)
           \/ RunOnWrite(t, c) \/ RunOnWriteAgain(t, c)
    PROVE  TypeOK'
  <1>1. tasks' \in [Threads -> Seq([kind : {"add", "onRead", "onWrite"}, conn : Conns])]
    BY StartsType DEF RunAdd, RunDangling, RunOnRead, RunOnWrite, RunOnWriteAgain
  <1>2. CASE RunAdd(t, c)
    BY <1>1, <1>2 DEF RunAdd, TypeOK, netVars, objVars
  <1>3. CASE RunDangling(t, c)
    BY <1>1, <1>3 DEF RunDangling, TypeOK, netVars, objVars
  <1>4. CASE polled' = polled /\ Returns
    BY <1>1, <1>4 DEF Returns, TypeOK, netVars, objVars
  <1>5. CASE polled' = polled /\ Excute(c)
    <2>1. requests[c] \in Seq(Requests)
      BY DEF TypeOK
    <2>2. Answered(requests[c]) \in Seq(Requests)
      BY <2>1, AnsweredType
    <2>3. /\ mask' \in [Conns -> SUBSET {"in", "out"}] /\ watched' \subseteq Conns
          /\ output' \in [Conns -> Seq(Requests)]
      BY <1>5, <2>2, ReplyType DEF Excute
    <2>4. ToSet(requests[c]) \subseteq Requests
      BY <2>1 DEF ToSet
    <2>5. deferred' \in [Conns -> SUBSET Requests]
      BY <1>5, <2>4 DEF Excute, TypeOK
    <2>6. requests' \in [Conns -> Seq(Requests)]
      BY <1>5, EmptySeq DEF Excute, TypeOK
    <2>. QED
      BY <1>1, <1>5, <2>3, <2>5, <2>6 DEF Excute, TypeOK, objVars
  <1>6. CASE polled' = polled /\ Clear(c)
    BY <1>1, <1>6 DEF Clear, TypeOK, netVars
  <1>7. CASE polled' = polled /\ Write(c)
    <2>1. wire[c] \o output[c] \in Seq(Requests)
      BY DEF TypeOK
    <2>. QED
      BY <1>1, <1>7, <2>1 DEF Write, TypeOK, objVars
  <1>8. CASE polled' = polled /\ WriteForEver
    BY <1>1, <1>8 DEF WriteForEver, TypeOK, netVars, objVars
  <1>. QED
    BY <1>2, <1>3, <1>4, <1>5, <1>6, <1>7, <1>8 DEF RunOnRead, RunOnWrite, RunOnWriteAgain

LEMMA FinishType ==
    ASSUME TypeOK, NEW c \in Conns, Finish(c)
    PROVE  TypeOK'
  <1>1. PICK r \in deferred[c] :
          /\ deferred' = [deferred EXCEPT ![c] = @ \ {r}]
          /\ IF object[c] = "deleted"
             THEN fate' = "dangling" /\ UNCHANGED <<mask, watched, output>>
             ELSE fate' = fate /\ Reply(c, <<r>>)
    BY DEF Finish
  <1>2. <<r>> \in Seq(Requests)
    BY DEF TypeOK
  <1>3. /\ mask' \in [Conns -> SUBSET {"in", "out"}] /\ watched' \subseteq Conns
        /\ output' \in [Conns -> Seq(Requests)]
    <2>1. CASE object[c] = "deleted"
      BY <1>1, <2>1 DEF TypeOK
    <2>2. CASE object[c] # "deleted"
      BY <1>1, <1>2, <2>2, ReplyType
    <2>. QED
      BY <2>1, <2>2
  <1>4. fate' \in {"running", "dangling", "killed"} /\ deferred' \in [Conns -> SUBSET Requests]
    BY <1>1 DEF TypeOK
  <1>. QED
    BY <1>3, <1>4 DEF Finish, TypeOK, netVars, objVars

LEMMA NextType == TypeOK /\ [Next]_vars => TypeOK'
  <1>. SUFFICES ASSUME TypeOK, [Next]_vars PROVE TypeOK'
    OBVIOUS
  <1>1. CASE MainStep
    BY <1>1, MainType
  <1>2. ASSUME NEW t \in Threads, IoStep(t)
        PROVE  TypeOK'
    BY <1>2, PollType, DispatchType, HandlerType DEF IoStep
  <1>3. ASSUME NEW c \in Conns, Connect(c) \/ Request(c) \/ Leave(c) \/ Finish(c)
        PROVE  TypeOK'
    BY <1>3, ClientType, FinishType
  <1>4. CASE UNCHANGED vars
    BY <1>4 DEF vars, netVars, objVars, loopVars, TypeOK
  <1>. QED
    BY <1>1, <1>2, <1>3, <1>4 DEF Next

\* Every variable keeps its type: the records of TcpConnection and of the loops
\* are of the kinds their handlers expect, whatever the two threads do.
THEOREM TypeCorrect == Spec => []TypeOK
  BY InitType, NextType, PTL DEF Spec

(***************************************************************************)
(* A connection stays watched.                                             *)
(***************************************************************************)

\* Before it is accepted a connection has nothing, then a thread of its own.
Accepted ==
    \A c \in Conns :
        /\ peer[c] \in {"away", "backlog"} => object[c] = "none" /\ state[c] = "NotConnected"
        /\ object[c] = "alive" => thread[c] \in Threads

\* onRead closes only what setState has connected.
Unset ==
    \A c \in current : state[c] = "NotConnected" /\ peer[c] \notin {"away", "backlog"}

\* What epoll_wait has reported as in error was reset, and still is.
ErrorIsReset ==
    \A t \in Threads : \A e \in polled[t] : "err" \in e.events => peer[e.conn] = "reset"

SInv == TypeOK /\ Accepted /\ Unset /\ ErrorIsReset /\ StaysReachable

\* StaysReachable, for one connection.
Open(c) == object[c] = "alive" /\ state[c] # "Closed" /\ peer[c] # "reset"
WillBeAdded(c) == Task("add", c) \in ToSet(tasks[thread[c]])
Reachable(c) == Open(c) => "in" \in mask[c] /\ (c \in watched \/ WillBeAdded(c))

LEMMA ReachableEach == StaysReachable <=> \A c \in Conns : Reachable(c)
  BY DEF StaysReachable, Reachable, Open, WillBeAdded

LEMMA ReachableEachNext == StaysReachable' <=> \A c \in Conns : Reachable(c)'
  BY DEF StaysReachable, Reachable, Open, WillBeAdded

\* A queued task stays queued until it is the first.
LEMMA StaysInTail ==
    ASSUME NEW R, NEW s \in Seq(R), s # <<>>, NEW x \in ToSet(s), x # Head(s)
    PROVE  x \in ToSet(Tail(s))
  <1>1. PICK i \in 1 .. Len(s) : x = s[i]
    BY DEF ToSet
  <1>2. i # 1
    BY <1>1
  <1>3. i - 1 \in 1 .. Len(Tail(s)) /\ Tail(s)[i - 1] = s[i]
    BY <1>1, <1>2
  <1>4. x = Tail(s)[i - 1] /\ Tail(s) \in Seq(R)
    BY <1>1, <1>3
  <1>5. DOMAIN Tail(s) = 1 .. Len(Tail(s))
    BY <1>4
  <1>. QED
    BY <1>3, <1>4, <1>5 DEF ToSet

LEMMA StaysInLonger ==
    ASSUME NEW R, NEW s \in Seq(R), NEW q \in Seq(R), NEW x \in ToSet(s)
    PROVE  x \in ToSet(s \o q)
  <1>1. PICK i \in 1 .. Len(s) : x = s[i]
    BY DEF ToSet
  <1>2. i \in 1 .. Len(s \o q) /\ (s \o q)[i] = s[i]
    BY <1>1
  <1>. QED
    BY <1>1, <1>2 DEF ToSet

LEMMA AppendedIsIn ==
    ASSUME NEW R, NEW s \in Seq(R), NEW y \in R
    PROVE  /\ y \in ToSet(Append(s, y))
           /\ \A x \in ToSet(s) : x \in ToSet(Append(s, y))
  <1>1. /\ Len(Append(s, y)) = Len(s) + 1
        /\ Append(s, y)[Len(s) + 1] = y
        /\ \A i \in 1 .. Len(s) : Append(s, y)[i] = s[i]
    OBVIOUS
  <1>2. Len(s) + 1 \in 1 .. Len(Append(s, y))
    BY <1>1
  <1>3. \A i \in 1 .. Len(s) : i \in 1 .. Len(Append(s, y))
    BY <1>1
  <1>. QED
    BY <1>1, <1>2, <1>3 DEF ToSet

LEMMA InitSInv == Init => SInv
  BY InitType DEF Init, SInv, Accepted, Unset, ErrorIsReset, StaysReachable

LEMMA ClientKeeps ==
    ASSUME SInv, NEW c \in Conns, Connect(c) \/ Request(c) \/ Leave(c)
    PROVE  Accepted' /\ Unset' /\ ErrorIsReset' /\ StaysReachable'
  <1>1. \A d \in Conns : \/ peer'[d] = peer[d]
                         \/ peer[d] \in {"away", "backlog"} /\ peer'[d] \in {"away", "backlog"}
                         \/ peer[d] \in {"connected", "fin"} /\ peer'[d] \in {"fin", "reset"}
    BY DEF SInv, TypeOK, Connect, Request, Leave
  <1>2. UNCHANGED <<objVars, loopVars>>
    BY DEF Connect, Request, Leave
  <1>3. Accepted' /\ Unset'
    <2>1. current \subseteq Conns
      BY DEF SInv, TypeOK
    <2>. QED
      BY <1>1, <1>2, <2>1 DEF SInv, Accepted, Unset, objVars
  <1>4. ErrorIsReset'
    <2>1. \A t \in Threads : \A e \in polled[t] : e.conn \in Conns
      BY DEF SInv, TypeOK
    <2>. QED
      BY <1>1, <1>2, <2>1 DEF SInv, ErrorIsReset, loopVars
  <1>5. StaysReachable'
    <2>. SUFFICES ASSUME NEW d \in Conns PROVE Reachable(d)'
      BY ReachableEachNext
    <2>1. Reachable(d)
      BY ReachableEach DEF SInv
    <2>2. peer[d] = "reset" => peer'[d] = "reset"
      BY <1>1
    <2>. QED
      BY <1>2, <2>1, <2>2 DEF Reachable, Open, WillBeAdded, objVars, loopVars
  <1>. QED
    BY <1>3, <1>4, <1>5

LEMMA OnAcceptKeeps ==
    ASSUME SInv, NEW c \in Conns, OnAccept(c)
    PROVE  Accepted' /\ Unset' /\ ErrorIsReset' /\ StaysReachable'
  <1>1. /\ peer \in [Conns -> {"away", "backlog", "connected", "fin", "reset"}]
        /\ thread \in [Conns -> 0 .. IoThreads] /\ mask \in [Conns -> SUBSET {"in", "out"}]
        /\ object \in [Conns -> {"none", "alive", "deleted"}]
        /\ tasks \in [Threads -> Seq(Tasks)]
    BY DEF SInv, TypeOK, Tasks
  <1>2. PICK u \in Threads : u = index'
    BY NextThreadType DEF OnAccept, SInv, TypeOK
  <1>3. /\ peer[c] = "backlog" /\ object[c] = "none" /\ state[c] = "NotConnected"
        /\ peer' = [peer EXCEPT ![c] = "connected"]
        /\ thread' = [thread EXCEPT ![c] = u]
        /\ object' = [object EXCEPT ![c] = "alive"]
        /\ mask' = [mask EXCEPT ![c] = @ \cup {"in"}]
        /\ tasks' = [tasks EXCEPT ![u] = Append(@, Task("add", c))]
        /\ current' = {c} /\ UNCHANGED <<state, watched, polled>>
    BY <1>2 DEF OnAccept, ListenFromMain, SInv, Accepted
  <1>4. Accepted'
    <2>. SUFFICES ASSUME NEW d \in Conns
                  PROVE  /\ peer'[d] \in {"away", "backlog"} =>
                               object'[d] = "none" /\ state'[d] = "NotConnected"
                         /\ object'[d] = "alive" => thread'[d] \in Threads
      BY DEF Accepted
    <2>1. CASE d = c
      BY <1>1, <1>3, <2>1
    <2>2. CASE d # c
      BY <1>1, <1>3, <2>2 DEF SInv, Accepted
    <2>. QED
      BY <2>1, <2>2
  <1>5. Unset'
    BY <1>1, <1>3 DEF Unset
  <1>6. ErrorIsReset'
    <2>1. \A d \in Conns : peer[d] = "reset" => peer'[d] = "reset"
      BY <1>1, <1>3
    <2>2. \A t \in Threads : \A e \in polled[t] : e.conn \in Conns
      BY DEF SInv, TypeOK
    <2>. QED
      BY <1>3, <2>1, <2>2 DEF SInv, ErrorIsReset
  <1>7. StaysReachable'
    <2>. SUFFICES ASSUME NEW d \in Conns PROVE Reachable(d)'
      BY ReachableEachNext
    <2>1. Task("add", c) \in Tasks
      BY TaskType
    <2>2. CASE d = c
      <3>1. thread'[d] = u /\ tasks'[u] = Append(tasks[u], Task("add", c)) /\ "in" \in mask'[d]
        BY <1>1, <1>3, <2>2
      <3>2. Task("add", c) \in ToSet(Append(tasks[u], Task("add", c)))
        BY <1>1, <2>1, AppendedIsIn
      <3>3. WillBeAdded(d)'
        BY <2>2, <3>1, <3>2 DEF WillBeAdded, Task
      <3>. QED
        BY <3>1, <3>3 DEF Reachable
    <2>3. CASE d # c
      <3>1. /\ thread'[d] = thread[d] /\ mask'[d] = mask[d] /\ object'[d] = object[d]
            /\ peer'[d] = peer[d] /\ state'[d] = state[d]
        BY <1>1, <1>3, <2>3
      <3>2. Reachable(d)
        BY ReachableEach DEF SInv
      <3>3. Open(d)' => Open(d)
        BY <3>1 DEF Open
      <3>4. ASSUME Open(d), WillBeAdded(d)
            PROVE  WillBeAdded(d)'
        <4>1. thread[d] \in Threads /\ Task("add", d) \in ToSet(tasks[thread[d]])
          BY <3>4 DEF SInv, Accepted, Open, WillBeAdded
        <4>2. CASE thread[d] = u
          <5>1. tasks'[u] = Append(tasks[u], Task("add", c)) /\ tasks[u] \in Seq(Tasks)
            BY <1>1, <1>3
          <5>2. Task("add", d) \in ToSet(tasks'[u])
            BY <2>1, <4>1, <4>2, <5>1, AppendedIsIn
          <5>. QED
            BY <3>1, <4>2, <5>2 DEF WillBeAdded, Task
        <4>3. CASE thread[d] # u
          <5>1. tasks'[thread[d]] = tasks[thread[d]]
            BY <1>1, <1>3, <4>1, <4>3
          <5>. QED
            BY <3>1, <4>1, <5>1 DEF WillBeAdded, Task
        <4>. QED
          BY <4>2, <4>3
      <3>. QED
        BY <1>3, <3>1, <3>2, <3>3, <3>4 DEF Reachable
    <2>. QED
      BY <2>2, <2>3
  <1>. QED
    BY <1>4, <1>5, <1>6, <1>7

LEMMA SetStateKeeps ==
    ASSUME SInv, NEW c \in Conns, SetState(c) \/ ClearClient(c)
    PROVE  Accepted' /\ Unset' /\ ErrorIsReset' /\ StaysReachable'
  <1>1. /\ UNCHANGED <<netVars, thread, loopVars>>
        /\ object \in [Conns -> {"none", "alive", "deleted"}]
        /\ state \in [Conns -> {"NotConnected", "Connected", "Closed"}]
    BY DEF SetState, ClearClient, SInv, TypeOK
  <1>2. ASSUME NEW d \in Conns
        PROVE  /\ peer[d] \in {"away", "backlog"} =>
                     object'[d] = object[d] /\ state'[d] = state[d]
               /\ object'[d] = "alive" => object[d] = "alive"
               /\ Open(d)' => Open(d)
    <2>1. CASE SetState(c)
      <3>1. /\ object' = object /\ state' = [state EXCEPT ![c] = "Connected"]
            /\ c \in current /\ state[c] = "NotConnected"
        BY <2>1 DEF SetState, SInv, Unset
      <3>2. peer[c] \notin {"away", "backlog"}
        BY <2>1 DEF SetState, SInv, Unset
      <3>. QED
        BY <1>1, <3>1, <3>2 DEF Open, netVars
    <2>2. CASE ClearClient(c)
      <3>1. /\ state' = state /\ object' = [object EXCEPT ![c] = "deleted"]
            /\ object[c] = "alive" /\ state[c] = "Closed"
        BY <2>2 DEF ClearClient
      <3>2. peer[c] \notin {"away", "backlog"}
        BY <3>1 DEF SInv, Accepted
      <3>. QED
        BY <1>1, <3>1, <3>2 DEF Open, netVars
    <2>. QED
      BY <2>1, <2>2
  <1>3. Accepted' /\ ErrorIsReset'
    BY <1>1, <1>2 DEF SInv, Accepted, ErrorIsReset, netVars, loopVars
  <1>4. Unset'
    BY DEF SetState, ClearClient, SInv, Unset, netVars
  <1>5. StaysReachable'
    <2>. SUFFICES ASSUME NEW d \in Conns PROVE Reachable(d)'
      BY ReachableEachNext
    <2>1. Reachable(d)
      BY ReachableEach DEF SInv
    <2>. QED
      BY <1>1, <1>2, <2>1 DEF Reachable, WillBeAdded, loopVars
  <1>. QED
    BY <1>3, <1>4, <1>5

LEMMA PollKeeps ==
    ASSUME SInv, NEW t \in Threads, Poll(t)
    PROVE  Accepted' /\ Unset' /\ ErrorIsReset' /\ StaysReachable'
  <1>1. UNCHANGED <<peer, current, object, state, thread, mask, watched, tasks>>
    BY DEF Poll, netVars, objVars
  <1>2. Accepted' /\ Unset'
    BY <1>1 DEF SInv, Accepted, Unset
  <1>3. StaysReachable'
    BY <1>1 DEF SInv, StaysReachable
  <1>4. ErrorIsReset'
    <2>. SUFFICES ASSUME NEW v \in Threads, NEW e \in polled'[v], "err" \in e.events
                  PROVE  peer[e.conn] = "reset"
      BY <1>1 DEF ErrorIsReset
    <2>1. CASE v = t
      <3>1. PICK ready \in SUBSET Conns :
              polled' = [polled EXCEPT ![t] = {[conn |-> c, events |-> Reported(c)] : c \in ready}]
        BY DEF Poll, SInv, TypeOK
      <3>2. polled'[t] = {[conn |-> c, events |-> Reported(c)] : c \in ready}
        BY <3>1 DEF SInv, TypeOK
      <3>3. PICK c \in Conns : e = [conn |-> c, events |-> Reported(c)]
        BY <2>1, <3>2
      <3>4. "err" \in Reported(c) /\ e.conn = c
        BY <3>3
      <3>. QED
        BY <3>4 DEF Reported
    <2>2. CASE v # t
      <3>1. polled'[v] = polled[v]
        BY <2>2 DEF Poll, SInv, TypeOK
      <3>. QED
        BY <3>1 DEF SInv, ErrorIsReset
    <2>. QED
      BY <2>1, <2>2
  <1>. QED
    BY <1>2, <1>3, <1>4

LEMMA DispatchKeeps ==
    ASSUME SInv, NEW t \in Threads, Dispatch(t)
    PROVE  Accepted' /\ Unset' /\ ErrorIsReset' /\ StaysReachable'
  <1>1. UNCHANGED <<peer, current, object, state, thread, mask>>
    BY DEF Dispatch, netVars, objVars
  <1>2. PICK e \in polled[t] :
          /\ polled' = [polled EXCEPT ![t] = @ \ {e}]
          /\ tasks' = [tasks EXCEPT ![t] = @ \o Handlers(e)]
          /\ watched' = IF "err" \in e.events THEN watched \ {e.conn} ELSE watched
    BY DEF Dispatch
  <1>3. /\ e.conn \in Conns /\ tasks \in [Threads -> Seq(Tasks)]
        /\ Handlers(e) \in Seq(Tasks)
    <2>1. e.conn \in Conns
      BY DEF SInv, TypeOK
    <2>. QED
      BY <2>1, HandlersType DEF SInv, TypeOK, Tasks
  <1>4. Accepted' /\ Unset'
    BY <1>1 DEF SInv, Accepted, Unset
  <1>5. ErrorIsReset'
    <2>1. \A v \in Threads : polled'[v] \subseteq polled[v]
      BY <1>2 DEF SInv, TypeOK
    <2>. QED
      BY <1>1, <2>1 DEF SInv, ErrorIsReset
  <1>6. StaysReachable'
    <2>. SUFFICES ASSUME NEW d \in Conns PROVE Reachable(d)'
      BY ReachableEachNext
    <2>1. Reachable(d)
      BY ReachableEach DEF SInv
    <2>2. Open(d)' <=> Open(d)
      BY <1>1 DEF Open
    <2>3. ASSUME Open(d), d \in watched
          PROVE  d \in watched'
      <3>1. "err" \in e.events => peer[e.conn] = "reset"
        BY DEF SInv, ErrorIsReset
      <3>2. peer[d] # "reset"
        BY <2>3 DEF Open
      <3>. QED
        BY <1>2, <2>3, <3>1, <3>2
    <2>4. ASSUME Open(d), WillBeAdded(d)
          PROVE  WillBeAdded(d)'
      <3>1. thread[d] \in Threads /\ Task("add", d) \in ToSet(tasks[thread[d]])
        BY <2>4 DEF SInv, Accepted, Open, WillBeAdded
      <3>2. Task("add", d) \in ToSet(tasks'[thread[d]])
        <4>1. CASE thread[d] = t
          <5>1. tasks'[t] = tasks[t] \o Handlers(e) /\ tasks[t] \in Seq(Tasks)
            BY <1>2, <1>3
          <5>. QED
            BY <1>3, <3>1, <4>1, <5>1, StaysInLonger
        <4>2. CASE thread[d] # t
          BY <1>2, <1>3, <3>1, <4>2
        <4>. QED
          BY <4>1, <4>2
      <3>. QED
        BY <1>1, <3>2 DEF WillBeAdded, Task
    <2>. QED
      BY <1>1, <2>1, <2>2, <2>3, <2>4 DEF Reachable
  <1>. QED
    BY <1>4, <1>5, <1>6

\* The task that starts is the only one that leaves the queues.
LEMMA StartsKeeps ==
    ASSUME SInv, NEW t \in Threads, NEW c \in Conns,
           NEW kind \in {"add", "onRead", "onWrite"}, Starts(t, kind, c),
           NEW d \in Conns, Open(d), WillBeAdded(d), kind # "add" \/ d # c,
           thread' = thread
    PROVE  WillBeAdded(d)'
  <1>1. /\ tasks \in [Threads -> Seq(Tasks)] /\ tasks[t] # <<>> /\ tasks[t] \in Seq(Tasks)
        /\ Head(tasks[t]) = Task(kind, c) /\ tasks' = [tasks EXCEPT ![t] = Tail(@)]
    BY DEF SInv, TypeOK, Tasks, Starts
  <1>2. thread[d] \in Threads /\ Task("add", d) \in ToSet(tasks[thread[d]])
    BY DEF SInv, Accepted, Open, WillBeAdded
  <1>3. Task("add", d) # Task(kind, c)
    BY DEF Task
  <1>4. CASE thread[d] = t
    <2>1. Task("add", d) \in ToSet(Tail(tasks[t]))
      BY <1>1, <1>2, <1>3, <1>4, StaysInTail
    <2>2. tasks'[t] = Tail(tasks[t])
      BY <1>1
    <2>. QED
      BY <1>4, <2>1, <2>2 DEF WillBeAdded, Task
  <1>5. CASE thread[d] # t
    <2>1. tasks'[thread[d]] = tasks[thread[d]]
      BY <1>1, <1>2, <1>5
    <2>. QED
      BY <1>2, <2>1 DEF WillBeAdded, Task
  <1>. QED
    BY <1>4, <1>5

\* What onRead, onWrite and a late reply may do to the registration.
LEMMA ReplyRegisters ==
    ASSUME TypeOK, NEW c \in Conns, NEW replies, Reply(c, replies), NEW d \in Conns
    PROVE  /\ "in" \in mask[d] => "in" \in mask'[d]
           /\ d \in watched => d \in watched'
  BY DEF TypeOK, Reply

\* clear() takes everything from its connection, which is closed then.
LEMMA ClearKeeps ==
    ASSUME SInv, NEW c \in Conns, Clear(c), state[c] = "Connected",
           peer[c] \in {"fin", "reset"}
    PROVE  /\ Accepted' /\ Unset'
           /\ ~Open(c)'
           /\ \A d \in Conns : d # c => /\ Open(d)' <=> Open(d)
                                        /\ mask'[d] = mask[d]
                                        /\ d \in watched <=> d \in watched'
  <1>1. /\ state' = [state EXCEPT ![c] = "Closed"] /\ mask' = [mask EXCEPT ![c] = {}]
        /\ watched' = watched \ {c} /\ UNCHANGED <<peer, current, object, thread>>
        /\ state \in [Conns -> {"NotConnected", "Connected", "Closed"}]
        /\ mask \in [Conns -> SUBSET {"in", "out"}] /\ current \subseteq Conns
    BY DEF Clear, SInv, TypeOK, netVars
  <1>2. Accepted' /\ Unset'
    BY <1>1 DEF SInv, Accepted, Unset
  <1>. QED
    BY <1>1, <1>2 DEF Open

LEMMA HandlerKeeps ==
    ASSUME SInv, NEW t \in Threads, NEW c \in Conns,
           \/ RunAdd(t, c) \/ RunDangling(t, c) \/ RunOnRead(t, c)
           \/ RunOnWrite(t, c) \/ RunOnWriteAgain(t, c)
    PROVE  Accepted' /\ Unset' /\ ErrorIsReset' /\ StaysReachable'
  <1>1. /\ polled' = polled /\ UNCHANGED <<peer, current, object, thread>>
        /\ mask \in [Conns -> SUBSET {"in", "out"}] /\ watched \subseteq Conns
    BY DEF RunAdd, RunDangling, RunOnRead, RunOnWrite, RunOnWriteAgain, Returns, Excute,
           Clear, Write, WriteForEver, netVars, objVars, SInv, TypeOK
  <1>2. ErrorIsReset'
    BY <1>1 DEF SInv, ErrorIsReset
  <1>3. ASSUME NEW d \in Conns PROVE Reachable(d)
    BY ReachableEach DEF SInv
  <1>4. CASE RunAdd(t, c)
    <2>1. /\ Starts(t, "add", c) /\ watched' = watched \cup {c}
          /\ UNCHANGED <<state, mask>>
      BY <1>4 DEF RunAdd, objVars
    <2>2. Accepted' /\ Unset'
      BY <1>1, <2>1 DEF SInv, Accepted, Unset
    <2>3. ASSUME NEW d \in Conns PROVE Reachable(d)'
      <3>1. Open(d)' <=> Open(d)
        BY <1>1, <2>1 DEF Open
      <3>2. Open(d) /\ WillBeAdded(d) /\ d # c => WillBeAdded(d)'
        BY <1>1, <2>1, StartsKeeps
      <3>. QED
        BY <1>3, <2>1, <3>1, <3>2 DEF Reachable
    <2>. QED
      BY <1>2, <2>2, <2>3, ReachableEachNext
  <1>5. CASE ~RunAdd(t, c)
    <2>1. Starts(t, "onRead", c) \/ Starts(t, "onWrite", c)
      BY <1>5 DEF RunDangling, RunOnRead, RunOnWrite, RunOnWriteAgain
    <2>2. ASSUME NEW d \in Conns, Open(d), WillBeAdded(d)
          PROVE  WillBeAdded(d)'
      BY <1>1, <2>1, <2>2, StartsKeeps
    <2>3. CASE /\ UNCHANGED state
               /\ \A d \in Conns : /\ "in" \in mask[d] => "in" \in mask'[d]
                                   /\ d \in watched => d \in watched'
      <3>1. Accepted' /\ Unset'
        BY <1>1, <2>3 DEF SInv, Accepted, Unset
      <3>2. ASSUME NEW d \in Conns PROVE Reachable(d)'
        <4>1. Open(d)' <=> Open(d)
          BY <1>1, <2>3 DEF Open
        <4>. QED
          BY <1>3, <2>2, <2>3, <4>1 DEF Reachable
      <3>. QED
        BY <1>2, <3>1, <3>2, ReachableEachNext
    <2>4. CASE Clear(c) /\ state[c] = "Connected" /\ peer[c] \in {"fin", "reset"}
      <3>1. /\ Accepted' /\ Unset' /\ ~Open(c)'
            /\ \A d \in Conns : d # c => /\ Open(d)' <=> Open(d)
                                         /\ mask'[d] = mask[d]
                                         /\ d \in watched <=> d \in watched'
        BY <2>4, ClearKeeps
      <3>2. ASSUME NEW d \in Conns PROVE Reachable(d)'
        <4>1. CASE d = c
          BY <3>1, <4>1 DEF Reachable
        <4>2. CASE d # c
          BY <1>3, <2>2, <3>1, <4>2 DEF Reachable
        <4>. QED
          BY <4>1, <4>2
      <3>. QED
        BY <1>2, <3>1, <3>2, ReachableEachNext
    <2>5. CASE Excute(c)
      <3>1. Reply(c, Answered(requests[c])) /\ UNCHANGED state
        BY <2>5 DEF Excute, objVars
      <3>2. \A d \in Conns : /\ "in" \in mask[d] => "in" \in mask'[d]
                             /\ d \in watched => d \in watched'
        BY <3>1, ReplyRegisters DEF SInv
      <3>. QED
        BY <2>3, <3>1, <3>2
    <2>6. CASE Write(c)
      <3>1. \A d \in Conns : /\ "in" \in mask[d] => "in" \in mask'[d]
                             /\ d \in watched => d \in watched'
        BY <1>1, <2>6 DEF Write
      <3>. QED
        BY <2>3, <2>6, <3>1 DEF Write, objVars
    <2>7. CASE UNCHANGED <<state, mask, watched>>
      BY <2>3, <2>7
    <2>. QED
      BY <1>5, <2>4, <2>5, <2>6, <2>7
         DEF RunDangling, RunOnRead, RunOnWrite, RunOnWriteAgain, Returns, WriteForEver, objVars
  <1>. QED
    BY <1>4, <1>5

LEMMA FinishKeeps ==
    ASSUME SInv, NEW c \in Conns, Finish(c)
    PROVE  Accepted' /\ Unset' /\ ErrorIsReset' /\ StaysReachable'
  <1>1. UNCHANGED <<peer, current, object, state, thread, polled, tasks>>
    BY DEF Finish, netVars, objVars
  <1>2. Accepted' /\ Unset' /\ ErrorIsReset'
    BY <1>1 DEF SInv, Accepted, Unset, ErrorIsReset
  <1>3. \A d \in Conns : /\ "in" \in mask[d] => "in" \in mask'[d]
                         /\ d \in watched => d \in watched'
    <2>1. (\E r : Reply(c, <<r>>)) \/ UNCHANGED <<mask, watched>>
      BY DEF Finish
    <2>. QED
      BY <2>1, ReplyRegisters DEF SInv
  <1>4. ASSUME NEW d \in Conns PROVE Reachable(d)'
    <2>1. Reachable(d)
      BY ReachableEach DEF SInv
    <2>. QED
      BY <1>1, <1>3, <2>1 DEF Reachable, Open, WillBeAdded
  <1>. QED
    BY <1>2, <1>4, ReachableEachNext

LEMMA NextSInv == SInv /\ [Next]_vars => SInv'
  <1>. SUFFICES ASSUME SInv, [Next]_vars PROVE SInv'
    OBVIOUS
  <1>1. TypeOK'
    BY NextType DEF SInv
  <1>2. ASSUME NEW c \in Conns, OnAccept(c) \/ SetState(c) \/ ClearClient(c)
        PROVE  SInv'
    BY <1>1, <1>2, OnAcceptKeeps, SetStateKeeps DEF SInv
  <1>3. ASSUME NEW t \in Threads, IoStep(t)
        PROVE  SInv'
    BY <1>1, <1>3, PollKeeps, DispatchKeeps, HandlerKeeps DEF IoStep, SInv
  <1>4. ASSUME NEW c \in Conns, Connect(c) \/ Request(c) \/ Leave(c) \/ Finish(c)
        PROVE  SInv'
    BY <1>1, <1>4, ClientKeeps, FinishKeeps DEF SInv
  <1>5. CASE UNCHANGED vars
    BY <1>1, <1>5 DEF vars, netVars, objVars, loopVars, SInv, Accepted, Unset, ErrorIsReset,
                      StaysReachable
  <1>. QED
    BY <1>2, <1>3, <1>4, <1>5 DEF Next, MainStep

\* A connection that is neither closed nor reset is listened to, and its
\* descriptor is watched, or a task of its loop will add it, however listenRead
\* from the main thread, setState, replies, cancelled write events and errors
\* interleave: no connection is left that nobody would ever read.
THEOREM ServerReachable == Spec => []StaysReachable
  <1>1. SInv => StaysReachable
    BY DEF SInv
  <1>. QED
    BY <1>1, InitSInv, NextSInv, PTL DEF Spec
=============================================================================
