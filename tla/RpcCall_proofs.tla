--------------------------- MODULE RpcCall_proofs ---------------------------
(***************************************************************************)
(* The client of a remote call, for any number of calls and descriptors:   *)
(* every variable keeps its type and every call has at most one outcome,   *)
(* however connecting, writing, answers, errors and the timer interleave.  *)
(*                                                                         *)
(* A callback works on the descriptor its client had when the callback was *)
(* registered, so the types alone are not inductive: HasSocket says that   *)
(* no callback is registered or queued for a client without a descriptor.  *)
(* OneOutcome needs to know besides that only a finished call is canceled. *)
(*                                                                         *)
(* OInv follows the sockets: a socket has one owner (OwnersOK), what the   *)
(* loop watches is registered by the owner (WatchedOK), what epoll_wait    *)
(* has returned, or a task has yet to connect, still has the descriptor it *)
(* was returned or queued for (PolledOK, ConnectOK).  OwnedSockets and     *)
(* WritableGoesToTheOwner follow from it.                                  *)
(***************************************************************************)
EXTENDS RpcCall, SequenceTheorems, FiniteSetTheorems, TLAPS

CallRecords ==
    [made : BOOLEAN, inside : BOOLEAN, held : BOOLEAN,
     timer : {"none", "armed", "due", "fired"},
     finished : BOOLEAN, canceled : BOOLEAN, code : Codes,
     parsed : BOOLEAN, seen : Seq(Codes)]
ConnRecords ==
    [fd : Fds \cup {NoFd}, event : Fds \cup {NoFd},
     state : {"NotConnected", "Connected", "Closed"},
     writeDone : BOOLEAN, readDone : BOOLEAN]
FdEvents == [mask : SUBSET {"in", "out"}, in : Handlers, out : Handlers]
Results == [fd : Fds \cup {NoFd}, events : SUBSET {"in", "out", "err"}]

\* The outcome of one call.
Outcome(r) ==
    /\ r.canceled => r.finished
    /\ Len(r.seen) = IF r.finished /\ ~r.canceled THEN 1 ELSE 0
    /\ r.seen = <<"none">> => r.parsed

\* A callback of a call whose client has a descriptor, or of no call.
HasSocket(h, conns) == h.call # 0 => conns[h.call].event \in Fds

LoopOK == fate \in {"running", "dangling", "killed"} /\ looping \in BOOLEAN
             /\ polled \subseteq Results
CallsOK == call \in [Calls -> CallRecords] /\ \A c \in Calls : Outcome(call[c])
ConnOK ==
    /\ conn \in [Calls -> ConnRecords]
    /\ \A c \in Calls : ~call[c].made => conn[c].event = NoFd
    /\ \A c \in Calls : conn[c].state = "Connected" => conn[c].event \in Fds
NetOK ==
    /\ sock \in [Fds -> {"free", "fresh", "connecting", "established", "fin",
                          "refused", "reset"}]
    /\ inbox \in [Fds -> Replies \cup {"none"}]
    /\ asked \subseteq Fds
ListOK == watched \subseteq listed /\ listed \subseteq Fds
EventsOK ==
    /\ fdEvent \in [Fds -> FdEvents]
    /\ \A f \in Fds : HasSocket(fdEvent[f].in, conn) /\ HasSocket(fdEvent[f].out, conn)
TasksOK ==
    /\ tasks \in Seq(Handlers)
    /\ \A i \in 1 .. Len(tasks) : HasSocket(tasks[i], conn)

\* The inductive invariant.
IInv == LoopOK /\ CallsOK /\ ConnOK /\ NetOK /\ ListOK /\ EventsOK /\ TasksOK

-----------------------------------------------------------------------------
\* The record of one call.

LEMMA CallBackOK ==
    ASSUME NEW r \in CallRecords, Outcome(r), r.code = "none" => r.parsed
    PROVE  CallBack(r) \in CallRecords /\ Outcome(CallBack(r))
  <1>. DEFINE s == Append(r.seen, r.code)
  <1>1. r.seen \in Seq(Codes) /\ r.code \in Codes /\ Len(r.seen) \in Nat
    BY DEF CallRecords
  <1>2. s \in Seq(Codes) /\ Len(s) = Len(r.seen) + 1 /\ s[Len(s)] = r.code
    BY <1>1, AppendProperties
  <1>3. CASE r.finished
    BY <1>3 DEF CallBack
  <1>4. CASE ~r.finished
    <2>. DEFINE q == [r EXCEPT !.seen = s, !.finished = TRUE]
    <2>1. CallBack(r) = q
      BY <1>4 DEF CallBack
    <2>2. q.seen = s /\ q.finished = TRUE /\ q.canceled = r.canceled /\ q.parsed = r.parsed
      BY DEF CallRecords
    <2>. HIDE DEF s
    <2>3. q \in CallRecords
      BY <1>2 DEF CallRecords
    <2>4. r.canceled = FALSE /\ Len(r.seen) = 0
      BY <1>4 DEF Outcome, CallRecords
    <2>5. s = <<"none">> => r.parsed
      <3>1. Len(s) = 1
        BY <1>2, <2>4
      <3>. QED
        BY <1>2, <3>1
    <2>6. Outcome(q)
      BY <1>2, <2>2, <2>4, <2>5 DEF Outcome
    <2>. QED
      BY <2>1, <2>3, <2>6
  <1>. QED
    BY <1>3, <1>4

\* An error is reported.
LEMMA ErrorOK ==
    ASSUME NEW r \in CallRecords, Outcome(r), NEW code \in Codes \ {"none"}
    PROVE  LET q == CallBack(SetError(r, code)) IN q \in CallRecords /\ Outcome(q)
  <1>. DEFINE q == [r EXCEPT !.code = code]
  <1>1. q \in CallRecords /\ Outcome(q) /\ q.code = code
    BY DEF CallRecords, Outcome
  <1>2. SetError(r, code) = q
    BY DEF SetError
  <1>. HIDE DEF q
  <1>. QED
    BY <1>1, <1>2, CallBackOK

LEMMA TimedOutOK ==
    ASSUME NEW r \in CallRecords, Outcome(r)
    PROVE  TimedOut(r) \in CallRecords /\ Outcome(TimedOut(r))
  <1>1. CASE r.finished
    BY <1>1 DEF TimedOut, CallRecords, Outcome
  <1>2. CASE ~r.finished
    <2>. DEFINE t == [r EXCEPT !.timer = "fired"]
                q == StartCancel(t)
                e == SetError(q, "timeout")
    <2>1. q \in CallRecords /\ q.finished = TRUE /\ q.canceled = TRUE /\ q.seen = r.seen
      BY DEF StartCancel, CallRecords
    <2>2. Len(r.seen) = 0 /\ r.seen \in Seq(Codes)
      BY <1>2 DEF Outcome, CallRecords
    <2>3. e \in CallRecords /\ e.finished = TRUE /\ e.canceled = TRUE /\ e.seen = r.seen
      BY <2>1 DEF SetError, CallRecords, Codes
    <2>4. TimedOut(r) = e
      BY <1>2, <2>3 DEF TimedOut, CallBack
    <2>5. Outcome(e)
      BY <2>2, <2>3 DEF Outcome
    <2>. QED
      BY <2>3, <2>4, <2>5
  <1>. QED
    BY <1>1, <1>2

LEMMA AnsweredOK ==
    ASSUME NEW r \in CallRecords, Outcome(r), NEW m \in {"response", "error", "garbage"}
    PROVE  Answered(r, m) \in CallRecords /\ Outcome(Answered(r, m))
  <1>. DEFINE p == [r EXCEPT !.parsed = TRUE]
  <1>1. p \in CallRecords /\ Outcome(p) /\ p.parsed = TRUE
    BY DEF CallRecords, Outcome
  <1>2. CASE m = "response"
    <2>1. Answered(r, m) = CallBack(p)
      BY <1>2 DEF Answered
    <2>. HIDE DEF p
    <2>. QED
      BY <1>1, <2>1, CallBackOK
  <1>3. CASE m = "garbage"
    <2>1. Answered(r, m) = CallBack(SetError(r, "serialize"))
      BY <1>3 DEF Answered
    <2>. QED
      BY <2>1, ErrorOK DEF Codes
  <1>4. CASE m = "error"
    <2>1. Answered(r, m) = CallBack(SetError(p, "peer"))
      BY <1>4 DEF Answered
    <2>. HIDE DEF p
    <2>. QED
      BY <1>1, <2>1, ErrorOK DEF Codes
  <1>. QED
    BY <1>2, <1>3, <1>4

\* The fields no outcome depends on.
LEMMA MadeOK ==
    ASSUME CallsOK, NEW c \in Calls, NEW b \in BOOLEAN
    PROVE  /\ Made(c) \in CallRecords /\ Outcome(Made(c))
           /\ Timed(c) \in CallRecords /\ Outcome(Timed(c))
           /\ [Timed(c) EXCEPT !.inside = b] \in CallRecords
           /\ Outcome([Timed(c) EXCEPT !.inside = b])
           /\ [Timed(c) EXCEPT !.inside = b].made
           /\ Made(c).made /\ Timed(c).made
  BY DEF CallsOK, CallRecords, Outcome, Made, Timed

\* Nothing that happens to a call makes it unmade.
LEMMA StaysMade ==
    ASSUME NEW r \in CallRecords, NEW code, NEW m \in {"response", "error", "garbage"}
    PROVE  /\ CallBack(r).made = r.made
           /\ CallBack(SetError(r, code)).made = r.made
           /\ TimedOut(r).made = r.made
           /\ Answered(r, m).made = r.made
  BY DEF CallRecords, CallBack, SetError, TimedOut, StartCancel, Answered

LEMMA SetCallOK ==
    ASSUME CallsOK, NEW c \in Calls, NEW r \in CallRecords, Outcome(r), SetCall(c, r)
    PROVE  CallsOK'
  BY DEF CallsOK, SetCall

-----------------------------------------------------------------------------
\* Clients, callbacks and descriptors.

\* No client loses its descriptor, and no call is unmade.
Kept == \A d \in Calls : conn[d].event \in Fds => conn'[d].event \in Fds
MadeKept == \A d \in Calls : call[d].made => call'[d].made

LEMMA HandlerFields ==
    /\ \A h \in Handlers : h.call \in Calls \cup {0}
    /\ \A k \in {"connect", "onWrite", "onRead"}, c \in Calls :
           Handler(k, c) \in Handlers /\ Handler(k, c).call = c /\ c # 0
    /\ NoHandler \in Handlers /\ NoHandler.call = 0
    /\ OnTimer \in Handlers /\ OnTimer.call = 0
  <1>1. \A k, c : Handler(k, c).call = c
    BY DEF Handler
  <1>2. \A c \in Calls : c # 0
    BY CallsAssumption DEF Calls
  <1>3. \A k \in {"connect", "onWrite", "onRead"}, c \in Calls : Handler(k, c) \in Handlers
    BY DEF Handlers
  <1>4. NoHandler \in Handlers /\ OnTimer \in Handlers /\ NoHandler.call = 0 /\ OnTimer.call = 0
    BY <1>1 DEF Handlers, NoHandler, OnTimer
  <1>5. \A h \in Handlers : h.call \in Calls \cup {0}
    BY <1>1, <1>4 DEF Handlers
  <1>. QED
    BY <1>1, <1>2, <1>3, <1>4, <1>5

LEMMA SocketKept ==
    ASSUME Kept, NEW h \in Handlers, HasSocket(h, conn)
    PROVE  HasSocket(h, conn')
  BY HandlerFields DEF Kept, HasSocket

LEMMA TasksKept ==
    ASSUME TasksOK, Kept, tasks' = tasks \/ (tasks # <<>> /\ tasks' = Tail(tasks))
    PROVE  TasksOK'
  <1>. \A i \in 1 .. Len(tasks) : tasks[i] \in Handlers
    BY ElementOfSeq DEF TasksOK
  <1>1. CASE tasks' = tasks
    BY <1>1, SocketKept DEF TasksOK
  <1>2. CASE tasks # <<>> /\ tasks' = Tail(tasks)
    <2>1. tasks' \in Seq(Handlers)
      BY <1>2, HeadTailProperties DEF TasksOK
    <2>2. \A i \in 1 .. Len(tasks') : tasks'[i] = tasks[i + 1] /\ i + 1 \in 1 .. Len(tasks)
      BY <1>2, HeadTailProperties DEF TasksOK
    <2>. QED
      BY <2>1, <2>2, SocketKept DEF TasksOK
  <1>. QED
    BY <1>1, <1>2

LEMMA EventsKept ==
    ASSUME EventsOK, Kept, UNCHANGED fdEvent
    PROVE  EventsOK'
  <1>1. \A f \in Fds : fdEvent[f].in \in Handlers /\ fdEvent[f].out \in Handlers
    BY DEF EventsOK, FdEvents
  <1>. QED
    BY <1>1, SocketKept DEF EventsOK

LEMMA EventsSet ==
    ASSUME EventsOK, Kept, NEW f \in Fds, NEW ev \in FdEvents, SetEvent(f, ev),
           HasSocket(ev.in, conn'), HasSocket(ev.out, conn')
    PROVE  EventsOK'
  <1>1. \A g \in Fds : fdEvent[g].in \in Handlers /\ fdEvent[g].out \in Handlers
    BY DEF EventsOK, FdEvents
  <1>2. fdEvent' \in [Fds -> FdEvents]
    BY DEF EventsOK, SetEvent
  <1>3. \A g \in Fds : HasSocket(fdEvent'[g].in, conn') /\ HasSocket(fdEvent'[g].out, conn')
    BY <1>1, SocketKept DEF EventsOK, SetEvent
  <1>. QED
    BY <1>2, <1>3 DEF EventsOK

LEMMA ListenFields ==
    ASSUME NEW ev \in FdEvents, NEW h \in Handlers, NEW kind \in {"in", "out"}
    PROVE  /\ Listen(ev, kind, h) \in FdEvents
           /\ Listen(ev, kind, h).in \in {ev.in, h}
           /\ Listen(ev, kind, h).out \in {ev.out, h}
           /\ Cancle(ev, kind) \in FdEvents
           /\ Cancle(ev, kind).in = ev.in
           /\ Cancle(ev, kind).out = ev.out
  BY DEF FdEvents, Listen, Cancle

\* Descriptor f is given to call c's handler h; some kinds may be canceled before.
LEMMA ListenOK ==
    ASSUME EventsOK, Kept, NEW f \in Fds, NEW ev \in FdEvents,
           ev.in = fdEvent[f].in, ev.out = fdEvent[f].out,
           NEW kind \in {"in", "out"}, NEW k \in {"connect", "onWrite", "onRead"},
           NEW c \in Calls, conn'[c].event \in Fds,
           SetEvent(f, Listen(ev, kind, Handler(k, c)))
    PROVE  EventsOK'
  <1>. DEFINE h == Handler(k, c)
              l == Listen(ev, kind, h)
  <1>1. h \in Handlers /\ HasSocket(h, conn')
    BY HandlerFields DEF HasSocket
  <1>2. fdEvent[f].in \in Handlers /\ fdEvent[f].out \in Handlers
    BY DEF EventsOK, FdEvents
  <1>3. HasSocket(ev.in, conn') /\ HasSocket(ev.out, conn')
    BY <1>2, SocketKept DEF EventsOK
  <1>. HIDE DEF h
  <1>4. l \in FdEvents /\ l.in \in {ev.in, h} /\ l.out \in {ev.out, h}
    BY <1>1, ListenFields
  <1>5. SetEvent(f, l)
    BY DEF h
  <1>. HIDE DEF l
  <1>6. HasSocket(l.in, conn') /\ HasSocket(l.out, conn')
    BY <1>1, <1>3, <1>4
  <1>. QED
    BY <1>4, <1>5, <1>6, EventsSet

LEMMA ConnKept ==
    ASSUME ConnOK, MadeKept, UNCHANGED conn, call' \in [Calls -> CallRecords]
    PROVE  ConnOK' /\ Kept
  BY DEF ConnOK, MadeKept, Kept, CallRecords

LEMMA ConnNew ==
    ASSUME ConnOK, MadeKept, NEW c \in Calls, ~call[c].made, call'[c].made,
           NEW f \in Fds \cup {NoFd}, conn' = [conn EXCEPT ![c].fd = f, ![c].event = f],
           call' \in [Calls -> CallRecords]
    PROVE  ConnOK' /\ Kept
  <1>1. conn' \in [Calls -> ConnRecords]
    <2>. DEFINE r == [conn[c] EXCEPT !.fd = f]
                s == [r EXCEPT !.event = f]
    <2>1. conn \in [Calls -> ConnRecords] /\ conn[c] \in ConnRecords
      BY DEF ConnOK
    <2>2. r \in ConnRecords /\ s \in ConnRecords
      BY <2>1 DEF ConnRecords
    <2>3. conn' = [conn EXCEPT ![c] = s]
      BY <2>1
    <2>. QED
      BY <2>1, <2>2, <2>3
  <1>2. \A d \in Calls : d # c => conn'[d] = conn[d]
    BY DEF ConnOK
  <1>3. conn[c].event = NoFd /\ NoFd \notin Fds /\ conn'[c].state = conn[c].state
    BY FdsAssumption DEF ConnOK, ConnRecords
  <1>4. \A d \in Calls : ~call'[d].made => conn'[d].event = NoFd
    BY <1>2, <1>3 DEF ConnOK, MadeKept, CallRecords
  <1>5. conn[c].state # "Connected" /\ conn'[c].state # "Connected"
    BY <1>3 DEF ConnOK
  <1>6. Kept
    BY <1>2, <1>3 DEF Kept
  <1>. QED
    BY <1>1, <1>2, <1>4, <1>5, <1>6 DEF ConnOK

LEMMA CloseOK ==
    ASSUME NetOK, ListOK, NEW fds, Close(fds), UNCHANGED listed
    PROVE  NetOK' /\ ListOK'
  BY DEF NetOK, ListOK, Close

LEMMA ListsOK ==
    ASSUME ListOK, NEW f \in Fds
    PROVE  /\ AddToEpoll(f) => ListOK'
           /\ DeleteFromEpoll(f) => ListOK'
  BY DEF ListOK, AddToEpoll, DeleteFromEpoll

\* A queued callback of a call finds its client with a descriptor.
LEMMA StartsOK ==
    ASSUME TasksOK, NEW c \in Calls, NEW k \in {"connect", "onWrite", "onRead"}, Starts(k, c)
    PROVE  conn[c].event \in Fds /\ tasks # <<>> /\ tasks' = Tail(tasks)
  <1>1. Len(tasks) \in Nat \ {0} /\ Head(tasks) = tasks[1]
    BY EmptySeq DEF TasksOK, Starts
  <1>2. HasSocket(Handler(k, c), conn)
    BY <1>1 DEF TasksOK, Starts
  <1>. QED
    BY <1>2, HandlerFields DEF HasSocket, Starts

LEMMA LoopKept ==
    ASSUME LoopOK, TasksOK, Kept, UNCHANGED <<fate, polled, tasks>>, looping' \in BOOLEAN
    PROVE  LoopOK' /\ TasksOK'
  <1>1. tasks' = tasks
    OBVIOUS
  <1>2. TasksOK'
    BY <1>1, TasksKept
  <1>. QED
    BY <1>2 DEF LoopOK

LEMMA EpollKept ==
    ASSUME EventsOK, ListOK, Kept, UNCHANGED epollVars
    PROVE  EventsOK' /\ ListOK'
  BY EventsKept DEF ListOK, epollVars

LEMMA SocketSet ==
    ASSUME NetOK, UNCHANGED <<inbox, asked>>, NEW f,
           NEW s \in {"free", "fresh", "connecting", "established", "fin", "refused", "reset"},
           sock' = [sock EXCEPT ![f] = s]
             \/ sock' = [g \in Fds |-> IF g = f THEN s ELSE sock[g]]
    PROVE  NetOK'
  BY DEF NetOK

-----------------------------------------------------------------------------
\* The steps.

LEMMA InitIInv == Init => IInv
  <1>. SUFFICES ASSUME Init PROVE IInv
    OBVIOUS
  <1>. USE DEF Init
  <1>1. LoopOK /\ NetOK /\ ListOK
    BY DEF LoopOK, NetOK, ListOK, Results
  <1>2. CallsOK
    <2>1. \A c \in Calls : call[c] \in CallRecords
      BY DEF CallRecords, Codes
    <2>2. \A c \in Calls : Outcome(call[c])
      BY DEF Outcome
    <2>. QED
      BY <2>1, <2>2 DEF CallsOK
  <1>3. ConnOK
    BY DEF ConnOK, ConnRecords
  <1>4. EventsOK /\ TasksOK
    BY HandlerFields DEF EventsOK, FdEvents, TasksOK, HasSocket
  <1>. QED
    BY <1>1, <1>2, <1>3, <1>4 DEF IInv

LEMMA CallMethodStep ==
    ASSUME IInv, NEW c \in Calls, CallMethod(c)
    PROVE  IInv'
  <1>. /\ LoopOK /\ CallsOK /\ ConnOK /\ NetOK /\ ListOK /\ EventsOK /\ TasksOK
       /\ ~call[c].made /\ call[c] \in CallRecords
    BY DEF IInv, CallsOK, CallMethod, Rejected, ConnectFails, ConnectBegins, ConnectAtOnce,
           Callable
  <1>1. ASSUME NEW r \in CallRecords, Outcome(r), r.made, SetCall(c, r)
        PROVE  CallsOK' /\ MadeKept /\ call'[c].made /\ call' \in [Calls -> CallRecords]
    <2>1. CallsOK'
      BY <1>1, SetCallOK
    <2>. QED
      BY <1>1, <2>1 DEF CallsOK, SetCall, MadeKept
  <1>2. CASE Rejected(c)
    <2>. DEFINE r == CallBack(SetError(Made(c), "rejected"))
    <2>1. r \in CallRecords /\ Outcome(r) /\ r.made
      BY MadeOK, ErrorOK, StaysMade DEF Codes
    <2>2. SetCall(c, r) /\ UNCHANGED <<fate, loopVars, inbox, asked, epollVars>>
      BY <1>2 DEF Rejected
    <2>. HIDE DEF r
    <2>3. CallsOK' /\ MadeKept /\ call'[c].made /\ call' \in [Calls -> CallRecords]
      BY <1>1, <2>1, <2>2
    <2>4. looping' \in BOOLEAN /\ UNCHANGED <<polled, tasks, fate, inbox, asked, epollVars>>
      BY <2>2 DEF LoopOK, loopVars
    <2>5. CASE UNCHANGED <<conn, sock>>
      <3>1. ConnOK' /\ Kept
        BY <2>3, <2>5, ConnKept
      <3>2. NetOK'
        BY <2>4, <2>5 DEF NetOK
      <3>. QED
        BY <2>3, <2>4, <3>1, <3>2, LoopKept, EpollKept DEF IInv
    <2>6. CASE \E f \in Fds : NewSocket(c, f) /\ sock' = [sock EXCEPT ![f] = "fresh"]
      <3>1. PICK f \in Fds : NewSocket(c, f) /\ sock' = [sock EXCEPT ![f] = "fresh"]
        BY <2>6
      <3>2. ConnOK' /\ Kept
        BY <2>3, <3>1, ConnNew DEF NewSocket
      <3>3. NetOK'
        BY <2>4, <3>1, SocketSet
      <3>. QED
        BY <2>3, <2>4, <3>2, <3>3, LoopKept, EpollKept DEF IInv
    <2>. QED
      BY <1>2, <2>5, <2>6 DEF Rejected
  <1>3. CASE ConnectFails(c)
    <2>. DEFINE r == CallBack(SetError(Timed(c), "connect"))
    <2>1. r \in CallRecords /\ Outcome(r) /\ r.made
      BY MadeOK, ErrorOK, StaysMade DEF Codes
    <2>2. SetCall(c, r) /\ UNCHANGED <<fate, loopVars, inbox, asked, epollVars>>
      BY <1>3 DEF ConnectFails
    <2>. HIDE DEF r
    <2>3. CallsOK' /\ MadeKept /\ call'[c].made /\ call' \in [Calls -> CallRecords]
      BY <1>1, <2>1, <2>2
    <2>4. PICK f \in Fds \cup {NoFd} :
             /\ NewSocket(c, f)
             /\ sock' = [g \in Fds |-> IF g = f THEN "fresh" ELSE sock[g]]
      BY <1>3 DEF ConnectFails
    <2>5. ConnOK' /\ Kept
      BY <2>3, <2>4, ConnNew DEF NewSocket
    <2>6. NetOK'
      BY <2>2, <2>4, SocketSet
    <2>7. looping' \in BOOLEAN /\ UNCHANGED <<polled, tasks, fate, epollVars>>
      BY <2>2 DEF LoopOK, loopVars
    <2>. QED
      BY <2>3, <2>5, <2>6, <2>7, LoopKept, EpollKept DEF IInv
  <1>4. CASE ConnectBegins(c)
    <2>. DEFINE r == [Timed(c) EXCEPT !.inside = ~looping]
    <2>1. r \in CallRecords /\ Outcome(r) /\ r.made
      <3>1. PICK b \in BOOLEAN : b = ~looping
        OBVIOUS
      <3>2. r = [Timed(c) EXCEPT !.inside = b]
        BY <3>1
      <3>. HIDE DEF r
      <3>. QED
        BY <3>2, MadeOK
    <2>2. SetCall(c, r) /\ looping' = TRUE /\ UNCHANGED <<fate, polled, tasks, inbox, asked>>
      BY <1>4 DEF ConnectBegins
    <2>. HIDE DEF r
    <2>3. CallsOK' /\ MadeKept /\ call'[c].made /\ call' \in [Calls -> CallRecords]
      BY <1>1, <2>1, <2>2
    <2>4. PICK f \in Fds :
             /\ NewSocket(c, f)
             /\ sock' = [sock EXCEPT ![f] = "connecting"]
             /\ SetEvent(f, Listen(fdEvent[f], "out", Handler("connect", c)))
             /\ AddToEpoll(f)
      BY <1>4 DEF ConnectBegins
    <2>5. ConnOK' /\ Kept /\ conn'[c].event = f
      <3>1. conn' = [conn EXCEPT ![c].fd = f, ![c].event = f]
        BY <2>4 DEF NewSocket
      <3>2. ConnOK' /\ Kept
        BY <2>3, <3>1, ConnNew
      <3>. QED
        BY <3>1, <3>2 DEF ConnOK, ConnRecords
    <2>6. EventsOK'
      <3>1. fdEvent[f] \in FdEvents
        BY DEF EventsOK
      <3>. QED
        BY <2>4, <2>5, <3>1, ListenOK
    <2>7. ListOK'
      BY <2>4, ListsOK
    <2>8. NetOK'
      BY <2>2, <2>4, SocketSet
    <2>. QED
      BY <2>2, <2>3, <2>5, <2>6, <2>7, <2>8, LoopKept DEF IInv
  <1>5. CASE ConnectAtOnce(c)
    <2>. DEFINE r == Timed(c)
    <2>1. r \in CallRecords /\ Outcome(r) /\ r.made
      BY MadeOK
    <2>2. SetCall(c, r) /\ UNCHANGED <<fate, loopVars, inbox, asked>>
      BY <1>5 DEF ConnectAtOnce
    <2>. HIDE DEF r
    <2>3. CallsOK' /\ MadeKept /\ call'[c].made /\ call' \in [Calls -> CallRecords]
      BY <1>1, <2>1, <2>2
    <2>4. PICK f \in Fds :
             /\ sock' = [sock EXCEPT ![f] = "established"]
             /\ conn' = [conn EXCEPT ![c] = [fd |-> f, event |-> f, state |-> "Connected",
                                            writeDone |-> TRUE, readDone |-> FALSE]]
             /\ SetEvent(f, Listen(fdEvent[f], "out", Handler("onWrite", c)))
             /\ AddToEpoll(f)
      BY <1>5 DEF ConnectAtOnce
    <2>5. ConnOK' /\ Kept /\ conn'[c].event = f
      BY <2>3, <2>4 DEF ConnOK, ConnRecords, MadeKept, CallRecords, Kept
    <2>6. EventsOK'
      <3>1. fdEvent[f] \in FdEvents
        BY DEF EventsOK
      <3>. QED
        BY <2>4, <2>5, <3>1, ListenOK
    <2>7. ListOK'
      BY <2>4, ListsOK
    <2>8. NetOK'
      BY <2>2, <2>4, SocketSet
    <2>9. looping' \in BOOLEAN /\ UNCHANGED <<polled, tasks, fate>>
      BY <2>2 DEF LoopOK, loopVars
    <2>. QED
      BY <2>3, <2>5, <2>6, <2>7, <2>8, <2>9, LoopKept DEF IInv
  <1>. QED
    BY <1>2, <1>3, <1>4, <1>5 DEF CallMethod

LEMMA ReleaseStep ==
    ASSUME IInv, NEW c \in Calls, Release(c)
    PROVE  IInv'
  <1>. /\ LoopOK /\ CallsOK /\ ConnOK /\ NetOK /\ ListOK /\ EventsOK /\ TasksOK
    BY DEF IInv
  <1>1. /\ call' = [call EXCEPT ![c].held = FALSE]
        /\ Close(ClosedWith(call'))
        /\ UNCHANGED <<fate, looping, polled, tasks, conn, fdEvent, listed>>
    BY DEF Release, loopVars
  <1>2. CallsOK' /\ MadeKept /\ call' \in [Calls -> CallRecords]
    <2>. DEFINE r == [call[c] EXCEPT !.held = FALSE]
    <2>1. r \in CallRecords /\ Outcome(r) /\ r.made = call[c].made
      BY DEF CallsOK, CallRecords, Outcome
    <2>2. call' = [call EXCEPT ![c] = r]
      BY <1>1 DEF CallsOK
    <2>. HIDE DEF r
    <2>. QED
      BY <2>1, <2>2 DEF CallsOK, MadeKept
  <1>3. ConnOK' /\ Kept
    BY <1>1, <1>2, ConnKept
  <1>4. NetOK' /\ ListOK'
    BY <1>1, CloseOK
  <1>5. looping' \in BOOLEAN
    BY <1>1 DEF LoopOK
  <1>. QED
    BY <1>1, <1>2, <1>3, <1>4, <1>5, LoopKept, EventsKept DEF IInv

LEMMA TimerExpiresStep ==
    ASSUME IInv, NEW c \in Calls, TimerExpires(c)
    PROVE  IInv'
  <1>. /\ LoopOK /\ CallsOK /\ ConnOK /\ NetOK /\ ListOK /\ EventsOK /\ TasksOK
    BY DEF IInv
  <1>1. /\ call' = [call EXCEPT ![c].timer = "due"]
        /\ UNCHANGED <<fate, looping, polled, tasks, conn, netVars, epollVars>>
    BY DEF TimerExpires, loopVars
  <1>2. CallsOK' /\ MadeKept /\ call' \in [Calls -> CallRecords]
    <2>. DEFINE r == [call[c] EXCEPT !.timer = "due"]
    <2>1. r \in CallRecords /\ Outcome(r) /\ r.made = call[c].made
      BY DEF CallsOK, CallRecords, Outcome
    <2>2. call' = [call EXCEPT ![c] = r]
      BY <1>1 DEF CallsOK
    <2>. HIDE DEF r
    <2>. QED
      BY <2>1, <2>2 DEF CallsOK, MadeKept
  <1>3. ConnOK' /\ Kept
    BY <1>1, <1>2, ConnKept
  <1>4. NetOK'
    BY <1>1 DEF NetOK, netVars
  <1>5. looping' \in BOOLEAN
    BY <1>1 DEF LoopOK
  <1>. QED
    BY <1>1, <1>2, <1>3, <1>4, <1>5, LoopKept, EpollKept DEF IInv

\* The timer's handler.
LEMMA RunTimerStep ==
    ASSUME IInv, RunTimer
    PROVE  IInv'
  <1>. /\ LoopOK /\ CallsOK /\ ConnOK /\ NetOK /\ ListOK /\ EventsOK /\ TasksOK
    BY DEF IInv
  <1>1. /\ call' = [c \in Calls |-> IF call[c].timer = "due" THEN TimedOut(call[c]) ELSE call[c]]
        /\ Close(ClosedWith(call'))
        /\ tasks # <<>> /\ tasks' = Tail(tasks)
        /\ UNCHANGED <<fate, looping, polled, conn, fdEvent, listed>>
    BY DEF RunTimer, Starts
  <1>2. CallsOK' /\ MadeKept /\ call' \in [Calls -> CallRecords]
    <2>. DEFINE R(c) == IF call[c].timer = "due" THEN TimedOut(call[c]) ELSE call[c]
    <2>1. \A c \in Calls : R(c) \in CallRecords /\ Outcome(R(c)) /\ R(c).made = call[c].made
      BY TimedOutOK, StaysMade DEF CallsOK
    <2>2. call' = [c \in Calls |-> R(c)]
      BY <1>1
    <2>. HIDE DEF R
    <2>. QED
      BY <2>1, <2>2 DEF CallsOK, MadeKept
  <1>3. ConnOK' /\ Kept
    BY <1>1, <1>2, ConnKept
  <1>4. NetOK' /\ ListOK'
    BY <1>1, CloseOK
  <1>5. TasksOK' /\ EventsOK'
    BY <1>1, <1>3, TasksKept, EventsKept
  <1>6. LoopOK'
    BY <1>1 DEF LoopOK
  <1>. QED
    BY <1>2, <1>3, <1>4, <1>5, <1>6 DEF IInv

\* epoll_wait.
LEMMA PollStep ==
    ASSUME IInv, Poll
    PROVE  IInv'
  <1>. /\ LoopOK /\ CallsOK /\ ConnOK /\ NetOK /\ ListOK /\ EventsOK /\ TasksOK
    BY DEF IInv
  <1>1. polled' = Ready /\ UNCHANGED <<fate, looping, tasks, call, conn, netVars, epollVars>>
    BY DEF Poll
  <1>2. Ready \subseteq Results
    <2>. DEFINE P(f) == [fd |-> f, events |-> Reported(f)]
                T == [fd |-> NoFd, events |-> {"in"}]
    <2>1. \A f \in Fds : P(f) \in Results
      <3>1. \A f \in Fds : Reported(f) \in SUBSET {"in", "out", "err"}
        BY DEF Reported, EventsOK, FdEvents
      <3>. QED
        BY <3>1 DEF Results
    <2>2. T \in Results
      BY DEF Results
    <2>3. Ready = {P(f) : f \in {g \in watched : Reported(g) # {}}} \cup {T : t \in {TRUE} \cap {TimerDue}}
      BY DEF Ready
    <2>4. watched \subseteq Fds
      BY DEF ListOK
    <2>. HIDE DEF P, T
    <2>. QED
      BY <2>1, <2>2, <2>3, <2>4
  <1>3. MadeKept /\ call' \in [Calls -> CallRecords] /\ CallsOK'
    BY <1>1 DEF MadeKept, CallsOK
  <1>4. ConnOK' /\ Kept
    BY <1>1, <1>3, ConnKept
  <1>5. LoopOK' /\ NetOK'
    BY <1>1, <1>2 DEF LoopOK, NetOK, netVars
  <1>6. TasksOK'
    <2>1. tasks' = tasks
      BY <1>1
    <2>. QED
      BY <1>4, <2>1, TasksKept
  <1>. QED
    BY <1>1, <1>3, <1>4, <1>5, <1>6, EpollKept DEF IInv

\* Queues of callbacks that find their sockets.
Fine(q) == q \in Seq(Handlers) /\ \A i \in 1 .. Len(q) : HasSocket(q[i], conn)

LEMMA FineOne ==
    /\ Fine(<<>>)
    /\ \A h \in Handlers : HasSocket(h, conn) => Fine(<<h>>) /\ Fine(Queued(h))
  BY DEF Fine, Queued

LEMMA FineConcat ==
    ASSUME NEW p, NEW q, Fine(p), Fine(q)
    PROVE  Fine(p \o q)
  <1>1. p \in Seq(Handlers) /\ q \in Seq(Handlers)
    BY DEF Fine
  <1>2. p \o q \in Seq(Handlers)
    BY <1>1, ConcatProperties
  <1>3. \A i \in 1 .. Len(p \o q) :
           \/ i \in 1 .. Len(p) /\ (p \o q)[i] = p[i]
           \/ i - Len(p) \in 1 .. Len(q) /\ (p \o q)[i] = q[i - Len(p)]
    BY <1>1, ConcatProperties
  <1>4. \A i \in 1 .. Len(p \o q) : HasSocket((p \o q)[i], conn)
    BY <1>3 DEF Fine
  <1>. QED
    BY <1>2, <1>4 DEF Fine

\* The loop queues the handlers of an epoll result.
LEMMA DispatchStep ==
    ASSUME IInv, Dispatch
    PROVE  IInv'
  <1>. /\ LoopOK /\ CallsOK /\ ConnOK /\ NetOK /\ ListOK /\ EventsOK /\ TasksOK
    BY DEF IInv
  <1>1. PICK e \in polled :
          /\ polled' = polled \ {e}
          /\ tasks' = tasks \o HandlersFor(e)
          /\ IF "err" \in e.events THEN DeleteFromEpoll(e.fd) ELSE UNCHANGED <<listed, watched>>
    BY DEF Dispatch
  <1>2. UNCHANGED <<fate, looping, call, conn, netVars, fdEvent>>
    BY DEF Dispatch
  <1>3. MadeKept /\ call' \in [Calls -> CallRecords] /\ CallsOK'
    BY <1>2 DEF MadeKept, CallsOK
  <1>4. ConnOK' /\ Kept
    BY <1>2, <1>3, ConnKept
  <1>5. LoopOK' /\ NetOK' /\ ListOK'
    BY <1>1, <1>2 DEF LoopOK, NetOK, netVars, ListOK, DeleteFromEpoll
  <1>6. EventsOK'
    BY <1>2, <1>4, EventsKept
  <1>7. TasksOK'
    <2>1. \A f \in Fds : Fine(Queued(fdEvent[f].in)) /\ Fine(Queued(fdEvent[f].out))
      BY FineOne DEF EventsOK, FdEvents
    <2>2. e.fd \in Fds \cup {NoFd}
      BY DEF LoopOK, Results
    <2>3. Fine(HandlersFor(e))
      <3>1. CASE e.fd = NoFd
        BY <3>1, FineOne, HandlerFields DEF HandlersFor, HasSocket
      <3>2. CASE e.fd # NoFd
        <4>1. Fine(IF "in" \in e.events THEN Queued(fdEvent[e.fd].in) ELSE <<>>)
          BY <2>1, <2>2, <3>2, FineOne
        <4>2. Fine(IF "out" \in e.events THEN Queued(fdEvent[e.fd].out) ELSE <<>>)
          BY <2>1, <2>2, <3>2, FineOne
        <4>. QED
          BY <3>2, <4>1, <4>2, FineConcat DEF HandlersFor
      <3>. QED
        BY <3>1, <3>2
    <2>4. Fine(tasks)
      BY DEF Fine, TasksOK
    <2>5. Fine(tasks')
      BY <1>1, <2>3, <2>4, FineConcat
    <2>. QED
      BY <1>2, <2>5 DEF Fine, TasksOK
  <1>. QED
    BY <1>3, <1>4, <1>5, <1>6, <1>7 DEF IInv

\* A handler of a call: what each has in common.
LEMMA HandlerKept ==
    ASSUME IInv, Kept, tasks # <<>>, tasks' = Tail(tasks), UNCHANGED <<looping, polled>>,
           fate' \in {fate, "killed"}
    PROVE  LoopOK' /\ TasksOK'
  <1>1. TasksOK'
    BY TasksKept DEF IInv
  <1>2. LoopOK'
    BY DEF IInv, LoopOK
  <1>. QED
    BY <1>1, <1>2

LEMMA RunConnectedStep ==
    ASSUME IInv, NEW c \in Calls, RunConnected(c)
    PROVE  IInv'
  <1>. /\ LoopOK /\ CallsOK /\ ConnOK /\ NetOK /\ ListOK /\ EventsOK /\ TasksOK
    BY DEF IInv
  <1>. DEFINE f == conn[c].event
  <1>1. f \in Fds /\ tasks # <<>> /\ tasks' = Tail(tasks)
    BY StartsOK DEF RunConnected
  <1>2. /\ conn' = [conn EXCEPT ![c].state = "Connected", ![c].writeDone = TRUE]
        /\ SetEvent(f, Listen(fdEvent[f], "out", Handler("onWrite", c)))
        /\ listed' = listed \cup {f} /\ watched' = watched \cup {f}
        /\ UNCHANGED <<fate, looping, polled, call, netVars>>
    BY DEF RunConnected
  <1>3. CallsOK'
    BY <1>2 DEF CallsOK
  <1>4. ConnOK' /\ Kept /\ conn'[c].event = f
    <2>. DEFINE q == [conn[c] EXCEPT !.state = "Connected"]
                r == [q EXCEPT !.writeDone = TRUE]
    <2>1. conn \in [Calls -> ConnRecords] /\ conn[c] \in ConnRecords
      BY DEF ConnOK
    <2>2. q \in ConnRecords /\ r \in ConnRecords /\ r.event = f
      BY <2>1 DEF ConnRecords
    <2>3. conn' = [conn EXCEPT ![c] = r]
      BY <1>2, <2>1
    <2>. HIDE DEF r
    <2>4. /\ conn' \in [Calls -> ConnRecords] /\ conn'[c] = r
          /\ \A d \in Calls : conn'[d].event = conn[d].event
          /\ \A d \in Calls : d # c => conn'[d] = conn[d]
      BY <2>1, <2>2, <2>3
    <2>. QED
      BY <1>1, <1>2, <2>2, <2>4 DEF ConnOK, Kept
  <1>5. EventsOK'
    <2>1. fdEvent[f] \in FdEvents
      BY <1>1 DEF EventsOK
    <2>. QED
      BY <1>1, <1>2, <1>4, <2>1, ListenOK
  <1>6. NetOK' /\ ListOK'
    BY <1>1, <1>2 DEF NetOK, ListOK, netVars
  <1>. QED
    BY <1>1, <1>2, <1>3, <1>4, <1>5, <1>6, HandlerKept DEF IInv

LEMMA RunConnectFailedStep ==
    ASSUME IInv, NEW c \in Calls, RunConnectFailed(c)
    PROVE  IInv'
  <1>. /\ LoopOK /\ CallsOK /\ ConnOK /\ NetOK /\ ListOK /\ EventsOK /\ TasksOK
    BY DEF IInv
  <1>. DEFINE f == conn[c].event
              r == CallBack(SetError(call[c], "connect"))
  <1>1. f \in Fds /\ tasks # <<>> /\ tasks' = Tail(tasks)
    BY StartsOK DEF RunConnectFailed
  <1>2. PICK g \in Fds :
           /\ conn' = [conn EXCEPT ![c].fd = g]
           /\ sock' = [sock EXCEPT ![f] = "free", ![g] = "fresh"]
    BY <1>1 DEF RunConnectFailed
  <1>3. /\ inbox' = [inbox EXCEPT ![f] = "none"] /\ asked' = asked \ {f}
        /\ listed' = listed \ {f} /\ watched' = watched \ {f}
        /\ SetCall(c, r)
        /\ UNCHANGED <<fate, looping, polled, fdEvent>>
    BY DEF RunConnectFailed
  <1>4. CallsOK' /\ MadeKept /\ call' \in [Calls -> CallRecords]
    <2>1. call[c] \in CallRecords /\ Outcome(call[c])
      BY DEF CallsOK
    <2>2. r \in CallRecords /\ Outcome(r) /\ r.made = call[c].made
      BY <2>1, ErrorOK, StaysMade DEF Codes
    <2>. HIDE DEF r
    <2>3. CallsOK'
      BY <1>3, <2>2, SetCallOK
    <2>. QED
      BY <1>3, <2>2, <2>3 DEF CallsOK, SetCall, MadeKept
  <1>5. ConnOK' /\ Kept
    <2>. DEFINE q == [conn[c] EXCEPT !.fd = g]
    <2>1. conn \in [Calls -> ConnRecords] /\ conn[c] \in ConnRecords
      BY DEF ConnOK
    <2>2. q \in ConnRecords /\ q.event = conn[c].event /\ q.state = conn[c].state
      BY <2>1 DEF ConnRecords
    <2>3. conn' = [conn EXCEPT ![c] = q]
      BY <1>2, <2>1
    <2>. HIDE DEF q
    <2>4. conn' \in [Calls -> ConnRecords]
           /\ \A d \in Calls : conn'[d].event = conn[d].event /\ conn'[d].state = conn[d].state
      BY <2>1, <2>2, <2>3
    <2>5. \A d \in Calls : ~call'[d].made => ~call[d].made
      BY <1>4 DEF MadeKept, CallsOK, CallRecords
    <2>. QED
      BY <2>4, <2>5 DEF ConnOK, Kept
  <1>6. NetOK' /\ ListOK'
    BY <1>1, <1>2, <1>3 DEF NetOK, ListOK
  <1>7. EventsOK'
    BY <1>3, <1>5, EventsKept
  <1>. QED
    BY <1>1, <1>3, <1>4, <1>5, <1>6, <1>7, HandlerKept DEF IInv

LEMMA RunOnWriteStep ==
    ASSUME IInv, NEW c \in Calls, RunOnWrite(c)
    PROVE  IInv'
  <1>. /\ LoopOK /\ CallsOK /\ ConnOK /\ NetOK /\ ListOK /\ EventsOK /\ TasksOK
    BY DEF IInv
  <1>. DEFINE f == conn[c].event
  <1>1. f \in Fds /\ tasks # <<>> /\ tasks' = Tail(tasks) /\ UNCHANGED <<looping, polled>>
    BY StartsOK DEF RunOnWrite
  <1>2. CASE UNCHANGED <<call, conn, netVars, epollVars>> /\ fate' \in {fate, "killed"}
    <2>1. Kept /\ CallsOK' /\ ConnOK'
      BY <1>2 DEF Kept, CallsOK, ConnOK
    <2>2. NetOK'
      BY <1>2 DEF NetOK, netVars
    <2>3. EventsOK' /\ ListOK'
      BY <1>2, <2>1, EpollKept
    <2>. QED
      BY <1>1, <1>2, <2>1, <2>2, <2>3, HandlerKept DEF IInv
  <1>3. CASE Write(c)
    <2>1. /\ asked' = asked \cup {f}
          /\ conn' = [conn EXCEPT ![c].writeDone = FALSE, ![c].readDone = TRUE]
          /\ SetEvent(f, Listen(Cancle(fdEvent[f], "out"), "in", Handler("onRead", c)))
          /\ AddToEpoll(f)
          /\ UNCHANGED <<fate, call, sock, inbox>>
      BY <1>3 DEF Write
    <2>2. ConnOK' /\ Kept /\ conn'[c].event = f
      <3>. DEFINE q == [conn[c] EXCEPT !.writeDone = FALSE]
                  r == [q EXCEPT !.readDone = TRUE]
      <3>1. conn \in [Calls -> ConnRecords] /\ conn[c] \in ConnRecords
        BY DEF ConnOK
      <3>2. q \in ConnRecords /\ r \in ConnRecords /\ r.event = f /\ r.state = conn[c].state
        BY <3>1 DEF ConnRecords
      <3>3. conn' = [conn EXCEPT ![c] = r]
        BY <2>1, <3>1
      <3>. HIDE DEF r
      <3>4. conn' \in [Calls -> ConnRecords]
             /\ \A d \in Calls : conn'[d].event = conn[d].event /\ conn'[d].state = conn[d].state
        BY <3>1, <3>2, <3>3
      <3>. QED
        BY <2>1, <3>4 DEF ConnOK, Kept
    <2>3. EventsOK'
      <3>. DEFINE ev == Cancle(fdEvent[f], "out")
      <3>1. fdEvent[f] \in FdEvents
        BY <1>1 DEF EventsOK
      <3>2. ev \in FdEvents /\ ev.in = fdEvent[f].in /\ ev.out = fdEvent[f].out
        BY <3>1, HandlerFields, ListenFields
      <3>3. SetEvent(f, Listen(ev, "in", Handler("onRead", c)))
        BY <2>1
      <3>. HIDE DEF ev
      <3>. QED
        BY <1>1, <2>2, <3>2, <3>3, ListenOK
    <2>4. ListOK'
      BY <1>1, <2>1, ListsOK
    <2>5. CallsOK' /\ NetOK'
      BY <1>1, <2>1 DEF CallsOK, NetOK
    <2>. QED
      BY <1>1, <2>1, <2>2, <2>3, <2>4, <2>5, HandlerKept DEF IInv
  <1>. QED
    BY <1>2, <1>3 DEF RunOnWrite, NothingToDo, WriteForEver

LEMMA RunOnReadStep ==
    ASSUME IInv, NEW c \in Calls, RunOnRead(c)
    PROVE  IInv'
  <1>. /\ LoopOK /\ CallsOK /\ ConnOK /\ NetOK /\ ListOK /\ EventsOK /\ TasksOK
    BY DEF IInv
  <1>. DEFINE f == conn[c].event
              m == inbox[f]
  <1>1. f \in Fds /\ tasks # <<>> /\ tasks' = Tail(tasks) /\ UNCHANGED <<looping, polled>>
    BY StartsOK DEF RunOnRead
  <1>2. conn \in [Calls -> ConnRecords] /\ conn[c] \in ConnRecords
    BY DEF ConnOK
  <1>3. CASE NothingToDo
    <2>1. Kept /\ CallsOK' /\ ConnOK'
      BY <1>3 DEF NothingToDo, Kept, CallsOK, ConnOK
    <2>2. NetOK'
      BY <1>3 DEF NothingToDo, NetOK, netVars
    <2>3. EventsOK' /\ ListOK' /\ fate' = fate
      BY <1>3, <2>1, EpollKept DEF NothingToDo
    <2>. QED
      BY <1>1, <2>1, <2>2, <2>3, HandlerKept DEF IInv
  <1>4. CASE m # "none" /\ Answer(c)
    <2>1. inbox' = [inbox EXCEPT ![f] = "none"] /\ UNCHANGED <<fate, sock, asked, epollVars>>
      BY <1>4 DEF Answer
    <2>2. NetOK'
      BY <1>1, <2>1 DEF NetOK
    <2>3. CallsOK' /\ ConnOK' /\ Kept
      <3>1. CASE UNCHANGED <<call, conn>>
        BY <3>1 DEF CallsOK, ConnOK, Kept
      <3>2. CASE /\ m # "stray"
                 /\ SetCall(c, Answered(call[c], m))
                 /\ conn' = [conn EXCEPT ![c].readDone = FALSE]
        <4>. DEFINE r == Answered(call[c], m)
                    q == [conn[c] EXCEPT !.readDone = FALSE]
        <4>1. m \in {"response", "error", "garbage"}
          BY <1>1, <1>4, <3>2 DEF NetOK, Replies
        <4>2. r \in CallRecords /\ Outcome(r) /\ r.made = call[c].made
          BY <4>1, AnsweredOK, StaysMade DEF CallsOK
        <4>. HIDE DEF r
        <4>3. CallsOK' /\ call' \in [Calls -> CallRecords]
               /\ \A d \in Calls : call'[d].made = call[d].made
          BY <3>2, <4>2, SetCallOK DEF CallsOK, SetCall, r
        <4>4. q \in ConnRecords /\ q.event = conn[c].event /\ q.state = conn[c].state
          BY <1>2 DEF ConnRecords
        <4>5. conn' = [conn EXCEPT ![c] = q]
          BY <1>2, <3>2
        <4>. HIDE DEF q
        <4>6. conn' \in [Calls -> ConnRecords]
               /\ \A d \in Calls : conn'[d].event = conn[d].event /\ conn'[d].state = conn[d].state
          BY <1>2, <4>4, <4>5
        <4>. QED
          BY <4>3, <4>6 DEF ConnOK, Kept
      <3>. QED
        BY <1>4, <3>1, <3>2 DEF Answer
    <2>. QED
      BY <1>1, <2>1, <2>2, <2>3, HandlerKept, EpollKept DEF IInv
  <1>5. CASE Clear(c)
    <2>. DEFINE ev == Cancle(Cancle(fdEvent[f], "in"), "out")
                q == [conn[c] EXCEPT !.state = "Closed"]
    <2>1. /\ conn' = [conn EXCEPT ![c].state = "Closed"]
          /\ SetEvent(f, ev) /\ DeleteFromEpoll(f)
          /\ UNCHANGED <<fate, call, netVars>>
      BY <1>5 DEF Clear
    <2>2. ConnOK' /\ Kept
      <3>1. q \in ConnRecords /\ q.event = conn[c].event /\ q.state = "Closed"
        BY <1>2 DEF ConnRecords
      <3>2. conn' = [conn EXCEPT ![c] = q]
        BY <1>2, <2>1
      <3>. HIDE DEF q
      <3>3. /\ conn' \in [Calls -> ConnRecords]
            /\ \A d \in Calls : conn'[d].event = conn[d].event
            /\ \A d \in Calls : conn'[d].state = "Connected" => conn[d].state = "Connected"
        BY <1>2, <3>1, <3>2
      <3>. QED
        BY <2>1, <3>3 DEF ConnOK, Kept
    <2>3. EventsOK'
      <3>1. fdEvent[f] \in FdEvents /\ fdEvent[f].in \in Handlers /\ fdEvent[f].out \in Handlers
        BY <1>1 DEF EventsOK, FdEvents
      <3>2. ev \in FdEvents /\ ev.in = fdEvent[f].in /\ ev.out = fdEvent[f].out
        BY <3>1, HandlerFields, ListenFields
      <3>. HIDE DEF ev
      <3>3. HasSocket(ev.in, conn') /\ HasSocket(ev.out, conn')
        BY <1>1, <2>2, <3>1, <3>2, SocketKept DEF EventsOK
      <3>. QED
        BY <1>1, <2>1, <2>2, <3>2, <3>3, EventsSet
    <2>4. ListOK'
      BY <1>1, <2>1, ListsOK
    <2>5. CallsOK' /\ NetOK'
      BY <2>1 DEF CallsOK, NetOK, netVars
    <2>. QED
      BY <1>1, <2>1, <2>2, <2>3, <2>4, <2>5, HandlerKept DEF IInv
  <1>. QED
    BY <1>3, <1>4, <1>5 DEF RunOnRead

LEMMA EnvironmentStep ==
    ASSUME IInv, NEW f \in Fds, Environment(f)
    PROVE  IInv'
  <1>. /\ LoopOK /\ CallsOK /\ ConnOK /\ NetOK /\ ListOK /\ EventsOK /\ TasksOK
    BY DEF IInv
  <1>. USE DEF loopVars, epollVars
  <1>1. UNCHANGED <<fate, looping, polled, tasks, call, conn, fdEvent, listed, watched>>
    BY DEF Environment, Connects, Refuses, PeerCloses, PeerResets, SocketBecomes, PeerAnswers
  <1>2. NetOK'
    <2>1. CASE PeerAnswers(f)
      BY <2>1 DEF PeerAnswers, NetOK
    <2>2. CASE Connects(f) \/ Refuses(f) \/ PeerCloses(f) \/ PeerResets(f)
      BY <2>2 DEF Connects, Refuses, PeerCloses, PeerResets, SocketBecomes, NetOK
    <2>. QED
      BY <2>1, <2>2 DEF Environment
  <1>. QED
    BY <1>1, <1>2 DEF IInv, LoopOK, CallsOK, ConnOK, ListOK, EventsOK, TasksOK, HasSocket

LEMMA NextIInv == IInv /\ [Next]_vars => IInv'
  <1>. SUFFICES ASSUME IInv, [Next]_vars
                PROVE  IInv'
    OBVIOUS
  <1>1. ASSUME NEW c \in Calls, CallMethod(c) \/ Release(c) \/ TimerExpires(c)
        PROVE  IInv'
    BY <1>1, CallMethodStep, ReleaseStep, TimerExpiresStep
  <1>2. CASE LoopStep
    <2>1. CASE RunDangling
      BY <2>1 DEF RunDangling, IInv, LoopOK, CallsOK, ConnOK, NetOK, ListOK, EventsOK, TasksOK,
                  HasSocket, loopVars, netVars, epollVars
    <2>2. ASSUME NEW c \in Calls, RunHandler(c)
          PROVE  IInv'
      BY <2>2, RunConnectedStep, RunConnectFailedStep, RunOnWriteStep, RunOnReadStep
         DEF RunHandler
    <2>. QED
      BY <1>2, <2>1, <2>2, PollStep, DispatchStep, RunTimerStep DEF LoopStep
  <1>3. ASSUME NEW f \in Fds, Environment(f)
        PROVE  IInv'
    BY <1>3, EnvironmentStep
  <1>4. CASE UNCHANGED vars
    BY <1>4 DEF vars, IInv, LoopOK, CallsOK, ConnOK, NetOK, ListOK, EventsOK, TasksOK,
                HasSocket, loopVars, netVars, epollVars
  <1>. QED
    BY <1>1, <1>2, <1>3, <1>4 DEF Next

LEMMA Invariance == Spec => []IInv
  BY InitIInv, NextIInv, PTL DEF Spec

-----------------------------------------------------------------------------
(***************************************************************************)
(* Who has which socket.  The descriptor of a call whose connecting failed *)
(* (`fd') is not the one its callbacks work on (`event'), and an FdEvent   *)
(* keeps the callbacks of calls that are over; what holds is that a        *)
(* watched descriptor belongs to a call that has it as both, and that a    *)
(* call has one `connect' callback at most on its way.                     *)
(***************************************************************************)

Owns(c, f) == call[c].made /\ Alive(call[c]) /\ conn[c].fd = f
Connecting(c) == conn[c].state = "NotConnected"

\* An open socket has one owner, a free descriptor none.
OwnersOK ==
    /\ \A c \in Calls : ~call[c].made => conn[c].fd = NoFd /\ call[c].held
    /\ \A f \in Fds : sock[f] # "free" => \E c \in Calls : Owns(c, f)
    /\ \A f \in Fds : \A c \in Calls : Owns(c, f) => sock[f] # "free"
    /\ \A f \in Fds : \A c, d \in Calls : Owns(c, f) /\ Owns(d, f) => c = d

\* f tells the owner of its socket that it is writable.
Registered(f, c) ==
    /\ Owns(c, f) /\ conn[c].event = f
    /\ "out" \in fdEvent[f].mask => fdEvent[f].out.call = c

WatchedOK == \A f \in watched : \E c \in Calls : Registered(f, c)

\* Each descriptor is reported once, and if it is writable, its socket is still
\* the one the callback was registered for.
PolledOK ==
    /\ \A e \in polled : e.fd # NoFd /\ "out" \in e.events =>
          LET c == fdEvent[e.fd].out.call IN
          c # 0 /\ conn[c].event = e.fd /\ conn[c].fd = e.fd
    /\ \A d, e \in polled : d.fd = e.fd => d = e
    /\ \A e \in polled : \A i \in 1 .. Len(tasks) :
          tasks[i].kind = "connect" => conn[tasks[i].call].event # e.fd

\* A client that was connected, or is about to be, has its first descriptor.
ConnectOK ==
    /\ \A c \in Calls : ~call[c].made => Connecting(c)
    /\ \A c \in Calls : ~Connecting(c) => conn[c].fd = conn[c].event
    /\ \A f \in Fds :
          /\ fdEvent[f].in.kind # "connect"
          /\ fdEvent[f].out.kind = "connect" =>
                LET c == fdEvent[f].out.call IN conn[c].event = f /\ Connecting(c)
    /\ \A i \in 1 .. Len(tasks) : tasks[i].kind = "connect" =>
          LET c == tasks[i].call IN
          /\ Connecting(c) /\ conn[c].fd = conn[c].event
          /\ \A j \in 1 .. Len(tasks) :
                tasks[j].kind = "connect" /\ tasks[j].call = c => i = j

\* The inductive invariant of the sockets, on top of IInv.
OInv == OwnersOK /\ WatchedOK /\ PolledOK /\ ConnectOK

-----------------------------------------------------------------------------
\* What no step but a few changes.

SameOwner(c) ==
    /\ call'[c].made <=> call[c].made
    /\ Alive(call'[c]) <=> Alive(call[c])
    /\ conn'[c].fd = conn[c].fd
    /\ ~call[c].made => call'[c].held = call[c].held

SameClient(c) == conn'[c].event = conn[c].event /\ conn'[c].state = conn[c].state

LEMMA RecordKept ==
    ASSUME NEW r \in CallRecords, NEW code, NEW m \in {"response", "error", "garbage"}
    PROVE  /\ CallBack(r).held = r.held /\ CallBack(r).timer = r.timer
           /\ CallBack(SetError(r, code)).held = r.held
           /\ CallBack(SetError(r, code)).timer = r.timer
           /\ Answered(r, m).held = r.held /\ Answered(r, m).timer = r.timer
           /\ TimedOut(r).held = r.held /\ TimedOut(r).timer = "fired"
  BY DEF CallRecords, CallBack, SetError, TimedOut, StartCancel, Answered

LEMMA HandlerKinds ==
    /\ \A h \in Handlers : h.kind = "connect" => h.call \in Calls
    /\ \A k, c : Handler(k, c).kind = k /\ Handler(k, c).call = c
    /\ OnTimer.kind = "timer" /\ NoHandler.kind = "none"
  <1>1. \A k, c : Handler(k, c).kind = k /\ Handler(k, c).call = c
    BY DEF Handler
  <1>2. OnTimer.kind = "timer" /\ NoHandler.kind = "none"
    BY <1>1 DEF OnTimer, NoHandler
  <1>3. \A h \in Handlers : h.kind = "connect" => h.call \in Calls
    BY <1>1, <1>2 DEF Handlers
  <1>. QED
    BY <1>1, <1>2, <1>3

LEMMA OwnersKept ==
    ASSUME OwnersOK, \A c \in Calls : SameOwner(c),
           \A f \in Fds : sock'[f] = "free" <=> sock[f] = "free"
    PROVE  /\ OwnersOK'
           /\ \A c \in Calls : \A f : Owns(c, f)' <=> Owns(c, f)
  <1>1. \A c \in Calls : \A f : Owns(c, f)' <=> Owns(c, f)
    BY DEF Owns, SameOwner
  <1>2. \A c \in Calls : ~call'[c].made => conn'[c].fd = NoFd /\ call'[c].held
    BY DEF OwnersOK, SameOwner
  <1>. QED
    BY <1>1, <1>2 DEF OwnersOK

\* The call that is being made gets a new socket, or none.
LEMMA OwnersNew ==
    ASSUME OwnersOK, NEW c \in Calls, ~call[c].made, call'[c].made, Alive(call'[c]),
           \A d \in Calls \ {c} : SameOwner(d),
           NEW f \in Fds \cup {NoFd}, conn'[c].fd = f,
           f \in Fds => sock[f] = "free" /\ sock'[f] # "free",
           \A g \in Fds \ {f} : sock'[g] = sock[g]
    PROVE  /\ OwnersOK' /\ Owns(c, f)'
           /\ \A d \in Calls : \A g : Owns(d, g) => d # c /\ Owns(d, g)'
  <1>1. \A d \in Calls \ {c} : \A g : Owns(d, g)' <=> Owns(d, g)
    BY DEF Owns, SameOwner
  <1>2. Owns(c, f)' /\ \A g : Owns(c, g)' => g = f
    BY DEF Owns
  <1>3. \A g : ~Owns(c, g)
    BY DEF Owns
  <1>4. \A d \in Calls : ~call'[d].made => conn'[d].fd = NoFd /\ call'[d].held
    BY DEF OwnersOK, SameOwner
  <1>5. \A g \in Fds : sock'[g] # "free" => \E d \in Calls : Owns(d, g)'
    <2>. SUFFICES ASSUME NEW g \in Fds, sock'[g] # "free"
                  PROVE  \E d \in Calls : Owns(d, g)'
      OBVIOUS
    <2>1. CASE g = f
      BY <1>2, <2>1
    <2>2. CASE g # f
      <3>1. PICK d \in Calls : Owns(d, g)
        BY <2>2 DEF OwnersOK
      <3>. QED
        BY <1>1, <1>3, <3>1
    <2>. QED
      BY <2>1, <2>2
  <1>6. \A g \in Fds : \A d \in Calls : Owns(d, g)' => sock'[g] # "free"
    BY <1>1, <1>2 DEF OwnersOK
  <1>7. \A g \in Fds : \A d, e \in Calls : Owns(d, g)' /\ Owns(e, g)' => d = e
    BY <1>1, <1>2 DEF OwnersOK
  <1>. QED
    BY <1>1, <1>2, <1>3, <1>4, <1>5, <1>6, <1>7 DEF OwnersOK

\* Calls that nothing holds any more close their descriptors.
LEMMA OwnersClosed ==
    ASSUME IInv, OwnersOK, UNCHANGED conn, Close(ClosedWith(call')),
           \A c \in Calls : /\ call'[c].made <=> call[c].made
                            /\ Alive(call'[c]) => Alive(call[c])
                            /\ ~call[c].made => call'[c].held = call[c].held
    PROVE  /\ OwnersOK'
           /\ \A c \in Calls : \A f \in Fds \ ClosedWith(call') :
                 Owns(c, f) => Owns(c, f)'
  <1>. DEFINE closed == ClosedWith(call')
  <1>1. \A f \in Fds : sock'[f] = IF f \in closed THEN "free" ELSE sock[f]
    BY DEF Close
  <1>2. \A f \in Fds : f \in closed <=>
           \E d \in Calls : Alive(call[d]) /\ ~Alive(call'[d]) /\ conn[d].fd = f
    BY FdsAssumption DEF ClosedWith
  <1>. HIDE DEF closed
  <1>3. \A c \in Calls : ~call[c].made => conn[c].fd = NoFd /\ Alive(call'[c])
    BY DEF OwnersOK, Alive
  <1>4. \A c \in Calls : \A f \in Fds : Owns(c, f)' <=> Owns(c, f) /\ Alive(call'[c])
    BY DEF Owns
  <1>5. \A f \in Fds : f \in closed <=> \E d \in Calls : Owns(d, f) /\ ~Alive(call'[d])
    BY <1>2, <1>3 DEF Owns
  <1>6. \A c \in Calls : \A f \in Fds : Owns(c, f) => (Owns(c, f)' <=> f \notin closed)
    BY <1>4, <1>5 DEF OwnersOK
  <1>7. \A c \in Calls : ~call'[c].made => conn'[c].fd = NoFd /\ call'[c].held
    BY DEF OwnersOK
  <1>8. \A f \in Fds : sock'[f] # "free" => \E c \in Calls : Owns(c, f)'
    BY <1>1, <1>6 DEF OwnersOK
  <1>9. \A f \in Fds : \A c \in Calls : Owns(c, f)' => sock'[f] # "free"
    BY <1>1, <1>4, <1>6 DEF OwnersOK
  <1>10. \A f \in Fds : \A c, d \in Calls : Owns(c, f)' /\ Owns(d, f)' => c = d
    BY <1>4 DEF OwnersOK
  <1>. QED
    BY <1>6, <1>7, <1>8, <1>9, <1>10 DEF OwnersOK, closed

\* Descriptors that stay watched, and their FdEvents, stay with their owners.
LEMMA WatchedKept ==
    ASSUME WatchedOK, ListOK, NEW f \in watched, fdEvent'[f] = fdEvent[f],
           \A c \in Calls : Owns(c, f) => Owns(c, f)' /\ conn'[c].event = conn[c].event
    PROVE  \E c \in Calls : Registered(f, c)'
  <1>1. PICK c \in Calls : Registered(f, c)
    BY DEF WatchedOK
  <1>2. Registered(f, c)'
    BY <1>1 DEF Registered
  <1>. QED
    BY <1>2

\* No client connects, loses a descriptor or gets a `connect' callback.
LEMMA ConnectKept ==
    ASSUME IInv, ConnectOK, UNCHANGED fdEvent,
           \A c \in Calls : SameClient(c) /\ conn'[c].fd = conn[c].fd,
           \A c \in Calls : call[c].made => call'[c].made,
           tasks' = tasks \/ (tasks # <<>> /\ tasks' = Tail(tasks))
    PROVE  ConnectOK'
  <1>1. /\ \A c \in Calls : conn'[c].state = conn[c].state
        /\ \A c \in Calls : conn'[c].event = conn[c].event /\ conn'[c].fd = conn[c].fd
    BY DEF SameClient
  <1>2. \A f \in Fds : fdEvent[f].out \in Handlers
    BY DEF IInv, EventsOK, FdEvents
  <1>3. tasks \in Seq(Handlers) /\ \A i \in 1 .. Len(tasks) : tasks[i] \in Handlers
    BY ElementOfSeq DEF IInv, TasksOK
  <1>4. /\ \A c \in Calls : ~call'[c].made => conn'[c].state = "NotConnected"
        /\ \A c \in Calls : ~conn'[c].state = "NotConnected" => conn'[c].fd = conn'[c].event
    BY <1>1 DEF ConnectOK, Connecting
  <1>5. \A f \in Fds :
          /\ fdEvent'[f].in.kind # "connect"
          /\ fdEvent'[f].out.kind = "connect" =>
                LET c == fdEvent'[f].out.call IN conn'[c].event = f /\ conn'[c].state = "NotConnected"
    BY <1>1, <1>2, HandlerKinds DEF ConnectOK, Connecting
  <1>6. \A i \in 1 .. Len(tasks) : tasks[i].kind = "connect" =>
          LET c == tasks[i].call IN
          /\ conn'[c].state = "NotConnected" /\ conn'[c].fd = conn'[c].event
          /\ \A j \in 1 .. Len(tasks) :
                tasks[j].kind = "connect" /\ tasks[j].call = c => i = j
    BY <1>1, <1>3, HandlerKinds DEF ConnectOK, Connecting
  <1>7. CASE tasks' = tasks
    BY <1>4, <1>5, <1>6, <1>7 DEF ConnectOK, Connecting
  <1>8. CASE tasks # <<>> /\ tasks' = Tail(tasks)
    <2>1. /\ Len(tasks) \in Nat /\ Len(tasks') = Len(tasks) - 1
          /\ \A i \in 1 .. Len(tasks') : tasks'[i] = tasks[i + 1] /\ i + 1 \in 1 .. Len(tasks)
          /\ \A i, j \in 1 .. Len(tasks') : i + 1 = j + 1 => i = j
      BY <1>3, <1>8, HeadTailProperties
    <2>2. \A i \in 1 .. Len(tasks') : tasks'[i].kind = "connect" =>
            LET c == tasks'[i].call IN
            /\ conn'[c].state = "NotConnected" /\ conn'[c].fd = conn'[c].event
            /\ \A j \in 1 .. Len(tasks') :
                  tasks'[j].kind = "connect" /\ tasks'[j].call = c => i = j
      <3>. SUFFICES ASSUME NEW i \in 1 .. Len(tasks'), tasks'[i].kind = "connect"
                    PROVE  LET c == tasks'[i].call IN
                           /\ conn'[c].state = "NotConnected" /\ conn'[c].fd = conn'[c].event
                           /\ \A j \in 1 .. Len(tasks') :
                                 tasks'[j].kind = "connect" /\ tasks'[j].call = c => i = j
        OBVIOUS
      <3>1. i + 1 \in 1 .. Len(tasks) /\ tasks[i + 1] = tasks'[i]
        BY <2>1
      <3>. DEFINE c == tasks'[i].call
      <3>2. /\ conn'[c].state = "NotConnected" /\ conn'[c].fd = conn'[c].event
            /\ \A j \in 1 .. Len(tasks) :
                  tasks[j].kind = "connect" /\ tasks[j].call = c => i + 1 = j
        BY <1>6, <3>1
      <3>. QED
        BY <2>1, <3>2
    <2>. QED
      BY <1>4, <1>5, <2>2 DEF ConnectOK, Connecting
  <1>. QED
    BY <1>7, <1>8

\* Nothing is polled while handlers run.
LEMMA NothingPolled == polled' = {} => PolledOK'
  BY DEF PolledOK

-----------------------------------------------------------------------------
\* The steps again.

LEMMA InitOInv == Init => OInv
  <1>. SUFFICES ASSUME Init PROVE OInv
    OBVIOUS
  <1>. USE DEF Init
  <1>1. OwnersOK
    BY FdsAssumption DEF OwnersOK, Owns
  <1>2. WatchedOK /\ PolledOK
    BY DEF WatchedOK, PolledOK
  <1>3. ConnectOK
    BY HandlerKinds DEF ConnectOK, Connecting
  <1>. QED
    BY <1>1, <1>2, <1>3 DEF OInv

\* What CallMethod does to calls and clients: the new call is alive, and its
\* client, if one is made, has a new socket.
Opens(c, f) ==
    /\ f \in Fds => sock[f] = "free" /\ sock'[f] # "free"
    /\ \A g \in Fds \ {f} : sock'[g] = sock[g]
    /\ conn'[c].fd = f /\ conn'[c].event = f

NewCall(c) ==
    /\ ~call[c].made /\ call'[c].made /\ Alive(call'[c]) /\ call'[c].held
    /\ \A d \in Calls \ {c} : call'[d] = call[d] /\ conn'[d] = conn[d]
    /\ polled = {} /\ UNCHANGED <<polled, tasks>>

\* Nothing is registered for the call, or one callback.
Unregistered(c) == UNCHANGED epollVars /\ conn'[c].state = conn[c].state

Registers(c, f) ==
    /\ f \in Fds /\ AddToEpoll(f)
    /\ \/ SetEvent(f, Listen(fdEvent[f], "out", Handler("onWrite", c)))
       \/ /\ SetEvent(f, Listen(fdEvent[f], "out", Handler("connect", c)))
          /\ conn'[c].state = conn[c].state

LEMMA CallMethodEffect ==
    ASSUME IInv, OwnersOK, NEW c \in Calls, CallMethod(c)
    PROVE  /\ NewCall(c)
           /\ \E f \in Fds \cup {NoFd} :
                 Opens(c, f) /\ (Unregistered(c) \/ Registers(c, f))
  <1>1. /\ call \in [Calls -> CallRecords] /\ conn \in [Calls -> ConnRecords]
        /\ call[c] \in CallRecords /\ conn[c] \in ConnRecords
    BY DEF IInv, CallsOK, ConnOK
  <1>2. ~call[c].made /\ polled = {}
    BY DEF CallMethod, Rejected, ConnectFails, ConnectBegins, ConnectAtOnce, Callable, Between
  <1>3. call[c].held /\ conn[c].fd = NoFd /\ conn[c].event = NoFd /\ NoFd \notin Fds
    BY <1>1, <1>2, FdsAssumption DEF OwnersOK, IInv, ConnOK
  <1>4. /\ Made(c) \in CallRecords /\ Made(c).made /\ Made(c).held
        /\ Timed(c) \in CallRecords /\ Timed(c).made /\ Timed(c).held
        /\ \A b \in BOOLEAN : LET r == [Timed(c) EXCEPT !.inside = b] IN r.made /\ r.held
    BY <1>1, <1>3 DEF Made, Timed, CallRecords
  <1>5. ASSUME NEW r, r.made, r.held, SetCall(c, r),
               \A d \in Calls \ {c} : conn'[d] = conn[d], UNCHANGED <<polled, tasks>>
        PROVE  NewCall(c)
    <2>1. call'[c] = r /\ \A d \in Calls \ {c} : call'[d] = call[d]
      BY <1>1, <1>5 DEF SetCall
    <2>. QED
      BY <1>2, <1>5, <2>1 DEF NewCall, Alive
  <1>6. ASSUME NEW f \in Fds \cup {NoFd}, NewSocket(c, f)
        PROVE  /\ f \in Fds => sock[f] = "free"
               /\ conn'[c].fd = f /\ conn'[c].event = f /\ conn'[c].state = conn[c].state
               /\ \A d \in Calls \ {c} : conn'[d] = conn[d]
    BY <1>1, <1>3, <1>6 DEF NewSocket, ConnRecords
  <1>7. sock \in [Fds -> {"free", "fresh", "connecting", "established", "fin", "refused", "reset"}]
    BY DEF IInv, NetOK
  <1>8. CASE Rejected(c)
    <2>. DEFINE r == CallBack(SetError(Made(c), "rejected"))
    <2>1. r.made /\ r.held
      BY <1>4, StaysMade, RecordKept
    <2>2. SetCall(c, r) /\ UNCHANGED <<polled, tasks, epollVars>>
      BY <1>8 DEF Rejected, loopVars
    <2>. HIDE DEF r
    <2>3. CASE UNCHANGED <<conn, sock>>
      <3>1. NewCall(c)
        BY <1>5, <2>1, <2>2, <2>3
      <3>2. Opens(c, NoFd) /\ Unregistered(c)
        BY <1>3, <2>2, <2>3 DEF Opens, Unregistered
      <3>. QED
        BY <3>1, <3>2
    <2>4. CASE \E f \in Fds : NewSocket(c, f) /\ sock' = [sock EXCEPT ![f] = "fresh"]
      <3>1. PICK f \in Fds : NewSocket(c, f) /\ sock' = [sock EXCEPT ![f] = "fresh"]
        BY <2>4
      <3>2. NewCall(c)
        BY <1>5, <1>6, <2>1, <2>2, <3>1
      <3>3. Opens(c, f) /\ Unregistered(c)
        BY <1>6, <1>7, <2>2, <3>1 DEF Opens, Unregistered
      <3>. QED
        BY <3>2, <3>3
    <2>. QED
      BY <1>8, <2>3, <2>4 DEF Rejected
  <1>9. CASE ConnectFails(c)
    <2>. DEFINE r == CallBack(SetError(Timed(c), "connect"))
    <2>1. r.made /\ r.held
      BY <1>4, StaysMade, RecordKept
    <2>2. SetCall(c, r) /\ UNCHANGED <<polled, tasks, epollVars>>
      BY <1>9 DEF ConnectFails, loopVars
    <2>. HIDE DEF r
    <2>3. PICK f \in Fds \cup {NoFd} :
             /\ NewSocket(c, f)
             /\ sock' = [g \in Fds |-> IF g = f THEN "fresh" ELSE sock[g]]
      BY <1>9 DEF ConnectFails
    <2>4. NewCall(c)
      BY <1>5, <1>6, <2>1, <2>2, <2>3
    <2>5. Opens(c, f) /\ Unregistered(c)
      BY <1>6, <2>2, <2>3 DEF Opens, Unregistered
    <2>. QED
      BY <2>4, <2>5
  <1>10. CASE ConnectBegins(c)
    <2>. DEFINE r == [Timed(c) EXCEPT !.inside = ~looping]
    <2>1. r.made /\ r.held
      <3>1. PICK b \in BOOLEAN : b = ~looping
        OBVIOUS
      <3>2. r = [Timed(c) EXCEPT !.inside = b]
        BY <3>1
      <3>. HIDE DEF r
      <3>. QED
        BY <1>4, <3>2
    <2>2. SetCall(c, r) /\ UNCHANGED <<polled, tasks>>
      BY <1>10 DEF ConnectBegins
    <2>. HIDE DEF r
    <2>3. PICK f \in Fds :
             /\ NewSocket(c, f)
             /\ sock' = [sock EXCEPT ![f] = "connecting"]
             /\ SetEvent(f, Listen(fdEvent[f], "out", Handler("connect", c)))
             /\ AddToEpoll(f)
      BY <1>10 DEF ConnectBegins
    <2>4. NewCall(c)
      BY <1>5, <1>6, <2>1, <2>2, <2>3
    <2>5. Opens(c, f) /\ Registers(c, f)
      BY <1>6, <1>7, <2>3 DEF Opens, Registers
    <2>. QED
      BY <2>4, <2>5
  <1>11. CASE ConnectAtOnce(c)
    <2>. DEFINE r == Timed(c)
    <2>1. r.made /\ r.held
      BY <1>4
    <2>2. SetCall(c, r) /\ UNCHANGED <<polled, tasks>>
      BY <1>11 DEF ConnectAtOnce, loopVars
    <2>. HIDE DEF r
    <2>3. PICK f \in Fds :
             /\ sock[f] = "free" /\ sock' = [sock EXCEPT ![f] = "established"]
             /\ conn' = [conn EXCEPT ![c] = [fd |-> f, event |-> f, state |-> "Connected",
                                            writeDone |-> TRUE, readDone |-> FALSE]]
             /\ SetEvent(f, Listen(fdEvent[f], "out", Handler("onWrite", c)))
             /\ AddToEpoll(f)
      BY <1>11 DEF ConnectAtOnce
    <2>4. /\ conn'[c].fd = f /\ conn'[c].event = f
          /\ \A d \in Calls \ {c} : conn'[d] = conn[d]
      BY <1>1, <2>3
    <2>5. NewCall(c)
      BY <1>5, <2>1, <2>2, <2>4
    <2>6. Opens(c, f) /\ Registers(c, f)
      BY <1>7, <2>3, <2>4 DEF Opens, Registers
    <2>. QED
      BY <2>5, <2>6
  <1>. QED
    BY <1>8, <1>9, <1>10, <1>11 DEF CallMethod

LEMMA CallMethodOwners ==
    ASSUME IInv, IInv', OInv, NEW c \in Calls, CallMethod(c)
    PROVE  OInv'
  <1>. /\ OwnersOK /\ WatchedOK /\ PolledOK /\ ConnectOK /\ ListOK
    BY DEF OInv, IInv
  <1>1. NewCall(c)
    BY CallMethodEffect
  <1>2. PICK f \in Fds \cup {NoFd} : Opens(c, f) /\ (Unregistered(c) \/ Registers(c, f))
    BY CallMethodEffect
  <1>3. /\ conn[c].fd = NoFd /\ conn[c].event = NoFd /\ Connecting(c)
        /\ NoFd \notin Fds
    BY <1>1, FdsAssumption DEF NewCall, OwnersOK, IInv, ConnOK, ConnectOK
  <1>4. \A d \in Calls \ {c} : SameOwner(d) /\ SameClient(d)
    BY <1>1 DEF NewCall, SameOwner, SameClient
  <1>5. OwnersOK' /\ Owns(c, f)' /\ \A d \in Calls : \A g : Owns(d, g) => d # c /\ Owns(d, g)'
    BY <1>1, <1>2, <1>4, OwnersNew DEF NewCall, Opens
  <1>6. fdEvent \in [Fds -> FdEvents] /\ watched \subseteq listed /\ listed \subseteq Fds
    BY DEF IInv, EventsOK, ListOK
  <1>7. ASSUME NEW g \in watched, fdEvent'[g] = fdEvent[g]
        PROVE  \E d \in Calls : Registered(g, d)'
    BY <1>4, <1>5, <1>7, WatchedKept DEF SameClient
  <1>8. WatchedOK'
    <2>1. CASE Unregistered(c)
      BY <1>7, <2>1 DEF Unregistered, epollVars, WatchedOK
    <2>2. CASE Registers(c, f)
      <3>. SUFFICES ASSUME NEW g \in watched'
                    PROVE  \E d \in Calls : Registered(g, d)'
        BY DEF WatchedOK
      <3>1. CASE g = f
        <4>1. fdEvent'[f].out.call = c
          <5>1. \A k : LET ev == Listen(fdEvent[f], "out", Handler(k, c)) IN
                       ev.out = Handler(k, c)
            BY <1>6, <2>2 DEF Listen, FdEvents, Registers
          <5>. QED
            BY <1>6, <2>2, <5>1, HandlerKinds DEF Registers, SetEvent
        <4>2. conn'[c].event = f
          BY <1>2 DEF Opens
        <4>3. Registered(f, c)'
          BY <1>5, <4>1, <4>2 DEF Registered
        <4>. QED
          BY <3>1, <4>3
      <3>2. CASE g # f
        <4>1. g \in watched /\ fdEvent'[g] = fdEvent[g]
          BY <1>6, <2>2, <3>2 DEF Registers, AddToEpoll, SetEvent
        <4>. QED
          BY <1>7, <4>1
      <3>. QED
        BY <3>1, <3>2
    <2>. QED
      BY <1>2, <2>1, <2>2
  <1>9. PolledOK'
    BY <1>1, NothingPolled DEF NewCall
  <1>10. \A h \in Handlers : h.kind = "connect" /\ HasSocket(h, conn) =>
            /\ h.call \in Calls /\ h.call # c /\ SameClient(h.call)
            /\ conn'[h.call].fd = conn[h.call].fd
    <2>1. \A d \in Calls : d # 0
      BY HandlerFields
    <2>. QED
      BY <1>1, <1>3, <1>4, <2>1, HandlerKinds DEF HasSocket, NewCall
  <1>11. \A i \in 1 .. Len(tasks) : tasks[i] \in Handlers /\ HasSocket(tasks[i], conn)
    BY ElementOfSeq DEF IInv, TasksOK
  <1>12. \A g \in Fds : fdEvent[g].out \in Handlers /\ HasSocket(fdEvent[g].out, conn)
    BY DEF IInv, EventsOK, FdEvents
  <1>13. ConnectOK'
    <2>1. \A d \in Calls : ~call'[d].made => conn'[d].state = "NotConnected"
      BY <1>1 DEF NewCall, ConnectOK, Connecting
    <2>2. \A d \in Calls : conn'[d].state # "NotConnected" => conn'[d].fd = conn'[d].event
      BY <1>1, <1>2 DEF NewCall, Opens, ConnectOK, Connecting
    <2>3. \A i \in 1 .. Len(tasks) : tasks[i].kind = "connect" =>
            LET d == tasks[i].call IN
            /\ conn'[d].state = "NotConnected" /\ conn'[d].fd = conn'[d].event
            /\ \A j \in 1 .. Len(tasks) :
                  tasks[j].kind = "connect" /\ tasks[j].call = d => i = j
      BY <1>10, <1>11 DEF ConnectOK, Connecting, SameClient
    <2>4. ASSUME NEW g \in Fds, fdEvent'[g] = fdEvent[g]
          PROVE  /\ fdEvent'[g].in.kind # "connect"
                 /\ fdEvent'[g].out.kind = "connect" =>
                      LET d == fdEvent'[g].out.call IN
                      conn'[d].event = g /\ conn'[d].state = "NotConnected"
      BY <1>10, <1>12, <2>4 DEF ConnectOK, Connecting, SameClient
    <2>5. \A g \in Fds :
                 /\ fdEvent'[g].in.kind # "connect"
                 /\ fdEvent'[g].out.kind = "connect" =>
                      LET d == fdEvent'[g].out.call IN
                      conn'[d].event = g /\ conn'[d].state = "NotConnected"
      <3>1. CASE Unregistered(c)
        BY <2>4, <3>1 DEF Unregistered, epollVars
      <3>2. CASE Registers(c, f)
        <4>. SUFFICES ASSUME NEW g \in Fds
                      PROVE  /\ fdEvent'[g].in.kind # "connect"
                             /\ fdEvent'[g].out.kind = "connect" =>
                                  LET d == fdEvent'[g].out.call IN
                                  conn'[d].event = g /\ conn'[d].state = "NotConnected"
          OBVIOUS
        <4>1. CASE g # f
          BY <1>6, <2>4, <3>2, <4>1 DEF Registers, SetEvent
        <4>2. CASE g = f
          <5>1. fdEvent[f] \in FdEvents
            BY <1>6, <3>2 DEF Registers
          <5>2. \A k : LET ev == Listen(fdEvent[f], "out", Handler(k, c)) IN
                       ev.in = fdEvent[f].in /\ ev.out.kind = k /\ ev.out.call = c
            <6>1. \A h : LET ev == Listen(fdEvent[f], "out", h) IN
                       ev.in = fdEvent[f].in /\ ev.out = h
              BY <5>1 DEF Listen, FdEvents
            <6>. QED
              BY <6>1, HandlerKinds
          <5>3. PICK k \in {"onWrite", "connect"} :
                   /\ fdEvent'[f] = Listen(fdEvent[f], "out", Handler(k, c))
                   /\ k = "connect" => conn'[c].state = conn[c].state
            BY <1>6, <3>2 DEF Registers, SetEvent
          <5>4. /\ fdEvent'[f].in = fdEvent[f].in
                /\ fdEvent'[f].out.kind = k /\ fdEvent'[f].out.call = c
            BY <5>2, <5>3
          <5>5. conn'[c].event = f
            BY <1>2 DEF Opens
          <5>. QED
            BY <1>3, <4>2, <5>3, <5>4, <5>5 DEF ConnectOK, Connecting
        <4>. QED
          BY <4>1, <4>2
      <3>. QED
        BY <1>2, <3>1, <3>2
    <2>. QED
      BY <1>1, <2>1, <2>2, <2>3, <2>5 DEF ConnectOK, Connecting, NewCall
  <1>. QED
    BY <1>5, <1>8, <1>9, <1>13 DEF OInv

\* Calls lose their last pointer, or none does.
LEMMA CloseOwners ==
    ASSUME IInv, OInv, polled = {}, UNCHANGED <<polled, conn, fdEvent, listed>>,
           Close(ClosedWith(call')),
           \A c \in Calls : /\ call'[c].made <=> call[c].made
                            /\ Alive(call'[c]) => Alive(call[c])
                            /\ ~call[c].made => call'[c].held = call[c].held,
           tasks' = tasks \/ (tasks # <<>> /\ tasks' = Tail(tasks))
    PROVE  OInv'
  <1>. /\ OwnersOK /\ WatchedOK /\ PolledOK /\ ConnectOK /\ ListOK
    BY DEF OInv, IInv
  <1>1. /\ OwnersOK'
        /\ \A c \in Calls : \A f \in Fds \ ClosedWith(call') : Owns(c, f) => Owns(c, f)'
    BY OwnersClosed
  <1>2. WatchedOK'
    <2>1. \A f \in watched' : f \in watched /\ f \in Fds \ ClosedWith(call')
      BY DEF Close, ListOK
    <2>. QED
      BY <1>1, <2>1, WatchedKept DEF WatchedOK
  <1>3. ConnectOK'
    <2>1. \A c \in Calls : SameClient(c) /\ conn'[c].fd = conn[c].fd
      BY DEF SameClient
    <2>. QED
      BY <2>1, ConnectKept
  <1>4. PolledOK'
    BY NothingPolled
  <1>. QED
    BY <1>1, <1>2, <1>3, <1>4 DEF OInv

LEMMA ReleaseOwners ==
    ASSUME IInv, OInv, NEW c \in Calls, Release(c)
    PROVE  OInv'
  <1>1. /\ call' = [call EXCEPT ![c].held = FALSE] /\ call[c].made
        /\ polled = {} /\ Close(ClosedWith(call'))
        /\ UNCHANGED <<tasks, polled, conn, fdEvent, listed>>
    BY DEF Release, Between, loopVars
  <1>2. \A d \in Calls : /\ call'[d].made <=> call[d].made
                         /\ Alive(call'[d]) => Alive(call[d])
                         /\ ~call[d].made => call'[d].held = call[d].held
    <2>. DEFINE r == [call[c] EXCEPT !.held = FALSE]
    <2>1. call \in [Calls -> CallRecords]
      BY DEF IInv, CallsOK
    <2>2. r.made = call[c].made /\ r.held = FALSE /\ r.timer = call[c].timer
      BY <2>1 DEF CallRecords
    <2>3. call' = [call EXCEPT ![c] = r]
      BY <1>1, <2>1
    <2>. HIDE DEF r
    <2>. QED
      BY <1>1, <2>1, <2>2, <2>3 DEF Alive
  <1>. QED
    BY <1>1, <1>2, CloseOwners

LEMMA RunTimerOwners ==
    ASSUME IInv, OInv, RunTimer
    PROVE  OInv'
  <1>1. /\ call' = [c \in Calls |-> IF call[c].timer = "due" THEN TimedOut(call[c]) ELSE call[c]]
        /\ polled = {} /\ Close(ClosedWith(call'))
        /\ tasks # <<>> /\ tasks' = Tail(tasks)
        /\ UNCHANGED <<polled, conn, fdEvent, listed>>
    BY DEF RunTimer, Starts, Between
  <1>2. \A d \in Calls : /\ call'[d].made <=> call[d].made
                         /\ Alive(call'[d]) => Alive(call[d])
                         /\ ~call[d].made => call'[d].held = call[d].held
    <2>. TAKE d \in Calls
    <2>1. call[d] \in CallRecords
      BY DEF IInv, CallsOK
    <2>2. CASE call[d].timer = "due"
      <3>1. call'[d] = TimedOut(call[d])
        BY <1>1, <2>2
      <3>. QED
        BY <2>1, <2>2, <3>1, StaysMade, RecordKept DEF Alive
    <2>3. CASE call[d].timer # "due"
      BY <1>1, <2>3
    <2>. QED
      BY <2>2, <2>3
  <1>. QED
    BY <1>1, <1>2, CloseOwners

\* Clients, callbacks and the kernel's list stay as they are.
LEMMA QuietOwners ==
    ASSUME IInv, OInv, UNCHANGED <<conn, epollVars, tasks, polled>>,
           \A c \in Calls : SameOwner(c), \A f \in Fds : sock'[f] = "free" <=> sock[f] = "free"
    PROVE  OInv'
  <1>. /\ OwnersOK /\ WatchedOK /\ PolledOK /\ ConnectOK /\ ListOK
    BY DEF OInv, IInv
  <1>. UNCHANGED <<fdEvent, listed, watched>>
    BY DEF epollVars
  <1>1. OwnersOK' /\ \A c \in Calls : \A f : Owns(c, f)' <=> Owns(c, f)
    BY OwnersKept
  <1>2. WatchedOK'
    BY <1>1, WatchedKept DEF WatchedOK
  <1>3. PolledOK'
    BY DEF PolledOK
  <1>4. ConnectOK'
    <2>1. \A c \in Calls : SameClient(c) /\ conn'[c].fd = conn[c].fd /\ (call[c].made => call'[c].made)
      BY DEF SameClient, SameOwner
    <2>. QED
      BY <2>1, ConnectKept
  <1>. QED
    BY <1>1, <1>2, <1>3, <1>4 DEF OInv

LEMMA TimerExpiresOwners ==
    ASSUME IInv, OInv, NEW c \in Calls, TimerExpires(c)
    PROVE  OInv'
  <1>. DEFINE r == [call[c] EXCEPT !.timer = "due"]
  <1>1. /\ call[c].timer = "armed" /\ call' = [call EXCEPT ![c].timer = "due"]
        /\ UNCHANGED <<conn, epollVars, tasks, polled, sock>>
    BY DEF TimerExpires, loopVars, netVars
  <1>2. call \in [Calls -> CallRecords]
    BY DEF IInv, CallsOK
  <1>3. r.made = call[c].made /\ r.held = call[c].held /\ r.timer = "due"
    BY <1>2 DEF CallRecords
  <1>4. call' = [call EXCEPT ![c] = r]
    BY <1>1, <1>2
  <1>. HIDE DEF r
  <1>5. \A d \in Calls : SameOwner(d)
    BY <1>1, <1>2, <1>3, <1>4 DEF SameOwner, Alive
  <1>. QED
    BY <1>1, <1>5, QuietOwners

LEMMA EnvironmentOwners ==
    ASSUME IInv, OInv, NEW f \in Fds, Environment(f)
    PROVE  OInv'
  <1>1. UNCHANGED <<call, conn, epollVars, tasks, polled>>
    BY DEF Environment, Connects, Refuses, PeerCloses, PeerResets, SocketBecomes, PeerAnswers,
           loopVars
  <1>2. \A g \in Fds : sock'[g] = "free" <=> sock[g] = "free"
    BY DEF IInv, NetOK, Environment, Connects, Refuses, PeerCloses, PeerResets, SocketBecomes,
           PeerAnswers
  <1>3. \A d \in Calls : SameOwner(d)
    BY <1>1 DEF SameOwner
  <1>. QED
    BY <1>1, <1>2, <1>3, QuietOwners

LEMMA PollOwners ==
    ASSUME IInv, OInv, Poll
    PROVE  OInv'
  <1>. /\ OwnersOK /\ WatchedOK /\ PolledOK /\ ConnectOK /\ ListOK
    BY DEF OInv, IInv
  <1>1. /\ tasks = <<>> /\ polled' = Ready
        /\ UNCHANGED <<tasks, call, conn, sock, fdEvent, listed, watched>>
    BY DEF Poll, netVars, epollVars
  <1>2. \A c \in Calls : SameOwner(c) /\ SameClient(c)
    BY <1>1 DEF SameOwner, SameClient
  <1>3. OwnersOK' /\ \A c \in Calls : \A f : Owns(c, f)' <=> Owns(c, f)
    BY <1>1, <1>2, OwnersKept
  <1>4. WatchedOK'
    BY <1>1, <1>3, WatchedKept DEF WatchedOK
  <1>5. ConnectOK'
    BY <1>1, <1>2, ConnectKept
  <1>6. \A e \in Ready : \/ e.fd \in watched /\ e.events = Reported(e.fd)
                         \/ e.fd = NoFd /\ e = [fd |-> NoFd, events |-> {"in"}]
    BY DEF Ready
  <1>7. NoFd \notin watched
    BY FdsAssumption DEF ListOK
  <1>8. \A d, e \in Ready : d.fd = e.fd => d = e
    <2>1. \A e \in Ready : e = [fd |-> e.fd, events |-> IF e.fd = NoFd THEN {"in"} ELSE Reported(e.fd)]
      BY <1>7 DEF Ready
    <2>. QED
      BY <2>1
  <1>9. ASSUME NEW e \in Ready, e.fd # NoFd, "out" \in e.events
        PROVE  LET c == fdEvent[e.fd].out.call IN
               c # 0 /\ conn[c].event = e.fd /\ conn[c].fd = e.fd
    <2>1. e.fd \in watched /\ "out" \in fdEvent[e.fd].mask
      BY <1>6, <1>9 DEF Reported
    <2>2. PICK c \in Calls : Registered(e.fd, c)
      BY <2>1 DEF WatchedOK
    <2>3. c # 0
      BY HandlerFields
    <2>. QED
      BY <2>1, <2>2, <2>3 DEF Registered, Owns
  <1>10. PolledOK'
    BY <1>1, <1>8, <1>9 DEF PolledOK
  <1>. QED
    BY <1>3, <1>4, <1>5, <1>10 DEF OInv

LEMMA DispatchOwners ==
    ASSUME IInv, OInv, Dispatch
    PROVE  OInv'
  <1>. /\ OwnersOK /\ WatchedOK /\ PolledOK /\ ConnectOK /\ ListOK
    BY DEF OInv, IInv
  <1>1. PICK e \in polled :
          /\ polled' = polled \ {e}
          /\ tasks' = tasks \o HandlersFor(e)
          /\ IF "err" \in e.events THEN DeleteFromEpoll(e.fd) ELSE UNCHANGED <<listed, watched>>
    BY DEF Dispatch
  <1>2. UNCHANGED <<call, conn, sock, fdEvent>>
    BY DEF Dispatch, netVars
  <1>3. \A c \in Calls : SameOwner(c) /\ SameClient(c)
    BY <1>2 DEF SameOwner, SameClient
  <1>4. OwnersOK' /\ \A c \in Calls : \A f : Owns(c, f)' <=> Owns(c, f)
    BY <1>2, <1>3, OwnersKept
  <1>5. WatchedOK'
    <2>1. watched' \subseteq watched
      BY <1>1 DEF DeleteFromEpoll
    <2>. QED
      BY <1>2, <1>4, <2>1, WatchedKept DEF WatchedOK
  <1>6. e.fd \in Fds \cup {NoFd} /\ NoFd \notin Fds
    BY FdsAssumption DEF IInv, LoopOK, Results
  <1>7. \A f \in Fds : fdEvent[f].in \in Handlers /\ fdEvent[f].out \in Handlers
    BY DEF IInv, EventsOK, FdEvents
  \* What is queued: at most one callback for connecting, of the socket's client.
  <1>. DEFINE q == HandlersFor(e)
              h == fdEvent[e.fd].out
  <1>8. /\ q \in Seq(Handlers)
        /\ \A i \in 1 .. Len(q) : q[i].kind = "connect" =>
              i = Len(q) /\ e.fd # NoFd /\ "out" \in e.events /\ q[i] = h
    <2>1. CASE e.fd = NoFd
      BY <2>1, HandlerKinds, HandlerFields DEF HandlersFor
    <2>2. CASE e.fd # NoFd
      <3>. DEFINE a == IF "in" \in e.events THEN Queued(fdEvent[e.fd].in) ELSE <<>>
                  b == IF "out" \in e.events THEN Queued(h) ELSE <<>>
      <3>1. q = a \o b
        BY <2>2 DEF HandlersFor
      <3>2. a \in Seq(Handlers) /\ Len(a) \in {0, 1} /\ \A i \in 1 .. Len(a) : a[i].kind # "connect"
        BY <1>6, <1>7, <2>2 DEF Queued, ConnectOK
      <3>3. /\ b \in Seq(Handlers) /\ Len(b) \in {0, 1}
            /\ \A i \in 1 .. Len(b) : b[i] = h /\ "out" \in e.events
        BY <1>6, <1>7, <2>2 DEF Queued
      <3>. HIDE DEF a, b, h, q
      <3>4. /\ q \in Seq(Handlers) /\ Len(q) = Len(a) + Len(b)
            /\ \A i \in 1 .. Len(q) : q[i] = IF i <= Len(a) THEN a[i] ELSE b[i - Len(a)]
        BY <3>1, <3>2, <3>3, ConcatProperties
      <3>5. ASSUME NEW i \in 1 .. Len(q), q[i].kind = "connect"
            PROVE  i = Len(q) /\ "out" \in e.events /\ q[i] = h
        <4>1. ~(i <= Len(a))
          BY <3>2, <3>4, <3>5
        <4>2. i - Len(a) \in 1 .. Len(b) /\ i = Len(q)
          BY <3>2, <3>3, <3>4, <4>1
        <4>. QED
          BY <3>3, <3>4, <4>1, <4>2
      <3>. QED
        BY <2>2, <3>4, <3>5
    <2>. QED
      BY <2>1, <2>2
  <1>9. /\ tasks \in Seq(Handlers)
        /\ \A i \in 1 .. Len(tasks) : tasks[i] \in Handlers
    BY ElementOfSeq DEF IInv, TasksOK
  <1>10. e.fd # NoFd /\ "out" \in e.events /\ h.kind = "connect" =>
            LET c == h.call IN
            /\ conn[c].event = e.fd /\ conn[c].fd = e.fd /\ Connecting(c)
            /\ \A i \in 1 .. Len(tasks) : tasks[i].kind = "connect" => tasks[i].call # c
    BY <1>6 DEF PolledOK, ConnectOK
  <1>. HIDE DEF q
  <1>11. /\ tasks' \in Seq(Handlers) /\ Len(tasks') = Len(tasks) + Len(q)
         /\ Len(tasks) \in Nat /\ Len(q) \in Nat
         /\ \A i \in 1 .. Len(tasks') :
               tasks'[i] = IF i <= Len(tasks) THEN tasks[i] ELSE q[i - Len(tasks)]
    BY <1>1, <1>8, <1>9, ConcatProperties DEF q
  <1>12. ASSUME NEW i \in 1 .. Len(tasks'), tasks'[i].kind = "connect"
         PROVE  \/ i \in 1 .. Len(tasks) /\ tasks'[i] = tasks[i]
                \/ /\ i = Len(tasks') /\ i \notin 1 .. Len(tasks)
                   /\ e.fd # NoFd /\ "out" \in e.events
                   /\ h.kind = "connect" /\ tasks'[i] = h
    <2>1. CASE i <= Len(tasks)
      BY <1>11, <2>1
    <2>2. CASE ~(i <= Len(tasks))
      <3>1. i - Len(tasks) \in 1 .. Len(q) /\ tasks'[i] = q[i - Len(tasks)] /\ i \notin 1 .. Len(tasks)
        BY <1>11, <2>2
      <3>2. i - Len(tasks) = Len(q)
        BY <1>8, <1>12, <3>1
      <3>3. i = Len(tasks')
        BY <1>11, <3>2
      <3>. QED
        BY <1>8, <1>12, <3>1, <3>3
    <2>. QED
      BY <2>1, <2>2
  <1>. HIDE DEF h
  <1>13. PolledOK'
    <2>1. ASSUME NEW d \in polled', NEW i \in 1 .. Len(tasks'), tasks'[i].kind = "connect"
          PROVE  conn'[tasks'[i].call].event # d.fd
      <3>1. d \in polled /\ d.fd # e.fd
        BY <1>1 DEF PolledOK
      <3>. QED
        BY <1>2, <1>10, <1>12, <2>1, <3>1 DEF PolledOK
    <2>2. polled' \subseteq polled
      BY <1>1
    <2>. QED
      BY <1>2, <2>1, <2>2 DEF PolledOK
  <1>14. ConnectOK'
    <2>1. ASSUME NEW i \in 1 .. Len(tasks'), tasks'[i].kind = "connect"
          PROVE  LET c == tasks'[i].call IN
                 /\ conn'[c].state = "NotConnected" /\ conn'[c].fd = conn'[c].event
                 /\ \A j \in 1 .. Len(tasks') :
                       tasks'[j].kind = "connect" /\ tasks'[j].call = c => i = j
      <3>. DEFINE c == tasks'[i].call
      <3>1. conn'[c].state = "NotConnected" /\ conn'[c].fd = conn'[c].event
        BY <1>2, <1>10, <1>12, <2>1 DEF ConnectOK, Connecting
      <3>2. ASSUME NEW j \in 1 .. Len(tasks'), tasks'[j].kind = "connect", tasks'[j].call = c
            PROVE  i = j
        BY <1>10, <1>12, <2>1, <3>2 DEF ConnectOK
      <3>. QED
        BY <3>1, <3>2
    <2>2. /\ \A c \in Calls : ~call'[c].made => conn'[c].state = "NotConnected"
          /\ \A c \in Calls : conn'[c].state # "NotConnected" => conn'[c].fd = conn'[c].event
          /\ \A f \in Fds :
               /\ fdEvent'[f].in.kind # "connect"
               /\ fdEvent'[f].out.kind = "connect" =>
                    LET c == fdEvent'[f].out.call IN
                    conn'[c].event = f /\ conn'[c].state = "NotConnected"
      BY <1>2 DEF ConnectOK, Connecting
    <2>. QED
      BY <2>1, <2>2 DEF ConnectOK, Connecting
  <1>. QED
    BY <1>4, <1>5, <1>13, <1>14 DEF OInv

\* What the rest of the queue says of the clients that are connecting.
LEMMA TailOwners ==
    ASSUME IInv, ConnectOK, tasks # <<>>, tasks' = Tail(tasks),
           NEW i \in 1 .. Len(tasks'), tasks'[i].kind = "connect"
    PROVE  LET d == tasks'[i].call IN
           /\ d \in Calls /\ conn[d].state = "NotConnected" /\ conn[d].fd = conn[d].event
           /\ \A j \in 1 .. Len(tasks') :
                 tasks'[j].kind = "connect" /\ tasks'[j].call = d => i = j
  <1>1. tasks \in Seq(Handlers) /\ \A j \in 1 .. Len(tasks) : tasks[j] \in Handlers
    BY ElementOfSeq DEF IInv, TasksOK
  <1>2. /\ Len(tasks) \in Nat /\ Len(tasks') = Len(tasks) - 1
        /\ \A j \in 1 .. Len(tasks') : tasks'[j] = tasks[j + 1] /\ j + 1 \in 1 .. Len(tasks)
        /\ \A j \in 1 .. Len(tasks') : i + 1 = j + 1 => i = j
    BY <1>1, HeadTailProperties
  <1>. DEFINE d == tasks'[i].call
  <1>3. i + 1 \in 1 .. Len(tasks) /\ tasks[i + 1] = tasks'[i] /\ d \in Calls
    BY <1>1, <1>2, HandlerKinds
  <1>4. /\ conn[d].state = "NotConnected" /\ conn[d].fd = conn[d].event
        /\ \A j \in 1 .. Len(tasks) :
              tasks[j].kind = "connect" /\ tasks[j].call = d => i + 1 = j
    BY <1>3 DEF ConnectOK, Connecting
  <1>. QED
    BY <1>2, <1>3, <1>4

\* A callback of call c runs: its client has its socket, and none of the others
\* that are queued is a `connect' of c, if this one is.
LEMMA StartsOwners ==
    ASSUME IInv, OInv, NEW c \in Calls, NEW k \in {"connect", "onWrite", "onRead"}, Starts(k, c)
    PROVE  /\ call[c].made /\ Alive(call[c]) /\ conn[c].event \in Fds
           /\ polled = {} /\ tasks # <<>> /\ tasks' = Tail(tasks)
           /\ k = "connect" => Connecting(c) /\ Owns(c, conn[c].event)
           /\ k = "connect" => \A i \in 1 .. Len(tasks') :
                                  tasks'[i].kind = "connect" => tasks'[i].call # c
  <1>1. conn[c].event \in Fds /\ tasks # <<>> /\ tasks' = Tail(tasks)
    BY StartsOK DEF IInv
  <1>2. call[c].made /\ Alive(call[c]) /\ polled = {}
    <2>1. c # 0
      BY HandlerFields
    <2>. QED
      BY <1>1, <2>1, FdsAssumption DEF Starts, Between, IInv, ConnOK
  <1>3. ASSUME k = "connect"
        PROVE  /\ Connecting(c) /\ Owns(c, conn[c].event)
               /\ \A i \in 1 .. Len(tasks') : tasks'[i].kind = "connect" => tasks'[i].call # c
    <2>1. tasks \in Seq(Handlers)
      BY DEF IInv, TasksOK
    <2>2. /\ 1 \in 1 .. Len(tasks) /\ Head(tasks) = tasks[1]
          /\ \A i \in 1 .. Len(tasks') : tasks'[i] = tasks[i + 1] /\ i + 1 \in 1 .. Len(tasks)
                                         /\ i + 1 # 1
      BY <1>1, <2>1, HeadTailProperties, EmptySeq
    <2>3. tasks[1].kind = "connect" /\ tasks[1].call = c
      BY <1>3, <2>2, HandlerKinds DEF Starts
    <2>4. /\ Connecting(c) /\ conn[c].fd = conn[c].event
          /\ \A j \in 1 .. Len(tasks) :
                tasks[j].kind = "connect" /\ tasks[j].call = c => 1 = j
      BY <2>2, <2>3 DEF OInv, ConnectOK
    <2>. QED
      BY <1>2, <2>2, <2>4 DEF Owns
  <1>. QED
    BY <1>1, <1>2, <1>3

LEMMA RunConnectedOwners ==
    ASSUME IInv, OInv, NEW c \in Calls, RunConnected(c)
    PROVE  OInv'
  <1>. /\ OwnersOK /\ WatchedOK /\ PolledOK /\ ConnectOK /\ ListOK
    BY DEF OInv, IInv
  <1>0. PICK f \in Fds : f = conn[c].event
    BY StartsOwners DEF RunConnected
  <1>. DEFINE ev == Listen(fdEvent[f], "out", Handler("onWrite", c))
  <1>1. /\ call[c].made /\ f \in Fds /\ polled = {} /\ tasks # <<>> /\ tasks' = Tail(tasks)
        /\ Connecting(c) /\ Owns(c, f)
        /\ \A i \in 1 .. Len(tasks') : tasks'[i].kind = "connect" => tasks'[i].call # c
    BY <1>0, StartsOwners DEF RunConnected
  <1>2. /\ conn' = [conn EXCEPT ![c].state = "Connected", ![c].writeDone = TRUE]
        /\ fdEvent' = [fdEvent EXCEPT ![f] = ev]
        /\ watched' = watched \cup {f}
        /\ UNCHANGED <<polled, call, sock>>
    BY <1>0 DEF RunConnected, netVars, SetEvent
  <1>3. conn \in [Calls -> ConnRecords] /\ fdEvent \in [Fds -> FdEvents]
    BY DEF IInv, ConnOK, EventsOK
  <1>4. /\ \A d \in Calls : conn'[d].fd = conn[d].fd /\ conn'[d].event = conn[d].event
        /\ \A d \in Calls \ {c} : conn'[d].state = conn[d].state
        /\ conn'[c].state = "Connected"
    <2>. DEFINE q == [conn[c] EXCEPT !.state = "Connected"]
                r == [q EXCEPT !.writeDone = TRUE]
    <2>1. r.fd = conn[c].fd /\ r.event = conn[c].event /\ r.state = "Connected"
      BY <1>3 DEF ConnRecords
    <2>2. conn' = [conn EXCEPT ![c] = r]
      BY <1>2, <1>3
    <2>. HIDE DEF r
    <2>. QED
      BY <1>3, <2>1, <2>2
  <1>5. /\ ev.in = fdEvent[f].in /\ ev.out.kind = "onWrite" /\ ev.out.call = c
    <2>1. \A h : LET e == Listen(fdEvent[f], "out", h) IN e.in = fdEvent[f].in /\ e.out = h
      BY <1>1, <1>3 DEF Listen, FdEvents
    <2>. QED
      BY <2>1, HandlerKinds
  <1>. HIDE DEF ev
  <1>6. OwnersOK' /\ \A d \in Calls : \A g : Owns(d, g)' <=> Owns(d, g)
    <2>1. \A d \in Calls : SameOwner(d)
      BY <1>2, <1>4 DEF SameOwner
    <2>. QED
      BY <1>2, <2>1, OwnersKept
  <1>7. WatchedOK'
    <2>1. Registered(f, c)'
      BY <1>0, <1>1, <1>2, <1>3, <1>4, <1>5, <1>6 DEF Registered
    <2>2. ASSUME NEW g \in watched, g # f
          PROVE  \E d \in Calls : Registered(g, d)'
      BY <1>2, <1>3, <1>4, <1>6, <2>2, WatchedKept DEF ListOK
    <2>. QED
      BY <1>2, <2>1, <2>2 DEF WatchedOK
  <1>8. PolledOK'
    BY <1>1, <1>2, NothingPolled
  <1>9. ConnectOK'
    <2>1. \A g \in Fds : fdEvent[g].out \in Handlers
      BY <1>3 DEF FdEvents
    <2>2. ASSUME NEW g \in Fds
          PROVE  /\ fdEvent'[g].in.kind # "connect"
                 /\ fdEvent'[g].out.kind = "connect" =>
                      LET d == fdEvent'[g].out.call IN
                      conn'[d].event = g /\ conn'[d].state = "NotConnected"
      <3>1. CASE g = f
        BY <1>1, <1>2, <1>3, <1>5, <3>1 DEF ConnectOK
      <3>2. CASE g # f
        <4>1. fdEvent'[g] = fdEvent[g]
          BY <1>2, <1>3, <3>2
        <4>2. fdEvent[g].out.kind = "connect" =>
                 fdEvent[g].out.call \in Calls \ {c}
          BY <1>0, <2>1, <3>2, HandlerKinds DEF ConnectOK
        <4>. QED
          BY <1>4, <4>1, <4>2 DEF ConnectOK, Connecting
      <3>. QED
        BY <3>1, <3>2
    <2>3. ASSUME NEW i \in 1 .. Len(tasks'), tasks'[i].kind = "connect"
          PROVE  LET d == tasks'[i].call IN
                 /\ conn'[d].state = "NotConnected" /\ conn'[d].fd = conn'[d].event
                 /\ \A j \in 1 .. Len(tasks') :
                       tasks'[j].kind = "connect" /\ tasks'[j].call = d => i = j
      BY <1>1, <1>4, <2>3, TailOwners
    <2>4. /\ \A d \in Calls : ~call'[d].made => conn'[d].state = "NotConnected"
          /\ \A d \in Calls : conn'[d].state # "NotConnected" => conn'[d].fd = conn'[d].event
      <3>1. conn[c].fd = conn[c].event /\ call' = call
        BY <1>0, <1>1, <1>2 DEF Owns
      <3>. QED
        BY <1>1, <1>4, <3>1 DEF ConnectOK, Connecting
    <2>. QED
      BY <2>2, <2>3, <2>4 DEF ConnectOK, Connecting
  <1>. QED
    BY <1>6, <1>7, <1>8, <1>9 DEF OInv

\* The connection failed: the client gets another socket in place of its own.
LEMMA RunConnectFailedOwners ==
    ASSUME IInv, OInv, NEW c \in Calls, RunConnectFailed(c)
    PROVE  OInv'
  <1>. /\ OwnersOK /\ WatchedOK /\ PolledOK /\ ConnectOK /\ ListOK
    BY DEF OInv, IInv
  <1>. DEFINE f == conn[c].event
              r == CallBack(SetError(call[c], "connect"))
  <1>1. /\ call[c].made /\ f \in Fds /\ polled = {} /\ tasks # <<>> /\ tasks' = Tail(tasks)
        /\ Connecting(c) /\ Owns(c, f)
        /\ \A i \in 1 .. Len(tasks') : tasks'[i].kind = "connect" => tasks'[i].call # c
    BY StartsOwners DEF RunConnectFailed
  <1>2. PICK g \in {h \in Fds : h = f \/ sock[h] = "free"} :
           /\ conn' = [conn EXCEPT ![c].fd = g]
           /\ sock' = [sock EXCEPT ![f] = "free", ![g] = "fresh"]
    BY DEF RunConnectFailed
  <1>3. /\ watched' = watched \ {f} /\ SetCall(c, r)
        /\ UNCHANGED <<polled, fdEvent>>
    BY DEF RunConnectFailed
  <1>4. conn \in [Calls -> ConnRecords] /\ call \in [Calls -> CallRecords] /\ f \in Fds
    BY <1>1 DEF IInv, ConnOK, CallsOK
  <1>5. /\ \A d \in Calls : conn'[d].event = conn[d].event /\ conn'[d].state = conn[d].state
        /\ \A d \in Calls \ {c} : conn'[d].fd = conn[d].fd
        /\ conn'[c].fd = g
    <2>. DEFINE q == [conn[c] EXCEPT !.fd = g]
    <2>1. q.fd = g /\ q.event = conn[c].event /\ q.state = conn[c].state
      BY <1>4 DEF ConnRecords
    <2>2. conn' = [conn EXCEPT ![c] = q]
      BY <1>2, <1>4
    <2>. HIDE DEF q
    <2>. QED
      BY <1>4, <2>1, <2>2
  <1>6. /\ \A d \in Calls \ {c} : call'[d] = call[d]
        /\ call'[c].made /\ Alive(call'[c])
    <2>1. r.made = call[c].made /\ r.held = call[c].held /\ r.timer = call[c].timer
      BY <1>4, StaysMade, RecordKept
    <2>. HIDE DEF r
    <2>2. \A d \in Calls : call'[d] = IF d = c THEN r ELSE call[d]
      BY <1>3, <1>4 DEF SetCall
    <2>. QED
      BY <1>1, <2>1, <2>2 DEF Alive, Owns
  <1>7. \A h \in Fds : sock'[h] = IF h = g THEN "fresh" ELSE IF h = f THEN "free" ELSE sock[h]
    BY <1>2, <1>4 DEF IInv, NetOK
  <1>. HIDE DEF f, r
  <1>8. /\ \A d \in Calls \ {c} : \A h \in Fds : Owns(d, h)' <=> Owns(d, h)
        /\ \A h \in Fds : Owns(c, h)' <=> h = g
        /\ \A h \in Fds : Owns(c, h) <=> h = f
    BY <1>1, <1>5, <1>6 DEF Owns
  <1>9. \A d \in Calls \ {c} : ~Owns(d, g) /\ ~Owns(d, f)
    BY <1>1, <1>2, <1>8 DEF OwnersOK
  <1>10. OwnersOK'
    <2>1. \A d \in Calls : ~call'[d].made => conn'[d].fd = NoFd /\ call'[d].held
      BY <1>5, <1>6 DEF OwnersOK
    <2>2. \A h \in Fds : sock'[h] # "free" => \E d \in Calls : Owns(d, h)'
      <3>. SUFFICES ASSUME NEW h \in Fds, sock'[h] # "free"
                    PROVE  \E d \in Calls : Owns(d, h)'
        OBVIOUS
      <3>1. CASE h = g
        BY <1>8, <3>1
      <3>2. CASE h # g
        <4>1. h # f /\ sock[h] # "free"
          BY <1>7, <3>2
        <4>2. PICK d \in Calls : Owns(d, h)
          BY <4>1 DEF OwnersOK
        <4>. QED
          BY <1>8, <4>1, <4>2
      <3>. QED
        BY <3>1, <3>2
    <2>3. \A h \in Fds : \A d \in Calls : Owns(d, h)' => sock'[h] # "free"
      BY <1>7, <1>8, <1>9 DEF OwnersOK
    <2>4. \A h \in Fds : \A d, e \in Calls : Owns(d, h)' /\ Owns(e, h)' => d = e
      BY <1>8, <1>9 DEF OwnersOK
    <2>. QED
      BY <2>1, <2>2, <2>3, <2>4 DEF OwnersOK
  <1>11. WatchedOK'
    <2>1. ASSUME NEW h \in watched, h # f
          PROVE  \E d \in Calls : Registered(h, d)'
      BY <1>3, <1>5, <1>8, <2>1, WatchedKept DEF ListOK
    <2>. QED
      BY <1>3, <2>1 DEF WatchedOK
  <1>12. PolledOK'
    BY <1>1, <1>3, NothingPolled
  <1>13. ConnectOK'
    <2>1. \A h \in Fds : fdEvent[h].out \in Handlers
      BY DEF IInv, EventsOK, FdEvents
    <2>2. \A h \in Fds :
             /\ fdEvent'[h].in.kind # "connect"
             /\ fdEvent'[h].out.kind = "connect" =>
                  LET d == fdEvent'[h].out.call IN
                  conn'[d].event = h /\ conn'[d].state = "NotConnected"
      BY <1>3, <1>5, <2>1, HandlerKinds DEF ConnectOK, Connecting
    <2>3. ASSUME NEW i \in 1 .. Len(tasks'), tasks'[i].kind = "connect"
          PROVE  LET d == tasks'[i].call IN
                 /\ conn'[d].state = "NotConnected" /\ conn'[d].fd = conn'[d].event
                 /\ \A j \in 1 .. Len(tasks') :
                       tasks'[j].kind = "connect" /\ tasks'[j].call = d => i = j
      BY <1>1, <1>5, <2>3, TailOwners
    <2>4. /\ \A d \in Calls : ~call'[d].made => conn'[d].state = "NotConnected"
          /\ \A d \in Calls : conn'[d].state # "NotConnected" => conn'[d].fd = conn'[d].event
      BY <1>1, <1>5, <1>6 DEF ConnectOK, Connecting
    <2>. QED
      BY <2>2, <2>3, <2>4 DEF ConnectOK, Connecting
  <1>. QED
    BY <1>10, <1>11, <1>12, <1>13 DEF OInv

\* A callback that leaves clients and callbacks as they are.
LEMMA CallbackOwners ==
    ASSUME IInv, OInv, polled = {}, UNCHANGED <<polled, fdEvent, watched, sock>>,
           tasks # <<>>, tasks' = Tail(tasks),
           \A d \in Calls : SameOwner(d) /\ SameClient(d)
    PROVE  OInv'
  <1>. /\ OwnersOK /\ WatchedOK /\ PolledOK /\ ConnectOK /\ ListOK
    BY DEF OInv, IInv
  <1>1. OwnersOK' /\ \A d \in Calls : \A f : Owns(d, f)' <=> Owns(d, f)
    BY OwnersKept
  <1>2. WatchedOK'
    BY <1>1, WatchedKept DEF WatchedOK, SameClient
  <1>3. ConnectOK'
    <2>1. \A d \in Calls : SameClient(d) /\ conn'[d].fd = conn[d].fd /\ (call[d].made => call'[d].made)
      BY DEF SameOwner
    <2>. QED
      BY <2>1, ConnectKept
  <1>4. PolledOK'
    BY NothingPolled
  <1>. QED
    BY <1>1, <1>2, <1>3, <1>4 DEF OInv

\* A callback of a connected client that stops listening for writability.
LEMMA UnlistenOwners ==
    ASSUME IInv, OInv, polled = {}, UNCHANGED <<polled, call, sock>>,
           tasks # <<>>, tasks' = Tail(tasks),
           NEW c \in Calls, call[c].made, Alive(call[c]), conn[c].state = "Connected",
           NEW f \in Fds, f = conn[c].event,
           \A d \in Calls : conn'[d].fd = conn[d].fd /\ conn'[d].event = conn[d].event,
           \A d \in Calls \ {c} : conn'[d].state = conn[d].state,
           conn'[c].state # "NotConnected",
           NEW ev, fdEvent' = [fdEvent EXCEPT ![f] = ev],
           ev.in.kind # "connect", ev.out = fdEvent[f].out, "out" \notin ev.mask,
           watched' \subseteq watched \cup {f}
    PROVE  OInv'
  <1>. /\ OwnersOK /\ WatchedOK /\ PolledOK /\ ConnectOK /\ ListOK
    BY DEF OInv, IInv
  <1>1. OwnersOK' /\ \A d \in Calls : \A g : Owns(d, g)' <=> Owns(d, g)
    <2>1. \A d \in Calls : SameOwner(d)
      BY DEF SameOwner
    <2>. QED
      BY <2>1, OwnersKept
  <1>2. conn[c].fd = f
    BY DEF ConnectOK, Connecting
  <1>3. fdEvent \in [Fds -> FdEvents]
    BY DEF IInv, EventsOK
  <1>4. fdEvent'[f] = ev /\ \A g \in Fds \ {f} : fdEvent'[g] = fdEvent[g]
    BY <1>3
  <1>5. WatchedOK'
    <2>1. Registered(f, c)'
      BY <1>2, <1>4 DEF Registered, Owns
    <2>2. ASSUME NEW g \in watched, g # f
          PROVE  \E d \in Calls : Registered(g, d)'
      BY <1>1, <1>4, <2>2, WatchedKept DEF ListOK
    <2>. QED
      BY <2>1, <2>2 DEF WatchedOK
  <1>6. PolledOK'
    BY NothingPolled
  <1>7. ConnectOK'
    <2>1. ASSUME NEW g \in Fds
          PROVE  /\ fdEvent'[g].in.kind # "connect"
                 /\ fdEvent'[g].out.kind = "connect" =>
                      LET d == fdEvent'[g].out.call IN
                      conn'[d].event = g /\ conn'[d].state = "NotConnected"
      <3>1. fdEvent'[g].out = fdEvent[g].out /\ fdEvent'[g].in.kind # "connect"
        BY <1>4 DEF ConnectOK
      <3>2. fdEvent[g].out.kind = "connect" => fdEvent[g].out.call \in Calls \ {c}
        BY <1>3, HandlerKinds DEF ConnectOK, Connecting, FdEvents
      <3>. QED
        BY <3>1, <3>2 DEF ConnectOK, Connecting
    <2>2. ASSUME NEW i \in 1 .. Len(tasks'), tasks'[i].kind = "connect"
          PROVE  LET d == tasks'[i].call IN
                 /\ conn'[d].state = "NotConnected" /\ conn'[d].fd = conn'[d].event
                 /\ \A j \in 1 .. Len(tasks') :
                       tasks'[j].kind = "connect" /\ tasks'[j].call = d => i = j
      <3>. DEFINE d == tasks'[i].call
      <3>1. /\ d \in Calls /\ conn[d].state = "NotConnected" /\ conn[d].fd = conn[d].event
            /\ \A j \in 1 .. Len(tasks') :
                  tasks'[j].kind = "connect" /\ tasks'[j].call = d => i = j
        BY <2>2, TailOwners
      <3>2. d # c
        BY <3>1
      <3>. QED
        BY <3>1, <3>2
    <2>3. /\ \A d \in Calls : ~call'[d].made => conn'[d].state = "NotConnected"
          /\ \A d \in Calls : conn'[d].state # "NotConnected" => conn'[d].fd = conn'[d].event
      BY <1>2 DEF ConnectOK, Connecting
    <2>. QED
      BY <2>1, <2>2, <2>3 DEF ConnectOK, Connecting
  <1>. QED
    BY <1>1, <1>5, <1>6, <1>7 DEF OInv

LEMMA RunOnWriteOwners ==
    ASSUME IInv, OInv, NEW c \in Calls, RunOnWrite(c)
    PROVE  OInv'
  <1>1. /\ call[c].made /\ Alive(call[c]) /\ conn[c].event \in Fds
        /\ polled = {} /\ tasks # <<>> /\ tasks' = Tail(tasks) /\ UNCHANGED polled
    BY StartsOwners DEF RunOnWrite
  <1>2. /\ conn \in [Calls -> ConnRecords] /\ conn[c] \in ConnRecords
        /\ fdEvent \in [Fds -> FdEvents] /\ watched \subseteq Fds
    BY DEF IInv, ConnOK, EventsOK, ListOK
  <1>3. CASE UNCHANGED <<call, conn, netVars, epollVars>>
    <2>1. UNCHANGED <<fdEvent, watched, sock>> /\ \A d \in Calls : SameOwner(d) /\ SameClient(d)
      BY <1>3 DEF netVars, epollVars, SameOwner, SameClient
    <2>. QED
      BY <1>1, <2>1, CallbackOwners
  <1>4. CASE conn[c].state = "Connected" /\ Write(c)
    <2>1. PICK f \in Fds : f = conn[c].event
      BY <1>1
    <2>. DEFINE old == Cancle(fdEvent[f], "out")
                ev == Listen(old, "in", Handler("onRead", c))
    <2>2. /\ conn' = [conn EXCEPT ![c].writeDone = FALSE, ![c].readDone = TRUE]
          /\ fdEvent' = [fdEvent EXCEPT ![f] = ev]
          /\ AddToEpoll(f) /\ UNCHANGED <<call, sock>>
      BY <1>4, <2>1 DEF Write, SetEvent
    <2>3. ev.in.kind # "connect" /\ ev.out = fdEvent[f].out /\ "out" \notin ev.mask
      <3>1. fdEvent[f] \in FdEvents
        BY <1>2
      <3>2. old.mask = fdEvent[f].mask \ {"out"} /\ old.out = fdEvent[f].out /\ old \in FdEvents
        BY <3>1 DEF Cancle, FdEvents
      <3>. HIDE DEF old
      <3>3. \A h : LET e == Listen(old, "in", h) IN
                   e.in = h /\ e.out = old.out /\ e.mask = old.mask \cup {"in"}
        BY <3>2 DEF Listen, FdEvents
      <3>. QED
        BY <3>2, <3>3, HandlerKinds
    <2>4. /\ \A d \in Calls : conn'[d].fd = conn[d].fd /\ conn'[d].event = conn[d].event
          /\ \A d \in Calls : conn'[d].state = conn[d].state
      <3>. DEFINE q == [conn[c] EXCEPT !.writeDone = FALSE]
                  r == [q EXCEPT !.readDone = TRUE]
      <3>1. r.fd = conn[c].fd /\ r.event = conn[c].event /\ r.state = conn[c].state
        BY <1>2 DEF ConnRecords
      <3>2. conn' = [conn EXCEPT ![c] = r]
        BY <1>2, <2>2
      <3>. HIDE DEF r
      <3>. QED
        BY <1>2, <3>1, <3>2
    <2>5. watched' \subseteq watched \cup {f}
      BY <2>2 DEF AddToEpoll
    <2>. HIDE DEF ev
    <2>6. conn'[c].state # "NotConnected" /\ UNCHANGED <<polled, call, sock>>
      BY <1>1, <1>4, <2>2, <2>4
    <2>. QED
      BY <1>1, <1>4, <2>1, <2>2, <2>3, <2>4, <2>5, <2>6, UnlistenOwners
  <1>. QED
    BY <1>3, <1>4 DEF RunOnWrite, NothingToDo, WriteForEver

LEMMA RunOnReadOwners ==
    ASSUME IInv, OInv, NEW c \in Calls, RunOnRead(c)
    PROVE  OInv'
  <1>1. /\ call[c].made /\ Alive(call[c]) /\ conn[c].event \in Fds
        /\ polled = {} /\ tasks # <<>> /\ tasks' = Tail(tasks) /\ UNCHANGED polled
    BY StartsOwners DEF RunOnRead
  <1>2. /\ conn \in [Calls -> ConnRecords] /\ conn[c] \in ConnRecords
        /\ call \in [Calls -> CallRecords] /\ call[c] \in CallRecords
        /\ fdEvent \in [Fds -> FdEvents]
    BY DEF IInv, ConnOK, CallsOK, EventsOK
  <1>3. CASE NothingToDo
    <2>1. UNCHANGED <<fdEvent, watched, sock>> /\ \A d \in Calls : SameOwner(d) /\ SameClient(d)
      BY <1>3 DEF NothingToDo, netVars, epollVars, SameOwner, SameClient
    <2>. QED
      BY <1>1, <2>1, CallbackOwners
  <1>4. CASE inbox[conn[c].event] # "none" /\ Answer(c)
    <2>1. UNCHANGED <<fdEvent, watched, sock>>
      BY <1>4 DEF Answer, epollVars
    <2>. DEFINE m == inbox[conn[c].event]
    <2>2. \A d \in Calls : SameOwner(d) /\ SameClient(d)
      <3>1. CASE UNCHANGED <<call, conn>>
        BY <3>1 DEF SameOwner, SameClient
      <3>2. CASE /\ m # "stray"
                 /\ SetCall(c, Answered(call[c], m))
                 /\ conn' = [conn EXCEPT ![c].readDone = FALSE]
        <4>. DEFINE r == Answered(call[c], m)
                    q == [conn[c] EXCEPT !.readDone = FALSE]
        <4>1. m \in {"response", "error", "garbage"}
          BY <1>1, <1>4, <3>2 DEF IInv, NetOK, Replies
        <4>2. r.made = call[c].made /\ r.held = call[c].held /\ r.timer = call[c].timer
          BY <1>2, <4>1, StaysMade, RecordKept
        <4>3. q.fd = conn[c].fd /\ q.event = conn[c].event /\ q.state = conn[c].state
          BY <1>2 DEF ConnRecords
        <4>4. call' = [call EXCEPT ![c] = r] /\ conn' = [conn EXCEPT ![c] = q]
          BY <1>2, <3>2 DEF SetCall
        <4>. HIDE DEF r, q
        <4>5. ASSUME NEW d \in Calls
              PROVE  /\ call'[d].made = call[d].made /\ call'[d].held = call[d].held
                     /\ call'[d].timer = call[d].timer /\ conn'[d].fd = conn[d].fd
                     /\ conn'[d].event = conn[d].event /\ conn'[d].state = conn[d].state
          BY <1>2, <4>2, <4>3, <4>4
        <4>. QED
          BY <4>5 DEF SameOwner, SameClient, Alive
      <3>. QED
        BY <1>4, <3>1, <3>2 DEF Answer
    <2>. QED
      BY <1>1, <2>1, <2>2, CallbackOwners
  <1>5. CASE conn[c].state = "Connected" /\ Clear(c)
    <2>1. PICK f \in Fds : f = conn[c].event
      BY <1>1
    <2>. DEFINE old == Cancle(fdEvent[f], "in")
                ev == Cancle(old, "out")
                q == [conn[c] EXCEPT !.state = "Closed"]
    <2>2. /\ conn' = [conn EXCEPT ![c].state = "Closed"]
          /\ fdEvent' = [fdEvent EXCEPT ![f] = ev]
          /\ DeleteFromEpoll(f) /\ UNCHANGED <<call, sock>>
      BY <1>5, <2>1 DEF Clear, SetEvent, netVars
    <2>3. ev.in.kind # "connect" /\ ev.out = fdEvent[f].out /\ "out" \notin ev.mask
      <3>1. old.in = fdEvent[f].in /\ old.out = fdEvent[f].out /\ old \in FdEvents
        BY <1>2 DEF Cancle, FdEvents
      <3>. HIDE DEF old
      <3>2. ev.in = old.in /\ ev.out = old.out /\ ev.mask = old.mask \ {"out"}
        BY <3>1 DEF Cancle, FdEvents
      <3>. QED
        BY <3>1, <3>2 DEF OInv, ConnectOK
    <2>4. /\ \A d \in Calls : conn'[d].fd = conn[d].fd /\ conn'[d].event = conn[d].event
          /\ \A d \in Calls \ {c} : conn'[d].state = conn[d].state
          /\ conn'[c].state = "Closed"
      <3>1. q.fd = conn[c].fd /\ q.event = conn[c].event /\ q.state = "Closed"
        BY <1>2 DEF ConnRecords
      <3>2. conn' = [conn EXCEPT ![c] = q]
        BY <1>2, <2>2
      <3>. HIDE DEF q
      <3>. QED
        BY <1>2, <3>1, <3>2
    <2>5. watched' \subseteq watched \cup {f}
      BY <2>2 DEF DeleteFromEpoll
    <2>. HIDE DEF ev
    <2>6. conn'[c].state # "NotConnected" /\ UNCHANGED <<polled, call, sock>>
      BY <1>1, <2>2, <2>4
    <2>. QED
      BY <1>1, <1>5, <2>1, <2>2, <2>3, <2>4, <2>5, <2>6, UnlistenOwners
  <1>. QED
    BY <1>3, <1>4, <1>5 DEF RunOnRead

LEMMA NextOInv == IInv /\ IInv' /\ OInv /\ [Next]_vars => OInv'
  <1>. SUFFICES ASSUME IInv, IInv', OInv, [Next]_vars
                PROVE  OInv'
    OBVIOUS
  <1>1. ASSUME NEW c \in Calls, CallMethod(c) \/ Release(c) \/ TimerExpires(c)
        PROVE  OInv'
    BY <1>1, CallMethodOwners, ReleaseOwners, TimerExpiresOwners
  <1>2. CASE LoopStep
    <2>1. CASE RunDangling
      <3>1. UNCHANGED <<conn, epollVars, tasks, polled, call, sock>>
        BY <2>1 DEF RunDangling, loopVars, netVars
      <3>. QED
        BY <3>1, QuietOwners DEF SameOwner
    <2>2. ASSUME NEW c \in Calls, RunHandler(c)
          PROVE  OInv'
      BY <2>2, RunConnectedOwners, RunConnectFailedOwners, RunOnWriteOwners, RunOnReadOwners
         DEF RunHandler
    <2>. QED
      BY <1>2, <2>1, <2>2, PollOwners, DispatchOwners, RunTimerOwners DEF LoopStep
  <1>3. ASSUME NEW f \in Fds, Environment(f)
        PROVE  OInv'
    BY <1>3, EnvironmentOwners
  <1>4. CASE UNCHANGED vars
    <2>1. UNCHANGED <<conn, epollVars, tasks, polled, call, sock>>
      BY <1>4 DEF vars, loopVars, netVars
    <2>. QED
      BY <2>1, QuietOwners DEF SameOwner
  <1>. QED
    BY <1>1, <1>2, <1>3, <1>4 DEF Next

LEMMA OwnersInvariance == Spec => []OInv
  BY InitOInv, Invariance, NextOInv, PTL DEF Spec

-----------------------------------------------------------------------------
\* Every variable keeps its type; the kernel watches only what m_listen_fds lists.
THEOREM TypeCorrect == Spec => []TypeOK
  <1>1. IInv => TypeOK
    BY DEF IInv, TypeOK, LoopOK, CallsOK, ConnOK, NetOK, ListOK, EventsOK, TasksOK,
           CallRecords, ConnRecords, FdEvents, Results
  <1>. QED
    BY <1>1, Invariance, PTL

\* The closure of a call runs at most once and never reports success before the
\* response is parsed, in whatever order answer, failure and timeout come.
THEOREM AtMostOneOutcome == Spec => []OneOutcome
  <1>1. IInv => OneOutcome
    BY DEF IInv, CallsOK, Outcome, OneOutcome
  <1>. QED
    BY <1>1, Invariance, PTL

\* Sockets neither leak nor are shared, whatever the calls go through: a
\* descriptor is open exactly while one call that is alive owns it.
THEOREM SocketsAreOwned == Spec => []OwnedSockets
  <1>1. OInv => OwnedSockets
    <2>. SUFFICES ASSUME OInv, NEW f \in Fds
                  PROVE  LET owners == {c \in Calls : Owns(c, f)}
                         IN  Cardinality(owners) = IF sock[f] = "free" THEN 0 ELSE 1
      BY DEF OwnedSockets, Owns
    <2>. DEFINE owners == {c \in Calls : Owns(c, f)}
    <2>1. CASE sock[f] = "free"
      <3>1. owners = {}
        BY <2>1 DEF OInv, OwnersOK
      <3>. QED
        BY <2>1, <3>1, FS_EmptySet
    <2>2. CASE sock[f] # "free"
      <3>1. PICK c \in Calls : Owns(c, f)
        BY <2>2 DEF OInv, OwnersOK
      <3>2. owners = {c}
        BY <3>1 DEF OInv, OwnersOK
      <3>. HIDE DEF owners
      <3>. QED
        BY <2>2, <3>2, FS_Singleton DEF owners
    <2>. QED
      BY <2>1, <2>2
  <1>. QED
    BY <1>1, OwnersInvariance, PTL

\* An FdEvent keeps the callbacks of calls that are over, yet when a watched
\* descriptor turns writable the call that has it now is told.
THEOREM OwnerIsTold == Spec => []WritableGoesToTheOwner
  <1>1. OInv => WritableGoesToTheOwner
    BY DEF OInv, WatchedOK, Registered, Owns, WritableGoesToTheOwner
  <1>. QED
    BY <1>1, OwnersInvariance, PTL
=============================================================================
