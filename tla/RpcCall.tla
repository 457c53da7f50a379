------------------------------ MODULE RpcCall ------------------------------
(***************************************************************************)
(* The client side of a remote call: RpcChannel::CallMethod, the TcpClient *)
(* and TcpConnection it creates, the RpcController that tells how the call *)
(* went, the timer that limits it, and the event loop of the calling       *)
(* thread, through which all of them take turns.                           *)
(*                                                                         *)
(* Everything runs on the thread of the loop: loop() runs the handlers it  *)
(* has queued, asks epoll, queues the handlers registered for what epoll   *)
(* reports, and so on; application code runs as part of some handler.      *)
(* EventLoop, TimerQueue and TcpInput model the loop, the timers and the   *)
(* receive path in detail.                                                 *)
(*                                                                         *)
(* The callbacks hold a raw `this'; what keeps a channel, its client and   *)
(* its connection alive are the application's pointer and the shared       *)
(* pointer captured by the timer's lambda.  A handler that is called when  *)
(* both are gone uses a destructed object (fate "dangling"); one that      *)
(* writes to a reset connection never gets out of onWrite's loop alive     *)
(* (SIGPIPE at the second write, fate "killed").  The model stops there    *)
(* and the properties speak of executions up to it.                        *)
(*                                                                         *)
(* The channel has been Init()ed with a closure, and neither controller,   *)
(* request nor response is NULL.  A request fits the kernel's send buffer. *)
(***************************************************************************)
EXTENDS Naturals, Sequences, FiniteSets

CONSTANTS
    MaxCalls,   \* bound: calls made
    Fds         \* descriptors the sockets of the calls may get

ASSUME CallsAssumption == MaxCalls \in Nat

Calls == 1 .. MaxCalls
NoFd == 0
ASSUME FdsAssumption == NoFd \notin Fds

\* What the peer may answer: a response, an error code, data the response type
\* does not parse, a message with an id nobody waits for.
Replies == {"response", "error", "garbage", "stray"}

Handler(kind, c) == [kind |-> kind, call |-> c]
NoHandler == Handler("none", 0)
OnTimer == Handler("timer", 0)
Handlers == {NoHandler, OnTimer}
              \cup {Handler(k, c) : k \in {"connect", "onWrite", "onRead"}, c \in Calls}

VARIABLES
    fate,       \* "running", or how the process came to grief
    looping,    \* m_is_looping
    polled,     \* results of epoll_wait that are not dispatched yet
    tasks,      \* queued handlers
    call,       \* per call: controller, channel, timer
    conn,       \* per call: TcpClient and TcpConnection
    sock,       \* per descriptor: state of the socket
    inbox,      \* per descriptor: the answer that has arrived
    asked,      \* sockets with a request the peer has not answered
    fdEvent,    \* per descriptor: the FdEvent of the FdEventGroup
    listed,     \* m_listen_fds
    watched     \* the kernel's interest list

loopVars == <<looping, polled, tasks>>
epollVars == <<fdEvent, listed, watched>>
netVars == <<sock, inbox, asked>>
vars == <<fate, loopVars, call, conn, netVars, epollVars>>

Init ==
    /\ fate = "running"
    /\ looping \in BOOLEAN      \* the caller is, or is not, a handler of the loop
    /\ polled = {} /\ tasks = <<>>
    /\ call = [c \in Calls |->
         [made |-> FALSE, inside |-> FALSE, held |-> TRUE, timer |-> "none",
          finished |-> FALSE, canceled |-> FALSE, code |-> "none",
          parsed |-> FALSE, seen |-> <<>>]]
    /\ conn = [c \in Calls |->
         [fd |-> NoFd, event |-> NoFd, state |-> "NotConnected",
          writeDone |-> FALSE, readDone |-> FALSE]]
    /\ sock = [f \in Fds |-> "free"] /\ inbox = [f \in Fds |-> "none"] /\ asked = {}
    /\ fdEvent = [f \in Fds |-> [mask |-> {}, in |-> NoHandler, out |-> NoHandler]]
    /\ listed = {} /\ watched = {}

(***************************************************************************)
(* RpcController and RpcChannel::callBack, on the record of one call.      *)
(* `seen' are the error codes the closure found when it ran.               *)
(***************************************************************************)

SetError(r, code) == [r EXCEPT !.code = code]

StartCancel(r) == [r EXCEPT !.canceled = TRUE, !.finished = TRUE]

\* fault: a call that is finished already is reported again.
CallBackAlways(r) == [r EXCEPT !.seen = Append(@, r.code), !.finished = TRUE]

CallBack(r) ==
    IF r.finished THEN r
    ELSE [r EXCEPT !.seen = Append(@, r.code), !.finished = TRUE]

\* fault: a call that did not finish in time is not marked as finished.
TimedOutUnmarked(r) ==
    IF r.finished THEN [r EXCEPT !.timer = "fired"]
    ELSE SetError([r EXCEPT !.timer = "fired"], "timeout")

\* The timer's lambda.  StartCancel marks the call finished, so callBack
\* returns without running the closure.
TimedOut(r) ==
    IF r.finished THEN [r EXCEPT !.timer = "fired"]
    ELSE CallBack(SetError(StartCancel([r EXCEPT !.timer = "fired"]), "timeout"))

\* The lambda readMessage registers.
Answered(r, m) ==
    CASE m = "response" -> CallBack([r EXCEPT !.parsed = TRUE])
      [] m = "garbage"  -> CallBack(SetError(r, "serialize"))
      [] m = "error"    -> CallBack(SetError([r EXCEPT !.parsed = TRUE], "peer"))

(***************************************************************************)
(* Who keeps the channel of a call, and with it client and connection.     *)
(***************************************************************************)

Alive(r) == r.held \/ r.timer \in {"armed", "due"}

\* fault: the client's destructor leaves its descriptor open.
NothingCloses(calls) == {}

\* ~TcpClient, for every channel that loses its last pointer.
ClosedWith(calls) ==
    {conn[c].fd : c \in {d \in Calls : Alive(call[d]) /\ ~Alive(calls[d])}} \ {NoFd}

\* Closing a socket takes it out of the kernel's list, not out of m_listen_fds.
Close(fds) ==
    /\ sock' = [f \in Fds |-> IF f \in fds THEN "free" ELSE sock[f]]
    /\ inbox' = [f \in Fds |-> IF f \in fds THEN "none" ELSE inbox[f]]
    /\ asked' = asked \ fds
    /\ watched' = watched \ fds

(***************************************************************************)
(* FdEvent::listen and cancle; addEpollEvent and deleteEpollEvent.         *)
(***************************************************************************)

\* fault: a callback that was registered before is kept.
ListenOnce(ev, kind, h) ==
    IF kind = "in" THEN [ev EXCEPT !.mask = @ \cup {"in"},
                                   !.in = IF @ = NoHandler THEN h ELSE @]
    ELSE [ev EXCEPT !.mask = @ \cup {"out"}, !.out = IF @ = NoHandler THEN h ELSE @]

Listen(ev, kind, h) ==
    IF kind = "in" THEN [ev EXCEPT !.mask = @ \cup {"in"}, !.in = h]
    ELSE [ev EXCEPT !.mask = @ \cup {"out"}, !.out = h]

Cancle(ev, kind) == [ev EXCEPT !.mask = @ \ {kind}]

\* A listed descriptor is modified, which fails if the kernel does not have it.
AddToEpoll(f) ==
    /\ listed' = listed \cup {f}
    /\ watched' = IF f \in listed THEN watched ELSE watched \cup {f}

\* fault: the entry is erased without EPOLL_CTL_DEL.
EraseOnly(f) == listed' = listed \ {f} /\ UNCHANGED watched

DeleteFromEpoll(f) ==
    /\ listed' = listed \ {f}
    /\ watched' = IF f \in listed THEN watched \ {f} ELSE watched

SetEvent(f, ev) == fdEvent' = [fdEvent EXCEPT ![f] = ev]

(***************************************************************************)
(* CallMethod.                                                             *)
(***************************************************************************)

\* Application code runs between two handlers.
Between == fate = "running" /\ polled = {}

Callable(c) == Between /\ ~call[c].made /\ \A d \in 1 .. c - 1 : call[d].made

Made(c) == [call[c] EXCEPT !.made = TRUE]
SetCall(c, r) == call' = [call EXCEPT ![c] = r]

\* TcpClient::TcpClient: any free descriptor, or none.
NewSocket(c, f) ==
    /\ IF f = NoFd THEN \A g \in Fds : sock[g] # "free" ELSE sock[f] = "free"
    /\ conn' = [conn EXCEPT ![c].fd = f, ![c].event = f]

\* Errors found before anything is sent: no peer address (no client is made),
\* a request that cannot be serialized.
Rejected(c) ==
    /\ Callable(c)
    /\ SetCall(c, CallBack(SetError(Made(c), "rejected")))
    /\ \/ UNCHANGED <<conn, sock>>
       \/ \E f \in Fds : NewSocket(c, f) /\ sock' = [sock EXCEPT ![f] = "fresh"]
    /\ UNCHANGED <<fate, loopVars, inbox, asked, epollVars>>

\* From here on the timer holds the channel.
Timed(c) == [Made(c) EXCEPT !.timer = "armed"]

\* ::connect fails at once: done() reports the error.
ConnectFails(c) ==
    /\ Callable(c)
    /\ SetCall(c, CallBack(SetError(Timed(c), "connect")))
    /\ \E f \in Fds \cup {NoFd} :
         /\ NewSocket(c, f)
         /\ sock' = [g \in Fds |-> IF g = f THEN "fresh" ELSE sock[g]]
    /\ UNCHANGED <<fate, loopVars, inbox, asked, epollVars>>

\* EINPROGRESS: the connection is completed by a handler.  If the loop is not
\* running, it runs from here on, inside CallMethod.
ConnectBegins(c) ==
    /\ Callable(c)
    /\ SetCall(c, [Timed(c) EXCEPT !.inside = ~looping])
    /\ \E f \in Fds :
         /\ NewSocket(c, f)
         /\ sock' = [sock EXCEPT ![f] = "connecting"]
         /\ SetEvent(f, Listen(fdEvent[f], "out", Handler("connect", c)))
         /\ AddToEpoll(f)
    /\ looping' = TRUE
    /\ UNCHANGED <<fate, polled, tasks, inbox, asked>>

\* ::connect succeeds at once: done() sends the request.
ConnectAtOnce(c) ==
    /\ Callable(c)
    /\ SetCall(c, Timed(c))
    /\ \E f \in Fds :
         /\ sock[f] = "free" /\ sock' = [sock EXCEPT ![f] = "established"]
         /\ conn' = [conn EXCEPT ![c] = [fd |-> f, event |-> f, state |-> "Connected",
                                        writeDone |-> TRUE, readDone |-> FALSE]]
         /\ SetEvent(f, Listen(fdEvent[f], "out", Handler("onWrite", c)))
         /\ AddToEpoll(f)
    /\ UNCHANGED <<fate, loopVars, inbox, asked>>

\* The application drops its pointer, once CallMethod has returned.
Release(c) ==
    /\ Between /\ call[c].made /\ call[c].held /\ ~call[c].inside
    /\ call' = [call EXCEPT ![c].held = FALSE]
    /\ Close(ClosedWith(call'))
    /\ UNCHANGED <<fate, loopVars, conn, fdEvent, listed>>

(***************************************************************************)
(* EventLoop::loop.                                                        *)
(***************************************************************************)

Broken(f) == sock[f] \in {"refused", "reset"}

Reported(f) ==
    {k \in fdEvent[f].mask \cup {"err"} :
        \/ k = "in" /\ (inbox[f] # "none" \/ sock[f] = "fin" \/ Broken(f))
        \/ k = "out" /\ (sock[f] \in {"established", "fin"} \/ Broken(f))
        \/ k = "err" /\ Broken(f)}

TimerDue == \E c \in Calls : call[c].timer = "due"

Ready ==
    {[fd |-> f, events |-> Reported(f)] : f \in {g \in watched : Reported(g) # {}}}
      \cup {[fd |-> NoFd, events |-> {"in"}] : t \in {TRUE} \cap {TimerDue}}

Poll ==
    /\ Between /\ looping /\ tasks = <<>>
    /\ Ready # {} /\ polled' = Ready
    /\ UNCHANGED <<fate, looping, tasks, call, conn, netVars, epollVars>>

\* (Queueing the empty function of an event nobody listened to has no effect.)
Queued(h) == IF h = NoHandler THEN <<>> ELSE <<h>>

HandlersFor(e) ==
    IF e.fd = NoFd THEN <<OnTimer>>
    ELSE (IF "in" \in e.events THEN Queued(fdEvent[e.fd].in) ELSE <<>>)
           \o (IF "out" \in e.events THEN Queued(fdEvent[e.fd].out) ELSE <<>>)

\* The handlers an FdEvent holds now.  A descriptor in error is deleted.
Dispatch ==
    /\ fate = "running"
    /\ \E e \in polled :
         /\ polled' = polled \ {e}
         /\ tasks' = tasks \o HandlersFor(e)
         /\ IF "err" \in e.events THEN DeleteFromEpoll(e.fd) ELSE UNCHANGED <<listed, watched>>
    /\ UNCHANGED <<fate, looping, call, conn, netVars, fdEvent>>

\* The next handler.  All handlers but the timer's use the objects of a call.
Starts(kind, c) ==
    /\ Between /\ tasks # <<>> /\ Head(tasks) = Handler(kind, c)
    /\ c # 0 => Alive(call[c])
    /\ tasks' = Tail(tasks)

\* Nothing holds the channel any more.
RunDangling ==
    /\ Between /\ tasks # <<>>
    /\ LET c == Head(tasks).call IN c # 0 /\ ~Alive(call[c])
    /\ fate' = "dangling"
    /\ UNCHANGED <<loopVars, call, conn, netVars, epollVars>>

\* TimerEvents that are due.  With the lambda goes its hold on the channel.
RunTimer ==
    /\ Starts("timer", 0)
    /\ call' = [c \in Calls |-> IF call[c].timer = "due" THEN TimedOut(call[c]) ELSE call[c]]
    /\ Close(ClosedWith(call'))
    /\ UNCHANGED <<fate, looping, polled, conn, fdEvent, listed>>

\* The socket turned writable and the second ::connect says it is connected:
\* deleteEpollEvent, then writeMessage adds the descriptor afresh.
RunConnected(c) ==
    LET f == conn[c].event IN
    /\ Starts("connect", c)
    /\ sock[f] \in {"established", "fin"}
    /\ conn' = [conn EXCEPT ![c].state = "Connected", ![c].writeDone = TRUE]
    /\ SetEvent(f, Listen(fdEvent[f], "out", Handler("onWrite", c)))
    /\ listed' = listed \cup {f} /\ watched' = watched \cup {f}
    /\ UNCHANGED <<fate, looping, polled, call, netVars>>

\* Otherwise the descriptor is closed, another one opened in its place, and the
\* error reported.
RunConnectFailed(c) ==
    LET f == conn[c].event IN
    /\ Starts("connect", c)
    /\ sock[f] \notin {"established", "fin"}
    /\ \E g \in {h \in Fds : h = f \/ sock[h] = "free"} :
         /\ conn' = [conn EXCEPT ![c].fd = g]
         /\ sock' = [sock EXCEPT ![f] = "free", ![g] = "fresh"]
    /\ inbox' = [inbox EXCEPT ![f] = "none"] /\ asked' = asked \ {f}
    /\ listed' = listed \ {f} /\ watched' = watched \ {f}
    /\ SetCall(c, CallBack(SetError(call[c], "connect")))
    /\ UNCHANGED <<fate, looping, polled, fdEvent>>

(***************************************************************************)
(* TcpConnection::onWrite and onRead of a client's connection.             *)
(***************************************************************************)

\* The request goes out; then its done function registers for the answer.
Write(c) ==
    LET f == conn[c].event IN
    /\ asked' = asked \cup {f}
    /\ conn' = [conn EXCEPT ![c].writeDone = FALSE, ![c].readDone = TRUE]
    /\ SetEvent(f, Listen(Cancle(fdEvent[f], "out"), "in", Handler("onRead", c)))
    /\ AddToEpoll(f)
    /\ UNCHANGED <<fate, call, sock, inbox>>

\* write() fails with an error that is not EAGAIN: onWrite calls it again.
WriteForEver ==
    fate' = "killed" /\ UNCHANGED <<call, conn, netVars, epollVars>>

NothingToDo == UNCHANGED <<fate, call, conn, netVars, epollVars>>

RunOnWrite(c) ==
    /\ Starts("onWrite", c)
    /\ IF conn[c].state # "Connected" THEN NothingToDo
       ELSE IF sock[conn[c].event] = "reset" THEN WriteForEver
       ELSE Write(c)
    /\ UNCHANGED <<looping, polled>>

\* An answer is dropped when nobody waits for its id.
Answer(c) ==
    LET f == conn[c].event
        m == inbox[f]
    IN  /\ inbox' = [inbox EXCEPT ![f] = "none"]
        /\ IF m = "stray" \/ ~conn[c].readDone THEN UNCHANGED <<call, conn>>
           ELSE /\ SetCall(c, Answered(call[c], m))
                /\ conn' = [conn EXCEPT ![c].readDone = FALSE]
        /\ UNCHANGED <<fate, sock, asked, epollVars>>

\* clear(), when the peer has closed or reset the connection; the call is not
\* told.
Clear(c) ==
    LET f == conn[c].event IN
    /\ conn' = [conn EXCEPT ![c].state = "Closed"]
    /\ SetEvent(f, Cancle(Cancle(fdEvent[f], "in"), "out"))
    /\ DeleteFromEpoll(f)
    /\ UNCHANGED <<fate, call, netVars>>

RunOnRead(c) ==
    LET f == conn[c].event IN
    /\ Starts("onRead", c)
    /\ IF conn[c].state # "Connected" THEN NothingToDo
       ELSE IF inbox[f] # "none" THEN Answer(c)
       ELSE IF sock[f] \in {"fin", "reset"} THEN Clear(c)
       ELSE NothingToDo
    /\ UNCHANGED <<looping, polled>>

(***************************************************************************)
(* The network, the peer and the clock.                                    *)
(***************************************************************************)

SocketBecomes(f, from, to) ==
    /\ fate = "running" /\ sock[f] = from
    /\ sock' = [sock EXCEPT ![f] = to]
    /\ UNCHANGED <<fate, loopVars, call, conn, inbox, asked, epollVars>>

Connects(f) == SocketBecomes(f, "connecting", "established")
Refuses(f) == SocketBecomes(f, "connecting", "refused")
PeerCloses(f) == SocketBecomes(f, "established", "fin")
PeerResets(f) == SocketBecomes(f, "established", "reset")

PeerAnswers(f) ==
    /\ fate = "running" /\ f \in asked /\ sock[f] = "established"
    /\ \E m \in Replies : inbox' = [inbox EXCEPT ![f] = m]
    /\ asked' = asked \ {f}
    /\ UNCHANGED <<fate, loopVars, call, conn, sock, epollVars>>

TimerExpires(c) ==
    /\ fate = "running" /\ call[c].timer = "armed"
    /\ call' = [call EXCEPT ![c].timer = "due"]
    /\ UNCHANGED <<fate, loopVars, conn, netVars, epollVars>>

CallMethod(c) == Rejected(c) \/ ConnectFails(c) \/ ConnectBegins(c) \/ ConnectAtOnce(c)

RunHandler(c) == RunConnected(c) \/ RunConnectFailed(c) \/ RunOnWrite(c) \/ RunOnRead(c)

LoopStep ==
    \/ Poll \/ Dispatch \/ RunTimer \/ RunDangling
    \/ \E c \in Calls : RunHandler(c)

Environment(f) == Connects(f) \/ Refuses(f) \/ PeerCloses(f) \/ PeerResets(f) \/ PeerAnswers(f)

Next ==
    \/ \E c \in Calls : CallMethod(c) \/ Release(c) \/ TimerExpires(c)
    \/ LoopStep
    \/ \E f \in Fds : Environment(f)

\* A loop that runs keeps running, and time passes.  The peer owes nothing.
Fairness == WF_vars(LoopStep) /\ \A c \in Calls : WF_vars(TimerExpires(c))

Spec == Init /\ [][Next]_vars /\ Fairness

(***************************************************************************)
(* Properties.                                                             *)
(***************************************************************************)

Codes == {"none", "rejected", "connect", "serialize", "peer", "timeout"}

TypeOK ==
    /\ fate \in {"running", "dangling", "killed"}
    /\ looping \in BOOLEAN
    /\ polled \subseteq [fd : Fds \cup {NoFd}, events : SUBSET {"in", "out", "err"}]
    /\ tasks \in Seq(Handlers)
    /\ call \in [Calls -> [made : BOOLEAN, inside : BOOLEAN, held : BOOLEAN,
                          timer : {"none", "armed", "due", "fired"},
                          finished : BOOLEAN, canceled : BOOLEAN, code : Codes,
                          parsed : BOOLEAN, seen : Seq(Codes)]]
    /\ conn \in [Calls -> [fd : Fds \cup {NoFd}, event : Fds \cup {NoFd},
                          state : {"NotConnected", "Connected", "Closed"},
                          writeDone : BOOLEAN, readDone : BOOLEAN]]
    /\ sock \in [Fds -> {"free", "fresh", "connecting", "established", "fin",
                          "refused", "reset"}]
    /\ inbox \in [Fds -> Replies \cup {"none"}]
    /\ asked \subseteq Fds
    /\ fdEvent \in [Fds -> [mask : SUBSET {"in", "out"}, in : Handlers, out : Handlers]]
    /\ watched \subseteq listed /\ listed \subseteq Fds

\* However answer, failure and timeout race, the closure runs at most once;
\* it has run exactly when the call is finished and was not cancelled; and it
\* finds the error code "none" only after the response was parsed.
OneOutcome ==
    \A c \in Calls :
        /\ Len(call[c].seen) = IF call[c].finished /\ ~call[c].canceled THEN 1 ELSE 0
        /\ call[c].seen = <<"none">> => call[c].parsed

\* Sockets neither leak nor are shared: a descriptor is open exactly while one
\* channel that is alive owns it, whatever it went through (rejected, refused
\* and reopened, timed out, released).
OwnedSockets ==
    \A f \in Fds :
        LET owners == {c \in Calls : call[c].made /\ conn[c].fd = f /\ Alive(call[c])}
        IN  Cardinality(owners) = IF sock[f] = "free" THEN 0 ELSE 1

\* FdEvents outlive connections and keep their callbacks.  Still, that a watched
\* descriptor turns writable is told to the call whose connection has it now.
WritableGoesToTheOwner ==
    \A f \in watched :
        "out" \in fdEvent[f].mask =>
            LET c == fdEvent[f].out.call IN conn[c].event = f /\ Alive(call[c])

\* Once a call has been made and the loop runs, the call comes to an end: at the
\* latest when its timer expires.
CallFinishes ==
    \A c \in Calls :
        (looping /\ call[c].made) ~> (call[c].finished \/ fate # "running")

\* rpc_channel.cc:105 says that the call is timed out so that the timeout is
\* reported, and test_rpc_client.cc:86-105 has the closure report it: the
\* closure of each call runs.
ClosureRuns ==
    \A c \in Calls :
        (looping /\ call[c].made) ~> (call[c].seen # <<>> \/ fate # "running")

\* tcp_client.cc:38 says that done is executed if the connection succeeds.
ConnectedIsDone ==
    \A c \in Calls : \A f \in Fds :
        (conn[c].event = f /\ Alive(call[c]) /\ sock[f] = "established")
          ~> (conn[c].state = "Connected" \/ ~Alive(call[c]) \/ sock[f] # "established"
              \/ fate # "running")

\* rpc_channel.cc:103 says that the shared pointer keeps the object from being
\* destructed under a `this': no handler of a destructed channel is run.
NoDanglingThis == fate # "dangling"
=============================================================================
