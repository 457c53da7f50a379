----------------------------- MODULE RpcServer -----------------------------
(***************************************************************************)
(* The server: TcpServer accepts connections on the main thread and deals  *)
(* them out to the IO threads; the TcpConnection of each is then driven by *)
(* the loop of its IO thread (onRead, decode, RpcDispatcher::dispatch, the *)
(* service, the closure, reply, onWrite), while a timer of the main thread *)
(* deletes the connections that have been closed.  The two threads share   *)
(* the TcpConnection: m_state is written by both, and the callbacks hold a *)
(* raw pointer to it.                                                      *)
(*                                                                         *)
(* A handler called for a deleted connection uses freed memory (fate       *)
(* "dangling"), a write to a reset connection ends in SIGPIPE ("killed");  *)
(* the model stops there.  Descriptors are never closed by the server, so  *)
(* their numbers are not used again: a connection and its descriptor have  *)
(* one name.  TcpInput models the buffers of the receive path, EventLoop   *)
(* how a loop takes its tasks; here a read finds whole requests and a      *)
(* write either takes all of the output or nothing (EAGAIN).               *)
(***************************************************************************)
EXTENDS Naturals, Sequences, FiniteSets, SequencesExt

CONSTANTS
    Conns,          \* connections clients make
    IoThreads,      \* number of IO threads (m_io_threads)
    MaxRequests     \* bound: number of requests the client sends, per connection

ASSUME ThreadsAssumption == IoThreads \in Nat \ {0}
ASSUME RequestsAssumption == MaxRequests \in [Conns -> Nat]

Threads == 1 .. IoThreads

\* What comes of a request.  "dropped": dispatch finds no service or method or
\* cannot parse the request, or the service returns without running done.
\* "later": the service keeps the closure and runs it in a later handler.
Kinds == {"answered", "dropped", "later"}
Requests == [no : Nat \ {0}, kind : Kinds]

Task(kind, c) == [kind |-> kind, conn |-> c]

VARIABLES
    fate,       \* "running", or how the process came to grief
    peer,       \* per connection: what the client has done
    requests,   \* per connection: requests sent and not read
    sentNo,     \* per connection: number of requests sent
    current,    \* connections whose constructor has run, but not setState
    object,     \* per connection: the TcpConnection
    state,      \* per connection: m_state
    thread,     \* per connection: its IO thread (0: none yet)
    index,      \* m_index of the IOThreadGroup (0: the initial -1)
    mask,       \* per connection: m_listen_events of its FdEvent
    watched,    \* descriptors in the interest list (and in m_listen_fds) of their loop
    polled,     \* per IO thread: results of epoll_wait not dispatched yet
    tasks,      \* per IO thread: queued tasks
    deferred,   \* per connection: requests whose closure is still to be run
    output,     \* per connection: replies in m_out_buffer
    wire        \* per connection: replies written, one entry for each time

netVars == <<peer, requests, sentNo, wire>>
objVars == <<current, object, state, thread, index>>
loopVars == <<mask, watched, polled, tasks>>
vars == <<fate, netVars, objVars, loopVars, deferred, output>>

Init ==
    /\ fate = "running"
    /\ peer = [c \in Conns |-> "away"]
    /\ requests = [c \in Conns |-> <<>>] /\ sentNo = [c \in Conns |-> 0]
    /\ wire = [c \in Conns |-> <<>>]
    /\ current = {} /\ index = 0
    /\ object = [c \in Conns |-> "none"]
    /\ state = [c \in Conns |-> "NotConnected"]
    /\ thread = [c \in Conns |-> 0]
    /\ mask = [c \in Conns |-> {}] /\ watched = {}
    /\ polled = [t \in Threads |-> {}] /\ tasks = [t \in Threads |-> <<>>]
    /\ deferred = [c \in Conns |-> {}]
    /\ output = [c \in Conns |-> <<>>]

Running == fate = "running"

(***************************************************************************)
(* The clients.                                                            *)
(***************************************************************************)

Connect(c) ==
    /\ Running /\ peer[c] = "away"
    /\ peer' = [peer EXCEPT ![c] = "backlog"]
    /\ UNCHANGED <<fate, requests, sentNo, wire, objVars, loopVars, deferred, output>>

Request(c) ==
    /\ Running /\ peer[c] \in {"backlog", "connected"} /\ sentNo[c] < MaxRequests[c]
    /\ \E k \in Kinds :
         requests' = [requests EXCEPT ![c] = Append(@, [no |-> sentNo[c] + 1, kind |-> k])]
    /\ sentNo' = [sentNo EXCEPT ![c] = @ + 1]
    /\ UNCHANGED <<fate, peer, wire, objVars, loopVars, deferred, output>>

\* The client closes (the server reads an end of file) or resets, which it may
\* also do after it has closed.
Leave(c) ==
    /\ Running
    /\ \/ peer[c] = "connected" /\ peer' = [peer EXCEPT ![c] = "fin"]
       \/ peer[c] \in {"connected", "fin"} /\ peer' = [peer EXCEPT ![c] = "reset"]
    /\ UNCHANGED <<fate, requests, sentNo, wire, objVars, loopVars, deferred, output>>

(***************************************************************************)
(* The main thread: onAccept and ClearClientTimerFunc.                     *)
(***************************************************************************)

\* fault: the index is incremented before it is used.
NextThreadPast(i) == IF i \in {0, IoThreads + 1} THEN 2 ELSE i + 1

\* getIOThread, round robin.
NextThread(i) == IF i \in {0, IoThreads} THEN 1 ELSE i + 1

\* fault: the constructor does not listen.
NoListen(c, t) == UNCHANGED <<mask, tasks>>

\* listenRead in the constructor: addEpollEvent is called from another thread
\* than the loop's and becomes a task of the loop.
ListenFromMain(c, t) ==
    /\ mask' = [mask EXCEPT ![c] = @ \cup {"in"}]
    /\ tasks' = [tasks EXCEPT ![t] = Append(@, Task("add", c))]

\* accept, and the constructor of TcpConnection.
OnAccept(c) ==
    /\ Running /\ current = {} /\ peer[c] = "backlog"
    /\ peer' = [peer EXCEPT ![c] = "connected"]
    /\ index' = NextThread(index)
    /\ thread' = [thread EXCEPT ![c] = index']
    /\ object' = [object EXCEPT ![c] = "alive"]
    /\ ListenFromMain(c, index')
    /\ current' = {c}
    /\ UNCHANGED <<fate, requests, sentNo, wire, state, watched, polled, deferred, output>>

\* setState(Connected), when the IO thread may already be in onRead.
SetState(c) ==
    /\ Running /\ c \in current
    /\ state' = [state EXCEPT ![c] = "Connected"]
    /\ current' = {}
    /\ UNCHANGED <<fate, netVars, object, thread, index, loopVars, deferred, output>>

\* The timer: one connection of m_client after the other.
ClearClient(c) ==
    /\ Running /\ current = {} /\ object[c] = "alive" /\ state[c] = "Closed"
    /\ object' = [object EXCEPT ![c] = "deleted"]
    /\ UNCHANGED <<fate, netVars, current, state, thread, index, loopVars, deferred, output>>

(***************************************************************************)
(* The loop of an IO thread.                                               *)
(***************************************************************************)

Reported(c) ==
    {k \in mask[c] \cup {"err"} :
        \/ k = "in" /\ (requests[c] # <<>> \/ peer[c] # "connected")
        \/ k = "out"
        \/ k = "err" /\ peer[c] = "reset"}

\* Tasks added by the main thread may be waiting already.
Poll(t) ==
    /\ Running /\ polled[t] = {}
    /\ \A task \in ToSet(tasks[t]) : task.kind = "add"
    /\ LET ready == {c \in watched : thread[c] = t /\ Reported(c) # {}} IN
         /\ ready # {}
         /\ polled' = [polled EXCEPT ![t] = {[conn |-> c, events |-> Reported(c)] : c \in ready}]
    /\ UNCHANGED <<fate, netVars, objVars, mask, watched, tasks, deferred, output>>

Handlers(e) ==
    (IF "in" \in e.events THEN <<Task("onRead", e.conn)>> ELSE <<>>)
      \o (IF "out" \in e.events THEN <<Task("onWrite", e.conn)>> ELSE <<>>)

\* fault: events are reported once (EPOLLONESHOT), not while they last.
DispatchOnce(t) ==
    /\ Running
    /\ \E e \in polled[t] :
         /\ polled' = [polled EXCEPT ![t] = @ \ {e}]
         /\ tasks' = [tasks EXCEPT ![t] = @ \o Handlers(e)]
         /\ watched' = watched \ {e.conn}
    /\ UNCHANGED <<fate, netVars, objVars, mask, deferred, output>>

\* The handlers are queued; a descriptor in error is deleted.
Dispatch(t) ==
    /\ Running
    /\ \E e \in polled[t] :
         /\ polled' = [polled EXCEPT ![t] = @ \ {e}]
         /\ tasks' = [tasks EXCEPT ![t] = @ \o Handlers(e)]
         /\ watched' = IF "err" \in e.events THEN watched \ {e.conn} ELSE watched
    /\ UNCHANGED <<fate, netVars, objVars, mask, deferred, output>>

Starts(t, kind, c) ==
    /\ Running /\ polled[t] = {} /\ tasks[t] # <<>> /\ Head(tasks[t]) = Task(kind, c)
    /\ tasks' = [tasks EXCEPT ![t] = Tail(@)]

\* The task of addEpollEvent uses the FdEvent only.
RunAdd(t, c) ==
    /\ Starts(t, "add", c)
    /\ watched' = watched \cup {c}
    /\ UNCHANGED <<fate, netVars, objVars, mask, polled, deferred, output>>

RunDangling(t, c) ==
    /\ Starts(t, "onRead", c) \/ Starts(t, "onWrite", c)
    /\ object[c] = "deleted"
    /\ fate' = "dangling"
    /\ UNCHANGED <<netVars, objVars, mask, watched, polled, deferred, output>>

Returns == UNCHANGED <<fate, netVars, objVars, mask, watched, deferred, output>>

\* encode and listenWrite; nobody looks at the state of the connection.
Reply(c, replies) ==
    /\ output' = [output EXCEPT ![c] = @ \o replies]
    /\ mask' = IF replies = <<>> THEN mask ELSE [mask EXCEPT ![c] = @ \cup {"out"}]
    /\ watched' = IF replies = <<>> THEN watched ELSE watched \cup {c}

\* The requests that are answered by the handler, in their order.
Answered(s) ==
    LET answered[i \in 0 .. Len(s)] ==
            IF i = 0 THEN <<>>
            ELSE IF s[i].kind = "answered" THEN Append(answered[i - 1], s[i])
            ELSE answered[i - 1]
    IN  answered[Len(s)]

\* onRead with requests: excute dispatches one after the other.
Excute(c) ==
    /\ requests' = [requests EXCEPT ![c] = <<>>]
    /\ Reply(c, Answered(requests[c]))
    /\ deferred' = [deferred EXCEPT ![c] =
         @ \cup {r \in ToSet(requests[c]) : r.kind = "later"}]
    /\ UNCHANGED <<fate, peer, sentNo, wire, objVars>>

\* fault: the state is not set.
ClearOpen(c) ==
    /\ mask' = [mask EXCEPT ![c] = {}]
    /\ watched' = watched \ {c}
    /\ UNCHANGED <<fate, netVars, objVars, deferred, output>>

\* clear(), at the end of the stream.  The descriptor stays open.
Clear(c) ==
    /\ mask' = [mask EXCEPT ![c] = {}]
    /\ watched' = watched \ {c}
    /\ state' = [state EXCEPT ![c] = "Closed"]
    /\ UNCHANGED <<fate, netVars, current, object, thread, index, deferred, output>>

\* The end of the stream is seen in the same call when the bytes before it fill
\* the buffer: then they are not decoded.
RunOnRead(t, c) ==
    /\ Starts(t, "onRead", c) /\ object[c] = "alive"
    /\ \/ state[c] # "Connected" /\ Returns
       \/ state[c] = "Connected" /\ requests[c] # <<>> /\ Excute(c)
       \/ state[c] = "Connected" /\ peer[c] \in {"fin", "reset"} /\ Clear(c)
    /\ UNCHANGED polled

\* fault: the event is cancelled even if the output was not written.
WriteOnce(c) ==
    /\ \E sent \in {output[c], <<>>} : wire' = [wire EXCEPT ![c] = @ \o sent]
    /\ mask' = [mask EXCEPT ![c] = @ \ {"out"}]
    /\ watched' = watched \cup {c}
    /\ UNCHANGED <<fate, peer, requests, sentNo, objVars, deferred, output>>

\* write() takes everything between the indices of m_out_buffer, whose read
\* index is never moved: what earlier calls have written goes out again.
Write(c) ==
    /\ wire' = [wire EXCEPT ![c] = @ \o output[c]]
    /\ mask' = [mask EXCEPT ![c] = @ \ {"out"}]
    /\ watched' = watched \cup {c}
    /\ UNCHANGED <<fate, peer, requests, sentNo, objVars, deferred, output>>

WriteForEver == fate' = "killed" /\ UNCHANGED <<netVars, objVars, mask, watched, deferred, output>>

RunOnWrite(t, c) ==
    /\ Starts(t, "onWrite", c) /\ object[c] = "alive"
    /\ IF state[c] # "Connected" THEN Returns
       ELSE IF peer[c] = "reset" THEN WriteForEver
       ELSE Write(c)
    /\ UNCHANGED polled

\* EAGAIN: the send buffer is full.
RunOnWriteAgain(t, c) ==
    /\ Starts(t, "onWrite", c) /\ object[c] = "alive" /\ state[c] = "Connected"
    /\ peer[c] # "reset"
    /\ Returns /\ UNCHANGED polled

\* A closure kept by the service is run, on the IO thread, between two tasks.
Finish(c) ==
    /\ Running /\ thread[c] # 0 /\ polled[thread[c]] = {}
    /\ \E r \in deferred[c] :
         /\ deferred' = [deferred EXCEPT ![c] = @ \ {r}]
         /\ IF object[c] = "deleted"
            THEN fate' = "dangling" /\ UNCHANGED <<mask, watched, output>>
            ELSE fate' = fate /\ Reply(c, <<r>>)
    /\ UNCHANGED <<netVars, objVars, polled, tasks>>

MainStep == \E c \in Conns : OnAccept(c) \/ SetState(c) \/ ClearClient(c)

IoStep(t) ==
    \/ Poll(t) \/ Dispatch(t)
    \/ \E c \in Conns :
         RunAdd(t, c) \/ RunDangling(t, c) \/ RunOnRead(t, c)
           \/ RunOnWrite(t, c) \/ RunOnWriteAgain(t, c)

Next ==
    \/ MainStep
    \/ \E t \in Threads : IoStep(t)
    \/ \E c \in Conns : Connect(c) \/ Request(c) \/ Leave(c) \/ Finish(c)

(***************************************************************************)
(* Each thread keeps running, the timer of the main thread comes round, and*)
(* a client that stays reads what it is sent, so that writes are not       *)
(* refused for ever.  Services owe nothing: Finish is not fair.            *)
(***************************************************************************)
Fairness ==
    /\ WF_vars(MainStep)
    /\ \A t \in Threads : WF_vars(IoStep(t))
    /\ \A c \in Conns : SF_vars(\E t \in Threads : RunOnWrite(t, c))

Spec == Init /\ [][Next]_vars /\ Fairness

(***************************************************************************)
(* Properties.                                                             *)
(***************************************************************************)

TypeOK ==
    /\ fate \in {"running", "dangling", "killed"}
    /\ peer \in [Conns -> {"away", "backlog", "connected", "fin", "reset"}]
    /\ requests \in [Conns -> Seq(Requests)]
    /\ sentNo \in [Conns -> Nat] /\ \A c \in Conns : sentNo[c] <= MaxRequests[c]
    /\ current \subseteq Conns /\ Cardinality(current) <= 1
    /\ object \in [Conns -> {"none", "alive", "deleted"}]
    /\ state \in [Conns -> {"NotConnected", "Connected", "Closed"}]
    /\ thread \in [Conns -> 0 .. IoThreads] /\ index \in 0 .. IoThreads
    /\ mask \in [Conns -> SUBSET {"in", "out"}] /\ watched \subseteq Conns
    /\ polled \in [Threads -> SUBSET [conn : Conns, events : SUBSET {"in", "out", "err"}]]
    /\ tasks \in [Threads -> Seq([kind : {"add", "onRead", "onWrite"}, conn : Conns])]
    /\ deferred \in [Conns -> SUBSET Requests]
    /\ output \in [Conns -> Seq(Requests)] /\ wire \in [Conns -> Seq(Requests)]

\* However registering from the main thread, setState, replies and cancelled
\* write events interleave, a connection that is neither closed nor reset stays
\* watched for input, or a task of its loop will watch it.
StaysReachable ==
    \A c \in Conns :
        (object[c] = "alive" /\ state[c] # "Closed" /\ peer[c] # "reset") =>
            /\ "in" \in mask[c]
            /\ \/ c \in watched
               \/ Task("add", c) \in ToSet(tasks[thread[c]])

\* The clients that send requests.
Callers == {c \in Conns : MaxRequests[c] > 0}

\* A request of a client that stays is read, also when its input was reported
\* before setState and that onRead returned without reading it.
RequestsAreRead ==
    \A c \in Callers :
        (requests[c] # <<>>) ~>
            (requests[c] = <<>> \/ peer[c] \in {"fin", "reset"} \/ fate # "running")

\* A connection whose client has closed is cleared by its IO thread and then
\* deleted by the timer of the main thread (unless the client resets it too).
ClosedIsDeleted ==
    \A c \in Conns :
        (peer[c] = "fin") ~>
            (object[c] = "deleted" \/ peer[c] = "reset" \/ fate # "running")

\* A reply that is in the output buffer, alone or behind others, put there
\* while another write was being refused or had just been cancelled, is written.
RepliesAreSent ==
    \A c \in Callers :
        (output[c] # <<>>) ~>
            \/ ToSet(output[c]) \subseteq ToSet(wire[c])
            \/ state[c] = "Closed" \/ peer[c] = "reset" \/ fate # "running"

\* tcp_server.cc:74 says that the timer goes over all connections and cleans up
\* those that are broken: also a connection its client has reset is deleted.
BrokenIsDeleted ==
    \A c \in Conns :
        (peer[c] \in {"fin", "reset"}) ~> (object[c] = "deleted" \/ fate # "running")
=============================================================================
