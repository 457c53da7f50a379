----------------------------- MODULE TcpOutput -----------------------------
(***************************************************************************)
(* The sending half of a connection.  On the server, reply() encodes a     *)
(* message into m_out_buffer; on the client, writeMessage() keeps it in    *)
(* m_write_dones and onWrite encodes it.  Either way the write event is    *)
(* listened to, and onWrite writes the readable part of m_out_buffer to    *)
(* the non-blocking socket.                                                *)
(*                                                                         *)
(* onWrite never moves the read index of m_out_buffer: the buffer keeps    *)
(* every message of the connection, each write() starts with the first of  *)
(* them, and what the peer finds on the stream is a sequence of prefixes   *)
(* of that content, some cut in the middle of a message.  A message gets   *)
(* through when it appears whole on the stream; that the peer's decode     *)
(* finds it among the rests of others is not part of this module.          *)
(*                                                                         *)
(* All functions run on the thread of the connection's loop.  A done       *)
(* function that sends the next message is not modelled.                   *)
(***************************************************************************)
EXTENDS TcpBuffer, FiniteSetsExt, SequencesExt

CONSTANTS
    Types,          \* kinds of connection: "server", "client"
    Encoded,        \* the bytes encodeTinyPB makes of each message, in sending order
    BufferSize,     \* initial size of m_out_buffer
    SendBuffer      \* bytes the kernel keeps for a peer that does not read

ASSUME TypesAssumption == Types \subseteq {"server", "client"}
ASSUME EncodedAssumption == Encoded \in Seq(Seq(Byte) \ {<<>>})
ASSUME SizesAssumption == BufferSize \in Nat \ {0} /\ SendBuffer \in Nat \ {0}

MaxMessages == Len(Encoded)

VARIABLES
    type,       \* m_connection_type
    sent,       \* number of messages handed to reply() or writeMessage()
    writeDones, \* m_write_dones: the numbers of its messages
    messages,   \* those of them onWrite has still to encode
    outBuffer,  \* m_out_buffer
    out,        \* the write event is listened to and registered with epoll
    polled,     \* onWrite is in the loop's batch of tasks
    pc,         \* inside onWrite ("write") or not ("idle")
    state,      \* m_state
    fate,       \* "killed" once a write to a broken connection has raised SIGPIPE
    socket,     \* bytes write() has accepted and the peer has not read
    peer,       \* "open", "closed" or "reset"
    seen,       \* the bytes of an unfinished message the peer has read last
    received,   \* messages the peer has found whole on the stream
    written     \* messages there were when write() last accepted everything

connVars == <<type, sent, writeDones, messages, outBuffer, state>>
loopVars == <<out, polled, pc, fate>>
peerVars == <<socket, peer, seen, received>>
vars == <<connVars, loopVars, peerVars, written>>

Init ==
    /\ type \in Types
    /\ sent = 0 /\ writeDones = <<>> /\ messages = <<>>
    /\ outBuffer = NewBuffer(BufferSize)
    /\ state = "Connected"
    /\ out = FALSE /\ polled = FALSE /\ pc = "idle" /\ fate = "running"
    /\ socket = <<>> /\ peer = "open" /\ seen = <<>> /\ received = {}
    /\ written = 0

Between == fate = "running" /\ pc = "idle"

(***************************************************************************)
(* Sending.                                                                *)
(***************************************************************************)

\* An iteration of encode(): message m goes to the end of m_out_buffer.
Encode(m) == outBuffer' = WriteToBuffer(outBuffer, Encoded[m])

\* fault: the write event is listened to only while nothing else is waiting.
ListenWriteOnce == out' = (out \/ ReadAble(outBuffer) = 0)

\* The handler is set anew and the descriptor added to epoll.
ListenWrite == out' = TRUE

\* reply() of the server's connection; it does not look at the state.
Reply ==
    /\ Between /\ type = "server" /\ sent < MaxMessages
    /\ sent' = sent + 1
    /\ Encode(sent + 1)
    /\ ListenWrite
    /\ UNCHANGED <<type, writeDones, messages, state, polled, pc, fate, peerVars, written>>

\* TcpClient::writeMessage().
WriteMessage ==
    /\ Between /\ type = "client" /\ sent < MaxMessages
    /\ sent' = sent + 1
    /\ writeDones' = Append(writeDones, sent + 1)
    /\ ListenWrite
    /\ UNCHANGED <<type, messages, outBuffer, state, polled, pc, fate, peerVars, written>>

(***************************************************************************)
(* The loop.                                                               *)
(***************************************************************************)

Room == SendBuffer - Len(socket)

\* The write event, level-triggered.  (The kernel waits for more room than one
\* byte; how much is left open.)  A descriptor in error leaves epoll.
Poll ==
    /\ Between /\ ~polled /\ out
    /\ Room > 0 \/ peer = "reset"
    /\ polled' = TRUE
    /\ out' = (peer # "reset")
    /\ UNCHANGED <<connVars, pc, fate, peerVars, written>>

\* onWrite without a connection returns, and leaves the event registered.
OnWriteReturns ==
    /\ Between /\ polled /\ state # "Connected"
    /\ polled' = FALSE
    /\ UNCHANGED <<connVars, out, pc, fate, peerVars, written>>

\* Otherwise it goes through what the client has to send.
OnWrite ==
    /\ Between /\ polled /\ state = "Connected"
    /\ polled' = FALSE
    /\ pc' = "write"
    /\ messages' = writeDones
    /\ UNCHANGED <<type, sent, writeDones, outBuffer, state, out, fate, peerVars, written>>

EncodeNext ==
    /\ fate = "running" /\ pc = "write" /\ messages # <<>>
    /\ Encode(Head(messages))
    /\ messages' = Tail(messages)
    /\ UNCHANGED <<type, sent, writeDones, state, loopVars, peerVars, written>>

Writing == fate = "running" /\ pc = "write" /\ messages = <<>> /\ peer # "reset"

\* write() takes what there is room for, from the read index.
Accepts(n) == socket' = socket \o SubSeq(Content(outBuffer), 1, n)

\* The done functions run and are forgotten, whether or not their messages went.
Returns == pc' = "idle" /\ writeDones' = <<>>

\* fault: a short write counts as a complete one.
WriteAllOrSome ==
    /\ Writing /\ Room > 0
    /\ Accepts(IF Room < ReadAble(outBuffer) THEN Room ELSE ReadAble(outBuffer))
    /\ Returns
    /\ out' = FALSE
    /\ written' = sent
    /\ UNCHANGED <<type, sent, messages, outBuffer, state, polled, fate, peer, seen, received>>

\* Everything is accepted: the write event is cancelled.
WriteAll ==
    /\ Writing /\ ReadAble(outBuffer) <= Room
    /\ Accepts(ReadAble(outBuffer))
    /\ Returns
    /\ out' = FALSE
    /\ written' = sent
    /\ UNCHANGED <<type, sent, messages, outBuffer, state, polled, fate, peer, seen, received>>

\* Only a part is: the loop goes round again, with the same read index.
WritePart ==
    /\ Writing /\ Room > 0 /\ Room < ReadAble(outBuffer)
    /\ Accepts(Room)
    /\ UNCHANGED <<connVars, loopVars, peer, seen, received, written>>

\* EAGAIN: the event stays, so that onWrite is called again.
WriteAgain ==
    /\ Writing /\ Room = 0
    /\ Returns
    /\ UNCHANGED <<type, sent, messages, outBuffer, state, out, polled, fate, peerVars, written>>

\* Any other error: the loop calls write() again, which raises SIGPIPE.
WriteForEver ==
    /\ fate = "running" /\ pc = "write" /\ messages = <<>> /\ peer = "reset"
    /\ fate' = "killed"
    /\ UNCHANGED <<connVars, out, polled, pc, peerVars, written>>

\* onRead finds that the peer has gone: clear().
Clear ==
    /\ Between /\ peer # "open" /\ state = "Connected"
    /\ state' = "Closed"
    /\ out' = FALSE
    /\ UNCHANGED <<type, sent, writeDones, messages, outBuffer, polled, pc, fate, peerVars,
                   written>>

LoopStep ==
    \/ Poll \/ OnWriteReturns \/ OnWrite \/ EncodeNext
    \/ WriteAll \/ WritePart \/ WriteAgain \/ WriteForEver
    \/ Clear

(***************************************************************************)
(* The peer.                                                               *)
(***************************************************************************)

Suffix(s, n) == SubSeq(s, Len(s) - n + 1, Len(s))

\* The end of a piece of the stream that may be the beginning of a message.
Unfinished(s) ==
    LET Begins(n) == \E k \in DOMAIN Encoded : IsPrefix(Suffix(s, n), Encoded[k])
    IN  Suffix(s, Max({0} \cup {n \in 1 .. Len(s) : Begins(n)}))

\* Messages that occur in a piece of the stream.
Found(s) ==
    {k \in DOMAIN Encoded :
        \E i \in 0 .. Len(s) - Len(Encoded[k]) :
            SubSeq(s, i + 1, i + Len(Encoded[k])) = Encoded[k]}

PeerReads(n) ==
    /\ peer = "open" /\ n \in 1 .. Len(socket)
    /\ LET stream == seen \o SubSeq(socket, 1, n) IN
         /\ received' = received \cup Found(stream)
         /\ seen' = Unfinished(stream)
    /\ socket' = SubSeq(socket, n + 1, Len(socket))
    /\ UNCHANGED <<connVars, loopVars, peer, written>>

PeerReadsAll == PeerReads(Len(socket))

PeerGoes(how) ==
    /\ peer = "open" /\ fate = "running"
    /\ peer' = how
    /\ UNCHANGED <<connVars, loopVars, socket, seen, received, written>>

Next ==
    \/ Reply \/ WriteMessage
    \/ LoopStep
    \/ \E n \in 1 .. SendBuffer : PeerReads(n)
    \/ PeerGoes("closed") \/ PeerGoes("reset")

(***************************************************************************)
(* The loop runs; the peer catches up now and then with everything the     *)
(* kernel holds for it, as onRead does, which reads until nothing is left. *)
(* (A peer that took a byte at a time would let write() accept one byte at *)
(* a time, each time the first of m_out_buffer.)                           *)
(***************************************************************************)
Fairness == WF_vars(LoopStep) /\ WF_vars(PeerReadsAll)

Spec == Init /\ [][Next]_vars /\ Fairness

(***************************************************************************)
(* Properties.                                                             *)
(***************************************************************************)

TypeOK ==
    /\ type \in Types
    /\ sent \in 0 .. MaxMessages /\ written \in 0 .. sent
    /\ writeDones \in Seq(1 .. MaxMessages) /\ messages \in Seq(1 .. MaxMessages)
    /\ outBuffer.size \in Nat /\ outBuffer \in Buffers(outBuffer.size)
    /\ out \in BOOLEAN /\ polled \in BOOLEAN
    /\ pc \in {"idle", "write"}
    /\ state \in {"Connected", "Closed"}
    /\ fate \in {"running", "killed"}
    /\ socket \in Seq(Byte) /\ Len(socket) <= SendBuffer
    /\ peer \in {"open", "closed", "reset"}
    /\ seen \in Seq(Byte)
    /\ received \subseteq 1 .. MaxMessages

\* While the peer is there, the loop watches for room in the socket exactly as
\* long as a message waits that no complete write() has covered, whatever short
\* writes, EAGAIN, further messages and queued handlers come in between.  (A
\* write event too few stalls the message, one too many makes the loop spin.)
WatchesWhileUnsent ==
    (Between /\ peer = "open") => (out <=> written < sent)

\* The messages that have been encoded so far: all those sent but the ones the
\* client has not come to.
InBuffer == sent - Len(IF pc = "write" THEN messages ELSE writeDones)

\* m_out_buffer holds every message of the connection, whole and in order,
\* through all the times the vector was grown and onWrite was called.
HoldsEverything == Content(outBuffer) = FlattenSeq(SubSeq(Encoded, 1, InBuffer))

\* The sending half is a channel that loses and reorders nothing while open.
Channel == INSTANCE ReplyChannel WITH
    MaxMessages <- MaxMessages,
    sent        <- sent,
    received    <- received,
    open        <- peer = "open" /\ fate = "running"
ImplementsChannel == Channel!Spec

\* tcp_connection.cc:131 says that onWrite sends all that is in m_out_buffer, and
\* :171 that after EAGAIN it suffices to send again when the descriptor is
\* writable: each message gets through, or the connection ends.
MessagesGetThrough ==
    \A n \in 1 .. MaxMessages :
        (sent >= n) ~> (n \in received \/ peer # "open" \/ fate # "running")
=============================================================================
