------------------------------ MODULE TcpInput ------------------------------
(***************************************************************************)
(* The receiving half of a connection: TcpConnection::onRead drains the    *)
(* socket into m_in_buffer, TinyPBCoder::decode cuts the buffer into       *)
(* messages and excute() hands them over (to the RPC dispatcher on the     *)
(* server, to the reader waiting for the message id on the client).        *)
(*                                                                         *)
(* A message is a sequence of bytes standing for everything between the    *)
(* package length and the end mark: message id, method name, error code    *)
(* and info, protobuf data and checksum.  The length field has two bytes   *)
(* instead of four.  decode copies the fields of the message into arrays   *)
(* of 100 and 512 bytes; messages whose fields do not fit are not          *)
(* modelled.                                                               *)
(***************************************************************************)
EXTENDS TcpBuffer

CONSTANTS
    Messages,       \* the messages a peer may send
    BufferSize,     \* size of m_in_buffer (128 in TcpServer and TcpClient)
    Window,         \* messages a peer has under way at the same time
    MaxMessages,    \* bound: messages sent
    SplitHeaders,   \* may a read end inside the length field of a message?
    Outside         \* bytes that may be found in memory around the vector

ASSUME MessagesAssumption == Messages \subseteq Seq(Byte) \ {<<>>}
ASSUME WindowAssumption == Window \in Nat /\ MaxMessages \in Nat
ASSUME SizeAssumption == BufferSize \in Nat \ {0}
ASSUME OutsideAssumption == Outside \subseteq Byte /\ Outside # {}
ASSUME SplitAssumption == SplitHeaders \in BOOLEAN

PB_START == 2
PB_END == 3
LengthBytes == 2

\* encodeTinyPB: start mark, length of the whole package, message, end mark.
PackageLength(m) == Len(m) + LengthBytes + 2
Package(m) ==
    <<PB_START, PackageLength(m) \div 256, PackageLength(m) % 256>> \o m \o <<PB_END>>

\* The length of a package fits the (signed) length field.
ASSUME LengthAssumption == \A m \in Messages : PackageLength(m) < 32768

VARIABLES
    sent,       \* messages the peer has sent
    wire,       \* their bytes that have not been read, each with its offset
    eof,        \* the peer has closed
    state,      \* m_state of the connection
    pc,         \* where the IO thread is in onRead / decode / excute
    inBuffer,   \* m_in_buffer
    result,     \* decoded messages of this call, not yet handed over
    delivered   \* messages handed over

vars == <<sent, wire, eof, state, pc, inBuffer, result, delivered>>

Init ==
    /\ sent = <<>> /\ wire = <<>> /\ eof = FALSE
    /\ state = "Connected"
    /\ pc = "idle"
    /\ inBuffer = NewBuffer(BufferSize)
    /\ result = <<>> /\ delivered = <<>>

(***************************************************************************)
(* The peer and the network.  Bytes arrive in any portions, except that    *)
(* with SplitHeaders = FALSE no portion ends between the first and the     *)
(* last byte of a length field.                                            *)
(***************************************************************************)

OnWire(m) ==
    [k \in 1 .. PackageLength(m) |-> [byte |-> Package(m)[k], offset |-> k - 1]]

PeerSend(m) ==
    /\ ~eof /\ Len(sent) < MaxMessages
    /\ Len(sent) - Len(delivered) < Window
    /\ sent' = Append(sent, m)
    /\ wire' = wire \o OnWire(m)
    /\ UNCHANGED <<eof, state, pc, inBuffer, result, delivered>>

PeerClose ==
    /\ ~eof /\ eof' = TRUE
    /\ UNCHANGED <<sent, wire, state, pc, inBuffer, result, delivered>>

MayEndAt(n) ==
    (n < Len(wire) /\ ~SplitHeaders) => wire[n + 1].offset \notin 2 .. LengthBytes

(***************************************************************************)
(* TcpConnection::onRead, called by the event loop while the socket is     *)
(* readable.                                                               *)
(***************************************************************************)

OnRead ==
    /\ pc = "idle" /\ (wire # <<>> \/ eof)
    /\ state = "Connected"
    /\ pc' = "read"
    /\ UNCHANGED <<sent, wire, eof, state, inBuffer, result, delivered>>

\* resizeBuffer, when the buffer is full, at the top of the read loop.
Room == IF WriteAble(inBuffer) = 0 THEN ResizeBuffer(inBuffer, 2 * inBuffer.size) ELSE inBuffer

\* The bytes a read() of n bytes returns.
Received(n) == [k \in 1 .. n |-> wire[k].byte]

\* fault: the write index is advanced by the room offered, not by the bytes read.
ReadAdvancingAll ==
    /\ pc = "read"
    /\ \E n \in 1 .. Len(wire) :
         /\ n <= WriteAble(Room) /\ MayEndAt(n)
         /\ inBuffer' = MoveWriteIndex(Store(Room, Received(n)), WriteAble(Room) - 1)
         /\ wire' = SubSeq(wire, n + 1, Len(wire))
         /\ pc' = IF n = WriteAble(Room) THEN "read" ELSE "decode"
    /\ UNCHANGED <<sent, eof, state, result, delivered>>

\* read() returns n > 0 bytes.  When it filled the room offered, the loop goes
\* on; otherwise everything there was has been read.
Read ==
    /\ pc = "read"
    /\ \E n \in 1 .. Len(wire) :
         /\ n <= WriteAble(Room) /\ MayEndAt(n)
         /\ inBuffer' = MoveWriteIndex(Store(Room, Received(n)), n)
         /\ wire' = SubSeq(wire, n + 1, Len(wire))
         /\ pc' = IF n = WriteAble(Room) THEN "read" ELSE "decode"
    /\ UNCHANGED <<sent, eof, state, result, delivered>>

\* EAGAIN: nothing more has arrived (some of it may still be under way).
ReadAgain ==
    /\ pc = "read" /\ (wire # <<>> \/ ~eof)
    /\ inBuffer' = Room
    /\ pc' = "decode"
    /\ UNCHANGED <<sent, wire, eof, state, result, delivered>>

\* read() returns 0: clear() closes the connection, without decoding.
ReadEof ==
    /\ pc = "read" /\ wire = <<>> /\ eof
    /\ inBuffer' = Room
    /\ state' = "Closed"
    /\ pc' = "idle"
    /\ UNCHANGED <<sent, wire, eof, result, delivered>>

(***************************************************************************)
(* TinyPBCoder::decode: every iteration of its outer loop is one step.     *)
(* Bytes are examined wherever the estimated positions point: behind the   *)
(* write index (stale bytes) and outside the vector (bytes of Outside).    *)
(***************************************************************************)

ByteAt(b, k, out) == IF k \in 0 .. b.size - 1 THEN b.data[k] ELSE out

\* getInt32FromNetByte, at the modelled width; the result is signed.
GetInt(b, k, out) ==
    LET u == 256 * ByteAt(b, k, out) + ByteAt(b, k + 1, out)
    IN  IF u < 32768 THEN u ELSE u - 65536

\* Estimated index of the end mark of a package that starts at i.
EndIndex(b, i, out) == i + GetInt(b, i + 1, out) - 1

IsPackage(b, i, out) ==
    /\ b.data[i] = PB_START
    /\ i + 1 < b.write
    /\ EndIndex(b, i, out) < b.write
    /\ ByteAt(b, EndIndex(b, i, out), out) = PB_END

Packages(b, out) == {i \in b.read .. b.write - 1 : IsPackage(b, i, out)}

\* fault: what follows the package in the buffer goes with it.
ConsumeAll(b, i, j) == MoveReadIndex(b, ReadAble(b))

\* fault: the read index is moved by the end position, not by the length.
ConsumeToPosition(b, i, j) == MoveReadIndex(b, j + 1)

\* The read index moves by the length of the package.
Consume(b, i, j) == MoveReadIndex(b, j - i + 1)

\* What a package from i to j carries, between its length field and its end mark.
Message(b, i, j) ==
    [k \in 1 .. j - (i + 1 + LengthBytes) |-> b.data[i + LengthBytes + k]]

\* The first package found is taken out of the buffer.  One without room for a
\* message is dropped.  With a length of zero the end position is the one before
\* the start mark, and the package is found if an end mark is there: the step
\* leaves everything as it is, and decode finds the package again, for ever.
DecodePackage ==
    /\ pc = "decode"
    /\ \E out \in Outside : \E i \in Packages(inBuffer, out) :
         /\ \A k \in Packages(inBuffer, out) : i <= k
         /\ LET j == EndIndex(inBuffer, i, out)
            IN  /\ inBuffer' = Consume(inBuffer, i, j)
                /\ result' = IF i + 1 + LengthBytes >= j THEN result
                             ELSE Append(result, Message(inBuffer, i, j))
    /\ UNCHANGED <<sent, wire, eof, state, pc, delivered>>

DecodeEnd ==
    /\ pc = "decode"
    /\ \E out \in Outside : Packages(inBuffer, out) = {}
    /\ pc' = "excute"
    /\ UNCHANGED <<sent, wire, eof, state, inBuffer, result, delivered>>

(***************************************************************************)
(* excute(): the messages of this call, in the order decoded.              *)
(***************************************************************************)

Excute ==
    /\ pc = "excute" /\ result # <<>>
    /\ delivered' = Append(delivered, Head(result))
    /\ result' = Tail(result)
    /\ UNCHANGED <<sent, wire, eof, state, pc, inBuffer>>

Return ==
    /\ pc = "excute" /\ result = <<>>
    /\ pc' = "idle"
    /\ UNCHANGED <<sent, wire, eof, state, inBuffer, result, delivered>>

Server ==
    \/ OnRead \/ Read \/ ReadAgain \/ ReadEof
    \/ DecodePackage \/ DecodeEnd \/ Excute \/ Return

Next == PeerClose \/ Server \/ \E m \in Messages : PeerSend(m)

(***************************************************************************)
(* The IO thread keeps running, and bytes under way arrive eventually: the *)
(* reading step is not put off for ever by EAGAIN.                         *)
(***************************************************************************)
Fairness == WF_vars(Server) /\ SF_vars(Read)

Spec == Init /\ [][Next]_vars /\ Fairness

(***************************************************************************)
(* Properties.                                                             *)
(***************************************************************************)

\* Types.  The buffer keeps the size it was made with.
TypeOK ==
    /\ sent \in Seq(Messages)
    /\ wire \in Seq([byte : Byte, offset : Nat])
    /\ eof \in BOOLEAN
    /\ state \in {"Connected", "Closed"}
    /\ pc \in {"idle", "read", "decode", "excute"}
    /\ inBuffer \in Buffers(BufferSize)
    /\ result \in Seq(Seq(Byte))
    /\ delivered \in Seq(Seq(Byte))

\* The write index never reaches the end of the vector: onRead always offers
\* read() at least one byte of room, and its resizeBuffer call is never made.
NeverFull == inBuffer.write < inBuffer.size

\* The bytes taken from the socket are the bytes added to the readable content.
BytesKept ==
    Content(inBuffer') = Content(inBuffer) \o Received(Len(wire) - Len(wire'))

\* "rt bytes have been read" (tcp_connection.cc:55): whatever read() returned is
\* in the buffer.
ReadBytesAreKept == [][pc = "read" /\ wire' # wire => BytesKept]_vars

\* The same of a read() that did not fill the room it was offered.
ShortReadsAreKept == [][pc = "read" /\ pc' = "decode" /\ wire' # wire => BytesKept]_vars

\* The receiving half is a message channel: its messages are those the peer has
\* sent and those excute() has handed over.
Channel == INSTANCE MessageChannel WITH
    Messages  <- Messages,
    sent      <- sent,
    delivered <- delivered
ImplementsChannel == Channel!Spec

\* tinypb_coder.cc:31-32: when a package has been cut, it is skipped and read
\* on when the next segment arrives; so each message sent is delivered.
MessagesGetThrough ==
    \A n \in 1 .. MaxMessages : (Len(sent) >= n) ~> (Len(delivered) >= n)
=============================================================================
