-------------------------- MODULE TcpOutput_proofs --------------------------
(***************************************************************************)
(* The sending half of a connection, for every sequence of messages, every *)
(* size of m_out_buffer and every room the kernel leaves: the write event  *)
(* is watched exactly while a message is not covered by a complete write,  *)
(* and a message whose write was complete had been handed over.            *)
(*                                                                         *)
(* WatchesWhileUnsent speaks of the states between two handlers.  It is    *)
(* inductive once it is stated inside onWrite too, where nothing but a     *)
(* complete write() touches the event.                                     *)
(*                                                                         *)
(* HoldsEverything needs to know which messages m_write_dones and the      *)
(* copy onWrite goes through hold: the last of those sent, in order, and   *)
(* none at all on the server.  That a further message goes to the end of   *)
(* the concatenation of the others is an induction on their number.        *)
(***************************************************************************)
EXTENDS TcpOutput, SequenceTheorems, WellFoundedInduction, TLAPS

(***************************************************************************)
(* m_out_buffer: writeToBuffer appends, for buffers of every size, content *)
(* and pair of indices.                                                    *)
(***************************************************************************)

\* A buffer is determined by its four members; their types in one place.
LEMMA BufferMembers ==
    ASSUME NEW n \in Nat, NEW b \in Buffers(n)
    PROVE  /\ b.size = n
           /\ b.data \in [0 .. n - 1 -> Byte]
           /\ b.read \in Nat /\ b.write \in Nat
           /\ b.read <= b.write /\ b.write <= n
           /\ b = [size |-> b.size, data |-> b.data, read |-> b.read, write |-> b.write]
           /\ ReadAble(b) \in Nat /\ ReadAble(b) <= n
  BY DEF Buffers, ReadAble

\* ...and conversely, a record with such members is a buffer.
LEMMA MembersBuffer ==
    ASSUME NEW n \in Nat, NEW d \in [0 .. n - 1 -> Byte],
           NEW r \in Nat, NEW w \in Nat, r <= w, w <= n
    PROVE  [size |-> n, data |-> d, read |-> r, write |-> w] \in Buffers(n)
  BY DEF Buffers

\* The content as a sequence of bytes.
LEMMA ContentIsSeq ==
    ASSUME NEW n \in Nat, NEW b \in Buffers(n)
    PROVE  /\ Content(b) \in Seq(Byte)
           /\ Len(Content(b)) = ReadAble(b)
           /\ \A k \in 1 .. ReadAble(b) : Content(b)[k] = b.data[b.read + k - 1]
  <1>1. /\ b.data \in [0 .. n - 1 -> Byte] /\ b.read \in Nat /\ b.write \in Nat
        /\ b.write <= n /\ ReadAble(b) \in Nat /\ ReadAble(b) = b.write - b.read
    BY BufferMembers DEF ReadAble
  <1>2. ASSUME NEW k \in 1 .. ReadAble(b)
        PROVE  b.data[b.read + k - 1] \in Byte
    <2>1. b.read + k - 1 \in 0 .. n - 1
      BY <1>1
    <2>. QED
      BY <1>1, <2>1
  <1>3. Content(b) \in [1 .. ReadAble(b) -> Byte]
    BY <1>2 DEF Content
  <1>4. Content(b) \in Seq(Byte)
    BY <1>1, <1>3, SeqDef
  <1>5. Len(Content(b)) = ReadAble(b)
    BY <1>1, <1>3, <1>4, LenProperties
  <1>. QED
    BY <1>4, <1>5 DEF Content

LEMMA NewBufferIsBuffer ==
    ASSUME NEW n \in Nat
    PROVE  NewBuffer(n) \in Buffers(n)
  <1>1. Zeros(n) \in [0 .. n - 1 -> Byte]
    BY DEF Zeros, Byte
  <1>. QED
    BY <1>1 DEF NewBuffer, Buffers

\* One and a half times a number of bytes, rounded down, is room for them.
LEMMA GrownIsEnough ==
    ASSUME NEW x \in Nat
    PROVE  (3 * x) \div 2 \in Nat /\ (3 * x) \div 2 >= x
  OBVIOUS

\* A buffer over m bytes with the readable bytes of b, wherever they are.
SameBytes(c, m, b) ==
    /\ c \in Buffers(m) /\ ReadAble(c) = ReadAble(b)
    /\ \A k \in 1 .. ReadAble(b) : c.data[c.read + k - 1] = b.data[b.read + k - 1]

\* A vector that is large enough takes all of them.
LEMMA ResizeCopies ==
    ASSUME NEW n \in Nat, NEW b \in Buffers(n), NEW m \in Nat, ReadAble(b) <= m
    PROVE  /\ SameBytes(ResizeBuffer(b, m), m, b)
           /\ ResizeBuffer(b, m).write = ReadAble(b)
  <1>. DEFINE d == [i \in 0 .. m - 1 |-> IF i < ReadAble(b) THEN b.data[b.read + i] ELSE 0]
              c == [size |-> m, data |-> d, read |-> 0, write |-> ReadAble(b)]
  <1>1. /\ b.data \in [0 .. n - 1 -> Byte] /\ b.read \in Nat /\ b.write \in Nat
        /\ b.write <= n /\ ReadAble(b) \in Nat /\ ReadAble(b) = b.write - b.read
    BY BufferMembers DEF ReadAble
  <1>2. (IF m < ReadAble(b) THEN m ELSE ReadAble(b)) = ReadAble(b)
    BY <1>1
  <1>3. ResizeBuffer(b, m) = c
    BY <1>2 DEF ResizeBuffer
  <1>4. ASSUME NEW i \in 0 .. m - 1
        PROVE  (IF i < ReadAble(b) THEN b.data[b.read + i] ELSE 0) \in Byte
    <2>1. i < ReadAble(b) => b.read + i \in 0 .. n - 1
      BY <1>1
    <2>2. 0 \in Byte
      BY DEF Byte
    <2>. QED
      BY <1>1, <2>1, <2>2
  <1>5. d \in [0 .. m - 1 -> Byte]
    BY <1>4
  <1>6. ASSUME NEW k \in 1 .. ReadAble(b)
        PROVE  d[0 + k - 1] = b.data[b.read + k - 1]
    <2>1. k - 1 \in 0 .. m - 1 /\ k - 1 < ReadAble(b)
      BY <1>1
    <2>2. d[k - 1] = b.data[b.read + (k - 1)]
      BY <2>1
    <2>3. 0 + k - 1 = k - 1 /\ b.read + (k - 1) = b.read + k - 1
      BY <1>1
    <2>. QED
      BY <2>2, <2>3
  <1>. HIDE DEF d
  <1>7. c \in Buffers(m) /\ ReadAble(c) = ReadAble(b)
    BY <1>1, <1>5, MembersBuffer DEF ReadAble
  <1>. QED
    BY <1>3, <1>6, <1>7 DEF SameBytes

\* Storing bytes behind the write index, where there is room, and moving the
\* index appends them to the content.
LEMMA StoreAppends ==
    ASSUME NEW n \in Nat, NEW b \in Buffers(n), NEW m \in Nat, NEW r, SameBytes(r, m, b),
           NEW bytes \in Seq(Byte), r.write + Len(bytes) <= m
    PROVE  LET c == WithIndices(Store(r, bytes), r.read, r.write + Len(bytes))
           IN  c \in Buffers(m) /\ Content(c) = Content(b) \o bytes
  <1>. DEFINE d == [i \in 0 .. m - 1 |->
                      IF i \in r.write .. r.write + Len(bytes) - 1
                        THEN bytes[i - r.write + 1] ELSE r.data[i]]
              c == WithIndices(Store(r, bytes), r.read, r.write + Len(bytes))
  <1>1. /\ r.size = m /\ r.data \in [0 .. m - 1 -> Byte] /\ r.read \in Nat /\ r.write \in Nat
        /\ r.read <= r.write /\ r.write <= m
        /\ ReadAble(b) \in Nat /\ ReadAble(b) = r.write - r.read
    BY BufferMembers DEF SameBytes, ReadAble
  <1>2. Len(bytes) \in Nat /\ \A k \in 1 .. Len(bytes) : bytes[k] \in Byte
    OBVIOUS
  <1>3. c = [size |-> m, data |-> d, read |-> r.read, write |-> r.write + Len(bytes)]
    BY <1>1 DEF WithIndices, Store
  <1>4. ASSUME NEW i \in 0 .. m - 1
        PROVE  (IF i \in r.write .. r.write + Len(bytes) - 1
                  THEN bytes[i - r.write + 1] ELSE r.data[i]) \in Byte
    <2>1. i \in r.write .. r.write + Len(bytes) - 1 => i - r.write + 1 \in 1 .. Len(bytes)
      BY <1>1, <1>2
    <2>. QED
      BY <1>1, <1>2, <2>1
  <1>5. d \in [0 .. m - 1 -> Byte]
    BY <1>4
  <1>6. \A i \in 0 .. r.write - 1 : d[i] = r.data[i]
    BY <1>1, <1>2
  <1>7. ASSUME NEW k \in 1 .. Len(bytes)
        PROVE  d[r.write + k - 1] = bytes[k]
    <2>1. /\ r.write + k - 1 \in 0 .. m - 1
          /\ r.write + k - 1 \in r.write .. r.write + Len(bytes) - 1
          /\ (r.write + k - 1) - r.write + 1 = k
      BY <1>1, <1>2
    <2>. QED
      BY <2>1
  <1>. HIDE DEF d, c
  <1>8. /\ c \in Buffers(m) /\ ReadAble(c) = ReadAble(b) + Len(bytes)
        /\ c.data = d /\ c.read = r.read
    <2>1. r.write + Len(bytes) \in Nat /\ r.read <= r.write + Len(bytes)
      BY <1>1, <1>2
    <2>2. c \in Buffers(m)
      BY <1>1, <1>3, <1>5, <2>1, MembersBuffer
    <2>. QED
      BY <1>1, <1>2, <1>3, <2>2 DEF ReadAble
  <1>9. /\ Content(b) \in Seq(Byte) /\ Len(Content(b)) = ReadAble(b)
        /\ \A k \in 1 .. ReadAble(b) : Content(b)[k] = b.data[b.read + k - 1]
    BY ContentIsSeq
  <1>10. /\ Content(c) \in Seq(Byte) /\ Len(Content(c)) = ReadAble(c)
         /\ \A k \in 1 .. ReadAble(c) : Content(c)[k] = d[r.read + k - 1]
    BY <1>8, ContentIsSeq
  <1>11. /\ Content(b) \o bytes \in Seq(Byte)
         /\ Len(Content(b) \o bytes) = ReadAble(b) + Len(bytes)
         /\ \A k \in 1 .. ReadAble(b) + Len(bytes) : (Content(b) \o bytes)[k] =
               IF k <= ReadAble(b) THEN Content(b)[k] ELSE bytes[k - ReadAble(b)]
    <2>1. PICK q \in Seq(Byte) : q = Content(b) /\ Len(q) = ReadAble(b)
      BY <1>9
    <2>2. /\ q \o bytes \in Seq(Byte) /\ Len(q \o bytes) = Len(q) + Len(bytes)
          /\ \A k \in 1 .. Len(q) + Len(bytes) :
                (q \o bytes)[k] = IF k <= Len(q) THEN q[k] ELSE bytes[k - Len(q)]
      BY ConcatProperties
    <2>. QED
      BY <2>1, <2>2
  <1>12. ASSUME NEW k \in 1 .. Len(Content(c))
         PROVE  Content(c)[k] = (Content(b) \o bytes)[k]
    <2>1. k \in 1 .. ReadAble(b) + Len(bytes) /\ Content(c)[k] = d[r.read + k - 1]
      BY <1>8, <1>10
    <2>2. CASE k <= ReadAble(b)
      <3>1. k \in 1 .. ReadAble(b) /\ r.read + k - 1 \in 0 .. r.write - 1
        <4>1. k \in Nat /\ k >= 1 /\ r.read \in Nat /\ r.write \in Nat
              /\ k <= r.write - r.read
          BY <1>1, <1>2, <2>1, <2>2
        <4>. QED
          BY <1>1, <2>2, <4>1
      <3>2. r.data[r.read + k - 1] = b.data[b.read + k - 1]
        BY <3>1 DEF SameBytes
      <3>. QED
        BY <1>6, <1>9, <1>11, <2>1, <2>2, <3>1, <3>2
    <2>3. CASE ~(k <= ReadAble(b))
      <3>1. PICK h \in 1 .. Len(bytes) : h = k - ReadAble(b)
        <4>1. k \in Nat /\ k <= ReadAble(b) + Len(bytes) /\ ReadAble(b) \in Nat
          BY <1>1, <1>2, <2>1
        <4>2. k - ReadAble(b) \in 1 .. Len(bytes)
          BY <1>2, <2>3, <4>1
        <4>. QED
          BY <4>2
      <3>2. r.read + k - 1 = r.write + h - 1
        <4>1. r.read \in Int /\ r.write \in Int /\ k \in Int /\ h = k - (r.write - r.read)
          BY <1>1, <1>2, <2>1, <3>1
        <4>. QED
          BY <4>1
      <3>3. (Content(b) \o bytes)[k] = bytes[h]
        BY <1>11, <2>1, <2>3, <3>1
      <3>. QED
        BY <1>7, <2>1, <3>2, <3>3
    <2>. QED
      BY <2>2, <2>3
  <1>13. Content(c) = Content(b) \o bytes
    BY <1>8, <1>10, <1>11, <1>12, SeqEqual
  <1>. QED
    BY <1>8, <1>13 DEF c

\* writeToBuffer never loses anything: it grows the vector first if need be.
THEOREM WriteToBufferAppends ==
    ASSUME NEW n \in Nat, NEW b \in Buffers(n), NEW bytes \in Seq(Byte)
    PROVE  \E m \in Nat :
             /\ m >= n
             /\ WriteToBuffer(b, bytes) \in Buffers(m)
             /\ Content(WriteToBuffer(b, bytes)) = Content(b) \o bytes
  <1>. DEFINE len == Len(bytes)
              grown == (3 * (b.write + len)) \div 2
              room == IF len > WriteAble(b) THEN ResizeBuffer(b, grown) ELSE b
  <1>1. /\ len \in Nat /\ b.write \in Nat /\ b.write <= n
        /\ ReadAble(b) \in Nat /\ ReadAble(b) <= b.write
        /\ WriteAble(b) = n - b.write
    BY BufferMembers DEF ReadAble, WriteAble
  <1>2. WriteToBuffer(b, bytes) = WithIndices(Store(room, bytes), room.read, room.write + len)
    BY DEF WriteToBuffer
  <1>. HIDE DEF room
  <1>3. PICK m \in Nat : m >= n /\ SameBytes(room, m, b) /\ room.write + len <= m
    <2>1. CASE len > WriteAble(b)
      <3>1. b.write + len \in Nat
        BY <1>1
      <3>2. grown \in Nat /\ grown >= b.write + len
        BY <3>1, GrownIsEnough
      <3>3. room = ResizeBuffer(b, grown)
        BY <2>1 DEF room
      <3>. HIDE DEF grown
      <3>4. grown >= n /\ ReadAble(b) <= grown /\ ReadAble(b) + len <= grown
        BY <1>1, <2>1, <3>2
      <3>5. SameBytes(room, grown, b) /\ room.write = ReadAble(b)
        BY <3>2, <3>3, <3>4, ResizeCopies
      <3>. QED
        BY <3>2, <3>4, <3>5
    <2>2. CASE ~(len > WriteAble(b))
      <3>1. room = b /\ b.write + len <= n
        BY <1>1, <2>2 DEF room
      <3>2. SameBytes(room, n, b)
        BY <3>1 DEF SameBytes
      <3>. QED
        BY <3>1, <3>2
    <2>. QED
      BY <2>1, <2>2
  <1>4. /\ WithIndices(Store(room, bytes), room.read, room.write + Len(bytes)) \in Buffers(m)
        /\ Content(WithIndices(Store(room, bytes), room.read, room.write + Len(bytes)))
             = Content(b) \o bytes
    BY <1>3, StoreAppends
  <1>. QED
    BY <1>2, <1>3, <1>4

(***************************************************************************)
(* The write event.                                                        *)
(***************************************************************************)

\* Messages are counted, and never more written than sent.
Counts == sent \in Nat /\ written \in Nat /\ written <= sent

\* A connection is only cleared after its peer has gone.
ClosedAfterPeer == state # "Connected" => peer # "open"

\* The write event, inside onWrite as well as outside.
Watched == peer = "open" => (out <=> written < sent)

IInv == Counts /\ ClosedAfterPeer /\ Watched

LEMMA InitIInv == Init => IInv
  BY DEF Init, IInv, Counts, ClosedAfterPeer, Watched

LEMMA NextIInv == IInv /\ [Next]_vars => IInv'
  <1>. SUFFICES ASSUME IInv, [Next]_vars
                PROVE  IInv'
    OBVIOUS
  <1>. USE DEF IInv, Counts, ClosedAfterPeer, Watched
  <1>1. CASE Reply
    BY <1>1 DEF Reply, ListenWrite, peerVars
  <1>2. CASE WriteMessage
    BY <1>2 DEF WriteMessage, ListenWrite, peerVars
  <1>3. CASE LoopStep
    <2>1. CASE Poll
      BY <2>1 DEF Poll, connVars, peerVars
    <2>2. CASE OnWriteReturns
      BY <2>2 DEF OnWriteReturns, connVars, peerVars
    <2>3. CASE OnWrite
      BY <2>3 DEF OnWrite, peerVars
    <2>4. CASE EncodeNext
      BY <2>4 DEF EncodeNext, loopVars, peerVars
    <2>5. CASE WriteAll
      BY <2>5 DEF WriteAll
    <2>6. CASE WritePart
      BY <2>6 DEF WritePart, connVars, loopVars
    <2>7. CASE WriteAgain
      BY <2>7 DEF WriteAgain, peerVars
    <2>8. CASE WriteForEver
      BY <2>8 DEF WriteForEver, connVars, peerVars
    <2>9. CASE Clear
      BY <2>9 DEF Clear, peerVars
    <2>. QED
      BY <1>3, <2>1, <2>2, <2>3, <2>4, <2>5, <2>6, <2>7, <2>8, <2>9 DEF LoopStep
  <1>4. ASSUME NEW n \in 1 .. SendBuffer, PeerReads(n)
        PROVE  IInv'
    BY <1>4 DEF PeerReads, connVars, loopVars
  <1>5. ASSUME NEW how, how # "open", PeerGoes(how)
        PROVE  IInv'
    BY <1>5 DEF PeerGoes, connVars, loopVars
  <1>6. CASE UNCHANGED vars
    BY <1>6 DEF vars, connVars, loopVars, peerVars
  <1>. QED
    BY <1>1, <1>2, <1>3, <1>4, <1>5, <1>6 DEF Next

\* However short writes, EAGAIN, new messages and queued handlers follow each
\* other, the loop watches for room in the socket exactly as long as needed.
THEOREM WatchesCorrect == Spec => []WatchesWhileUnsent
  <1>1. IInv => WatchesWhileUnsent
    BY DEF IInv, Watched, WatchesWhileUnsent
  <1>. QED
    BY <1>1, InitIInv, NextIInv, PTL DEF Spec

(***************************************************************************)
(* The concatenation of sequences, which FlattenSeq defines by recursion.  *)
(***************************************************************************)
\* The least-number principle: the induction of the next two lemmas.
LEMMA LeastNumber ==
    ASSUME NEW T, T \in SUBSET Nat, T # {}
    PROVE  \E x \in T : \A y \in T : x <= y
  <1>. DEFINE R == {r \in Nat \X Nat : r[1] < r[2]}
  <1>1. IsWellFoundedOn(R, Nat)
    BY NatLessThanWellFounded DEF OpToRel
  <1>2. \A x, y \in Nat : y < x => <<y, x>> \in R
    OBVIOUS
  <1>. HIDE DEF R
  <1>3. PICK x \in T : \A y \in T : ~ (<<y, x>> \in R)
    BY <1>1, WFMin
  <1>4. ASSUME NEW y \in T
        PROVE  x <= y
    <2>1. x \in Nat /\ y \in Nat
      OBVIOUS
    <2>2. ~ (y < x)
      BY <1>2, <1>3, <2>1
    <2>. QED
      BY <2>1, <2>2
  <1>. QED
    BY <1>4

\* The function that FlattenSeq defines by recursion, on the first m sequences.
Flattens(g, ss, m) ==
    g = [i \in 1 .. m |-> IF i = 1 THEN ss[i] ELSE g[i - 1] \o ss[i]]

LEMMA FlattensExists ==
    ASSUME NEW ss, NEW n \in Nat
    PROVE  \E g : Flattens(g, ss, n)
  <1>. DEFINE T == {m \in Nat : ~ \E g : Flattens(g, ss, m)}
  <1>1. SUFFICES ASSUME T # {} PROVE FALSE
    OBVIOUS
  <1>2. PICK m \in T : \A y \in T : m <= y
    <2>. HIDE DEF T
    <2>1. T \in SUBSET Nat
      BY DEF T
    <2>. QED
      BY <1>1, <2>1, LeastNumber
  <1>3. m \in Nat /\ ~ \E g : Flattens(g, ss, m)
    OBVIOUS
  <1>4. CASE m = 0
    <2>1. Flattens([i \in 1 .. 0 |-> ss], ss, 0)
      BY DEF Flattens
    <2>. QED
      BY <1>3, <1>4, <2>1
  <1>5. CASE m > 0
    <2>1. m - 1 \in Nat /\ ~ (m <= m - 1)
      BY <1>3, <1>5
    <2>2. m - 1 \notin T
      BY <1>2, <2>1
    <2>3. PICK g : Flattens(g, ss, m - 1)
      BY <2>1, <2>2
    <2>. DEFINE h == [i \in 1 .. m |-> IF i = 1 THEN ss[i] ELSE g[i - 1] \o ss[i]]
    <2>4. \A i \in 1 .. m - 1 : g[i] = IF i = 1 THEN ss[i] ELSE g[i - 1] \o ss[i]
      BY <2>3 DEF Flattens
    <2>5. \A i \in 1 .. m - 1 : h[i] = g[i]
      BY <2>4, <1>3
    <2>6. \A i \in 1 .. m : i # 1 => i - 1 \in 1 .. m - 1
      BY <1>3
    <2>7. \A i \in 1 .. m : i # 1 => h[i - 1] = g[i - 1]
      BY <2>5, <2>6
    <2>8. h = [i \in 1 .. m |-> IF i = 1 THEN ss[i] ELSE h[i - 1] \o ss[i]]
      BY <2>7
    <2>9. Flattens(h, ss, m)
      BY <2>8 DEF Flattens
    <2>. QED
      BY <2>9, <1>3
  <1>. QED
    BY <1>3, <1>4, <1>5

LEMMA FlattensAt ==
    ASSUME NEW ss, NEW m \in Nat, NEW g, Flattens(g, ss, m), NEW i \in 1 .. m
    PROVE  g[i] = IF i = 1 THEN ss[i] ELSE g[i - 1] \o ss[i]
  BY DEF Flattens

AgreeUpTo(ss, tt, m) == \A i \in 1 .. m : ss[i] = tt[i]

\* It is determined by them, so that more sequences only extend it.
LEMMA FlattensAgree ==
    ASSUME NEW ss, NEW tt, NEW m \in Nat, NEW n \in Nat, m <= n,
           AgreeUpTo(ss, tt, m),
           NEW g, Flattens(g, ss, m), NEW h, Flattens(h, tt, n)
    PROVE  AgreeUpTo(g, h, m)
  <1>. DEFINE T == {i \in 1 .. m : g[i] # h[i]}
  <1>1. SUFFICES ASSUME T # {} PROVE FALSE
    BY DEF AgreeUpTo
  <1>2. PICK j \in T : \A y \in T : j <= y
    <2>. HIDE DEF T
    <2>1. T \in SUBSET Nat
      BY DEF T
    <2>. QED
      BY <1>1, <2>1, LeastNumber
  <1>3. j \in 1 .. m /\ g[j] # h[j]
    OBVIOUS
  <1>4. j \in 1 .. n
    BY <1>3
  <1>5. /\ g[j] = IF j = 1 THEN ss[j] ELSE g[j - 1] \o ss[j]
        /\ h[j] = IF j = 1 THEN tt[j] ELSE h[j - 1] \o tt[j]
    BY <1>3, <1>4, FlattensAt
  <1>6. j # 1
    BY <1>3, <1>5 DEF AgreeUpTo
  <1>7. j - 1 \in 1 .. m /\ ~ (j <= j - 1)
    BY <1>3, <1>6
  <1>8. j - 1 \notin T
    BY <1>2, <1>7
  <1>9. g[j - 1] = h[j - 1]
    BY <1>7, <1>8
  <1>. QED
    BY <1>3, <1>5, <1>6, <1>9 DEF AgreeUpTo

\* FlattenSeq is the last value of that function.
LEMMA FlattenSeqIs ==
    ASSUME NEW S, NEW ss \in Seq(S), Len(ss) > 0
    PROVE  \E g : Flattens(g, ss, Len(ss)) /\ FlattenSeq(ss) = g[Len(ss)]
  <1>. DEFINE f == CHOOSE g : Flattens(g, ss, Len(ss))
  <1>1. Flattens(f, ss, Len(ss))
    <2>1. Len(ss) \in Nat
      OBVIOUS
    <2>. QED
      BY <2>1, FlattensExists
  <1>2. FlattenSeq(ss) = f[Len(ss)]
    BY DEF FlattenSeq, Flattens
  <1>. QED
    BY <1>1, <1>2

LEMMA FlattenNone ==
    FlattenSeq(<<>>) = <<>>
  BY DEF FlattenSeq

\* A further sequence goes to the end.
LEMMA FlattenAppend ==
    ASSUME NEW S, NEW ss \in Seq(Seq(S)), NEW s \in Seq(S)
    PROVE  FlattenSeq(Append(ss, s)) = FlattenSeq(ss) \o s
  <1>. DEFINE tt == Append(ss, s)
  <1>1. /\ tt \in Seq(Seq(S)) /\ Len(tt) = Len(ss) + 1 /\ Len(tt) > 0 /\ Len(ss) \in Nat
        /\ tt[Len(ss) + 1] = s
        /\ \A i \in 1 .. Len(ss) : ss[i] = tt[i]
    OBVIOUS
  <1>. HIDE DEF tt
  <1>2. PICK h : Flattens(h, tt, Len(ss) + 1) /\ FlattenSeq(tt) = h[Len(ss) + 1]
    BY <1>1, FlattenSeqIs
  <1>. DEFINE n == Len(ss)
  <1>. HIDE DEF n
  <1>n. n = Len(ss) /\ n \in Nat
    BY <1>1 DEF n
  <1>3. h[n + 1] = IF n + 1 = 1 THEN s ELSE h[n] \o s
    <2>1. n + 1 \in 1 .. n + 1 /\ n + 1 - 1 = n
      BY <1>n
    <2>. DEFINE p == n + 1
    <2>2. p \in Nat /\ p \in 1 .. p /\ Flattens(h, tt, p) /\ p - 1 = n
      BY <1>2, <1>n
    <2>. HIDE DEF p
    <2>3. h[p] = IF p = 1 THEN tt[p] ELSE h[p - 1] \o tt[p]
      BY <2>2, FlattensAt
    <2>. QED
      BY <2>1, <2>2, <2>3, <1>1, <1>n DEF p
  <1>4. CASE n = 0
    <2>1. ss = <<>>
      BY <1>4, <1>n
    <2>2. FlattenSeq(ss) \o s = s
      BY <2>1, FlattenNone, ConcatEmptySeq
    <2>. QED
      BY <2>2, <1>2, <1>3, <1>4, <1>n DEF tt
  <1>5. CASE n # 0
    <2>1. PICK g : Flattens(g, ss, n) /\ FlattenSeq(ss) = g[n]
      BY <1>n, <1>5, FlattenSeqIs
    <2>2. AgreeUpTo(g, h, n)
      <3>1. n <= n + 1 /\ n + 1 \in Nat /\ Flattens(h, tt, n + 1)
           /\ AgreeUpTo(ss, tt, n)
        BY <1>1, <1>2, <1>n DEF AgreeUpTo
      <3>. QED
        BY <2>1, <3>1, <1>n, FlattensAgree
    <2>3. n \in 1 .. n /\ n + 1 - 1 = n /\ n + 1 # 1
      BY <1>n, <1>5
    <2>4. g[n] = h[n]
      BY <2>2, <2>3 DEF AgreeUpTo
    <2>. QED
      BY <2>1, <2>3, <2>4, <1>2, <1>3, <1>n DEF tt
  <1>. QED
    BY <1>4, <1>5

(***************************************************************************)
(* m_write_dones and m_out_buffer.                                         *)
(***************************************************************************)

\* A queue of the numbers of the last messages sent, in order.
LastSent(q) ==
    /\ q \in Seq(Nat) /\ Len(q) <= sent
    /\ \A i \in 1 .. Len(q) : q[i] = sent - Len(q) + i

Queues ==
    /\ LastSent(writeDones) /\ LastSent(messages)
    /\ pc = "idle" => messages = <<>>
    /\ type = "server" => writeDones = <<>> /\ messages = <<>>

HInv == TypeOK /\ Queues /\ HoldsEverything

\* The messages up to the next one are those up to this one, and the next one.
LEMMA NextPrefix ==
    ASSUME NEW n \in 0 .. MaxMessages - 1
    PROVE  /\ SubSeq(Encoded, 1, n) \in Seq(Seq(Byte))
           /\ Encoded[n + 1] \in Seq(Byte)
           /\ SubSeq(Encoded, 1, n + 1) = Append(SubSeq(Encoded, 1, n), Encoded[n + 1])
  <1>1. Encoded \in Seq(Seq(Byte)) /\ Len(Encoded) \in Nat /\ n \in Nat /\ n < Len(Encoded)
    BY EncodedAssumption DEF MaxMessages
  <1>2. SubSeq(Encoded, 1, n) \in Seq(Seq(Byte))
    BY <1>1
  <1>3. Encoded[n + 1] \in Seq(Byte)
    BY <1>1
  <1>4. SubSeq(Encoded, 1, n + 1) = SubSeq(Encoded, 1, n) \o <<Encoded[n + 1]>>
    <2>. DEFINE p == n + 1
    <2>1. p \in 1 .. Len(Encoded) /\ p \in Nat /\ p - 1 = n /\ 1 \in 1 .. Len(Encoded) /\ p \in 1 .. p
      BY <1>1
    <2>. HIDE DEF p
    <2>2. SubSeq(Encoded, 1, p) = SubSeq(Encoded, 1, p - 1) \o <<Encoded[p]>>
      BY <1>1, <2>1, SubSeqRecursiveSecond
    <2>. QED
      BY <2>1, <2>2 DEF p
  <1>5. Append(SubSeq(Encoded, 1, n), Encoded[n + 1]) = SubSeq(Encoded, 1, n) \o <<Encoded[n + 1]>>
    BY <1>2, <1>3, AppendIsConcat
  <1>. QED
    BY <1>2, <1>3, <1>4, <1>5

\* encode() puts the next message behind all the others.
LEMMA EncodeKeeps ==
    ASSUME NEW n \in 0 .. MaxMessages - 1,
           outBuffer.size \in Nat, outBuffer \in Buffers(outBuffer.size),
           Content(outBuffer) = FlattenSeq(SubSeq(Encoded, 1, n)),
           Encode(n + 1)
    PROVE  /\ outBuffer'.size \in Nat /\ outBuffer' \in Buffers(outBuffer'.size)
           /\ Content(outBuffer') = FlattenSeq(SubSeq(Encoded, 1, n + 1))
  <1>1. /\ SubSeq(Encoded, 1, n) \in Seq(Seq(Byte))
        /\ Encoded[n + 1] \in Seq(Byte)
        /\ SubSeq(Encoded, 1, n + 1) = Append(SubSeq(Encoded, 1, n), Encoded[n + 1])
    BY NextPrefix
  <1>2. outBuffer' = WriteToBuffer(outBuffer, Encoded[n + 1])
    BY DEF Encode
  <1>3. PICK m \in Nat : /\ outBuffer' \in Buffers(m)
                         /\ Content(outBuffer') = Content(outBuffer) \o Encoded[n + 1]
    BY <1>1, <1>2, WriteToBufferAppends
  <1>4. outBuffer'.size = m
    BY <1>3, BufferMembers
  <1>5. FlattenSeq(SubSeq(Encoded, 1, n + 1)) = FlattenSeq(SubSeq(Encoded, 1, n)) \o Encoded[n + 1]
    BY <1>1, FlattenAppend
  <1>. QED
    BY <1>3, <1>4, <1>5

\* What the kernel holds is a sequence of bytes, whatever part of m_out_buffer
\* it accepts, as long as that fits.
LEMMA AcceptsKeeps ==
    ASSUME outBuffer.size \in Nat, outBuffer \in Buffers(outBuffer.size),
           socket \in Seq(Byte), NEW n \in 0 .. ReadAble(outBuffer), Accepts(n),
           n <= Room
    PROVE  socket' \in Seq(Byte) /\ Len(socket') <= SendBuffer
  <1>1. Content(outBuffer) \in Seq(Byte) /\ Len(Content(outBuffer)) = ReadAble(outBuffer)
    BY ContentIsSeq
  <1>2. ReadAble(outBuffer) \in Nat
    BY BufferMembers
  <1>. DEFINE t == SubSeq(Content(outBuffer), 1, n)
  <1>3. t \in Seq(Byte) /\ Len(t) = n
    <2>1. \A i \in 1 .. n : Content(outBuffer)[i] \in Byte
      BY <1>1, <1>2
    <2>. QED
      BY <2>1, <1>2, SubSeqProperties
  <1>4. socket' = socket \o t
    BY DEF Accepts
  <1>. HIDE DEF t
  <1>5. socket \o t \in Seq(Byte) /\ Len(socket \o t) = Len(socket) + Len(t)
    <2>1. socket \in Seq(Byte) /\ t \in Seq(Byte)
      BY <1>3
    <2>. QED
      BY <2>1, ConcatProperties
  <1>6. Len(socket) \in Nat
    BY LenProperties
  <1>. QED
    BY <1>3, <1>4, <1>5, <1>6, SizesAssumption DEF Room

\* There is a longest end of a piece of the stream that may begin a message.
LEMMA LargestNumber ==
    ASSUME NEW m \in Nat, NEW S, S \in SUBSET (0 .. m), S # {}
    PROVE  Max(S) \in S
  <1>. DEFINE D == {m - x : x \in S}
  <1>1. D \in SUBSET Nat /\ D # {}
    <2>1. \A x \in S : m - x \in Nat
      OBVIOUS
    <2>. QED
      BY <2>1
  <1>2. \A x \in S : m - x \in D
    OBVIOUS
  <1>3. \A k \in D : \E x \in S : k = m - x
    OBVIOUS
  <1>. HIDE DEF D
  <1>4. \E n \in D : \A k \in D : n <= k
    BY <1>1, LeastNumber
  <1>5. PICK z \in S : \A k \in D : m - z <= k
    BY <1>3, <1>4
  <1>6. \A x \in S : m - z <= m - x
    BY <1>2, <1>5
  <1>7. \A x \in S : z >= x
    BY <1>6
  <1>. QED
    BY <1>7 DEF Max

LEMMA UnfinishedType ==
    ASSUME NEW s \in Seq(Byte)
    PROVE  Unfinished(s) \in Seq(Byte)
  <1>1. PICK n \in 0 .. Len(s) : Unfinished(s) = Suffix(s, n)
    <2>. DEFINE Begins(n) == \E k \in DOMAIN Encoded : IsPrefix(Suffix(s, n), Encoded[k])
                E == {0} \cup {n \in 1 .. Len(s) : Begins(n)}
    <2>1. Unfinished(s) = Suffix(s, Max(E))
      BY DEF Unfinished
    <2>. HIDE DEF Begins
    <2>2. Len(s) \in Nat /\ E \in SUBSET (0 .. Len(s)) /\ E # {}
      OBVIOUS
    <2>. HIDE DEF E
    <2>3. Max(E) \in 0 .. Len(s)
      BY <2>2, LargestNumber
    <2>. QED
      BY <2>1, <2>3
  <1>2. \A i \in Len(s) - n + 1 .. Len(s) : s[i] \in Byte
    OBVIOUS
  <1>. QED
    BY <1>1, <1>2, SubSeqProperties DEF Suffix

LEMMA InitHInv == Init => HInv
  <1>. SUFFICES ASSUME Init PROVE HInv
    OBVIOUS
  <1>1. BufferSize \in Nat /\ MaxMessages \in Nat /\ SendBuffer \in Nat
    BY SizesAssumption, EncodedAssumption DEF MaxMessages
  <1>2. outBuffer \in Buffers(BufferSize) /\ outBuffer.size = BufferSize
    BY <1>1, NewBufferIsBuffer, BufferMembers DEF Init
  <1>3. TypeOK
    <2>1. /\ sent = 0 /\ written = 0 /\ writeDones = <<>> /\ messages = <<>>
          /\ socket = <<>> /\ seen = <<>> /\ received = {}
      BY DEF Init
    <2>2. /\ sent \in 0 .. MaxMessages /\ written \in 0 .. sent
          /\ received \subseteq 1 .. MaxMessages
      BY <1>1, <2>1
    <2>3. /\ writeDones \in Seq(1 .. MaxMessages) /\ messages \in Seq(1 .. MaxMessages)
          /\ seen \in Seq(Byte) /\ socket \in Seq(Byte) /\ Len(socket) <= SendBuffer
      BY <1>1, <2>1, EmptySeq
    <2>. QED
      BY <1>1, <1>2, <2>2, <2>3 DEF Init, TypeOK
  <1>4. Queues
    BY DEF Init, Queues, LastSent
  <1>5. Content(outBuffer) = <<>>
    <2>1. ReadAble(outBuffer) = 0
      BY DEF Init, NewBuffer, ReadAble
    <2>2. Content(outBuffer) \in Seq(Byte) /\ Len(Content(outBuffer)) = 0
      BY <1>1, <1>2, <2>1, ContentIsSeq
    <2>. QED
      BY <2>2, EmptySeq
  <1>6. SubSeq(Encoded, 1, 0) = <<>>
    BY SubSeqEmpty
  <1>7. InBuffer = 0
    <2>1. InBuffer = sent - Len(writeDones)
      BY DEF Init, InBuffer
    <2>2. Len(writeDones) = 0
      <3>1. writeDones = <<>>
        BY DEF Init
      <3>. QED
        BY <3>1, EmptySeq
    <2>3. sent = 0
      BY DEF Init
    <2>. QED
      BY <2>1, <2>2, <2>3
  <1>8. HoldsEverything
    BY <1>5, <1>6, <1>7, FlattenNone DEF HoldsEverything
  <1>. QED
    BY <1>3, <1>4, <1>8 DEF HInv

LEMMA ReplyHInv == HInv /\ Reply => HInv'
  <1>. SUFFICES ASSUME HInv, Reply PROVE HInv'
    OBVIOUS
  <1>1. /\ sent \in 0 .. MaxMessages - 1 /\ MaxMessages \in Nat /\ InBuffer = sent
    BY EncodedAssumption DEF Reply, Between, HInv, TypeOK, Queues, InBuffer, MaxMessages
  <1>2. /\ outBuffer.size \in Nat /\ outBuffer \in Buffers(outBuffer.size)
        /\ Content(outBuffer) = FlattenSeq(SubSeq(Encoded, 1, sent))
    BY <1>1 DEF HInv, TypeOK, HoldsEverything
  <1>3. Encode(sent + 1)
    BY DEF Reply
  <1>4. /\ outBuffer'.size \in Nat /\ outBuffer' \in Buffers(outBuffer'.size)
        /\ Content(outBuffer') = FlattenSeq(SubSeq(Encoded, 1, sent + 1))
    BY <1>1, <1>2, <1>3, EncodeKeeps
  <1>5. sent' = sent + 1 /\ writeDones' = <<>> /\ messages' = <<>> /\ pc' = pc
    BY DEF Reply, HInv, Queues
  <1>6. TypeOK'
    BY <1>1, <1>4, <1>5 DEF Reply, HInv, TypeOK, ListenWrite, peerVars
  <1>7. Queues'
    BY <1>1, <1>5 DEF Queues, LastSent
  <1>8. InBuffer' = sent + 1
    BY <1>1, <1>5 DEF InBuffer
  <1>9. HoldsEverything'
    BY <1>4, <1>8 DEF HoldsEverything
  <1>. QED
    BY <1>6, <1>7, <1>9 DEF HInv

LEMMA WriteMessageHInv == HInv /\ WriteMessage => HInv'
  <1>. SUFFICES ASSUME HInv, WriteMessage PROVE HInv'
    OBVIOUS
  <1>1. sent \in 0 .. MaxMessages - 1 /\ MaxMessages \in Nat /\ pc = "idle" /\ pc' = "idle"
    BY EncodedAssumption DEF WriteMessage, Between, HInv, TypeOK, MaxMessages
  <1>2. sent' = sent + 1 /\ writeDones' = Append(writeDones, sent + 1)
        /\ messages' = <<>> /\ type' = type /\ type # "server"
    BY <1>1 DEF WriteMessage, HInv, Queues
  <1>3. writeDones \in Seq(1 .. MaxMessages) /\ writeDones \in Seq(Nat) /\ Len(writeDones) \in Nat
    BY DEF HInv, TypeOK, Queues, LastSent
  <1>4. writeDones' \in Seq(1 .. MaxMessages) /\ writeDones' \in Seq(Nat)
        /\ Len(writeDones') = Len(writeDones) + 1
    BY <1>1, <1>2, <1>3
  <1>5. TypeOK'
    BY <1>1, <1>2, <1>4 DEF WriteMessage, HInv, TypeOK, ListenWrite, peerVars
  <1>6. LastSent(writeDones)'
    <2>1. /\ Len(writeDones) <= sent
          /\ \A i \in 1 .. Len(writeDones) : writeDones[i] = sent - Len(writeDones) + i
      BY DEF HInv, Queues, LastSent
    <2>2. ASSUME NEW i \in 1 .. Len(writeDones')
          PROVE  writeDones'[i] = sent' - Len(writeDones') + i
      <3>1. CASE i \in 1 .. Len(writeDones)
        <4>1. writeDones'[i] = writeDones[i]
          BY <1>2, <1>3, <3>1
        <4>. QED
          BY <4>1, <3>1, <2>1, <1>1, <1>2, <1>3, <1>4
      <3>2. CASE i = Len(writeDones) + 1
        <4>1. writeDones'[i] = sent + 1
          BY <1>2, <1>3, <3>2
        <4>. QED
          BY <4>1, <3>2, <1>1, <1>2, <1>3, <1>4
      <3>. QED
        BY <3>1, <3>2, <1>3, <1>4
    <2>. QED
      BY <1>1, <1>2, <1>3, <1>4, <2>1, <2>2 DEF LastSent
  <1>7. Queues'
    BY <1>1, <1>2, <1>6 DEF Queues, LastSent
  <1>8. InBuffer' = InBuffer
    BY <1>1, <1>2, <1>3, <1>4 DEF InBuffer
  <1>9. HoldsEverything'
    BY <1>8 DEF WriteMessage, HInv, HoldsEverything
  <1>. QED
    BY <1>5, <1>7, <1>9 DEF HInv

LEMMA OnWriteHInv == HInv /\ OnWrite => HInv'
  <1>. SUFFICES ASSUME HInv, OnWrite PROVE HInv'
    OBVIOUS
  <1>1. TypeOK'
    BY DEF OnWrite, HInv, TypeOK, peerVars
  <1>2. Queues'
    BY DEF OnWrite, HInv, Queues, LastSent
  <1>3. InBuffer' = InBuffer
    BY DEF OnWrite, Between, HInv, Queues, InBuffer
  <1>4. HoldsEverything'
    BY <1>3 DEF OnWrite, HInv, HoldsEverything
  <1>. QED
    BY <1>1, <1>2, <1>4 DEF HInv

LEMMA EncodeNextHInv == HInv /\ EncodeNext => HInv'
  <1>. SUFFICES ASSUME HInv, EncodeNext PROVE HInv'
    OBVIOUS
  <1>1. /\ sent \in 0 .. MaxMessages /\ MaxMessages \in Nat
        /\ pc = "write" /\ pc' = "write" /\ sent' = sent
        /\ messages # <<>> /\ messages' = Tail(messages) /\ Encode(Head(messages))
    BY EncodedAssumption DEF EncodeNext, HInv, TypeOK, MaxMessages, loopVars
  <1>2. /\ messages \in Seq(1 .. MaxMessages) /\ messages \in Seq(Nat) /\ Len(messages) <= sent
        /\ \A i \in 1 .. Len(messages) : messages[i] = sent - Len(messages) + i
    BY DEF HInv, TypeOK, Queues, LastSent
  <1>3. /\ Len(messages) \in Nat /\ Len(messages) > 0 /\ Head(messages) = messages[1]
        /\ Tail(messages) \in Seq(1 .. MaxMessages) /\ Tail(messages) \in Seq(Nat)
        /\ Len(Tail(messages)) = Len(messages) - 1
        /\ \A i \in 1 .. Len(messages) - 1 : Tail(messages)[i] = messages[i + 1]
    BY <1>1, <1>2
  <1>. DEFINE n == sent - Len(messages)
  <1>4. n \in 0 .. MaxMessages - 1 /\ Head(messages) = n + 1 /\ InBuffer = n
    BY <1>1, <1>2, <1>3 DEF InBuffer
  <1>5. InBuffer' = n + 1
    BY <1>1, <1>3 DEF InBuffer
  <1>. HIDE DEF n
  <1>6. /\ outBuffer.size \in Nat /\ outBuffer \in Buffers(outBuffer.size)
        /\ Content(outBuffer) = FlattenSeq(SubSeq(Encoded, 1, n))
    BY <1>4 DEF HInv, TypeOK, HoldsEverything
  <1>7. /\ outBuffer'.size \in Nat /\ outBuffer' \in Buffers(outBuffer'.size)
        /\ Content(outBuffer') = FlattenSeq(SubSeq(Encoded, 1, n + 1))
    <2>1. Encode(n + 1)
      BY <1>1, <1>4
    <2>. QED
      BY <1>4, <1>6, <2>1, EncodeKeeps
  <1>8. TypeOK'
    BY <1>1, <1>3, <1>7 DEF EncodeNext, HInv, TypeOK, loopVars, peerVars
  <1>9. LastSent(messages)'
    <2>1. ASSUME NEW i \in 1 .. Len(Tail(messages))
          PROVE  Tail(messages)[i] = sent - Len(Tail(messages)) + i
      <3>1. i \in 1 .. Len(messages) - 1 /\ i + 1 \in 1 .. Len(messages)
        BY <1>3
      <3>2. Tail(messages)[i] = messages[i + 1]
        BY <1>3, <3>1
      <3>3. messages[i + 1] = sent - Len(messages) + (i + 1)
        BY <1>2, <3>1
      <3>. QED
        BY <3>1, <3>2, <3>3, <1>1, <1>3
    <2>. QED
      BY <2>1, <1>1, <1>2, <1>3 DEF LastSent
  <1>10. Queues'
    BY <1>1, <1>9 DEF EncodeNext, HInv, Queues, LastSent
  <1>11. HoldsEverything'
    BY <1>5, <1>7 DEF HoldsEverything
  <1>. QED
    BY <1>8, <1>10, <1>11 DEF HInv


\* Steps that leave the queues and m_out_buffer alone, inside onWrite or outside.
LEMMA SameQueues ==
    ASSUME HInv, UNCHANGED connVars, UNCHANGED pc
    PROVE  Queues' /\ HoldsEverything'
  <1>1. Queues'
    BY DEF connVars, HInv, Queues, LastSent
  <1>2. InBuffer' = InBuffer
    BY DEF connVars, InBuffer
  <1>. QED
    BY <1>1, <1>2 DEF connVars, HInv, HoldsEverything

\* onWrite forgets the messages only when all of them are in m_out_buffer.
LEMMA ReturnsHInv ==
    ASSUME HInv, pc = "write", messages = <<>>, Returns,
           UNCHANGED <<type, sent, messages, outBuffer>>
    PROVE  Queues' /\ HoldsEverything'
  <1>1. Queues'
    BY DEF HInv, TypeOK, Queues, LastSent, Returns
  <1>2. InBuffer' = InBuffer
    BY DEF Returns, InBuffer
  <1>. QED
    BY <1>1, <1>2 DEF HInv, HoldsEverything

LEMMA BufferTypes ==
    ASSUME HInv
    PROVE  /\ outBuffer.size \in Nat /\ outBuffer \in Buffers(outBuffer.size)
           /\ ReadAble(outBuffer) \in Nat
           /\ socket \in Seq(Byte) /\ Len(socket) \in Nat /\ Room \in Nat
  <1>1. outBuffer.size \in Nat /\ outBuffer \in Buffers(outBuffer.size)
    BY DEF HInv, TypeOK
  <1>2. ReadAble(outBuffer) \in Nat
    BY <1>1, BufferMembers
  <1>3. socket \in Seq(Byte) /\ Len(socket) \in Nat /\ Len(socket) <= SendBuffer
    BY DEF HInv, TypeOK
  <1>4. Room \in Nat
    BY <1>3, SizesAssumption DEF Room
  <1>. QED
    BY <1>1, <1>2, <1>3, <1>4

LEMMA WriteHInv == HInv /\ (WriteAll \/ WritePart \/ WriteAgain \/ WriteForEver) => HInv'
  <1>. SUFFICES ASSUME HInv PROVE WriteAll \/ WritePart \/ WriteAgain \/ WriteForEver => HInv'
    OBVIOUS
  <1>0. /\ outBuffer.size \in Nat /\ outBuffer \in Buffers(outBuffer.size)
        /\ ReadAble(outBuffer) \in Nat /\ socket \in Seq(Byte) /\ Room \in Nat
    BY BufferTypes
  <1>1. CASE WriteAll
    <2>1. socket' \in Seq(Byte) /\ Len(socket') <= SendBuffer
      <3>1. ReadAble(outBuffer) \in 0 .. ReadAble(outBuffer) /\ ReadAble(outBuffer) <= Room
            /\ Accepts(ReadAble(outBuffer))
        BY <1>0, <1>1 DEF WriteAll
      <3>. QED
        BY <1>0, <3>1, AcceptsKeeps
    <2>2. TypeOK'
      <3>1. writeDones' \in Seq(1 .. MaxMessages) /\ messages' \in Seq(1 .. MaxMessages)
        BY <1>1 DEF WriteAll, Returns, HInv, TypeOK
      <3>2. sent' \in 0 .. MaxMessages /\ written' \in 0 .. sent'
        BY <1>1 DEF WriteAll, HInv, TypeOK
      <3>3. outBuffer'.size \in Nat /\ outBuffer' \in Buffers(outBuffer'.size)
        BY <1>1 DEF WriteAll, HInv, TypeOK
      <3>. QED
        BY <1>1, <2>1, <3>1, <3>2, <3>3 DEF WriteAll, Returns, HInv, TypeOK
    <2>3. Queues' /\ HoldsEverything'
      BY <1>1, ReturnsHInv DEF WriteAll, Writing
    <2>. QED
      BY <2>2, <2>3 DEF HInv
  <1>2. CASE WritePart
    <2>1. socket' \in Seq(Byte) /\ Len(socket') <= SendBuffer
      <3>1. Room \in 0 .. ReadAble(outBuffer) /\ Room <= Room /\ Accepts(Room)
        BY <1>0, <1>2 DEF WritePart
      <3>. QED
        BY <1>0, <3>1, AcceptsKeeps
    <2>2. TypeOK'
      BY <1>2, <2>1 DEF WritePart, HInv, TypeOK, connVars, loopVars
    <2>3. Queues' /\ HoldsEverything'
      BY <1>2, SameQueues DEF WritePart, loopVars
    <2>. QED
      BY <2>2, <2>3 DEF HInv
  <1>3. CASE WriteAgain
    <2>1. TypeOK'
      BY <1>3 DEF WriteAgain, Returns, HInv, TypeOK, peerVars
    <2>2. Queues' /\ HoldsEverything'
      BY <1>3, ReturnsHInv DEF WriteAgain, Writing
    <2>. QED
      BY <2>1, <2>2 DEF HInv
  <1>4. CASE WriteForEver
    <2>1. TypeOK'
      BY <1>4 DEF WriteForEver, HInv, TypeOK, connVars, peerVars
    <2>2. Queues' /\ HoldsEverything'
      BY <1>4, SameQueues DEF WriteForEver
    <2>. QED
      BY <2>1, <2>2 DEF HInv
  <1>. QED
    BY <1>1, <1>2, <1>3, <1>4

LEMMA PeerReadsHInv ==
    ASSUME HInv, NEW n \in 1 .. SendBuffer, PeerReads(n)
    PROVE  HInv'
  <1>1. socket \in Seq(Byte) /\ Len(socket) \in Nat /\ Len(socket) <= SendBuffer
        /\ seen \in Seq(Byte) /\ n \in 1 .. Len(socket) /\ received \subseteq 1 .. MaxMessages
    BY DEF HInv, TypeOK, PeerReads
  <1>2. SubSeq(socket, 1, n) \in Seq(Byte)
    <2>1. \A i \in 1 .. n : socket[i] \in Byte
      BY <1>1
    <2>. QED
      BY <1>1, <2>1, SubSeqProperties
  <1>3. seen \o SubSeq(socket, 1, n) \in Seq(Byte)
    BY <1>1, <1>2, ConcatProperties
  <1>4. seen' \in Seq(Byte)
    BY <1>3, UnfinishedType DEF PeerReads
  <1>5. received' \subseteq 1 .. MaxMessages
    <2>1. DOMAIN Encoded = 1 .. MaxMessages
      BY EncodedAssumption DEF MaxMessages
    <2>2. \A s : Found(s) \subseteq DOMAIN Encoded
      BY DEF Found
    <2>. QED
      BY <1>1, <2>1, <2>2 DEF PeerReads
  <1>6. socket' \in Seq(Byte) /\ Len(socket') <= SendBuffer
    <2>1. socket' = SubSeq(socket, n + 1, Len(socket))
      BY DEF PeerReads
    <2>2. \A i \in n + 1 .. Len(socket) : socket[i] \in Byte
      BY <1>1
    <2>3. n + 1 \in Int /\ Len(socket) \in Int
      BY <1>1
    <2>4. /\ SubSeq(socket, n + 1, Len(socket)) \in Seq(Byte)
          /\ Len(SubSeq(socket, n + 1, Len(socket)))
               = IF n + 1 <= Len(socket) THEN Len(socket) - (n + 1) + 1 ELSE 0
      BY <2>2, <2>3, SubSeqProperties
    <2>. QED
      BY <1>1, <2>1, <2>4, SizesAssumption
  <1>7. TypeOK'
    BY <1>4, <1>5, <1>6 DEF PeerReads, HInv, TypeOK, connVars, loopVars
  <1>8. Queues' /\ HoldsEverything'
    BY SameQueues DEF PeerReads, loopVars
  <1>. QED
    BY <1>7, <1>8 DEF HInv

LEMMA NextHInv == HInv /\ [Next]_vars => HInv'
  <1>. SUFFICES ASSUME HInv, [Next]_vars
                PROVE  HInv'
    OBVIOUS
  <1>1. CASE Poll
    <2>1. TypeOK'
      BY <1>1 DEF Poll, HInv, TypeOK, connVars, peerVars
    <2>. QED
      BY <1>1, <2>1, SameQueues DEF Poll, HInv
  <1>2. CASE OnWriteReturns
    <2>1. TypeOK'
      BY <1>2 DEF OnWriteReturns, HInv, TypeOK, connVars, peerVars
    <2>. QED
      BY <1>2, <2>1, SameQueues DEF OnWriteReturns, HInv
  <1>3. CASE Clear
    <2>1. TypeOK'
      BY <1>3 DEF Clear, HInv, TypeOK, peerVars
    <2>2. InBuffer' = InBuffer
      BY <1>3 DEF Clear, InBuffer
    <2>3. HoldsEverything'
      BY <1>3, <2>2 DEF Clear, HInv, HoldsEverything
    <2>4. Queues'
      BY <1>3 DEF Clear, HInv, Queues, LastSent
    <2>. QED
      BY <2>1, <2>3, <2>4 DEF HInv
  <1>4. CASE LoopStep
    BY <1>1, <1>2, <1>3, <1>4, OnWriteHInv, EncodeNextHInv, WriteHInv DEF LoopStep
  <1>5. ASSUME NEW how \in {"closed", "reset"}, PeerGoes(how)
        PROVE  HInv'
    <2>1. TypeOK'
      BY <1>5 DEF PeerGoes, HInv, TypeOK, connVars, loopVars
    <2>2. UNCHANGED connVars /\ UNCHANGED pc
      BY <1>5 DEF PeerGoes, loopVars
    <2>. QED
      BY <2>1, <2>2, SameQueues DEF HInv
  <1>6. CASE UNCHANGED vars
    <2>1. TypeOK'
      BY <1>6 DEF HInv, TypeOK, vars, connVars, loopVars, peerVars
    <2>2. UNCHANGED connVars /\ UNCHANGED pc
      BY <1>6 DEF vars, loopVars
    <2>. QED
      BY <2>1, <2>2, SameQueues DEF HInv
  <1>. QED
    BY <1>4, <1>5, <1>6, ReplyHInv, WriteMessageHInv, PeerReadsHInv DEF Next

\* The members keep their types, and the kernel never holds more than its buffer.
THEOREM TypeCorrect == Spec => []TypeOK
  <1>1. HInv => TypeOK
    BY DEF HInv
  <1>. QED
    BY <1>1, InitHInv, NextHInv, PTL DEF Spec

\* However often the vector is grown and onWrite is called, m_out_buffer holds
\* what was encoded of every message of the connection, in the order of sending.
THEOREM BufferIsComplete == Spec => []HoldsEverything
  <1>1. HInv => HoldsEverything
    BY DEF HInv
  <1>. QED
    BY <1>1, InitHInv, NextHInv, PTL DEF Spec
=============================================================================
