-------------------------- MODULE TcpInput_proofs --------------------------
(***************************************************************************)
(* The receiving half of a connection, for every buffer size, every set of *)
(* messages and every way the bytes arrive: the indices of m_in_buffer     *)
(* stay ordered, decode never moves the read index past the write index,   *)
(* onRead always has room to offer, and a read that does not fill that     *)
(* room is kept.  As long as the messages under way fit in the buffer and  *)
(* do not look like several, they are handed over unaltered and in order.  *)
(*                                                                         *)
(* TypeOK is not inductive alone: a buffer whose write index had reached   *)
(* the end of the vector would be enlarged by onRead, and decode reads     *)
(* below the write index only because that index is inside the vector.     *)
(* Inv adds NeverFull.                                                     *)
(***************************************************************************)
EXTENDS TcpInput, SequenceTheorems, TLAPS

(***************************************************************************)
(* What the member functions of TcpBuffer keep and do, for buffers of      *)
(* every size and content: the indices stay ordered and inside the vector, *)
(* and the readable content behaves as a queue of bytes.                   *)
(***************************************************************************)

\* A buffer is determined by its four members; their types in one place.
LEMMA BufferMembers ==
    ASSUME NEW n \in Nat, NEW b \in Buffers(n)
    PROVE  /\ b.size = n
           /\ b.data \in [0 .. n - 1 -> Byte]
           /\ b.read \in Nat /\ b.write \in Nat
           /\ b.read <= b.write /\ b.write <= n
           /\ b = [size |-> b.size, data |-> b.data, read |-> b.read, write |-> b.write]
           /\ ReadAble(b) \in Nat /\ ReadAble(b) <= n
  BY DEF Buffers, ReadAble

\* ...and conversely, a record with such members is a buffer.
LEMMA MembersBuffer ==
    ASSUME NEW n \in Nat, NEW d \in [0 .. n - 1 -> Byte],
           NEW r \in Nat, NEW w \in Nat, r <= w, w <= n
    PROVE  [size |-> n, data |-> d, read |-> r, write |-> w] \in Buffers(n)
  BY DEF Buffers

\* The content as a sequence of bytes.
LEMMA ContentIsSeq ==
    ASSUME NEW n \in Nat, NEW b \in Buffers(n)
    PROVE  /\ Content(b) \in Seq(Byte)
           /\ Len(Content(b)) = ReadAble(b)
           /\ \A k \in 1 .. ReadAble(b) : Content(b)[k] = b.data[b.read + k - 1]
  <1>1. /\ b.data \in [0 .. n - 1 -> Byte] /\ b.read \in Nat /\ b.write \in Nat
        /\ b.write <= n /\ ReadAble(b) \in Nat /\ ReadAble(b) = b.write - b.read
    BY BufferMembers DEF ReadAble
  <1>2. ASSUME NEW k \in 1 .. ReadAble(b)
        PROVE  b.data[b.read + k - 1] \in Byte
    <2>1. b.read + k - 1 \in 0 .. n - 1
      BY <1>1
    <2>. QED
      BY <1>1, <2>1
  <1>3. Content(b) \in [1 .. ReadAble(b) -> Byte]
    BY <1>2 DEF Content
  <1>4. Content(b) \in Seq(Byte)
    BY <1>1, <1>3, SeqDef
  <1>5. Len(Content(b)) = ReadAble(b)
    BY <1>1, <1>3, <1>4, LenProperties
  <1>. QED
    BY <1>4, <1>5 DEF Content

\* What is left of a sequence without its first r elements.
LEMMA DropFirst ==
    ASSUME NEW T, NEW w \in Seq(T), NEW r \in 0 .. Len(w)
    PROVE  /\ SubSeq(w, r + 1, Len(w)) \in Seq(T)
           /\ Len(SubSeq(w, r + 1, Len(w))) = Len(w) - r
           /\ \A q \in 1 .. Len(w) - r : SubSeq(w, r + 1, Len(w))[q] = w[r + q]
  <1>. DEFINE left == SubSeq(w, r + 1, Len(w))
  <1>1. /\ left \in Seq(T)
        /\ Len(left) = IF r + 1 <= Len(w) THEN Len(w) - (r + 1) + 1 ELSE 0
        /\ \A i \in 1 .. Len(w) - (r + 1) + 1 : left[i] = w[(r + 1) + i - 1]
    <2>1. \A k \in r + 1 .. Len(w) : w[k] \in T
      BY ElementOfSeq
    <2>2. r + 1 \in Int /\ Len(w) \in Int
      OBVIOUS
    <2>. QED
      BY <2>1, <2>2, SubSeqProperties
  <1>. HIDE DEF left
  <1>2. r \in Nat /\ Len(w) \in Nat
    OBVIOUS
  <1>3. ASSUME NEW q \in 1 .. Len(w) - r
        PROVE  left[q] = w[r + q]
    <2>1. q \in 1 .. Len(w) - (r + 1) + 1 /\ (r + 1) + q - 1 = r + q
      BY <1>2
    <2>. QED
      BY <1>1, <2>1
  <1>. QED
    BY <1>1, <1>2, <1>3 DEF left

LEMMA NewBufferIsBuffer ==
    ASSUME NEW n \in Nat
    PROVE  NewBuffer(n) \in Buffers(n)
  <1>1. Zeros(n) \in [0 .. n - 1 -> Byte]
    BY DEF Zeros, Byte
  <1>. QED
    BY <1>1 DEF NewBuffer, Buffers

\* resizeBuffer keeps the shape and, if the readable bytes fit, the content.
LEMMA ResizeKeeps ==
    ASSUME NEW n \in Nat, NEW b \in Buffers(n), NEW m \in Nat
    PROVE  /\ ResizeBuffer(b, m) \in Buffers(m)
           /\ ResizeBuffer(b, m).read = 0
           /\ ReadAble(b) <= m =>
                /\ ResizeBuffer(b, m).write = ReadAble(b)
                /\ Content(ResizeBuffer(b, m)) = Content(b)
  <1>. DEFINE count == IF m < ReadAble(b) THEN m ELSE ReadAble(b)
              d == [i \in 0 .. m - 1 |-> IF i < count THEN b.data[b.read + i] ELSE 0]
              c == [size |-> m, data |-> d, read |-> 0, write |-> count]
  <1>1. /\ b.size = n /\ b.data \in [0 .. n - 1 -> Byte]
        /\ b.read \in Nat /\ b.write \in Nat /\ b.read <= b.write /\ b.write <= n
        /\ ReadAble(b) \in Nat /\ ReadAble(b) = b.write - b.read
    BY BufferMembers DEF ReadAble
  <1>2. ResizeBuffer(b, m) = c
    BY DEF ResizeBuffer
  <1>3. count \in Nat /\ count <= m /\ count <= ReadAble(b)
    BY <1>1
  <1>4. d \in [0 .. m - 1 -> Byte]
    <2>. SUFFICES ASSUME NEW i \in 0 .. m - 1
                  PROVE  (IF i < count THEN b.data[b.read + i] ELSE 0) \in Byte
      OBVIOUS
    <2>1. CASE i < count
      <3>1. b.read + i \in 0 .. n - 1
        BY <1>1, <1>3, <2>1
      <3>. QED
        BY <1>1, <2>1, <3>1
    <2>2. CASE ~(i < count)
      BY <2>2 DEF Byte
    <2>. QED
      BY <2>1, <2>2
  <1>. HIDE DEF d
  <1>5. c \in Buffers(m)
    BY <1>3, <1>4, MembersBuffer
  <1>6. ASSUME ReadAble(b) <= m
        PROVE  count = ReadAble(b) /\ Content(c) = Content(b)
    <2>1. count = ReadAble(b)
      BY <1>1, <1>6
    <2>2. ReadAble(c) = ReadAble(b)
      BY <1>1, <2>1 DEF ReadAble
    <2>3. \A k \in 1 .. ReadAble(b) : c.data[c.read + k - 1] = b.data[b.read + k - 1]
      <3>. SUFFICES ASSUME NEW k \in 1 .. ReadAble(b)
                    PROVE  d[0 + k - 1] = b.data[b.read + k - 1]
        OBVIOUS
      <3>1. k - 1 \in 0 .. m - 1 /\ k - 1 < count
        BY <1>1, <1>6, <2>1
      <3>2. d[k - 1] = b.data[b.read + (k - 1)]
        BY <3>1 DEF d
      <3>. QED
        BY <1>1, <3>1, <3>2
    <2>. QED
      BY <2>1, <2>2, <2>3 DEF Content
  <1>. QED
    BY <1>2, <1>5, <1>6

\* adjustBuffer is invisible in the content; afterwards the room is at least
\* what it was, and less than a third of the vector lies before the content.
LEMMA AdjustKeeps ==
    ASSUME NEW n \in Nat, NEW b \in Buffers(n)
    PROVE  /\ AdjustBuffer(b) \in Buffers(n)
           /\ Content(AdjustBuffer(b)) = Content(b)
           /\ AdjustBuffer(b).write <= b.write
           /\ n >= 3 => AdjustBuffer(b).read < n \div 3
  <1>1. /\ b.size = n /\ ReadAble(b) <= n /\ ReadAble(b) <= b.write
        /\ b.read \in Nat /\ b.write \in Nat
    BY BufferMembers DEF ReadAble
  <1>2. n \div 3 \in Nat /\ (n >= 3 => 0 < n \div 3)
    OBVIOUS
  <1>3. CASE b.read < b.size \div 3
    BY <1>1, <1>3 DEF AdjustBuffer
  <1>4. CASE ~(b.read < b.size \div 3)
    <2>1. AdjustBuffer(b) = ResizeBuffer(b, n)
      BY <1>1, <1>4 DEF AdjustBuffer
    <2>2. /\ ResizeBuffer(b, n) \in Buffers(n) /\ ResizeBuffer(b, n).read = 0
          /\ ResizeBuffer(b, n).write = ReadAble(b)
          /\ Content(ResizeBuffer(b, n)) = Content(b)
      BY <1>1, ResizeKeeps
    <2>. QED
      BY <1>1, <1>2, <2>1, <2>2
  <1>. QED
    BY <1>3, <1>4

\* moveReadIndex drops the first k readable bytes, unless it refuses.
LEMMA MoveReadKeeps ==
    ASSUME NEW n \in Nat, NEW b \in Buffers(n), NEW k \in Int, b.read + k <= b.write
    PROVE  /\ MoveReadIndex(b, k) \in Buffers(n)
           /\ MoveReadIndex(b, k).write <= b.write
  <1>1. /\ b.size = n /\ b.data \in [0 .. n - 1 -> Byte]
        /\ b.read \in Nat /\ b.write \in Nat /\ b.write <= n
        /\ b = [size |-> n, data |-> b.data, read |-> b.read, write |-> b.write]
    BY BufferMembers
  <1>2. CASE Refused(b, b.read + k)
    BY <1>1, <1>2 DEF MoveReadIndex
  <1>3. CASE ~Refused(b, b.read + k)
    <2>. DEFINE c == [size |-> n, data |-> b.data, read |-> b.read + k, write |-> b.write]
    <2>1. b.read + k \in Nat
      BY <1>1, <1>3 DEF Refused
    <2>2. c \in Buffers(n)
      BY <1>1, <2>1, MembersBuffer
    <2>3. WithIndices(b, b.read + k, b.write) = c
      BY <1>1 DEF WithIndices
    <2>. HIDE DEF c
    <2>4. MoveReadIndex(b, k) = AdjustBuffer(c)
      BY <1>3, <2>3 DEF MoveReadIndex
    <2>5. c.write = b.write
      BY DEF c
    <2>. QED
      BY <2>2, <2>4, <2>5, AdjustKeeps
  <1>. QED
    BY <1>2, <1>3

\* Storing bytes in the room behind the write index changes neither the indices
\* nor the content.
LEMMA StoreKeeps ==
    ASSUME NEW n \in Nat, NEW b \in Buffers(n), NEW bytes \in Seq(Byte)
    PROVE  /\ Store(b, bytes) \in Buffers(n)
           /\ Store(b, bytes).read = b.read /\ Store(b, bytes).write = b.write
           /\ \A i \in 0 .. b.write - 1 : Store(b, bytes).data[i] = b.data[i]
           /\ \A k \in 1 .. Len(bytes) :
                b.write + k <= n => Store(b, bytes).data[b.write + k - 1] = bytes[k]
  <1>. DEFINE d == [i \in 0 .. n - 1 |->
                      IF i \in b.write .. b.write + Len(bytes) - 1
                        THEN bytes[i - b.write + 1] ELSE b.data[i]]
              c == [size |-> n, data |-> d, read |-> b.read, write |-> b.write]
  <1>1. /\ b.size = n /\ b.data \in [0 .. n - 1 -> Byte]
        /\ b.read \in Nat /\ b.write \in Nat /\ b.read <= b.write /\ b.write <= n
        /\ b = [size |-> n, data |-> b.data, read |-> b.read, write |-> b.write]
    BY BufferMembers
  <1>2. Len(bytes) \in Nat /\ \A k \in 1 .. Len(bytes) : bytes[k] \in Byte
    OBVIOUS
  <1>3. Store(b, bytes) = c
    BY <1>1 DEF Store
  <1>4. d \in [0 .. n - 1 -> Byte]
    <2>. SUFFICES ASSUME NEW i \in 0 .. n - 1
                  PROVE  (IF i \in b.write .. b.write + Len(bytes) - 1
                            THEN bytes[i - b.write + 1] ELSE b.data[i]) \in Byte
      OBVIOUS
    <2>1. ASSUME i \in b.write .. b.write + Len(bytes) - 1
          PROVE  i - b.write + 1 \in 1 .. Len(bytes)
      BY <1>1, <1>2, <2>1
    <2>. QED
      BY <1>1, <1>2, <2>1
  <1>5. \A i \in 0 .. b.write - 1 : d[i] = b.data[i]
    BY <1>1, <1>2
  <1>6. ASSUME NEW k \in 1 .. Len(bytes), b.write + k <= n
        PROVE  d[b.write + k - 1] = bytes[k]
    <2>1. /\ b.write + k - 1 \in 0 .. n - 1
          /\ b.write + k - 1 \in b.write .. b.write + Len(bytes) - 1
          /\ (b.write + k - 1) - b.write + 1 = k
      BY <1>1, <1>2, <1>6
    <2>. QED
      BY <2>1
  <1>. HIDE DEF d
  <1>7. c \in Buffers(n)
    BY <1>1, <1>4, MembersBuffer
  <1>. QED
    BY <1>3, <1>5, <1>6, <1>7

\* Storing bytes and moving the write index behind them appends them to the
\* content: the bytes of a read(2), or of a memcpy.
LEMMA StoredAppends ==
    ASSUME NEW n \in Nat, NEW b \in Buffers(n), NEW bytes \in Seq(Byte),
           b.write + Len(bytes) <= n
    PROVE  LET c == WithIndices(Store(b, bytes), b.read, b.write + Len(bytes))
           IN  c \in Buffers(n) /\ Content(c) = Content(b) \o bytes
  <1>. DEFINE c == WithIndices(Store(b, bytes), b.read, b.write + Len(bytes))
  <1>1. /\ b.read \in Nat /\ b.write \in Nat /\ b.read <= b.write /\ b.write <= n
        /\ ReadAble(b) = b.write - b.read /\ ReadAble(b) \in Nat
    BY BufferMembers DEF ReadAble
  <1>2. Len(bytes) \in Nat
    OBVIOUS
  <1>3. /\ c = [size |-> n, data |-> Store(b, bytes).data,
                read |-> b.read, write |-> b.write + Len(bytes)]
        /\ c \in Buffers(n)
    <2>1. Store(b, bytes) \in Buffers(n)
      BY StoreKeeps
    <2>2. Store(b, bytes).size = n /\ Store(b, bytes).data \in [0 .. n - 1 -> Byte]
      BY <2>1, BufferMembers
    <2>3. c = [size |-> n, data |-> Store(b, bytes).data,
               read |-> b.read, write |-> b.write + Len(bytes)]
      BY <2>2 DEF WithIndices
    <2>4. b.write + Len(bytes) \in Nat /\ b.read <= b.write + Len(bytes)
      BY <1>1, <1>2
    <2>5. [size |-> n, data |-> Store(b, bytes).data,
           read |-> b.read, write |-> b.write + Len(bytes)] \in Buffers(n)
      BY <1>1, <2>2, <2>4, MembersBuffer
    <2>. QED
      BY <2>3, <2>5
  <1>. HIDE DEF c
  <1>4. ReadAble(c) = ReadAble(b) + Len(bytes)
    BY <1>1, <1>2, <1>3 DEF ReadAble
  <1>5. /\ Content(b) \in Seq(Byte) /\ Len(Content(b)) = ReadAble(b)
        /\ \A k \in 1 .. ReadAble(b) : Content(b)[k] = b.data[b.read + k - 1]
    BY ContentIsSeq
  <1>6. /\ Content(c) \in Seq(Byte) /\ Len(Content(c)) = ReadAble(c)
        /\ \A k \in 1 .. ReadAble(c) : Content(c)[k] = c.data[c.read + k - 1]
    BY <1>3, ContentIsSeq
  <1>7. /\ Content(b) \o bytes \in Seq(Byte)
        /\ Len(Content(b) \o bytes) = ReadAble(b) + Len(bytes)
        /\ \A k \in 1 .. ReadAble(b) + Len(bytes) : (Content(b) \o bytes)[k] =
              IF k <= ReadAble(b) THEN Content(b)[k] ELSE bytes[k - ReadAble(b)]
    BY <1>5, ConcatProperties
  <1>8. ASSUME NEW k \in 1 .. Len(Content(c))
        PROVE  Content(c)[k] = (Content(b) \o bytes)[k]
    <2>1. k \in 1 .. ReadAble(b) + Len(bytes)
          /\ Content(c)[k] = Store(b, bytes).data[b.read + k - 1]
      BY <1>3, <1>4, <1>6
    <2>2. CASE k <= ReadAble(b)
      <3>1. k \in 1 .. ReadAble(b) /\ b.read + k - 1 \in 0 .. b.write - 1
        BY <1>1, <2>1, <2>2
      <3>2. Store(b, bytes).data[b.read + k - 1] = b.data[b.read + k - 1]
        BY <3>1, StoreKeeps
      <3>. QED
        BY <1>5, <1>7, <2>1, <2>2, <3>1, <3>2
    <2>3. CASE ~(k <= ReadAble(b))
      <3>. DEFINE h == k - ReadAble(b)
      <3>1. h \in 1 .. Len(bytes)
        BY <1>1, <1>2, <2>1, <2>3
      <3>2. b.write + h <= n
        BY <1>1, <1>2, <3>1
      <3>3. b.read + k - 1 = b.write + h - 1
        <4>1. k \in Int
          BY <1>1, <1>2, <2>1
        <4>2. b.read \in Int /\ b.write \in Int /\ ReadAble(b) = b.write - b.read
          BY <1>1
        <4>. QED
          BY <4>1, <4>2
      <3>4. Store(b, bytes).data[b.write + h - 1] = bytes[h]
        BY <3>1, <3>2, StoreKeeps
      <3>5. (Content(b) \o bytes)[k] = bytes[h]
        BY <1>7, <2>1, <2>3
      <3>. QED
        BY <2>1, <3>3, <3>4, <3>5
    <2>. QED
      BY <2>2, <2>3
  <1>9. Content(c) = Content(b) \o bytes
    BY <1>4, <1>6, <1>7, <1>8, SeqEqual
  <1>. QED
    BY <1>3, <1>9 DEF c

\* onRead's step: bytes read into the room of a buffer that is not full are
\* appended to its content as long as they leave one byte of room...
THEOREM ReadIntoRoom ==
    ASSUME NEW n \in Nat, NEW b \in Buffers(n), NEW bytes \in Seq(Byte),
           b.write + Len(bytes) < n
    PROVE  LET c == MoveWriteIndex(Store(b, bytes), Len(bytes))
           IN  /\ c \in Buffers(n) /\ c.write < n
               /\ Content(c) = Content(b) \o bytes
               /\ n >= 3 => c.read < n \div 3
  <1>. DEFINE s == Store(b, bytes)
              a == WithIndices(s, b.read, b.write + Len(bytes))
  <1>1. Len(bytes) \in Nat /\ b.write \in Nat
    BY BufferMembers
  <1>2. s \in Buffers(n) /\ s.size = n /\ s.read = b.read /\ s.write = b.write
    BY StoreKeeps, BufferMembers
  <1>3. a \in Buffers(n) /\ Content(a) = Content(b) \o bytes
    BY <1>1, StoredAppends
  <1>4. a.write = b.write + Len(bytes)
    BY DEF WithIndices
  <1>5. MoveWriteIndex(s, Len(bytes)) = AdjustBuffer(a)
    BY <1>1, <1>2 DEF MoveWriteIndex, Refused
  <1>6. /\ AdjustBuffer(a) \in Buffers(n) /\ Content(AdjustBuffer(a)) = Content(a)
        /\ AdjustBuffer(a).write <= a.write
        /\ n >= 3 => AdjustBuffer(a).read < n \div 3
    BY <1>3, AdjustKeeps
  <1>7. AdjustBuffer(a).write \in Nat
    BY <1>6, BufferMembers
  <1>. QED
    BY <1>1, <1>3, <1>4, <1>5, <1>6, <1>7

\* ...and bytes that fill the room exactly are not: moveWriteIndex refuses, the
\* content and the indices stay what they were.
THEOREM ExactFillIsRefused ==
    ASSUME NEW n \in Nat, NEW b \in Buffers(n), NEW bytes \in Seq(Byte),
           b.write + Len(bytes) = n
    PROVE  LET c == MoveWriteIndex(Store(b, bytes), Len(bytes))
           IN  /\ c \in Buffers(n) /\ c.read = b.read /\ c.write = b.write
               /\ Content(c) = Content(b)
  <1>. DEFINE s == Store(b, bytes)
  <1>1. Len(bytes) \in Nat /\ b.read \in Nat /\ b.write \in Nat
    BY BufferMembers
  <1>2. s \in Buffers(n) /\ s.size = n /\ s.read = b.read /\ s.write = b.write
        /\ \A i \in 0 .. b.write - 1 : s.data[i] = b.data[i]
    BY StoreKeeps, BufferMembers
  <1>3. MoveWriteIndex(s, Len(bytes)) = s
    BY <1>1, <1>2 DEF MoveWriteIndex, Refused
  <1>4. /\ Content(b) \in Seq(Byte) /\ Len(Content(b)) = ReadAble(b)
        /\ \A k \in 1 .. ReadAble(b) : Content(b)[k] = b.data[b.read + k - 1]
    BY ContentIsSeq
  <1>5. /\ Content(s) \in Seq(Byte) /\ Len(Content(s)) = ReadAble(s)
        /\ \A k \in 1 .. ReadAble(s) : Content(s)[k] = s.data[s.read + k - 1]
    BY <1>2, ContentIsSeq
  <1>6. ReadAble(s) = ReadAble(b) /\ ReadAble(b) = b.write - b.read
    BY <1>2 DEF ReadAble
  <1>7. ASSUME NEW k \in 1 .. ReadAble(b)
        PROVE  Content(s)[k] = Content(b)[k]
    <2>1. b.read + k - 1 \in 0 .. b.write - 1
      BY <1>1, <1>6
    <2>. QED
      BY <1>2, <1>4, <1>5, <1>6, <2>1
  <1>8. Content(s) = Content(b)
    BY <1>4, <1>5, <1>6, <1>7, SeqEqual
  <1>. QED
    BY <1>2, <1>3, <1>8

\* moveReadIndex by at most what is readable drops exactly that many bytes,
\* unless the new index would be the end of the vector.
THEOREM MoveReadDrops ==
    ASSUME NEW n \in Nat, NEW b \in Buffers(n), NEW k \in 0 .. ReadAble(b),
           b.read + k < n
    PROVE  /\ Content(MoveReadIndex(b, k)) = SubSeq(Content(b), k + 1, ReadAble(b))
           /\ n >= 3 => MoveReadIndex(b, k).read < n \div 3
  <1>. DEFINE c == WithIndices(b, b.read + k, b.write)
              t == SubSeq(Content(b), k + 1, ReadAble(b))
  <1>1. /\ b.size = n /\ b.data \in [0 .. n - 1 -> Byte]
        /\ b.read \in Nat /\ b.write \in Nat /\ b.write <= n
        /\ ReadAble(b) \in Nat /\ ReadAble(b) = b.write - b.read
    BY BufferMembers DEF ReadAble
  <1>2. c = [size |-> n, data |-> b.data, read |-> b.read + k, write |-> b.write]
    BY <1>1 DEF WithIndices
  <1>3. c \in Buffers(n)
    <2>1. b.read + k \in Nat /\ b.read + k <= b.write
      BY <1>1
    <2>. QED
      BY <1>1, <1>2, <2>1, MembersBuffer
  <1>4. MoveReadIndex(b, k) = AdjustBuffer(c)
    BY <1>1 DEF MoveReadIndex, Refused
  <1>5. /\ Content(AdjustBuffer(c)) = Content(c)
        /\ n >= 3 => AdjustBuffer(c).read < n \div 3
    BY <1>3, AdjustKeeps
  <1>. HIDE DEF c
  <1>6. ReadAble(c) = ReadAble(b) - k /\ c.data = b.data /\ c.read = b.read + k
    BY <1>1, <1>2 DEF ReadAble
  <1>7. /\ Content(b) \in Seq(Byte) /\ Len(Content(b)) = ReadAble(b)
        /\ \A i \in 1 .. ReadAble(b) : Content(b)[i] = b.data[b.read + i - 1]
    BY ContentIsSeq
  <1>8. /\ Content(c) \in Seq(Byte) /\ Len(Content(c)) = ReadAble(c)
        /\ \A i \in 1 .. ReadAble(c) : Content(c)[i] = c.data[c.read + i - 1]
    BY <1>3, ContentIsSeq
  <1>9. /\ t \in Seq(Byte) /\ Len(t) = ReadAble(b) - k
        /\ \A i \in 1 .. ReadAble(b) - k : t[i] = Content(b)[k + i]
    BY <1>1, <1>7, DropFirst
  <1>. HIDE DEF t
  <1>10. ASSUME NEW i \in 1 .. Len(t)
         PROVE  Content(c)[i] = t[i]
    <2>1. i \in 1 .. ReadAble(c) /\ k + i \in 1 .. ReadAble(b)
          /\ c.read + i - 1 = b.read + (k + i) - 1
      <3>. DEFINE from == b.read
                  a == ReadAble(b)
      <3>1. /\ from \in Nat /\ a \in Nat /\ k \in 0 .. a /\ i \in 1 .. a - k
            /\ ReadAble(c) = a - k /\ c.read = from + k
        BY <1>1, <1>6, <1>9
      <3>. HIDE DEF from, a
      <3>2. /\ i \in 1 .. ReadAble(c) /\ k + i \in 1 .. a
            /\ c.read + i - 1 = from + (k + i) - 1
        BY <3>1
      <3>. QED
        BY <3>2 DEF from, a
    <2>. QED
      BY <1>6, <1>7, <1>8, <1>9, <2>1
  <1>11. Content(c) = t
    BY <1>6, <1>8, <1>9, <1>10, SeqEqual
  <1>. QED
    BY <1>4, <1>5, <1>11 DEF t

(***************************************************************************)
(* The receiving half.                                                     *)
(***************************************************************************)
Inv == TypeOK /\ NeverFull

\* What comes before the message in a package.
LEMMA HeadBytes ==
    ASSUME NEW n \in Nat, n < 32768
    PROVE  LET head == <<PB_START, n \div 256, n % 256>>
           IN  head \in Seq(Byte) /\ Len(head) = 3
  <1>1. n \div 256 \in 0 .. 255 /\ n % 256 \in 0 .. 255
    OBVIOUS
  <1>. QED
    BY <1>1 DEF Byte, PB_START

\* A package consists of bytes.
LEMMA PackageBytes ==
    ASSUME NEW m \in Messages, NEW k \in 1 .. PackageLength(m)
    PROVE  Package(m)[k] \in Byte
  <1>. DEFINE n == PackageLength(m)
              head == <<PB_START, n \div 256, n % 256>>
              tail == <<PB_END>>
              front == head \o m
  <1>1. m \in Seq(Byte) /\ Len(m) \in Nat /\ n = Len(m) + 4 /\ n \in Nat /\ n < 32768
    BY MessagesAssumption, LengthAssumption DEF PackageLength, LengthBytes
  <1>2. tail \in Seq(Byte) /\ Len(tail) = 1
    BY DEF Byte, PB_END
  <1>3. Package(m) = front \o tail
    BY DEF Package
  <1>. HIDE DEF n
  <1>4. head \in Seq(Byte) /\ Len(head) = 3
    BY <1>1, HeadBytes
  <1>. HIDE DEF head, tail
  <1>5. front \in Seq(Byte) /\ Len(front) = 3 + Len(m)
    <2>1. head \in Seq(Byte) /\ m \in Seq(Byte)
      BY <1>1, <1>4
    <2>2. head \o m \in Seq(Byte) /\ Len(head \o m) = Len(head) + Len(m)
      BY <2>1, ConcatProperties
    <2>. QED
      BY <1>4, <2>2
  <1>. HIDE DEF front
  <1>6. front \o tail \in Seq(Byte) /\ Len(front \o tail) = Len(front) + Len(tail)
    BY <1>2, <1>5, ConcatProperties
  <1>7. Package(m) \in Seq(Byte) /\ Len(Package(m)) = n /\ k \in 1 .. n
    BY <1>1, <1>2, <1>3, <1>5, <1>6 DEF n
  <1>. QED
    BY <1>7, ElementOfSeq

\* Bytes decode looks at are bytes, and the lengths it reads are integers.
LEMMA LengthRead ==
    ASSUME NEW b \in Buffers(BufferSize), NEW out \in Outside, NEW k \in Int
    PROVE  ByteAt(b, k, out) \in Byte /\ GetInt(b, k, out) \in Int
  <1>1. ASSUME NEW i \in Int
        PROVE  ByteAt(b, i, out) \in Byte
    BY SizeAssumption, OutsideAssumption, BufferMembers DEF ByteAt
  <1>2. ByteAt(b, k, out) \in Nat /\ ByteAt(b, k + 1, out) \in Nat
    <2>1. ByteAt(b, k, out) \in Byte /\ ByteAt(b, k + 1, out) \in Byte
      BY <1>1
    <2>2. \A x \in Byte : x \in Nat
      BY DEF Byte
    <2>. QED
      BY <2>1, <2>2
  <1>. QED
    BY <1>1, <1>2 DEF GetInt

LEMMA RoomOffered ==
    ASSUME Inv
    PROVE  /\ Room = inBuffer
           /\ inBuffer \in Buffers(BufferSize) /\ inBuffer.size = BufferSize
           /\ BufferSize \in Nat
           /\ inBuffer.read \in Nat /\ inBuffer.write \in Nat
           /\ inBuffer.read <= inBuffer.write /\ inBuffer.write < BufferSize
           /\ WriteAble(Room) = BufferSize - inBuffer.write
           /\ WriteAble(Room) \in Nat \ {0}
  <1>1. inBuffer \in Buffers(BufferSize) /\ inBuffer.write < inBuffer.size
    BY DEF Inv, TypeOK, NeverFull
  <1>2. /\ inBuffer.size = BufferSize
        /\ inBuffer.read \in Nat /\ inBuffer.write \in Nat /\ inBuffer.read <= inBuffer.write
    BY SizeAssumption, <1>1, BufferMembers
  <1>3. WriteAble(inBuffer) = BufferSize - inBuffer.write /\ WriteAble(inBuffer) \in Nat \ {0}
    BY SizeAssumption, <1>1, <1>2 DEF WriteAble
  <1>. QED
    BY SizeAssumption, <1>1, <1>2, <1>3 DEF Room

\* The bytes of a read, as a sequence, and what is left to read.
LEMMA BytesRead ==
    ASSUME Inv, NEW n \in 1 .. Len(wire)
    PROVE  /\ Received(n) \in Seq(Byte) /\ Len(Received(n)) = n
           /\ SubSeq(wire, n + 1, Len(wire)) \in Seq([byte : Byte, offset : Nat])
           /\ Len(SubSeq(wire, n + 1, Len(wire))) = Len(wire) - n
           /\ n \in Nat /\ Len(wire) \in Nat
  <1>. DEFINE Wire == [byte : Byte, offset : Nat]
  <1>1. wire \in Seq(Wire)
    BY DEF Inv, TypeOK
  <1>2. \A w \in Wire : w.byte \in Byte
    OBVIOUS
  <1>. HIDE DEF Wire
  <1>3. Len(wire) \in Nat /\ n \in Nat
    BY <1>1
  <1>4. \A k \in 1 .. Len(wire) : wire[k] \in Wire
    BY <1>1, ElementOfSeq
  <1>5. Received(n) \in [1 .. n -> Byte]
    <2>1. ASSUME NEW k \in 1 .. n
          PROVE  wire[k].byte \in Byte
      <3>1. k \in 1 .. Len(wire)
        BY <1>3
      <3>. QED
        BY <1>2, <1>4, <3>1
    <2>. QED
      BY <2>1 DEF Received
  <1>6. Received(n) \in Seq(Byte)
    BY <1>3, <1>5, SeqDef
  <1>7. Len(Received(n)) = n
    BY <1>3, <1>5, <1>6, LenProperties
  <1>8. /\ SubSeq(wire, n + 1, Len(wire)) \in Seq(Wire)
        /\ Len(SubSeq(wire, n + 1, Len(wire))) = Len(wire) - n
    <2>1. n \in 0 .. Len(wire)
      BY <1>3
    <2>. QED
      BY <1>1, <2>1, DropFirst
  <1>. QED
    BY <1>3, <1>6, <1>7, <1>8 DEF Wire

\* The buffer after one successful read().
LEMMA ReadStep ==
    ASSUME Inv, Read
    PROVE  /\ inBuffer' \in Buffers(BufferSize) /\ inBuffer'.write < BufferSize
           /\ wire' \in Seq([byte : Byte, offset : Nat])
           /\ pc' = "decode" => BytesKept
           /\ pc' \in {"read", "decode"}
  <1>1. PICK n \in 1 .. Len(wire) :
          /\ n <= WriteAble(Room)
          /\ inBuffer' = MoveWriteIndex(Store(Room, Received(n)), n)
          /\ wire' = SubSeq(wire, n + 1, Len(wire))
          /\ pc' = IF n = WriteAble(Room) THEN "read" ELSE "decode"
    BY DEF Read
  <1>. DEFINE bytes == Received(n)
  <1>2. /\ bytes \in Seq(Byte) /\ Len(bytes) = n
        /\ wire' \in Seq([byte : Byte, offset : Nat]) /\ Len(wire') = Len(wire) - n
        /\ n \in Nat /\ Len(wire) \in Nat
    BY <1>1, BytesRead
  <1>3. BytesKept <=> Content(inBuffer') = Content(inBuffer) \o bytes
    <2>1. Len(wire) - Len(wire') = n
      BY <1>2
    <2>. QED
      BY <2>1 DEF BytesKept
  <1>. HIDE DEF bytes
  <1>4. inBuffer' = MoveWriteIndex(Store(inBuffer, bytes), Len(bytes))
    BY <1>1, <1>2, RoomOffered DEF bytes
  <1>5. CASE n = WriteAble(Room)
    <2>1. inBuffer.write + Len(bytes) = BufferSize
      BY <1>2, <1>5, RoomOffered
    <2>2. inBuffer' \in Buffers(BufferSize) /\ inBuffer'.write = inBuffer.write
      BY SizeAssumption, <1>2, <1>4, <2>1, RoomOffered, ExactFillIsRefused
    <2>. QED
      BY <1>1, <1>2, <1>5, <2>2, RoomOffered
  <1>6. CASE n # WriteAble(Room)
    <2>1. inBuffer.write + Len(bytes) < BufferSize
      BY <1>1, <1>2, <1>6, RoomOffered
    <2>2. LET c == MoveWriteIndex(Store(inBuffer, bytes), Len(bytes))
          IN  /\ c \in Buffers(BufferSize) /\ c.write < BufferSize
              /\ Content(c) = Content(inBuffer) \o bytes
      BY SizeAssumption, <1>2, <2>1, RoomOffered, ReadIntoRoom
    <2>3. /\ inBuffer' \in Buffers(BufferSize) /\ inBuffer'.write < BufferSize
          /\ Content(inBuffer') = Content(inBuffer) \o bytes
      BY <1>4, <2>2
    <2>. QED
      BY <1>1, <1>2, <1>3, <1>6, <2>3
  <1>. QED
    BY <1>5, <1>6

\* The buffer and the result after one package.
LEMMA DecodeStep ==
    ASSUME Inv, DecodePackage
    PROVE  /\ inBuffer' \in Buffers(BufferSize) /\ inBuffer'.write < BufferSize
           /\ result' \in Seq(Seq(Byte))
  <1>0. PICK out \in Outside : \E i \in Packages(inBuffer, out) :
          LET j == EndIndex(inBuffer, i, out)
          IN  /\ inBuffer' = Consume(inBuffer, i, j)
              /\ result' = IF i + 1 + LengthBytes >= j THEN result
                           ELSE Append(result, Message(inBuffer, i, j))
    BY DEF DecodePackage
  <1>1. PICK i \in Packages(inBuffer, out) :
          LET j == EndIndex(inBuffer, i, out)
          IN  /\ inBuffer' = Consume(inBuffer, i, j)
              /\ result' = IF i + 1 + LengthBytes >= j THEN result
                           ELSE Append(result, Message(inBuffer, i, j))
    BY <1>0
  <1>. DEFINE j == EndIndex(inBuffer, i, out)
              first == i + 1 + LengthBytes
  <1>3. /\ i \in Int /\ inBuffer.read <= i /\ i < inBuffer.write
        /\ j \in Int /\ j < inBuffer.write
    <2>1. i \in inBuffer.read .. inBuffer.write - 1 /\ EndIndex(inBuffer, i, out) < inBuffer.write
      BY DEF Packages, IsPackage
    <2>2. i \in Int /\ inBuffer.read <= i /\ i < inBuffer.write
      BY <2>1, RoomOffered
    <2>3. GetInt(inBuffer, i + 1, out) \in Int
      BY <2>2, LengthRead, RoomOffered
    <2>. QED
      BY <2>1, <2>2, <2>3 DEF EndIndex
  <1>. HIDE DEF j
  <1>4. inBuffer' \in Buffers(BufferSize) /\ inBuffer'.write < BufferSize
    <2>1. inBuffer' = MoveReadIndex(inBuffer, j - i + 1)
      BY <1>1 DEF j, Consume
    <2>2. j - i + 1 \in Int /\ inBuffer.read + (j - i + 1) <= inBuffer.write
      BY <1>3, RoomOffered
    <2>3. inBuffer' \in Buffers(BufferSize) /\ inBuffer'.write <= inBuffer.write
      BY SizeAssumption, <2>1, <2>2, RoomOffered, MoveReadKeeps
    <2>4. inBuffer'.write \in Nat
      BY SizeAssumption, <2>3, BufferMembers
    <2>. QED
      BY <2>3, <2>4, RoomOffered
  <1>5. result' \in Seq(Seq(Byte))
    <2>1. result \in Seq(Seq(Byte))
      BY DEF Inv, TypeOK
    <2>2. CASE first >= j
      BY <1>1, <2>1, <2>2 DEF j
    <2>3. CASE ~(first >= j)
      <3>1. i \in Nat /\ first = i + 3 /\ j - first \in Nat
        BY <1>3, <2>3, RoomOffered DEF LengthBytes
      <3>2. ASSUME NEW k \in 1 .. j - first
            PROVE  inBuffer.data[i + LengthBytes + k] \in Byte
        <4>1. i + LengthBytes + k \in 0 .. BufferSize - 1
          BY <1>3, <3>1, RoomOffered DEF LengthBytes
        <4>2. inBuffer.data \in [0 .. BufferSize - 1 -> Byte]
          BY SizeAssumption, BufferMembers, RoomOffered
        <4>. QED
          BY <4>1, <4>2
      <3>3. Message(inBuffer, i, j) \in [1 .. j - first -> Byte]
        BY <3>2 DEF Message
      <3>4. Message(inBuffer, i, j) \in Seq(Byte)
        BY <3>1, <3>3, SeqDef
      <3>5. result' = Append(result, Message(inBuffer, i, j))
        BY <1>1, <2>3 DEF j
      <3>. QED
        BY <2>1, <3>4, <3>5
    <2>. QED
      BY <2>2, <2>3
  <1>. QED
    BY <1>4, <1>5

\* What the peer puts on the wire.
LEMMA OnWireType ==
    ASSUME NEW m \in Messages
    PROVE  OnWire(m) \in Seq([byte : Byte, offset : Nat])
  <1>. DEFINE n == PackageLength(m)
              Wire == [byte : Byte, offset : Nat]
  <1>1. n \in Nat
    BY MessagesAssumption DEF PackageLength, LengthBytes
  <1>2. ASSUME NEW k \in 1 .. n
        PROVE  [byte |-> Package(m)[k], offset |-> k - 1] \in Wire
    <2>1. Package(m)[k] \in Byte /\ k - 1 \in Nat
      BY <1>1, PackageBytes
    <2>. QED
      BY <2>1
  <1>. HIDE DEF Wire
  <1>3. OnWire(m) \in [1 .. n -> Wire]
    BY <1>2 DEF OnWire
  <1>. HIDE DEF n
  <1>4. OnWire(m) \in Seq(Wire)
    BY <1>1, <1>3, SeqDef
  <1>. QED
    BY <1>4 DEF Wire

LEMMA InitInv == Init => Inv
  <1>. SUFFICES ASSUME Init
                PROVE  Inv
    OBVIOUS
  <1>1. NewBuffer(BufferSize) \in Buffers(BufferSize)
    BY SizeAssumption, NewBufferIsBuffer
  <1>2. NewBuffer(BufferSize).write < NewBuffer(BufferSize).size
    BY SizeAssumption DEF NewBuffer
  <1>3. NeverFull
    BY <1>2 DEF Init, NeverFull
  <1>4. /\ <<>> \in Seq(Messages) /\ <<>> \in Seq([byte : Byte, offset : Nat])
        /\ <<>> \in Seq(Seq(Byte))
    BY EmptySeq
  <1>5. TypeOK
    <2>1. /\ sent = <<>> /\ wire = <<>> /\ eof = FALSE /\ state = "Connected" /\ pc = "idle"
          /\ inBuffer \in Buffers(BufferSize) /\ result = <<>> /\ delivered = <<>>
      BY <1>1 DEF Init
    <2>. QED
      BY <1>4, <2>1 DEF TypeOK
  <1>. QED
    BY <1>3, <1>5 DEF Inv

LEMMA NextInv == Inv /\ [Next]_vars => Inv'
  <1>. SUFFICES ASSUME Inv, [Next]_vars
                PROVE  Inv'
    OBVIOUS
  <1>1. ASSUME NEW m \in Messages, PeerSend(m)
        PROVE  Inv'
    <2>1. UNCHANGED <<eof, state, pc, inBuffer, result, delivered>>
      BY <1>1 DEF PeerSend
    <2>2. sent' \in Seq(Messages) /\ wire' \in Seq([byte : Byte, offset : Nat])
      <3>. DEFINE Wire == [byte : Byte, offset : Nat]
                  new == OnWire(m)
      <3>1. wire' = wire \o new /\ sent' = Append(sent, m)
        BY <1>1 DEF PeerSend
      <3>2. /\ wire \in Seq(Wire) /\ sent \in Seq(Messages)
            /\ new \in Seq(Wire)
        <4>1. OnWire(m) \in Seq([byte : Byte, offset : Nat])
          BY OnWireType
        <4>. QED
          BY <4>1 DEF Inv, TypeOK
      <3>. HIDE DEF Wire, new
      <3>3. wire \o new \in Seq(Wire) /\ Append(sent, m) \in Seq(Messages)
        BY <3>2, ConcatProperties, AppendProperties
      <3>. QED
        BY <3>1, <3>3 DEF Wire
    <2>. QED
      BY <2>1, <2>2 DEF Inv, TypeOK, NeverFull
  <1>2. CASE PeerClose
    BY <1>2 DEF PeerClose, Inv, TypeOK, NeverFull
  <1>3. CASE OnRead
    BY <1>3 DEF OnRead, Inv, TypeOK, NeverFull
  <1>4. CASE Read
    <2>1. UNCHANGED <<sent, eof, state, result, delivered>>
      BY <1>4 DEF Read
    <2>2. /\ inBuffer' \in Buffers(BufferSize) /\ inBuffer'.write < BufferSize
          /\ wire' \in Seq([byte : Byte, offset : Nat]) /\ pc' \in {"read", "decode"}
      BY <1>4, ReadStep
    <2>3. inBuffer'.size = BufferSize
      BY SizeAssumption, <2>2, BufferMembers
    <2>. QED
      BY <2>1, <2>2, <2>3 DEF Inv, TypeOK, NeverFull
  <1>5. CASE ReadAgain
    BY <1>5, RoomOffered DEF ReadAgain, Inv, TypeOK, NeverFull
  <1>6. CASE ReadEof
    BY <1>6, RoomOffered DEF ReadEof, Inv, TypeOK, NeverFull
  <1>7. CASE DecodePackage
    <2>1. UNCHANGED <<sent, wire, eof, state, pc, delivered>>
      BY <1>7 DEF DecodePackage
    <2>2. /\ inBuffer' \in Buffers(BufferSize) /\ inBuffer'.write < BufferSize
          /\ result' \in Seq(Seq(Byte))
      BY <1>7, DecodeStep
    <2>3. inBuffer'.size = BufferSize
      BY SizeAssumption, <2>2, BufferMembers
    <2>. QED
      BY <2>1, <2>2, <2>3 DEF Inv, TypeOK, NeverFull
  <1>8. CASE DecodeEnd
    BY <1>8 DEF DecodeEnd, Inv, TypeOK, NeverFull
  <1>9. CASE Excute
    <2>1. result \in Seq(Seq(Byte)) /\ delivered \in Seq(Seq(Byte))
      BY DEF Inv, TypeOK
    <2>2. Head(result) \in Seq(Byte) /\ Tail(result) \in Seq(Seq(Byte))
      BY <1>9, <2>1, HeadTailProperties DEF Excute
    <2>. QED
      BY <1>9, <2>1, <2>2 DEF Excute, Inv, TypeOK, NeverFull
  <1>10. CASE Return
    BY <1>10 DEF Return, Inv, TypeOK, NeverFull
  <1>11. CASE UNCHANGED vars
    BY <1>11 DEF vars, Inv, TypeOK, NeverFull
  <1>. QED
    BY <1>1, <1>2, <1>3, <1>4, <1>5, <1>6, <1>7, <1>8, <1>9, <1>10, <1>11
    DEF Next, Server

\* The indices of m_in_buffer stay ordered and inside a vector that keeps its
\* size, whatever arrives and wherever decode finds packages.
THEOREM TypeCorrect == Spec => []TypeOK
  <1>1. Inv => TypeOK
    BY DEF Inv
  <1>. QED
    BY <1>1, InitInv, NextInv, PTL DEF Spec

\* onRead always offers read() at least one byte of room, so its enlarging of
\* the buffer is unreachable: a package of BufferSize bytes or more never fits.
THEOREM InputNeverFull == Spec => []NeverFull
  <1>1. Inv => NeverFull
    BY DEF Inv
  <1>. QED
    BY <1>1, InitInv, NextInv, PTL DEF Spec

\* A read that did not fill the room it was offered loses nothing.
THEOREM ShortReadsKept == Spec => ShortReadsAreKept
  <1>1. ASSUME Inv, [Next]_vars
        PROVE  [pc = "read" /\ pc' = "decode" /\ wire' # wire => BytesKept]_vars
    <2>. SUFFICES ASSUME Next, pc = "read", pc' = "decode", wire' # wire
                  PROVE  BytesKept
      BY <1>1
    <2>1. Read
      BY DEF Next, Server, PeerClose, PeerSend, OnRead, ReadAgain, ReadEof,
             DecodePackage, DecodeEnd, Excute, Return
    <2>. QED
      BY <1>1, <2>1, ReadStep
  <1>. QED
    BY <1>1, InitInv, NextInv, PTL DEF Spec, ShortReadsAreKept

(***************************************************************************)
(* The receiving half as a channel.                                        *)
(*                                                                         *)
(* Messages are handed over unaltered and in order under three conditions, *)
(* each of which keeps out something the code does to messages;            *)
(* MCTcpInputFull.cfg and MCTcpInputSplit.cfg show what happens without    *)
(* the first and the last:                                                 *)
(*   Fits: what a peer may have under way fits behind the third of the     *)
(*   vector that adjustBuffer lets the read index cover;                   *)
(*   Unambiguous: a start mark inside a package is followed by a byte that *)
(*   no length within the buffer begins with, so that decode, scanning a   *)
(*   package that has not arrived completely, finds no other one in it;    *)
(*   no read ends inside a length field.                                   *)
(*                                                                         *)
(* The argument keeps the whole stream of bytes the peer has sent and the  *)
(* place where each of its packages ends.  What decode has not taken is    *)
(* the content of the buffer followed by the wire, and decode stands at    *)
(* the end of a package.                                                   *)
(***************************************************************************)
Fits(L) ==
    /\ \A m \in Messages : PackageLength(m) <= L
    /\ BufferSize >= 3
    /\ BufferSize \div 3 + Window * L <= BufferSize

Unambiguous ==
    \A m \in Messages : \A p \in 2 .. PackageLength(m) - 1 :
        Package(m)[p] = PB_START =>
            256 * Package(m)[p + 1] >= BufferSize /\ Package(m)[p + 1] < 128

WireByte == [byte : Byte, offset : Nat]

\* S is the stream of the messages of msgs, and E[k] the place in it where the
\* k-th of them ends.
Stream(S, E, msgs, L) ==
    /\ S \in Seq(WireByte)
    /\ E \in [0 .. Len(msgs) -> Nat]
    /\ Len(S) = E[Len(msgs)]
    /\ \A k \in 1 .. Len(msgs) : E[k] = E[k - 1] + PackageLength(msgs[k])
    /\ \A k \in 1 .. Len(msgs) : \A p \in 1 .. PackageLength(msgs[k]) :
          S[E[k - 1] + p] = OnWire(msgs[k])[p]
    /\ \A j, k \in 0 .. Len(msgs) : j <= k => E[j] <= E[k] /\ E[k] - E[j] <= (k - j) * L

\* What follows the first n bytes of S is in buffer b and then on wire w.
Follows(S, n, b, w) ==
    /\ Len(S) = n + ReadAble(b) + Len(w)
    /\ \A q \in 1 .. ReadAble(b) : Content(b)[q] = S[n + q].byte
    /\ \A q \in 1 .. Len(w) : w[q] = S[n + ReadAble(b) + q]

\* Messages decoded so far.
Taken == Len(delivered) + Len(result)

UnderWay(L) ==
    \E S \in Seq(WireByte) : \E E \in [0 .. Len(sent) -> Nat] :
        Stream(S, E, sent, L) /\ Follows(S, E[Taken], inBuffer, wire)

\* Decoded messages are the first ones sent.
InOrder ==
    /\ Taken <= Len(sent)
    /\ \A k \in 1 .. Len(delivered) : delivered[k] = sent[k]
    /\ \A k \in 1 .. Len(result) : result[k] = sent[Len(delivered) + k]

Slack ==
    /\ Len(sent) - Len(delivered) <= Window
    /\ inBuffer.read < BufferSize \div 3
    /\ wire # <<>> => wire[1].offset # 2

ChannelInv(L) == Inv /\ InOrder /\ Slack /\ UnderWay(L)

\* The bytes of a package, one by one.
LEMMA PackageShape ==
    ASSUME NEW m \in Messages
    PROVE  /\ m \in Seq(Byte) /\ Len(m) \in Nat \ {0}
           /\ PackageLength(m) = Len(m) + 4 /\ PackageLength(m) < 32768
           /\ Package(m)[1] = PB_START
           /\ Package(m)[2] = PackageLength(m) \div 256
           /\ Package(m)[3] = PackageLength(m) % 256
           /\ \A k \in 1 .. Len(m) : Package(m)[k + 3] = m[k]
           /\ Package(m)[PackageLength(m)] = PB_END
  <1>. DEFINE n == PackageLength(m)
              head == <<PB_START, n \div 256, n % 256>>
              tail == <<PB_END>>
              front == head \o m
  <1>1. m \in Seq(Byte) /\ Len(m) \in Nat /\ n = Len(m) + 4 /\ n \in Nat /\ n < 32768
    BY MessagesAssumption, LengthAssumption DEF PackageLength, LengthBytes
  <1>2. Len(m) # 0
    <2>1. m \in Seq(Byte) /\ m # <<>>
      BY MessagesAssumption
    <2>. QED
      BY <2>1, EmptySeq
  <1>3. tail \in Seq(Byte) /\ Len(tail) = 1 /\ tail[1] = PB_END
    BY DEF Byte, PB_END
  <1>4. Package(m) = front \o tail
    BY DEF Package
  <1>5. head[1] = PB_START /\ head[2] = n \div 256 /\ head[3] = n % 256
    OBVIOUS
  <1>. HIDE DEF n
  <1>6. head \in Seq(Byte) /\ Len(head) = 3
    BY <1>1, HeadBytes
  <1>. HIDE DEF head, tail
  <1>7. /\ head \o m \in Seq(Byte) /\ Len(head \o m) = Len(head) + Len(m)
        /\ \A k \in 1 .. Len(head) + Len(m) :
             (head \o m)[k] = IF k <= Len(head) THEN head[k] ELSE m[k - Len(head)]
    <2>1. head \in Seq(Byte) /\ m \in Seq(Byte)
      BY <1>1, <1>6
    <2>. QED
      BY <2>1, ConcatProperties
  <1>8. /\ front \in Seq(Byte) /\ Len(front) = 3 + Len(m)
        /\ \A k \in 1 .. 3 + Len(m) : front[k] = IF k <= 3 THEN head[k] ELSE m[k - 3]
    BY <1>6, <1>7
  <1>. HIDE DEF front
  <1>9. \A k \in 1 .. Len(front) + Len(tail) :
          (front \o tail)[k] = IF k <= Len(front) THEN front[k] ELSE tail[k - Len(front)]
    BY <1>3, <1>8, ConcatProperties
  <1>10. \A k \in 1 .. 3 + Len(m) : Package(m)[k] = front[k]
    <2>. SUFFICES ASSUME NEW k \in 1 .. 3 + Len(m)
                  PROVE  Package(m)[k] = front[k]
      OBVIOUS
    <2>1. k \in 1 .. Len(front) + Len(tail) /\ k <= Len(front)
      BY <1>1, <1>3, <1>8
    <2>. QED
      BY <1>4, <1>9, <2>1
  <1>11. Package(m)[1] = PB_START /\ Package(m)[2] = n \div 256 /\ Package(m)[3] = n % 256
    <2>1. ASSUME NEW k \in {1, 2, 3}
          PROVE  Package(m)[k] = head[k]
      <3>1. k \in 1 .. 3 + Len(m) /\ k <= 3
        BY <1>1
      <3>. QED
        BY <1>8, <1>10, <3>1
    <2>. QED
      BY <1>5, <2>1
  <1>12. ASSUME NEW k \in 1 .. Len(m)
         PROVE  Package(m)[k + 3] = m[k]
    <2>1. k + 3 \in 1 .. 3 + Len(m) /\ ~(k + 3 <= 3) /\ (k + 3) - 3 = k
      BY <1>1
    <2>. QED
      BY <1>8, <1>10, <2>1
  <1>13. Package(m)[n] = PB_END
    <2>1. n \in 1 .. Len(front) + Len(tail) /\ ~(n <= Len(front)) /\ n - Len(front) = 1
      BY <1>1, <1>3, <1>8
    <2>. QED
      BY <1>3, <1>4, <1>9, <2>1
  <1>. QED
    BY <1>1, <1>2, <1>11, <1>12, <1>13 DEF n

LEMMA OnWireBytes ==
    ASSUME NEW m \in Messages
    PROVE  /\ OnWire(m) \in Seq(WireByte) /\ Len(OnWire(m)) = PackageLength(m)
           /\ PackageLength(m) \in Nat /\ PackageLength(m) >= 5
           /\ \A p \in 1 .. PackageLength(m) :
                OnWire(m)[p].byte = Package(m)[p] /\ OnWire(m)[p].offset = p - 1
  <1>1. PackageLength(m) \in Nat /\ PackageLength(m) >= 5
    BY PackageShape
  <1>2. OnWire(m) \in Seq(WireByte)
    BY OnWireType DEF WireByte
  <1>3. \A p \in 1 .. PackageLength(m) :
          OnWire(m)[p] = [byte |-> Package(m)[p], offset |-> p - 1]
    BY DEF OnWire
  <1>4. DOMAIN OnWire(m) = 1 .. PackageLength(m)
    BY DEF OnWire
  <1>5. Len(OnWire(m)) = PackageLength(m)
    BY <1>1, <1>2, <1>4, LenProperties
  <1>. QED
    BY <1>1, <1>2, <1>3, <1>5

LEMMA TimesMonotone ==
    ASSUME NEW x \in Nat, NEW y \in Nat, NEW L \in Nat, x <= y
    PROVE  x * L \in Nat /\ y * L \in Nat /\ x * L <= y * L /\ (x + 1) * L = x * L + L
  <1>1. PICK z \in Nat : y = x + z
    OBVIOUS
  <1>2. y * L = x * L + z * L
    BY <1>1
  <1>3. x * L \in Nat /\ z * L \in Nat
    OBVIOUS
  <1>. QED
    BY <1>2, <1>3

LEMMA AppendedMessage ==
    ASSUME NEW msgs \in Seq(Messages), NEW m \in Messages
    PROVE  /\ Append(msgs, m) \in Seq(Messages)
           /\ Len(msgs) \in Nat /\ Len(Append(msgs, m)) = Len(msgs) + 1
           /\ \A k \in 1 .. Len(msgs) : msgs[k] \in Messages /\ Append(msgs, m)[k] = msgs[k]
           /\ Append(msgs, m)[Len(msgs) + 1] = m
  BY AppendProperties, ElementOfSeq

\* A message that is sent extends the stream by its package.
LEMMA StreamGrows ==
    ASSUME NEW L \in Nat, NEW msgs \in Seq(Messages), NEW m \in Messages,
           PackageLength(m) <= L, NEW S, NEW E, Stream(S, E, msgs, L)
    PROVE  LET F == [k \in 0 .. Len(msgs) + 1 |->
                       IF k <= Len(msgs) THEN E[k] ELSE Len(S) + PackageLength(m)]
           IN  Stream(S \o OnWire(m), F, Append(msgs, m), L)
  <1>. DEFINE n == Len(msgs)
              more == Append(msgs, m)
              new == OnWire(m)
              p0 == PackageLength(m)
              F == [k \in 0 .. n + 1 |-> IF k <= n THEN E[k] ELSE Len(S) + p0]
  <1>1. /\ n \in Nat /\ Len(more) = n + 1 /\ more[n + 1] = m
        /\ \A k \in 1 .. n : msgs[k] \in Messages /\ more[k] = msgs[k]
    BY AppendedMessage
  <1>2. /\ new \in Seq(WireByte) /\ Len(new) = p0 /\ p0 \in Nat /\ p0 >= 5 /\ p0 <= L
    BY OnWireBytes
  <1>3. /\ S \in Seq(WireByte) /\ Len(S) \in Nat /\ Len(S) = E[n]
        /\ \A k \in 0 .. n : E[k] \in Nat
        /\ \A k \in 1 .. n : E[k] = E[k - 1] + PackageLength(msgs[k])
        /\ \A k \in 1 .. n : \A p \in 1 .. PackageLength(msgs[k]) :
              S[E[k - 1] + p] = OnWire(msgs[k])[p]
        /\ \A j, k \in 0 .. n : j <= k => E[j] <= E[k] /\ E[k] - E[j] <= (k - j) * L
    <2>1. S \in Seq(WireByte) /\ E \in [0 .. n -> Nat] /\ Len(S) = E[n]
      BY DEF Stream
    <2>2. Len(S) \in Nat
      BY <2>1
    <2>3. \A k \in 0 .. n : E[k] \in Nat
      BY <2>1
    <2>. QED
      BY <2>1, <2>2, <2>3 DEF Stream
  <1>. HIDE DEF n, more, new, p0
  <1>4. /\ S \o new \in Seq(WireByte) /\ Len(S \o new) = Len(S) + Len(new)
        /\ \A i \in 1 .. Len(S) + Len(new) :
              (S \o new)[i] = IF i <= Len(S) THEN S[i] ELSE new[i - Len(S)]
    <2>1. S \in Seq(WireByte) /\ new \in Seq(WireByte)
      BY <1>2, <1>3
    <2>. QED
      BY <2>1, ConcatProperties
  <1>5. /\ F \in [0 .. n + 1 -> Nat]
        /\ \A k \in 0 .. n : F[k] = E[k]
        /\ F[n + 1] = E[n] + p0
    BY <1>1, <1>2, <1>3
  <1>. HIDE DEF F
  <1>6. ASSUME NEW k \in 1 .. n + 1
        PROVE  /\ F[k] = F[k - 1] + PackageLength(more[k])
               /\ \A p \in 1 .. PackageLength(more[k]) :
                     (S \o new)[F[k - 1] + p] = OnWire(more[k])[p]
    <2>1. CASE k = n + 1
      <3>1. more[k] = m /\ k - 1 = n /\ n \in 0 .. n
        BY <1>1, <2>1
      <3>2. F[k - 1] = E[n] /\ F[k] = E[n] + p0
        BY <1>5, <2>1, <3>1
      <3>3. ASSUME NEW p \in 1 .. p0
            PROVE  (S \o new)[F[k - 1] + p] = new[p]
        <4>. DEFINE i == F[k - 1] + p
                    e == E[n]
        <4>0. e \in Nat /\ Len(S) = e /\ i = e + p /\ Len(new) = p0 /\ p0 \in Nat
          BY <1>2, <1>3, <3>1, <3>2
        <4>. HIDE DEF i, e
        <4>1. i \in 1 .. Len(S) + Len(new) /\ ~(i <= Len(S)) /\ i - Len(S) = p
          BY <4>0
        <4>2. (S \o new)[i] = new[p]
          BY <1>4, <4>1
        <4>. QED
          BY <4>2 DEF i
      <3>. QED
        BY <3>1, <3>2, <3>3 DEF p0, new
    <2>2. CASE k # n + 1
      <3>1. k \in 1 .. n /\ k - 1 \in 0 .. n /\ k \in 0 .. n /\ n \in 0 .. n /\ k <= n
        BY <1>1, <2>2
      <3>2. more[k] = msgs[k] /\ F[k] = E[k] /\ F[k - 1] = E[k - 1]
            /\ E[k] = E[k - 1] + PackageLength(msgs[k])
            /\ E[k - 1] \in Nat /\ E[k] \in Nat /\ E[k] <= E[n] /\ E[n] = Len(S)
            /\ PackageLength(msgs[k]) \in Nat
        <4>1. PackageLength(msgs[k]) \in Nat
          BY <1>1, <3>1, OnWireBytes
        <4>. QED
          BY <1>1, <1>3, <1>5, <3>1, <4>1
      <3>3. ASSUME NEW p \in 1 .. PackageLength(msgs[k])
            PROVE  (S \o new)[F[k - 1] + p] = OnWire(msgs[k])[p]
        <4>. DEFINE i == F[k - 1] + p
                    e == E[k - 1]
                    f == E[k]
        <4>0. /\ e \in Nat /\ f \in Nat /\ f = e + PackageLength(msgs[k]) /\ f <= Len(S)
              /\ Len(S) \in Nat /\ Len(new) \in Nat /\ i = e + p
          BY <1>2, <1>3, <3>2
        <4>. HIDE DEF i, e, f
        <4>1. i \in 1 .. Len(S) + Len(new) /\ i <= Len(S)
          BY <3>2, <4>0
        <4>2. (S \o new)[i] = S[e + p]
          BY <1>4, <4>0, <4>1
        <4>3. S[e + p] = OnWire(msgs[k])[p]
          BY <1>3, <3>1 DEF e
        <4>. QED
          BY <4>2, <4>3 DEF i
      <3>. QED
        BY <3>2, <3>3
    <2>. QED
      BY <2>1, <2>2
  <1>7. ASSUME NEW j \in 0 .. n + 1, NEW k \in 0 .. n + 1, j <= k
        PROVE  F[j] <= F[k] /\ F[k] - F[j] <= (k - j) * L
    <2>1. CASE k <= n
      <3>1. j \in 0 .. n /\ k \in 0 .. n
        BY <1>1, <1>7, <2>1
      <3>. QED
        BY <1>3, <1>5, <1>7, <3>1
    <2>2. CASE j = n + 1
      <3>1. j = k /\ k - j = 0 /\ F[k] \in Nat
        BY <1>1, <1>5, <1>7, <2>2
      <3>2. (k - j) * L = 0
        BY <3>1
      <3>. QED
        BY <3>1, <3>2
    <2>3. CASE k = n + 1 /\ j <= n
      <3>1. j \in 0 .. n /\ n \in 0 .. n /\ n - j \in Nat /\ k - j = (n - j) + 1
        BY <1>1, <2>3
      <3>2. /\ F[j] = E[j] /\ E[j] <= E[n] /\ E[n] - E[j] <= (n - j) * L
            /\ E[j] \in Nat /\ E[n] \in Nat /\ F[k] = E[n] + p0
        BY <1>3, <1>5, <2>3, <3>1
      <3>3. (k - j) * L = (n - j) * L + L /\ (n - j) * L \in Nat
        <4>1. ((n - j) + 1) * L = (n - j) * L + L /\ (n - j) * L \in Nat
          BY <3>1, TimesMonotone
        <4>. QED
          BY <3>1, <4>1
      <3>. QED
        BY <1>2, <3>2, <3>3
    <2>. QED
      BY <1>1, <1>7, <2>1, <2>2, <2>3
  <1>8. Len(S \o new) = F[n + 1]
    BY <1>2, <1>3, <1>4, <1>5
  <1>9. Stream(S \o new, F, more, L)
    BY <1>1, <1>4, <1>5, <1>6, <1>7, <1>8 DEF Stream
  <1>. QED
    BY <1>9 DEF n, more, new, p0, F

\* Bytes put on the wire follow in the stream as well.
LEMMA FollowsGrows ==
    ASSUME NEW S \in Seq(WireByte), NEW n \in Nat, NEW b \in Buffers(BufferSize),
           NEW w \in Seq(WireByte), NEW x \in Seq(WireByte), Follows(S, n, b, w)
    PROVE  Follows(S \o x, n, b, w \o x)
  <1>1. /\ Len(S) \in Nat /\ Len(w) \in Nat /\ Len(x) \in Nat /\ ReadAble(b) \in Nat
        /\ Len(S) = n + ReadAble(b) + Len(w)
    BY SizeAssumption, BufferMembers DEF Follows
  <1>2. /\ Len(S \o x) = Len(S) + Len(x)
        /\ \A i \in 1 .. Len(S) + Len(x) :
              (S \o x)[i] = IF i <= Len(S) THEN S[i] ELSE x[i - Len(S)]
    BY ConcatProperties
  <1>3. /\ Len(w \o x) = Len(w) + Len(x)
        /\ \A i \in 1 .. Len(w) + Len(x) :
              (w \o x)[i] = IF i <= Len(w) THEN w[i] ELSE x[i - Len(w)]
    BY ConcatProperties
  <1>4. ASSUME NEW q \in 1 .. ReadAble(b)
        PROVE  Content(b)[q] = (S \o x)[n + q].byte
    <2>1. n + q \in 1 .. Len(S) + Len(x) /\ n + q <= Len(S)
      BY <1>1
    <2>. QED
      BY <1>2, <2>1 DEF Follows
  <1>5. ASSUME NEW q \in 1 .. Len(w) + Len(x)
        PROVE  (w \o x)[q] = (S \o x)[n + ReadAble(b) + q]
    <2>. DEFINE i == n + ReadAble(b) + q
    <2>1. i \in 1 .. Len(S) + Len(x)
      BY <1>1
    <2>2. CASE q <= Len(w)
      <3>1. q \in 1 .. Len(w) /\ i <= Len(S)
        BY <1>1, <2>2
      <3>. QED
        BY <1>2, <1>3, <2>1, <2>2, <3>1 DEF Follows
    <2>3. CASE ~(q <= Len(w))
      <3>1. ~(i <= Len(S)) /\ i - Len(S) = q - Len(w)
        BY <1>1, <2>3
      <3>. QED
        BY <1>2, <1>3, <2>1, <2>3, <3>1
    <2>. QED
      BY <2>2, <2>3
  <1>6. Len(S \o x) = n + ReadAble(b) + Len(w \o x)
    BY <1>1, <1>2, <1>3
  <1>. QED
    BY <1>3, <1>4, <1>5, <1>6 DEF Follows

\* Bytes that are read move from the wire to the buffer.
LEMMA FollowsRead ==
    ASSUME NEW S \in Seq(WireByte), NEW n \in Nat, NEW b \in Buffers(BufferSize),
           NEW w \in Seq(WireByte), NEW r \in 1 .. Len(w), NEW x \in Seq(Byte),
           Len(x) = r, \A k \in 1 .. r : x[k] = w[k].byte,
           NEW c \in Buffers(BufferSize), Content(c) = Content(b) \o x,
           Follows(S, n, b, w)
    PROVE  Follows(S, n, c, SubSeq(w, r + 1, Len(w)))
  <1>. DEFINE left == SubSeq(w, r + 1, Len(w))
  <1>1. /\ Len(S) \in Nat /\ Len(w) \in Nat /\ r \in Nat /\ ReadAble(b) \in Nat
        /\ Len(S) = n + ReadAble(b) + Len(w)
    BY SizeAssumption, BufferMembers DEF Follows
  <1>2. /\ Content(b) \in Seq(Byte) /\ Len(Content(b)) = ReadAble(b)
        /\ Len(Content(c)) = ReadAble(c)
    BY SizeAssumption, ContentIsSeq
  <1>3. /\ Len(Content(b) \o x) = Len(Content(b)) + Len(x)
        /\ \A i \in 1 .. Len(Content(b)) + Len(x) : (Content(b) \o x)[i] =
              IF i <= Len(Content(b)) THEN Content(b)[i] ELSE x[i - Len(Content(b))]
    BY <1>2, ConcatProperties
  <1>4. ReadAble(c) = ReadAble(b) + r
    BY <1>2, <1>3
  <1>5. ASSUME NEW q \in 1 .. ReadAble(c)
        PROVE  Content(c)[q] = S[n + q].byte
    <2>1. q \in 1 .. Len(Content(b)) + Len(x)
      BY <1>2, <1>4
    <2>2. CASE q <= ReadAble(b)
      <3>1. q \in 1 .. ReadAble(b)
        BY <1>1, <1>4, <2>2
      <3>. QED
        BY <1>2, <1>3, <2>1, <2>2, <3>1 DEF Follows
    <2>3. CASE ~(q <= ReadAble(b))
      <3>. DEFINE h == q - ReadAble(b)
      <3>1. h \in 1 .. r /\ h \in 1 .. Len(w) /\ n + q = n + ReadAble(b) + h
        BY <1>1, <1>4, <2>3
      <3>2. Content(c)[q] = x[h]
        BY <1>2, <1>3, <2>1, <2>3
      <3>3. x[h] = w[h].byte /\ w[h] = S[n + ReadAble(b) + h]
        BY <3>1 DEF Follows
      <3>. QED
        BY <3>1, <3>2, <3>3
    <2>. QED
      BY <2>2, <2>3
  <1>6. /\ Len(left) = Len(w) - r
        /\ \A q \in 1 .. Len(w) - r : left[q] = w[r + q]
    BY DropFirst
  <1>. HIDE DEF left
  <1>7. ASSUME NEW q \in 1 .. Len(left)
        PROVE  left[q] = S[n + ReadAble(c) + q]
    <2>1. q \in 1 .. Len(w) - r
      BY <1>6
    <2>2. q \in Nat /\ r + q \in 1 .. Len(w)
      BY <1>1, <2>1
    <2>3. n + ReadAble(c) + q = n + ReadAble(b) + (r + q)
      BY <1>1, <1>4, <2>2
    <2>. QED
      BY <1>6, <2>1, <2>2, <2>3 DEF Follows
  <1>8. Len(S) = n + ReadAble(c) + Len(left)
    BY <1>1, <1>4, <1>6
  <1>9. Follows(S, n, c, left)
    BY <1>5, <1>7, <1>8 DEF Follows
  <1>. QED
    BY <1>9 DEF left

\* Bytes decode has taken leave the buffer.
LEMMA FollowsDrop ==
    ASSUME NEW S \in Seq(WireByte), NEW n \in Nat, NEW b \in Buffers(BufferSize),
           NEW w \in Seq(WireByte), NEW r \in 0 .. ReadAble(b),
           NEW c \in Buffers(BufferSize),
           Content(c) = SubSeq(Content(b), r + 1, ReadAble(b)),
           Follows(S, n, b, w)
    PROVE  Follows(S, n + r, c, w)
  <1>1. /\ Len(S) \in Nat /\ Len(w) \in Nat /\ r \in Nat /\ ReadAble(b) \in Nat
        /\ Len(S) = n + ReadAble(b) + Len(w)
    BY SizeAssumption, BufferMembers DEF Follows
  <1>2. /\ Content(b) \in Seq(Byte) /\ Len(Content(b)) = ReadAble(b)
        /\ Len(Content(c)) = ReadAble(c)
    BY SizeAssumption, ContentIsSeq
  <1>3. /\ Len(Content(c)) = ReadAble(b) - r
        /\ \A i \in 1 .. ReadAble(b) - r : Content(c)[i] = Content(b)[r + i]
    BY <1>2, DropFirst
  <1>4. ReadAble(c) = ReadAble(b) - r
    BY <1>1, <1>2, <1>3
  <1>5. ASSUME NEW q \in 1 .. ReadAble(c)
        PROVE  Content(c)[q] = S[(n + r) + q].byte
    <2>1. /\ q \in 1 .. ReadAble(b) - r
          /\ r + q \in 1 .. ReadAble(b) /\ (n + r) + q = n + (r + q)
      BY <1>1, <1>4
    <2>2. Content(c)[q] = Content(b)[r + q]
      BY <1>3, <2>1
    <2>. QED
      BY <2>1, <2>2 DEF Follows
  <1>6. ASSUME NEW q \in 1 .. Len(w)
        PROVE  w[q] = S[(n + r) + ReadAble(c) + q]
    <2>1. (n + r) + ReadAble(c) + q = n + ReadAble(b) + q
      BY <1>1, <1>4
    <2>. QED
      BY <2>1 DEF Follows
  <1>7. Len(S) = (n + r) + ReadAble(c) + Len(w)
    BY <1>1, <1>4
  <1>. QED
    BY <1>5, <1>6, <1>7 DEF Follows

\* The readable bytes of b begin with those of the package of m, or are the
\* beginning of them.
Starts(b, m) ==
    \A q \in 1 .. ReadAble(b) : q <= PackageLength(m) => Content(b)[q] = Package(m)[q]

LEMMA StartBytes ==
    ASSUME NEW b \in Buffers(BufferSize), NEW m \in Messages, NEW out \in Outside,
           Starts(b, m), NEW q \in 1 .. ReadAble(b), q <= PackageLength(m)
    PROVE  /\ b.data[b.read + q - 1] = Package(m)[q]
           /\ ByteAt(b, b.read + q - 1, out) = Package(m)[q]
  <1>1. /\ b.size = BufferSize /\ b.read \in Nat /\ b.write \in Nat /\ b.write <= BufferSize
        /\ ReadAble(b) = b.write - b.read
    BY SizeAssumption, BufferMembers DEF ReadAble
  <1>2. Content(b)[q] = b.data[b.read + q - 1]
    BY SizeAssumption, ContentIsSeq
  <1>3. b.read + q - 1 \in 0 .. b.size - 1
    BY SizeAssumption, <1>1
  <1>. QED
    BY <1>2, <1>3 DEF Starts, ByteAt

\* The length decode reads at the beginning is the length of the package.
LEMMA StartLength ==
    ASSUME NEW b \in Buffers(BufferSize), NEW m \in Messages, NEW out \in Outside,
           Starts(b, m), ReadAble(b) >= 3
    PROVE  EndIndex(b, b.read, out) = b.read + PackageLength(m) - 1
  <1>. DEFINE n == PackageLength(m)
  <1>1. /\ n \in Nat /\ n >= 5 /\ n < 32768
        /\ Package(m)[2] = n \div 256 /\ Package(m)[3] = n % 256
    BY PackageShape
  <1>. HIDE DEF n
  <1>2. ReadAble(b) \in Nat /\ b.read \in Nat
    BY SizeAssumption, BufferMembers
  <1>3. ByteAt(b, b.read + 1, out) = n \div 256
    <2>1. 2 \in 1 .. ReadAble(b) /\ 2 <= n /\ b.read + 2 - 1 = b.read + 1
      BY <1>1, <1>2
    <2>2. ByteAt(b, b.read + 2 - 1, out) = Package(m)[2]
      BY <2>1, StartBytes DEF n
    <2>. QED
      BY <1>1, <2>1, <2>2
  <1>4. ByteAt(b, b.read + 1 + 1, out) = n % 256
    <2>1. 3 \in 1 .. ReadAble(b) /\ 3 <= n /\ b.read + 3 - 1 = b.read + 1 + 1
      BY <1>1, <1>2
    <2>2. ByteAt(b, b.read + 3 - 1, out) = Package(m)[3]
      BY <2>1, StartBytes DEF n
    <2>. QED
      BY <1>1, <2>1, <2>2
  <1>5. 256 * (n \div 256) + (n % 256) = n
    BY <1>1
  <1>6. GetInt(b, b.read + 1, out) = n
    BY <1>1, <1>3, <1>4, <1>5 DEF GetInt
  <1>. QED
    BY <1>6 DEF EndIndex, n

\* A package that has arrived completely is found first, and its message is cut
\* out of it unaltered...
LEMMA WholePackage ==
    ASSUME NEW b \in Buffers(BufferSize), NEW m \in Messages, NEW out \in Outside,
           Starts(b, m), PackageLength(m) <= ReadAble(b)
    PROVE  /\ b.read \in Packages(b, out)
           /\ EndIndex(b, b.read, out) = b.read + PackageLength(m) - 1
           /\ Message(b, b.read, b.read + PackageLength(m) - 1) = m
  <1>. DEFINE n == PackageLength(m)
              j == b.read + n - 1
  <1>1. /\ n \in Nat /\ n >= 5 /\ n = Len(m) + 4 /\ Len(m) \in Nat /\ m \in Seq(Byte)
        /\ Package(m)[1] = PB_START /\ Package(m)[n] = PB_END
        /\ \A k \in 1 .. Len(m) : Package(m)[k + 3] = m[k]
    BY PackageShape
  <1>. HIDE DEF n
  <1>2. /\ b.read \in Nat /\ b.write \in Nat /\ ReadAble(b) = b.write - b.read
        /\ ReadAble(b) \in Nat /\ n <= ReadAble(b)
    BY SizeAssumption, BufferMembers DEF ReadAble, n
  <1>3. EndIndex(b, b.read, out) = j
    <2>1. ReadAble(b) >= 3
      BY <1>1, <1>2
    <2>. QED
      BY <2>1, StartLength DEF n
  <1>4. ASSUME NEW q \in 1 .. n
        PROVE  /\ b.data[b.read + q - 1] = Package(m)[q]
               /\ ByteAt(b, b.read + q - 1, out) = Package(m)[q]
    <2>1. q \in 1 .. ReadAble(b) /\ q <= n
      BY <1>1, <1>2
    <2>. QED
      BY <2>1, StartBytes DEF n
  <1>5. b.read \in Packages(b, out)
    <2>1. 1 \in 1 .. n /\ n \in 1 .. n /\ b.read + 1 - 1 = b.read
      BY <1>1, <1>2
    <2>2. b.data[b.read] = PB_START /\ ByteAt(b, j, out) = PB_END
      BY <1>1, <1>4, <2>1
    <2>3. b.read \in b.read .. b.write - 1 /\ b.read + 1 < b.write /\ j < b.write
      BY <1>1, <1>2
    <2>. HIDE DEF j
    <2>. QED
      BY <1>3, <2>2, <2>3 DEF Packages, IsPackage
  <1>6. Message(b, b.read, j) = m
    <2>1. j - (b.read + 1 + LengthBytes) = Len(m)
      BY <1>1, <1>2 DEF LengthBytes
    <2>2. ASSUME NEW k \in 1 .. Len(m)
          PROVE  b.data[b.read + LengthBytes + k] = m[k]
      <3>1. k + 3 \in 1 .. n /\ b.read + (k + 3) - 1 = b.read + LengthBytes + k
        BY <1>1, <1>2 DEF LengthBytes
      <3>. QED
        BY <1>1, <1>4, <3>1
    <2>3. Message(b, b.read, j) = [k \in 1 .. Len(m) |-> b.data[b.read + LengthBytes + k]]
      BY <2>1 DEF Message
    <2>4. m = [k \in 1 .. Len(m) |-> m[k]]
      BY <1>1
    <2>. QED
      BY <2>2, <2>3, <2>4
  <1>. QED
    BY <1>3, <1>5, <1>6 DEF n

\* ...and while only a part of it has arrived, which is not the start mark with
\* one byte of the length, nothing is found.
LEMMA CutPackage ==
    ASSUME NEW b \in Buffers(BufferSize), NEW m \in Messages, NEW out \in Outside,
           Starts(b, m), ReadAble(b) < PackageLength(m), ReadAble(b) # 2,
           b.write < BufferSize, Unambiguous
    PROVE  Packages(b, out) = {}
  <1>. DEFINE n == PackageLength(m)
  <1>. SUFFICES ASSUME NEW i \in Packages(b, out)
                PROVE  FALSE
    OBVIOUS
  <1>1. /\ n \in Nat /\ n >= 5
    BY PackageShape
  <1>2. /\ b.size = BufferSize /\ BufferSize \in Nat
        /\ b.read \in Nat /\ b.write \in Nat /\ ReadAble(b) = b.write - b.read
        /\ ReadAble(b) \in Nat /\ ReadAble(b) < n
    BY SizeAssumption, BufferMembers DEF ReadAble
  <1>3. /\ i \in b.read .. b.write - 1 /\ b.data[i] = PB_START
        /\ i + 1 < b.write /\ EndIndex(b, i, out) < b.write
    BY DEF Packages, IsPackage
  <1>. HIDE DEF n
  <1>4. CASE i = b.read
    <2>1. ReadAble(b) >= 3
      BY <1>2, <1>3, <1>4
    <2>2. EndIndex(b, i, out) = b.read + n - 1
      BY <1>4, <2>1, StartLength DEF n
    <2>. QED
      BY <1>1, <1>2, <1>3, <2>2
  <1>5. CASE i # b.read
    <2>. DEFINE q == i - b.read + 1
    <2>1. /\ q \in 2 .. n - 1 /\ q \in 1 .. ReadAble(b) /\ q <= n /\ b.read + q - 1 = i
          /\ q + 1 \in 1 .. ReadAble(b) /\ q + 1 <= n /\ b.read + (q + 1) - 1 = i + 1
          /\ i \in Nat
      BY <1>1, <1>2, <1>3, <1>5
    <2>. HIDE DEF q
    <2>2. Package(m)[q] = PB_START
      BY <1>3, <2>1, StartBytes DEF n
    <2>3. ByteAt(b, i + 1, out) = Package(m)[q + 1]
      BY <2>1, StartBytes DEF n
    <2>4. 256 * Package(m)[q + 1] >= BufferSize /\ Package(m)[q + 1] < 128
      BY <2>1, <2>2 DEF Unambiguous, n
    <2>5. PICK v \in Byte : v = Package(m)[q + 1]
      <3>1. q + 1 \in 1 .. n
        BY <2>1
      <3>. QED
        BY <3>1, PackageBytes DEF n
    <2>6. PICK x \in Byte : x = ByteAt(b, i + 1 + 1, out)
      <3>1. i + 1 + 1 \in Int
        BY <2>1
      <3>. QED
        BY <3>1, LengthRead
    <2>7. GetInt(b, i + 1, out) = 256 * v + x /\ 256 * v + x >= BufferSize
      <3>1. v \in 0 .. 127 /\ x \in 0 .. 255 /\ 256 * v >= BufferSize
        BY <2>4, <2>5, <2>6 DEF Byte
      <3>2. 256 * v + x < 32768 /\ 256 * v + x >= BufferSize
        BY <1>2, <3>1
      <3>. QED
        BY <2>3, <2>5, <2>6, <3>2 DEF GetInt
    <2>8. EndIndex(b, i, out) = i + (256 * v + x) - 1
      BY <2>7 DEF EndIndex
    <2>9. 256 * v + x \in Nat
      BY <2>5, <2>6 DEF Byte
    <2>. QED
      BY <1>2, <1>3, <2>1, <2>7, <2>8, <2>9
  <1>. QED
    BY <1>4, <1>5

LEMMA ChannelTypes ==
    ASSUME NEW L \in Nat, ChannelInv(L)
    PROVE  /\ sent \in Seq(Messages) /\ wire \in Seq(WireByte)
           /\ result \in Seq(Seq(Byte)) /\ delivered \in Seq(Seq(Byte))
           /\ Len(sent) \in Nat /\ Len(wire) \in Nat
           /\ Len(result) \in Nat /\ Len(delivered) \in Nat
           /\ Taken \in Nat /\ Taken = Len(delivered) + Len(result) /\ Taken <= Len(sent)
           /\ inBuffer \in Buffers(BufferSize) /\ ReadAble(inBuffer) \in Nat
           /\ inBuffer.read \in Nat /\ inBuffer.write \in Nat
           /\ ReadAble(inBuffer) = inBuffer.write - inBuffer.read
           /\ inBuffer.write < BufferSize /\ BufferSize \in Nat /\ Window \in Nat
  <1>1. /\ sent \in Seq(Messages) /\ wire \in Seq(WireByte)
        /\ result \in Seq(Seq(Byte)) /\ delivered \in Seq(Seq(Byte))
    BY DEF ChannelInv, Inv, TypeOK, WireByte
  <1>2. /\ Len(sent) \in Nat /\ Len(wire) \in Nat
        /\ Len(result) \in Nat /\ Len(delivered) \in Nat
    BY <1>1, LenProperties
  <1>3. Taken <= Len(sent)
    BY DEF ChannelInv, InOrder
  <1>4. /\ inBuffer \in Buffers(BufferSize) /\ ReadAble(inBuffer) \in Nat
        /\ inBuffer.read \in Nat /\ inBuffer.write \in Nat
        /\ ReadAble(inBuffer) = inBuffer.write - inBuffer.read
        /\ inBuffer.write < BufferSize /\ BufferSize \in Nat
    BY RoomOffered DEF ChannelInv, ReadAble
  <1>. QED
    BY <1>1, <1>2, <1>3, <1>4, WindowAssumption DEF Taken

\* Everything a peer has under way fits behind what is in the buffer, with a
\* byte to spare: a read never fills the room it is offered.
LEMMA BytesFit ==
    ASSUME NEW L \in Nat, Fits(L), ChannelInv(L)
    PROVE  inBuffer.write + Len(wire) < BufferSize
  <1>. DEFINE n == Len(sent)
              third == BufferSize \div 3
  <1>1. PICK S \in Seq(WireByte), E \in [0 .. Len(sent) -> Nat] :
          Stream(S, E, sent, L) /\ Follows(S, E[Taken], inBuffer, wire)
    BY DEF ChannelInv, UnderWay
  <1>2. /\ n \in Nat /\ Taken \in Nat /\ Taken <= n /\ Len(delivered) \in Nat
        /\ Len(result) \in Nat /\ Taken = Len(delivered) + Len(result)
        /\ Len(wire) \in Nat /\ ReadAble(inBuffer) \in Nat
        /\ inBuffer.read \in Nat /\ inBuffer.write \in Nat
        /\ ReadAble(inBuffer) = inBuffer.write - inBuffer.read
        /\ BufferSize \in Nat /\ Window \in Nat
    BY ChannelTypes
  <1>3. n - Len(delivered) <= Window /\ inBuffer.read < third
    BY DEF ChannelInv, Slack
  <1>4. third \in Nat /\ third + Window * L <= BufferSize
    BY <1>2 DEF Fits
  <1>. HIDE DEF n, third
  <1>5. /\ Len(S) = E[n] /\ E[n] \in Nat /\ E[Taken] \in Nat
        /\ E[n] - E[Taken] <= (n - Taken) * L
    <2>1. n \in 0 .. n /\ Taken \in 0 .. n
      BY <1>2
    <2>2. /\ E \in [0 .. n -> Nat] /\ Len(S) = E[n]
          /\ \A j, k \in 0 .. n : j <= k => E[j] <= E[k] /\ E[k] - E[j] <= (k - j) * L
      BY <1>1 DEF Stream, n
    <2>. QED
      BY <1>2, <2>1, <2>2
  <1>6. Len(S) = E[Taken] + ReadAble(inBuffer) + Len(wire)
    BY <1>1 DEF Follows
  <1>7. (n - Taken) * L \in Nat /\ Window * L \in Nat /\ (n - Taken) * L <= Window * L
    <2>1. n - Taken \in Nat /\ n - Taken <= Window
      BY <1>2, <1>3
    <2>. QED
      BY <1>2, <2>1, TimesMonotone
  <1>8. PICK x \in Nat, y \in Nat : x = (n - Taken) * L /\ y = Window * L
    BY <1>7
  <1>9. Len(S) <= E[Taken] + x /\ x <= y /\ third + y <= BufferSize
    <2>1. E[n] - E[Taken] <= x
      BY <1>5, <1>8
    <2>. QED
      BY <1>4, <1>5, <1>7, <1>8, <2>1
  <1>. DEFINE a == ReadAble(inBuffer)
              w == Len(wire)
              e == E[Taken]
              all == Len(S)
              r == inBuffer.read
              end == inBuffer.write
  <1>10. /\ a \in Nat /\ w \in Nat /\ e \in Nat /\ r \in Nat /\ end \in Nat
         /\ all = e + a + w /\ all <= e + x /\ a = end - r
         /\ r < third /\ third \in Nat /\ BufferSize \in Nat
    BY <1>2, <1>3, <1>4, <1>5, <1>6, <1>9
  <1>11. end + w < BufferSize
    <2>. HIDE DEF a, w, e, all, r, end
    <2>1. a + w <= x
      BY <1>10
    <2>. QED
      BY <1>9, <1>10, <2>1
  <1>. QED
    BY <1>11

\* Where decode stands: at the end of everything, or at a package of which the
\* length has been read as a whole or not at all.
LEMMA AtPackage ==
    ASSUME NEW L \in Nat, ChannelInv(L),
           NEW S \in Seq(WireByte), NEW E \in [0 .. Len(sent) -> Nat],
           Stream(S, E, sent, L), Follows(S, E[Taken], inBuffer, wire)
    PROVE  /\ Taken = Len(sent) => ReadAble(inBuffer) = 0
           /\ Taken < Len(sent) =>
                /\ sent[Taken + 1] \in Messages
                /\ E[Taken + 1] = E[Taken] + PackageLength(sent[Taken + 1])
                /\ Starts(inBuffer, sent[Taken + 1])
                /\ ReadAble(inBuffer) < PackageLength(sent[Taken + 1]) =>
                     ReadAble(inBuffer) # 2
  <1>. DEFINE n == Len(sent)
              a == ReadAble(inBuffer)
              at == E[Taken]
  <1>1. /\ n \in Nat /\ Taken \in Nat /\ Taken <= n /\ Len(wire) \in Nat /\ a \in Nat
        /\ sent \in Seq(Messages) /\ wire \in Seq(WireByte)
    BY ChannelTypes
  <1>2. /\ Len(S) = E[n] /\ E[n] \in Nat /\ at \in Nat
        /\ Len(S) = at + a + Len(wire)
    <2>1. n \in 0 .. n /\ Taken \in 0 .. n
      BY <1>1
    <2>2. E[n] \in Nat /\ at \in Nat
      BY <2>1
    <2>. QED
      BY <2>2 DEF Stream, Follows
  <1>3. /\ \A q \in 1 .. a : Content(inBuffer)[q] = S[at + q].byte
        /\ \A q \in 1 .. Len(wire) : wire[q] = S[at + a + q]
    BY DEF Follows
  <1>4. ASSUME Taken = n
        PROVE  a = 0
    <2>1. at = E[n]
      BY <1>4
    <2>. QED
      BY <1>1, <1>2, <2>1
  <1>5. ASSUME Taken < n
        PROVE  /\ sent[Taken + 1] \in Messages
               /\ E[Taken + 1] = at + PackageLength(sent[Taken + 1])
               /\ Starts(inBuffer, sent[Taken + 1])
               /\ a < PackageLength(sent[Taken + 1]) => a # 2
    <2>. DEFINE k == Taken + 1
                m == sent[k]
    <2>1. k \in 1 .. n /\ k - 1 = Taken /\ k \in 0 .. n /\ n \in 0 .. n /\ k <= n
      BY <1>1, <1>5
    <2>2. m \in Messages
      BY <1>1, <2>1, ElementOfSeq
    <2>3. /\ E[k] = at + PackageLength(m) /\ E[k] <= E[n] /\ E[k] \in Nat
          /\ \A p \in 1 .. PackageLength(m) : S[at + p] = OnWire(m)[p]
      <3>1. /\ E[k] = E[k - 1] + PackageLength(sent[k])
            /\ \A p \in 1 .. PackageLength(sent[k]) : S[E[k - 1] + p] = OnWire(sent[k])[p]
        BY <2>1 DEF Stream
      <3>2. E[k] <= E[n] /\ E[k] \in Nat
        BY <2>1 DEF Stream
      <3>. QED
        BY <2>1, <3>1, <3>2
    <2>. HIDE DEF k, m
    <2>4. /\ PackageLength(m) \in Nat /\ PackageLength(m) >= 5
          /\ \A p \in 1 .. PackageLength(m) :
                OnWire(m)[p].byte = Package(m)[p] /\ OnWire(m)[p].offset = p - 1
      BY <2>2, OnWireBytes
    <2>5. Starts(inBuffer, m)
      <3>. SUFFICES ASSUME NEW q \in 1 .. a, q <= PackageLength(m)
                    PROVE  Content(inBuffer)[q] = Package(m)[q]
        BY DEF Starts
      <3>1. q \in 1 .. PackageLength(m)
        BY <1>1, <2>4
      <3>. QED
        BY <1>3, <2>3, <2>4, <3>1
    <2>6. ASSUME a < PackageLength(m), a = 2
          PROVE  FALSE
      <3>1. Len(wire) >= 1 /\ 1 \in 1 .. Len(wire) /\ 3 \in 1 .. PackageLength(m)
            /\ at + a + 1 = at + 3
        BY <1>1, <1>2, <2>3, <2>4, <2>6
      <3>2. wire[1] = OnWire(m)[3]
        BY <1>3, <2>3, <3>1
      <3>3. wire[1].offset = 2
        BY <2>4, <3>1, <3>2
      <3>4. wire # <<>>
        BY <1>1, <3>1, EmptySeq
      <3>. QED
        BY <3>3, <3>4 DEF ChannelInv, Slack
    <2>. QED
      BY <2>2, <2>3, <2>5, <2>6 DEF k, m
  <1>. QED
    BY <1>4, <1>5

LEMMA ChannelInit ==
    ASSUME NEW L \in Nat, Fits(L), Init
    PROVE  ChannelInv(L)
  <1>. DEFINE E == [k \in 0 .. 0 |-> 0]
  <1>1. Inv
    BY InitInv
  <1>2. /\ sent = <<>> /\ wire = <<>> /\ result = <<>> /\ delivered = <<>>
        /\ inBuffer = NewBuffer(BufferSize)
    BY DEF Init
  <1>3. /\ inBuffer.read = 0 /\ ReadAble(inBuffer) = 0
    BY <1>2 DEF NewBuffer, ReadAble
  <1>4. Len(sent) = 0 /\ Len(wire) = 0 /\ Len(result) = 0 /\ Len(delivered) = 0 /\ Taken = 0
    BY <1>2 DEF Taken
  <1>5. InOrder
    BY <1>4 DEF InOrder
  <1>6. Slack
    <2>1. BufferSize \in Nat /\ BufferSize >= 3
      BY SizeAssumption DEF Fits
    <2>2. 0 < BufferSize \div 3
      BY <2>1
    <2>. QED
      BY <1>2, <1>3, <1>4, <2>2, WindowAssumption DEF Slack
  <1>7. Stream(<<>>, E, sent, L)
    <2>1. <<>> \in Seq(WireByte) /\ E \in [0 .. 0 -> Nat] /\ E[0] = 0 /\ Len(<<>>) = 0
      OBVIOUS
    <2>2. \A j, k \in 0 .. 0 : E[j] <= E[k] /\ E[k] - E[j] <= (k - j) * L
      <3>1. \A j \in 0 .. 0 : j = 0
        OBVIOUS
      <3>2. (0 - 0) * L = 0
        OBVIOUS
      <3>. QED
        BY <2>1, <3>1, <3>2
    <2>. HIDE DEF E
    <2>. QED
      BY <1>4, <2>1, <2>2 DEF Stream
  <1>8. Follows(<<>>, E[Taken], inBuffer, wire)
    <2>1. E[Taken] = 0 /\ Len(<<>>) = 0
      BY <1>4
    <2>. HIDE DEF E
    <2>. QED
      BY <1>3, <1>4, <2>1 DEF Follows
  <1>9. UnderWay(L)
    <2>1. <<>> \in Seq(WireByte) /\ E \in [0 .. Len(sent) -> Nat]
      BY <1>4
    <2>. HIDE DEF E
    <2>. QED
      BY <1>7, <1>8, <2>1 DEF UnderWay
  <1>. QED
    BY <1>1, <1>5, <1>6, <1>9 DEF ChannelInv

\* Steps that touch neither the buffer, the wire nor the messages.
LEMMA ChannelKept ==
    ASSUME NEW L \in Nat, ChannelInv(L), Inv',
           UNCHANGED <<sent, wire, inBuffer, result, delivered>>
    PROVE  ChannelInv(L)'
  <1>1. Taken' = Taken
    BY DEF Taken
  <1>2. InOrder'
    BY <1>1 DEF ChannelInv, InOrder
  <1>3. Slack'
    BY DEF ChannelInv, Slack
  <1>4. UnderWay(L)'
    BY <1>1 DEF ChannelInv, UnderWay
  <1>. QED
    BY <1>2, <1>3, <1>4 DEF ChannelInv

LEMMA ChannelSend ==
    ASSUME NEW L \in Nat, Fits(L), ChannelInv(L), Inv', NEW m \in Messages, PeerSend(m)
    PROVE  ChannelInv(L)'
  <1>. DEFINE n == Len(sent)
  <1>1. /\ sent' = Append(sent, m) /\ wire' = wire \o OnWire(m)
        /\ n - Len(delivered) < Window
        /\ inBuffer' = inBuffer /\ result' = result /\ delivered' = delivered
    BY DEF PeerSend
  <1>2. /\ sent \in Seq(Messages) /\ wire \in Seq(WireByte)
        /\ n \in Nat /\ Len(result) \in Nat /\ Len(delivered) \in Nat /\ Len(wire) \in Nat
        /\ Taken \in Nat /\ Taken = Len(delivered) + Len(result) /\ Taken <= n
        /\ inBuffer \in Buffers(BufferSize) /\ Window \in Nat
    BY ChannelTypes
  <1>3. /\ Len(sent') = n + 1
        /\ \A k \in 1 .. n : sent'[k] = sent[k]
    BY <1>1, <1>2, AppendedMessage
  <1>4. /\ OnWire(m) \in Seq(WireByte) /\ Len(OnWire(m)) = PackageLength(m)
        /\ PackageLength(m) \in Nat /\ PackageLength(m) >= 5 /\ PackageLength(m) <= L
        /\ OnWire(m)[1].offset = 0
    BY OnWireBytes DEF Fits
  <1>5. Taken' = Taken
    BY <1>1 DEF Taken
  <1>6. InOrder'
    <2>1. Taken' <= Len(sent')
      BY <1>2, <1>3, <1>5
    <2>2. ASSUME NEW k \in 1 .. Len(delivered)
          PROVE  delivered[k] = sent'[k]
      <3>1. k \in 1 .. n
        BY <1>2
      <3>. QED
        BY <1>3, <3>1 DEF ChannelInv, InOrder
    <2>3. ASSUME NEW k \in 1 .. Len(result)
          PROVE  result[k] = sent'[Len(delivered) + k]
      <3>1. Len(delivered) + k \in 1 .. n
        BY <1>2
      <3>. QED
        BY <1>3, <3>1 DEF ChannelInv, InOrder
    <2>. QED
      BY <1>1, <2>1, <2>2, <2>3 DEF InOrder
  <1>7. Slack'
    <2>1. Len(sent') - Len(delivered') <= Window
      BY <1>1, <1>2, <1>3
    <2>2. wire'[1].offset # 2
      <3>1. \A i \in 1 .. Len(wire) + Len(OnWire(m)) : (wire \o OnWire(m))[i] =
              IF i <= Len(wire) THEN wire[i] ELSE OnWire(m)[i - Len(wire)]
        BY <1>2, <1>4, ConcatProperties
      <3>2. 1 \in 1 .. Len(wire) + Len(OnWire(m))
        BY <1>2, <1>4
      <3>3. CASE wire = <<>>
        <4>1. ~(1 <= Len(wire)) /\ 1 - Len(wire) = 1
          BY <3>3
        <4>2. wire'[1] = OnWire(m)[1]
          BY <1>1, <3>1, <3>2, <4>1
        <4>. QED
          BY <1>4, <4>2
      <3>4. CASE wire # <<>>
        <4>1. 1 <= Len(wire)
          BY <1>2, <3>4, EmptySeq
        <4>2. wire'[1] = wire[1]
          BY <1>1, <3>1, <3>2, <4>1
        <4>. QED
          BY <3>4, <4>2 DEF ChannelInv, Slack
      <3>. QED
        BY <3>3, <3>4
    <2>. QED
      BY <1>1, <2>1, <2>2 DEF ChannelInv, Slack
  <1>8. UnderWay(L)'
    <2>1. PICK S \in Seq(WireByte), E \in [0 .. Len(sent) -> Nat] :
            Stream(S, E, sent, L) /\ Follows(S, E[Taken], inBuffer, wire)
      BY DEF ChannelInv, UnderWay
    <2>. DEFINE F == [k \in 0 .. Len(sent) + 1 |->
                        IF k <= Len(sent) THEN E[k] ELSE Len(S) + PackageLength(m)]
                more == S \o OnWire(m)
    <2>2. Stream(more, F, sent', L)
      BY <1>1, <1>2, <1>4, <2>1, StreamGrows
    <2>3. F[Taken'] = E[Taken] /\ E[Taken] \in Nat
      BY <1>2, <1>5, <2>1
    <2>4. Follows(more, E[Taken], inBuffer', wire')
      BY <1>1, <1>2, <1>4, <2>1, <2>3, FollowsGrows
    <2>5. more \in Seq(WireByte) /\ F \in [0 .. Len(sent') -> Nat]
      BY <2>2 DEF Stream
    <2>. HIDE DEF F, more
    <2>. QED
      BY <2>2, <2>3, <2>4, <2>5 DEF UnderWay
  <1>. QED
    BY <1>6, <1>7, <1>8 DEF ChannelInv

\* A successful read(): all it returns is kept, and it never fills the room.
LEMMA ChannelRead ==
    ASSUME NEW L \in Nat, Fits(L), SplitHeaders = FALSE, ChannelInv(L), Inv', Read
    PROVE  ChannelInv(L)'
  <1>1. PICK n \in 1 .. Len(wire) :
          /\ MayEndAt(n)
          /\ inBuffer' = MoveWriteIndex(Store(Room, Received(n)), n)
          /\ wire' = SubSeq(wire, n + 1, Len(wire))
    BY DEF Read
  <1>2. sent' = sent /\ result' = result /\ delivered' = delivered
    BY DEF Read
  <1>3. /\ wire \in Seq(WireByte) /\ Len(wire) \in Nat /\ n \in Nat /\ n <= Len(wire)
        /\ inBuffer \in Buffers(BufferSize) /\ inBuffer.write \in Nat /\ BufferSize \in Nat
        /\ Taken \in Nat /\ Taken <= Len(sent) /\ Len(sent) \in Nat
    BY <1>1, ChannelTypes
  <1>. DEFINE x == Received(n)
  <1>4. /\ x \in Seq(Byte) /\ Len(x) = n
        /\ \A k \in 1 .. n : x[k] = wire[k].byte
    BY <1>1, BytesRead DEF ChannelInv, Received
  <1>5. /\ wire' \in Seq(WireByte) /\ Len(wire') = Len(wire) - n
        /\ \A q \in 1 .. Len(wire) - n : wire'[q] = wire[n + q]
    <2>1. n \in 0 .. Len(wire)
      BY <1>3
    <2>. QED
      BY <1>1, <1>3, <2>1, DropFirst
  <1>. HIDE DEF x
  <1>6. /\ inBuffer' \in Buffers(BufferSize) /\ Content(inBuffer') = Content(inBuffer) \o x
        /\ inBuffer'.read < BufferSize \div 3
    <2>1. inBuffer' = MoveWriteIndex(Store(inBuffer, x), Len(x))
      BY <1>1, <1>4, RoomOffered DEF ChannelInv, x
    <2>2. inBuffer.write + Len(x) < BufferSize
      <3>1. inBuffer.write + Len(wire) < BufferSize
        BY BytesFit
      <3>. QED
        BY <1>3, <1>4, <3>1
    <2>3. BufferSize >= 3
      BY DEF Fits
    <2>. QED
      BY <1>3, <1>4, <2>1, <2>2, <2>3, ReadIntoRoom
  <1>7. Taken' = Taken
    BY <1>2 DEF Taken
  <1>8. InOrder'
    BY <1>2, <1>7 DEF ChannelInv, InOrder
  <1>9. Slack'
    <2>1. ASSUME wire' # <<>>
          PROVE  wire'[1].offset # 2
      <3>1. Len(wire') # 0
        BY <1>5, <2>1, EmptySeq
      <3>2. n < Len(wire) /\ 1 \in 1 .. Len(wire) - n
        BY <1>3, <1>5, <3>1
      <3>3. wire'[1] = wire[n + 1]
        BY <1>5, <3>2
      <3>4. wire[n + 1].offset \notin 2 .. LengthBytes
        BY <1>1, <3>2 DEF MayEndAt
      <3>5. 2 \in 2 .. LengthBytes
        BY DEF LengthBytes
      <3>. QED
        BY <3>3, <3>4, <3>5
    <2>. QED
      BY <1>2, <1>6, <2>1 DEF ChannelInv, Slack
  <1>10. UnderWay(L)'
    <2>1. PICK S \in Seq(WireByte), E \in [0 .. Len(sent) -> Nat] :
            Stream(S, E, sent, L) /\ Follows(S, E[Taken], inBuffer, wire)
      BY DEF ChannelInv, UnderWay
    <2>2. E[Taken] \in Nat
      BY <1>3, <2>1
    <2>3. Follows(S, E[Taken], inBuffer', wire')
      BY <1>1, <1>3, <1>4, <1>6, <2>1, <2>2, FollowsRead
    <2>. QED
      BY <1>2, <1>7, <2>1, <2>3 DEF UnderWay
  <1>. QED
    BY <1>8, <1>9, <1>10 DEF ChannelInv

\* What one step of decode takes is the package of the next message.
LEMMA ChannelDecode ==
    ASSUME NEW L \in Nat, Fits(L), Unambiguous, ChannelInv(L), Inv', DecodePackage
    PROVE  ChannelInv(L)'
  <1>0. PICK out \in Outside : \E i \in Packages(inBuffer, out) :
          /\ \A k \in Packages(inBuffer, out) : i <= k
          /\ LET j == EndIndex(inBuffer, i, out)
             IN  /\ inBuffer' = Consume(inBuffer, i, j)
                 /\ result' = IF i + 1 + LengthBytes >= j THEN result
                              ELSE Append(result, Message(inBuffer, i, j))
    BY DEF DecodePackage
  <1>1. PICK i \in Packages(inBuffer, out) :
          /\ \A k \in Packages(inBuffer, out) : i <= k
          /\ LET j == EndIndex(inBuffer, i, out)
             IN  /\ inBuffer' = Consume(inBuffer, i, j)
                 /\ result' = IF i + 1 + LengthBytes >= j THEN result
                              ELSE Append(result, Message(inBuffer, i, j))
    BY <1>0
  <1>2. sent' = sent /\ wire' = wire /\ delivered' = delivered
    BY DEF DecodePackage
  <1>3. /\ sent \in Seq(Messages) /\ result \in Seq(Seq(Byte)) /\ wire \in Seq(WireByte)
        /\ Len(sent) \in Nat /\ Len(delivered) \in Nat /\ Len(result) \in Nat
        /\ Taken \in Nat /\ Taken = Len(delivered) + Len(result) /\ Taken <= Len(sent)
        /\ inBuffer \in Buffers(BufferSize) /\ ReadAble(inBuffer) \in Nat
        /\ inBuffer.read \in Nat /\ inBuffer.write \in Nat /\ BufferSize \in Nat
        /\ ReadAble(inBuffer) = inBuffer.write - inBuffer.read
        /\ inBuffer.write < BufferSize
    BY ChannelTypes
  <1>4. PICK S \in Seq(WireByte), E \in [0 .. Len(sent) -> Nat] :
          Stream(S, E, sent, L) /\ Follows(S, E[Taken], inBuffer, wire)
    BY DEF ChannelInv, UnderWay
  <1>5. Taken < Len(sent)
    <2>1. i \in inBuffer.read .. inBuffer.write - 1
      BY DEF Packages
    <2>2. ReadAble(inBuffer) # 0
      BY <1>3, <2>1
    <2>3. Taken # Len(sent)
      BY <1>4, <2>2, AtPackage
    <2>. QED
      BY <1>3, <2>3
  <1>. DEFINE m == sent[Taken + 1]
              n == PackageLength(m)
              r == inBuffer.read
  <1>6. /\ m \in Messages /\ E[Taken + 1] = E[Taken] + n
        /\ Starts(inBuffer, m)
        /\ ReadAble(inBuffer) < n => ReadAble(inBuffer) # 2
    BY <1>4, <1>5, AtPackage
  <1>. HIDE DEF m, n
  <1>7. n \in Nat /\ n >= 5
    BY <1>6, OnWireBytes DEF n
  <1>8. n <= ReadAble(inBuffer)
    <2>1. ASSUME ReadAble(inBuffer) < n
          PROVE  FALSE
      <3>1. Packages(inBuffer, out) = {}
        BY <1>3, <1>6, <2>1, CutPackage DEF n
      <3>. QED
        BY <3>1
    <2>. QED
      BY <1>3, <1>7, <2>1
  <1>9. /\ r \in Packages(inBuffer, out) /\ EndIndex(inBuffer, r, out) = r + n - 1
        /\ Message(inBuffer, r, r + n - 1) = m
    BY <1>3, <1>6, <1>8, WholePackage DEF n
  <1>10. i = r
    <2>1. i \in inBuffer.read .. inBuffer.write - 1 /\ i <= r
      BY <1>1, <1>9 DEF Packages
    <2>. QED
      BY <1>3, <2>1
  <1>11. inBuffer' = MoveReadIndex(inBuffer, n)
    <2>1. inBuffer' = MoveReadIndex(inBuffer, (r + n - 1) - r + 1)
      BY <1>1, <1>9, <1>10 DEF Consume
    <2>2. (r + n - 1) - r + 1 = n
      <3>1. r \in Nat
        BY <1>3
      <3>. HIDE DEF r
      <3>. QED
        BY <1>7, <3>1
    <2>. QED
      BY <2>1, <2>2
  <1>12. result' = Append(result, m)
    <2>1. ~(r + 1 + LengthBytes >= r + n - 1)
      <3>1. r \in Nat
        BY <1>3
      <3>. HIDE DEF r
      <3>. QED
        BY <1>7, <3>1 DEF LengthBytes
    <2>. QED
      BY <1>1, <1>9, <1>10, <2>1
  <1>13. /\ inBuffer' \in Buffers(BufferSize)
         /\ Content(inBuffer') = SubSeq(Content(inBuffer), n + 1, ReadAble(inBuffer))
         /\ inBuffer'.read < BufferSize \div 3
    <2>1. /\ n \in 0 .. ReadAble(inBuffer) /\ n \in Int
          /\ inBuffer.read + n <= inBuffer.write /\ inBuffer.read + n < BufferSize
      <3>. DEFINE a == ReadAble(inBuffer)
                  end == inBuffer.write
      <3>1. /\ r \in Nat /\ end \in Nat /\ a = end - r /\ end < BufferSize
            /\ BufferSize \in Nat /\ n <= a
        BY <1>3, <1>8
      <3>. HIDE DEF a, end, r
      <3>2. n \in 0 .. a /\ n \in Int /\ r + n <= end /\ r + n < BufferSize
        BY <1>7, <3>1
      <3>. QED
        BY <3>2 DEF a, end, r
    <2>2. BufferSize >= 3
      BY DEF Fits
    <2>3. MoveReadIndex(inBuffer, n) \in Buffers(BufferSize)
      BY <1>3, <2>1, MoveReadKeeps
    <2>4. /\ Content(MoveReadIndex(inBuffer, n))
               = SubSeq(Content(inBuffer), n + 1, ReadAble(inBuffer))
          /\ MoveReadIndex(inBuffer, n).read < BufferSize \div 3
      BY <1>3, <2>1, <2>2, MoveReadDrops
    <2>. QED
      BY <1>11, <2>3, <2>4
  <1>14. /\ Len(result') = Len(result) + 1 /\ result'[Len(result) + 1] = m
         /\ \A k \in 1 .. Len(result) : result'[k] = result[k]
    <2>1. m \in Seq(Byte)
      BY <1>6, MessagesAssumption
    <2>. QED
      BY <1>3, <1>12, <2>1, AppendProperties
  <1>15. Taken' = Taken + 1
    BY <1>2, <1>3, <1>14 DEF Taken
  <1>16. InOrder'
    <2>1. Taken' <= Len(sent')
      BY <1>2, <1>3, <1>5, <1>15
    <2>2. ASSUME NEW k \in 1 .. Len(result) + 1
          PROVE  result'[k] = sent[Len(delivered) + k]
      <3>1. CASE k = Len(result) + 1
        <4>1. Len(delivered) + k = Taken + 1
          BY <1>3, <3>1
        <4>. QED
          BY <1>14, <3>1, <4>1 DEF m
      <3>2. CASE k # Len(result) + 1
        <4>1. k \in 1 .. Len(result)
          BY <1>3, <3>2
        <4>. QED
          BY <1>14, <4>1 DEF ChannelInv, InOrder
      <3>. QED
        BY <3>1, <3>2
    <2>. QED
      BY <1>2, <1>14, <2>1, <2>2 DEF ChannelInv, InOrder
  <1>17. Slack'
    BY <1>2, <1>13 DEF ChannelInv, Slack
  <1>18. UnderWay(L)'
    <2>1. E[Taken] \in Nat
      BY <1>3, <1>4
    <2>2. n \in 0 .. ReadAble(inBuffer)
      BY <1>3, <1>7, <1>8
    <2>3. Follows(S, E[Taken] + n, inBuffer', wire)
      BY <1>3, <1>4, <1>13, <2>1, <2>2, FollowsDrop
    <2>4. Follows(S, E[Taken'], inBuffer', wire')
      BY <1>2, <1>6, <1>15, <2>3
    <2>. QED
      BY <1>2, <1>4, <2>4 DEF UnderWay
  <1>. QED
    BY <1>16, <1>17, <1>18 DEF ChannelInv

\* excute() hands over the next message of the peer.
LEMMA ChannelExcute ==
    ASSUME NEW L \in Nat, ChannelInv(L), Inv', Excute
    PROVE  /\ ChannelInv(L)'
           /\ Len(delivered) < Len(sent)
           /\ delivered' = Append(delivered, sent[Len(delivered) + 1])
  <1>1. /\ result # <<>> /\ delivered' = Append(delivered, Head(result))
        /\ result' = Tail(result) /\ sent' = sent /\ wire' = wire /\ inBuffer' = inBuffer
    BY DEF Excute
  <1>2. /\ result \in Seq(Seq(Byte)) /\ delivered \in Seq(Seq(Byte))
        /\ Len(sent) \in Nat /\ Len(delivered) \in Nat /\ Len(result) \in Nat
        /\ Taken = Len(delivered) + Len(result) /\ Taken <= Len(sent) /\ Window \in Nat
    BY ChannelTypes
  <1>3. /\ Len(result) >= 1 /\ Head(result) = result[1] /\ Head(result) \in Seq(Byte)
        /\ Len(result') = Len(result) - 1
        /\ \A k \in 1 .. Len(result) - 1 : result'[k] = result[k + 1]
    BY <1>1, <1>2, HeadTailProperties, EmptySeq
  <1>4. Head(result) = sent[Len(delivered) + 1] /\ Len(delivered) < Len(sent)
    <2>1. 1 \in 1 .. Len(result)
      BY <1>2, <1>3
    <2>2. result[1] = sent[Len(delivered) + 1]
      BY <2>1 DEF ChannelInv, InOrder
    <2>. QED
      BY <1>2, <1>3, <2>2
  <1>5. /\ Len(delivered') = Len(delivered) + 1
        /\ delivered'[Len(delivered) + 1] = sent[Len(delivered) + 1]
        /\ \A k \in 1 .. Len(delivered) : delivered'[k] = delivered[k]
    BY <1>1, <1>2, <1>3, <1>4, AppendProperties
  <1>6. Taken' = Taken
    BY <1>2, <1>3, <1>5 DEF Taken
  <1>7. InOrder'
    <2>1. ASSUME NEW k \in 1 .. Len(delivered) + 1
          PROVE  delivered'[k] = sent[k]
      <3>1. k = Len(delivered) + 1 \/ k \in 1 .. Len(delivered)
        BY <1>2
      <3>. QED
        BY <1>5, <3>1 DEF ChannelInv, InOrder
    <2>2. ASSUME NEW k \in 1 .. Len(result) - 1
          PROVE  result'[k] = sent[Len(delivered) + 1 + k]
      <3>1. k + 1 \in 1 .. Len(result) /\ Len(delivered) + (k + 1) = Len(delivered) + 1 + k
        BY <1>2
      <3>2. result[k + 1] = sent[Len(delivered) + (k + 1)]
        BY <3>1 DEF ChannelInv, InOrder
      <3>. QED
        BY <1>3, <3>1, <3>2
    <2>. QED
      BY <1>1, <1>2, <1>3, <1>5, <1>6, <2>1, <2>2 DEF InOrder
  <1>8. Slack'
    <2>1. Len(sent) - Len(delivered) <= Window
      BY DEF ChannelInv, Slack
    <2>2. Len(sent') - Len(delivered') <= Window
      BY <1>1, <1>2, <1>5, <2>1
    <2>. QED
      BY <1>1, <2>2 DEF ChannelInv, Slack
  <1>9. UnderWay(L)'
    BY <1>1, <1>6 DEF ChannelInv, UnderWay
  <1>. QED
    BY <1>1, <1>4, <1>7, <1>8, <1>9 DEF ChannelInv

LEMMA ChannelNext ==
    ASSUME NEW L \in Nat, Fits(L), Unambiguous, SplitHeaders = FALSE,
           ChannelInv(L), [Next]_vars
    PROVE  ChannelInv(L)' /\ [Channel!Next]_<<sent, delivered>>
  <1>1. Inv /\ Inv'
    BY NextInv DEF ChannelInv
  <1>2. Room = inBuffer
    BY <1>1, RoomOffered
  <1>3. ASSUME NEW m \in Messages, PeerSend(m)
        PROVE  ChannelInv(L)' /\ Channel!Send
    <2>1. Channel!Send
      BY <1>3 DEF PeerSend, Channel!Send
    <2>. QED
      BY <1>1, <1>3, <2>1, ChannelSend
  <1>4. CASE PeerClose \/ OnRead \/ DecodeEnd \/ Return \/ UNCHANGED vars
    BY <1>1, <1>4, ChannelKept DEF PeerClose, OnRead, DecodeEnd, Return, vars
  <1>5. CASE ReadAgain \/ ReadEof
    BY <1>1, <1>2, <1>5, ChannelKept DEF ReadAgain, ReadEof
  <1>6. CASE Read
    <2>1. sent' = sent /\ delivered' = delivered
      BY <1>6 DEF Read
    <2>. QED
      BY <1>1, <1>6, <2>1, ChannelRead
  <1>7. CASE DecodePackage
    <2>1. sent' = sent /\ delivered' = delivered
      BY <1>7 DEF DecodePackage
    <2>. QED
      BY <1>1, <1>7, <2>1, ChannelDecode
  <1>8. CASE Excute
    <2>1. sent' = sent
      BY <1>8 DEF Excute
    <2>. QED
      BY <1>1, <1>8, <2>1, ChannelExcute DEF Channel!Deliver, Channel!Next
  <1>. QED
    BY <1>3, <1>4, <1>5, <1>6, <1>7, <1>8 DEF Next, Server, Channel!Next

\* The safety part of ImplementsChannel, for every set of messages, buffer size
\* and window that meet the three conditions: whatever portions the bytes
\* arrive in, what excute() hands over are the messages the peer has sent, in
\* order, each once, unaltered.
THEOREM MessagesInOrder ==
    ASSUME NEW L \in Nat, Fits(L), Unambiguous, SplitHeaders = FALSE
    PROVE  Spec => Channel!Init /\ [][Channel!Next]_<<sent, delivered>>
  <1>1. Init => ChannelInv(L)
    BY ChannelInit
  <1>2. Init => Channel!Init
    BY DEF Init, Channel!Init
  <1>3. ChannelInv(L) /\ [Next]_vars => ChannelInv(L)' /\ [Channel!Next]_<<sent, delivered>>
    BY ChannelNext
  <1>. QED
    BY <1>1, <1>2, <1>3, PTL DEF Spec
=============================================================================
