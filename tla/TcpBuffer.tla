----------------------------- MODULE TcpBuffer -----------------------------
(***************************************************************************)
(* src/rocket/net/tcp/tcp_buffer.{h,cc}: a byte vector with a read and a   *)
(* write index.  A buffer is the record of the three members the code      *)
(* uses (m_size is set once and never read); every member function is an   *)
(* operator from the old buffer to the new one.                            *)
(***************************************************************************)
EXTENDS Integers, Sequences

Byte == 0 .. 255

\* A std::vector of n chars, zero-filled as resize(n) leaves it.
Zeros(n) == [i \in 0 .. n - 1 |-> 0]

NewBuffer(n) == [size |-> n, data |-> Zeros(n), read |-> 0, write |-> 0]

ReadAble(b) == b.write - b.read
WriteAble(b) == b.size - b.write

\* The bytes between the two indices, oldest first.
Content(b) == [k \in 1 .. ReadAble(b) |-> b.data[b.read + k - 1]]

\* resizeBuffer: a fresh vector with the readable bytes, as many as fit, at its
\* front.
ResizeBuffer(b, n) ==
    LET count == IF n < ReadAble(b) THEN n ELSE ReadAble(b)
    IN  [size  |-> n,
         data  |-> [i \in 0 .. n - 1 |-> IF i < count THEN b.data[b.read + i] ELSE 0],
         read  |-> 0,
         write |-> count]

\* adjustBuffer: once a third of the vector has been read, the readable bytes
\* move to the front (and what follows them becomes zero).
AdjustBuffer(b) ==
    IF b.read < b.size \div 3 THEN b ELSE ResizeBuffer(b, b.size)

WithIndices(b, r, w) == [size |-> b.size, data |-> b.data, read |-> r, write |-> w]

\* moveReadIndex and moveWriteIndex refuse an index that reaches the end of the
\* vector, log an error and change nothing; a negative index is a huge size_t.
Refused(b, j) == j < 0 \/ j >= b.size

MoveReadIndex(b, n) ==
    IF Refused(b, b.read + n) THEN b
    ELSE AdjustBuffer(WithIndices(b, b.read + n, b.write))

\* fault: the write index moves one byte too far.
MoveWriteIndexPast(b, n) ==
    IF Refused(b, b.write + n) THEN b
    ELSE AdjustBuffer(WithIndices(b, b.read, b.write + n + 1))

MoveWriteIndex(b, n) ==
    IF Refused(b, b.write + n) THEN b
    ELSE AdjustBuffer(WithIndices(b, b.read, b.write + n))

\* Storing bytes at the write index, as memcpy and read(2) do.
Store(b, bytes) ==
    [size  |-> b.size,
     data  |-> [i \in 0 .. b.size - 1 |->
                  IF i \in b.write .. b.write + Len(bytes) - 1
                    THEN bytes[i - b.write + 1] ELSE b.data[i]],
     read  |-> b.read,
     write |-> b.write]

\* fault: the vector is grown, but its content is not copied.
WriteToFreshBuffer(b, bytes) ==
    LET n == Len(bytes)
        room == IF n > WriteAble(b) THEN NewBuffer((3 * (b.write + n)) \div 2) ELSE b
    IN  WithIndices(Store(room, bytes), room.read, room.write + n)

\* fault: the vector is grown for the new bytes only.
WriteToTightBuffer(b, bytes) ==
    LET n == Len(bytes)
        room == IF n > WriteAble(b) THEN ResizeBuffer(b, (3 * n) \div 2) ELSE b
    IN  WithIndices(Store(room, bytes), room.read, room.write + n)

\* writeToBuffer grows the vector to one and a half times what is needed.
WriteToBuffer(b, bytes) ==
    LET n == Len(bytes)
        room == IF n > WriteAble(b) THEN ResizeBuffer(b, (3 * (b.write + n)) \div 2) ELSE b
    IN  WithIndices(Store(room, bytes), room.read, room.write + n)

\* readFromBuffer hands out min(n, readAble) bytes and drops them.
ReadFromBuffer(b, n) ==
    IF ReadAble(b) = 0 THEN b
    ELSE LET taken == IF ReadAble(b) > n THEN n ELSE ReadAble(b)
         IN  AdjustBuffer(WithIndices(b, b.read + taken, b.write))

\* The buffers over a vector of n bytes that the operations keep: both indices
\* inside the vector and in order.
Buffers(n) ==
    {b \in [size : {n}, data : [0 .. n - 1 -> Byte], read : 0 .. n, write : 0 .. n] :
        b.read <= b.write}
=============================================================================
