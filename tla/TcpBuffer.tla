----------------------------- MODULE TcpBuffer ------------------------------
(***************************************************************************)
(* rocket::TcpBuffer (net/tcp/tcp_buffer.cc): the methods, as operators on *)
(* a record of m_buffer (cells, numbered from 0 as in the code), its size, *)
(* m_read_index and m_write_index.  A fresh std::vector is full of zeros.  *)
(***************************************************************************)
EXTENDS Integers, Sequences

IsBuffer(b) ==
  /\ b = [cells |-> b.cells, size |-> b.size, r |-> b.r, w |-> b.w]
  /\ b.size \in Nat /\ b.r \in Nat /\ b.w \in Nat
  /\ b.cells \in [0 .. b.size - 1 -> Nat]

NewBuffer(size) == [cells |-> [i \in 0 .. size - 1 |-> 0],
                    size  |-> size, r |-> 0, w |-> 0]

ReadAble(b)  == b.w - b.r
WriteAble(b) == b.size - b.w

\* The bytes that can be read.
Readable(b) == [i \in 1 .. ReadAble(b) |-> b.cells[b.r + i - 1]]

\* Mutant: memcpy from the start of the old vector.
RelocateFromStart(b, newSize) ==
  LET count == IF newSize < ReadAble(b) THEN newSize ELSE ReadAble(b)
  IN  [cells |-> [i \in 0 .. newSize - 1 |-> IF i < count THEN b.cells[i] ELSE 0],
       size  |-> newSize, r |-> 0, w |-> count]

\* memcpy of the readable bytes, as many as fit, to the front of a new vector.
Relocate(b, newSize) ==
  LET count == IF newSize < ReadAble(b) THEN newSize ELSE ReadAble(b)
  IN  [cells |-> [i \in 0 .. newSize - 1 |->
                    IF i < count THEN b.cells[b.r + i] ELSE 0],
       size  |-> newSize, r |-> 0, w |-> count]

ResizeBuffer(b, newSize) == Relocate(b, newSize)

\* Mutant: the space before the read index is never reclaimed.
AdjustNever(b) == b

AdjustBuffer(b) == IF b.r < b.size \div 3 THEN b ELSE Relocate(b, b.size)

\* memcpy of data to &m_buffer[m_write_index]; the indexes do not move.
Fill(b, data) ==
  [b EXCEPT !.cells = [i \in DOMAIN b.cells |->
                         IF i >= b.w /\ i < b.w + Len(data)
                         THEN data[i - b.w + 1] ELSE b.cells[i]]]

\* Mutant: the write index is read before the resize moves the bytes.
WriteToBufferStale(b, data) ==
  LET roomy == IF Len(data) > WriteAble(b)
               THEN ResizeBuffer(b, (3 * (b.w + Len(data))) \div 2) ELSE b
  IN  [Fill([roomy EXCEPT !.w = b.w], data) EXCEPT !.w = b.w + Len(data)]

WriteToBuffer(b, data) ==
  LET roomy == IF Len(data) > WriteAble(b)
               THEN ResizeBuffer(b, (3 * (b.w + Len(data))) \div 2) ELSE b
  IN  [Fill(roomy, data) EXCEPT !.w = @ + Len(data)]

\* Mutant: readFromBuffer does not look at how much there is.
ReadFromBufferUnclamped(b, size) ==
  IF ReadAble(b) = 0 THEN b ELSE AdjustBuffer([b EXCEPT !.r = @ + size])

\* What is left after readFromBuffer has taken `size' bytes, or all there are.
ReadFromBuffer(b, size) ==
  IF ReadAble(b) = 0 THEN b
  ELSE AdjustBuffer([b EXCEPT !.r = IF ReadAble(b) > size THEN @ + size
                                                         ELSE b.w])

\* The new index is a size_t: one below zero is refused, too.
MoveReadIndex(b, size) ==
  IF b.r + size \notin 0 .. b.size - 1 THEN b ELSE AdjustBuffer([b EXCEPT !.r = @ + size])

\* Refused, with an error in the log, when the last cell would be used.
MoveWriteIndex(b, size) ==
  IF b.w + size >= b.size THEN b ELSE AdjustBuffer([b EXCEPT !.w = @ + size])

=============================================================================
