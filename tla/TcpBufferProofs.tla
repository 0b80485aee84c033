--------------------------- MODULE TcpBufferProofs --------------------------
(***************************************************************************)
(* What is proved of TcpBuffer and of its use by a coder, for every        *)
(* initial size, message size and stream; then of TinyPBCoder and of the   *)
(* stream of its packets, for every width of bytes and integers, every     *)
(* messages, and every reads that fit: a packet is decoded to the message  *)
(* it was made of, and the messages come out in the order they went in.    *)
(***************************************************************************)
EXTENDS BufferTraffic, PacketStream, SequenceLemmas

-----------------------------------------------------------------------------
(* The methods.                                                             *)

\* A buffer whose indexes are in order and in the vector.
GoodBuffer(b) == IsBuffer(b) /\ b.r <= b.w /\ b.w <= b.size

\* Moving the bytes to the front of a vector that has room for them keeps the
\* buffer good and what can be read from it.
LEMMA RelocateGood ==
  ASSUME NEW b, GoodBuffer(b), NEW newSize \in Nat, ReadAble(b) <= newSize
  PROVE  /\ GoodBuffer(Relocate(b, newSize))
         /\ Relocate(b, newSize).size = newSize
         /\ Relocate(b, newSize).r = 0
         /\ Relocate(b, newSize).w = ReadAble(b)
         /\ Readable(Relocate(b, newSize)) = Readable(b)
<1> DEFINE c == Relocate(b, newSize)
<1>1. /\ c = [cells |-> c.cells, size |-> c.size, r |-> c.r, w |-> c.w]
      /\ c.cells = [i \in 0 .. newSize - 1 |->
                      IF i < ReadAble(b) THEN b.cells[b.r + i] ELSE 0]
      /\ c.size = newSize /\ c.r = 0 /\ c.w = ReadAble(b)
  BY DEF Relocate, GoodBuffer, IsBuffer, ReadAble
<1>2. c.cells \in [0 .. newSize - 1 -> Nat]
  <2>1. \A i \in 0 .. newSize - 1 : i < ReadAble(b) => b.cells[b.r + i] \in Nat
    BY DEF GoodBuffer, IsBuffer, ReadAble
  <2> QED
    BY <1>1, <2>1
<1>3. Readable(c) = Readable(b)
  <2>1. ReadAble(c) = ReadAble(b) /\ ReadAble(b) \in Nat
    BY <1>1 DEF ReadAble, GoodBuffer, IsBuffer
  <2>2. \A i \in 1 .. ReadAble(b) : c.cells[c.r + i - 1] = b.cells[b.r + i - 1]
    BY <1>1, <2>1 DEF GoodBuffer, IsBuffer
  <2> QED
    BY <2>1, <2>2 DEF Readable
<1> QED
  BY <1>1, <1>2, <1>3 DEF GoodBuffer, IsBuffer, ReadAble

\* adjustBuffer changes nothing for the reader, and leaves less than a third of
\* the vector before the read index.
LEMMA AdjustGood ==
  ASSUME NEW b, GoodBuffer(b)
  PROVE  /\ GoodBuffer(AdjustBuffer(b))
         /\ AdjustBuffer(b).size = b.size
         /\ AdjustBuffer(b).r = 0 \/ AdjustBuffer(b).r < b.size \div 3
         /\ ReadAble(AdjustBuffer(b)) = ReadAble(b)
         /\ Readable(AdjustBuffer(b)) = Readable(b)
BY RelocateGood DEF AdjustBuffer, GoodBuffer, IsBuffer, ReadAble

\* Data copied behind the write index change nothing for the reader until the
\* write index moves over them; then they follow what could be read.
Extended(b, n, data) ==
  [i \in 1 .. ReadAble(b) + n |->
     IF i <= ReadAble(b) THEN Readable(b)[i] ELSE data[i - ReadAble(b)]]

LEMMA FillGood ==
  ASSUME NEW b, GoodBuffer(b), NEW n \in Nat, NEW data \in [1 .. n -> Nat],
         Len(data) = n, n <= WriteAble(b)
  PROVE  /\ GoodBuffer(Fill(b, data))
         /\ Fill(b, data).size = b.size
         /\ Fill(b, data).r = b.r
         /\ Fill(b, data).w = b.w
         /\ Readable(Fill(b, data)) = Readable(b)
         /\ GoodBuffer([Fill(b, data) EXCEPT !.w = @ + n])
         /\ Readable([Fill(b, data) EXCEPT !.w = @ + n]) = Extended(b, n, data)
<1> DEFINE f == Fill(b, data)
           c == [f EXCEPT !.w = @ + n]
<1>1. /\ b.size \in Nat /\ b.r \in Nat /\ b.w \in Nat
      /\ b.r <= b.w /\ b.w + n <= b.size
      /\ ReadAble(b) = b.w - b.r /\ ReadAble(b) \in Nat
      /\ b.cells \in [0 .. b.size - 1 -> Nat]
  BY DEF GoodBuffer, IsBuffer, ReadAble, WriteAble
<1>2. /\ f = [cells |-> f.cells, size |-> f.size, r |-> f.r, w |-> f.w]
      /\ f.size = b.size /\ f.r = b.r /\ f.w = b.w
      /\ f.cells = [i \in 0 .. b.size - 1 |->
                      IF i >= b.w /\ i < b.w + n
                      THEN data[i - b.w + 1] ELSE b.cells[i]]
  <2> DEFINE g == [i \in 0 .. b.size - 1 |->
                     IF i >= b.w /\ i < b.w + n
                     THEN data[i - b.w + 1] ELSE b.cells[i]]
  <2>1. DOMAIN b.cells = 0 .. b.size - 1
    BY <1>1
  <2>2. f = [b EXCEPT !.cells = g]
    BY <2>1 DEF Fill
  <2>3. b = [cells |-> b.cells, size |-> b.size, r |-> b.r, w |-> b.w]
    BY DEF GoodBuffer, IsBuffer
  <2> HIDE DEF f, g
  <2>4. f = [cells |-> g, size |-> b.size, r |-> b.r, w |-> b.w]
    BY <2>2, <2>3
  <2> QED
    BY <2>4 DEF g
<1>3. f.cells \in [0 .. b.size - 1 -> Nat]
  <2>1. \A i \in 0 .. b.size - 1 :
          i >= b.w /\ i < b.w + n => data[i - b.w + 1] \in Nat
    BY <1>1
  <2>2. \A i \in 0 .. b.size - 1 : b.cells[i] \in Nat
    BY <1>1
  <2> QED
    BY <1>2, <2>1, <2>2
<1> HIDE DEF f
<1>4. /\ c = [cells |-> c.cells, size |-> c.size, r |-> c.r, w |-> c.w]
      /\ c.size = b.size /\ c.r = b.r /\ c.w = b.w + n /\ c.cells = f.cells
  BY <1>2
<1> HIDE DEF c
<1>5. GoodBuffer(f) /\ GoodBuffer(c) /\ ReadAble(f) = ReadAble(b)
        /\ ReadAble(c) = ReadAble(b) + n
  BY <1>1, <1>2, <1>3, <1>4 DEF GoodBuffer, IsBuffer, ReadAble
<1>6. \A i \in 1 .. ReadAble(b) : f.cells[b.r + i - 1] = b.cells[b.r + i - 1]
  <2> SUFFICES ASSUME NEW i \in 1 .. ReadAble(b)
               PROVE  f.cells[b.r + i - 1] = b.cells[b.r + i - 1]
    OBVIOUS
  <2>1. b.r + i - 1 \in 0 .. b.size - 1 /\ b.r + i - 1 < b.w
    BY <1>1
  <2> QED
    BY <1>1, <1>2, <2>1
<1>7. Readable(f) = Readable(b)
  BY <1>2, <1>5, <1>6 DEF Readable
<1>8. Readable(c) = Extended(b, n, data)
  <2>1. ASSUME NEW i \in 1 .. ReadAble(b) + n
        PROVE  c.cells[c.r + i - 1] =
                 IF i <= ReadAble(b) THEN Readable(b)[i] ELSE data[i - ReadAble(b)]
    <3> DEFINE j == b.r + i - 1
    <3>1. j \in 0 .. b.size - 1 /\ c.cells[c.r + i - 1] = f.cells[j]
      BY <1>1, <1>4, SMTT(40)
    <3>2. CASE i <= ReadAble(b)
      BY <1>1, <1>6, <3>1, <3>2 DEF Readable
    <3>3. CASE ~(i <= ReadAble(b))
      <4>1. /\ j >= b.w /\ j < b.w + n
            /\ j - b.w + 1 = i - ReadAble(b)
        BY <1>1, <3>3, SMTT(40)
      <4> QED
        BY <1>2, <3>1, <3>3, <4>1
    <3> QED
      BY <3>2, <3>3
  <2> QED
    BY <1>5, <2>1 DEF Readable, Extended
<1> QED
  BY <1>2, <1>5, <1>7, <1>8 DEF c, f

\* writeToBuffer puts the data after what can be read.  When the vector has to
\* grow, it grows to one and a half times what is then in use.
LEMMA WriteGood ==
  ASSUME NEW b, GoodBuffer(b), NEW n \in Nat, NEW data \in [1 .. n -> Nat],
         Len(data) = n
  PROVE  /\ GoodBuffer(WriteToBuffer(b, data))
         /\ Readable(WriteToBuffer(b, data)) = Extended(b, n, data)
         /\ \/ /\ WriteToBuffer(b, data).size = b.size
               /\ WriteToBuffer(b, data).r = b.r
            \/ /\ b.size < b.w + n
               /\ WriteToBuffer(b, data).size = (3 * (b.w + n)) \div 2
               /\ WriteToBuffer(b, data).r = 0
<1> DEFINE newSize == (3 * (b.w + n)) \div 2
           roomy == IF n > WriteAble(b) THEN ResizeBuffer(b, newSize) ELSE b
<1>1. /\ GoodBuffer(roomy)
      /\ ReadAble(roomy) = ReadAble(b)
      /\ Readable(roomy) = Readable(b)
      /\ n <= WriteAble(roomy)
      /\ \/ roomy.size = b.size /\ roomy.r = b.r
         \/ b.size < b.w + n /\ roomy.size = newSize /\ roomy.r = 0
  <2>1. CASE n > WriteAble(b)
    <3>1. /\ newSize \in Nat /\ ReadAble(b) + n <= newSize
          /\ ReadAble(b) \in Nat /\ b.size < b.w + n
      BY <2>1, SMTT(40) DEF GoodBuffer, IsBuffer, ReadAble, WriteAble
    <3>2. ReadAble(b) <= newSize
      BY <3>1
    <3>3. roomy = Relocate(b, newSize)
      BY <2>1 DEF ResizeBuffer
    <3>4. /\ GoodBuffer(roomy) /\ roomy.size = newSize /\ roomy.r = 0
          /\ roomy.w = ReadAble(b) /\ Readable(roomy) = Readable(b)
      BY <3>1, <3>2, <3>3, RelocateGood
    <3> HIDE DEF roomy, newSize
    <3> QED
      BY <3>1, <3>4 DEF ReadAble, WriteAble
  <2>2. CASE ~(n > WriteAble(b))
    BY <2>2 DEF GoodBuffer, IsBuffer, WriteAble
  <2> QED
    BY <2>1, <2>2
<1>2. WriteToBuffer(b, data) = [Fill(roomy, data) EXCEPT !.w = @ + n]
  BY DEF WriteToBuffer
<1> HIDE DEF roomy
<1>3. Extended(roomy, n, data) = Extended(b, n, data)
  BY <1>1 DEF Extended
<1>4. /\ GoodBuffer(WriteToBuffer(b, data))
      /\ Readable(WriteToBuffer(b, data)) = Extended(b, n, data)
      /\ Fill(roomy, data).size = roomy.size /\ Fill(roomy, data).r = roomy.r
  BY <1>1, <1>2, <1>3, FillGood
<1>5. /\ WriteToBuffer(b, data).size = Fill(roomy, data).size
      /\ WriteToBuffer(b, data).r = Fill(roomy, data).r
  BY <1>2
<1> QED
  BY <1>1, <1>4, <1>5

\* readFromBuffer takes bytes from the front, and only those.
Shortened(b, n) == [i \in 1 .. ReadAble(b) - n |-> Readable(b)[n + i]]

LEMMA TakeGood ==
  ASSUME NEW b, GoodBuffer(b), NEW n \in Nat, n <= ReadAble(b)
  PROVE  LET a == AdjustBuffer([b EXCEPT !.r = @ + n])
         IN  /\ GoodBuffer(a)
             /\ a.size = b.size
             /\ a.r = 0 \/ a.r < b.size \div 3
             /\ ReadAble(a) = ReadAble(b) - n
             /\ Readable(a) = Shortened(b, n)
<1> DEFINE d == [b EXCEPT !.r = @ + n]
<1>1. /\ d = [cells |-> b.cells, size |-> b.size, r |-> b.r + n, w |-> b.w]
      /\ d.cells = b.cells /\ d.size = b.size /\ d.r = b.r + n /\ d.w = b.w
  <2>1. b = [cells |-> b.cells, size |-> b.size, r |-> b.r, w |-> b.w]
    BY DEF GoodBuffer, IsBuffer
  <2> QED
    BY <2>1
<1> HIDE DEF d
<1>2. /\ GoodBuffer(d) /\ ReadAble(d) = ReadAble(b) - n /\ ReadAble(d) \in Nat
      /\ ReadAble(b) \in Nat /\ b.r \in Nat
  BY <1>1 DEF GoodBuffer, IsBuffer, ReadAble
<1>3. Readable(d) = Shortened(b, n)
  <2>1. \A i \in 1 .. ReadAble(b) - n :
          d.cells[d.r + i - 1] = Readable(b)[n + i]
    <3> SUFFICES ASSUME NEW i \in 1 .. ReadAble(b) - n
                 PROVE  d.cells[d.r + i - 1] = Readable(b)[n + i]
      OBVIOUS
    <3>1. n + i \in 1 .. ReadAble(b) /\ d.r + i - 1 = b.r + (n + i) - 1
      BY <1>1, <1>2
    <3> QED
      BY <1>1, <3>1 DEF Readable
  <2> QED
    BY <1>2, <2>1 DEF Readable, Shortened
<1>4. /\ GoodBuffer(AdjustBuffer(d))
      /\ AdjustBuffer(d).size = b.size
      /\ AdjustBuffer(d).r = 0 \/ AdjustBuffer(d).r < b.size \div 3
      /\ ReadAble(AdjustBuffer(d)) = ReadAble(b) - n
      /\ Readable(AdjustBuffer(d)) = Shortened(b, n)
  BY <1>1, <1>2, <1>3, AdjustGood
<1> QED
  BY <1>4 DEF d

\* A new buffer is good and empty.
LEMMA NewGood ==
  ASSUME NEW size \in Nat
  PROVE  /\ GoodBuffer(NewBuffer(size))
         /\ NewBuffer(size).size = size /\ NewBuffer(size).r = 0
         /\ ReadAble(NewBuffer(size)) = 0
BY DEF NewBuffer, GoodBuffer, IsBuffer, ReadAble

-----------------------------------------------------------------------------
(* A coder's buffer.                                                        *)

\* The next bytes of the stream, as writeToBuffer is given them.
LEMMA StreamType ==
  ASSUME next \in Nat
  PROVE  \A n \in Nat : /\ Stream(n) \in [1 .. n -> Nat]
                        /\ Stream(n) \in Seq(Nat)
                        /\ Len(Stream(n)) = n
<1> SUFFICES ASSUME NEW n \in Nat
             PROVE  /\ Stream(n) \in [1 .. n -> Nat]
                    /\ Stream(n) \in Seq(Nat)
                    /\ Len(Stream(n)) = n
  OBVIOUS
<1>1. \A i \in 1 .. n : next + i - 1 \in Nat
  OBVIOUS
<1>2. Stream(n) \in [1 .. n -> Nat]
  BY <1>1 DEF Stream
<1>3. Stream(n) \in Seq(Nat)
  BY <1>2
<1> QED
  BY <1>2, <1>3, LenProperties DEF Stream

\* What follows what could be read, when the stream goes on, is the stream.
LEMMA ExtendedIsConcat ==
  ASSUME GoodBuffer(buffer), next \in Nat, NEW n \in Nat
  PROVE  Extended(buffer, n, Stream(n)) = Readable(buffer) \o Stream(n)
<1>1. ReadAble(buffer) \in Nat
  BY DEF GoodBuffer, IsBuffer, ReadAble
<1>2. Readable(buffer) \in Seq(Nat) /\ Len(Readable(buffer)) = ReadAble(buffer)
  <2>1. \A i \in 1 .. ReadAble(buffer) : buffer.cells[buffer.r + i - 1] \in Nat
    BY DEF GoodBuffer, IsBuffer, ReadAble
  <2>2. Readable(buffer) \in [1 .. ReadAble(buffer) -> Nat]
    BY <2>1 DEF Readable
  <2>3. Readable(buffer) \in Seq(Nat)
    BY <1>1, <2>2
  <2> QED
    BY <1>1, <2>3, LenProperties DEF Readable
<1>3. Stream(n) \in Seq(Nat) /\ Len(Stream(n)) = n
  BY StreamType
<1>4. \A s, t \in Seq(Nat) :
        s \o t = [i \in 1 .. Len(s) + Len(t) |->
                   IF i <= Len(s) THEN s[i] ELSE t[i - Len(s)]]
  <2> SUFFICES ASSUME NEW s \in Seq(Nat), NEW t \in Seq(Nat)
               PROVE  s \o t = [i \in 1 .. Len(s) + Len(t) |->
                                  IF i <= Len(s) THEN s[i] ELSE t[i - Len(s)]]
    OBVIOUS
  <2>1. /\ s \o t \in Seq(Nat)
        /\ Len(s \o t) = Len(s) + Len(t)
        /\ \A i \in 1 .. Len(s) + Len(t) : (s \o t)[i] =
              IF i <= Len(s) THEN s[i] ELSE t[i - Len(s)]
    BY ConcatProperties
  <2>2. s \o t \in [1 .. Len(s) + Len(t) -> Nat]
    BY <2>1, LenProperties
  <2> QED
    BY <2>1, <2>2
<1>5. Readable(buffer) \o Stream(n) =
        [i \in 1 .. Len(Readable(buffer)) + Len(Stream(n)) |->
           IF i <= Len(Readable(buffer)) THEN Readable(buffer)[i]
           ELSE Stream(n)[i - Len(Readable(buffer))]]
  BY <1>2, <1>3, <1>4
<1> QED
  BY <1>2, <1>3, <1>5 DEF Extended

\* Less than a third of the vector lies before the read index: this is what
\* keeps the buffer from growing again and again, and what MemoryBounded needs.
Reclaimed == buffer.r = 0 \/ buffer.r < buffer.size \div 3

CoderInv == /\ GoodBuffer(buffer)
            /\ next \in Nat \ {0}
            /\ Reclaimed
            /\ MemoryBounded

\* writeToBuffer keeps all of it.
LEMMA WriteInv ==
  ASSUME CoderInv, NEW n \in 1 .. MaxPut, Write(n)
  PROVE  CoderInv'
<1>1. /\ GoodBuffer(buffer')
      /\ \/ buffer'.size = buffer.size /\ buffer'.r = buffer.r
         \/ /\ buffer.size < buffer.w + n
            /\ buffer'.size = (3 * (buffer.w + n)) \div 2
            /\ buffer'.r = 0
  <2>1. Stream(n) \in [1 .. n -> Nat] /\ Len(Stream(n)) = n /\ n \in Nat
    <3>1. next \in Nat /\ n \in Nat
      BY SizesAssumption DEF CoderInv
    <3> QED
      BY <3>1, StreamType
  <2>2. GoodBuffer(buffer) /\ buffer' = WriteToBuffer(buffer, Stream(n))
    BY DEF Write, CoderInv
  <2> DEFINE data == Stream(n)
  <2> HIDE DEF data
  <2> QED
    BY <2>1, <2>2, WriteGood DEF data
<1>2. next' \in Nat \ {0}
  BY DEF Write, CoderInv
<1>3. Reclaimed'
  BY <1>1 DEF Reclaimed, CoderInv
<1>4. MemoryBounded'
  <2>1. CASE buffer'.size = buffer.size
    BY <2>1 DEF MemoryBounded, CoderInv
  <2>2. CASE /\ buffer.size < buffer.w + n
             /\ buffer'.size = (3 * (buffer.w + n)) \div 2
    <3>1. /\ buffer.r \in Nat /\ buffer.w \in Nat /\ buffer.size \in Nat
          /\ buffer.w - buffer.r + n <= MaxQueued
          /\ 3 * buffer.r <= buffer.size
      BY DEF CoderInv, GoodBuffer, IsBuffer, Reclaimed, Write, ReadAble
    <3>2. 2 * (buffer.w + n) <= 3 * MaxQueued
      BY <2>2, <3>1, SizesAssumption
    <3>3. 4 * buffer'.size <= 9 * MaxQueued
      BY <2>2, <3>1, <3>2, SizesAssumption
    <3>4. buffer'.size \in Nat
      BY <2>2, <3>1
    <3>5. buffer'.size <= (9 * MaxQueued) \div 4
      BY <3>3, <3>4, SizesAssumption
    <3> QED
      BY <3>4, <3>5, SizesAssumption DEF MemoryBounded, Largest
  <2> QED
    BY <1>1, <2>1, <2>2
<1> QED
  BY <1>1, <1>2, <1>3, <1>4 DEF CoderInv

\* So does readFromBuffer.
LEMMA ReadInv ==
  ASSUME CoderInv, NEW n \in 1 .. MaxPut, Read(n)
  PROVE  /\ CoderInv'
         /\ \/ UNCHANGED trafficVars
            \/ \E k \in 1 .. ReadAble(buffer) :
                 Readable(buffer)' = Shortened(buffer, k) /\ UNCHANGED next
<1>1. CASE ReadAble(buffer) = 0
  BY <1>1
  DEF Read, ReadFromBuffer, CoderInv, Reclaimed, MemoryBounded, trafficVars
<1>2. CASE ReadAble(buffer) # 0
  <2> DEFINE k == IF ReadAble(buffer) > n THEN n ELSE ReadAble(buffer)
  <2>1. ReadAble(buffer) \in Nat /\ n \in Nat \ {0}
    BY SizesAssumption DEF CoderInv, GoodBuffer, IsBuffer, ReadAble
  <2>2. k \in 1 .. ReadAble(buffer)
    BY <1>2, <2>1
  <2>3. buffer' = AdjustBuffer([buffer EXCEPT !.r = @ + k])
    <3>1. buffer.r + ReadAble(buffer) = buffer.w
      BY DEF CoderInv, GoodBuffer, IsBuffer, ReadAble
    <3> QED
      BY <1>2, <3>1 DEF Read, ReadFromBuffer
  <2> HIDE DEF k
  <2>4. k \in Nat /\ k <= ReadAble(buffer)
    BY <2>1, <2>2
  <2>5. /\ GoodBuffer(buffer')
        /\ buffer'.size = buffer.size
        /\ buffer'.r = 0 \/ buffer'.r < buffer.size \div 3
        /\ Readable(buffer') = Shortened(buffer, k)
    BY <2>3, <2>4, TakeGood DEF CoderInv
  <2>6. UNCHANGED next
    BY DEF Read
  <2> QED
    BY <2>2, <2>5, <2>6 DEF CoderInv, Reclaimed, MemoryBounded
<1> QED
  BY <1>1, <1>2

\* CoderInv holds at first and every step of the coder keeps it.
LEMMA CoderInvInductive ==
  /\ TrafficInit => CoderInv
  /\ CoderInv /\ [CoderNext]_trafficVars => CoderInv'
<1>1. ASSUME TrafficInit PROVE CoderInv
  <2>1. GoodBuffer(buffer) /\ buffer.size = InitSize /\ buffer.r = 0
    BY <1>1, NewGood, SizesAssumption DEF TrafficInit
  <2>2. MemoryBounded
    BY <2>1, SizesAssumption DEF MemoryBounded, Largest
  <2> QED
    BY <1>1, <2>1, <2>2 DEF CoderInv, TrafficInit, Reclaimed
<1>2. ASSUME CoderInv, [CoderNext]_trafficVars PROVE CoderInv'
  <2>1. CASE UNCHANGED trafficVars
    BY <1>2, <2>1 DEF CoderInv, Reclaimed, MemoryBounded, trafficVars
  <2> QED
    BY <1>2, <2>1, WriteInv, ReadInv DEF CoderNext
<1> QED
  BY <1>1, <1>2

\* Whatever a coder writes and reads, the indexes of its buffer stay in order
\* and within the vector: no memcpy leaves it.
THEOREM CoderIndexes == CoderSpec => []TypeOK
<1>1. CoderInv => TypeOK
  BY DEF CoderInv, GoodBuffer, TypeOK
<1> QED
  BY <1>1, CoderInvInductive, PTL DEF CoderSpec

\* A coder that leaves at most MaxQueued bytes unread never makes the vector
\* larger than 9/4 of that (or than it was), however long the stream.
THEOREM CoderMemory == CoderSpec => []MemoryBounded
<1>1. CoderInv => MemoryBounded
  BY DEF CoderInv
<1> QED
  BY <1>1, CoderInvInductive, PTL DEF CoderSpec

\* The buffer between writeToBuffer and readFromBuffer is a byte stream: nothing
\* is lost, repeated or reordered by the growing and the moving.
THEOREM CoderLossless == CoderSpec => LosslessSpec
<1>1. TrafficInit => Lossless!Init
  <2>1. ASSUME TrafficInit PROVE Readable(buffer) = <<>>
    <3>1. ReadAble(buffer) = 0
      BY <2>1, NewGood, SizesAssumption DEF TrafficInit
    <3> QED
      BY <3>1 DEF Readable
  <2> QED
    BY <2>1 DEF TrafficInit, Lossless!Init
<1>2. CoderInv /\ [CoderNext]_trafficVars
      => [Lossless!Next]_<<Readable(buffer), next>>
  <2> SUFFICES ASSUME CoderInv, CoderNext
               PROVE  Lossless!Next \/ UNCHANGED <<Readable(buffer), next>>
    BY DEF trafficVars, Readable, ReadAble
  <2>1. ASSUME NEW n \in 1 .. MaxPut, Write(n)
        PROVE  Lossless!Put(n)
    <3>1. Readable(buffer)' = Extended(buffer, n, Stream(n)) /\ next' = next + n
      <4>1. Stream(n) \in [1 .. n -> Nat] /\ Len(Stream(n)) = n /\ n \in Nat
        <5>1. next \in Nat /\ n \in Nat
          BY SizesAssumption DEF CoderInv
        <5> QED
          BY <5>1, StreamType
      <4>2. GoodBuffer(buffer) /\ buffer' = WriteToBuffer(buffer, Stream(n))
        BY <2>1 DEF Write, CoderInv
      <4> DEFINE data == Stream(n)
      <4> HIDE DEF data
      <4>3. Readable(buffer') = Extended(buffer, n, data)
        BY <4>1, <4>2, WriteGood DEF data
      <4> QED
        BY <2>1, <4>3 DEF Write, data
    <3>2. Extended(buffer, n, Stream(n)) = Readable(buffer) \o Stream(n)
      BY ExtendedIsConcat, SizesAssumption DEF CoderInv
    <3>3. Stream(n) = Lossless!Bytes(next, n)
      BY DEF Stream, Lossless!Bytes
    <3> QED
      BY <3>1, <3>2, <3>3 DEF Lossless!Put
  <2>2. ASSUME NEW k \in 1 .. ReadAble(buffer),
               Readable(buffer)' = Shortened(buffer, k), UNCHANGED next
        PROVE  Lossless!Next
    <3>1. ReadAble(buffer) \in Nat
      BY DEF CoderInv, GoodBuffer, IsBuffer, ReadAble
    <3>2. Len(Readable(buffer)) = ReadAble(buffer)
      BY <3>1 DEF Readable
    <3> QED
      BY <2>2, <3>2 DEF Lossless!Next, Lossless!Take, Shortened
  <2> QED
    BY <2>1, <2>2, ReadInv DEF CoderNext, Lossless!Next, trafficVars, Readable, ReadAble
<1> QED
  BY <1>1, <1>2, CoderInvInductive, PTL
  DEF CoderSpec, Lossless!Spec, LosslessSpec

-----------------------------------------------------------------------------
(* A connection's input buffer.                                             *)

\* moveWriteIndex never lets the buffer be full: the branch of onRead that
\* expands it is never taken.
SocketInv == /\ GoodBuffer(buffer)
             /\ next \in Nat \ {0}
             /\ buffer.w < buffer.size

\* A read from the socket is kept as a whole or dropped as a whole.
LEMMA ReceiveInv ==
  ASSUME SocketInv, NEW n \in 1 .. MaxPut, ReceiveBytes(n)
  PROVE  /\ SocketInv'
         /\ next' = next + n
         /\ \/ Readable(buffer)' = Readable(buffer)
            \/ Readable(buffer)' = Readable(buffer) \o Stream(n)
<1>1. /\ n \in Nat /\ next \in Nat /\ GoodBuffer(buffer)
      /\ buffer.w \in Nat /\ buffer.r \in Nat /\ buffer.size \in Nat
  BY SizesAssumption DEF SocketInv, GoodBuffer, IsBuffer
<1>2. WriteAble(buffer) # 0
  BY <1>1 DEF WriteAble, SocketInv
<1>3. /\ n <= WriteAble(buffer)
      /\ buffer' = MoveWriteIndex(Fill(buffer, Stream(n)), n)
      /\ next' = next + n
  BY <1>2 DEF ReceiveBytes
<1> DEFINE f == Fill(buffer, Stream(n))
           c == [f EXCEPT !.w = @ + n]
<1>4. /\ GoodBuffer(f) /\ GoodBuffer(c)
      /\ f.size = buffer.size /\ f.w = buffer.w
      /\ Readable(f) = Readable(buffer)
      /\ Readable(c) = Readable(buffer) \o Stream(n)
  <2>1. Stream(n) \in [1 .. n -> Nat] /\ Len(Stream(n)) = n
    BY <1>1, StreamType
  <2>2. Extended(buffer, n, Stream(n)) = Readable(buffer) \o Stream(n)
    BY <1>1, ExtendedIsConcat
  <2> DEFINE data == Stream(n)
  <2> HIDE DEF data
  <2>3. /\ GoodBuffer(Fill(buffer, data))
        /\ Fill(buffer, data).size = buffer.size
        /\ Fill(buffer, data).w = buffer.w
        /\ Readable(Fill(buffer, data)) = Readable(buffer)
        /\ GoodBuffer([Fill(buffer, data) EXCEPT !.w = @ + n])
        /\ Readable([Fill(buffer, data) EXCEPT !.w = @ + n]) = Extended(buffer, n, data)
    BY <1>1, <1>3, <2>1, FillGood DEF data
  <2> QED
    BY <2>2, <2>3 DEF data
<1>5. c.size = f.size /\ c.w = f.w + n
  BY <1>4 DEF GoodBuffer, IsBuffer
<1> HIDE DEF f, c
<1>6. CASE f.w + n >= f.size
  <2>1. buffer' = f
    BY <1>3, <1>6 DEF MoveWriteIndex, f
  <2> QED
    BY <1>1, <1>3, <1>4, <2>1 DEF SocketInv
<1>7. CASE ~(f.w + n >= f.size)
  <2>1. buffer' = AdjustBuffer(c)
    BY <1>3, <1>7 DEF MoveWriteIndex, f, c
  <2>2. /\ GoodBuffer(buffer') /\ buffer'.size = c.size
        /\ ReadAble(buffer') = ReadAble(c) /\ Readable(buffer') = Readable(c)
    BY <1>4, <2>1, AdjustGood
  <2>3. buffer'.w < buffer'.size
    <3>1. buffer' = c \/ buffer'.w = ReadAble(c)
      BY <1>4, <2>1 DEF AdjustBuffer, Relocate, GoodBuffer, IsBuffer, ReadAble
    <3> QED
      BY <1>1, <1>4, <1>5, <1>7, <2>2, <3>1 DEF GoodBuffer, IsBuffer, ReadAble
  <2> QED
    BY <1>1, <1>3, <1>4, <2>2, <2>3 DEF SocketInv
<1> QED
  BY <1>6, <1>7

\* The decoder takes a packet off the front; moveReadIndex never refuses.
LEMMA ConsumeInv ==
  ASSUME SocketInv, NEW n \in 1 .. MaxPut, Consume(n)
  PROVE  /\ SocketInv'
         /\ Readable(buffer)' = Shortened(buffer, n)
         /\ n <= ReadAble(buffer)
         /\ UNCHANGED next
<1>1. /\ n \in Nat /\ GoodBuffer(buffer) /\ n <= ReadAble(buffer)
      /\ UNCHANGED next
      /\ buffer.w \in Nat /\ buffer.r \in Nat /\ buffer.size \in Nat
  BY SizesAssumption DEF SocketInv, GoodBuffer, IsBuffer, Consume
<1>2. buffer' = AdjustBuffer([buffer EXCEPT !.r = @ + n])
  BY <1>1 DEF Consume, MoveReadIndex, SocketInv, ReadAble
<1>3. /\ GoodBuffer(buffer') /\ buffer'.size = buffer.size
      /\ Readable(buffer') = Shortened(buffer, n)
      /\ ReadAble(buffer') = ReadAble(buffer) - n
      /\ buffer'.r = 0 \/ buffer'.r < buffer.size \div 3
  BY <1>1, <1>2, TakeGood
<1>4. buffer'.w < buffer'.size
  <2> DEFINE d == [buffer EXCEPT !.r = @ + n]
  <2>1. /\ d.w = buffer.w /\ d.size = buffer.size /\ d.r = buffer.r + n
    BY <1>1 DEF GoodBuffer, IsBuffer
  <2> HIDE DEF d
  <2>2. buffer' = AdjustBuffer(d)
    BY <1>2 DEF d
  <2>3. ReadAble(d) <= d.size
    BY <1>1, <2>1 DEF SocketInv, ReadAble
  <2>4. buffer' = d \/ buffer'.w = ReadAble(d)
    BY <2>2, <2>3, <1>1, <2>1 DEF AdjustBuffer, Relocate, ReadAble
  <2> QED
    BY <1>1, <1>3, <2>1, <2>4 DEF SocketInv, ReadAble
<1> QED
  BY <1>1, <1>3, <1>4 DEF SocketInv

\* SocketInv holds at first and every step of the connection keeps it.
LEMMA SocketInvInductive ==
  /\ TrafficInit => SocketInv
  /\ SocketInv /\ [SocketNext]_trafficVars => SocketInv'
<1>1. ASSUME TrafficInit PROVE SocketInv
  <2>1. GoodBuffer(buffer) /\ buffer.size = InitSize /\ buffer.w = 0
    BY <1>1, NewGood, SizesAssumption DEF TrafficInit, NewBuffer
  <2> QED
    BY <1>1, <2>1, SizesAssumption DEF SocketInv, TrafficInit
<1>2. ASSUME SocketInv, UNCHANGED trafficVars PROVE SocketInv'
  BY <1>2 DEF SocketInv, trafficVars
<1> QED
  BY <1>1, <1>2, ReceiveInv, ConsumeInv DEF SocketNext

\* Whatever arrives and is decoded, the indexes of an input buffer stay in order
\* and within the vector.
THEOREM SocketIndexes == SocketSpec => []TypeOK
<1>1. SocketInv => TypeOK
  BY DEF SocketInv, GoodBuffer, TypeOK
<1> QED
  BY <1>1, SocketInvInductive, PTL DEF SocketSpec

\* The input buffer is a byte stream but for whole reads that are dropped: no
\* byte reaches the decoder twice or in the wrong place.
THEOREM SocketLossy == SocketSpec => LossySpec
<1>1. TrafficInit => Lossy!Init
  <2>1. ASSUME TrafficInit PROVE Readable(buffer) = <<>>
    <3>1. ReadAble(buffer) = 0
      BY <2>1, NewGood, SizesAssumption DEF TrafficInit
    <3> QED
      BY <3>1 DEF Readable
  <2> QED
    BY <2>1 DEF TrafficInit, Lossy!Init
<1>2. SocketInv /\ [SocketNext]_trafficVars => [Lossy!Next]_<<Readable(buffer), next>>
  <2> SUFFICES ASSUME SocketInv, SocketNext PROVE Lossy!Next
    BY DEF trafficVars, Readable, ReadAble
  <2>1. ASSUME NEW n \in 1 .. MaxPut, ReceiveBytes(n)
        PROVE  Lossy!Put(n) \/ Lossy!Drop(n)
    <3>1. Stream(n) = Lossy!Bytes(next, n)
      BY DEF Stream, Lossy!Bytes
    <3> QED
      BY <2>1, <3>1, ReceiveInv DEF Lossy!Put, Lossy!Drop
  <2>2. ASSUME NEW n \in 1 .. MaxPut, Consume(n)
        PROVE  Lossy!Next
    <3>1. ReadAble(buffer) \in Nat /\ n \in 1 .. ReadAble(buffer)
      BY <2>2, ConsumeInv, SizesAssumption
      DEF SocketInv, GoodBuffer, IsBuffer, ReadAble
    <3>2. Len(Readable(buffer)) = ReadAble(buffer)
      BY <3>1 DEF Readable
    <3> QED
      BY <2>2, <3>1, <3>2, ConsumeInv DEF Lossy!Next, Lossy!Take, Shortened
  <2> QED
    BY <2>1, <2>2 DEF SocketNext, Lossy!Next
<1> QED
  BY <1>1, <1>2, SocketInvInductive, PTL DEF SocketSpec, Lossy!Spec, LossySpec

-----------------------------------------------------------------------------
(* Integers in network byte order.                                          *)

Bytes == 0 .. Base - 1

\* The values of the bytes.
LEMMA PowerIs ==
  /\ Power \in [0 .. IntSize -> Nat \ {0}]
  /\ Power[0] = 1
  /\ \A k \in 1 .. IntSize : Power[k] = Base * Power[k - 1]
<1> USE IntegersAssumption
<1> DEFINE D == Nat \ {0}
           step == [p \in (1 .. IntSize) \X D |-> Base * p[2]]
           Is(f) == f = [k \in 0 .. IntSize |-> IF k = 0 THEN 1 ELSE Base * f[k - 1]]
<1>1. step \in [(1 .. IntSize) \X D -> D]
  <2>1. \A p \in (1 .. IntSize) \X D : Base * p[2] \in D
    OBVIOUS
  <2> QED
    BY <2>1
<1>2. PICK f \in [0 .. IntSize -> D] : Recurs(f, IntSize, 1, step)
  <2>1. IntSize \in Nat /\ 1 \in D
    OBVIOUS
  <2> HIDE DEF D, step
  <2> QED
    BY <1>1, <2>1, RecursionExists
<1>3. Is(f)
  <2>1. \A k \in 1 .. IntSize : step[<<k, f[k - 1]>>] = Base * f[k - 1]
    <3> SUFFICES ASSUME NEW k \in 1 .. IntSize PROVE step[<<k, f[k - 1]>>] = Base * f[k - 1]
      OBVIOUS
    <3>1. k - 1 \in 0 .. IntSize
      OBVIOUS
    <3>2. <<k, f[k - 1]>> \in (1 .. IntSize) \X D /\ <<k, f[k - 1]>>[2] = f[k - 1]
      BY <3>1
    <3> QED
      BY <3>2
  <2>2. \A k \in 1 .. IntSize : f[k] = Base * f[k - 1]
    BY <1>2, <2>1 DEF Recurs
  <2>3. f = [k \in 0 .. IntSize |-> f[k]]
    OBVIOUS
  <2>4. \A k \in 0 .. IntSize : f[k] = IF k = 0 THEN 1 ELSE Base * f[k - 1]
    BY <1>2, <2>2 DEF Recurs
  <2> QED
    BY <2>3, <2>4
<1>4. Power = CHOOSE g : Is(g)
  BY DEF Power
<1>5. Is(Power)
  <2> HIDE DEF Is
  <2> QED
    BY <1>3, <1>4
<1> DEFINE P == {k \in Nat : k <= IntSize => Power[k] \in D}
<1>6. Power[0] = 1 /\ \A k \in 1 .. IntSize : Power[k] = Base * Power[k - 1]
  BY <1>5
<1>7. \A k \in 0 .. IntSize : k \in P
  <2>1. 0 \in P
    BY <1>6
  <2>2. ASSUME NEW k \in 0 .. IntSize - 1, k \in P PROVE k + 1 \in P
    <3>1. k + 1 \in 1 .. IntSize /\ (k + 1) - 1 = k /\ Power[k] \in D
      BY <2>2
    <3>2. Power[k + 1] = Base * Power[k]
      BY <1>6, <3>1
    <3> QED
      BY <3>1, <3>2
  <2> HIDE DEF P
  <2> QED
    BY <2>1, <2>2, UpTo
<1>8. Power \in [0 .. IntSize -> D]
  <2>1. \A k \in 0 .. IntSize : Power[k] \in D
    BY <1>7
  <2>2. DOMAIN Power = 0 .. IntSize /\ Power = [k \in 0 .. IntSize |-> Power[k]]
    BY <1>5
  <2> QED
    BY <2>1, <2>2
<1> QED
  BY <1>6, <1>8

\* One byte more or less.
LEMMA Divides ==
  ASSUME NEW n \in Int, NEW p \in Nat \ {0}, NEW q \in Nat \ {0}
  PROVE  /\ n \div p \in Int
         /\ (n \div p) * p <= n /\ n < (n \div p) * p + p
         /\ n = p * (n \div p) + (n % p)
         /\ n % p \in 0 .. p - 1
         /\ (n \div p) \div q = n \div (q * p)
<1>1. n \div p \in Int /\ n % p \in 0 .. p - 1
  OBVIOUS
<1>0. n = p * (n \div p) + (n % p)
  OBVIOUS
<1>2. (n \div p) * p <= n /\ n < (n \div p) * p + p
  BY <1>0, <1>1
<1>3. (n \div p) \div q = n \div (q * p)
  OBVIOUS
<1> QED
  BY <1>0, <1>1, <1>2, <1>3

\* Of products.
LEMMA Times ==
  ASSUME NEW a \in Int, NEW b \in Int, NEW c \in Int
  PROVE  /\ a * b \in Int
         /\ a \in Nat /\ b \in Nat => a * b \in Nat
         /\ c * (a - b) = c * a - c * b
         /\ c * (a * b) = a * (c * b)
         /\ (a + 1) * b = a * b + b
         /\ a >= 1 /\ b >= 0 => a * b >= b
         /\ a <= -1 /\ b >= 0 => a * b <= -b
<1>1. a * b \in Int /\ (a \in Nat /\ b \in Nat => a * b \in Nat)
  OBVIOUS
<1>2. c * (a - b) = c * a - c * b
  OBVIOUS
<1>3. c * (a * b) = a * (c * b)
  OBVIOUS
<1>4. (a + 1) * b = a * b + b
  OBVIOUS
<1>5. a >= 1 /\ b >= 0 => a * b >= b
  OBVIOUS
<1>6. a <= -1 /\ b >= 0 => a * b <= -b
  OBVIOUS
<1> QED
  BY <1>1, <1>2, <1>3, <1>4, <1>5, <1>6

\* One step of the sum of the bytes.
LEMMA Shifted ==
  ASSUME NEW base \in Int, NEW s \in Int, NEW r \in Int, NEW p \in Int, NEW byte \in Int
  PROVE  base * (s - r * p) + byte = (base * s + byte) - r * (base * p)
<1>1. r * p \in Int /\ base * s \in Int /\ r * (base * p) \in Int
  BY Times
<1>2. base * (s - r * p) = base * s - base * (r * p)
  BY <1>1, Times
<1>3. base * (r * p) = r * (base * p)
  BY Times
<1> DEFINE x == base * s
           y == r * (base * p)
<1>4. base * (s - r * p) = x - y /\ x \in Int /\ y \in Int
  BY <1>1, <1>2, <1>3
<1> HIDE DEF x, y
<1>5. base * (s - r * p) + byte = (x + byte) - y
  BY <1>4
<1> QED
  BY <1>5 DEF x, y

\* Nothing but the sign is left of a number that fits.
LEMMA SmallQuotient ==
  ASSUME NEW n \in Int, NEW p \in Nat \ {0}, -p <= n, n < p,
         NEW a \in Int, a * p <= n, n < a * p + p
  PROVE  a \in {-1, 0} /\ (a = 0 <=> n >= 0)
<1>1. ~ (a >= 1)
  BY Times
<1>2. ~ (a <= -2)
  <2>1. a <= -2 => (a + 1) * p <= -p
    BY Times
  <2> QED
    BY <2>1, Times
<1>3. a = -1 => n < 0
  OBVIOUS
<1>4. a = 0 => n >= 0
  OBVIOUS
<1> QED
  BY <1>1, <1>2, <1>3, <1>4

\* getInt32FromNetByte adds the bytes up, each counting Base times the next one.
Sums(g, bytes) ==
  g = [k \in 0 .. IntSize |-> IF k = 0 THEN 0 ELSE Base * g[k - 1] + bytes[k]]

LEMMA NtohlIs ==
  ASSUME NEW bytes \in [1 .. IntSize -> Nat]
  PROVE  \E g \in [0 .. IntSize -> Nat] :
           /\ g[0] = 0
           /\ \A k \in 1 .. IntSize : g[k] = Base * g[k - 1] + bytes[k]
           /\ Ntohl(bytes) = IF 2 * g[IntSize] < Power[IntSize]
                             THEN g[IntSize] ELSE g[IntSize] - Power[IntSize]
<1> USE IntegersAssumption
<1> DEFINE step == [p \in (1 .. IntSize) \X Nat |-> Base * p[2] + bytes[p[1]]]
           high == CHOOSE g : Sums(g, bytes)
<1>1. step \in [(1 .. IntSize) \X Nat -> Nat]
  <2>1. ASSUME NEW p \in (1 .. IntSize) \X Nat
        PROVE  Base * p[2] + bytes[p[1]] \in Nat
    <3>1. p[1] \in 1 .. IntSize /\ p[2] \in Nat
      OBVIOUS
    <3>2. bytes[p[1]] \in Nat /\ Base * p[2] \in Nat
      BY <3>1, Times
    <3> QED
      BY <3>2
  <2> QED
    BY <2>1
<1>2. PICK f \in [0 .. IntSize -> Nat] : Recurs(f, IntSize, 0, step)
  <2>1. IntSize \in Nat /\ 0 \in Nat
    OBVIOUS
  <2> HIDE DEF step
  <2> QED
    BY <1>1, <2>1, RecursionExists
<1>3. /\ f[0] = 0
      /\ \A k \in 1 .. IntSize : f[k] = Base * f[k - 1] + bytes[k]
  <2> SUFFICES ASSUME NEW k \in 1 .. IntSize
               PROVE  f[k] = Base * f[k - 1] + bytes[k]
    BY <1>2 DEF Recurs
  <2>1. /\ <<k, f[k - 1]>> \in (1 .. IntSize) \X Nat
        /\ <<k, f[k - 1]>>[1] = k /\ <<k, f[k - 1]>>[2] = f[k - 1]
    OBVIOUS
  <2> QED
    BY <1>2, <2>1 DEF Recurs
<1>4. Sums(f, bytes)
  <2>1. f = [k \in 0 .. IntSize |-> f[k]]
    OBVIOUS
  <2>2. \A k \in 0 .. IntSize : f[k] = IF k = 0 THEN 0 ELSE Base * f[k - 1] + bytes[k]
    BY <1>3
  <2> QED
    BY <2>1, <2>2 DEF Sums
<1>5. Sums(high, bytes)
  BY <1>4
<1>6. Ntohl(bytes) = IF 2 * high[IntSize] < Power[IntSize]
                     THEN high[IntSize] ELSE high[IntSize] - Power[IntSize]
  BY DEF Ntohl, Sums
<1> HIDE DEF high
<1>7. /\ high[0] = 0
      /\ \A k \in 1 .. IntSize : high[k] = Base * high[k - 1] + bytes[k]
  BY <1>5 DEF Sums
<1> DEFINE P == {k \in Nat : k <= IntSize => high[k] \in Nat}
<1>8. \A k \in 0 .. IntSize : k \in P
  <2>1. 0 \in P
    BY <1>7
  <2>2. ASSUME NEW k \in 0 .. IntSize - 1, k \in P PROVE k + 1 \in P
    <3>1. k + 1 \in 1 .. IntSize /\ (k + 1) - 1 = k /\ high[k] \in Nat
      BY <2>2
    <3>2. high[k + 1] = Base * high[k] + bytes[k + 1] /\ bytes[k + 1] \in Nat
      BY <1>7, <3>1
    <3>3. Base * high[k] \in Nat
      BY <3>1, Times
    <3> QED
      BY <3>2, <3>3
  <2> HIDE DEF P
  <2> QED
    BY <2>1, <2>2, UpTo
<1>9. high \in [0 .. IntSize -> Nat]
  <2>1. \A k \in 0 .. IntSize : high[k] \in Nat
    BY <1>8
  <2>2. high = [k \in 0 .. IntSize |-> high[k]]
    BY <1>5 DEF Sums
  <2> QED
    BY <2>1, <2>2
<1> QED
  BY <1>6, <1>7, <1>9

LEMMA NtohlInt ==
  ASSUME NEW bytes \in [1 .. IntSize -> Nat]
  PROVE  Ntohl(bytes) \in Int
<1>1. IntSize \in 0 .. IntSize
  BY IntegersAssumption
<1>2. Power[IntSize] \in Int
  BY <1>1, PowerIs
<1> QED
  BY <1>1, <1>2, NtohlIs

\* An integer is IntSize bytes.
LEMMA HtonlIs ==
  ASSUME NEW n \in Int
  PROVE  /\ Htonl(n) \in [1 .. IntSize -> Bytes]
         /\ Htonl(n) \in Seq(Bytes)
         /\ Len(Htonl(n)) = IntSize
         /\ DOMAIN Htonl(n) = 1 .. IntSize
         /\ \A k \in 1 .. IntSize : Htonl(n)[k] = (n \div Power[IntSize - k]) % Base
<1> USE IntegersAssumption
<1>1. ASSUME NEW k \in 1 .. IntSize
      PROVE  (n \div Power[IntSize - k]) % Base \in Bytes
  <2>1. Power[IntSize - k] \in Nat \ {0}
    BY PowerIs
  <2>2. n \div Power[IntSize - k] \in Int
    BY <2>1, Divides
  <2>3. Base \in Nat \ {0}
    OBVIOUS
  <2> QED
    BY <2>2, <2>3, Divides DEF Bytes
<1>2. Htonl(n) \in [1 .. IntSize -> Bytes]
  BY <1>1 DEF Htonl
<1>3. IntSize \in Nat
  OBVIOUS
<1>4. Htonl(n) \in Seq(Bytes)
  BY <1>2, <1>3
<1>5. Len(Htonl(n)) = IntSize
  BY <1>2, <1>3, <1>4, LenProperties
<1> QED
  BY <1>2, <1>4, <1>5 DEF Htonl

\* Two's complement: what the bytes sum up to is the number, or Power[IntSize]
\* more when it is negative, and so its bytes give it back.
LEMMA NtohlHtonl ==
  ASSUME NEW n \in Int, -Power[IntSize] <= 2 * n, 2 * n < Power[IntSize]
  PROVE  Ntohl(Htonl(n)) = n
<1> USE IntegersAssumption
<1> DEFINE m == IntSize
           bytes == Htonl(n)
           shifted == [k \in 0 .. m |-> n \div Power[m - k]]
<1>1. m \in Nat /\ m >= 1 /\ Base \in Nat \ {0}
      /\ Power[m] \in Nat \ {0} /\ Power[0] = 1
  BY PowerIs
<1>2. PICK g \in [0 .. m -> Nat] :
           /\ g[0] = 0
           /\ \A k \in 1 .. m : g[k] = Base * g[k - 1] + bytes[k]
           /\ Ntohl(bytes) = IF 2 * g[m] < Power[m] THEN g[m] ELSE g[m] - Power[m]
  <2>1. bytes \in [1 .. m -> Nat]
    <3>1. bytes \in [1 .. m -> Bytes]
      BY HtonlIs
    <3>2. Bytes \subseteq Nat
      BY DEF Bytes
    <3> HIDE DEF bytes
    <3> QED
      BY <3>1, <3>2
  <2> HIDE DEF bytes
  <2> QED
    BY <2>1, NtohlIs
<1>3. ASSUME NEW k \in 0 .. m - 1
      PROVE  /\ shifted[k] \in Int /\ shifted[k + 1] \in Int
             /\ shifted[k + 1] = Base * shifted[k] + bytes[k + 1]
  <2>1. /\ k + 1 \in 1 .. m /\ m - k \in 1 .. m /\ (m - k) - 1 = m - (k + 1)
        /\ m - (k + 1) \in 0 .. m
    BY <1>1
  <2>2. /\ Power[m - (k + 1)] \in Nat \ {0} /\ Power[m - k] \in Nat \ {0}
        /\ Power[m - k] = Base * Power[m - (k + 1)]
    <3>1. Power[m - k] = Base * Power[(m - k) - 1]
      BY <2>1, PowerIs
    <3>2. Power[m - (k + 1)] \in Nat \ {0} /\ Power[m - k] \in Nat \ {0}
      <4>1. m - (k + 1) \in 0 .. IntSize /\ m - k \in 0 .. IntSize
        BY <2>1
      <4> QED
        BY <4>1, PowerIs
    <3> QED
      BY <2>1, <3>1, <3>2
  <2>3. /\ shifted[k + 1] \in Int /\ shifted[k] \in Int
        /\ shifted[k + 1] \div Base = shifted[k]
    <3> HIDE DEF m
    <3>1. \A p \in Nat \ {0} : n \div p \in Int /\ (n \div p) \div Base = n \div (Base * p)
      BY <1>1, Divides
    <3>2. /\ shifted[k] = n \div Power[m - k]
          /\ shifted[k + 1] = n \div Power[m - (k + 1)]
      <4>1. k \in 0 .. m /\ k + 1 \in 0 .. m
        BY <1>1
      <4> HIDE DEF m
      <4> QED
        BY <4>1
    <3> HIDE DEF shifted
    <3> QED
      BY <2>2, <3>1, <3>2
  <2>4. bytes[k + 1] = shifted[k + 1] % Base
    BY <2>1, HtonlIs
  <2> HIDE DEF shifted, bytes
  <2>5. shifted[k + 1] = Base * (shifted[k + 1] \div Base) + (shifted[k + 1] % Base)
    BY <1>1, <2>3, Divides
  <2> QED
    BY <2>3, <2>4, <2>5
<1> DEFINE rest == shifted[0]
           P == {k \in Nat : k <= m => g[k] = shifted[k] - rest * Power[k]}
<1>4. rest \in Int /\ rest * Power[m] <= n /\ n < rest * Power[m] + Power[m]
  <2>1. rest = n \div Power[m]
    <3>1. 0 \in 0 .. m /\ m - 0 = m
      BY <1>1
    <3> QED
      BY <3>1
  <2>2. \A p \in Nat \ {0} :
          n \div p \in Int /\ (n \div p) * p <= n /\ n < (n \div p) * p + p
    BY Divides
  <2> HIDE DEF m, rest
  <2> QED
    BY <1>1, <2>1, <2>2
<1>5. rest \in {-1, 0} /\ (rest = 0 <=> n >= 0)
  <2>1. -Power[m] <= n /\ n < Power[m]
    BY <1>1
  <2> HIDE DEF rest, m
  <2> QED
    BY <1>1, <1>4, <2>1, SmallQuotient
<1>6. \A k \in 0 .. m : k \in P
  <2>1. 0 \in P
    BY <1>1, <1>2, <1>4
  <2>2. ASSUME NEW k \in 0 .. m - 1, k \in P PROVE k + 1 \in P
    <3>1. k + 1 \in 1 .. m /\ (k + 1) - 1 = k /\ k \in 0 .. m
      BY <1>1
    <3>2. Power[k + 1] = Base * Power[k] /\ Power[k] \in Nat
      BY <3>1, PowerIs
    <3>3. g[k] = shifted[k] - rest * Power[k]
      BY <2>2, <3>1
    <3>4. g[k + 1] = Base * g[k] + bytes[k + 1] /\ bytes[k + 1] \in Int
      <4>1. \A i \in 1 .. m : bytes[i] \in Int
        BY HtonlIs DEF Bytes
      <4> HIDE DEF bytes
      <4> QED
        BY <1>2, <3>1, <4>1
    <3>5. shifted[k + 1] = Base * shifted[k] + bytes[k + 1]
          /\ shifted[k] \in Int
      BY <1>3
    <3> HIDE DEF shifted, rest, bytes
    <3>6. g[k] \in Int /\ Base \in Int
      BY <1>1, <3>1
    <3>8. g[k + 1] = shifted[k + 1] - rest * Power[k + 1]
      <4>1. Base * g[k] + bytes[k + 1] =
              (Base * shifted[k] + bytes[k + 1]) - rest * (Base * Power[k])
        <5>1. /\ Base \in Int /\ rest \in Int /\ Power[k] \in Int /\ bytes[k + 1] \in Int
              /\ g[k] \in Int /\ shifted[k] \in Int
          BY <1>4, <3>2, <3>4, <3>5, <3>6
        <5>2. Base * (shifted[k] - rest * Power[k]) + bytes[k + 1]
                = (Base * shifted[k] + bytes[k + 1]) - rest * (Base * Power[k])
          <6> DEFINE b == Base
                     c == shifted[k]
                     r == rest
                     p == Power[k]
                     y == bytes[k + 1]
          <6>1. b \in Int /\ c \in Int /\ r \in Int /\ p \in Int /\ y \in Int
            BY <5>1
          <6> HIDE DEF b, c, r, p, y
          <6>2. b * (c - r * p) + y = (b * c + y) - r * (b * p)
            BY <6>1, Shifted
          <6> QED
            BY <6>2 DEF b, c, r, p, y
        <5> QED
          BY <3>3, <5>2, Zenon
      <4> QED
        BY <3>2, <3>4, <3>5, <4>1
    <3> QED
      BY <3>8
  <2> HIDE DEF P
  <2> QED
    BY <1>1, <2>1, <2>2, UpTo
<1>7. shifted[m] = n
  BY <1>1
<1>8. g[m] = n - rest * Power[m]
  <2>1. m \in P
    BY <1>1, <1>6
  <2> QED
    BY <1>1, <1>7, <2>1
<1> HIDE DEF rest, bytes, P, shifted
<1>9. CASE rest = 0
  BY <1>1, <1>2, <1>5, <1>8, <1>9 DEF bytes
<1>10. CASE rest = -1
  <2>1. g[m] = n + Power[m]
    BY <1>1, <1>8, <1>10
  <2> QED
    BY <1>1, <1>2, <2>1 DEF bytes
<1> QED
  BY <1>5, <1>9, <1>10

-----------------------------------------------------------------------------
(* A packet in a buffer.                                                    *)

\* The bytes of s lie in the vector from cell i on.
Holds(b, i, s) == \A k \in 1 .. Len(s) : b.cells[i + k - 1] = s[k]

LEMMA HoldsParts ==
  ASSUME NEW b, NEW i \in Nat, NEW s \in Seq(Bytes), NEW t \in Seq(Bytes),
         Holds(b, i, s \o t)
  PROVE  Holds(b, i, s) /\ Holds(b, i + Len(s), t)
<1>1. /\ Len(s \o t) = Len(s) + Len(t) /\ Len(s) \in Nat /\ Len(t) \in Nat
      /\ \A k \in 1 .. Len(s) : (s \o t)[k] = s[k]
      /\ \A k \in 1 .. Len(t) : (s \o t)[Len(s) + k] = t[k]
  BY ConcatElements
<1>2. ASSUME NEW k \in 1 .. Len(s) PROVE b.cells[i + k - 1] = s[k]
  BY <1>1 DEF Holds
<1>3. ASSUME NEW k \in 1 .. Len(t) PROVE b.cells[(i + Len(s)) + k - 1] = t[k]
  <2>1. /\ Len(s) + k \in 1 .. Len(s \o t)
        /\ (i + Len(s)) + k - 1 = i + (Len(s) + k) - 1
    BY <1>1
  <2>2. b.cells[i + (Len(s) + k) - 1] = (s \o t)[Len(s) + k]
    BY <2>1 DEF Holds
  <2> QED
    BY <1>1, <2>1, <2>2
<1> QED
  BY <1>2, <1>3 DEF Holds

\* They are what is copied from there.
LEMMA HoldsCells ==
  ASSUME NEW b, b.size \in Nat, NEW i \in Nat, NEW s \in Seq(Bytes), NEW oob,
         i + Len(s) <= b.size, Holds(b, i, s)
  PROVE  Cells(b, i, Len(s), oob) = s
<1>1. Len(s) \in Nat /\ s = [k \in 1 .. Len(s) |-> s[k]]
  OBVIOUS
<1>2. ASSUME NEW k \in 1 .. Len(s) PROVE Cell(b, i + k - 1, oob) = s[k]
  <2>1. i + k - 1 \in 0 .. b.size - 1
    BY <1>1
  <2> QED
    BY <2>1 DEF Cell, Holds
<1> QED
  BY <1>1, <1>2 DEF Cells

\* An integer that fits is read as it was written.
Fits(n) == n \in Int /\ -Power[IntSize] <= 2 * n /\ 2 * n < Power[IntSize]

LEMMA HoldsInt ==
  ASSUME NEW b, b.size \in Nat, NEW i \in Nat, NEW n, Fits(n), NEW oob,
         i + IntSize <= b.size, Holds(b, i, Htonl(n))
  PROVE  IntAt(b, i, oob) = n
<1>1. n \in Int /\ -Power[IntSize] <= 2 * n /\ 2 * n < Power[IntSize]
  BY DEF Fits
<1>2. Htonl(n) \in Seq(Bytes) /\ Len(Htonl(n)) = IntSize
  BY <1>1, HtonlIs
<1>3. Cells(b, i, IntSize, oob) = Htonl(n)
  <2>1. i + Len(Htonl(n)) <= b.size
    BY <1>2
  <2>2. Cells(b, i, Len(Htonl(n)), oob) = Htonl(n)
    BY <1>2, <2>1, HoldsCells
  <2> QED
    BY <1>2, <2>2
<1>4. Ntohl(Htonl(n)) = n
  BY <1>1, NtohlHtonl
<1> QED
  BY <1>3, <1>4 DEF IntAt

\* A string without zeros is read to its end.
LEMMA PlainString ==
  ASSUME NEW s \in Seq(1 .. Base - 1)
  PROVE  CString(s) = s
<1>1. ASSUME NEW k \in DOMAIN s PROVE s[k] # 0
  <2>1. k \in 1 .. Len(s)
    BY LenProperties
  <2>2. s[k] \in 1 .. Base - 1
    BY <2>1, ElementOfSeq
  <2> QED
    BY <2>2, IntegersAssumption
<1> QED
  BY <1>1 DEF CString

\* What is encoded: the message with its id.
LEMMA WithIdIs ==
  ASSUME NEW m, WellFormed(m)
  PROVE  LET w == WithId(m)
         IN  /\ w = [msg_id   |-> w.msg_id,   method_name |-> w.method_name,
                     err_code |-> w.err_code, err_info    |-> w.err_info,
                     pb_data  |-> w.pb_data]
             /\ w.msg_id \in Seq(1 .. Base - 1) /\ w.method_name \in Seq(1 .. Base - 1)
             /\ w.err_info \in Seq(1 .. Base - 1) /\ w.pb_data \in Seq(Bytes)
             /\ w.msg_id \in Seq(Bytes) /\ w.method_name \in Seq(Bytes)
             /\ w.err_info \in Seq(Bytes)
             /\ Fits(w.err_code) /\ PkLen(w) \in Nat /\ Fits(PkLen(w))
             /\ Fits(Len(w.msg_id)) /\ Fits(Len(w.method_name)) /\ Fits(Len(w.err_info))
             /\ Len(w.msg_id) \in Nat /\ Len(w.method_name) \in Nat
             /\ Len(w.err_info) \in Nat /\ Len(w.pb_data) \in Nat
<1> USE IntegersAssumption
<1> DEFINE w == WithId(m)
<1>1. DefaultId \in Seq(1 .. Base - 1)
  BY DEF DefaultId
<1>2. /\ m = [msg_id   |-> m.msg_id,   method_name |-> m.method_name,
              err_code |-> m.err_code, err_info    |-> m.err_info, pb_data |-> m.pb_data]
      /\ m.msg_id \in Seq(1 .. Base - 1) /\ m.method_name \in Seq(1 .. Base - 1)
      /\ m.err_info \in Seq(1 .. Base - 1) /\ m.pb_data \in Seq(Bytes)
      /\ Fits(m.err_code) /\ 2 * PkLen(w) < Power[IntSize]
  BY DEF WellFormed, Fits, Bytes
<1>3. /\ w = [msg_id   |-> w.msg_id,   method_name |-> w.method_name,
              err_code |-> w.err_code, err_info    |-> w.err_info, pb_data |-> w.pb_data]
      /\ w.msg_id \in Seq(1 .. Base - 1)
      /\ w.method_name = m.method_name /\ w.err_code = m.err_code
      /\ w.err_info = m.err_info /\ w.pb_data = m.pb_data
  <2>1. CASE m.msg_id = <<>>
    <3>1. w = [m EXCEPT !.msg_id = DefaultId]
      BY <2>1 DEF WithId
    <3>2. w = [msg_id   |-> DefaultId,  method_name |-> m.method_name,
               err_code |-> m.err_code, err_info    |-> m.err_info, pb_data |-> m.pb_data]
      BY <1>2, <3>1
    <3> HIDE DEF w
    <3> QED
      BY <1>1, <3>2
  <2>2. CASE m.msg_id # <<>>
    BY <1>2, <2>2 DEF WithId
  <2> QED
    BY <2>1, <2>2
<1> HIDE DEF w
<1>4. \A s \in Seq(1 .. Base - 1) : s \in Seq(Bytes) /\ Len(s) \in Nat
  BY DEF Bytes
<1>5. \A s \in Seq(Bytes) : Len(s) \in Nat
  OBVIOUS
<1>6. /\ Len(w.msg_id) \in Nat /\ Len(w.method_name) \in Nat
      /\ Len(w.err_info) \in Nat /\ Len(w.pb_data) \in Nat
  BY <1>2, <1>3, <1>4, <1>5
<1>7. Power[IntSize] \in Nat \ {0}
  <2>1. IntSize \in 0 .. IntSize
    OBVIOUS
  <2> QED
    BY <2>1, PowerIs
<1>8. /\ PkLen(w) \in Nat /\ Fits(PkLen(w))
      /\ Fits(Len(w.msg_id)) /\ Fits(Len(w.method_name)) /\ Fits(Len(w.err_info))
  <2>1. IntSize \in Nat /\ 6 * IntSize \in Nat
    OBVIOUS
  <2>2. PkLen(w) = 2 + 6 * IntSize + Len(w.msg_id) + Len(w.method_name)
                     + Len(w.err_info) + Len(w.pb_data)
    BY DEF PkLen
  <2>3. 2 * PkLen(w) < Power[IntSize]
    BY <1>2
  <2> DEFINE l == PkLen(w)
             l1 == Len(w.msg_id)
             l2 == Len(w.method_name)
             l3 == Len(w.err_info)
             l4 == Len(w.pb_data)
             head == 6 * IntSize
  <2> HIDE DEF l, l1, l2, l3, l4, head
  <2>6. /\ l1 \in Nat /\ l2 \in Nat /\ l3 \in Nat /\ l4 \in Nat /\ head \in Nat
        /\ l = 2 + head + l1 + l2 + l3 + l4
    BY <1>6, <2>1, <2>2 DEF l, l1, l2, l3, l4, head
  <2>7. l \in Nat /\ l1 <= l /\ l2 <= l /\ l3 <= l
    BY <2>6
  <2>4. PkLen(w) \in Nat /\ \A n \in Nat : n <= PkLen(w) => Fits(n)
    BY <1>7, <2>3, <2>7 DEF Fits, l
  <2>5. /\ Len(w.msg_id) <= PkLen(w) /\ Len(w.method_name) <= PkLen(w)
        /\ Len(w.err_info) <= PkLen(w)
    BY <2>7 DEF l, l1, l2, l3
  <2> QED
    BY <1>6, <2>4, <2>5
<1> QED
  BY <1>2, <1>3, <1>4, <1>6, <1>8 DEF w

\* A packet, part by part.
LEMMA EncodeIs ==
  ASSUME NEW m, WellFormed(m)
  PROVE  LET w == WithId(m)
             i == IntSize
         IN  /\ EncodeTinyPB(m) \in Seq(Bytes)
             /\ Len(EncodeTinyPB(m)) = PkLen(w)
             /\ \A b, at : at \in Nat /\ Holds(b, at, EncodeTinyPB(m)) =>
                  /\ Holds(b, at, <<PB_START>>)
                  /\ Holds(b, at + 1, Htonl(PkLen(w)))
                  /\ Holds(b, at + 1 + i, Htonl(Len(w.msg_id)))
                  /\ Holds(b, at + 1 + 2 * i, w.msg_id)
                  /\ Holds(b, at + 1 + 2 * i + Len(w.msg_id), Htonl(Len(w.method_name)))
                  /\ Holds(b, at + 1 + 3 * i + Len(w.msg_id), w.method_name)
                  /\ Holds(b, at + 1 + 3 * i + Len(w.msg_id) + Len(w.method_name), Htonl(w.err_code))
                  /\ Holds(b, at + 1 + 4 * i + Len(w.msg_id) + Len(w.method_name), Htonl(Len(w.err_info)))
                  /\ Holds(b, at + 1 + 5 * i + Len(w.msg_id) + Len(w.method_name), w.err_info)
                  /\ Holds(b, at + 1 + 5 * i + Len(w.msg_id) + Len(w.method_name) + Len(w.err_info), w.pb_data)
                  /\ Holds(b, at + 1 + 5 * i + Len(w.msg_id) + Len(w.method_name) + Len(w.err_info) + Len(w.pb_data), Htonl(1))
                  /\ Holds(b, at + 1 + 6 * i + Len(w.msg_id) + Len(w.method_name) + Len(w.err_info) + Len(w.pb_data), <<PB_END>>)
<1> USE IntegersAssumption
<1> DEFINE w == WithId(m)
           i == IntSize
           p1 == <<PB_START>>
           p2 == Htonl(PkLen(w))
           p3 == Htonl(Len(w.msg_id))
           p4 == w.msg_id
           p5 == Htonl(Len(w.method_name))
           p6 == w.method_name
           p7 == Htonl(w.err_code)
           p8 == Htonl(Len(w.err_info))
           p9 == w.err_info
           p10 == w.pb_data
           p11 == Htonl(1)
           p12 == <<PB_END>>
           e2 == p1 \o p2
           e3 == e2 \o p3
           e4 == e3 \o p4
           e5 == e4 \o p5
           e6 == e5 \o p6
           e7 == e6 \o p7
           e8 == e7 \o p8
           e9 == e8 \o p9
           e10 == e9 \o p10
           e11 == e10 \o p11
           e12 == e11 \o p12
<1>1. EncodeTinyPB(m) = e12
  BY DEF EncodeTinyPB
<1>2. /\ p4 \in Seq(Bytes) /\ p6 \in Seq(Bytes) /\ p9 \in Seq(Bytes) /\ p10 \in Seq(Bytes)
      /\ Len(p4) \in Nat /\ Len(p6) \in Nat /\ Len(p9) \in Nat /\ Len(p10) \in Nat
      /\ Fits(w.err_code) /\ PkLen(w) \in Nat
  BY WithIdIs
<1>3. /\ p1 \in Seq(Bytes) /\ Len(p1) = 1 /\ p12 \in Seq(Bytes) /\ Len(p12) = 1
  BY DEF PB_START, PB_END, Bytes
<1>4. ASSUME NEW n \in Int PROVE Htonl(n) \in Seq(Bytes) /\ Len(Htonl(n)) = i
  BY HtonlIs
<1>5. /\ p2 \in Seq(Bytes) /\ Len(p2) = i /\ p3 \in Seq(Bytes) /\ Len(p3) = i
      /\ p5 \in Seq(Bytes) /\ Len(p5) = i /\ p7 \in Seq(Bytes) /\ Len(p7) = i
      /\ p8 \in Seq(Bytes) /\ Len(p8) = i /\ p11 \in Seq(Bytes) /\ Len(p11) = i
  BY <1>2, <1>4 DEF Fits
<1>6. i \in Nat /\ PkLen(w) = 2 + 6 * i + Len(p4) + Len(p6) + Len(p9) + Len(p10)
  BY DEF PkLen
<1> HIDE DEF p1, p2, p3, p4, p5, p6, p7, p8, p9, p10, p11, p12, w, i
<1> HIDE DEF e2, e3, e4, e5, e6, e7, e8, e9, e10, e11, e12
<1>7. \A s, t \in Seq(Bytes) : s \o t \in Seq(Bytes) /\ Len(s \o t) = Len(s) + Len(t)
  BY ConcatElements
<1>8. /\ e2 = p1 \o p2 /\ e2 \in Seq(Bytes)
      /\ Len(e2) = 1 + i
  <2>1. p1 \in Seq(Bytes) /\ p2 \in Seq(Bytes)
    BY <1>5, <1>3
  <2>2. e2 = p1 \o p2
    BY DEF e2
  <2>3. e2 \in Seq(Bytes) /\ Len(e2) = Len(p1) + Len(p2)
    BY <1>7, <2>1, <2>2
  <2> QED
    BY <1>2, <1>3, <1>5, <1>6, <2>2, <2>3
<1>9. /\ e3 = e2 \o p3 /\ e3 \in Seq(Bytes)
      /\ Len(e3) = 1 + 2 * i
  <2>1. e2 \in Seq(Bytes) /\ p3 \in Seq(Bytes)
    BY <1>5, <1>8
  <2>2. e3 = e2 \o p3
    BY DEF e3
  <2>3. e3 \in Seq(Bytes) /\ Len(e3) = Len(e2) + Len(p3)
    BY <1>7, <2>1, <2>2
  <2> QED
    BY <1>2, <1>5, <1>6, <2>2, <2>3, <1>8
<1>10. /\ e4 = e3 \o p4 /\ e4 \in Seq(Bytes)
      /\ Len(e4) = 1 + 2 * i + Len(p4)
  <2>1. e3 \in Seq(Bytes) /\ p4 \in Seq(Bytes)
    BY <1>2, <1>9
  <2>2. e4 = e3 \o p4
    BY DEF e4
  <2>3. e4 \in Seq(Bytes) /\ Len(e4) = Len(e3) + Len(p4)
    BY <1>7, <2>1, <2>2
  <2> QED
    BY <1>2, <1>6, <2>2, <2>3, <1>9
<1>11. /\ e5 = e4 \o p5 /\ e5 \in Seq(Bytes)
      /\ Len(e5) = 1 + 3 * i + Len(p4)
  <2>1. e4 \in Seq(Bytes) /\ p5 \in Seq(Bytes)
    BY <1>5, <1>10
  <2>2. e5 = e4 \o p5
    BY DEF e5
  <2>3. e5 \in Seq(Bytes) /\ Len(e5) = Len(e4) + Len(p5)
    BY <1>7, <2>1, <2>2
  <2> QED
    BY <1>2, <1>5, <1>6, <2>2, <2>3, <1>10
<1>12. /\ e6 = e5 \o p6 /\ e6 \in Seq(Bytes)
      /\ Len(e6) = 1 + 3 * i + Len(p4) + Len(p6)
  <2>1. e5 \in Seq(Bytes) /\ p6 \in Seq(Bytes)
    BY <1>2, <1>11
  <2>2. e6 = e5 \o p6
    BY DEF e6
  <2>3. e6 \in Seq(Bytes) /\ Len(e6) = Len(e5) + Len(p6)
    BY <1>7, <2>1, <2>2
  <2> QED
    BY <1>2, <1>6, <2>2, <2>3, <1>11
<1>13. /\ e7 = e6 \o p7 /\ e7 \in Seq(Bytes)
      /\ Len(e7) = 1 + 4 * i + Len(p4) + Len(p6)
  <2>1. e6 \in Seq(Bytes) /\ p7 \in Seq(Bytes)
    BY <1>5, <1>12
  <2>2. e7 = e6 \o p7
    BY DEF e7
  <2>3. e7 \in Seq(Bytes) /\ Len(e7) = Len(e6) + Len(p7)
    BY <1>7, <2>1, <2>2
  <2> QED
    BY <1>2, <1>5, <1>6, <2>2, <2>3, <1>12
<1>14. /\ e8 = e7 \o p8 /\ e8 \in Seq(Bytes)
      /\ Len(e8) = 1 + 5 * i + Len(p4) + Len(p6)
  <2>1. e7 \in Seq(Bytes) /\ p8 \in Seq(Bytes)
    BY <1>5, <1>13
  <2>2. e8 = e7 \o p8
    BY DEF e8
  <2>3. e8 \in Seq(Bytes) /\ Len(e8) = Len(e7) + Len(p8)
    BY <1>7, <2>1, <2>2
  <2> QED
    BY <1>2, <1>5, <1>6, <2>2, <2>3, <1>13
<1>15. /\ e9 = e8 \o p9 /\ e9 \in Seq(Bytes)
      /\ Len(e9) = 1 + 5 * i + Len(p4) + Len(p6) + Len(p9)
  <2>1. e8 \in Seq(Bytes) /\ p9 \in Seq(Bytes)
    BY <1>2, <1>14
  <2>2. e9 = e8 \o p9
    BY DEF e9
  <2>3. e9 \in Seq(Bytes) /\ Len(e9) = Len(e8) + Len(p9)
    BY <1>7, <2>1, <2>2
  <2> QED
    BY <1>2, <1>6, <2>2, <2>3, <1>14
<1>16. /\ e10 = e9 \o p10 /\ e10 \in Seq(Bytes)
      /\ Len(e10) = 1 + 5 * i + Len(p4) + Len(p6) + Len(p9) + Len(p10)
  <2>1. e9 \in Seq(Bytes) /\ p10 \in Seq(Bytes)
    BY <1>2, <1>15
  <2>2. e10 = e9 \o p10
    BY DEF e10
  <2>3. e10 \in Seq(Bytes) /\ Len(e10) = Len(e9) + Len(p10)
    BY <1>7, <2>1, <2>2
  <2> QED
    BY <1>2, <1>6, <2>2, <2>3, <1>15
<1>17. /\ e11 = e10 \o p11 /\ e11 \in Seq(Bytes)
      /\ Len(e11) = 1 + 6 * i + Len(p4) + Len(p6) + Len(p9) + Len(p10)
  <2>1. e10 \in Seq(Bytes) /\ p11 \in Seq(Bytes)
    BY <1>5, <1>16
  <2>2. e11 = e10 \o p11
    BY DEF e11
  <2>3. e11 \in Seq(Bytes) /\ Len(e11) = Len(e10) + Len(p11)
    BY <1>7, <2>1, <2>2
  <2> QED
    BY <1>2, <1>5, <1>6, <2>2, <2>3, <1>16
<1>18. /\ e12 = e11 \o p12 /\ e12 \in Seq(Bytes)
      /\ Len(e12) = 2 + 6 * i + Len(p4) + Len(p6) + Len(p9) + Len(p10)
  <2>1. e11 \in Seq(Bytes) /\ p12 \in Seq(Bytes)
    BY <1>3, <1>17
  <2>2. e12 = e11 \o p12
    BY DEF e12
  <2>3. e12 \in Seq(Bytes) /\ Len(e12) = Len(e11) + Len(p12)
    BY <1>7, <2>1, <2>2
  <2> QED
    BY <1>2, <1>3, <1>6, <2>2, <2>3, <1>17
<1>19. ASSUME NEW b, NEW at \in Nat, Holds(b, at, e12)
      PROVE  /\ Holds(b, at, p1)
             /\ Holds(b, at + Len(p1), p2)
             /\ Holds(b, at + Len(e2), p3)
             /\ Holds(b, at + Len(e3), p4)
             /\ Holds(b, at + Len(e4), p5)
             /\ Holds(b, at + Len(e5), p6)
             /\ Holds(b, at + Len(e6), p7)
             /\ Holds(b, at + Len(e7), p8)
             /\ Holds(b, at + Len(e8), p9)
             /\ Holds(b, at + Len(e9), p10)
             /\ Holds(b, at + Len(e10), p11)
             /\ Holds(b, at + Len(e11), p12)
  <2>1. Holds(b, at, e11) /\ Holds(b, at + Len(e11), p12)
    BY <1>2, <1>3, <1>5, <1>18, <1>17, <1>19, HoldsParts
  <2>2. Holds(b, at, e10) /\ Holds(b, at + Len(e10), p11)
    BY <1>2, <1>3, <1>5, <1>17, <1>16, <2>1, HoldsParts
  <2>3. Holds(b, at, e9) /\ Holds(b, at + Len(e9), p10)
    BY <1>2, <1>3, <1>5, <1>16, <1>15, <2>2, HoldsParts
  <2>4. Holds(b, at, e8) /\ Holds(b, at + Len(e8), p9)
    BY <1>2, <1>3, <1>5, <1>15, <1>14, <2>3, HoldsParts
  <2>5. Holds(b, at, e7) /\ Holds(b, at + Len(e7), p8)
    BY <1>2, <1>3, <1>5, <1>14, <1>13, <2>4, HoldsParts
  <2>6. Holds(b, at, e6) /\ Holds(b, at + Len(e6), p7)
    BY <1>2, <1>3, <1>5, <1>13, <1>12, <2>5, HoldsParts
  <2>7. Holds(b, at, e5) /\ Holds(b, at + Len(e5), p6)
    BY <1>2, <1>3, <1>5, <1>12, <1>11, <2>6, HoldsParts
  <2>8. Holds(b, at, e4) /\ Holds(b, at + Len(e4), p5)
    BY <1>2, <1>3, <1>5, <1>11, <1>10, <2>7, HoldsParts
  <2>9. Holds(b, at, e3) /\ Holds(b, at + Len(e3), p4)
    BY <1>2, <1>3, <1>5, <1>10, <1>9, <2>8, HoldsParts
  <2>10. Holds(b, at, e2) /\ Holds(b, at + Len(e2), p3)
    BY <1>2, <1>3, <1>5, <1>9, <1>8, <2>9, HoldsParts
  <2>11. Holds(b, at, p1) /\ Holds(b, at + Len(p1), p2)
    BY <1>2, <1>3, <1>5, <1>8, <2>10, HoldsParts
  <2> QED
    BY <2>1, <2>2, <2>3, <2>4, <2>5, <2>6, <2>7, <2>8, <2>9, <2>10, <2>11
<1>20. ASSUME NEW b, NEW at \in Nat, Holds(b, at, e12)
      PROVE  /\ Holds(b, at, p1)
             /\ Holds(b, at + 1, p2)
             /\ Holds(b, at + 1 + i, p3)
             /\ Holds(b, at + 1 + 2 * i, p4)
             /\ Holds(b, at + 1 + 2 * i + Len(p4), p5)
             /\ Holds(b, at + 1 + 3 * i + Len(p4), p6)
             /\ Holds(b, at + 1 + 3 * i + Len(p4) + Len(p6), p7)
             /\ Holds(b, at + 1 + 4 * i + Len(p4) + Len(p6), p8)
             /\ Holds(b, at + 1 + 5 * i + Len(p4) + Len(p6), p9)
             /\ Holds(b, at + 1 + 5 * i + Len(p4) + Len(p6) + Len(p9), p10)
             /\ Holds(b, at + 1 + 5 * i + Len(p4) + Len(p6) + Len(p9) + Len(p10), p11)
             /\ Holds(b, at + 1 + 6 * i + Len(p4) + Len(p6) + Len(p9) + Len(p10), p12)
  <2>1. /\ Len(p1) = 1
        /\ Len(e2) = 1 + i
        /\ Len(e3) = 1 + 2 * i
        /\ Len(e4) = 1 + 2 * i + Len(p4)
        /\ Len(e5) = 1 + 3 * i + Len(p4)
        /\ Len(e6) = 1 + 3 * i + Len(p4) + Len(p6)
        /\ Len(e7) = 1 + 4 * i + Len(p4) + Len(p6)
        /\ Len(e8) = 1 + 5 * i + Len(p4) + Len(p6)
        /\ Len(e9) = 1 + 5 * i + Len(p4) + Len(p6) + Len(p9)
        /\ Len(e10) = 1 + 5 * i + Len(p4) + Len(p6) + Len(p9) + Len(p10)
        /\ Len(e11) = 1 + 6 * i + Len(p4) + Len(p6) + Len(p9) + Len(p10)
    BY <1>3, <1>8, <1>9, <1>10, <1>11, <1>12, <1>13, <1>14, <1>15, <1>16, <1>17
  <2>2. \A x, y \in Int : at + (x + y) = (at + x) + y
    OBVIOUS
  <2> QED
    BY <1>2, <1>6, <1>19, <1>20, <2>1
<1> QED
  BY <1>1, <1>6, <1>18, <1>20 DEF w, i, p1, p2, p3, p4, p5, p6, p7, p8, p9, p10, p11, p12

\* decode finds a packet that lies whole at the read index, whatever lies in front of
\* it, behind it or outside of the vector, and gives out the message it was made of,
\* whatever bytes are in its data.
THEOREM DecodesPacket ==
  ASSUME NEW b, GoodBuffer(b), NEW m, WellFormed(m), NEW oob,
         Holds(b, b.r, EncodeTinyPB(m)), b.r + PkLen(WithId(m)) <= b.w
  PROVE  /\ FirstPacket(b, oob) = {b.r}
         /\ EndOf(b, b.r, oob) = b.r + PkLen(WithId(m)) - 1
         /\ Split(b, b.r, oob) = <<WithId(m)>>
<1> DEFINE w     == WithId(m)
           start == b.r
           i     == IntSize
           li    == Len(w.msg_id)
           ln    == Len(w.method_name)
           le    == Len(w.err_info)
           ld    == Len(w.pb_data)
           l     == PkLen(w)
           idLenAt   == start + 1 + i
           nameLenAt == idLenAt + i + li
           errAt     == nameLenAt + i + ln
           infoLenAt == errAt + i
           dataAt    == infoLenAt + i + le
           end       == start + l - 1
<1>1. /\ b.size \in Nat /\ start \in Nat /\ b.w \in Nat /\ b.w <= b.size
      /\ i \in Nat /\ i >= 1
  BY IntegersAssumption DEF GoodBuffer, IsBuffer
<1>2. /\ w = [msg_id   |-> w.msg_id,   method_name |-> w.method_name,
             err_code |-> w.err_code, err_info    |-> w.err_info, pb_data  |-> w.pb_data]
      /\ w.msg_id \in Seq(1 .. Base - 1) /\ w.method_name \in Seq(1 .. Base - 1)
      /\ w.err_info \in Seq(1 .. Base - 1) /\ w.pb_data \in Seq(Bytes)
      /\ w.msg_id \in Seq(Bytes) /\ w.method_name \in Seq(Bytes)
      /\ w.err_info \in Seq(Bytes)
      /\ Fits(w.err_code) /\ Fits(l) /\ Fits(li) /\ Fits(ln) /\ Fits(le)
      /\ li \in Nat /\ ln \in Nat /\ le \in Nat /\ ld \in Nat /\ l \in Nat
  BY WithIdIs
<1>3. /\ l = 2 + 6 * i + li + ln + le + ld
      /\ start + l <= b.w
  BY DEF PkLen
<1>4. /\ Holds(b, start, <<PB_START>>)
      /\ Holds(b, start + 1, Htonl(l))
      /\ Holds(b, start + 1 + i, Htonl(li))
      /\ Holds(b, start + 1 + 2 * i, w.msg_id)
      /\ Holds(b, start + 1 + 2 * i + li, Htonl(ln))
      /\ Holds(b, start + 1 + 3 * i + li, w.method_name)
      /\ Holds(b, start + 1 + 3 * i + li + ln, Htonl(w.err_code))
      /\ Holds(b, start + 1 + 4 * i + li + ln, Htonl(le))
      /\ Holds(b, start + 1 + 5 * i + li + ln, w.err_info)
      /\ Holds(b, start + 1 + 5 * i + li + ln + le, w.pb_data)
      /\ Holds(b, start + 1 + 6 * i + li + ln + le + ld, <<PB_END>>)
  BY <1>1, EncodeIs
<1> HIDE DEF w, start, i, li, ln, le, ld, l
<1>15. /\ start \in Nat /\ i \in Nat /\ i >= 1
       /\ li \in Nat /\ ln \in Nat /\ le \in Nat /\ ld \in Nat
       /\ b.w \in Nat /\ b.size \in Nat /\ b.w <= b.size
  BY <1>1, <1>2
<1>5. /\ idLenAt = start + 1 + i
      /\ idLenAt + i = start + 1 + 2 * i
      /\ nameLenAt = start + 1 + 2 * i + li
      /\ nameLenAt + i = start + 1 + 3 * i + li
      /\ errAt = start + 1 + 3 * i + li + ln
      /\ infoLenAt = start + 1 + 4 * i + li + ln
      /\ infoLenAt + i = start + 1 + 5 * i + li + ln
      /\ dataAt = start + 1 + 5 * i + li + ln + le
      /\ end = start + 1 + 6 * i + li + ln + le + ld
  BY <1>3, <1>15
<1>6. /\ start + 1 \in Nat /\ idLenAt \in Nat /\ idLenAt + i \in Nat
      /\ nameLenAt \in Nat /\ nameLenAt + i \in Nat /\ errAt \in Nat
      /\ infoLenAt \in Nat /\ infoLenAt + i \in Nat /\ dataAt \in Nat /\ end \in Nat
      /\ start + 1 + i <= b.size /\ idLenAt + i <= b.size /\ nameLenAt + i <= b.size
      /\ errAt + i <= b.size /\ infoLenAt + i <= b.size
      /\ idLenAt + i + li <= b.size /\ nameLenAt + i + ln <= b.size
      /\ infoLenAt + i + le <= b.size /\ dataAt + ld <= b.size
      /\ idLenAt < end /\ nameLenAt < end /\ infoLenAt < end /\ end < b.w
      /\ start + 1 < b.w /\ start < b.w
  BY <1>3, <1>5, <1>15
<1>7. /\ b.cells[start] = PB_START /\ b.cells[end] = PB_END
  <2>1. /\ b.cells[start + 1 - 1] = <<PB_START>>[1]
        /\ b.cells[(start + 1 + 6 * i + li + ln + le + ld) + 1 - 1] = <<PB_END>>[1]
    <3>1. /\ 1 \in 1 .. Len(<<PB_START>>) /\ 1 \in 1 .. Len(<<PB_END>>)
      OBVIOUS
    <3>2. \A at, s : Holds(b, at, s) /\ 1 \in 1 .. Len(s) => b.cells[at + 1 - 1] = s[1]
      BY DEF Holds
    <3>3. Holds(b, start + 1 + 6 * i + li + ln + le + ld, <<PB_END>>)
      BY <1>4
    <3>4. Holds(b, start, <<PB_START>>)
      BY <1>4
    <3> QED
      BY <3>1, <3>2, <3>3, <3>4
  <2>2. start + 1 - 1 = start /\ end + 1 - 1 = end
    BY <1>1, <1>6
  <2> QED
    BY <1>5, <2>1, <2>2
<1> HIDE DEF idLenAt, nameLenAt, errAt, infoLenAt, dataAt, end
<1>8. \A at \in Nat : \A n :
        at + i <= b.size /\ Fits(n) /\ Holds(b, at, Htonl(n)) => IntAt(b, at, oob) = n
  BY <1>1, HoldsInt DEF i
<1>9. /\ IntAt(b, start + 1, oob) = l
      /\ IntAt(b, idLenAt, oob) = li
      /\ IntAt(b, nameLenAt, oob) = ln
      /\ IntAt(b, errAt, oob) = w.err_code
      /\ IntAt(b, infoLenAt, oob) = le
  BY <1>2, <1>4, <1>5, <1>6, <1>8
<1>10. \A at \in Nat : \A s \in Seq(Bytes) :
         at + Len(s) <= b.size /\ Holds(b, at, s) => Cells(b, at, Len(s), oob) = s
  BY <1>1, HoldsCells
<1>11. /\ Cells(b, idLenAt + i, li, oob) = w.msg_id
       /\ Cells(b, nameLenAt + i, ln, oob) = w.method_name
       /\ Cells(b, infoLenAt + i, le, oob) = w.err_info
       /\ Cells(b, dataAt, ld, oob) = w.pb_data
  BY <1>2, <1>4, <1>5, <1>6, <1>10 DEF li, ln, le, ld
<1>12. EndOf(b, start, oob) = end
  BY <1>9 DEF EndOf, end
<1>13. Split(b, start, oob) = <<w>>
  <2>1. l - ln - li - le - 2 - 6 * i = ld
    BY <1>3, <1>15
  <2>2. {li, ln, le, ld} \subseteq 0 .. b.size
    BY <1>3, <1>15
  <2>3. ~ (idLenAt >= end) /\ ~ (nameLenAt >= end) /\ ~ (infoLenAt >= end)
    <3> HIDE DEF start
    <3>1. \A x, y \in Nat : x < y => ~ (x >= y)
      OBVIOUS
    <3> QED
      BY <1>6, <3>1
  <2>4. /\ CString(w.msg_id) = w.msg_id /\ CString(w.method_name) = w.method_name
        /\ CString(w.err_info) = w.err_info
    BY <1>2, PlainString
  <2> QED
    BY <1>2, <1>9, <1>11, <1>12, <2>1, <2>2, <2>3, <2>4
    DEF Split, idLenAt, nameLenAt, errAt, infoLenAt, dataAt, i
<1>14. FirstPacket(b, oob) = {start}
  <2>1. PacketAt(b, start, oob)
    <3>1. Cell(b, end, oob) = PB_END
      BY <1>1, <1>6, <1>7 DEF Cell
    <3> QED
      BY <1>6, <1>7, <1>12, <3>1 DEF PacketAt, StartAt
  <2>2. start \in b.r .. b.w - 1 /\ start = b.r
    BY <1>1, <1>6 DEF start
  <2>3. ASSUME NEW k \in b.r .. start - 1 PROVE FALSE
    BY <1>1, <2>2
  <2>4. ASSUME NEW x \in b.r .. b.w - 1, x # start PROVE start \in b.r .. x - 1
    <3>1. b.r \in Nat /\ b.w \in Nat
      BY <1>1, <2>2
    <3> QED
      BY <2>2, <2>4, <3>1
  <2> QED
    BY <2>1, <2>2, <2>3, <2>4 DEF FirstPacket
<1> QED
  BY <1>12, <1>13, <1>14 DEF start, end, w, l

-----------------------------------------------------------------------------
(* The stream of packets.                                                   *)

\* The recursion that says where packets end.
Adds(end, packets) ==
  end = [k \in 0 .. NumMessages |-> IF k = 0 THEN 0 ELSE end[k - 1] + Len(packets[k])]

LEMMA EndsIs ==
  ASSUME NEW packets, \A k \in 1 .. NumMessages : Len(packets[k]) \in Nat \ {0}
  PROVE  /\ Ends(packets) \in [0 .. NumMessages -> Nat]
         /\ Ends(packets)[0] = 0
         /\ \A k \in 1 .. NumMessages :
              Ends(packets)[k] = Ends(packets)[k - 1] + Len(packets[k])
<1> DEFINE N == NumMessages
           step == [p \in (1 .. N) \X Nat |-> p[2] + Len(packets[p[1]])]
           end == CHOOSE e : Adds(e, packets)
<1>1. N \in Nat
  BY MessagesAssumption
<1>2. step \in [(1 .. N) \X Nat -> Nat]
  <2>1. ASSUME NEW p \in (1 .. N) \X Nat PROVE p[2] + Len(packets[p[1]]) \in Nat
    <3>1. p[1] \in 1 .. N /\ p[2] \in Nat
      OBVIOUS
    <3>2. Len(packets[p[1]]) \in Nat
      BY <3>1
    <3> QED
      BY <3>1, <3>2
  <2> QED
    BY <2>1
<1>3. PICK f \in [0 .. N -> Nat] : Recurs(f, N, 0, step)
  <2>1. 0 \in Nat
    OBVIOUS
  <2> HIDE DEF step
  <2> QED
    BY <1>1, <1>2, <2>1, RecursionExists
<1>4. ASSUME NEW k \in 1 .. N PROVE f[k] = f[k - 1] + Len(packets[k])
  <2>1. k - 1 \in 0 .. N
    BY <1>1
  <2>2. /\ <<k, f[k - 1]>> \in (1 .. N) \X Nat
        /\ <<k, f[k - 1]>>[1] = k /\ <<k, f[k - 1]>>[2] = f[k - 1]
    BY <2>1
  <2> QED
    BY <1>3, <2>2 DEF Recurs
<1>5. Adds(f, packets)
  <2>1. f = [k \in 0 .. N |-> f[k]]
    OBVIOUS
  <2>2. \A k \in 0 .. N : f[k] = IF k = 0 THEN 0 ELSE f[k - 1] + Len(packets[k])
    BY <1>1, <1>3, <1>4 DEF Recurs
  <2> QED
    BY <2>1, <2>2 DEF Adds
<1>6. Adds(end, packets)
  BY <1>5
<1>7. Ends(packets) = end
  BY DEF Ends, Adds
<1> HIDE DEF end
<1>8. /\ end[0] = 0
      /\ \A k \in 1 .. N : end[k] = end[k - 1] + Len(packets[k])
      /\ end = [k \in 0 .. N |-> end[k]]
  <2>1. end = [k \in 0 .. N |-> IF k = 0 THEN 0 ELSE end[k - 1] + Len(packets[k])]
    BY <1>6 DEF Adds
  <2> HIDE DEF N
  <2>2. end[0] = 0
    BY <1>1, <2>1
  <2>3. \A k \in 1 .. N : k \in 0 .. N /\ k # 0
    BY <1>1
  <2>4. \A k \in 1 .. N : end[k] = end[k - 1] + Len(packets[k])
    BY <2>1, <2>3
  <2>5. end = [k \in 0 .. N |-> end[k]]
    BY <2>1
  <2> QED
    BY <2>2, <2>4, <2>5
<1> DEFINE P == {k \in Nat : k <= N => end[k] \in Nat}
<1>9. \A k \in 0 .. N : k \in P
  <2>1. 0 \in P
    BY <1>8
  <2>2. ASSUME NEW k \in 0 .. N - 1, k \in P PROVE k + 1 \in P
    <3>1. k + 1 \in 1 .. N /\ (k + 1) - 1 = k /\ end[k] \in Nat
      BY <1>1, <2>2
    <3>2. end[k + 1] = end[k] + Len(packets[k + 1]) /\ Len(packets[k + 1]) \in Nat
      BY <1>8, <3>1
    <3> QED
      BY <3>1, <3>2
  <2> HIDE DEF P
  <2> QED
    BY <1>1, <2>1, <2>2, UpTo
<1>10. end \in [0 .. N -> Nat]
  <2>1. \A k \in 0 .. N : end[k] \in Nat
    BY <1>9
  <2> QED
    BY <1>8, <2>1
<1> QED
  BY <1>7, <1>8, <1>10

\* A later packet ends later.
LEMMA EndsGrow ==
  ASSUME NEW packets, \A k \in 1 .. NumMessages : Len(packets[k]) \in Nat \ {0},
         NEW j \in 0 .. NumMessages, NEW k \in 0 .. NumMessages, j < k
  PROVE  Ends(packets)[j] < Ends(packets)[k]
<1> DEFINE N == NumMessages
           end == Ends(packets)
           P == {x \in Nat : x <= N /\ j < x => end[j] < end[x]}
<1>1. N \in Nat
  BY MessagesAssumption
<1>2. /\ end \in [0 .. N -> Nat]
      /\ \A x \in 1 .. N : end[x] = end[x - 1] + Len(packets[x])
  BY EndsIs
<1> HIDE DEF end
<1>3. 0 \in P
  BY <1>1
<1>4. ASSUME NEW x \in 0 .. N - 1, x \in P PROVE x + 1 \in P
  <2>1. x + 1 \in 1 .. N /\ (x + 1) - 1 = x /\ x \in 0 .. N
    BY <1>1
  <2>2. /\ end[x + 1] = end[x] + Len(packets[x + 1]) /\ Len(packets[x + 1]) \in Nat \ {0}
        /\ end[x] \in Nat /\ end[j] \in Nat /\ end[x + 1] \in Nat
    BY <1>2, <2>1
  <2>3. CASE j < x
    BY <1>4, <2>1, <2>2, <2>3
  <2>4. CASE j = x
    BY <2>1, <2>2, <2>4
  <2>5. CASE x < j
    BY <2>1, <2>5
  <2> QED
    BY <2>1, <2>3, <2>4, <2>5
<1>5. \A x \in 0 .. N : x \in P
  <2> HIDE DEF P
  <2> QED
    BY <1>1, <1>3, <1>4, UpTo
<1> QED
  BY <1>1, <1>5 DEF end

\* The bytes of each packet are where Ends says.
LEMMA StreamBytes ==
  ASSUME NEW packets \in [1 .. NumMessages -> Seq(Bytes)],
         \A k \in 1 .. NumMessages : Len(packets[k]) \in Nat \ {0}
  PROVE  /\ Len(FlattenSeq(packets)) = Ends(packets)[NumMessages]
         /\ \A k \in 1 .. NumMessages : \A q \in 1 .. Len(packets[k]) :
              FlattenSeq(packets)[Ends(packets)[k - 1] + q] = packets[k][q]
<1> DEFINE N == NumMessages
           end == Ends(packets)
<1>1. N \in Nat
  BY MessagesAssumption
<1>2. packets \in Seq(Seq(Bytes)) /\ Len(packets) = N
  <2>1. packets \in Seq(Seq(Bytes))
    BY <1>1
  <2> QED
    BY <1>1, <2>1, LenProperties
<1>3. /\ end \in [0 .. N -> Nat] /\ end[0] = 0
      /\ \A k \in 1 .. N : end[k] = end[k - 1] + Len(packets[k])
  BY EndsIs
<1>4. \A j, k \in 0 .. N : j < k => end[j] < end[k]
  BY EndsGrow
<1> HIDE DEF end
<1>5. CASE N = 0
  <2>1. packets = <<>>
    BY <1>2, <1>5
  <2> QED
    BY <1>3, <1>5, <2>1, FlattenEmpty DEF end
<1>6. CASE N # 0
  <2>1. PICK f \in [1 .. N -> Seq(Bytes)] : Flattens(f, packets)
    BY <1>2, FlattensExists
  <2> DEFINE Laid(i) == /\ Len(f[i]) = end[i]
                        /\ \A k \in 1 .. i : \A q \in 1 .. Len(packets[k]) :
                             f[i][end[k - 1] + q] = packets[k][q]
             P == {i \in Nat : i \in 1 .. N => Laid(i)}
  <2>2. 0 \in P
    OBVIOUS
  <2>3. ASSUME NEW i \in 0 .. N - 1, i \in P PROVE i + 1 \in P
    <3>1. i + 1 \in 1 .. N /\ (i + 1) - 1 = i /\ i \in 0 .. N
      BY <1>1
    <3>2. end[i + 1] = end[i] + Len(packets[i + 1])
      BY <1>3, <3>1
    <3>3. CASE i = 0
      <4>1. f[1] = packets[1]
        <5>1. Len(packets) \in Nat /\ Len(packets) >= 1
          BY <1>1, <1>2, <1>6
        <5> QED
          BY <2>1, <5>1, FlattensFirst
      <4>2. Len(f[1]) = end[1]
        BY <1>3, <3>1, <3>2, <3>3, <4>1
      <4>3. \A k \in 1 .. 1 : k = 1 /\ \A q \in Int : end[k - 1] + q = q
        BY <1>3
      <4>4. Laid(1)
        <5>1. ASSUME NEW k \in 1 .. 1, NEW q \in 1 .. Len(packets[k])
              PROVE  f[1][end[k - 1] + q] = packets[k][q]
          BY <4>1, <4>3
        <5> QED
          BY <4>2, <5>1
      <4> HIDE DEF Laid
      <4> QED
        BY <3>1, <3>3, <4>4
    <3>4. CASE i # 0
      <4>1. Laid(i) /\ i \in 1 .. N
        BY <2>3, <3>1, <3>4
      <4>2. f[i + 1] = f[i] \o packets[i + 1]
        <5> HIDE DEF Laid, P
        <5>1. i + 1 \in 1 .. Len(packets) /\ i + 1 # 1
          BY <1>2, <3>1, <4>1
        <5>2. f[i + 1] = IF i + 1 = 1 THEN packets[i + 1]
                         ELSE f[(i + 1) - 1] \o packets[i + 1]
          BY <2>1, <5>1 DEF Flattens
        <5> QED
          BY <3>1, <5>1, <5>2
      <4>3. f[i] \in Seq(Bytes) /\ packets[i + 1] \in Seq(Bytes)
        BY <3>1, <4>1
      <4>4. /\ Len(f[i + 1]) = Len(f[i]) + Len(packets[i + 1])
            /\ \A q \in 1 .. Len(f[i]) : f[i + 1][q] = f[i][q]
            /\ \A q \in 1 .. Len(packets[i + 1]) :
                 f[i + 1][Len(f[i]) + q] = packets[i + 1][q]
        <5> DEFINE s == f[i]
                   t == packets[i + 1]
        <5>1. s \in Seq(Bytes) /\ t \in Seq(Bytes)
          BY <4>3
        <5> HIDE DEF s, t
        <5>2. /\ Len(s \o t) = Len(s) + Len(t)
              /\ \A q \in 1 .. Len(s) : (s \o t)[q] = s[q]
              /\ \A q \in 1 .. Len(t) : (s \o t)[Len(s) + q] = t[q]
          BY <5>1, ConcatElements
        <5> QED
          BY <4>2, <5>2 DEF s, t
      <4>5. ASSUME NEW k \in 1 .. i + 1, NEW q \in 1 .. Len(packets[k])
            PROVE  f[i + 1][end[k - 1] + q] = packets[k][q]
        <5>1. CASE k = i + 1
          BY <3>1, <4>1, <4>4, <5>1
        <5>2. CASE k # i + 1
          <6>1. /\ k \in 1 .. i /\ k \in 1 .. N /\ k \in 0 .. N /\ k - 1 \in 0 .. N
                /\ k < i \/ k = i
            <7>1. i \in Nat /\ N \in Nat /\ k \in Int /\ 1 <= k /\ k <= i + 1 /\ k # i + 1
                  /\ i + 1 <= N
              BY <1>1, <3>1, <5>2
            <7> HIDE DEF N
            <7>2. 1 <= k /\ k <= i /\ k \in Int /\ i < N
              BY <7>1
            <7> QED
              BY <7>1, <7>2
          <6>2. /\ end[k - 1] \in Nat /\ end[k] \in Nat /\ end[i] \in Nat
                /\ end[k] = end[k - 1] + Len(packets[k]) /\ end[k] <= end[i]
                /\ Len(packets[k]) \in Nat
            <7>1. end[k - 1] \in Nat /\ end[k] \in Nat /\ end[i] \in Nat
              BY <1>3, <3>1, <6>1
            <7>2. end[k] = end[k - 1] + Len(packets[k]) /\ Len(packets[k]) \in Nat
              BY <1>3, <6>1
            <7>3. k < i => end[k] < end[i]
              BY <1>4, <3>1, <6>1
            <7> QED
              BY <6>1, <7>1, <7>2, <7>3
          <6>3. end[k - 1] + q \in 1 .. Len(f[i])
            BY <4>1, <6>2, SMTT(40)
          <6> QED
            BY <4>1, <4>4, <6>1, <6>3
        <5> QED
          BY <5>1, <5>2
      <4>6. Laid(i + 1)
        BY <3>2, <4>1, <4>4, <4>5
      <4> HIDE DEF Laid
      <4> QED
        BY <3>1, <4>6
    <3> QED
      BY <3>3, <3>4
  <2>4. \A i \in 0 .. N : i \in P
    <3> HIDE DEF P
    <3> QED
      BY <1>1, <2>2, <2>3, UpTo
  <2>5. Laid(N)
    <3>1. N \in 0 .. N /\ N \in 1 .. N
      BY <1>1, <1>6
    <3> HIDE DEF Laid
    <3> QED
      BY <2>4, <3>1
  <2>6. FlattenSeq(packets) = f[N]
    <3>1. packets # <<>>
      BY <1>2, <1>6
    <3> QED
      BY <1>2, <2>1, <3>1, FlattenIs
  <2> QED
    BY <2>5, <2>6 DEF end
<1> QED
  BY <1>5, <1>6

\* The vector behind the write index has never been written, or is a fresh one.
Blank(b) == \A i \in b.w .. b.size - 1 : b.cells[i] = 0

LEMMA AdjustBlank ==
  ASSUME NEW b, GoodBuffer(b), Blank(b)
  PROVE  LET a == AdjustBuffer(b)
         IN  GoodBuffer(a) /\ a.size = b.size /\ a.w <= b.w /\ Blank(a)
             /\ ReadAble(a) = ReadAble(b) /\ Readable(a) = Readable(b)
<1> DEFINE a == AdjustBuffer(b)
<1>1. /\ GoodBuffer(a) /\ a.size = b.size
      /\ ReadAble(a) = ReadAble(b) /\ Readable(a) = Readable(b)
  BY AdjustGood
<1>2. /\ b.size \in Nat /\ b.r \in Nat /\ b.w \in Nat /\ b.r <= b.w /\ b.w <= b.size
      /\ ReadAble(b) \in Nat /\ ReadAble(b) <= b.w /\ ReadAble(b) <= b.size
      /\ ReadAble(b) = b.w - b.r
  BY DEF GoodBuffer, IsBuffer, ReadAble
<1>3. CASE a = b
  BY <1>1, <1>2, <1>3
<1>4. CASE a = Relocate(b, b.size)
  <2> DEFINE c == Relocate(b, b.size)
  <2>1. /\ c.cells = [i \in 0 .. b.size - 1 |->
                        IF i < ReadAble(b) THEN b.cells[b.r + i] ELSE 0]
        /\ c.w = ReadAble(b) /\ c.size = b.size
    BY <1>2 DEF Relocate
  <2> HIDE DEF c
  <2>2. ASSUME NEW i \in c.w .. c.size - 1 PROVE c.cells[i] = 0
    <3>1. i \in 0 .. b.size - 1 /\ ~ (i < ReadAble(b))
      BY <1>2, <2>1
    <3> QED
      BY <2>1, <3>1
  <2>3. Blank(c) /\ c.w <= b.w
    BY <1>2, <2>1, <2>2 DEF Blank
  <2> QED
    BY <1>1, <1>4, <2>3 DEF c
<1> QED
  BY <1>3, <1>4 DEF AdjustBuffer

\* A packet of no bytes is taken off, and nothing is given out.
LEMMA EmptyPacket ==
  ASSUME NEW b, GoodBuffer(b), b.r < b.size, NEW start \in Nat, NEW oob,
         IntAt(b, start + 1, oob) = 0
  PROVE  /\ Split(b, start, oob) = <<>>
         /\ MoveReadIndex(b, EndOf(b, start, oob) - start + 1) = AdjustBuffer(b)
<1>1. EndOf(b, start, oob) = start - 1
  BY DEF EndOf
<1>2. IntSize \in Nat
  BY IntegersAssumption
<1>3. start + 1 + IntSize >= EndOf(b, start, oob)
  BY <1>1, <1>2
<1>4. Split(b, start, oob) = <<>>
  BY <1>3 DEF Split
<1>5. /\ EndOf(b, start, oob) - start + 1 = 0
      /\ b.r \in Nat /\ b.size \in Nat
      /\ b = [cells |-> b.cells, size |-> b.size, r |-> b.r, w |-> b.w]
  BY <1>1 DEF GoodBuffer, IsBuffer
<1>6. [b EXCEPT !.r = @ + 0] = b
  <2>1. b.r + 0 = b.r
    BY <1>5
  <2> QED
    BY <1>5, <2>1
<1>7. MoveReadIndex(b, 0) = AdjustBuffer(b)
  BY <1>5, <1>6 DEF MoveReadIndex
<1> QED
  BY <1>4, <1>5, <1>7

\* What can be read is a piece of m's packet that TCP may leave there.
HoldsPiece(b, m) ==
  /\ GoodBuffer(b) /\ Blank(b) /\ b.w + IntSize <= b.size
  /\ 0 < ReadAble(b) /\ ReadAble(b) < Len(EncodeTinyPB(m))
  /\ CutLengths \/ ReadAble(b) \notin 2 .. IntSize
  /\ \A k \in 1 .. ReadAble(b) : b.cells[b.r + k - 1] = EncodeTinyPB(m)[k]

\* A piece of a packet that TCP may leave in the buffer is not taken for a packet,
\* but for an empty one.
LEMMA PieceOnly ==
  ASSUME NEW b, NEW m \in Divisible, HoldsPiece(b, m),
         NEW oob, NEW start \in FirstPacket(b, oob)
  PROVE  IntAt(b, start + 1, oob) = 0
<1> DEFINE n      == ReadAble(b)
           packet == EncodeTinyPB(m)
           piece  == SubSeq(packet, 1, n)
           i      == start - b.r + 1
           pkLen  == IntAt(b, start + 1, oob)
           end    == i + pkLen - 1
<1>1. /\ b.size \in Nat /\ b.r \in Nat /\ b.w \in Nat /\ b.w = b.r + n /\ b.w <= b.size
      /\ b.cells \in [0 .. b.size - 1 -> Nat]
      /\ IntSize \in Nat /\ IntSize >= 1 /\ n \in Nat /\ n > 0
      /\ b.w + IntSize <= b.size
  <2>1. /\ b.size \in Nat /\ b.r \in Nat /\ b.w \in Nat /\ b.w <= b.size
        /\ b.cells \in [0 .. b.size - 1 -> Nat]
        /\ b.r <= b.w
    BY DEF HoldsPiece, GoodBuffer, IsBuffer
  <2>2. n = b.w - b.r
    BY DEF ReadAble
  <2>4. n > 0 /\ b.w + IntSize <= b.size
    <3>1. 0 < n /\ b.w + IntSize <= b.size
      BY DEF HoldsPiece
    <3> QED
      BY <2>1, <2>2, <3>1
  <2>3. IntSize \in Nat /\ IntSize >= 1
    BY IntegersAssumption
  <2> QED
    BY <2>1, <2>2, <2>3, <2>4
<1> HIDE DEF n
<1>2. /\ start \in b.r .. b.w - 1 /\ start \in Nat
      /\ PacketAt(b, start, oob)
  BY <1>1 DEF FirstPacket
<1>3. /\ i \in 1 .. n /\ i \in Nat /\ start = b.r + i - 1
      /\ b.cells[start] = PB_START /\ start + 1 < b.w /\ i < n
      /\ EndOf(b, start, oob) < b.w
      /\ Cell(b, EndOf(b, start, oob), oob) = PB_END
  <2>1. /\ b.cells[start] = PB_START /\ start + 1 < b.w
        /\ EndOf(b, start, oob) < b.w
        /\ Cell(b, EndOf(b, start, oob), oob) = PB_END
    BY <1>2 DEF PacketAt, StartAt
  <2>2. i \in 1 .. n /\ i \in Nat /\ start = b.r + i - 1 /\ i < n
    <3>1. /\ start \in Int /\ b.r <= start /\ start + 1 < b.w
          /\ b.r \in Int /\ b.w = b.r + n /\ n \in Int
      BY <1>1, <1>2, <2>1
    <3>2. i \in Int /\ start = b.r + i - 1
      BY <3>1
    <3> HIDE DEF i
    <3>3. i >= 1 /\ i < n
      BY <3>1, <3>2
    <3> QED
      BY <3>1, <3>2, <3>3
  <2> QED
    BY <2>1, <2>2
<1>4. m \in Messages /\ WellFormed(m)
  BY CutsAssumption, MessagesAssumption
<1>5. packet \in Seq(Bytes) /\ Len(packet) = PkLen(WithId(m)) /\ Len(packet) \in Nat
      /\ n < Len(packet)
  <2>1. packet \in Seq(Bytes) /\ Len(packet) = PkLen(WithId(m))
    BY <1>4, EncodeIs
  <2>2. n < Len(packet)
    BY DEF HoldsPiece, n
  <2> QED
    BY <2>1, <2>2
<1>6. /\ piece \in Seq(Bytes) /\ Len(piece) = n /\ DOMAIN piece = 1 .. n
      /\ \A k \in 1 .. n : piece[k] = packet[k] /\ b.cells[b.r + k - 1] = piece[k]
  <2>1. \A k \in 1 .. n : b.cells[b.r + k - 1] = packet[k]
    BY DEF HoldsPiece, n
  <2>2. piece \in Seq(Bytes) /\ Len(piece) = n /\ \A k \in 1 .. n : piece[k] = packet[k]
    <3> HIDE DEF packet, n
    <3>1. 1 \in 1 .. Len(packet) + 1 /\ n \in 0 .. Len(packet) /\ n \in 1 - 1 .. Len(packet)
      BY <1>1, <1>5
    <3>2. \A k \in 1 .. n : k \in 1 .. Len(packet) /\ 1 + k - 1 = k
      BY <1>1, <1>5
    <3> QED
      BY <1>5, <3>1, <3>2, SubSeqProperties
  <2>3. DOMAIN piece = 1 .. n
    BY <2>2, LenProperties
  <2> QED
    BY <2>1, <2>2, <2>3
<1> HIDE DEF piece, packet, i
<1>7. \A k \in 1 .. IntSize :
        Cell(b, (start + 1) + k - 1, oob) = IF i + k <= n THEN piece[i + k] ELSE 0
  <2> SUFFICES ASSUME NEW k \in 1 .. IntSize
               PROVE  Cell(b, (start + 1) + k - 1, oob) =
                        IF i + k <= n THEN piece[i + k] ELSE 0
    OBVIOUS
  <2>1. /\ (start + 1) + k - 1 = b.r + (i + k) - 1
        /\ b.r + (i + k) - 1 \in 0 .. b.size - 1 /\ i + k \in Nat /\ i + k >= 1
    <3>1. /\ b.r \in Nat /\ i \in Nat /\ i >= 1 /\ i < n /\ n \in Nat /\ k \in Nat /\ k >= 1
          /\ k <= IntSize /\ b.w = b.r + n /\ b.w + IntSize <= b.size /\ IntSize \in Nat
          /\ b.size \in Nat
      BY <1>1, <1>3
    <3>2. start = b.r + i - 1
      BY <1>3
    <3> QED
      BY <3>1, <3>2
  <2>2. Cell(b, (start + 1) + k - 1, oob) = b.cells[b.r + (i + k) - 1]
    BY <2>1 DEF Cell
  <2>3. CASE i + k <= n
    BY <1>6, <2>1, <2>2, <2>3
  <2>4. CASE ~ (i + k <= n)
    <3>1. b.r + (i + k) - 1 \in b.w .. b.size - 1
      BY <1>1, <2>1, <2>4
    <3> QED
      BY <2>2, <2>4, <3>1 DEF Blank, HoldsPiece
  <2> QED
    BY <2>3, <2>4
<1>8. pkLen = Ntohl([k \in 1 .. IntSize |-> IF i + k <= Len(piece) THEN piece[i + k] ELSE 0])
  BY <1>6, <1>7 DEF IntAt, Cells
<1>9. pkLen \in Int
  <2>1. \A k \in 1 .. IntSize : (IF i + k <= n THEN piece[i + k] ELSE 0) \in Nat
    <3> SUFFICES ASSUME NEW k \in 1 .. IntSize, i + k <= n PROVE piece[i + k] \in Nat
      OBVIOUS
    <3>1. i + k \in 1 .. n
      BY <1>3
    <3>2. piece[i + k] \in Bytes
      BY <1>6, <3>1, ElementOfSeq
    <3> QED
      BY <3>2, IntegersAssumption DEF Bytes
  <2>2. [k \in 1 .. IntSize |-> IF i + k <= Len(piece) THEN piece[i + k] ELSE 0]
          \in [1 .. IntSize -> Nat]
    BY <1>6, <2>1
  <2> QED
    BY <1>8, <2>2, NtohlInt
<1> HIDE DEF pkLen
<1>10. /\ EndOf(b, start, oob) = b.r + end - 1
       /\ end \in Int /\ end <= n
  <2>1. EndOf(b, start, oob) = start + pkLen - 1
    BY DEF EndOf, pkLen
  <2>2. /\ b.r \in Nat /\ b.w \in Nat /\ b.w = b.r + n /\ i \in Nat
        /\ start = b.r + i - 1 /\ EndOf(b, start, oob) < b.w /\ n \in Nat
    BY <1>1, <1>3
  <2>3. end \in Int
    BY <1>9, <2>2
  <2>4. EndOf(b, start, oob) = b.r + end - 1
    BY <1>9, <2>1, <2>2
  <2>5. end <= n
    <3> HIDE DEF end
    <3> QED
      BY <2>2, <2>3, <2>4
  <2> QED
    BY <2>3, <2>4, <2>5
<1>11. end \in DOMAIN piece => piece[end] = PB_END
  <2> SUFFICES ASSUME end \in 1 .. n PROVE piece[end] = PB_END
    BY <1>6
  <2>1. b.r + end - 1 \in 0 .. b.size - 1
    BY <1>1, <1>10, SMTT(40)
  <2>2. Cell(b, b.r + end - 1, oob) = b.cells[b.r + end - 1]
    BY <2>1 DEF Cell
  <2> QED
    BY <1>3, <1>6, <1>10, <2>2
<1>12. piece[i] = PB_START
  BY <1>3, <1>6
<1>13. pkLen # 0 => Misleads(piece, i)
  BY <1>3, <1>6, <1>8, <1>10, <1>11, <1>12 DEF Misleads
<1>14. CASE i > 1 \/ n <= IntSize
  <2>1. n \in (1 .. Len(packet) - 1) \ (IF CutLengths THEN {} ELSE 2 .. IntSize)
    <3>1. n >= 1 /\ n <= Len(packet) - 1 /\ n \in Nat /\ Len(packet) \in Nat
      BY <1>1, <1>5
    <3>2. CutLengths \/ n \notin 2 .. IntSize
      BY DEF HoldsPiece, n
    <3> QED
      BY <3>1, <3>2
  <2>2. piece \in Pieces(m)
    BY <2>1 DEF Pieces, piece, packet
  <2>3. ~ Misleads(piece, i)
    BY <1>3, <1>6, <1>14, <2>2, CutsAssumption
  <2> QED
    BY <1>13, <2>3 DEF pkLen
<1>15. CASE i = 1 /\ n > IntSize
  <2>1. start = b.r
    BY <1>1, <1>3, <1>15
  <2>2. /\ Len(piece) = n
        /\ \A k \in 1 .. IntSize : piece[1 + k] = Htonl(PkLen(WithId(m)))[k]
    <3> DEFINE h == Htonl(PkLen(WithId(m)))
               whole == [size |-> Len(packet), cells |-> [x \in 0 .. Len(packet) - 1 |-> packet[x + 1]]]
    <3>1. Holds(whole, 0, packet)
      <4>1. \A k \in 1 .. Len(packet) : 0 + k - 1 \in 0 .. Len(packet) - 1 /\ (0 + k - 1) + 1 = k
        BY <1>5
      <4>2. \A k \in 1 .. Len(packet) : whole.cells[0 + k - 1] = packet[(0 + k - 1) + 1]
        BY <4>1
      <4> HIDE DEF whole
      <4> QED
        BY <4>1, <4>2 DEF Holds
    <3>2. Holds(whole, 0 + 1, h)
      <4> HIDE DEF whole
      <4> QED
        BY <1>4, <3>1, EncodeIs DEF packet
    <3>3. Len(h) = IntSize
      <4>1. PkLen(WithId(m)) \in Int
        BY <1>4, WithIdIs
      <4> QED
        BY <4>1, HtonlIs
    <3>4. ASSUME NEW k \in 1 .. IntSize PROVE packet[1 + k] = h[k]
      <4>1. whole.cells[0 + 1 + k - 1] = h[k]
        <5> HIDE DEF whole, h
        <5> QED
          BY <3>2, <3>3 DEF Holds
      <4>2. 0 + 1 + k - 1 = k /\ k \in 0 .. Len(packet) - 1 /\ k + 1 = 1 + k
        BY <1>1, <1>5, <1>15 DEF packet
      <4>3. whole.cells[k] = packet[k + 1]
        BY <4>2
      <4> QED
        BY <4>1, <4>2, <4>3
    <3>5. \A k \in 1 .. IntSize : 1 + k \in 1 .. n
      BY <1>1, <1>15
    <3> QED
      BY <1>6, <3>4, <3>5
  <2>3. pkLen = PkLen(WithId(m))
    <3>1. Holds(b, start + 1, Htonl(PkLen(WithId(m))))
      <4>1. Len(Htonl(PkLen(WithId(m)))) = IntSize
        <5>1. PkLen(WithId(m)) \in Int
          BY <1>4, WithIdIs
        <5> QED
          BY <5>1, HtonlIs
      <4>2. ASSUME NEW k \in 1 .. IntSize
            PROVE  b.cells[(start + 1) + k - 1] = Htonl(PkLen(WithId(m)))[k]
        <5>1. 1 + k \in 1 .. n /\ (start + 1) + k - 1 = b.r + (1 + k) - 1
          BY <1>1, <1>15, <2>1
        <5> QED
          BY <1>6, <2>2, <5>1
      <4> QED
        BY <4>1, <4>2 DEF Holds
    <3>2. Fits(PkLen(WithId(m)))
      BY <1>4, WithIdIs
    <3>3. start + 1 \in Nat /\ (start + 1) + IntSize <= b.size
      <4>1. /\ start = b.r /\ b.r \in Nat /\ n \in Nat /\ IntSize \in Nat /\ n >= 1
            /\ b.w = b.r + n /\ b.w + IntSize <= b.size /\ b.size \in Nat
        BY <1>1, <2>1
      <4> QED
        BY <4>1
    <3> QED
      BY <1>1, <3>1, <3>2, <3>3, HoldsInt DEF pkLen
  <2>4. end = Len(packet)
    BY <1>5, <1>9, <1>15, <2>3
  <2>5. n < Len(packet) /\ end <= n /\ n \in Nat /\ Len(packet) \in Nat
    BY <1>1, <1>5, <1>10
  <2> HIDE DEF end
  <2> QED
    BY <2>4, <2>5
<1> QED
  BY <1>1, <1>3, <1>14, <1>15

\* What is sent: packets one after the other.
LEMMA StreamIs ==
  ASSUME NEW messages \in [1 .. NumMessages -> Messages]
  PROVE  LET packets == Packets(messages)
             end     == Ends(packets)
             bytes   == FlattenSeq(packets)
         IN  /\ \A k \in 1 .. NumMessages :
                  /\ WellFormed(messages[k])
                  /\ packets[k] = EncodeTinyPB(messages[k])
                  /\ packets[k] \in Seq(Bytes)
                  /\ Len(packets[k]) = PkLen(WithId(messages[k]))
                  /\ Len(packets[k]) \in Nat \ {0}
                  /\ end[k] = end[k - 1] + Len(packets[k])
                  /\ \A q \in 1 .. Len(packets[k]) : bytes[end[k - 1] + q] = packets[k][q]
             /\ end \in [0 .. NumMessages -> Nat] /\ end[0] = 0
             /\ \A j, k \in 0 .. NumMessages : j < k => end[j] < end[k]
             /\ bytes \in Seq(Bytes) /\ Len(bytes) = end[NumMessages]
<1> DEFINE packets == Packets(messages)
           N == NumMessages
<1>1. N \in Nat /\ BufferSize \in Nat
  BY MessagesAssumption
<1>2. ASSUME NEW k \in 1 .. N
      PROVE  /\ WellFormed(messages[k])
             /\ packets[k] = EncodeTinyPB(messages[k])
             /\ packets[k] \in Seq(Bytes)
             /\ Len(packets[k]) = PkLen(WithId(messages[k]))
             /\ Len(packets[k]) \in Nat \ {0}
  <2>1. WellFormed(messages[k])
    BY MessagesAssumption
  <2>2. packets[k] = EncodeTinyPB(messages[k])
    BY DEF Packets
  <2>3. packets[k] \in Seq(Bytes) /\ Len(packets[k]) = PkLen(WithId(messages[k]))
    <3> HIDE DEF packets
    <3> QED
      BY <2>1, <2>2, EncodeIs
  <2>4. PkLen(WithId(messages[k])) \in Nat \ {0}
    <3> DEFINE w == WithId(messages[k])
    <3>1. /\ Len(w.msg_id) \in Nat /\ Len(w.method_name) \in Nat
          /\ Len(w.err_info) \in Nat /\ Len(w.pb_data) \in Nat
      BY <2>1, WithIdIs
    <3>2. IntSize \in Nat
      BY IntegersAssumption
    <3> HIDE DEF w
    <3>3. PkLen(w) \in Nat \ {0}
      <4> DEFINE l1   == Len(w.msg_id)
                 l2   == Len(w.method_name)
                 l3   == Len(w.err_info)
                 l4   == Len(w.pb_data)
                 head == 6 * IntSize
      <4>1. head \in Nat
        BY <3>2
      <4>2. PkLen(w) = 2 + head + l1 + l2 + l3 + l4
        BY DEF PkLen
      <4> HIDE DEF l1, l2, l3, l4, head
      <4>3. l1 \in Nat /\ l2 \in Nat /\ l3 \in Nat /\ l4 \in Nat
        BY <3>1 DEF l1, l2, l3, l4
      <4> QED
        BY <4>1, <4>2, <4>3
    <3> QED
      BY <3>3 DEF w
  <2> QED
    BY <2>1, <2>2, <2>3, <2>4
<1>3. packets \in [1 .. N -> Seq(Bytes)]
  <2>1. packets = [k \in 1 .. N |-> packets[k]]
    BY DEF Packets
  <2> HIDE DEF packets
  <2> QED
    BY <1>2, <2>1
<1> HIDE DEF packets
<1>4. \A k \in 1 .. N : Len(packets[k]) \in Nat \ {0}
  BY <1>2
<1>5. /\ Ends(packets) \in [0 .. N -> Nat] /\ Ends(packets)[0] = 0
      /\ \A k \in 1 .. N : Ends(packets)[k] = Ends(packets)[k - 1] + Len(packets[k])
  BY <1>4, EndsIs
<1>6. \A j, k \in 0 .. N : j < k => Ends(packets)[j] < Ends(packets)[k]
  BY <1>4, EndsGrow
<1>7. /\ Len(FlattenSeq(packets)) = Ends(packets)[N]
      /\ \A k \in 1 .. N : \A q \in 1 .. Len(packets[k]) :
           FlattenSeq(packets)[Ends(packets)[k - 1] + q] = packets[k][q]
  BY <1>3, <1>4, StreamBytes
<1>8. FlattenSeq(packets) \in Seq(Bytes)
  <2>1. packets \in Seq(Seq(Bytes))
    BY <1>1, <1>3
  <2> QED
    BY <2>1, FlattenType
<1> QED
  BY <1>2, <1>5, <1>6, <1>7, <1>8 DEF packets

\* Where TCP may cut.
LEMMA CutPlace ==
  ASSUME NEW messages \in [1 .. NumMessages -> Messages],
         NEW n \in MayCut(messages, Packets(messages))
  PROVE  LET end == Ends(Packets(messages))
         IN  /\ n \in Nat /\ n <= end[NumMessages]
             /\ \A j \in 0 .. NumMessages - 1 : end[j] < n /\ n < end[j + 1] =>
                  /\ messages[j + 1] \in Divisible
                  /\ CutLengths \/ n - end[j] \notin 2 .. IntSize
<1> DEFINE end == Ends(Packets(messages))
           N == NumMessages
           Inside(k) == IF messages[k] \in Divisible
                        THEN end[k - 1] + 1 .. end[k] ELSE {end[k]}
<1>1. N \in Nat /\ IntSize \in Nat
  BY MessagesAssumption, IntegersAssumption
<1>2. /\ end \in [0 .. N -> Nat]
      /\ \A j, k \in 0 .. N : j < k => end[j] < end[k]
  BY StreamIs
<1>3. /\ n \in UNION {Inside(k) : k \in 1 .. N}
      /\ CutLengths \/ \A k \in 0 .. N - 1 : n - end[k] \notin 2 .. IntSize
  BY DEF MayCut
<1> HIDE DEF end
<1>4. PICK k \in 1 .. N : n \in Inside(k)
  BY <1>3
<1>5. k \in 0 .. N /\ k - 1 \in 0 .. N /\ end[k] \in Nat /\ end[k - 1] \in Nat
      /\ end[N] \in Nat
  BY <1>1, <1>2
<1>6. n \in Nat /\ n <= end[k] /\ end[k - 1] < n
      /\ (messages[k] \in Divisible \/ n = end[k])
  <2>1. end[k - 1] < end[k]
    BY <1>2, <1>5
  <2> QED
    BY <1>4, <1>5, <2>1
<1>7. end[k] <= end[N]
  <2>1. CASE k = N
    BY <1>5, <2>1
  <2>2. CASE k < N
    BY <1>1, <1>2, <1>5, <2>2
  <2> QED
    BY <1>1, <2>1, <2>2
<1>8. ASSUME NEW j \in 0 .. N - 1, end[j] < n, n < end[j + 1]
      PROVE  /\ messages[j + 1] \in Divisible
             /\ CutLengths \/ n - end[j] \notin 2 .. IntSize
  <2>1. j \in 0 .. N /\ j + 1 \in 0 .. N /\ end[j] \in Nat /\ end[j + 1] \in Nat
    BY <1>1, <1>2
  <2>2. ~ (k < j + 1)
    <3> SUFFICES ASSUME k < j + 1 PROVE FALSE
      OBVIOUS
    <3>1. k < j \/ k = j
      BY <2>1
    <3>2. end[k] <= end[j]
      BY <1>2, <1>5, <2>1, <3>1
    <3> QED
      BY <1>5, <1>6, <1>8, <2>1, <3>2
  <2>3. ~ (j + 1 < k)
    <3> SUFFICES ASSUME j + 1 < k PROVE FALSE
      OBVIOUS
    <3>1. j + 1 < k - 1 \/ j + 1 = k - 1
      BY <2>1
    <3>2. end[j + 1] <= end[k - 1]
      BY <1>2, <1>5, <2>1, <3>1
    <3> QED
      BY <1>5, <1>6, <1>8, <2>1, <3>2
  <2>4. k = j + 1
    BY <2>1, <2>2, <2>3
  <2>5. messages[j + 1] \in Divisible
    BY <1>5, <1>6, <1>8, <2>1, <2>4
  <2> QED
    BY <1>3, <2>5
<1>9. n <= end[N]
  BY <1>5, <1>6, <1>7
<1> QED
  BY <1>6, <1>8, <1>9 DEF end

\* The first j messages have been given out, and the rest of what has been read can
\* still be read from the buffer.
Decoded(j) ==
  LET at == Ends(Packets(sent))[j]
  IN  /\ at <= received
      /\ out_messages = [k \in 1 .. j |-> WithId(sent[k])]
      /\ ReadAble(m_in_buffer) = received - at
      /\ Readable(m_in_buffer) = [q \in 1 .. received - at |-> stream[at + q]]

\* No packet is left behind or taken twice: this is what keeps the messages in order.
PacketInv ==
  /\ sent \in [1 .. NumMessages -> Messages]
  /\ stream = FlattenSeq(Packets(sent))
  /\ cuts = MayCut(sent, Packets(sent))
  /\ received = 0 \/ received \in cuts
  /\ GoodBuffer(m_in_buffer) /\ Blank(m_in_buffer)
  /\ m_in_buffer.size = BufferSize /\ m_in_buffer.w + IntSize < BufferSize
  /\ \E j \in 0 .. NumMessages : Decoded(j)

\* What it says of the numbers.
LEMMA PacketBounds ==
  ASSUME PacketInv
  PROVE  /\ received \in Nat /\ received <= Len(stream)
         /\ Len(stream) \in Nat /\ stream \in Seq(Bytes)
         /\ Len(stream) = Ends(Packets(sent))[NumMessages]
         /\ IntSize \in Nat /\ NumMessages \in Nat
         /\ m_in_buffer.r \in Nat /\ m_in_buffer.w \in Nat /\ m_in_buffer.size \in Nat
         /\ m_in_buffer.r <= m_in_buffer.w
         /\ m_in_buffer.w + IntSize < m_in_buffer.size
<1>1. NumMessages \in Nat /\ BufferSize \in Nat /\ IntSize \in Nat
  BY MessagesAssumption, IntegersAssumption
<1>2. /\ Len(stream) = Ends(Packets(sent))[NumMessages]
      /\ stream \in Seq(Bytes)
  BY StreamIs DEF PacketInv
<1>3. Len(stream) \in Nat
  BY <1>2
<1>4. received \in Nat /\ received <= Len(stream)
  <2>1. CASE received = 0
    BY <1>3, <2>1
  <2>2. CASE received \in MayCut(sent, Packets(sent))
    BY <1>2, <2>2, CutPlace DEF PacketInv
  <2> QED
    BY <2>1, <2>2 DEF PacketInv
<1>5. /\ m_in_buffer.r \in Nat /\ m_in_buffer.w \in Nat /\ m_in_buffer.size = BufferSize
      /\ m_in_buffer.r <= m_in_buffer.w /\ m_in_buffer.w + IntSize < BufferSize
  BY DEF PacketInv, GoodBuffer, IsBuffer
<1>6. m_in_buffer.w + IntSize < m_in_buffer.size
  BY <1>5
<1> QED
  BY <1>1, <1>2, <1>3, <1>4, <1>5, <1>6

\* A read adds the next bytes of the stream.
LEMMA ReceivePackets ==
  ASSUME PacketInv, NEW n \in cuts, Receive(n)
  PROVE  PacketInv'
<1> DEFINE b == m_in_buffer
           bytes == SubSeq(stream, received + 1, n)
           len == n - received
           d == [Fill(b, bytes) EXCEPT !.w = @ + len]
<1>1. /\ n > received /\ received' = n /\ len + IntSize < WriteAble(b)
      /\ m_in_buffer' = MoveWriteIndex(Fill(b, bytes), Len(bytes))
      /\ UNCHANGED <<sent, stream, cuts, out_messages>>
  BY DEF Receive
<1>2. /\ received \in Nat /\ stream \in Seq(Bytes) /\ Len(stream) \in Nat
      /\ IntSize \in Nat
      /\ b.r \in Nat /\ b.w \in Nat /\ b.size \in Nat /\ b.r <= b.w
      /\ b.size = BufferSize
      /\ GoodBuffer(b) /\ Blank(b)
  BY PacketBounds DEF PacketInv
<1>3. n \in Nat /\ n <= Len(stream)
  BY CutPlace, PacketBounds DEF PacketInv
<1>4. /\ bytes \in [1 .. len -> Nat] /\ Len(bytes) = len /\ len \in Nat
      /\ \A q \in 1 .. len : bytes[q] = stream[received + q]
  <2>1. received + 1 \in 1 .. Len(stream) + 1 /\ n \in (received + 1) - 1 .. Len(stream)
        /\ n - (received + 1) + 1 = len /\ len \in Nat
    BY <1>1, <1>2, <1>3
  <2>2. /\ bytes \in Seq(Bytes) /\ Len(bytes) = len
        /\ \A q \in 1 .. len : bytes[q] = stream[(received + 1) + q - 1]
    <3> HIDE DEF len
    <3> QED
      BY <1>2, <2>1, SubSeqProperties
  <2>3. \A q \in 1 .. len : (received + 1) + q - 1 = received + q
    BY <1>2, <2>1
  <2>4. \A q \in 1 .. len : bytes[q] \in Nat
    <3> SUFFICES ASSUME NEW q \in 1 .. len PROVE bytes[q] \in Nat
      OBVIOUS
    <3> HIDE DEF bytes
    <3>1. bytes[q] \in Bytes
      BY <2>2, ElementOfSeq
    <3> QED
      BY <3>1, IntegersAssumption DEF Bytes
  <2>5. bytes = [q \in 1 .. len |-> bytes[q]]
    <3> HIDE DEF bytes
    <3> QED
      BY <2>2, LenProperties
  <2> HIDE DEF bytes, len
  <2> QED
    BY <2>1, <2>2, <2>3, <2>4, <2>5
<1>5. len <= WriteAble(b) /\ b.w + len + IntSize < b.size
  BY <1>1, <1>2, <1>3 DEF WriteAble
<1> HIDE DEF bytes, b, len
<1>6. /\ GoodBuffer(d) /\ Readable(d) = Extended(b, len, bytes)
      /\ Fill(b, bytes).w = b.w /\ Fill(b, bytes).size = b.size
  BY <1>2, <1>4, <1>5, FillGood
<1>7. Blank(d) /\ d.w = b.w + len /\ d.r = b.r /\ d.size = b.size
  <2>1. DOMAIN b.cells = 0 .. b.size - 1
    BY <1>2 DEF GoodBuffer, IsBuffer
  <2>2. b = [cells |-> b.cells, size |-> b.size, r |-> b.r, w |-> b.w]
    BY <1>2 DEF GoodBuffer, IsBuffer
  <2> DEFINE c == [i \in 0 .. b.size - 1 |-> IF i >= b.w /\ i < b.w + len
                                             THEN bytes[i - b.w + 1] ELSE b.cells[i]]
  <2>3. Fill(b, bytes) = [b EXCEPT !.cells = c]
    BY <1>4, <2>1 DEF Fill
  <2> HIDE DEF c
  <2>4. Fill(b, bytes) = [cells |-> c, size |-> b.size, r |-> b.r, w |-> b.w]
    BY <2>2, <2>3
  <2>5. d = [cells |-> c, size |-> b.size, r |-> b.r, w |-> b.w + len]
    BY <2>4
  <2>6. d.cells = c /\ d.size = b.size /\ d.r = b.r /\ d.w = b.w + len
    BY <2>5
  <2> HIDE DEF d
  <2>7. ASSUME NEW i \in d.w .. d.size - 1 PROVE d.cells[i] = 0
    <3>1. /\ i \in 0 .. b.size - 1 /\ ~ (i < b.w + len) /\ i \in b.w .. b.size - 1
      BY <1>2, <1>4, <2>6
    <3>2. c[i] = b.cells[i]
      BY <3>1 DEF c
    <3> QED
      BY <1>2, <2>6, <3>1, <3>2 DEF Blank
  <2> QED
    BY <2>6, <2>7 DEF Blank
<1>8. m_in_buffer' = AdjustBuffer(d)
  <2>1. ~ (Fill(b, bytes).w + Len(bytes) >= Fill(b, bytes).size)
    BY <1>2, <1>4, <1>5, <1>6
  <2>2. Len(bytes) = len
    BY <1>4
  <2> QED
    BY <1>1, <2>1, <2>2 DEF MoveWriteIndex, b
<1> HIDE DEF d
<1>9. LET a == AdjustBuffer(d)
      IN  GoodBuffer(a) /\ a.size = d.size /\ a.w <= d.w /\ Blank(a)
          /\ ReadAble(a) = ReadAble(d) /\ Readable(a) = Readable(d)
  BY <1>6, <1>7, AdjustBlank
<1>10. /\ GoodBuffer(m_in_buffer') /\ Blank(m_in_buffer')
       /\ (m_in_buffer').size = b.size /\ (m_in_buffer').w <= b.w + len
       /\ ReadAble(m_in_buffer') = ReadAble(d)
       /\ Readable(m_in_buffer') = Extended(b, len, bytes)
  BY <1>6, <1>7, <1>8, <1>9
<1>11. b.w + len + IntSize < BufferSize
  BY <1>2, <1>5
<1>12. PICK j \in 0 .. NumMessages : Decoded(j)
  BY DEF PacketInv
<1> DEFINE at == Ends(Packets(sent))[j]
<1>13. /\ at <= received /\ at \in Nat
       /\ out_messages = [k \in 1 .. j |-> WithId(sent[k])]
       /\ ReadAble(b) = received - at
       /\ Readable(b) = [q \in 1 .. received - at |-> stream[at + q]]
  <2>1. Ends(Packets(sent)) \in [0 .. NumMessages -> Nat]
    BY StreamIs DEF PacketInv
  <2> QED
    BY <1>12, <2>1 DEF Decoded, b
<1> HIDE DEF at
<1>14. ReadAble(d) = n - at
  <2>1. d.w = b.w + (n - received) /\ d.r = b.r
    BY <1>7 DEF len
  <2>2. b.w - b.r = received - at
    BY <1>13 DEF ReadAble
  <2>3. ReadAble(d) = d.w - d.r
    BY DEF ReadAble
  <2>4. /\ b.w \in Int /\ b.r \in Int /\ received \in Int /\ n \in Int /\ at \in Int
    BY <1>2, <1>3, <1>13
  <2>5. (b.w + (n - received)) - b.r = n - at
    BY <2>2, <2>4
  <2> QED
    BY <2>1, <2>3, <2>5
<1>15. Extended(b, len, bytes) = [q \in 1 .. n - at |-> stream[at + q]]
  <2>1. ReadAble(b) + len = n - at /\ ReadAble(b) \in Nat
    BY <1>2, <1>3, <1>13 DEF len
  <2>2. ASSUME NEW q \in 1 .. n - at
        PROVE  (IF q <= ReadAble(b) THEN Readable(b)[q] ELSE bytes[q - ReadAble(b)])
                 = stream[at + q]
    <3>1. CASE q <= ReadAble(b)
      <4>1. q \in 1 .. received - at
        BY <1>13, <3>1
      <4> QED
        BY <1>13, <3>1, <4>1
    <3>2. CASE ~ (q <= ReadAble(b))
      <4>1. q - ReadAble(b) \in 1 .. len /\ received + (q - ReadAble(b)) = at + q
        <5> DEFINE x == ReadAble(b)
        <5>1. /\ x \in Nat /\ x = received - at /\ x + len = n - at /\ q \in Nat /\ q <= n - at
              /\ received \in Nat /\ at \in Nat /\ n \in Nat /\ ~ (q <= x)
          BY <1>2, <1>3, <1>13, <2>1, <3>2
        <5>2. len \in Int
          BY <1>4
        <5> HIDE DEF x
        <5>3. q - x \in 1 .. len /\ received + (q - x) = at + q
          BY <5>1, <5>2
        <5> QED
          BY <5>3 DEF x
      <4> QED
        BY <1>4, <3>2, <4>1
    <3> QED
      BY <3>1, <3>2
  <2> QED
    BY <2>1, <2>2 DEF Extended
<1>16. Decoded(j)'
  <2>1. at <= n
    BY <1>1, <1>2, <1>3, <1>13
  <2> QED
    BY <1>1, <1>10, <1>13, <1>14, <1>15, <2>1 DEF Decoded, at
<1> QED
  <2>1. /\ (sent \in [1 .. NumMessages -> Messages])'
        /\ (stream = FlattenSeq(Packets(sent)))'
        /\ (cuts = MayCut(sent, Packets(sent)))'
        /\ received' \in cuts'
    BY <1>1 DEF PacketInv
  <2>2. GoodBuffer(m_in_buffer)' /\ Blank(m_in_buffer)'
    BY <1>10 DEF GoodBuffer, IsBuffer, Blank
  <2>3. (m_in_buffer.size = BufferSize)' /\ (m_in_buffer.w + IntSize < BufferSize)'
    <3>1. (m_in_buffer').w \in Nat
      BY <1>10 DEF GoodBuffer, IsBuffer
    <3>2. b.w + len \in Nat /\ n \in Nat
      BY <1>2, <1>3, <1>4
    <3> QED
      BY <1>2, <1>10, <1>11, <3>1, <3>2
  <2> QED
    BY <1>16, <2>1, <2>2, <2>3 DEF PacketInv

\* What can be read when j messages have been given out.
LEMMA DecodedCells ==
  ASSUME PacketInv, NEW j \in 0 .. NumMessages, Decoded(j)
  PROVE  LET at == Ends(Packets(sent))[j]
         IN  /\ at \in Nat /\ at <= received
             /\ ReadAble(m_in_buffer) = received - at
             /\ m_in_buffer.w = m_in_buffer.r + (received - at)
             /\ out_messages = [k \in 1 .. j |-> WithId(sent[k])]
             /\ \A q \in 1 .. received - at :
                  m_in_buffer.cells[m_in_buffer.r + q - 1] = stream[at + q]
<1> DEFINE at == Ends(Packets(sent))[j]
<1>1. at \in Nat
  <2>1. Ends(Packets(sent)) \in [0 .. NumMessages -> Nat]
    BY StreamIs DEF PacketInv
  <2> QED
    BY <2>1
<1>2. /\ at <= received
      /\ ReadAble(m_in_buffer) = received - at
      /\ out_messages = [k \in 1 .. j |-> WithId(sent[k])]
      /\ Readable(m_in_buffer) = [q \in 1 .. received - at |-> stream[at + q]]
  BY DEF Decoded
<1> HIDE DEF at
<1>3. ASSUME NEW q \in 1 .. received - at
      PROVE  m_in_buffer.cells[m_in_buffer.r + q - 1] = stream[at + q]
  <2>1. Readable(m_in_buffer)[q] = stream[at + q]
    BY <1>2
  <2>2. Readable(m_in_buffer)[q] = m_in_buffer.cells[m_in_buffer.r + q - 1]
    BY <1>2 DEF Readable
  <2> QED
    BY <2>1, <2>2
<1>4. m_in_buffer.w = m_in_buffer.r + (received - at)
  BY <1>1, <1>2, PacketBounds DEF ReadAble
<1> QED
  BY <1>1, <1>2, <1>3, <1>4 DEF at

\* What StreamIs says of one message, and of what has come.
LEMMA PacketOf ==
  ASSUME PacketInv, NEW j \in 0 .. NumMessages - 1
  PROVE  LET m == sent[j + 1]
             l == PkLen(WithId(m))
         IN  /\ WellFormed(m)
             /\ Len(EncodeTinyPB(m)) = l /\ l \in Nat \ {0}
             /\ Ends(Packets(sent))[j + 1] = Ends(Packets(sent))[j] + l
             /\ \A q \in 1 .. l :
                  stream[Ends(Packets(sent))[j] + q] = EncodeTinyPB(m)[q]
<1> DEFINE k == j + 1
           packet == Packets(sent)[k]
<1>1. k \in 1 .. NumMessages /\ k - 1 = j
  BY MessagesAssumption
<1>2. sent \in [1 .. NumMessages -> Messages] /\ stream = FlattenSeq(Packets(sent))
  BY DEF PacketInv
<1> HIDE DEF k
<1>3. /\ WellFormed(sent[k])
      /\ packet = EncodeTinyPB(sent[k])
      /\ Len(packet) = PkLen(WithId(sent[k])) /\ Len(packet) \in Nat \ {0}
      /\ Ends(Packets(sent))[k] = Ends(Packets(sent))[k - 1] + Len(packet)
      /\ \A q \in 1 .. Len(packet) :
           FlattenSeq(Packets(sent))[Ends(Packets(sent))[k - 1] + q] = packet[q]
  BY <1>1, <1>2, StreamIs
<1> HIDE DEF packet
<1> QED
  BY <1>1, <1>2, <1>3 DEF k

\* A packet that has come is taken off, and its message given out.
LEMMA DecodeWhole ==
  ASSUME PacketInv, NEW oob, DecodePacket(oob),
         NEW j \in 0 .. NumMessages - 1, Decoded(j),
         Ends(Packets(sent))[j + 1] <= received
  PROVE  PacketInv'
<1> DEFINE b   == m_in_buffer
           end == Ends(Packets(sent))
           at  == end[j]
           m   == sent[j + 1]
           l   == PkLen(WithId(m))
           d   == [b EXCEPT !.r = @ + l]
<1>1. /\ NumMessages \in Nat /\ IntSize \in Nat /\ received \in Nat
      /\ b.r \in Nat /\ b.w \in Nat /\ b.size \in Nat /\ b.w + IntSize < b.size
      /\ GoodBuffer(b) /\ Blank(b) /\ b.size = BufferSize
  BY PacketBounds DEF PacketInv
<1>2. j \in 0 .. NumMessages /\ j + 1 \in 1 .. NumMessages /\ (j + 1) - 1 = j
  BY <1>1
<1>3. /\ WellFormed(m)
      /\ Len(EncodeTinyPB(m)) = l /\ l \in Nat \ {0} /\ end[j + 1] = at + l
      /\ \A q \in 1 .. l : stream[at + q] = EncodeTinyPB(m)[q]
  BY PacketOf
<1>4. /\ at \in Nat /\ at <= received
      /\ ReadAble(b) = received - at
      /\ b.w = b.r + (received - at)
      /\ out_messages = [k \in 1 .. j |-> WithId(sent[k])]
      /\ \A q \in 1 .. received - at : b.cells[b.r + q - 1] = stream[at + q]
  BY <1>2, DecodedCells
<1>5. /\ \E start \in FirstPacket(b, oob) :
           /\ m_in_buffer' = MoveReadIndex(b, EndOf(b, start, oob) - start + 1)
           /\ out_messages' = out_messages \o Split(b, start, oob)
      /\ UNCHANGED <<sent, stream, cuts, received, decoding>>
  BY DEF DecodePacket
<1>6. end[j + 1] <= received
  OBVIOUS
<1>7. Readable(b) = [q \in 1 .. received - at |-> stream[at + q]]
  BY DEF Decoded
<1> HIDE DEF b, end, at, m, l
<1>8. l <= received - at /\ b.r + l <= b.w /\ b.r + l < b.size
  BY <1>1, <1>3, <1>4, <1>6
<1>9. Holds(b, b.r, EncodeTinyPB(m))
  <2>1. \A q \in 1 .. l : q \in 1 .. received - at
    BY <1>1, <1>3, <1>4, <1>8
  <2> QED
    BY <1>3, <1>4, <2>1 DEF Holds
<1>10. /\ FirstPacket(b, oob) = {b.r}
       /\ EndOf(b, b.r, oob) = b.r + l - 1
       /\ Split(b, b.r, oob) = <<WithId(m)>>
  <2>1. b.r + PkLen(WithId(m)) <= b.w
    BY <1>8 DEF l
  <2> QED
    BY <1>1, <1>3, <1>9, <2>1, DecodesPacket DEF l
<1>11. m_in_buffer' = AdjustBuffer(d) /\ out_messages' = out_messages \o <<WithId(m)>>
  <2>1. /\ m_in_buffer' = MoveReadIndex(b, EndOf(b, b.r, oob) - b.r + 1)
        /\ out_messages' = out_messages \o <<WithId(m)>>
    BY <1>5, <1>10
  <2>2. EndOf(b, b.r, oob) - b.r + 1 = l
    BY <1>1, <1>3, <1>10
  <2>3. b.r + l \in 0 .. b.size - 1
    BY <1>1, <1>3, <1>8
  <2> QED
    BY <2>1, <2>2, <2>3 DEF MoveReadIndex
<1>12. /\ GoodBuffer(d) /\ Blank(d) /\ d.size = b.size /\ d.w = b.w
  <2>1. d = [cells |-> b.cells, size |-> b.size, r |-> b.r + l, w |-> b.w]
    BY <1>1 DEF GoodBuffer, IsBuffer
  <2> HIDE DEF d
  <2>2. d.cells = b.cells /\ d.size = b.size /\ d.r = b.r + l /\ d.w = b.w
    BY <2>1
  <2> QED
    BY <1>1, <1>3, <1>8, <2>1, <2>2 DEF GoodBuffer, IsBuffer, Blank
<1> HIDE DEF d
<1>13. /\ GoodBuffer(AdjustBuffer(d)) /\ Blank(AdjustBuffer(d))
       /\ AdjustBuffer(d).size = b.size /\ AdjustBuffer(d).w <= b.w
  BY <1>12, AdjustBlank
<1>14. /\ ReadAble(AdjustBuffer(d)) = ReadAble(b) - l
       /\ Readable(AdjustBuffer(d)) = Shortened(b, l)
  <2>1. l \in Nat /\ l <= ReadAble(b)
    BY <1>3, <1>4, <1>8
  <2> QED
    BY <1>1, <2>1, TakeGood DEF d
<1>15. Decoded(j + 1)'
  <2>1. out_messages' = [k \in 1 .. j + 1 |-> WithId(sent[k])]
    <3> DEFINE x == [k \in 1 .. j |-> WithId(sent[k])]
    <3>1. x \o <<WithId(m)>> = [k \in 1 .. j + 1 |-> WithId(sent[k])]
      <4>1. Len(x) = j /\ j \in Nat
        BY <1>2
      <4>2. x \o <<WithId(m)>> =
              [k \in 1 .. j + 1 |-> IF k <= j THEN x[k] ELSE <<WithId(m)>>[k - j]]
        <5> HIDE DEF x
        <5>1. Len(<<WithId(m)>>) = 1
          OBVIOUS
        <5> QED
          BY <4>1, <5>1 
      <4>3. ASSUME NEW k \in 1 .. j + 1
            PROVE  (IF k <= j THEN x[k] ELSE <<WithId(m)>>[k - j]) = WithId(sent[k])
        <5>1. CASE k <= j
          BY <5>1
        <5>2. CASE ~ (k <= j)
          <6>1. k = j + 1 /\ k - j = 1
            BY <4>1, <5>2
          <6> QED
            BY <5>2, <6>1 DEF m
        <5> QED
          BY <5>1, <5>2
      <4> HIDE DEF x
      <4> QED
        BY <4>2, <4>3
    <3> QED
      BY <1>4, <1>11, <3>1
  <2>2. (ReadAble(m_in_buffer))' = received - end[j + 1]
    <3>1. ReadAble(m_in_buffer)' = ReadAble(b) - l
      BY <1>11, <1>14 DEF ReadAble
    <3> QED
      BY <1>1, <1>3, <1>4, <3>1
  <2>3. (Readable(m_in_buffer))' =
          [q \in 1 .. received - end[j + 1] |-> stream[end[j + 1] + q]]
    <3>1. Readable(m_in_buffer)' = Shortened(b, l)
      BY <1>11, <1>14 DEF Readable, ReadAble
    <3>2. ReadAble(b) - l = received - end[j + 1]
      BY <1>1, <1>3, <1>4
    <3>3. ASSUME NEW q \in 1 .. received - end[j + 1]
          PROVE  Readable(b)[l + q] = stream[end[j + 1] + q]
      <4>1. l + q \in 1 .. received - at /\ at + (l + q) = end[j + 1] + q
        BY <1>1, <1>3, <1>4, <1>8
      <4> QED
        BY <1>7, <4>1
    <3> QED
      BY <3>1, <3>2, <3>3 DEF Shortened
  <2>4. end[j + 1] <= received' /\ received' = received
        /\ Ends(Packets(sent))' = end /\ stream' = stream
        /\ [k \in 1 .. j + 1 |-> WithId(sent[k])]' = [k \in 1 .. j + 1 |-> WithId(sent[k])]
    <3>1. sent' = sent
      BY <1>5
    <3> QED
      BY <1>5, <1>6, <3>1 DEF end
  <2> QED
    BY <2>1, <2>2, <2>3, <2>4 DEF Decoded
<1> QED
  <2>1. /\ (sent \in [1 .. NumMessages -> Messages])'
        /\ (stream = FlattenSeq(Packets(sent)))'
        /\ (cuts = MayCut(sent, Packets(sent)))'
        /\ (received = 0 \/ received \in cuts)'
    BY <1>5 DEF PacketInv
  <2>2. GoodBuffer(m_in_buffer)' /\ Blank(m_in_buffer)'
    BY <1>11, <1>13 DEF GoodBuffer, IsBuffer, Blank
  <2>3. (m_in_buffer.size = BufferSize)' /\ (m_in_buffer.w + IntSize < BufferSize)'
    <3>1. AdjustBuffer(d).w \in Nat
      BY <1>13 DEF GoodBuffer, IsBuffer
    <3> QED
      BY <1>1, <1>5, <1>11, <1>13, <3>1
  <2>4. j + 1 \in 0 .. NumMessages
    BY <1>2
  <2> QED
    BY <1>15, <2>1, <2>2, <2>3, <2>4 DEF PacketInv

\* Of a packet that has not come whole nothing is taken but an empty packet.
LEMMA DecodePiece ==
  ASSUME PacketInv, NEW oob, DecodePacket(oob),
         NEW j \in 0 .. NumMessages, Decoded(j),
         ~ (j < NumMessages /\ Ends(Packets(sent))[j + 1] <= received)
  PROVE  PacketInv'
<1> DEFINE b   == m_in_buffer
           end == Ends(Packets(sent))
           at  == end[j]
           m   == sent[j + 1]
           l   == PkLen(WithId(m))
<1>1. /\ NumMessages \in Nat /\ IntSize \in Nat /\ received \in Nat
      /\ b.r \in Nat /\ b.w \in Nat /\ b.size \in Nat /\ b.w + IntSize < b.size
      /\ GoodBuffer(b) /\ Blank(b) /\ b.size = BufferSize
      /\ received <= end[NumMessages]
      /\ received = 0 \/ received \in MayCut(sent, Packets(sent))
      /\ sent \in [1 .. NumMessages -> Messages]
  BY PacketBounds DEF PacketInv
<1>2. /\ at \in Nat /\ at <= received
      /\ ReadAble(b) = received - at
      /\ b.w = b.r + (received - at)
      /\ \A q \in 1 .. received - at : b.cells[b.r + q - 1] = stream[at + q]
  BY DecodedCells
<1>3. /\ UNCHANGED <<sent, stream, cuts, received, decoding>>
      /\ \E start \in FirstPacket(b, oob) :
           /\ m_in_buffer' = MoveReadIndex(b, EndOf(b, start, oob) - start + 1)
           /\ out_messages' = out_messages \o Split(b, start, oob)
  BY DEF DecodePacket
<1>4. PICK start \in FirstPacket(b, oob) :
           /\ m_in_buffer' = MoveReadIndex(b, EndOf(b, start, oob) - start + 1)
           /\ out_messages' = out_messages \o Split(b, start, oob)
  BY <1>3
<1>5. start \in b.r .. b.w - 1
  BY DEF FirstPacket
<1> HIDE DEF at, b
<1>6. at < received /\ start \in Nat
  BY <1>1, <1>2, <1>5
<1>7. j < NumMessages /\ j + 1 \in 1 .. NumMessages /\ (j + 1) - 1 = j
      /\ j \in 0 .. NumMessages - 1
  <2>1. j # NumMessages
    BY <1>1, <1>2, <1>6 DEF at
  <2> QED
    BY <1>1, <2>1
<1>8. ~ (end[j + 1] <= received)
  BY <1>7
<1>9. /\ Len(EncodeTinyPB(m)) = l /\ l \in Nat \ {0} /\ end[j + 1] = at + l
      /\ \A q \in 1 .. l : stream[at + q] = EncodeTinyPB(m)[q]
  BY <1>7, PacketOf DEF at
<1>10. received \in MayCut(sent, Packets(sent))
  BY <1>1, <1>2, <1>6
<1>11. m \in Divisible /\ (CutLengths \/ received - at \notin 2 .. IntSize)
  <2>1. end[j] < received /\ received < end[j + 1]
    BY <1>1, <1>2, <1>6, <1>8, <1>9 DEF at
  <2> QED
    BY <1>1, <1>7, <1>10, <2>1, CutPlace DEF at
<1> HIDE DEF m, l, end
<1>12. HoldsPiece(b, m)
  <2>1. 0 < ReadAble(b) /\ ReadAble(b) < Len(EncodeTinyPB(m))
    BY <1>1, <1>2, <1>6, <1>8, <1>9
  <2>2. ASSUME NEW k \in 1 .. ReadAble(b) PROVE b.cells[b.r + k - 1] = EncodeTinyPB(m)[k]
    <3>1. k \in 1 .. received - at /\ k \in 1 .. l
      BY <1>1, <1>2, <1>9, <2>1
    <3> QED
      BY <1>2, <1>9, <3>1
  <2>3. b.w + IntSize <= b.size
    BY <1>1
  <2> QED
    BY <1>1, <1>2, <1>11, <2>1, <2>2, <2>3 DEF HoldsPiece
<1>13. IntAt(b, start + 1, oob) = 0
  BY <1>11, <1>12, PieceOnly
<1>14. m_in_buffer' = AdjustBuffer(b) /\ out_messages' = out_messages
  <2>1. b.r < b.size
    BY <1>1, <1>2
  <2>2. /\ Split(b, start, oob) = <<>>
        /\ MoveReadIndex(b, EndOf(b, start, oob) - start + 1) = AdjustBuffer(b)
    BY <1>1, <1>6, <1>13, <2>1, EmptyPacket
  <2>3. out_messages \o <<>> = out_messages
    <3>1. out_messages = [k \in 1 .. j |-> WithId(sent[k])]
      BY DecodedCells
    <3> DEFINE S == {WithId(sent[q]) : q \in 1 .. j}
    <3>2. /\ j \in Nat
          /\ \A k \in 1 .. j : WithId(sent[k]) \in S
      BY <1>1
    <3> HIDE DEF S
    <3>3. out_messages \in [1 .. j -> S]
      BY <3>1, <3>2
    <3>4. out_messages \in Seq(S)
      BY <3>2, <3>3
    <3> QED
      BY <3>4, ConcatEmptySeq
  <2> QED
    BY <1>4, <2>2, <2>3
<1>15. /\ GoodBuffer(AdjustBuffer(b)) /\ Blank(AdjustBuffer(b))
       /\ AdjustBuffer(b).size = b.size /\ AdjustBuffer(b).w <= b.w
       /\ ReadAble(AdjustBuffer(b)) = ReadAble(b)
       /\ Readable(AdjustBuffer(b)) = Readable(b)
  BY <1>1, AdjustBlank
<1>16. Decoded(j)'
  <2>1. ReadAble(m_in_buffer)' = ReadAble(b) /\ Readable(m_in_buffer)' = Readable(b)
    BY <1>14, <1>15 DEF ReadAble, Readable
  <2> QED
    BY <1>3, <1>14, <2>1 DEF Decoded, b
<1> QED
  <2>1. /\ (sent \in [1 .. NumMessages -> Messages])'
        /\ (stream = FlattenSeq(Packets(sent)))'
        /\ (cuts = MayCut(sent, Packets(sent)))'
        /\ (received = 0 \/ received \in cuts)'
    BY <1>3 DEF PacketInv
  <2>2. GoodBuffer(m_in_buffer)' /\ Blank(m_in_buffer)'
    BY <1>14, <1>15 DEF GoodBuffer, IsBuffer, Blank
  <2>3. (m_in_buffer.size = BufferSize)' /\ (m_in_buffer.w + IntSize < BufferSize)'
    <3>1. AdjustBuffer(b).w \in Nat
      BY <1>15 DEF GoodBuffer, IsBuffer
    <3> QED
      BY <1>1, <1>3, <1>14, <1>15, <3>1
  <2> QED
    BY <1>16, <2>1, <2>2, <2>3 DEF PacketInv

\* The invariant holds at first, and every step keeps it.
LEMMA PacketInvInductive ==
  /\ Init => PacketInv
  /\ PacketInv /\ [Next]_vars => PacketInv'
<1>1. ASSUME Init PROVE PacketInv
  <2>1. /\ sent \in [1 .. NumMessages -> Messages]
        /\ stream = FlattenSeq(Packets(sent))
        /\ cuts = MayCut(sent, Packets(sent))
        /\ received = 0 /\ m_in_buffer = NewBuffer(BufferSize) /\ out_messages = <<>>
    BY <1>1 DEF Init
  <2>2. /\ NumMessages \in Nat /\ BufferSize \in Nat
        /\ IntSize \in Nat /\ IntSize < BufferSize
    BY MessagesAssumption, IntegersAssumption
  <2> DEFINE c == NewBuffer(BufferSize)
  <2>3. /\ GoodBuffer(c) /\ c.size = BufferSize /\ c.r = 0 /\ c.w = 0 /\ ReadAble(c) = 0
        /\ c.cells = [i \in 0 .. BufferSize - 1 |-> 0]
    BY <2>2, NewGood DEF NewBuffer
  <2> HIDE DEF c
  <2>4. Blank(c)
    BY <2>2, <2>3 DEF Blank
  <2>5. Ends(Packets(sent))[0] = 0
    BY <2>1, StreamIs
  <2>6. Decoded(0)
    <3>1. ReadAble(m_in_buffer) = received - 0 /\ received - 0 = 0
      BY <2>1, <2>3 DEF c
    <3>2. Readable(m_in_buffer) = [q \in 1 .. 0 |-> stream[0 + q]]
      BY <2>1, <2>3, <3>1 DEF Readable, c
    <3>3. out_messages = [k \in 1 .. 0 |-> WithId(sent[k])]
      BY <2>1
    <3> QED
      BY <2>1, <2>5, <3>1, <3>2, <3>3 DEF Decoded
  <2>7. 0 \in 0 .. NumMessages
    BY <2>2
  <2> QED
    <3>1. m_in_buffer.w + IntSize < BufferSize
      BY <2>1, <2>2, <2>3 DEF c
    <3> QED
      BY <2>1, <2>3, <2>4, <2>6, <2>7, <3>1 DEF PacketInv, c
<1>2. ASSUME PacketInv, [Next]_vars PROVE PacketInv'
  <2>5. ASSUME UNCHANGED <<sent, stream, cuts, received, m_in_buffer, out_messages>>
        PROVE  PacketInv'
    <3>1. PICK j \in 0 .. NumMessages : Decoded(j)
      BY <1>2 DEF PacketInv
    <3>2. Decoded(j)'
      BY <2>5, <3>1 DEF Decoded, ReadAble, Readable
    <3>3. GoodBuffer(m_in_buffer)' /\ Blank(m_in_buffer)'
      BY <1>2, <2>5 DEF PacketInv, GoodBuffer, IsBuffer, Blank
    <3> QED
      BY <1>2, <2>5, <3>2, <3>3 DEF PacketInv
  <2>1. CASE UNCHANGED vars
    BY <2>1, <2>5 DEF vars
  <2>2. ASSUME NEW n \in cuts, Receive(n) PROVE PacketInv'
    BY <1>2, <2>2, ReceivePackets
  <2>3. ASSUME NEW oob, DecodeReturn(oob) PROVE PacketInv'
    BY <2>3, <2>5 DEF DecodeReturn
  <2>4. ASSUME NEW oob, DecodePacket(oob) PROVE PacketInv'
    <3>1. PICK j \in 0 .. NumMessages : Decoded(j)
      BY <1>2 DEF PacketInv
    <3>2. CASE j < NumMessages /\ Ends(Packets(sent))[j + 1] <= received
      <4>1. j \in 0 .. NumMessages - 1
        BY <3>2, MessagesAssumption
      <4> QED
        BY <1>2, <2>4, <3>1, <3>2, <4>1, DecodeWhole
    <3>3. CASE ~ (j < NumMessages /\ Ends(Packets(sent))[j + 1] <= received)
      BY <1>2, <2>4, <3>1, <3>3, DecodePiece
    <3> QED
      BY <3>2, <3>3
  <2> QED
    BY <1>2, <2>1, <2>2, <2>3, <2>4 DEF Next, Decode
<1> QED
  BY <1>1, <1>2

\* Only what was sent is given out, and in the order in which it was sent, whatever
\* the messages and however many, as long as the reads leave room in the vector and
\* no piece that misleads: the stream may be longer than the vector (onRead, excute,
\* decode).
THEOREM DecodesInOrder == Spec => []DecodedInOrder
<1>1. PacketInv => DecodedInOrder
  <2> SUFFICES ASSUME PacketInv PROVE DecodedInOrder
    OBVIOUS
  <2>1. PICK j \in 0 .. NumMessages : Decoded(j)
    BY DEF PacketInv
  <2>2. NumMessages \in Nat /\ DOMAIN sent = 1 .. NumMessages /\ j \in Nat /\ j <= NumMessages
    BY MessagesAssumption DEF PacketInv
  <2> DEFINE s == out_messages
             t == Sent
  <2>3. s = [k \in 1 .. j |-> WithId(sent[k])] /\ Len(s) = j
    BY <2>1, <2>2 DEF Decoded
  <2>4. t = [k \in 1 .. NumMessages |-> WithId(sent[k])] /\ Len(t) = NumMessages
    BY <2>2 DEF Sent
  <2> HIDE DEF s, t
  <2>5. SubSeq(s, 1, j) = SubSeq(t, 1, j)
    <3>1. SubSeq(s, 1, j) = [k \in 1 .. j |-> s[k]]
      BY <2>2, <2>3
    <3>2. SubSeq(t, 1, j) = [k \in 1 .. j |-> t[k]]
      BY <2>2, <2>4
    <3>3. \A k \in 1 .. j : s[k] = t[k]
      BY <2>2, <2>3, <2>4
    <3> QED
      BY <3>1, <3>2, <3>3
  <2> QED
    BY <2>2, <2>3, <2>4, <2>5 DEF DecodedInOrder, IsPrefix, s, t
<1> QED
  BY <1>1, PacketInvInductive, PTL DEF Spec

=============================================================================
