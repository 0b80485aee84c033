--------------------------- MODULE BufferTraffic ----------------------------
(***************************************************************************)
(* One TcpBuffer and those who use it.  A coder writes to it and reads     *)
(* from it (writeToBuffer, readFromBuffer: CoderSpec), or a connection     *)
(* receives from its socket into it and the decoder moves the read index   *)
(* (the body of onRead's loop, moveReadIndex: SocketSpec).                 *)
(***************************************************************************)
EXTENDS TcpBuffer

CONSTANTS
  InitSize,   \* the size given to the constructor: 128 in TcpServer and TcpClient
  MaxPut,     \* the largest message
  MaxQueued,  \* BOUND: how much the producer leaves unread
  MaxBytes    \* BOUND: the length of the stream

ASSUME SizesAssumption == /\ InitSize \in Nat \ {0}
                          /\ MaxPut \in Nat \ {0}
                          /\ MaxQueued \in Nat
                          /\ MaxBytes \in Nat

VARIABLES buffer,   \* the TcpBuffer
          next      \* the number of the next byte of the stream

trafficVars == <<buffer, next>>

Stream(n) == [i \in 1 .. n |-> next + i - 1]

TrafficInit == buffer = NewBuffer(InitSize) /\ next = 1

Write(n) ==
  /\ ReadAble(buffer) + n <= MaxQueued
  /\ next + n - 1 <= MaxBytes
  /\ buffer' = WriteToBuffer(buffer, Stream(n))
  /\ next' = next + n

Read(n) ==
  /\ buffer' = ReadFromBuffer(buffer, n)
  /\ UNCHANGED next

\* One turn of the loop of onRead: expand when there is no room, read() from
\* the socket as much as there is room for or less, move the write index.
ReceiveBytes(n) ==
  LET roomy == IF WriteAble(buffer) = 0
               THEN ResizeBuffer(buffer, 2 * buffer.size) ELSE buffer
  IN  /\ n <= WriteAble(roomy)
      /\ next + n - 1 <= MaxBytes
      /\ buffer' = MoveWriteIndex(Fill(roomy, Stream(n)), n)
      /\ next' = next + n

\* decode() has found a packet of n bytes at the read index.
Consume(n) ==
  /\ n <= ReadAble(buffer)
  /\ buffer' = MoveReadIndex(buffer, n)
  /\ UNCHANGED next

CoderNext  == \E n \in 1 .. MaxPut : Write(n) \/ Read(n)
SocketNext == \E n \in 1 .. MaxPut : ReceiveBytes(n) \/ Consume(n)

CoderSpec  == TrafficInit /\ [][CoderNext]_trafficVars
SocketSpec == TrafficInit /\ [][SocketNext]_trafficVars

-----------------------------------------------------------------------------
(* Properties.                                                              *)

\* The indexes stay in order and in the buffer, too: no memcpy of any method leaves
\* m_buffer, in particular none starts from a stale index after a resize.
TypeOK ==
  /\ IsBuffer(buffer)
  /\ buffer.r <= buffer.w /\ buffer.w <= buffer.size
  /\ next \in Nat \ {0}

\* Every byte written is read once, in order, although writing moves the bytes
\* to a larger vector and reading moves them to the front.
Lossless == INSTANCE ByteStream WITH content <- Readable(buffer),
                                     MayDrop <- FALSE

LosslessSpec == Lossless!Spec

\* The bytes received from a socket are decoded in order and none twice, but
\* moveWriteIndex refuses a read that fills the buffer, and its bytes are gone.
Lossy == INSTANCE ByteStream WITH content <- Readable(buffer),
                                  MayDrop <- TRUE

LossySpec == Lossy!Spec

\* A consumer that keeps up keeps the buffer small: the space before the read
\* index is reclaimed before it can make the buffer grow again and again.
Largest(m, n) == IF m < n THEN n ELSE m

MemoryBounded == buffer.size <= Largest(InitSize, (9 * MaxQueued) \div 4)

=============================================================================
