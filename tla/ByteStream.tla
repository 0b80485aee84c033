----------------------------- MODULE ByteStream -----------------------------
(***************************************************************************)
(* What a buffer between a producer and a consumer promises: the bytes of  *)
(* one stream, numbered 1, 2, ..., go in in order and come out in order,   *)
(* none missing and none twice.  With MayDrop, a write may be dropped as a *)
(* whole, which is the only thing that may go wrong.                       *)
(***************************************************************************)
EXTENDS Integers, Sequences

CONSTANTS MaxPut,   \* the largest write
          MayDrop   \* may a write be dropped?

VARIABLES content,  \* the bytes in the buffer
          next      \* the number of the next byte of the stream

Bytes(from, n) == [i \in 1 .. n |-> from + i - 1]

Init == content = <<>> /\ next = 1

Put(n) == content' = content \o Bytes(next, n) /\ next' = next + n

Drop(n) == MayDrop /\ UNCHANGED content /\ next' = next + n

Take(n) ==
  /\ content' = [i \in 1 .. Len(content) - n |-> content[n + i]]
  /\ UNCHANGED next

Next == \/ \E n \in 1 .. MaxPut : Put(n) \/ Drop(n)
        \/ \E n \in 1 .. Len(content) : Take(n)

Spec == Init /\ [][Next]_<<content, next>>

=============================================================================
