---------------------------- MODULE PacketStream ----------------------------
(***************************************************************************)
(* One direction of a connection: packets encoded at one end (encode), cut *)
(* by TCP into reads of any size, and put together again at the other      *)
(* (onRead, excute, decode).  onWrite never moves the read index of its    *)
(* buffer, so that a message is written again with each later one: what is *)
(* sent may be any sequence of messages, repetitions of earlier ones among *)
(* them, and all of it must come out.                                      *)
(***************************************************************************)
EXTENDS TinyPBCoder

CONSTANTS
  Messages,     \* what may be sent
  NumMessages,  \* BOUND: how many messages are sent
  BufferSize,   \* the size of the input buffer
  Divisible,    \* the messages whose packets TCP may cut
  CutLengths    \* TCP may cut them inside their length, too

\* What a connection or a channel puts into a message: strings without zeros, and
\* numbers that fit.
WellFormed(m) ==
  /\ m = [msg_id   |-> m.msg_id,   method_name |-> m.method_name,
          err_code |-> m.err_code, err_info    |-> m.err_info, pb_data |-> m.pb_data]
  /\ {m.msg_id, m.method_name, m.err_info} \subseteq Seq(1 .. Base - 1)
  /\ m.pb_data \in Seq(0 .. Base - 1)
  /\ m.err_code \in Int
  /\ -Power[IntSize] <= 2 * m.err_code /\ 2 * m.err_code < Power[IntSize]
  /\ 2 * PkLen(WithId(m)) < Power[IntSize]

Packets(messages) == [k \in 1 .. NumMessages |-> EncodeTinyPB(messages[k])]

ASSUME MessagesAssumption ==
  /\ NumMessages \in Nat
  /\ BufferSize \in Nat /\ IntSize < BufferSize
  /\ \A m \in Messages : WellFormed(m)

\* What has come of a packet in one read or several.
Pieces(m) ==
  LET packet == EncodeTinyPB(m)
  IN  {SubSeq(packet, 1, n) : n \in (1 .. Len(packet) - 1)
                                      \ (IF CutLengths THEN {} ELSE 2 .. IntSize)}

\* From its byte i on the piece looks like a packet, and not an empty one.  The
\* bytes that have not come are still the zeros of the vector.
Misleads(piece, i) ==
  LET pkLen == Ntohl([k \in 1 .. IntSize |->
                        IF i + k <= Len(piece) THEN piece[i + k] ELSE 0])
      end   == i + pkLen - 1
  IN  /\ piece[i] = PB_START /\ i < Len(piece)
      /\ pkLen # 0 /\ end <= Len(piece)
      /\ end \in DOMAIN piece => piece[end] = PB_END

\* TCP cuts where it leaves no piece that decode takes for a packet: it searches an
\* incomplete packet for another one.  The start of a packet whose length has come
\* never misleads.
ASSUME CutsAssumption ==
  /\ CutLengths \in BOOLEAN
  /\ Divisible \subseteq Messages
  /\ \A m \in Divisible : \A piece \in Pieces(m) : \A i \in DOMAIN piece :
       i > 1 \/ Len(piece) <= IntSize => ~Misleads(piece, i)

VARIABLES
  sent,           \* the messages that are written, in this order
  stream,         \* the bytes of their packets
  cuts,           \* where TCP may cut it: after its first n bytes
  received,       \* how many bytes of the stream have been read
  m_in_buffer,
  out_messages,   \* what decode has given out, over the life of the connection
  decoding        \* decode is running

vars == <<sent, stream, cuts, received, m_in_buffer, out_messages, decoding>>

\* Where the packets end in the stream.
Ends(packets) ==
  LET end[k \in 0 .. NumMessages] ==
        IF k = 0 THEN 0 ELSE end[k - 1] + Len(packets[k])
  IN  end

\* Between two packets, and inside of those of the divisible messages.
MayCut(messages, packets) ==
  LET end       == Ends(packets)
      Inside(k) == IF messages[k] \in Divisible
                   THEN end[k - 1] + 1 .. end[k] ELSE {end[k]}
  IN  {n \in UNION {Inside(k) : k \in 1 .. NumMessages} :
         CutLengths \/ \A k \in 0 .. NumMessages - 1 : n - end[k] \notin 2 .. IntSize}

Init ==
  /\ sent \in [1 .. NumMessages -> Messages]
  /\ stream = FlattenSeq(Packets(sent))
  /\ cuts = MayCut(sent, Packets(sent))
  /\ received = 0
  /\ m_in_buffer = NewBuffer(BufferSize)
  /\ out_messages = <<>>
  /\ decoding = FALSE

\* onRead: one read, and then excute.  A read that fills the vector is dropped (see
\* BufferTraffic), and a length in its last cells would be read beyond its end: here
\* reads are short enough to leave some cells free, however many there are.
Receive(n) ==
  /\ ~decoding
  /\ n > received
  /\ n - received + IntSize < WriteAble(m_in_buffer)
  /\ LET bytes == SubSeq(stream, received + 1, n)
     IN  m_in_buffer' = MoveWriteIndex(Fill(m_in_buffer, bytes), Len(bytes))
  /\ received' = n
  /\ decoding' = TRUE
  /\ UNCHANGED <<sent, stream, cuts, out_messages>>

\* One turn of while (1): no packet, return; or the first one is taken off the
\* buffer and, if its fields make sense, given out.
DecodeReturn(oob) ==
  /\ decoding
  /\ FirstPacket(m_in_buffer, oob) = {}
  /\ decoding' = FALSE
  /\ UNCHANGED <<sent, stream, cuts, received, m_in_buffer, out_messages>>

\* Mutant: decode returns after one packet.
DecodePacketOnce(oob) ==
  /\ decoding
  /\ \E start \in FirstPacket(m_in_buffer, oob) :
       LET end == EndOf(m_in_buffer, start, oob)
       IN  /\ m_in_buffer' = MoveReadIndex(m_in_buffer, end - start + 1)
           /\ out_messages' = out_messages \o Split(m_in_buffer, start, oob)
  /\ decoding' = FALSE
  /\ UNCHANGED <<sent, stream, cuts, received>>

DecodePacket(oob) ==
  /\ decoding
  /\ \E start \in FirstPacket(m_in_buffer, oob) :
       LET end == EndOf(m_in_buffer, start, oob)
       IN  /\ m_in_buffer' = MoveReadIndex(m_in_buffer, end - start + 1)
           /\ out_messages' = out_messages \o Split(m_in_buffer, start, oob)
  /\ UNCHANGED <<sent, stream, cuts, received, decoding>>

Decode == \E oob \in {0, PB_END} : DecodeReturn(oob) \/ DecodePacket(oob)

Next == Decode \/ \E n \in cuts : Receive(n)

Spec == Init /\ [][Next]_vars

\* The bytes arrive, and decode runs until it returns.
FairSpec == Spec /\ WF_vars(Next)

-----------------------------------------------------------------------------
(* Properties.                                                              *)

Sent == [k \in DOMAIN sent |-> WithId(sent[k])]

\* Only what was sent is given out, in the order in which it was sent: packets
\* are found again however reads cut and join them, and whatever their data.
DecodedInOrder == IsPrefix(out_messages, Sent)

\* In the end every message has been given out.
AllDecoded == <>[](out_messages = Sent)

\* decode returns.
DecodeReturns == decoding ~> ~decoding

=============================================================================
