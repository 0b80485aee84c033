----------------------------- MODULE TinyPBCoder ----------------------------
(***************************************************************************)
(* rocket::TinyPBCoder (net/coder/tinypb_coder.cc): what encodeTinyPB      *)
(* writes and what one turn of decode's loop does with a TcpBuffer.  A     *)
(* packet is                                                               *)
(*                                                                         *)
(*   START pk_len id_len id name_len name code info_len info data sum END  *)
(*                                                                         *)
(* Bytes are numbers below Base, and integers IntSize bytes, the high ones *)
(* first, in two's complement: 256 and 4 in the code.                      *)
(***************************************************************************)
EXTENDS TcpBuffer, FiniteSetsExt, SequencesExt

CONSTANTS Base, IntSize

ASSUME IntegersAssumption == Base \in Nat /\ Base > 3 /\ IntSize \in Nat \ {0}

PB_START == 2
PB_END   == 3

\* The message that a connection or a channel builds, and gets back.
DefaultId == <<1, 1, 1>>      \* "123456789"

-----------------------------------------------------------------------------
(* Integers in network byte order.                                          *)

\* What a byte with k bytes behind it counts.
Power[k \in 0 .. IntSize] == IF k = 0 THEN 1 ELSE Base * Power[k - 1]

Htonl(n) == [k \in 1 .. IntSize |-> (n \div Power[IntSize - k]) % Base]

\* getInt32FromNetByte of a sequence of IntSize bytes.
Ntohl(bytes) ==
  LET high[k \in 0 .. IntSize] ==
        IF k = 0 THEN 0 ELSE Base * high[k - 1] + bytes[k]
      n == high[IntSize]
  IN  IF 2 * n < Power[IntSize] THEN n ELSE n - Power[IntSize]

-----------------------------------------------------------------------------
(* encodeTinyPB.                                                            *)

PkLen(message) == 2 + 6 * IntSize + Len(message.msg_id)
  + Len(message.method_name) + Len(message.err_info) + Len(message.pb_data)

WithId(message) ==
  IF message.msg_id = <<>> THEN [message EXCEPT !.msg_id = DefaultId]
                           ELSE message

EncodeTinyPB(anyMessage) ==
  LET message == WithId(anyMessage)
  IN  <<PB_START>> \o Htonl(PkLen(message))
      \o Htonl(Len(message.msg_id)) \o message.msg_id
      \o Htonl(Len(message.method_name)) \o message.method_name
      \o Htonl(message.err_code)
      \o Htonl(Len(message.err_info)) \o message.err_info
      \o message.pb_data
      \o Htonl(1) \o <<PB_END>>

-----------------------------------------------------------------------------
(* decode.  A byte outside of the vector is read as `oob': the build can    *)
(* find anything there.                                                     *)

Cell(b, i, oob) == IF i \in 0 .. b.size - 1 THEN b.cells[i] ELSE oob

Cells(b, i, n, oob) == [k \in 1 .. n |-> Cell(b, i + k - 1, oob)]

IntAt(b, i, oob) == Ntohl(Cells(b, i, IntSize, oob))

\* A start byte with at least one byte behind it, and an end byte where the
\* packet that it begins would end.
StartAt(b, i) == b.cells[i] = PB_START /\ i + 1 < b.w

EndOf(b, i, oob) == i + IntAt(b, i + 1, oob) - 1

\* Mutant: PB_END is not looked for.
PacketUnchecked(b, i, oob) ==
  StartAt(b, i) /\ EndOf(b, i, oob) < b.w

PacketAt(b, i, oob) ==
  /\ StartAt(b, i)
  /\ EndOf(b, i, oob) < b.w
  /\ Cell(b, EndOf(b, i, oob), oob) = PB_END

\* Mutant: the scan starts at the start of the vector.
FirstPacketFromZero(b, oob) ==
  {i \in 0 .. b.w - 1 : /\ PacketAt(b, i, oob)
                        /\ \A k \in 0 .. i - 1 : ~PacketAt(b, k, oob)}

\* Where the scan stops: the first packet, if there is one.
FirstPacket(b, oob) ==
  {i \in b.r .. b.w - 1 : /\ PacketAt(b, i, oob)
                          /\ \A k \in b.r .. i - 1 : ~PacketAt(b, k, oob)}

\* std::string of a char array: up to the first zero.
CString(s) ==
  IF \E k \in DOMAIN s : s[k] = 0
  THEN SubSeq(s, 1, Min({k \in DOMAIN s : s[k] = 0}) - 1) ELSE s

\* Lengths that lead out of the vector: no byte is negative.
Garbled == [msg_id |-> <<-1>>, method_name |-> <<-1>>, err_code |-> 0,
            err_info |-> <<-1>>, pb_data |-> <<-1>>]

\* The messages, one or none, that the packet at start gives.
Split(b, start, oob) ==
  LET end       == EndOf(b, start, oob)
      pkLen     == IntAt(b, start + 1, oob)
      idLenAt   == start + 1 + IntSize
      idLen     == IntAt(b, idLenAt, oob)
      nameLenAt == idLenAt + IntSize + idLen
      nameLen   == IntAt(b, nameLenAt, oob)
      errAt     == nameLenAt + IntSize + nameLen
      infoLenAt == errAt + IntSize
      infoLen   == IntAt(b, infoLenAt, oob)
      dataAt    == infoLenAt + IntSize + infoLen
      dataLen   == pkLen - nameLen - idLen - infoLen - 2 - 6 * IntSize
      Copied(at, n) == Cells(b, at, n, oob)
      tooShort  == \/ idLenAt >= end
                   \/ idLen \in 0 .. b.size /\ nameLenAt >= end
                   \/ /\ {idLen, nameLen} \subseteq 0 .. b.size
                      /\ infoLenAt >= end
  IN  IF tooShort THEN <<>>
      ELSE IF ~({idLen, nameLen, infoLen, dataLen} \subseteq 0 .. b.size)
      THEN <<Garbled>>
      ELSE <<[msg_id      |-> CString(Copied(idLenAt + IntSize, idLen)),
              method_name |-> CString(Copied(nameLenAt + IntSize, nameLen)),
              err_code    |-> IntAt(b, errAt, oob),
              err_info    |-> CString(Copied(infoLenAt + IntSize, infoLen)),
              pb_data     |-> Copied(dataAt, dataLen)]>>

=============================================================================
