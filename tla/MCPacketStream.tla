--------------------------- MODULE MCPacketStream ---------------------------
(* PacketStream for TLC: small messages, with and without bytes in their   *)
(* data that look like the start, the length or the end of a packet.       *)
EXTENDS PacketStream

Plain == [msg_id |-> <<7>>, method_name |-> <<8>>, err_code |-> 0,
          err_info |-> <<>>, pb_data |-> <<>>]

\* No id, an error, and data that begin like a packet.
Failed == [msg_id |-> <<>>, method_name |-> <<>>, err_code |-> 5,
           err_info |-> <<9>>, pb_data |-> <<PB_START, 0>>]

\* The data contain what would be a packet of five bytes.
Nested == [msg_id |-> <<7>>, method_name |-> <<8>>, err_code |-> 0,
           err_info |-> <<>>, pb_data |-> <<PB_START, 0, 5, 0, PB_END>>]

PlainMessages == {Plain, Failed}
AllMessages   == {Plain, Failed, Nested}

=============================================================================
