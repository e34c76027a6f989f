--------------------------- MODULE MCPacketStream ---------------------------
(***************************************************************************)
(* Three packets of 4, 8 and 4 bytes, with bytes of two bits.  The sizes   *)
(* are chosen so that a header of which three bytes have arrived, read     *)
(* with the first byte again in the place of the fourth, spans exactly the *)
(* first two packets.                                                      *)
(***************************************************************************)
EXTENDS PacketStream

ThreePackets == <<4, 12, 16>>
Bounds == [k \in 0 .. 3 |-> IF k = 0 THEN 0 ELSE ThreePackets[k]]
=============================================================================
