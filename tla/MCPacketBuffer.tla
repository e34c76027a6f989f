--------------------------- MODULE MCPacketBuffer ---------------------------
(***************************************************************************)
(* The packet buffer for TLC: words of seven bits in place of sixteen and  *)
(* sixteen bytes in place of 256 to begin with, so that every size can be  *)
(* tried; the header has its eleven bytes.                                 *)
(***************************************************************************)
EXTENDS PacketBuffer
=============================================================================
