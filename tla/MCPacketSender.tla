--------------------------- MODULE MCPacketSender ---------------------------
(***************************************************************************)
(* The sender of one client for TLC: two producers (the listener and the   *)
(* broadcaster), and packets p1, p2 (TCP) and u (UDP).                     *)
(***************************************************************************)
EXTENDS PacketSender

CONSTANTS p1, p2, u, t1, t2
=============================================================================
