--------------------------- MODULE MCClientSession ---------------------------
(***************************************************************************)
(* A client process for TLC; the .cfg files give the bounds.               *)
(***************************************************************************)
EXTENDS ClientSession
=============================================================================
