---------------------------- MODULE MCServerLife ----------------------------
(***************************************************************************)
(* The server for TLC; the .cfg files give the bounds.                     *)
(***************************************************************************)
EXTENDS ServerLife
=============================================================================
