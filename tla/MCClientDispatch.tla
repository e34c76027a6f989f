-------------------------- MODULE MCClientDispatch --------------------------
(***************************************************************************)
(* Operation codes of four bits, of which the library keeps four.  The     *)
(* application uses the last code that is accepted and the first that is   *)
(* refused.                                                                *)
(***************************************************************************)
EXTENDS ClientDispatch

CONSTANTS a, b
=============================================================================
