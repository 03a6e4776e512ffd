-------------------------- MODULE MCInputRoutines --------------------------
(***************************************************************************)
(* A small instance of InputRoutines.                                      *)
(***************************************************************************)
EXTENDS InputRoutines
=============================================================================
