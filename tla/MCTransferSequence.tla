------------------------- MODULE MCTransferSequence -------------------------
(***************************************************************************)
(* A small instance of TransferSequence, in which the index grows a digit. *)
(***************************************************************************)
EXTENDS TransferSequence
=============================================================================
