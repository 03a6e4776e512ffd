--------------------------- MODULE MCEventBuffer ---------------------------
(***************************************************************************)
(* A small instance of EventBuffer.  The events are interchangeable.       *)
(***************************************************************************)
EXTENDS EventBuffer, TLC

Symmetry == Permutations(EventId)
=============================================================================
