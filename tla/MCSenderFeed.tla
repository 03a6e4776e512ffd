---------------------------- MODULE MCSenderFeed ----------------------------
(***************************************************************************)
(* A small instance of SenderFeed: two of the updates were made in the     *)
(* same millisecond.                                                       *)
(***************************************************************************)
EXTENDS SenderFeed

CONSTANTS a, b, c

MCUpdateTs == <<1, 2, 2, 3>>
MCConfirms == {2, 4}
=============================================================================
