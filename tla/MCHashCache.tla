---------------------------- MODULE MCHashCache ----------------------------
(***************************************************************************)
(* A small instance of HashCache.                                          *)
(***************************************************************************)
EXTENDS HashCache
=============================================================================
