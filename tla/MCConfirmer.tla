---------------------------- MODULE MCConfirmer ----------------------------
(***************************************************************************)
(* Small instances of Confirmer.  The bundles are interchangeable.         *)
(***************************************************************************)
EXTENDS Confirmer, TLC

Symmetry == Permutations(Bundle)
=============================================================================
