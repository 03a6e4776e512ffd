----------------------------- MODULE MCApiCalls -----------------------------
(***************************************************************************)
(* A small instance of ApiCalls.                                           *)
(***************************************************************************)
EXTENDS ApiCalls

OneMin == [window |-> 1, threshold |-> 1]
TenMin == [window |-> 3, threshold |-> 2]
AnyError == [window |-> 2, threshold |-> 0]
Conditions == {OneMin, TenMin, AnyError}
=============================================================================
