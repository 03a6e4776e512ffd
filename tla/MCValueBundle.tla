--------------------------- MODULE MCValueBundle ---------------------------
(***************************************************************************)
(* Bundles for ValueBundle.  "pay" pays y, with a transaction of no value  *)
(* in between, and returns the reminder to z; "two" balances when half of  *)
(* it is known.                                                            *)
(***************************************************************************)
EXTENDS ValueBundle

Tx(a, v) == [addr |-> a, value |-> v]

Addrs == {"x", "y", "z"}

PayAndTwo ==
  [pay |-> <<Tx("y", 2), Tx("x", -3), Tx("x", 0), Tx("z", 1)>>,
   two |-> <<Tx("x", -2), Tx("y", 2), Tx("y", 1), Tx("z", -1)>>]

\* An entry of a bundle of the same hash, but shorter than "pay", whose index
\* is no number.
Strays ==
  {[bundle |-> "pay", idx |-> 1, lastIdx |-> 3, addr |-> "x", value |-> -2]}
=============================================================================
