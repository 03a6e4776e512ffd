---------------------------- MODULE MCMsgFilter ----------------------------
(***************************************************************************)
(* A small instance of MsgFilter: what the nodes send.                      *)
(***************************************************************************)
EXTENDS MsgFilter

tx(h) == [topic |-> "tx", hash |-> h, index |-> 0]
sn(i, h) == [topic |-> "sn", hash |-> h, index |-> i]
lmi(i) == [topic |-> "lmi", hash |-> "lmi", index |-> i]
lmhs(h) == [topic |-> "lmhs", hash |-> h, index |-> 0]

Hashes == {"a", "b", "lmi"}

\* A transaction, a milestone hash, two milestones and a confirmation by each.
AllTopics == {tx("a"), lmhs("b"), lmi(1), lmi(2), sn(1, "a"), sn(2, "a")}
=============================================================================
