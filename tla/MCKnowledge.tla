---------------------------- MODULE MCKnowledge ----------------------------
(* Instances of Knowledge for TLC. *)
EXTENDS Knowledge

CONSTANTS w1, w2, w3, u1, u2

(* session-claims files everything with priority 50. *)
OneBand == <<"high">>

HighBand == [u \in Urls |-> "high"]

(* Two sessions on u1 with one on u2 between them. *)
Archive == {<<u1, u2, u1>>}

OneSession == {<<u1>>}
=============================================================================
