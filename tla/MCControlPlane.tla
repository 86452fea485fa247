--------------------------- MODULE MCControlPlane ---------------------------
(* Instances of ControlPlane for TLC. *)
EXTENDS ControlPlane

CONSTANTS c1, c2, c3, n1

TwoAgents == [c \in Commands |-> [kind |-> "agent"]]

(* An append, its replay under another command id, and the commit. *)
OneNote ==
    [c \in Commands |-> IF c = c3 THEN [kind |-> "commit", note |-> n1]
                        ELSE [kind |-> "append", note |-> n1, seq |-> 0]]

=============================================================================
