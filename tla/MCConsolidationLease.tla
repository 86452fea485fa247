------------------------ MODULE MCConsolidationLease ------------------------
(* Instances of ConsolidationLease for TLC. *)
EXTENDS ConsolidationLease

CONSTANTS r1, r2, s1

(* Wall clocks agree; the theorems hold for every skew. *)
NoSkew == [w \in Replicas |-> 0]
=============================================================================
