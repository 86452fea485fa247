------------------------------- MODULE MCForget -------------------------------
(* Instances of Forget: entities, processes and tenants as model values. *)
EXTENDS Forget

CONSTANTS s1, j1, e1, t1, t2

OneServer  == {s1}
OneJob     == {j1}
OneEntity  == {e1}
=============================================================================
