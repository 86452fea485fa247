----------------------------- MODULE MCNoteShare -----------------------------
(* Instances of NoteShare for TLC. *)
EXTENDS NoteShare, TLC

CONSTANTS p1, p2, r1, r2, r3, v1, v2

(* The second process serves the read r3 and the revocation v2. *)
Placement == [r \in Requests |-> IF r \in {r3, v2} THEN p2 ELSE p1]

SameProcess == Permutations({r1, r2})
=============================================================================
