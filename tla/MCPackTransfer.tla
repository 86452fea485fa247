---------------------------- MODULE MCPackTransfer --------------------------
\* Small instances of PackTransfer: every session carries the same pack, in any
\* version.
EXTENDS PackTransfer, TLC

CONSTANTS pack, s1, s2
MCPacks == {pack}
MCPackOf == [s \in Sessions |-> pack]

\* One pack may be too long for the teacher's sender, the other for the
\* learner's assembler.
MCSizes == (s1 :> {2, 4}) @@ (s2 :> {2, 3})

=============================================================================
