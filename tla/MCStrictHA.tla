----------------------------- MODULE MCStrictHA -----------------------------
(***************************************************************************)
(* Two nodes and three requests: r1 and r2 are rivals for the first        *)
(* sequence, r3 expects the second.                                        *)
(***************************************************************************)
EXTENDS StrictHA, TLC

CONSTANTS n1, n2, r1, r2, r3

MCNode == {n1, n2}
MCRequest == {r1, r2, r3}
MCExpected == (r1 :> 0) @@ (r2 :> 0) @@ (r3 :> 1)

\* A node may be lost, or power may fail; the case of both is BothKinds.
LossOnly == {[power |-> FALSE, loss |-> TRUE, terms |-> 2, late |-> 1]}
OneKind ==
    LossOnly \cup {[power |-> TRUE, loss |-> FALSE, terms |-> 2, late |-> 1],
                   [power |-> TRUE, loss |-> FALSE, terms |-> 3, late |-> 0]}
BothKinds == {[power |-> TRUE, loss |-> TRUE, terms |-> 3, late |-> 0]}

Symmetry == Permutations(MCNode)
=============================================================================
