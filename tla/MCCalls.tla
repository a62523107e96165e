------------------------------ MODULE MCCalls ------------------------------
(* Two tabs of one operator.                                               *)
EXTENDS Calls, TLC

CONSTANT u1

OneOperator == [p \in Panels |-> u1]

Symmetry == Permutations(Panels)
=============================================================================
