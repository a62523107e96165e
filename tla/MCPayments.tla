----------------------------- MODULE MCPayments -----------------------------
(* One order with a card payment and up to two submissions: every guard of *)
(* the code joins the rows of a single order.                              *)
EXTENDS Payments, TLC

CONSTANTS o1, p1, m1, m2

OneOrder == {o1}
AllFor1  == [x \in {p1, m1, m2} |-> o1]
CardOnly == [x \in {p1} |-> o1]

Symmetry == Permutations(Requests)
=============================================================================
