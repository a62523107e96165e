----------------------------- MODULE MCCheckout -----------------------------
(* Two lives of the form, of one customer or of two.                       *)
EXTENDS Checkout, TLC

Symmetry == Permutations(Mounts)
=============================================================================
