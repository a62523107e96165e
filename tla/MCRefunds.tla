----------------------------- MODULE MCRefunds -----------------------------
EXTENDS Refunds, TLC

Symmetry == Permutations(Refunds)
=============================================================================
