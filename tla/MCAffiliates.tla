---------------------------- MODULE MCAffiliates ----------------------------
EXTENDS Affiliates, TLC

Symmetry == Permutations(Refunds) \union Permutations(Cashiers)
=============================================================================
