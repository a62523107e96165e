--------------------------- MODULE RefundsClaims ---------------------------
(* What a comment and a test say of rejected refunds, against what the     *)
(* code does.                                                              *)
EXTENDS MCRefunds

(***************************************************************************)
(* RefundController.php:121, "The order goes back to its pre-refund state  *)
(* so it is not stuck", and RefundTest.php:94, "a rejected refund returns  *)
(* the order to its previous state": an order that was partially refunded  *)
(* does not go back to paid or fulfilled as if nothing had been refunded.  *)
(***************************************************************************)
PartialRefundRemembered == status \in {"paid", "fulfilled"} => refunded = 0
=============================================================================
