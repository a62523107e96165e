---------------------------- MODULE OrderStates ----------------------------
(***************************************************************************)
(* The order status state machine of app/Enums/OrderStatus.php: which      *)
(* statuses exist, where each may go next, and which of them keep the      *)
(* customer's entitlements alive.  "deleted" is not a status of the code:  *)
(* it stands for the row being gone (Admin\OrderController::destroy).      *)
(***************************************************************************)

OrderStatus ==
  { "draft", "pending_payment", "paid", "fulfilled", "failed", "cancelled",
    "refund_pending", "partially_refunded", "refunded" }

NextStatuses(s) ==
  CASE s = "draft"              -> {"pending_payment", "cancelled"}
    [] s = "pending_payment"    -> {"paid", "failed", "cancelled"}
    [] s = "paid"               -> {"fulfilled", "refund_pending"}
    [] s = "fulfilled"          -> {"refund_pending"}
    [] s = "refund_pending"     -> {"refunded", "partially_refunded", "paid", "fulfilled"}
    [] s = "partially_refunded" -> {"refunded", "refund_pending"}
    [] OTHER                    -> {}

\* Mutant: a paid order can be cancelled.
AllowsCancellingPaid(s, t) == t \in NextStatuses(s) \/ (s = "paid" /\ t = "cancelled")

Allows(s, t) == t \in NextStatuses(s)

\* Mutant: only an order fulfilled already is entitled.
GrantsOnceFulfilled(s) == s \in {"fulfilled", "refund_pending", "partially_refunded"}

\* Mutant: a refunded order is still entitled.
GrantsEvenRefunded(s) ==
  s \in {"paid", "fulfilled", "refund_pending", "partially_refunded", "refunded"}

GrantsEntitlements(s) ==
  s \in {"paid", "fulfilled", "refund_pending", "partially_refunded"}

\* The statuses an order can only have after it was paid for.
PaidSide == {"paid", "fulfilled", "refund_pending", "partially_refunded", "refunded"}

\* The statuses of an order that never took money.
Unpaid == {"draft", "pending_payment", "failed", "cancelled"}
=============================================================================
