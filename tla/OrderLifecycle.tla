--------------------------- MODULE OrderLifecycle ---------------------------
(***************************************************************************)
(* What the commerce side promises about an order, whatever handler, job   *)
(* or administrator moves it: one status change at a time, each of them    *)
(* allowed by the state machine (OrderStateMachine::transition is the only *)
(* writer of orders.status), and a row that can be removed.  The payment   *)
(* and the refund modules are checked, and proved, to implement it.        *)
(***************************************************************************)
EXTENDS OrderStates

CONSTANT Orders

VARIABLES
  status,    \* orders.status, "deleted" once the row is gone
  everPaid   \* orders.paid_at IS NOT NULL

vars == <<status, everPaid>>

Init ==
  /\ status \in [Orders -> OrderStatus]
  /\ everPaid = [o \in Orders |-> status[o] \in PaidSide]

\* OrderStateMachine::transition.  paid_at is stamped once and kept.
Transition(o, to) ==
  /\ Allows(status[o], to)
  /\ status' = [status EXCEPT ![o] = to]
  /\ everPaid' = [everPaid EXCEPT ![o] = @ \/ to = "paid"]

\* Admin\OrderController::destroy.
Remove(o) ==
  /\ status' = [status EXCEPT ![o] = "deleted"]
  /\ UNCHANGED everPaid

Next ==
  \E o \in Orders :
    \/ \E to \in OrderStatus : Transition(o, to)
    \/ Remove(o)

Spec == Init /\ [][Next]_vars

-----------------------------------------------------------------------------
TypeOK ==
  /\ status \in [Orders -> OrderStatus \union {"deleted"}]
  /\ everPaid \in [Orders -> BOOLEAN]

(***************************************************************************)
(* An order is on the paid side of the machine exactly when it was paid:   *)
(* no sequence of transitions leads from an unpaid order to an entitlement *)
(* or a refund without passing through "paid", and none leads a paid order *)
(* back to waiting, failed or cancelled.                                   *)
(***************************************************************************)
PaidSideIffPaid ==
  \A o \in Orders :
    status[o] # "deleted" => (everPaid[o] <=> status[o] \in PaidSide)
=============================================================================
