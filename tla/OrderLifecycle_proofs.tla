------------------------ MODULE OrderLifecycle_proofs ------------------------
(* The order lifecycle, for any set of orders.                             *)
EXTENDS OrderLifecycle, TLAPS

\* Which side of the machine a transition leads to (OrderStatus::next).
LEMMA Sides ==
  ASSUME NEW s \in OrderStatus, NEW t, Allows(s, t)
  PROVE  /\ t \in OrderStatus
         /\ t \in PaidSide <=> (s \in PaidSide \/ t = "paid")
BY DEF OrderStatus, Allows, NextStatuses, PaidSide

\* A row that is gone goes nowhere.
LEMMA GoneStaysGone == ASSUME NEW t PROVE ~Allows("deleted", t)
BY DEF Allows, NextStatuses

(***************************************************************************)
(* Every order has a status of the machine, or is deleted.                 *)
(***************************************************************************)
THEOREM Typing == Spec => []TypeOK
<1>1. Init => TypeOK
  BY DEF Init, TypeOK, OrderStatus
<1>2. TypeOK /\ [Next]_vars => TypeOK'
  <2> SUFFICES ASSUME TypeOK, [Next]_vars PROVE TypeOK'
    OBVIOUS
  <2>1. CASE UNCHANGED vars
    BY <2>1 DEF TypeOK, vars
  <2>2. ASSUME NEW o \in Orders, NEW to \in OrderStatus, Transition(o, to)
        PROVE  TypeOK'
    BY <2>2 DEF Transition, TypeOK
  <2>3. ASSUME NEW o \in Orders, Remove(o) PROVE TypeOK'
    BY <2>3 DEF Remove, TypeOK
  <2> QED BY <2>1, <2>2, <2>3 DEF Next
<1> QED BY <1>1, <1>2, PTL DEF Spec

(***************************************************************************)
(* An order is on the paid side of the machine exactly when it was paid.   *)
(***************************************************************************)
THEOREM PaidSideIsPaid == Spec => []PaidSideIffPaid
<1>1. Init => PaidSideIffPaid
  BY DEF Init, PaidSideIffPaid
<1>2. TypeOK /\ PaidSideIffPaid /\ [Next]_vars => PaidSideIffPaid'
  <2> SUFFICES ASSUME TypeOK, PaidSideIffPaid, [Next]_vars
               PROVE  PaidSideIffPaid'
    OBVIOUS
  <2>1. CASE UNCHANGED vars
    BY <2>1 DEF PaidSideIffPaid, vars
  <2>2. ASSUME NEW o \in Orders, NEW to \in OrderStatus, Transition(o, to)
        PROVE  PaidSideIffPaid'
    <3>1. status[o] \in OrderStatus
      BY <2>2, GoneStaysGone DEF Transition, TypeOK
    <3>2. to \in PaidSide <=> (status[o] \in PaidSide \/ to = "paid")
      BY <3>1, <2>2, Sides DEF Transition
    <3>3. everPaid[o] <=> status[o] \in PaidSide
      BY <3>1 DEF PaidSideIffPaid, OrderStatus
    <3>4. status'[o] = to /\ everPaid'[o] = (everPaid[o] \/ to = "paid")
      BY <2>2 DEF Transition, TypeOK
    <3>5. \A x \in Orders \ {o} : status'[x] = status[x] /\ everPaid'[x] = everPaid[x]
      BY <2>2 DEF Transition, TypeOK
    <3> QED BY <3>2, <3>3, <3>4, <3>5 DEF PaidSideIffPaid
  <2>3. ASSUME NEW o \in Orders, Remove(o) PROVE PaidSideIffPaid'
    BY <2>3 DEF Remove, PaidSideIffPaid, TypeOK
  <2> QED BY <2>1, <2>2, <2>3 DEF Next
<1> QED BY <1>1, <1>2, Typing, PTL DEF Spec
=============================================================================
