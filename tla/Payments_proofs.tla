--------------------------- MODULE Payments_proofs ---------------------------
(***************************************************************************)
(* The payments side, for any number of orders, payments and workers, any  *)
(* set of callbacks and any number of crashes.                             *)
(***************************************************************************)
EXTENDS Payments, TLAPS

USE PaymentsAssumption

-----------------------------------------------------------------------------
(* Which steps can write a variable at all.                                *)

\* Only these steps write orders.
LEMMA OrderWriters ==
  ASSUME [Next]_vars
  PROVE  \/ UNCHANGED orderVars
         \/ \E h \in Handlers : RecordAndMove(h)
         \/ \E m \in ManualPayments : Approve(m)
         \/ \E o \in Orders, to \in AdminTargets : AdminTransition(o, to)
         \/ \E o \in Orders : FulfillMove(o) \/ DestroyDelete(o)
<1>1. CASE UNCHANGED vars
  BY <1>1 DEF vars, orderVars
<1>2. CASE Next
  BY <1>2
  DEF Next, External, Callback, Reconcile, orderVars, CustomerPays,
      GatewayDeclines, GrowOlder, StartPayment, ReceiveIpn, GatewayAnswers,
      GatewayTimesOut, CrashHandler, AlreadySettled, PaymentVanished,
      LockPayment, RecordPaymentOnly, TransitionRefused, ReconcileStart,
      ReconcileSilent, ReconcileExpire, ReconcileReplay, Submit, Decline,
      Refulfill, DestroyCheck, Dispatch, LoseDispatch, FulfillGrant, CrashJob
<1> QED BY <1>1, <1>2

\* Only these steps write payments.
LEMMA PayWriters ==
  ASSUME [Next]_vars
  PROVE  \/ UNCHANGED pay
         \/ \E p \in GatewayPayments : StartPayment(p) \/ ReconcileExpire(p)
         \/ \E h \in Handlers : RecordPaymentOnly(h) \/ RecordAndMove(h)
         \/ \E m \in ManualPayments : Submit(m) \/ Approve(m) \/ Decline(m)
         \/ \E o \in Orders : DestroyDelete(o)
<1>1. CASE UNCHANGED vars
  BY <1>1 DEF vars
<1>2. CASE Next
  BY <1>2
  DEF Next, External, Callback, Reconcile, CustomerPays, GatewayDeclines,
      GrowOlder, ReceiveIpn, GatewayAnswers, GatewayTimesOut, CrashHandler,
      AlreadySettled, PaymentVanished, LockPayment, TransitionRefused,
      ReconcileStart, ReconcileSilent, ReconcileReplay, AdminTransition,
      Refulfill, DestroyCheck, Dispatch, LoseDispatch, FulfillGrant,
      FulfillMove, CrashJob
<1> QED BY <1>1, <1>2

\* Only these steps write submissions.
LEMMA SubmissionWriters ==
  ASSUME [Next]_vars
  PROVE  \/ UNCHANGED sub
         \/ \E m \in ManualPayments : Submit(m) \/ Approve(m) \/ Decline(m)
<1>1. CASE UNCHANGED vars
  BY <1>1 DEF vars
<1>2. CASE Next
  BY <1>2
  DEF Next, External, Callback, Reconcile, CustomerPays, GatewayDeclines,
      GrowOlder, StartPayment, ReceiveIpn, GatewayAnswers, GatewayTimesOut,
      CrashHandler, AlreadySettled, PaymentVanished, LockPayment,
      RecordPaymentOnly, RecordAndMove, TransitionRefused, ReconcileStart,
      ReconcileSilent, ReconcileExpire, ReconcileReplay, AdminTransition,
      Refulfill, DestroyCheck, DestroyDelete, Dispatch, LoseDispatch,
      FulfillGrant, FulfillMove, CrashJob
<1> QED BY <1>1, <1>2

\* Money the gateway took stays taken.
LEMMA TakenStays ==
  ASSUME TypeOK, [Next]_vars
  PROVE  \A p \in GatewayPayments : taken[p] => taken'[p]
<1>1. CASE UNCHANGED vars
  BY <1>1 DEF vars
<1>2. ASSUME NEW q \in GatewayPayments, CustomerPays(q)
      PROVE  \A p \in GatewayPayments : taken[p] => taken'[p]
  BY <1>2 DEF CustomerPays, TypeOK
<1>3. CASE Next /\ ~\E q \in GatewayPayments : CustomerPays(q)
  <2>1. UNCHANGED taken
    BY <1>3
    DEF Next, External, Callback, Reconcile, gatewayVars, GatewayDeclines,
        GrowOlder, StartPayment, ReceiveIpn, GatewayAnswers, GatewayTimesOut,
        CrashHandler, AlreadySettled, PaymentVanished, LockPayment,
        RecordPaymentOnly, RecordAndMove, TransitionRefused, ReconcileStart,
        ReconcileSilent, ReconcileExpire, ReconcileReplay, Submit, Approve,
        Decline, AdminTransition, Refulfill, DestroyCheck, DestroyDelete,
        Dispatch, LoseDispatch, FulfillGrant, FulfillMove, CrashJob
  <2> QED BY <2>1
<1> QED BY <1>1, <1>2, <1>3

-----------------------------------------------------------------------------
(* Types, and what the handlers know.                                      *)

\* A worker's record changes to one that is well formed.
LEMMA SetSession ==
  ASSUME TypeOK, HandlersOK, UNCHANGED taken,
         NEW h \in Handlers, NEW s \in Session, HandlerOK(s),
         ses' = [ses EXCEPT ![h] = s]
  PROVE  ses' \in [Handlers -> Session] /\ HandlersOK'
<1>1. ses \in [Handlers -> Session]
  BY DEF TypeOK
<1>2. \A g \in Handlers : ses'[g] = IF g = h THEN s ELSE ses[g]
  BY <1>1
<1>3. \A t \in Session : HandlerOK(t) => HandlerOK(t)'
  BY DEF HandlerOK
<1> QED BY <1>1, <1>2, <1>3 DEF HandlersOK

\* Workers that do nothing stay as they are.
LEMMA SameSessions ==
  ASSUME TypeOK, HandlersOK, UNCHANGED ses, [Next]_vars
  PROVE  ses' \in [Handlers -> Session] /\ HandlersOK'
<1>1. \A h \in Handlers : HandlerOK(ses[h]) => HandlerOK(ses[h])'
  BY TakenStays DEF HandlerOK, Fingerprints
<1> QED BY <1>1 DEF HandlersOK, TypeOK

LEMMA IdleSession == Idle \in Session /\ HandlerOK(Idle)
BY DEF Idle, Session, HandlerOK

\* What a payment row becomes is a status of payments.
LEMMA RecordedTyped ==
  ASSUME HandlersOK, NEW h \in Handlers, ses[h].pc = "settling"
  PROVE  Recorded(h) \in PayStatus
BY DEF HandlersOK, HandlerOK, Recorded, Held, IsSuccess, Verdicts, PayStatus

(***************************************************************************)
(* Every variable keeps its type, and the handlers what they know.         *)
(***************************************************************************)
LEMMA TypesKept ==
  ASSUME TypeOK, HandlersOK, [Next]_vars
  PROVE  TypeOK' /\ HandlersOK'
<1>a. CASE UNCHANGED vars
  BY <1>a, SameSessions DEF TypeOK, vars
<1>1. ASSUME NEW p \in GatewayPayments, CustomerPays(p) PROVE TypeOK' /\ HandlersOK'
  <2>1. UNCHANGED ses BY <1>1 DEF CustomerPays
  <2> QED BY <1>1, <2>1, SameSessions
          DEF CustomerPays, TypeOK, orderVars, gatewayVars, reconVars,
              jobVars, NextAge
<1>2. ASSUME NEW p \in GatewayPayments, GatewayDeclines(p) PROVE TypeOK' /\ HandlersOK'
  <2>1. UNCHANGED ses BY <1>2 DEF GatewayDeclines
  <2> QED BY <1>2, <2>1, SameSessions
          DEF GatewayDeclines, TypeOK, orderVars, gatewayVars, reconVars,
              jobVars, NextAge
<1>3. ASSUME NEW p \in GatewayPayments, GrowOlder(p) PROVE TypeOK' /\ HandlersOK'
  <2>1. UNCHANGED ses BY <1>3 DEF GrowOlder
  <2> QED BY <1>3, <2>1, SameSessions
          DEF GrowOlder, TypeOK, orderVars, gatewayVars, reconVars, jobVars,
              NextAge
<1>4. ASSUME NEW p \in GatewayPayments, StartPayment(p) PROVE TypeOK' /\ HandlersOK'
  <2>1. UNCHANGED ses BY <1>4 DEF StartPayment
  <2> QED BY <1>4, <2>1, SameSessions
          DEF StartPayment, TypeOK, orderVars, gatewayVars, reconVars,
              jobVars, PayStatus, Payments
<1>5. ASSUME NEW p \in GatewayPayments, ReconcileSilent(p) PROVE TypeOK' /\ HandlersOK'
  <2>1. UNCHANGED ses BY <1>5 DEF ReconcileSilent
  <2> QED BY <1>5, <2>1, SameSessions
          DEF ReconcileSilent, TypeOK, orderVars, gatewayVars, reconVars,
              jobVars, PayStatus, Payments
<1>6. ASSUME NEW p \in GatewayPayments, ReconcileExpire(p) PROVE TypeOK' /\ HandlersOK'
  <2>1. UNCHANGED ses BY <1>6 DEF ReconcileExpire
  <2> QED BY <1>6, <2>1, SameSessions
          DEF ReconcileExpire, TypeOK, orderVars, gatewayVars, reconVars,
              jobVars, PayStatus, Payments
<1>7. ASSUME ReconcileStart PROVE TypeOK' /\ HandlersOK'
  <2>1. UNCHANGED ses BY <1>7 DEF ReconcileStart
  <2> QED BY <1>7, <2>1, SameSessions
          DEF ReconcileStart, TypeOK, orderVars, gatewayVars, reconVars,
              jobVars
<1>8. ASSUME NEW m \in ManualPayments, Submit(m) PROVE TypeOK' /\ HandlersOK'
  <2>1. UNCHANGED ses BY <1>8 DEF Submit
  <2> QED BY <1>8, <2>1, SameSessions
          DEF Submit, TypeOK, orderVars, gatewayVars, reconVars, jobVars,
              MoveOrder, AnyStatus, OrderStatus, PayStatus, Payments
<1>9. ASSUME NEW m \in ManualPayments, Approve(m) PROVE TypeOK' /\ HandlersOK'
  <2>1. UNCHANGED ses BY <1>9 DEF Approve
  <2> QED BY <1>9, <2>1, SameSessions
          DEF Approve, TypeOK, orderVars, gatewayVars, reconVars, jobVars,
              MoveOrder, AnyStatus, OrderStatus, PayStatus, Payments
<1>10. ASSUME NEW m \in ManualPayments, Decline(m) PROVE TypeOK' /\ HandlersOK'
  <2>1. UNCHANGED ses BY <1>10 DEF Decline
  <2> QED BY <1>10, <2>1, SameSessions
          DEF Decline, TypeOK, orderVars, gatewayVars, reconVars, jobVars,
              MoveOrder, AnyStatus, OrderStatus, PayStatus, Payments
<1>11. ASSUME NEW o \in Orders, NEW to \in AdminTargets, AdminTransition(o, to) PROVE TypeOK' /\ HandlersOK'
  <2>1. UNCHANGED ses BY <1>11 DEF AdminTransition
  <2> QED BY <1>11, <2>1, SameSessions
          DEF AdminTransition, TypeOK, orderVars, gatewayVars, reconVars,
              jobVars, MoveOrder, AnyStatus
<1>12. ASSUME NEW o \in Orders, Refulfill(o) PROVE TypeOK' /\ HandlersOK'
  <2>1. UNCHANGED ses BY <1>12 DEF Refulfill
  <2> QED BY <1>12, <2>1, SameSessions
          DEF Refulfill, TypeOK, orderVars, gatewayVars, reconVars, jobVars,
              AnyStatus
<1>13. ASSUME NEW o \in Orders, DestroyCheck(o) PROVE TypeOK' /\ HandlersOK'
  <2>1. UNCHANGED ses BY <1>13 DEF DestroyCheck
  <2> QED BY <1>13, <2>1, SameSessions
          DEF DestroyCheck, TypeOK, orderVars, gatewayVars, reconVars,
              jobVars, AnyStatus
<1>14. ASSUME NEW o \in Orders, Dispatch(o) PROVE TypeOK' /\ HandlersOK'
  <2>1. UNCHANGED ses BY <1>14 DEF Dispatch
  <2> QED BY <1>14, <2>1, SameSessions
          DEF Dispatch, TypeOK, orderVars, gatewayVars, reconVars, jobVars,
              AnyStatus
<1>15. ASSUME NEW o \in Orders, LoseDispatch(o) PROVE TypeOK' /\ HandlersOK'
  <2>1. UNCHANGED ses BY <1>15 DEF LoseDispatch
  <2> QED BY <1>15, <2>1, SameSessions
          DEF LoseDispatch, TypeOK, orderVars, gatewayVars, reconVars,
              jobVars, AnyStatus
<1>16. ASSUME NEW o \in Orders, FulfillGrant(o) PROVE TypeOK' /\ HandlersOK'
  <2>1. UNCHANGED ses BY <1>16 DEF FulfillGrant
  <2> QED BY <1>16, <2>1, SameSessions
          DEF FulfillGrant, TypeOK, orderVars, gatewayVars, reconVars,
              jobVars, AnyStatus
<1>17. ASSUME NEW o \in Orders, CrashJob(o) PROVE TypeOK' /\ HandlersOK'
  <2>1. UNCHANGED ses BY <1>17 DEF CrashJob
  <2> QED BY <1>17, <2>1, SameSessions
          DEF CrashJob, TypeOK, orderVars, gatewayVars, reconVars, jobVars,
              AnyStatus
<1>18. ASSUME NEW o \in Orders, DestroyDelete(o) PROVE TypeOK' /\ HandlersOK'
  <2>1. UNCHANGED ses BY <1>18 DEF DestroyDelete
  <2> QED BY <1>18, <2>1, SameSessions
          DEF DestroyDelete, TypeOK, orderVars, gatewayVars, reconVars,
              jobVars, AnyStatus, PayStatus
<1>19. ASSUME NEW h \in Requests, NEW p \in GatewayPayments, NEW m \in Messages, ReceiveIpn(h, p, m) PROVE TypeOK' /\ HandlersOK'
  <2> DEFINE fp == [source |-> "ipn", pay |-> p, msg |-> m]
             s  == IF pay[p] = "absent" THEN ses[h]
                   ELSE [Idle EXCEPT !.pc = "asking", !.call = fp]
  <2>1. fp \in Fingerprints /\ h \in Handlers
    BY DEF Fingerprints, Handlers
  <2>2. ses' = [ses EXCEPT ![h] = s] /\ UNCHANGED taken
    BY <1>19 DEF ReceiveIpn, TypeOK, gatewayVars
  <2>3. s \in Session /\ HandlerOK(s)
    BY <2>1 DEF TypeOK, HandlersOK, Session, HandlerOK, Idle
  <2>4. ses' \in [Handlers -> Session] /\ HandlersOK'
    BY <2>1, <2>2, <2>3, SetSession
  <2> QED BY <1>19, <2>1, <2>4
          DEF ReceiveIpn, TypeOK, orderVars, gatewayVars, reconVars, jobVars
<1>20. ASSUME NEW h \in Handlers, NEW v \in Verdicts, GatewayAnswers(h, v) PROVE TypeOK' /\ HandlersOK'
  <2> DEFINE s == IF v = "unverified" THEN Idle
                  ELSE [ses[h] EXCEPT !.pc = "answered", !.verdict = v]
  <2>1. ses' = [ses EXCEPT ![h] = s] /\ UNCHANGED taken
    BY <1>20 DEF GatewayAnswers, TypeOK, gatewayVars
  <2>2. ses[h] \in Session /\ ses[h].pc = "asking" /\ ses[h].call \in Fingerprints
    BY <1>20 DEF GatewayAnswers, TypeOK, HandlersOK, HandlerOK
  <2>3. s \in Session
    <3>1. [ses[h] EXCEPT !.pc = "answered", !.verdict = v] \in Session
      BY <2>2 DEF Session
    <3> QED BY <3>1, IdleSession
  <2>4. IsSuccess(v) => taken[ses[h].call.pay]
    BY <1>20 DEF GatewayAnswers, Answers, IsSuccess
  <2>5. HandlerOK(s)
    BY <2>2, <2>4, IdleSession DEF HandlerOK, Session
  <2>6. ses' \in [Handlers -> Session] /\ HandlersOK'
    BY <2>1, <2>3, <2>5, SetSession
  <2> QED BY <1>20, <2>6
          DEF GatewayAnswers, TypeOK, orderVars, gatewayVars, reconVars,
              jobVars
<1>21. ASSUME NEW h \in Handlers, LockPayment(h) PROVE TypeOK' /\ HandlersOK'
  <2> DEFINE s == [ses[h] EXCEPT !.pc = "settling",
                                  !.seen = status[OrderOf[ses[h].call.pay]]]
  <2>1. ses[h] \in Session /\ ses[h].pc = "answered" /\ HandlerOK(ses[h])
    BY <1>21 DEF LockPayment, TypeOK, HandlersOK
  <2>2. status[OrderOf[ses[h].call.pay]] \in AnyStatus
    BY <2>1 DEF HandlerOK, Fingerprints, TypeOK, Payments
  <2>3. s \in Session /\ HandlerOK(s)
    BY <2>1, <2>2 DEF Session, HandlerOK
  <2>4. ses' = [ses EXCEPT ![h] = s] /\ UNCHANGED taken
    BY <1>21 DEF LockPayment, gatewayVars
  <2>5. ses' \in [Handlers -> Session] /\ HandlersOK'
    BY <2>3, <2>4, SetSession
  <2> QED BY <1>21, <2>5
          DEF LockPayment, TypeOK, orderVars, gatewayVars, reconVars, jobVars
<1>22. ASSUME NEW h \in Handlers, AlreadySettled(h) PROVE TypeOK' /\ HandlersOK'
  <2>1. ses' = [ses EXCEPT ![h] = Idle] /\ UNCHANGED taken
    BY <1>22 DEF AlreadySettled, StopHandler, gatewayVars
  <2>2. ses' \in [Handlers -> Session] /\ HandlersOK'
    BY <2>1, IdleSession, SetSession
  <2> QED BY <1>22, <2>2
          DEF AlreadySettled, StopHandler, TypeOK, orderVars, gatewayVars,
              reconVars, jobVars
<1>23. ASSUME NEW h \in Handlers, GatewayTimesOut(h) PROVE TypeOK' /\ HandlersOK'
  <2>1. ses' = [ses EXCEPT ![h] = Idle] /\ UNCHANGED taken
    BY <1>23 DEF GatewayTimesOut, StopHandler, gatewayVars
  <2>2. ses' \in [Handlers -> Session] /\ HandlersOK'
    BY <2>1, IdleSession, SetSession
  <2> QED BY <1>23, <2>2
          DEF GatewayTimesOut, StopHandler, TypeOK, orderVars, gatewayVars,
              reconVars, jobVars
<1>24. ASSUME NEW h \in Handlers, CrashHandler(h) PROVE TypeOK' /\ HandlersOK'
  <2>1. ses' = [ses EXCEPT ![h] = Idle] /\ UNCHANGED taken
    BY <1>24 DEF CrashHandler, StopHandler, gatewayVars
  <2>2. ses' \in [Handlers -> Session] /\ HandlersOK'
    BY <2>1, IdleSession, SetSession
  <2> QED BY <1>24, <2>2
          DEF CrashHandler, StopHandler, TypeOK, orderVars, gatewayVars,
              reconVars, jobVars
<1>25. ASSUME NEW h \in Handlers, PaymentVanished(h) PROVE TypeOK' /\ HandlersOK'
  <2>1. ses' = [ses EXCEPT ![h] = Idle] /\ UNCHANGED taken
    BY <1>25 DEF PaymentVanished, StopHandler, gatewayVars
  <2>2. ses' \in [Handlers -> Session] /\ HandlersOK'
    BY <2>1, IdleSession, SetSession
  <2> QED BY <1>25, <2>2
          DEF PaymentVanished, StopHandler, TypeOK, orderVars, gatewayVars,
              reconVars, jobVars
<1>26. ASSUME NEW h \in Handlers, TransitionRefused(h) PROVE TypeOK' /\ HandlersOK'
  <2>1. ses' = [ses EXCEPT ![h] = Idle] /\ UNCHANGED taken
    BY <1>26 DEF TransitionRefused, StopHandler, gatewayVars
  <2>2. ses' \in [Handlers -> Session] /\ HandlersOK'
    BY <2>1, IdleSession, SetSession
  <2> QED BY <1>26, <2>2
          DEF TransitionRefused, StopHandler, TypeOK, orderVars, gatewayVars,
              reconVars, jobVars
<1>27. ASSUME NEW h \in Handlers, RecordPaymentOnly(h) PROVE TypeOK' /\ HandlersOK'
  <2>1. ses' = [ses EXCEPT ![h] = Idle] /\ UNCHANGED taken
    BY <1>27 DEF RecordPaymentOnly, gatewayVars
  <2>2. ses' \in [Handlers -> Session] /\ HandlersOK'
    BY <2>1, IdleSession, SetSession
  <2>3. Recorded(h) \in PayStatus
    BY <1>27, RecordedTyped DEF RecordPaymentOnly
  <2> QED BY <1>27, <2>2, <2>3
          DEF RecordPaymentOnly, TypeOK, orderVars, gatewayVars, reconVars,
              jobVars
<1>28. ASSUME NEW h \in Handlers, RecordAndMove(h) PROVE TypeOK' /\ HandlersOK'
  <2>1. ses' = [ses EXCEPT ![h] = Idle] /\ UNCHANGED taken
    BY <1>28 DEF RecordAndMove, gatewayVars
  <2>2. ses' \in [Handlers -> Session] /\ HandlersOK'
    BY <2>1, IdleSession, SetSession
  <2>3. Recorded(h) \in PayStatus
    BY <1>28, RecordedTyped DEF RecordAndMove
  <2>4. Target(h) \in {"paid", "failed"} /\ OrderOf[ses[h].call.pay] \in Orders
    BY <1>28
    DEF RecordAndMove, Target, HandlersOK, HandlerOK, Fingerprints, Payments
  <2>5. pay' \in [Payments -> PayStatus]
    BY <1>28, <2>3 DEF RecordAndMove, TypeOK
  <2>6. status' \in [Orders -> AnyStatus] /\ paidBy' \in [Orders -> {"none", "gateway", "manual", "admin"}]
    BY <1>28, <2>4 DEF RecordAndMove, MoveOrder, TypeOK, AnyStatus, OrderStatus
  <2>7. owed' \subseteq Orders
    BY <1>28, <2>4 DEF RecordAndMove, TypeOK
  <2> QED BY <1>28, <2>2, <2>5, <2>6, <2>7
          DEF RecordAndMove, TypeOK, gatewayVars, reconVars
<1>29. ASSUME NEW p \in GatewayPayments, ReconcileReplay(p) PROVE TypeOK' /\ HandlersOK'
  <2> DEFINE fp == [source |-> "reconciliation", pay |-> p, msg |-> latest[p]]
             s  == IF fp \in events THEN ses[Reconciler]
                   ELSE [Idle EXCEPT !.pc = "asking", !.call = fp]
  <2>1. fp \in Fingerprints /\ Reconciler \in Handlers
    BY <1>29 DEF ReconcileReplay, TypeOK, Fingerprints, Handlers
  <2>2. ses' = [ses EXCEPT ![Reconciler] = s] /\ UNCHANGED taken
    BY <1>29 DEF ReconcileReplay, Claimed, TypeOK, gatewayVars
  <2>3. s \in Session /\ HandlerOK(s)
    BY <2>1 DEF TypeOK, HandlersOK, Session, HandlerOK, Idle
  <2>4. ses' \in [Handlers -> Session] /\ HandlersOK'
    BY <2>1, <2>2, <2>3, SetSession
  <2> QED BY <1>29, <2>1, <2>4
          DEF ReconcileReplay, TypeOK, orderVars, gatewayVars, reconVars,
              jobVars
<1>30. ASSUME NEW o \in Orders, FulfillMove(o) PROVE TypeOK' /\ HandlersOK'
  <2>1. UNCHANGED ses
    BY <1>30 DEF FulfillMove
  <2>2. \/ UNCHANGED orderVars
        \/ status' = [status EXCEPT ![o] = "fulfilled"] /\ paidBy' = [paidBy EXCEPT ![o] = @]
    BY <1>30 DEF FulfillMove, MoveOrder
  <2>3. status' \in [Orders -> AnyStatus] /\ UNCHANGED paidBy
    BY <2>2 DEF TypeOK, AnyStatus, OrderStatus, orderVars
  <2> QED BY <1>30, <2>1, <2>3, SameSessions
          DEF FulfillMove, TypeOK, gatewayVars, reconVars
<1> QED
  BY <1>a, <1>1, <1>2, <1>3, <1>4, <1>5, <1>6, <1>7, <1>8, <1>9, <1>10, <1>11,
     <1>12, <1>13, <1>14, <1>15, <1>16, <1>17, <1>18, <1>19, <1>20, <1>21,
     <1>22, <1>23, <1>24, <1>25, <1>26, <1>27, <1>28, <1>29, <1>30
  DEF Next, External, Callback, Reconcile

(***************************************************************************)
(* Type correctness, and that every answer a handler acts on is one the    *)
(* gateway gave: whatever it calls settled, the gateway had taken.         *)
(***************************************************************************)
THEOREM Typing == Spec => [](TypeOK /\ HandlersOK)
<1>1. Init => TypeOK /\ HandlersOK
  <2> SUFFICES ASSUME Init PROVE TypeOK /\ HandlersOK
    OBVIOUS
  <2>1. ses \in [Handlers -> Session] /\ HandlersOK
    BY IdleSession DEF Init, HandlersOK
  <2> QED BY <2>1 DEF Init, TypeOK, AnyStatus, OrderStatus, PayStatus
<1>2. TypeOK /\ HandlersOK /\ [Next]_vars => TypeOK' /\ HandlersOK'
  BY TypesKept
<1> QED BY <1>1, <1>2, PTL DEF Spec

-----------------------------------------------------------------------------
(* Orders: who pays one, and which side of the machine it is on.           *)

\* Which side of the machine a transition leads to (OrderStatus::next).
LEMMA Sides ==
  ASSUME NEW s, NEW t, Allows(s, t)
  PROVE  s # "deleted" /\ t \in OrderStatus /\ t # "none"
         /\ (t \in PaidSide <=> (s \in PaidSide \/ t = "paid"))
BY DEF OrderStatus, Allows, NextStatuses, PaidSide

\* Every write of an order is a transition the state machine allows, the same
\* status once more, or the removal of the row.
LEMMA OrderSteps ==
  ASSUME TypeOK, HandlersOK, [Next]_vars
  PROVE  \/ UNCHANGED orderVars
         \/ \E o \in Orders, to \in OrderStatus, cause \in {"gateway", "manual", "admin", "job"} :
              /\ MoveOrder(o, to, cause)
              /\ Allows(status[o], to) \/ status[o] = to
         \/ \E o \in Orders : DestroyDelete(o)
<1> DEFINE Moved == \E o \in Orders, to \in OrderStatus, cause \in {"gateway", "manual", "admin", "job"} :
                      /\ MoveOrder(o, to, cause)
                      /\ Allows(status[o], to) \/ status[o] = to
<1>1. ASSUME NEW h \in Handlers, RecordAndMove(h) PROVE Moved
  <2>1. OrderOf[ses[h].call.pay] \in Orders
    BY <1>1 DEF RecordAndMove, HandlersOK, HandlerOK, Fingerprints, Payments
  <2>2. Target(h) \in OrderStatus
    BY <1>1 DEF RecordAndMove, Target, OrderStatus
  <2> QED BY <1>1, <2>1, <2>2 DEF RecordAndMove, CanMove
<1>2. ASSUME NEW m \in ManualPayments, Approve(m) PROVE Moved
  <2>1. OrderOf[m] \in Orders /\ "paid" \in OrderStatus
    BY DEF Payments, OrderStatus
  <2>2. Allows(status[OrderOf[m]], "paid")
    BY <1>2 DEF Approve, Allows, NextStatuses
  <2> QED BY <1>2, <2>1, <2>2 DEF Approve
<1>3. ASSUME NEW o \in Orders, NEW to \in AdminTargets, AdminTransition(o, to) PROVE Moved
  BY <1>3 DEF AdminTransition
<1>4. ASSUME NEW o \in Orders, FulfillMove(o) PROVE UNCHANGED orderVars \/ Moved
  <2>1. "fulfilled" \in OrderStatus
    BY DEF OrderStatus
  <2> QED BY <1>4, <2>1 DEF FulfillMove, CanMove
<1> QED BY <1>1, <1>2, <1>3, <1>4, OrderWriters

\* paid_at is stamped once.
LEMMA PaidByKept ==
  ASSUME TypeOK, HandlersOK, [Next]_vars, NEW o \in Orders, paidBy[o] # "none"
  PROVE  paidBy'[o] = paidBy[o]
BY OrderSteps DEF MoveOrder, DestroyDelete, TypeOK, orderVars

\* The three ways an order gets paid.
LEMMA WhoPays ==
  ASSUME TypeOK, HandlersOK, [Next]_vars, NEW o \in Orders,
         paidBy[o] = "none", paidBy'[o] # "none"
  PROVE  \/ /\ paidBy'[o] = "gateway"
            /\ \E h \in Handlers :
                 RecordAndMove(h) /\ Target(h) = "paid" /\ OrderOf[ses[h].call.pay] = o
         \/ /\ paidBy'[o] = "manual"
            /\ \E m \in ManualPayments : Approve(m) /\ OrderOf[m] = o
         \/ paidBy'[o] = "admin" /\ AdminTransition(o, "paid")
<1>1. ASSUME NEW h \in Handlers, RecordAndMove(h)
      PROVE  paidBy'[o] = "gateway" /\ Target(h) = "paid" /\ OrderOf[ses[h].call.pay] = o
  BY <1>1 DEF RecordAndMove, MoveOrder, TypeOK
<1>2. ASSUME NEW m \in ManualPayments, Approve(m)
      PROVE  paidBy'[o] = "manual" /\ OrderOf[m] = o
  BY <1>2 DEF Approve, MoveOrder, TypeOK
<1>3. ASSUME NEW x \in Orders, NEW to \in AdminTargets, AdminTransition(x, to)
      PROVE  paidBy'[o] = "admin" /\ x = o /\ to = "paid"
  BY <1>3 DEF AdminTransition, MoveOrder, TypeOK
<1>4. ASSUME NEW x \in Orders, FulfillMove(x) \/ DestroyDelete(x) PROVE FALSE
  BY <1>4 DEF FulfillMove, DestroyDelete, MoveOrder, TypeOK, orderVars
<1> QED BY <1>1, <1>2, <1>3, <1>4, OrderWriters DEF orderVars

LEMMA SidesKept ==
  ASSUME TypeOK, HandlersOK, PaidSideIffPaid, [Next]_vars
  PROVE  PaidSideIffPaid'
<1>1. CASE UNCHANGED orderVars
  BY <1>1 DEF PaidSideIffPaid, orderVars
<1>2. ASSUME NEW o \in Orders, NEW to \in OrderStatus,
             NEW cause \in {"gateway", "manual", "admin", "job"},
             MoveOrder(o, to, cause), Allows(status[o], to) \/ status[o] = to
      PROVE  PaidSideIffPaid'
  <2>1. status'[o] = to /\ (paidBy'[o] # "none" <=> (paidBy[o] # "none" \/ to = "paid"))
    BY <1>2 DEF MoveOrder, TypeOK
  <2>2. \A x \in Orders \ {o} : status'[x] = status[x] /\ paidBy'[x] = paidBy[x]
    BY <1>2 DEF MoveOrder, TypeOK
  <2>3. status[o] # "deleted"
    BY <1>2, Sides DEF OrderStatus
  <2>4. to \in PaidSide <=> (status[o] \in PaidSide \/ to = "paid")
    BY <1>2, Sides DEF PaidSide
  <2>5. paidBy[o] # "none" <=> status[o] \in PaidSide
    BY <2>3 DEF PaidSideIffPaid
  <2> QED BY <2>1, <2>2, <2>4, <2>5 DEF PaidSideIffPaid
<1>3. ASSUME NEW o \in Orders, DestroyDelete(o) PROVE PaidSideIffPaid'
  BY <1>3 DEF DestroyDelete, PaidSideIffPaid, TypeOK
<1> QED BY <1>1, <1>2, <1>3, OrderSteps

-----------------------------------------------------------------------------
(* Payments made by hand.                                                  *)

\* No callback and no reconciliation touches a payment made by hand.
LEMMA ManualRows ==
  ASSUME TypeOK, HandlersOK, [Next]_vars, NEW m \in ManualPayments
  PROVE  \/ pay'[m] = pay[m]
         \/ Submit(m) \/ Approve(m) \/ Decline(m)
         \/ DestroyDelete(OrderOf[m]) /\ sub[m] = "absent"
<1>1. ASSUME NEW p \in GatewayPayments, StartPayment(p) \/ ReconcileExpire(p)
      PROVE  pay'[m] = pay[m]
  BY <1>1 DEF StartPayment, ReconcileExpire, TypeOK, Payments
<1>2. ASSUME NEW h \in Handlers, RecordPaymentOnly(h) \/ RecordAndMove(h)
      PROVE  pay'[m] = pay[m]
  <2>1. ses[h].call.pay \in GatewayPayments
    BY <1>2
    DEF RecordPaymentOnly, RecordAndMove, HandlersOK, HandlerOK, Fingerprints
  <2> QED BY <1>2, <2>1 DEF RecordPaymentOnly, RecordAndMove, TypeOK, Payments
<1>3. ASSUME NEW n \in ManualPayments \ {m}, Submit(n) \/ Approve(n) \/ Decline(n)
      PROVE  pay'[m] = pay[m]
  BY <1>3 DEF Submit, Approve, Decline, TypeOK, Payments
<1>4. ASSUME NEW o \in Orders, DestroyDelete(o), pay'[m] # pay[m]
      PROVE  o = OrderOf[m] /\ sub[m] = "absent"
  BY <1>4 DEF DestroyDelete, Submissions, TypeOK, Payments
<1> QED BY <1>1, <1>2, <1>3, <1>4, PayWriters

\* A submission moves from nothing to pending, and from there is decided.
LEMMA SubmissionSteps ==
  ASSUME TypeOK, [Next]_vars, NEW m \in ManualPayments
  PROVE  \/ sub'[m] = sub[m]
         \/ Submit(m) /\ sub'[m] = "pending"
         \/ Approve(m) /\ sub'[m] = "approved"
         \/ Decline(m) /\ sub'[m] = "rejected"
BY SubmissionWriters DEF Submit, Approve, Decline, TypeOK

LEMMA MatchKept ==
  ASSUME TypeOK, HandlersOK, SubmissionsMatch, [Next]_vars
  PROVE  SubmissionsMatch'
<1> SUFFICES ASSUME NEW m \in ManualPayments
             PROVE  /\ sub'[m] \in {"absent", "pending"} => pay'[m] = sub'[m]
                    /\ sub'[m] = "approved" => /\ pay'[m] = "validated"
                                               /\ paidBy'[OrderOf[m]] # "none"
  BY DEF SubmissionsMatch
<1>0. OrderOf[m] \in Orders /\ m \in Payments
  BY DEF Payments
<1>1. CASE Submit(m)
  BY <1>0, <1>1 DEF Submit, TypeOK
<1>2. CASE Approve(m)
  BY <1>0, <1>2 DEF Approve, MoveOrder, TypeOK
<1>3. CASE Decline(m)
  BY <1>0, <1>3 DEF Decline, TypeOK
<1>4. CASE DestroyDelete(OrderOf[m]) /\ sub[m] = "absent"
  BY <1>0, <1>4 DEF DestroyDelete, TypeOK, SubmissionsMatch
<1>5. CASE pay'[m] = pay[m] /\ sub'[m] = sub[m]
  BY <1>0, <1>5, PaidByKept DEF SubmissionsMatch
<1> QED BY <1>1, <1>2, <1>3, <1>4, <1>5, ManualRows, SubmissionSteps

(***************************************************************************)
(* One submission at a time.                                               *)
(***************************************************************************)
LEMMA OneSubmissionKept ==
  ASSUME TypeOK, HandlersOK, PaidSideIffPaid, SubmissionsMatch, OneSubmissionAtATime,
         [Next]_vars
  PROVE  OneSubmissionAtATime'
<1>1. \A m \in ManualPayments : sub'[m] = "approved" => pay'[m] = "validated"
  BY MatchKept DEF SubmissionsMatch
<1>2. ASSUME NEW m \in ManualPayments, NEW n \in ManualPayments, m # n,
             OrderOf[m] = OrderOf[n], sub'[m] \in {"pending", "approved"}, sub'[n] = sub'[m]
      PROVE  FALSE
  <2>1. ASSUME NEW x \in ManualPayments, NEW y \in ManualPayments, x # y,
               OrderOf[x] = OrderOf[y], sub'[x] # sub[x],
               sub'[x] \in {"pending", "approved"}, sub'[y] = sub'[x]
        PROVE  FALSE
    <3>1. CASE Submit(x)
      BY <2>1, <3>1 DEF Submit, AwaitsReview, TypeOK
    <3>2. CASE Approve(x)
      <4>1. sub[y] = "approved" /\ status[OrderOf[y]] = "pending_payment"
        BY <2>1, <3>2 DEF Approve, TypeOK
      <4>2. paidBy[OrderOf[y]] # "none" /\ OrderOf[y] \in Orders
        BY <4>1 DEF SubmissionsMatch, Payments
      <4> QED BY <4>1, <4>2 DEF PaidSideIffPaid, PaidSide
    <3> QED BY <2>1, <3>1, <3>2, SubmissionSteps
  <2>2. CASE sub'[m] = sub[m] /\ sub'[n] = sub[n]
    BY <1>2, <2>2 DEF OneSubmissionAtATime
  <2> QED BY <1>2, <2>1, <2>2
<1> QED BY <1>1, <1>2 DEF OneSubmissionAtATime

(***************************************************************************)
(* A paid order has a reason to be paid.                                   *)
(***************************************************************************)
LEMMA BackedKept ==
  ASSUME TypeOK, HandlersOK, PaidSideIffPaid, SubmissionsMatch, PaidIsBacked, [Next]_vars
  PROVE  PaidIsBacked'
<1> SUFFICES ASSUME NEW o \in Orders
             PROVE  /\ paidBy'[o] = "gateway" =>
                         \E p \in GatewayPayments : OrderOf[p] = o /\ taken'[p]
                    /\ paidBy'[o] = "manual" =>
                         \E m \in ManualPayments : OrderOf[m] = o /\ sub'[m] = "approved"
                    /\ paidBy'[o] = "admin" => Submissions(o)' = {}
                    /\ status'[o] \in PaidSide => paidBy'[o] # "none"
  BY DEF PaidIsBacked
<1>1. CASE paidBy[o] = "none" /\ paidBy'[o] # "none"
  <2>1. ASSUME NEW h \in Handlers, RecordAndMove(h), Target(h) = "paid",
               OrderOf[ses[h].call.pay] = o
        PROVE  \E p \in GatewayPayments : OrderOf[p] = o /\ taken'[p]
    <3>1. ses[h].call.pay \in GatewayPayments /\ taken[ses[h].call.pay]
      BY <2>1 DEF RecordAndMove, Target, HandlersOK, HandlerOK, Fingerprints
    <3> QED BY <2>1, <3>1, TakenStays
  <2>2. ASSUME NEW m \in ManualPayments, Approve(m), OrderOf[m] = o
        PROVE  sub'[m] = "approved"
    BY <2>2 DEF Approve, TypeOK
  <2>3. ASSUME AdminTransition(o, "paid") PROVE Submissions(o)' = {}
    <3>1. \A m \in ManualPayments : OrderOf[m] = o => sub[m] # "approved"
      BY <1>1 DEF SubmissionsMatch
    <3> QED BY <2>3, <3>1 DEF AdminTransition, Reviewed, Submissions
  <2> QED BY <1>1, <2>1, <2>2, <2>3, WhoPays
<1>2. CASE paidBy[o] # "none"
  <2>1. paidBy'[o] = paidBy[o]
    BY <1>2, PaidByKept
  <2>2. \A m \in ManualPayments : sub[m] = "approved" => sub'[m] = "approved"
    BY SubmissionSteps DEF Submit, Approve, Decline
  <2>3. ASSUME paidBy[o] = "admin" PROVE Submissions(o)' = {}
    <3>1. \A m \in ManualPayments : OrderOf[m] = o => ~Submit(m)
      BY <1>2 DEF Submit, PaidSideIffPaid, PaidSide
    <3>2. \A m \in ManualPayments : OrderOf[m] = o => sub[m] = "absent"
      BY <2>3 DEF PaidIsBacked, Submissions
    <3>3. \A m \in ManualPayments : OrderOf[m] = o => sub'[m] = "absent"
      BY <3>1, <3>2, SubmissionSteps DEF Approve, Decline
    <3> QED BY <3>3 DEF Submissions
  <2> QED BY <1>2, <2>1, <2>2, <2>3, TakenStays DEF PaidIsBacked
<1>3. CASE paidBy'[o] = "none"
  BY <1>3, SidesKept DEF PaidSideIffPaid, PaidSide, OrderStatus
<1> QED BY <1>1, <1>2, <1>3

-----------------------------------------------------------------------------
(* More writers.                                                           *)

\* Only these steps write the latest event of a payment.
LEMMA LatestWriters ==
  ASSUME [Next]_vars
  PROVE  \/ UNCHANGED latest
         \/ \E h \in Requests, p \in GatewayPayments, m \in Messages : ReceiveIpn(h, p, m)
         \/ \E o \in Orders : DestroyDelete(o)
<1>1. CASE UNCHANGED vars
  BY <1>1 DEF vars
<1>2. CASE Next
  BY <1>2
  DEF Next, External, Callback, Reconcile, CustomerPays, GatewayDeclines,
      GrowOlder, StartPayment, GatewayAnswers, GatewayTimesOut, CrashHandler,
      AlreadySettled, PaymentVanished, LockPayment, RecordPaymentOnly,
      RecordAndMove, TransitionRefused, ReconcileStart, ReconcileSilent,
      ReconcileExpire, ReconcileReplay, Submit, Approve, Decline,
      AdminTransition, Refulfill, DestroyCheck, Dispatch, LoseDispatch,
      FulfillGrant, FulfillMove, CrashJob
<1> QED BY <1>1, <1>2

\* Only these steps write events.
LEMMA EventWriters ==
  ASSUME [Next]_vars
  PROVE  \/ UNCHANGED events
         \/ \E h \in Requests, p \in GatewayPayments, m \in Messages : ReceiveIpn(h, p, m)
         \/ \E p \in GatewayPayments : ReconcileReplay(p)
         \/ \E o \in Orders : DestroyDelete(o)
<1>1. CASE UNCHANGED vars
  BY <1>1 DEF vars
<1>2. CASE Next
  BY <1>2
  DEF Next, External, Callback, Reconcile, CustomerPays, GatewayDeclines,
      GrowOlder, StartPayment, GatewayAnswers, GatewayTimesOut, CrashHandler,
      AlreadySettled, PaymentVanished, LockPayment, RecordPaymentOnly,
      RecordAndMove, TransitionRefused, ReconcileStart, ReconcileSilent,
      ReconcileExpire, Submit, Approve, Decline, AdminTransition, Refulfill,
      DestroyCheck, Dispatch, LoseDispatch, FulfillGrant, FulfillMove,
      CrashJob
<1> QED BY <1>1, <1>2

\* Only an attempt nothing was heard of is about to be expired.
LEMMA ExpiringWriters ==
  ASSUME TypeOK, [Next]_vars, NEW p \in Payments, p \in expiring', p \notin expiring
  PROVE  p \in GatewayPayments /\ ReconcileSilent(p)
<1>1. CASE UNCHANGED vars
  BY <1>1 DEF vars
<1>2. ASSUME NEW q \in GatewayPayments, ReconcileSilent(q)
      PROVE  p \in GatewayPayments /\ ReconcileSilent(p)
  BY <1>2 DEF ReconcileSilent
<1>3. CASE Next /\ ~\E q \in GatewayPayments : ReconcileSilent(q)
  BY <1>3
  DEF Next, External, Callback, Reconcile, reconVars, StopHandler,
      CustomerPays, GatewayDeclines, GrowOlder, StartPayment, ReceiveIpn,
      GatewayAnswers, GatewayTimesOut, CrashHandler, AlreadySettled,
      PaymentVanished, LockPayment, RecordPaymentOnly, RecordAndMove,
      TransitionRefused, ReconcileStart, ReconcileExpire, ReconcileReplay,
      Submit, Approve, Decline, AdminTransition, Refulfill, DestroyCheck,
      DestroyDelete, Dispatch, LoseDispatch, FulfillGrant, FulfillMove,
      CrashJob
<1> QED BY <1>1, <1>2, <1>3

\* Only a deletion that passed its checks is about to delete.
LEMMA DestroyingWriters ==
  ASSUME [Next]_vars, NEW o \in Orders, o \in destroying', o \notin destroying
  PROVE  DestroyCheck(o)
<1>1. CASE UNCHANGED vars
  BY <1>1 DEF vars
<1>2. ASSUME NEW x \in Orders, DestroyCheck(x) \/ DestroyDelete(x) PROVE DestroyCheck(o)
  BY <1>2 DEF DestroyCheck, DestroyDelete
<1>3. CASE Next /\ ~\E x \in Orders : DestroyCheck(x) \/ DestroyDelete(x)
  BY <1>3
  DEF Next, External, Callback, Reconcile, StopHandler,
      CustomerPays, GatewayDeclines, GrowOlder, StartPayment, ReceiveIpn,
      GatewayAnswers, GatewayTimesOut, CrashHandler, AlreadySettled,
      PaymentVanished, LockPayment, RecordPaymentOnly, RecordAndMove,
      TransitionRefused, ReconcileStart, ReconcileSilent, ReconcileExpire,
      ReconcileReplay, Submit, Approve, Decline, AdminTransition, Refulfill,
      Dispatch, LoseDispatch, FulfillGrant, FulfillMove, CrashJob
<1> QED BY <1>1, <1>2, <1>3

\* A deleted order does not come back.
LEMMA GoneForEver ==
  ASSUME TypeOK, HandlersOK, [Next]_vars, NEW o \in Orders, status[o] = "deleted"
  PROVE  status'[o] = "deleted"
BY OrderSteps, Sides
DEF orderVars, MoveOrder, DestroyDelete, TypeOK, OrderStatus

-----------------------------------------------------------------------------
(* Card payments: what a lock protects.                                    *)

\* Only these steps write what a worker is doing.
LEMMA SessionWriters ==
  ASSUME [Next]_vars
  PROVE  \/ UNCHANGED ses
         \/ \E h \in Requests, p \in GatewayPayments, m \in Messages : ReceiveIpn(h, p, m)
         \/ \E p \in GatewayPayments : ReconcileReplay(p)
         \/ \E h \in Handlers, v \in Verdicts : GatewayAnswers(h, v)
         \/ \E h \in Handlers : LockPayment(h)
         \/ \E h \in Handlers : ses' = [ses EXCEPT ![h] = Idle]
<1>1. CASE UNCHANGED vars
  BY <1>1 DEF vars
<1>2. CASE Next
  BY <1>2
  DEF Next, External, Callback, Reconcile, StopHandler, CustomerPays,
      GatewayDeclines, GrowOlder, StartPayment, GatewayTimesOut, CrashHandler,
      AlreadySettled, PaymentVanished, RecordPaymentOnly, RecordAndMove,
      TransitionRefused, ReconcileStart, ReconcileSilent, ReconcileExpire,
      Submit, Approve, Decline, AdminTransition, Refulfill, DestroyCheck,
      DestroyDelete, Dispatch, LoseDispatch, FulfillGrant, FulfillMove,
      CrashJob
<1> QED BY <1>1, <1>2

LEMMA AskingSession ==
  ASSUME NEW fp
  PROVE  /\ [Idle EXCEPT !.pc = "asking", !.call = fp].pc = "asking"
         /\ [Idle EXCEPT !.pc = "asking", !.call = fp].call = fp
BY DEF Idle

\* A worker settles a payment only by taking its lock, and keeps what it knew.
LEMMA Settlers ==
  ASSUME TypeOK, HandlersOK, [Next]_vars, NEW h \in Handlers, ses'[h].pc = "settling"
  PROVE  \/ ses'[h] = ses[h]
         \/ /\ LockPayment(h)
            /\ ses'[h].call = ses[h].call /\ ses'[h].verdict = ses[h].verdict
<1> USE DEF TypeOK
<1>1. ASSUME NEW g \in Requests, NEW p \in GatewayPayments, NEW m \in Messages,
             ReceiveIpn(g, p, m)
      PROVE  ses'[h] = ses[h]
  <2> DEFINE s == [Idle EXCEPT !.pc = "asking",
                               !.call = [source |-> "ipn", pay |-> p, msg |-> m]]
  <2>1. s.pc = "asking"
    BY AskingSession
  <2>2. ses' = ses \/ ses' = [ses EXCEPT ![g] = s]
    BY <1>1 DEF ReceiveIpn
  <2> HIDE DEF s
  <2> QED BY <2>1, <2>2
<1>2. ASSUME NEW p \in GatewayPayments, ReconcileReplay(p) PROVE ses'[h] = ses[h]
  <2> DEFINE s == [Idle EXCEPT !.pc = "asking",
                    !.call = [source |-> "reconciliation", pay |-> p, msg |-> latest[p]]]
  <2>1. s.pc = "asking"
    BY AskingSession
  <2>2. ses' = ses \/ ses' = [ses EXCEPT ![Reconciler] = s]
    BY <1>2 DEF ReconcileReplay
  <2> HIDE DEF s
  <2> QED BY <2>1, <2>2
<1>3. ASSUME NEW g \in Handlers, NEW v \in Verdicts, GatewayAnswers(g, v)
      PROVE  ses'[h] = ses[h]
  BY <1>3 DEF GatewayAnswers, Idle, Session
<1>4. ASSUME NEW g \in Handlers, LockPayment(g), ses'[h] # ses[h]
      PROVE  g = h /\ ses'[h].call = ses[h].call /\ ses'[h].verdict = ses[h].verdict
  BY <1>4 DEF LockPayment, Session
<1>5. ASSUME NEW g \in Handlers, ses' = [ses EXCEPT ![g] = Idle] PROVE ses'[h] = ses[h]
  BY <1>5 DEF Idle
<1> QED BY <1>1, <1>2, <1>3, <1>4, <1>5, SessionWriters

\* Who can write the row of a card payment.
LEMMA CardRows ==
  ASSUME TypeOK, HandlersOK, [Next]_vars, NEW p \in GatewayPayments
  PROVE  \/ pay'[p] = pay[p]
         \/ StartPayment(p) /\ pay'[p] = "pending"
         \/ ReconcileExpire(p) /\ pay'[p] = (IF pay[p] = "absent" THEN "absent" ELSE "failed")
         \/ \E h \in Handlers :
              /\ RecordPaymentOnly(h) \/ RecordAndMove(h)
              /\ ses[h].call.pay = p /\ pay'[p] = Recorded(h)
         \/ DestroyDelete(OrderOf[p]) /\ pay'[p] = "absent" /\ status'[OrderOf[p]] = "deleted"
<1>0. p \in Payments /\ OrderOf[p] \in Orders
  BY DEF Payments
<1>1. ASSUME NEW q \in GatewayPayments, StartPayment(q) \/ ReconcileExpire(q), q # p
      PROVE  pay'[p] = pay[p]
  BY <1>0, <1>1 DEF StartPayment, ReconcileExpire, TypeOK
<1>2. CASE StartPayment(p) \/ ReconcileExpire(p)
  BY <1>0, <1>2 DEF StartPayment, ReconcileExpire, TypeOK
<1>3. ASSUME NEW h \in Handlers, RecordPaymentOnly(h) \/ RecordAndMove(h), pay'[p] # pay[p]
      PROVE  ses[h].call.pay = p /\ pay'[p] = Recorded(h)
  BY <1>0, <1>3 DEF RecordPaymentOnly, RecordAndMove, TypeOK
<1>4. ASSUME NEW m \in ManualPayments, Submit(m) \/ Approve(m) \/ Decline(m)
      PROVE  pay'[p] = pay[p]
  BY <1>0, <1>4 DEF Submit, Approve, Decline, TypeOK
<1>5. ASSUME NEW o \in Orders, DestroyDelete(o), pay'[p] # pay[p]
      PROVE  o = OrderOf[p] /\ pay'[p] = "absent" /\ status'[OrderOf[p]] = "deleted"
  BY <1>0, <1>5 DEF DestroyDelete, TypeOK
<1> QED BY <1>1, <1>2, <1>3, <1>4, <1>5, PayWriters

\* While a worker holds the lock of a payment nobody else writes its row.
LEMMA LockedRowKept ==
  ASSUME TypeOK, HandlersOK, LocksHeld, [Next]_vars,
         NEW h \in Handlers, ses[h].pc = "settling", ses'[h] = ses[h]
  PROVE  pay'[ses[h].call.pay] = pay[ses[h].call.pay]
<1> DEFINE p == ses[h].call.pay
<1>1. p \in GatewayPayments /\ pay[p] # "absent" /\ ~Unlocked(p)
  BY DEF HandlersOK, HandlerOK, Fingerprints, LocksHeld, Unlocked
<1>2. ~StartPayment(p) /\ ~ReconcileExpire(p)
  BY <1>1 DEF StartPayment, ReconcileExpire
<1>3. ASSUME NEW g \in Handlers, RecordPaymentOnly(g) \/ RecordAndMove(g), ses[g].call.pay = p
      PROVE  FALSE
  <2>1. g = h
    BY <1>3 DEF LocksHeld, RecordPaymentOnly, RecordAndMove
  <2> QED BY <1>3, <2>1 DEF RecordPaymentOnly, RecordAndMove, TypeOK, Idle
<1>4. ~DestroyDelete(OrderOf[p])
  BY <1>1 DEF DestroyDelete
<1> QED BY <1>1, <1>2, <1>3, <1>4, CardRows

LEMMA LocksKept ==
  ASSUME TypeOK, HandlersOK, LocksHeld, [Next]_vars
  PROVE  LocksHeld'
<1> SUFFICES ASSUME NEW h \in Handlers, ses'[h].pc = "settling"
             PROVE  /\ pay'[ses'[h].call.pay] # "absent"
                    /\ ~NothingToRecord(ses[h].call.pay, ses[h].verdict)'
                    /\ \A g \in Handlers :
                         ses'[g].pc = "settling" /\ ses'[g].call.pay = ses'[h].call.pay => g = h
  BY DEF LocksHeld, NothingToRecord
<1>1. CASE ses'[h] = ses[h]
  <2>1. ses[h].pc = "settling"
    BY <1>1
  <2>2. pay'[ses[h].call.pay] = pay[ses[h].call.pay]
    BY <1>1, <2>1, LockedRowKept
  <2>3. ASSUME NEW g \in Handlers, ses'[g].pc = "settling", ses'[g].call.pay = ses[h].call.pay
        PROVE  g = h
    <3>1. CASE ses'[g] = ses[g]
      BY <2>1, <2>3, <3>1 DEF LocksHeld
    <3>2. CASE LockPayment(g) /\ ses'[g].call = ses[g].call
      BY <2>1, <2>3, <3>2 DEF LockPayment, Unlocked
    <3> QED BY <2>3, <3>1, <3>2, Settlers
  <2> QED BY <1>1, <2>1, <2>2, <2>3 DEF LocksHeld, NothingToRecord
<1>2. CASE LockPayment(h) /\ ses'[h].call = ses[h].call /\ ses'[h].verdict = ses[h].verdict
  <2>1. UNCHANGED pay
    BY <1>2 DEF LockPayment
  <2>2. ASSUME NEW g \in Handlers, g # h, ses'[g].pc = "settling"
        PROVE  ses'[g].call.pay # ses[h].call.pay
    <3>1. ses'[g] = ses[g]
      BY <1>2, <2>2 DEF LockPayment, TypeOK
    <3> QED BY <1>2, <2>2, <3>1 DEF LockPayment, Unlocked
  <2> QED BY <1>2, <2>1, <2>2 DEF LockPayment, NothingToRecord
<1> QED BY <1>1, <1>2, Settlers

LEMMA GoneKept ==
  ASSUME TypeOK, HandlersOK, LocksHeld, GoneIsGone, [Next]_vars
  PROVE  GoneIsGone'
<1> SUFFICES ASSUME NEW p \in GatewayPayments
             PROVE  /\ status'[OrderOf[p]] = "deleted" => pay'[p] = "absent"
                    /\ pay'[p] = "absent" => latest'[p] = "none"
  BY DEF GoneIsGone
<1>0. OrderOf[p] \in Orders /\ p \in Payments
  BY DEF Payments
<1>1. CASE DestroyDelete(OrderOf[p])
  BY <1>0, <1>1 DEF DestroyDelete, GoneIsGone, TypeOK
<1>2. CASE ~DestroyDelete(OrderOf[p])
  <2>1. status'[OrderOf[p]] = "deleted" => status[OrderOf[p]] = "deleted"
    BY <1>0, <1>2, OrderSteps
    DEF orderVars, MoveOrder, DestroyDelete, TypeOK, OrderStatus
  <2>2. ASSUME NEW h \in Handlers, RecordPaymentOnly(h) \/ RecordAndMove(h),
               ses[h].call.pay = p
        PROVE  pay[p] # "absent" /\ Recorded(h) # "absent"
    BY <2>2
    DEF RecordPaymentOnly, RecordAndMove, LocksHeld, HandlersOK, HandlerOK,
        Recorded, Held, IsSuccess, Verdicts
  <2>3. status'[OrderOf[p]] = "deleted" => pay'[p] = "absent"
    BY <1>2, <2>1, <2>2, CardRows DEF GoneIsGone, StartPayment
  <2>4. pay'[p] = "absent" => pay[p] = "absent"
    BY <1>2, <2>2, CardRows
  <2>5. pay[p] = "absent" => latest'[p] = latest[p]
    <3>1. ASSUME NEW h \in Requests, NEW q \in GatewayPayments, NEW m \in Messages,
                 ReceiveIpn(h, q, m), pay[p] = "absent"
          PROVE  latest'[p] = latest[p]
      BY <3>1 DEF ReceiveIpn, TypeOK
    <3>2. ASSUME NEW o \in Orders, DestroyDelete(o) PROVE latest'[p] = latest[p]
      BY <1>2, <3>2 DEF DestroyDelete, TypeOK
    <3> QED BY <3>1, <3>2, LatestWriters
  <2> QED BY <2>3, <2>4, <2>5 DEF GoneIsGone
<1> QED BY <1>1, <1>2

(***************************************************************************)
(* Never online and by hand at once.                                       *)
(***************************************************************************)
LEMMA NoParallelKept ==
  ASSUME TypeOK, HandlersOK, NoParallelAttempts, [Next]_vars
  PROVE  NoParallelAttempts'
<1> SUFFICES ASSUME NEW m \in ManualPayments, NEW p \in GatewayPayments,
                    OrderOf[p] = OrderOf[m], sub'[m] = "pending", pay'[p] = "pending"
             PROVE  FALSE
  BY DEF NoParallelAttempts
<1>0. m \in Payments /\ p \in Payments
  BY DEF Payments
<1>1. sub[m] = "pending" \/ Submit(m)
  BY SubmissionSteps
<1>2. \A h \in Handlers : ses[h].pc = "settling" => Recorded(h) # "pending"
  BY DEF HandlersOK, HandlerOK, Recorded, Held, IsSuccess, Verdicts
<1>3. pay[p] = "pending" \/ StartPayment(p)
  BY <1>2, CardRows DEF RecordPaymentOnly, RecordAndMove
<1>4. ~(sub[m] = "pending" /\ pay[p] = "pending")
  BY DEF NoParallelAttempts
<1>5. CASE StartPayment(p)
  BY <1>5 DEF StartPayment, AwaitsReview
<1>6. CASE Submit(m)
  BY <1>0, <1>3, <1>5, <1>6 DEF Submit, OnlineInProgress
<1> QED BY <1>1, <1>3, <1>4, <1>5, <1>6

(***************************************************************************)
(* The fingerprint is a claim.                                             *)
(***************************************************************************)

\* The events of an order's payments stay until the order goes.
LEMMA EventsKept ==
  ASSUME TypeOK, [Next]_vars, NEW e \in events,
         status'[OrderOf[e.pay]] # "deleted"
  PROVE  e \in events'
<1>1. ASSUME NEW o \in Orders, DestroyDelete(o) PROVE e \in events'
  BY <1>1 DEF DestroyDelete, TypeOK
<1>2. ASSUME NEW h \in Requests, NEW p \in GatewayPayments, NEW m \in Messages,
             ReceiveIpn(h, p, m)
      PROVE  e \in events'
  BY <1>2 DEF ReceiveIpn
<1>3. ASSUME NEW p \in GatewayPayments, ReconcileReplay(p) PROVE e \in events'
  BY <1>3 DEF ReconcileReplay
<1> QED BY <1>1, <1>2, <1>3, EventWriters

\* A worker takes up a callback by storing its event, which nobody had stored.
LEMMA Claim ==
  ASSUME TypeOK, HandlersOK, GoneIsGone, [Next]_vars,
         NEW h \in Handlers, ses'[h].pc # "idle"
  PROVE  \/ ses[h].pc # "idle" /\ ses'[h].call = ses[h].call
         \/ /\ ses[h].pc = "idle"
            /\ ses'[h].call \in Fingerprints
            /\ ses'[h].call \notin events /\ ses'[h].call \in events'
            /\ status[OrderOf[ses'[h].call.pay]] # "deleted"
            /\ \A g \in Handlers \ {h} : ses'[g] = ses[g]
<1> USE DEF TypeOK
<1>1. ASSUME NEW g \in Requests, NEW p \in GatewayPayments, NEW m \in Messages,
             ReceiveIpn(g, p, m), g = h, ses'[h] # ses[h]
      PROVE  /\ ses[h].pc = "idle"
             /\ ses'[h].call \in Fingerprints
             /\ ses'[h].call \notin events /\ ses'[h].call \in events'
             /\ status[OrderOf[ses'[h].call.pay]] # "deleted"
             /\ \A x \in Handlers \ {h} : ses'[x] = ses[x]
  <2>1. pay[p] # "absent"
    BY <1>1 DEF ReceiveIpn
  <2>2. status[OrderOf[p]] # "deleted"
    BY <2>1 DEF GoneIsGone
  <2>3. ses'[h].call = [source |-> "ipn", pay |-> p, msg |-> m]
    <3> DEFINE s == [Idle EXCEPT !.pc = "asking",
                                 !.call = [source |-> "ipn", pay |-> p, msg |-> m]]
    <3>1. s.call = [source |-> "ipn", pay |-> p, msg |-> m]
      BY AskingSession
    <3>2. ses' = [ses EXCEPT ![h] = s]
      BY <1>1, <2>1 DEF ReceiveIpn
    <3> HIDE DEF s
    <3> QED BY <3>1, <3>2
  <2> QED BY <1>1, <2>2, <2>3 DEF ReceiveIpn, Fingerprints, Claimed
<1>2. ASSUME NEW p \in GatewayPayments, ReconcileReplay(p), h = Reconciler, ses'[h] # ses[h]
      PROVE  /\ ses[h].pc = "idle"
             /\ ses'[h].call \in Fingerprints
             /\ ses'[h].call \notin events /\ ses'[h].call \in events'
             /\ status[OrderOf[ses'[h].call.pay]] # "deleted"
             /\ \A x \in Handlers \ {h} : ses'[x] = ses[x]
  <2>1. latest[p] # "none"
    BY <1>2 DEF ReconcileReplay
  <2>2. status[OrderOf[p]] # "deleted"
    BY <2>1 DEF GoneIsGone
  <2>3. ses'[h].call = [source |-> "reconciliation", pay |-> p, msg |-> latest[p]]
    <3> DEFINE s == [Idle EXCEPT !.pc = "asking",
                      !.call = [source |-> "reconciliation", pay |-> p, msg |-> latest[p]]]
    <3>1. s.call = [source |-> "reconciliation", pay |-> p, msg |-> latest[p]]
      BY AskingSession
    <3>2. ses' = [ses EXCEPT ![h] = s]
      BY <1>2 DEF ReconcileReplay
    <3> HIDE DEF s
    <3> QED BY <3>1, <3>2
  <2>4. ses[h].pc = "idle"
    BY <1>2 DEF ReconcileReplay, ReconcilerFree
  <2> QED BY <1>2, <2>1, <2>2, <2>3, <2>4
          DEF ReconcileReplay, Fingerprints, Claimed
<1>3. ASSUME NEW g \in Handlers, NEW v \in Verdicts, GatewayAnswers(g, v), g = h
      PROVE  ses[h].pc # "idle" /\ ses'[h].call = ses[h].call
  BY <1>3 DEF GatewayAnswers, Idle, Session
<1>4. ASSUME NEW g \in Handlers, LockPayment(g), g = h
      PROVE  ses[h].pc # "idle" /\ ses'[h].call = ses[h].call
  BY <1>4 DEF LockPayment, Session
<1>5. CASE ses'[h] = ses[h]
  BY <1>5
<1>6. CASE ses'[h] # ses[h]
  <2>1. ASSUME NEW g \in Handlers, ses' = [ses EXCEPT ![g] = Idle] PROVE FALSE
    BY <1>6, <2>1 DEF Idle
  <2>2. ASSUME NEW g \in Requests, NEW p \in GatewayPayments, NEW m \in Messages,
               ReceiveIpn(g, p, m)
        PROVE  g = h
    BY <1>6, <2>2 DEF ReceiveIpn, Handlers
  <2>3. ASSUME NEW p \in GatewayPayments, ReconcileReplay(p) PROVE h = Reconciler
    BY <1>6, <2>3 DEF ReconcileReplay, Handlers
  <2>4. ASSUME NEW g \in Handlers, (\E v \in Verdicts : GatewayAnswers(g, v)) \/ LockPayment(g)
        PROVE  g = h
    BY <1>6, <2>4 DEF GatewayAnswers, LockPayment
  <2> QED BY <1>1, <1>2, <1>3, <1>4, <1>6, <2>1, <2>2, <2>3, <2>4,
             SessionWriters
<1> QED BY <1>5, <1>6

\* A worker's callback is the one it had, one just delivered, or one replayed.
LEMMA NewWork ==
  ASSUME TypeOK, HandlersOK, [Next]_vars, NEW h \in Handlers, ses'[h].pc # "idle"
  PROVE  \/ ses[h].pc # "idle" /\ ses'[h].call = ses[h].call
         \/ \E p \in GatewayPayments, m \in Messages :
              ReceiveIpn(h, p, m) /\ ses'[h].call.pay = p /\ pay[p] # "absent"
         \/ \E p \in GatewayPayments : ReconcileReplay(p) /\ ses'[h].call.pay = p
<1> USE DEF TypeOK
<1>1. CASE ses'[h] = ses[h]
  BY <1>1
<1>2. ASSUME NEW g \in Requests, NEW p \in GatewayPayments, NEW m \in Messages,
             ReceiveIpn(g, p, m), ses'[h] # ses[h]
      PROVE  g = h /\ ses'[h].call.pay = p /\ pay[p] # "absent"
  <2> DEFINE fp == [source |-> "ipn", pay |-> p, msg |-> m]
             s  == [Idle EXCEPT !.pc = "asking", !.call = fp]
  <2>1. s.call = fp
    BY AskingSession
  <2>2. ses' = [ses EXCEPT ![g] = s] /\ pay[p] # "absent"
    BY <1>2 DEF ReceiveIpn
  <2> HIDE DEF s
  <2> QED BY <1>2, <2>1, <2>2
<1>3. ASSUME NEW p \in GatewayPayments, ReconcileReplay(p), ses'[h] # ses[h]
      PROVE  ses'[h].call.pay = p
  <2> DEFINE fp == [source |-> "reconciliation", pay |-> p, msg |-> latest[p]]
             s  == [Idle EXCEPT !.pc = "asking", !.call = fp]
  <2>1. s.call = fp
    BY AskingSession
  <2>2. ses' = [ses EXCEPT ![Reconciler] = s]
    BY <1>3 DEF ReconcileReplay
  <2> HIDE DEF s
  <2> QED BY <1>3, <2>1, <2>2
<1>4. ASSUME NEW g \in Handlers, NEW v \in Verdicts, GatewayAnswers(g, v), ses'[h] # ses[h]
      PROVE  ses[h].pc # "idle" /\ ses'[h].call = ses[h].call
  BY <1>4 DEF GatewayAnswers, Idle, Session
<1>5. ASSUME NEW g \in Handlers, LockPayment(g), ses'[h] # ses[h]
      PROVE  ses[h].pc # "idle" /\ ses'[h].call = ses[h].call
  BY <1>5 DEF LockPayment, Session
<1>6. ASSUME NEW g \in Handlers, ses' = [ses EXCEPT ![g] = Idle] PROVE ses'[h] = ses[h]
  BY <1>6 DEF Idle
<1> QED BY <1>1, <1>2, <1>3, <1>4, <1>5, <1>6, SessionWriters

LEMMA OneWorkerKept ==
  ASSUME TypeOK, HandlersOK, GoneIsGone, OneWorkerPerCallback, [Next]_vars
  PROVE  OneWorkerPerCallback'
<1> DEFINE Kept(h)  == ses[h].pc # "idle" /\ ses'[h].call = ses[h].call
           Taken(h) == /\ ses[h].pc = "idle"
                       /\ ses'[h].call \in Fingerprints
                       /\ ses'[h].call \notin events /\ ses'[h].call \in events'
                       /\ status[OrderOf[ses'[h].call.pay]] # "deleted"
                       /\ \A g \in Handlers \ {h} : ses'[g] = ses[g]
<1>1. \A h \in Handlers : ses'[h].pc # "idle" => Kept(h) \/ Taken(h)
  BY Claim
<1>2. \A h \in Handlers : ses'[h].pc # "idle" => ses'[h].call \in Fingerprints
  BY TypesKept DEF HandlersOK, HandlerOK
<1>3. \A h \in Handlers : ses'[h].pc = "idle" => ses'[h].call = NoCall
  BY TypesKept DEF HandlersOK, HandlerOK
<1>4. ASSUME NEW h \in Handlers, ses'[h].pc # "idle"
      PROVE  status'[OrderOf[ses'[h].call.pay]] # "deleted" => ses'[h].call \in events'
  <2>1. CASE Taken(h)
    BY <2>1
  <2>2. CASE Kept(h)
    <3> SUFFICES ASSUME status'[OrderOf[ses[h].call.pay]] # "deleted"
                 PROVE  ses[h].call \in events'
      BY <2>2
    <3>1. status[OrderOf[ses[h].call.pay]] # "deleted"
      <4>1. ses[h].call.pay \in GatewayPayments /\ OrderOf[ses[h].call.pay] \in Orders
        BY <2>2 DEF HandlersOK, HandlerOK, Fingerprints, Payments
      <4> QED BY <4>1, GoneForEver
    <3>2. ses[h].call \in events
      BY <2>2, <3>1 DEF OneWorkerPerCallback
    <3> QED BY <3>2, EventsKept
  <2> QED BY <1>1, <1>4, <2>1, <2>2
<1>5. ASSUME NEW h \in Handlers, NEW g \in Handlers, ses'[h].pc # "idle",
             ses'[g].call = ses'[h].call, g # h
      PROVE  FALSE
  <2>1. ses'[g].pc # "idle"
    BY <1>2, <1>3, <1>5
  <2>2. CASE Kept(h) /\ Kept(g)
    BY <1>5, <2>2 DEF OneWorkerPerCallback
  <2>3. ASSUME NEW x \in Handlers, NEW y \in Handlers, x # y, Taken(x), Kept(y),
               ses'[x].call = ses'[y].call
        PROVE  FALSE
    BY <2>3 DEF OneWorkerPerCallback
  <2>4. CASE Taken(h) /\ Taken(g)
    BY <1>5, <2>1, <2>4
  <2> QED BY <1>1, <1>5, <2>1, <2>2, <2>3, <2>4
<1> QED BY <1>4, <1>5 DEF OneWorkerPerCallback

-----------------------------------------------------------------------------
(* The theorems.                                                           *)

(***************************************************************************)
(* The inductive invariant holds throughout: a paid order is paid for a    *)
(* reason that is there, nobody pays online and by hand at once, one       *)
(* submission at a time, one worker per callback.                          *)
(***************************************************************************)
THEOREM Invariance == Spec => []IInv
<1>1. Init => IInv
  <2> SUFFICES ASSUME Init PROVE IInv
    OBVIOUS
  <2>1. TypeOK /\ HandlersOK
    <3>1. ses \in [Handlers -> Session] /\ HandlersOK
      BY IdleSession DEF Init, HandlersOK
    <3> QED BY <3>1 DEF Init, TypeOK, AnyStatus, OrderStatus, PayStatus
  <2>2. LocksHeld /\ OneWorkerPerCallback
    BY DEF Init, LocksHeld, OneWorkerPerCallback, Idle
  <2>3. SubmissionsMatch /\ NoParallelAttempts /\ OneSubmissionAtATime
    BY DEF Init, SubmissionsMatch, NoParallelAttempts, OneSubmissionAtATime
  <2>4. PaidSideIffPaid /\ PaidIsBacked
    BY DEF Init, PaidSideIffPaid, PaidIsBacked, PaidSide
  <2>5. GoneIsGone
    BY DEF Init, GoneIsGone, Payments
  <2> QED BY <2>1, <2>2, <2>3, <2>4, <2>5 DEF IInv
<1>2. IInv /\ [Next]_vars => IInv'
  <2> SUFFICES ASSUME IInv, [Next]_vars PROVE IInv'
    OBVIOUS
  <2>1. TypeOK' /\ HandlersOK'
    BY TypesKept DEF IInv
  <2>2. LocksHeld' /\ GoneIsGone' /\ OneWorkerPerCallback'
    BY LocksKept, GoneKept, OneWorkerKept DEF IInv
  <2>3. SubmissionsMatch' /\ PaidSideIffPaid' /\ PaidIsBacked'
    BY MatchKept, SidesKept, BackedKept DEF IInv
  <2>4. NoParallelAttempts' /\ OneSubmissionAtATime'
    BY NoParallelKept, OneSubmissionKept DEF IInv
  <2> QED BY <2>1, <2>2, <2>3, <2>4 DEF IInv
<1> QED BY <1>1, <1>2, PTL DEF Spec

(***************************************************************************)
(* An order is paid for a reason that is really there.                     *)
(***************************************************************************)
THEOREM PaidForAReason == Spec => []PaidIsBacked
<1>1. IInv => PaidIsBacked
  BY DEF IInv
<1> QED BY <1>1, Invariance, PTL

(***************************************************************************)
(* Nobody pays online and by hand at the same time, and of the submissions *)
(* of an order one is reviewed at a time and one is approved at most.      *)
(***************************************************************************)
THEOREM OneAttemptAtATime == Spec => []OneAttempt
<1>1. IInv => OneAttempt
  BY DEF IInv, OneAttempt
<1> QED BY <1>1, Invariance, PTL

(***************************************************************************)
(* Copies of one callback are never processed side by side.                *)
(***************************************************************************)
THEOREM OneWorker == Spec => []OneWorkerPerCallback
<1>1. IInv => OneWorkerPerCallback
  BY DEF IInv
<1> QED BY <1>1, Invariance, PTL

\* Whoever asks the gateway about a payment, and whoever settled one, did so
\* on a message that is stored with it.
MessageKept ==
  /\ \A h \in Handlers : ses[h].pc # "idle" =>
       latest[ses[h].call.pay] # "none" \/ status[OrderOf[ses[h].call.pay]] = "deleted"
  /\ \A p \in GatewayPayments : pay[p] \in Settled => latest[p] # "none"

\* A payment's latest message goes away with its order only.
LEMMA LatestStays ==
  ASSUME TypeOK, HandlersOK, [Next]_vars, NEW p \in GatewayPayments,
         latest[p] # "none" \/ status[OrderOf[p]] = "deleted"
  PROVE  latest'[p] # "none" \/ status'[OrderOf[p]] = "deleted"
<1>0. p \in Payments /\ OrderOf[p] \in Orders
  BY DEF Payments
<1>1. CASE status[OrderOf[p]] = "deleted"
  BY <1>0, <1>1, GoneForEver
<1>2. ASSUME NEW h \in Requests, NEW q \in GatewayPayments, NEW m \in Messages,
             ReceiveIpn(h, q, m), latest[p] # "none"
      PROVE  latest'[p] # "none"
  BY <1>2 DEF ReceiveIpn, TypeOK, AllMessages
<1>3. ASSUME NEW o \in Orders, DestroyDelete(o), latest[p] # "none"
      PROVE  latest'[p] # "none" \/ status'[OrderOf[p]] = "deleted"
  BY <1>0, <1>3 DEF DestroyDelete, TypeOK
<1> QED BY <1>1, <1>2, <1>3, LatestWriters

LEMMA MessageIsKept ==
  ASSUME IInv, MessageKept, [Next]_vars
  PROVE  MessageKept'
<1>0. TypeOK /\ HandlersOK /\ LocksHeld /\ GoneIsGone
  BY DEF IInv
<1>1. ASSUME NEW h \in Handlers, ses'[h].pc # "idle"
      PROVE  latest'[ses'[h].call.pay] # "none"
             \/ status'[OrderOf[ses'[h].call.pay]] = "deleted"
  <2>1. ses'[h].call.pay \in GatewayPayments
    BY <1>0, <1>1, TypesKept DEF HandlersOK, HandlerOK, Fingerprints
  <2>2. CASE ses[h].pc # "idle" /\ ses'[h].call = ses[h].call
    BY <1>0, <2>1, <2>2, LatestStays DEF MessageKept
  <2>3. ASSUME NEW p \in GatewayPayments, NEW m \in Messages, ReceiveIpn(h, p, m),
               ses'[h].call.pay = p, pay[p] # "absent"
        PROVE  latest'[p] # "none"
    BY <1>0, <2>3, PaymentsAssumption DEF ReceiveIpn, TypeOK, AllMessages
  <2>4. ASSUME NEW p \in GatewayPayments, ReconcileReplay(p), ses'[h].call.pay = p
        PROVE  latest'[p] # "none"
    BY <1>0, <2>4 DEF ReconcileReplay, TypeOK
  <2> QED BY <1>0, <1>1, <2>1, <2>2, <2>3, <2>4, NewWork
<1>2. ASSUME NEW p \in GatewayPayments, pay'[p] \in Settled
      PROVE  latest'[p] # "none"
  <2>0. p \in Payments /\ pay'[p] \notin {"absent", "pending", "failed"}
    BY <1>2 DEF Payments, Settled
  <2>1. latest[p] # "none" \/ status[OrderOf[p]] = "deleted"
    <3>1. CASE pay'[p] = pay[p]
      BY <1>2, <3>1 DEF MessageKept
    <3>2. ASSUME NEW h \in Handlers, RecordPaymentOnly(h) \/ RecordAndMove(h),
                 ses[h].call.pay = p
          PROVE  latest[p] # "none" \/ status[OrderOf[p]] = "deleted"
      BY <3>2 DEF MessageKept, RecordPaymentOnly, RecordAndMove
    <3> QED BY <1>0, <2>0, <3>1, <3>2, CardRows
  <2>2. latest'[p] # "none" \/ status'[OrderOf[p]] = "deleted"
    BY <1>0, <2>1, LatestStays
  <2>3. status'[OrderOf[p]] # "deleted"
    BY <1>0, <2>0, GoneKept DEF GoneIsGone
  <2> QED BY <2>2, <2>3
<1> QED BY <1>1, <1>2 DEF MessageKept

(***************************************************************************)
(* A settled payment is never turned back, except by an expiry or a        *)
(* deletion that was decided on before the settlement arrived.             *)
(***************************************************************************)
THEOREM SettledIsKept == Spec => SettledStays
<1>1. IInv /\ MessageKept /\ [Next]_vars =>
        [\A p \in Payments :
           pay[p] \in Settled =>
             /\ pay'[p] \in Settled \/ DecidedEarlier(p)
             /\ p \in expiring' => p \in expiring
             /\ OrderOf[p] \in destroying' => OrderOf[p] \in destroying]_vars
  <2> SUFFICES ASSUME IInv, MessageKept, [Next]_vars, NEW p \in Payments,
                      pay[p] \in Settled
               PROVE  /\ pay'[p] \in Settled \/ DecidedEarlier(p)
                      /\ p \in expiring' => p \in expiring
                      /\ OrderOf[p] \in destroying' => OrderOf[p] \in destroying
    OBVIOUS
  <2>1. TypeOK /\ HandlersOK /\ LocksHeld /\ SubmissionsMatch
    BY DEF IInv
  <2>2. pay[p] \notin {"absent", "pending", "failed", "cancelled"}
    BY DEF Settled
  <2>3. ASSUME p \in GatewayPayments PROVE pay'[p] \in Settled \/ DecidedEarlier(p)
    <3>1. ASSUME NEW h \in Handlers, RecordPaymentOnly(h) \/ RecordAndMove(h),
                 ses[h].call.pay = p
          PROVE  Recorded(h) \in Settled
      <4>1. IsSuccess(ses[h].verdict)
        BY <2>1, <3>1
        DEF RecordPaymentOnly, RecordAndMove, LocksHeld, NothingToRecord
      <4> QED BY <4>1 DEF Recorded, Settled
    <3>2. ~StartPayment(p)
      BY <2>2 DEF StartPayment
    <3> QED BY <2>1, <2>3, <3>1, <3>2, CardRows DEF DecidedEarlier
  <2>4. ASSUME p \in ManualPayments PROVE pay'[p] \in Settled \/ DecidedEarlier(p)
    <3>1. sub[p] \notin {"absent", "pending"}
      BY <2>1, <2>2, <2>4 DEF SubmissionsMatch
    <3>2. pay'[p] = pay[p] \/ DestroyDelete(OrderOf[p])
      BY <2>1, <2>4, <3>1, ManualRows DEF Submit, Approve, Decline
    <3> QED BY <3>2 DEF DecidedEarlier
  <2>5. p \in expiring' => p \in expiring
    <3>1. ASSUME p \in expiring', p \notin expiring PROVE FALSE
      <4>1. ReconcileSilent(p) /\ p \in GatewayPayments
        BY <2>1, <3>1, ExpiringWriters
      <4>2. latest[p] # "none"
        BY <4>1 DEF MessageKept
      <4> QED BY <4>1, <4>2 DEF ReconcileSilent
    <3> QED BY <3>1
  <2>6. OrderOf[p] \in destroying' => OrderOf[p] \in destroying
    <3>1. ASSUME DestroyCheck(OrderOf[p]) PROVE FALSE
      BY <2>2, <3>1 DEF DestroyCheck, HasPayments
    <3> QED BY <2>1, <3>1, DestroyingWriters
  <2> QED BY <2>3, <2>4, <2>5, <2>6 DEF Payments
<1>2. Init => MessageKept
  BY IdleSession DEF Init, MessageKept, Idle, Settled, Payments
<1>3. IInv /\ MessageKept /\ [Next]_vars => MessageKept'
  BY MessageIsKept
<1> QED BY <1>1, <1>2, <1>3, Invariance, PTL DEF Spec, SettledStays

(***************************************************************************)
(* The gateway pays an order only in the step that validates one of its    *)
(* payments.                                                               *)
(***************************************************************************)
THEOREM PaysByValidating == Spec => PaidOnlyByValidation
<1>1. IInv /\ [Next]_vars =>
        [\A o \in Orders :
           paidBy[o] = "none" /\ paidBy'[o] = "gateway" =>
             \E p \in GatewayPayments :
               OrderOf[p] = o /\ pay[p] # "validated" /\ pay'[p] = "validated"]_vars
  <2> SUFFICES ASSUME IInv, [Next]_vars, NEW o \in Orders,
                      paidBy[o] = "none", paidBy'[o] = "gateway"
               PROVE  \E p \in GatewayPayments :
                        OrderOf[p] = o /\ pay[p] # "validated" /\ pay'[p] = "validated"
    OBVIOUS
  <2>1. PICK h \in Handlers :
          RecordAndMove(h) /\ Target(h) = "paid" /\ OrderOf[ses[h].call.pay] = o
    BY WhoPays DEF IInv
  <2> DEFINE p == ses[h].call.pay
  <2>2. p \in GatewayPayments /\ p \in Payments
    BY <2>1
    DEF IInv, RecordAndMove, HandlersOK, HandlerOK, Fingerprints, Payments
  <2>3. IsSuccess(ses[h].verdict) /\ Recorded(h) = "validated"
    BY <2>1 DEF Target, Recorded
  <2>4. pay[p] # "validated"
    BY <2>1, <2>3 DEF IInv, LocksHeld, NothingToRecord, RecordAndMove
  <2>5. pay'[p] = "validated"
    BY <2>1, <2>2, <2>3 DEF RecordAndMove, IInv, TypeOK
  <2> QED BY <2>1, <2>2, <2>4, <2>5
<1> QED BY <1>1, Invariance, PTL DEF Spec, PaidOnlyByValidation

-----------------------------------------------------------------------------
(* What a deletion cannot take.                                            *)

SubmissionsStay == \A m \in ManualPayments : sub[m] # "absent" => status[OrderOf[m]] # "deleted"

LEMMA SubmissionsStayKept ==
  ASSUME TypeOK, HandlersOK, SubmissionsStay, [Next]_vars
  PROVE  SubmissionsStay'
<1> SUFFICES ASSUME NEW m \in ManualPayments, sub'[m] # "absent", status'[OrderOf[m]] = "deleted"
             PROVE  FALSE
  BY DEF SubmissionsStay
<1>0. OrderOf[m] \in Orders
  BY DEF Payments
<1>1. CASE DestroyDelete(OrderOf[m])
  <2>1. sub[m] = "absent"
    <3>1. ASSUME Submissions(OrderOf[m]) # {} PROVE FALSE
      BY <1>0, <1>1, <3>1 DEF DestroyDelete, SubmissionsStay, Submissions
    <3> QED BY <3>1 DEF Submissions
  <2> QED BY <1>1, <2>1 DEF DestroyDelete
<1>2. CASE ~DestroyDelete(OrderOf[m])
  <2>1. status[OrderOf[m]] = "deleted"
    BY <1>0, <1>2, OrderSteps
    DEF orderVars, MoveOrder, DestroyDelete, TypeOK, OrderStatus
  <2>2. sub[m] = "absent" /\ Submit(m)
    BY <2>1, SubmissionSteps DEF SubmissionsStay, Approve, Decline
  <2> QED BY <2>1, <2>2 DEF Submit
<1> QED BY <1>1, <1>2

(***************************************************************************)
(* The unlocked deletion never takes an order with a submitted payment, or *)
(* one that staff approved.                                                *)
(***************************************************************************)
THEOREM SubmittedStays == Spec => []SubmittedIsKept
<1>1. Init => SubmissionsStay
  BY DEF Init, SubmissionsStay
<1>2. TypeOK /\ HandlersOK /\ SubmissionsStay /\ [Next]_vars => SubmissionsStay'
  BY SubmissionsStayKept
<1>3. IInv /\ SubmissionsStay => SubmittedIsKept
  BY DEF IInv, PaidIsBacked, SubmissionsStay, SubmittedIsKept
<1> QED BY <1>1, <1>2, <1>3, Typing, Invariance, PTL DEF Spec

-----------------------------------------------------------------------------
(* Paid orders and their jobs.                                             *)

\* What a running job read, it read of an entitled order.
SeenEntitled == \A o \in Orders : job[o] = "granted" => GrantsEntitlements(jobSeen[o])

\* The steps of one order's job, and what every other step leaves to it.
LEMMA JobSteps ==
  ASSUME TypeOK, [Next]_vars, NEW o \in Orders
  PROVE  \/ Dispatch(o) \/ LoseDispatch(o)
         \/ FulfillGrant(o) \/ FulfillMove(o) \/ CrashJob(o)
         \/ /\ job'[o] = job[o] /\ jobSeen'[o] = jobSeen[o]
            /\ o \in owed => o \in owed'
<1> DEFINE Kept == /\ job'[o] = job[o] /\ jobSeen'[o] = jobSeen[o]
                   /\ o \in owed => o \in owed'
<1>1. CASE UNCHANGED vars
  BY <1>1 DEF vars
<1>2. ASSUME NEW x \in Orders, x # o,
             \/ Dispatch(x) \/ LoseDispatch(x)
             \/ FulfillGrant(x) \/ FulfillMove(x) \/ CrashJob(x)
      PROVE  Kept
  BY <1>2
  DEF TypeOK, Dispatch, LoseDispatch, FulfillGrant, FulfillMove, CrashJob
<1>3. ASSUME NEW h \in Handlers, RecordAndMove(h) PROVE Kept
  BY <1>3 DEF RecordAndMove
<1>4. ASSUME NEW m \in ManualPayments, Approve(m) PROVE Kept
  BY <1>4 DEF Approve
<1>5. ASSUME NEW x \in Orders, NEW to \in AdminTargets,
             AdminTransition(x, to) \/ Refulfill(x)
      PROVE  Kept
  BY <1>5 DEF AdminTransition, Refulfill
<1>6. ASSUME Next,
             ~\E h \in Handlers : RecordAndMove(h),
             ~\E m \in ManualPayments : Approve(m),
             ~\E x \in Orders, to \in AdminTargets : AdminTransition(x, to),
             ~\E x \in Orders :
                \/ Refulfill(x) \/ Dispatch(x) \/ LoseDispatch(x)
                \/ FulfillGrant(x) \/ FulfillMove(x) \/ CrashJob(x)
      PROVE  Kept
  BY <1>6
  DEF Next, External, Callback, Reconcile, jobVars, CustomerPays,
      GatewayDeclines, GrowOlder, StartPayment, ReceiveIpn, GatewayAnswers,
      GatewayTimesOut, CrashHandler, AlreadySettled, PaymentVanished,
      LockPayment, RecordPaymentOnly, TransitionRefused, ReconcileStart,
      ReconcileSilent, ReconcileExpire, ReconcileReplay, Submit, Decline,
      DestroyCheck, DestroyDelete
<1>7. CASE \E x \in Orders :
             \/ Dispatch(x) \/ LoseDispatch(x)
             \/ FulfillGrant(x) \/ FulfillMove(x) \/ CrashJob(x)
  BY <1>2, <1>7
<1>8. CASE \E x \in Orders : Refulfill(x)
  <2>1. PICK x \in Orders : Refulfill(x)
    BY <1>8
  <2> QED BY <2>1 DEF Refulfill
<1> QED BY <1>1, <1>3, <1>4, <1>5, <1>6, <1>7, <1>8

LEMMA SeenKept ==
  ASSUME TypeOK, SeenEntitled, [Next]_vars
  PROVE  SeenEntitled'
<1> SUFFICES ASSUME NEW o \in Orders, job'[o] = "granted"
             PROVE  GrantsEntitlements(jobSeen'[o])
  BY DEF SeenEntitled
<1>1. GrantsEntitlements(jobSeen[o]) \/ job[o] # "granted"
  BY DEF SeenEntitled
<1>2. CASE Dispatch(o) \/ LoseDispatch(o)
  BY <1>1, <1>2 DEF Dispatch, LoseDispatch, TypeOK
<1>3. CASE FulfillGrant(o)
  BY <1>3 DEF FulfillGrant, TypeOK
<1>4. CASE FulfillMove(o) \/ CrashJob(o)
  BY <1>4 DEF FulfillMove, CrashJob, TypeOK
<1> QED BY <1>1, <1>2, <1>3, <1>4, JobSteps

\* Whoever makes an order paid owes it a dispatch.
LEMMA PaidOwes ==
  ASSUME TypeOK, HandlersOK, [Next]_vars, NEW o \in Orders,
         status[o] # "paid", status'[o] = "paid"
  PROVE  o \in owed'
<1>1. ASSUME NEW h \in Handlers, RecordAndMove(h) PROVE o \in owed'
  BY <1>1 DEF RecordAndMove, MoveOrder, TypeOK
<1>2. ASSUME NEW m \in ManualPayments, Approve(m) PROVE o \in owed'
  BY <1>2 DEF Approve, MoveOrder, TypeOK
<1>3. ASSUME NEW x \in Orders, NEW to \in AdminTargets, AdminTransition(x, to)
      PROVE  o \in owed'
  BY <1>3 DEF AdminTransition, MoveOrder, TypeOK
<1>4. ASSUME NEW x \in Orders, FulfillMove(x) \/ DestroyDelete(x) PROVE FALSE
  BY <1>4 DEF FulfillMove, DestroyDelete, MoveOrder, TypeOK, orderVars
<1> QED BY <1>1, <1>2, <1>3, <1>4, OrderWriters DEF orderVars

\* Of the statuses that entitle, these two are not moved to fulfilled.
LEMMA NotMoved ==
  ASSUME NEW s, GrantsEntitlements(s), ~Allows(s, "fulfilled")
  PROVE  s \in {"fulfilled", "partially_refunded"}
BY DEF GrantsEntitlements, Allows, NextStatuses

(***************************************************************************)
(* A paid order is left without a job that will move it only when its      *)
(* process dies before the dispatch, or when the dispatch is dropped       *)
(* because the run it would repeat is still there and read the order       *)
(* before it was called paid again.                                        *)
(***************************************************************************)
THEOREM LeftBehindOnlySo == Spec => LeftBehindForAReason
<1>1. Init => SeenEntitled
  BY DEF Init, SeenEntitled
<1>2. TypeOK /\ SeenEntitled /\ [Next]_vars => SeenEntitled'
  BY SeenKept
<1>3. TypeOK /\ HandlersOK /\ SeenEntitled /\ [Next]_vars =>
        [\A o \in Orders :
           ~LeftBehind(o) /\ LeftBehind(o)' => LoseDispatch(o) \/ DispatchDropped(o)]_vars
  <2> SUFFICES ASSUME TypeOK, HandlersOK, SeenEntitled, [Next]_vars,
                      NEW o \in Orders, ~LeftBehind(o), LeftBehind(o)'
               PROVE  LoseDispatch(o) \/ DispatchDropped(o)
    OBVIOUS
  <2>1. status'[o] = "paid" /\ o \notin owed' /\ job'[o] # "queued"
        /\ ~(job'[o] = "granted" /\ Allows(jobSeen'[o], "fulfilled"))
    BY DEF LeftBehind, OnItsWay
  <2>2. status[o] = "paid" /\ OnItsWay(o)
    BY <2>1, PaidOwes DEF LeftBehind
  <2>3. CASE Dispatch(o)
    <3>1. job[o] = "granted" /\ jobSeen'[o] = jobSeen[o] /\ job'[o] = "granted"
      BY <2>1, <2>3 DEF Dispatch, TypeOK
    <3>2. GrantsEntitlements(jobSeen[o]) /\ ~Allows(jobSeen[o], "fulfilled")
      BY <2>1, <3>1 DEF SeenEntitled
    <3> QED BY <2>3, <3>1, <3>2, NotMoved DEF DispatchDropped
  <2>4. CASE LoseDispatch(o)
    BY <2>4
  <2>5. CASE FulfillGrant(o)
    <3>1. GrantsEntitlements("paid") /\ Allows("paid", "fulfilled")
      BY DEF GrantsEntitlements, Allows, NextStatuses
    <3>2. job'[o] = "granted" /\ jobSeen'[o] = "paid"
      BY <2>2, <2>5, <3>1 DEF FulfillGrant, TypeOK
    <3> QED BY <2>1, <3>1, <3>2
  <2>6. CASE FulfillMove(o)
    <3>1. o \notin owed /\ job[o] = "granted" /\ Allows(jobSeen[o], "fulfilled")
      BY <2>1, <2>2, <2>6 DEF FulfillMove, OnItsWay
    <3>2. CanMove(o, "fulfilled")
      BY <2>2 DEF CanMove, Allows, NextStatuses
    <3>3. status'[o] = "fulfilled"
      BY <2>6, <3>1, <3>2 DEF FulfillMove, MoveOrder, TypeOK
    <3> QED BY <2>1, <3>3
  <2>7. CASE CrashJob(o)
    BY <2>1, <2>7 DEF CrashJob, TypeOK
  <2>8. CASE job'[o] = job[o] /\ jobSeen'[o] = jobSeen[o] /\ (o \in owed => o \in owed')
    BY <2>1, <2>2, <2>8 DEF OnItsWay
  <2> QED BY <2>3, <2>4, <2>5, <2>6, <2>7, <2>8, JobSteps
<1> QED BY <1>1, <1>2, <1>3, Typing, PTL DEF Spec, LeftBehindForAReason

\* The abstract specification speaks of the same state machine.
LEMMA SameMachine ==
  /\ Lifecycle!OrderStatus = OrderStatus /\ Lifecycle!PaidSide = PaidSide
  /\ \A s, t : Lifecycle!Allows(s, t) <=> Allows(s, t)
BY DEF Lifecycle!OrderStatus, OrderStatus, Lifecycle!PaidSide, PaidSide,
   Lifecycle!Allows, Allows, Lifecycle!NextStatuses, NextStatuses

(***************************************************************************)
(* The payments side implements the order lifecycle: every step of every   *)
(* handler is one transition of one order, the removal of one order, or no *)
(* step at all.                                                            *)
(***************************************************************************)
THEOREM Refinement == Spec => ImplementsLifecycle
<1> DEFINE ever == [o \in Orders |-> paidBy[o] # "none"]
<1>1. Init => Lifecycle!Init
  <2> SUFFICES ASSUME Init PROVE Lifecycle!Init
    OBVIOUS
  <2>1. status \in [Orders -> OrderStatus]
    BY DEF Init, OrderStatus
  <2>2. \A o \in Orders : (paidBy[o] # "none") = FALSE /\ (status[o] \in PaidSide) = FALSE
    BY DEF Init, PaidSide
  <2>3. ever = [o \in Orders |-> status[o] \in PaidSide]
    BY <2>2, Zenon
  <2> QED BY <2>1, <2>3, SameMachine DEF Lifecycle!Init
<1>2. IInv /\ [Next]_vars => [Lifecycle!Next]_(Lifecycle!vars)
  <2> SUFFICES ASSUME IInv, [Next]_vars PROVE [Lifecycle!Next]_(Lifecycle!vars)
    OBVIOUS
  <2>0. TypeOK /\ HandlersOK
    BY DEF IInv
  <2>1. CASE UNCHANGED orderVars
    BY <2>1 DEF orderVars, Lifecycle!vars
  <2>2. ASSUME NEW o \in Orders, NEW to \in OrderStatus,
               NEW cause \in {"gateway", "manual", "admin", "job"},
               MoveOrder(o, to, cause), Allows(status[o], to)
        PROVE  Lifecycle!Next
    <3>1. status' = [status EXCEPT ![o] = to]
      BY <2>2 DEF MoveOrder
    <3>2. ever' = [ever EXCEPT ![o] = @ \/ to = "paid"]
      BY <2>0, <2>2 DEF MoveOrder, TypeOK
    <3>3. Lifecycle!Transition(o, to)
      BY <2>2, <3>1, <3>2, SameMachine DEF Lifecycle!Transition
    <3> QED BY <3>3, SameMachine DEF Lifecycle!Next
  <2>3. ASSUME NEW o \in Orders, NEW to \in OrderStatus,
               NEW cause \in {"gateway", "manual", "admin", "job"},
               MoveOrder(o, to, cause), status[o] = to
        PROVE  UNCHANGED Lifecycle!vars
    <3>1. status' = status
      BY <2>0, <2>3 DEF MoveOrder, TypeOK
    <3>2. to = "paid" => paidBy[o] # "none"
      BY <2>3 DEF IInv, PaidSideIffPaid, PaidSide
    <3>3. paidBy' = paidBy
      BY <2>0, <2>3, <3>2 DEF MoveOrder, TypeOK
    <3> QED BY <3>1, <3>3 DEF Lifecycle!vars
  <2>4. ASSUME NEW o \in Orders, DestroyDelete(o)
        PROVE  Lifecycle!Next \/ UNCHANGED Lifecycle!vars
    BY <2>4 DEF DestroyDelete, Lifecycle!Next, Lifecycle!Remove, Lifecycle!vars
  <2> QED BY <2>0, <2>1, <2>2, <2>3, <2>4, OrderSteps
<1> QED BY <1>1, <1>2, Invariance, PTL
        DEF Spec, ImplementsLifecycle, Lifecycle!Spec
=============================================================================
