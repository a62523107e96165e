------------------------------ MODULE Payments ------------------------------
(***************************************************************************)
(* How an order gets paid: the card gateway's callbacks and the scheduled  *)
(* reconciliation (PaymentProcessor, ReconcilePayments), payments made by  *)
(* hand and reviewed by staff (PaymentSelectionController), the            *)
(* administrator's own status changes (Admin\OrderController), and the     *)
(* FulfillOrder job that each of them queues.                              *)
(*                                                                         *)
(* Every handler is cut where another one can get in between: at each      *)
(* database commit, at each row lock it waits for, and at each call to the *)
(* gateway.  What runs inside one transaction under the locks it holds is  *)
(* one step.                                                               *)
(***************************************************************************)
EXTENDS OrderStates, Naturals, FiniteSets

CONSTANTS
  Orders,
  GatewayPayments,  \* rows of payments with gateway = 'sslcommerz'
  ManualPayments,   \* rows with gateway = 'manual', each with its submission
  OrderOf,          \* payments.order_id
  Requests,         \* web workers that may be handling an IPN
  Reconciler,       \* the worker that runs ReconcilePayments
  NoCall,           \* "this worker is handling no callback"
  Messages,         \* the kinds of callback the gateway sends in this instance
  GatewayEnabled,   \* PaymentSelectionController::gatewayEnabled()
  AutoRelease,      \* nb.commerce.risk_order_policy = 'auto_release'
  AdminTargets,     \* the statuses administrators ask for in this instance
  MaxCrashes        \* bound: how many times a process dies

AllMessages == {"valid", "validated", "failed", "cancelled", "stray"}
Payments    == GatewayPayments \union ManualPayments
Handlers    == Requests \union {Reconciler}

\* payment_events.fingerprint: source | tran_id | val_id | status | bank_tran_id.
Fingerprints ==
  [source : {"ipn", "reconciliation"}, pay : GatewayPayments, msg : AllMessages]

ASSUME PaymentsAssumption ==
  /\ GatewayPayments \intersect ManualPayments = {}
  /\ OrderOf \in [Payments -> Orders]
  /\ Reconciler \notin Requests
  /\ NoCall \notin Fingerprints
  /\ Messages \subseteq AllMessages
  /\ AdminTargets \subseteq OrderStatus
  /\ GatewayEnabled \in BOOLEAN /\ AutoRelease \in BOOLEAN
  /\ MaxCrashes \in Nat

VARIABLES
  status,      \* orders.status, "deleted" when the row is gone
  paidBy,      \* who moved the order to paid first (order_status_events), "none" before
  pay,         \* payments.status, "absent" when there is no row
  sub,         \* manual_payment_submissions.status, "absent" when there is no row
  events,      \* the fingerprints stored in payment_events
  latest,      \* the payload of a payment's latest event, "none" without one
  age,         \* how long ago the payment was created, as reconciliation sees it
  taken,       \* external: the gateway has taken the customer's money
  declined,    \* external: the gateway has declined an attempt of the customer
  ses,         \* what each callback handler is doing
  todo,        \* payments the running reconciliation has still to look at
  expiring,    \* payments it found without an event and is about to expire
  destroying,  \* orders whose deletion has passed its checks
  owed,        \* orders paid in a committed transaction, job not dispatched yet
  job,         \* the FulfillOrder job of an order
  jobSeen,     \* the order status that job read when it started
  crashes

orderVars   == <<status, paidBy>>
gatewayVars == <<taken, declined>>
reconVars   == <<todo, expiring>>
jobVars     == <<owed, job, jobSeen>>
vars == <<status, paidBy, pay, sub, events, latest, age, taken, declined, ses,
          todo, expiring, destroying, owed, job, jobSeen, crashes>>

Idle == [pc |-> "idle", call |-> NoCall, verdict |-> "none", seen |-> "none"]

Settled     == {"validated", "risk_hold", "refunded"}
Verdicts    == {"settled", "risky", "failed", "cancelled", "unverified"}
AnyStatus   == OrderStatus \union {"deleted"}
PayStatus   == {"absent", "pending", "validated", "risk_hold", "failed",
                "cancelled", "refunded"}

\* What a worker knows: its step, the callback it handles, what the gateway
\* answered, and the order status it read before it waits for the order's lock.
Session ==
  [pc : {"idle", "asking", "answered", "settling"},
   call : Fingerprints \union {NoCall},
   verdict : Verdicts \union {"none"},
   seen : AnyStatus \union {"none"}]

\* Mutant: the payment row is read without lockForUpdate().
UnlockedAlways(p) == TRUE

\* Nobody else holds the row lock of payment p.
Unlocked(p) == \A h \in Handlers : ses[h].pc = "settling" => ses[h].call.pay # p

(***************************************************************************)
(* The orders have been placed.  Card payments opened before the gateway   *)
(* was switched off may be in flight; "initiated" and "pending" are one    *)
(* value because every query of the code asks for both.                    *)
(***************************************************************************)
Init ==
  /\ status = [o \in Orders |-> "pending_payment"]
  /\ paidBy = [o \in Orders |-> "none"]
  /\ pay \in {f \in [Payments -> {"absent", "pending"}] :
                \A m \in ManualPayments : f[m] = "absent"}
  /\ sub = [m \in ManualPayments |-> "absent"]
  /\ events = {}
  /\ latest = [p \in GatewayPayments |-> "none"]
  /\ age = [p \in GatewayPayments |-> "new"]
  /\ taken = [p \in GatewayPayments |-> FALSE]
  /\ declined = [p \in GatewayPayments |-> FALSE]
  /\ ses = [h \in Handlers |-> Idle]
  /\ todo = {} /\ expiring = {} /\ destroying = {}
  /\ owed = {}
  /\ job = [o \in Orders |-> "none"]
  /\ jobSeen = [o \in Orders |-> "none"]
  /\ crashes = 0

-----------------------------------------------------------------------------
(* OrderStateMachine::transition, inside the caller's transaction.         *)

\* Mutant: the transition table is not consulted.
CanMoveAnywhere(o, to) == TRUE

\* The same status again is not an error, and changes nothing.
CanMove(o, to) == Allows(status[o], to) \/ status[o] = to

MoveOrder(o, to, cause) ==
  /\ status' = [status EXCEPT ![o] = to]
  /\ paidBy' = [paidBy EXCEPT ![o] =
                  IF to = "paid" /\ @ = "none" THEN cause ELSE @]

-----------------------------------------------------------------------------
(* The gateway and time: external.                                         *)

\* The customer completes the hosted page, perhaps after a declined attempt.
CustomerPays(p) ==
  /\ pay[p] # "absent" /\ ~taken[p]
  /\ taken' = [taken EXCEPT ![p] = TRUE]
  /\ UNCHANGED <<orderVars, pay, sub, events, latest, age, declined, ses,
                 reconVars, destroying, jobVars, crashes>>

GatewayDeclines(p) ==
  /\ pay[p] # "absent" /\ ~taken[p] /\ ~declined[p]
  /\ declined' = [declined EXCEPT ![p] = TRUE]
  /\ UNCHANGED <<orderVars, pay, sub, events, latest, age, taken, ses,
                 reconVars, destroying, jobVars, crashes>>

\* created_at falls behind 15 minutes, one day, seven days.
NextAge(a) ==
  CASE a = "new" -> "old" [] a = "old" -> "stale" [] OTHER -> "forgotten"

GrowOlder(p) ==
  /\ pay[p] # "absent" /\ age[p] # "forgotten"
  /\ age' = [age EXCEPT ![p] = NextAge(@)]
  /\ UNCHANGED <<orderVars, pay, sub, events, latest, gatewayVars, ses,
                 reconVars, destroying, jobVars, crashes>>

-----------------------------------------------------------------------------
(* Starting a card payment: PaymentSelectionController::gateway and        *)
(* PaymentProcessor::startPayment, one transaction under the order's lock. *)

\* Mutant: a submission that awaits review does not count.
AwaitsReviewApproved(o) == \E m \in ManualPayments : OrderOf[m] = o /\ sub[m] = "approved"

AwaitsReview(o) == \E m \in ManualPayments : OrderOf[m] = o /\ sub[m] = "pending"

StartPayment(p) ==
  /\ GatewayEnabled
  /\ pay[p] = "absent" /\ age[p] = "new" /\ ~taken[p] /\ ~declined[p]
  /\ ~AwaitsReview(OrderOf[p])
  /\ status[OrderOf[p]] = "pending_payment"
  /\ pay' = [pay EXCEPT ![p] = "pending"]
  /\ UNCHANGED <<orderVars, sub, events, latest, age, gatewayVars, ses,
                 reconVars, destroying, jobVars, crashes>>

-----------------------------------------------------------------------------
(* Callbacks: PaymentProcessor::handleCallback.                            *)

\* What the gateway can have sent about p by now.  Copies are unlimited and
\* in any order; a message that is never delivered was lost.
Sendable(p, m) ==
  /\ m \in Messages
  /\ m \in {"valid", "validated"} => taken[p]
  /\ m \in {"failed", "cancelled"} => declined[p]

\* Mutant: callbacks are not deduplicated.
ClaimedNever(fp) == FALSE

\* The event row is the claim on a callback.
Claimed(fp) == fp \in events

\* A second copy finds the event (or trips over its unique index) and changes
\* nothing.
ReceiveIpn(h, p, m) ==
  LET fp == [source |-> "ipn", pay |-> p, msg |-> m] IN
  /\ ses[h].pc = "idle"
  /\ Sendable(p, m)
  /\ ~Claimed(fp)
  /\ events' = events \union {fp}
  /\ IF pay[p] = "absent"
       THEN UNCHANGED <<latest, ses>>   \* "No payment matches this reference"
       ELSE /\ latest' = [latest EXCEPT ![p] = m]
            /\ ses' = [ses EXCEPT ![h] =
                         [Idle EXCEPT !.pc = "asking", !.call = fp]]
  /\ UNCHANGED <<orderVars, pay, sub, age, gatewayVars, reconVars, destroying,
                 jobVars, crashes>>

(***************************************************************************)
(* validateTransaction and verifiesCallbackSignature.  A success message   *)
(* names a val_id, and the validation API is asked about it.  It confirms  *)
(* the settlement, perhaps with a risk flag; or it names the transaction   *)
(* with another amount, currency or status, and that answer fails the      *)
(* payment; or it says nothing about this transaction.  A failure message  *)
(* is signed.  A stray one has neither, so nothing can be confirmed.       *)
(***************************************************************************)
Answers(p, m) ==
  CASE m \in {"valid", "validated"} ->
         {"unverified", "failed", "cancelled"}
           \union (IF taken[p] THEN {"settled", "risky"} ELSE {})
    [] m \in {"failed", "cancelled"} -> {m}
    [] OTHER -> {"unverified"}

GatewayAnswers(h, verdict) ==
  /\ ses[h].pc = "asking"
  /\ verdict \in Answers(ses[h].call.pay, ses[h].call.msg)
  /\ ses' = [ses EXCEPT ![h] =
               IF verdict = "unverified" THEN Idle   \* recordUnverified
               ELSE [@ EXCEPT !.pc = "answered", !.verdict = verdict]]
  /\ UNCHANGED <<orderVars, pay, sub, events, latest, age, gatewayVars,
                 reconVars, destroying, jobVars, crashes>>

\* The handler throws or its process ends.  The event stays; a reconciliation
\* run ends with it (tries = 1).
StopHandler(h) ==
  /\ ses' = [ses EXCEPT ![h] = Idle]
  /\ todo' = IF h = Reconciler THEN {} ELSE todo
  /\ expiring' = IF h = Reconciler THEN {} ELSE expiring

\* The HTTP client gives up: ConnectionException out of validateTransaction.
GatewayTimesOut(h) ==
  /\ ses[h].pc = "asking" /\ ses[h].call.msg \in {"valid", "validated"}
  /\ StopHandler(h)
  /\ UNCHANGED <<orderVars, pay, sub, events, latest, age, gatewayVars,
                 destroying, jobVars, crashes>>

CrashHandler(h) ==
  /\ crashes < MaxCrashes
  /\ ses[h].pc # "idle" \/ (h = Reconciler /\ todo \union expiring # {})
  /\ StopHandler(h)
  /\ crashes' = crashes + 1
  /\ UNCHANGED <<orderVars, pay, sub, events, latest, age, gatewayVars,
                 destroying, jobVars>>

-----------------------------------------------------------------------------
(* recordSuccess and recordFailure: the payment row is locked, the order   *)
(* is read without a lock, then transition() locks it.                     *)

IsSuccess(verdict) == verdict \in {"settled", "risky"}

\* Mutant: a failure is recorded over a payment on risk hold.
NothingToRecordOverHold(p, verdict) == pay[p] \in {"validated", "refunded"}

\* Settled once is settled; a settled, held or refunded payment is not failed.
NothingToRecord(p, verdict) ==
  pay[p] \in (IF IsSuccess(verdict) THEN {"validated", "refunded"} ELSE Settled)

\* recordSuccess and recordFailure return early.
AlreadySettled(h) ==
  /\ ses[h].pc = "answered"
  /\ Unlocked(ses[h].call.pay)
  /\ pay[ses[h].call.pay] # "absent"
  /\ NothingToRecord(ses[h].call.pay, ses[h].verdict)
  /\ ses' = [ses EXCEPT ![h] = Idle]
  /\ UNCHANGED <<orderVars, pay, sub, events, latest, age, gatewayVars,
                 reconVars, destroying, jobVars, crashes>>

\* lockForUpdate()->findOrFail throws: the order took the payment with it.
PaymentVanished(h) ==
  /\ ses[h].pc = "answered"
  /\ pay[ses[h].call.pay] = "absent"
  /\ StopHandler(h)
  /\ UNCHANGED <<orderVars, pay, sub, events, latest, age, gatewayVars,
                 destroying, jobVars, crashes>>

LockPayment(h) ==
  LET p == ses[h].call.pay IN
  /\ ses[h].pc = "answered"
  /\ Unlocked(p)
  /\ pay[p] # "absent" /\ ~NothingToRecord(p, ses[h].verdict)
  /\ ses' = [ses EXCEPT ![h] =
               [@ EXCEPT !.pc = "settling", !.seen = status[OrderOf[p]]]]
  /\ UNCHANGED <<orderVars, pay, sub, events, latest, age, gatewayVars,
                 reconVars, destroying, jobVars, crashes>>

\* A risky settlement is held for a person unless the owner releases them.
Held(h) == ses[h].verdict = "risky" /\ ~AutoRelease

\* The status the order is asked to move to, judged by the unlocked read.
Target(h) ==
  CASE IsSuccess(ses[h].verdict) /\ ~Held(h) /\ Allows(ses[h].seen, "paid") -> "paid"
    [] ~IsSuccess(ses[h].verdict) /\ ses[h].seen = "pending_payment" -> "failed"
    [] OTHER -> "none"

\* Mutant: the release policy is forgotten when the payment is written.
RecordedByRisk(h) ==
  CASE ses[h].verdict = "risky" -> "risk_hold"
    [] ses[h].verdict = "settled" -> "validated"
    [] OTHER -> ses[h].verdict

\* What the payment row becomes.
Recorded(h) ==
  CASE Held(h) -> "risk_hold"
    [] IsSuccess(ses[h].verdict) -> "validated"
    [] OTHER -> ses[h].verdict

\* The order is left alone: held for review, or no longer payable.
RecordPaymentOnly(h) ==
  /\ ses[h].pc = "settling" /\ Target(h) = "none"
  /\ pay' = [pay EXCEPT ![ses[h].call.pay] = Recorded(h)]
  /\ ses' = [ses EXCEPT ![h] = Idle]
  /\ UNCHANGED <<orderVars, sub, events, latest, age, gatewayVars,
                 reconVars, destroying, jobVars, crashes>>

\* Payment and order commit together; the job is dispatched afterwards.
RecordAndMove(h) ==
  LET p == ses[h].call.pay
      o == OrderOf[p]
      to == Target(h) IN
  /\ ses[h].pc = "settling" /\ to # "none"
  /\ CanMove(o, to)
  /\ pay' = [pay EXCEPT ![p] = Recorded(h)]
  /\ MoveOrder(o, to, "gateway")
  /\ owed' = IF to = "paid" THEN owed \union {o} ELSE owed
  /\ ses' = [ses EXCEPT ![h] = Idle]
  /\ UNCHANGED <<sub, events, latest, age, gatewayVars, reconVars, destroying,
                 job, jobSeen, crashes>>

\* The order moved between the read and the lock: transition() throws and the
\* whole transaction, the payment's new status included, is rolled back.
TransitionRefused(h) ==
  LET o == OrderOf[ses[h].call.pay]
      to == Target(h) IN
  /\ ses[h].pc = "settling" /\ to # "none"
  /\ ~CanMove(o, to)
  /\ StopHandler(h)
  /\ UNCHANGED <<orderVars, pay, sub, events, latest, age, gatewayVars,
                 destroying, jobVars, crashes>>

-----------------------------------------------------------------------------
(* Jobs\ReconcilePayments.                                                 *)

ReconcilerFree == ses[Reconciler].pc = "idle" /\ expiring = {}

ReconcileStart ==
  LET due == {p \in GatewayPayments : pay[p] = "pending" /\ age[p] \in {"old", "stale"}} IN
  /\ ReconcilerFree /\ todo = {} /\ due # {}
  /\ todo' = due
  /\ UNCHANGED <<orderVars, pay, sub, events, latest, age, gatewayVars, ses,
                 expiring, destroying, jobVars, crashes>>

\* No event: expire the attempt once it is a day old, else leave it.
ReconcileSilent(p) ==
  /\ ReconcilerFree /\ p \in todo
  /\ latest[p] = "none"
  /\ todo' = todo \ {p}
  /\ expiring' = IF age[p] \in {"stale", "forgotten"} THEN {p} ELSE {}
  /\ UNCHANGED <<orderVars, pay, sub, events, latest, age, gatewayVars, ses,
                 destroying, jobVars, crashes>>

\* The update is made without a lock or a second look at the row.
ReconcileExpire(p) ==
  /\ p \in expiring /\ Unlocked(p)
  /\ pay' = [pay EXCEPT ![p] = IF @ = "absent" THEN @ ELSE "failed"]
  /\ expiring' = {}
  /\ UNCHANGED <<orderVars, sub, events, latest, age, gatewayVars, ses, todo,
                 destroying, jobVars, crashes>>

\* handleCallback('reconciliation', latest payload): deduplicated like any
\* other callback, so a second run with the same payload does nothing.
ReconcileReplay(p) ==
  LET fp == [source |-> "reconciliation", pay |-> p, msg |-> latest[p]] IN
  /\ ReconcilerFree /\ p \in todo
  /\ latest[p] # "none"
  /\ todo' = todo \ {p}
  /\ IF Claimed(fp)
       THEN UNCHANGED <<events, ses>>
       ELSE /\ events' = events \union {fp}
            /\ ses' = [ses EXCEPT ![Reconciler] =
                         [Idle EXCEPT !.pc = "asking", !.call = fp]]
  /\ UNCHANGED <<orderVars, pay, sub, latest, age, gatewayVars, expiring,
                 destroying, jobVars, crashes>>

-----------------------------------------------------------------------------
(* Payments by hand: PaymentSelectionController::submit and ::review, each *)
(* one transaction under the order's lock.                                 *)

\* Mutant: an attempt that is still open does not count as in progress.
OnlineSettled(o) ==
  \E p \in GatewayPayments : OrderOf[p] = o /\ pay[p] \in {"validated", "risk_hold"}

OnlineInProgress(o) ==
  \E p \in GatewayPayments :
    OrderOf[p] = o /\ pay[p] \in {"pending", "validated", "risk_hold"}

Submit(m) ==
  LET o == OrderOf[m] IN
  /\ sub[m] = "absent"
  /\ status[o] = "pending_payment"
  /\ ~AwaitsReview(o)
  /\ ~OnlineInProgress(o)
  /\ pay' = [pay EXCEPT ![m] = "pending"]
  /\ sub' = [sub EXCEPT ![m] = "pending"]
  /\ UNCHANGED <<orderVars, events, latest, age, gatewayVars, ses,
                 reconVars, destroying, jobVars, crashes>>

Approve(m) ==
  LET o == OrderOf[m] IN
  /\ sub[m] = "pending"
  /\ status[o] = "pending_payment"
  /\ pay' = [pay EXCEPT ![m] = "validated"]
  /\ MoveOrder(o, "paid", "manual")
  /\ owed' = owed \union {o}
  /\ sub' = [sub EXCEPT ![m] = "approved"]
  /\ UNCHANGED <<events, latest, age, gatewayVars, ses, reconVars, destroying,
                 job, jobSeen, crashes>>

Decline(m) ==
  /\ sub[m] = "pending"
  /\ status[OrderOf[m]] = "pending_payment"
  /\ pay' = [pay EXCEPT ![m] = "failed"]
  /\ sub' = [sub EXCEPT ![m] = "rejected"]
  /\ UNCHANGED <<orderVars, events, latest, age, gatewayVars, ses, reconVars,
                 destroying, jobVars, crashes>>

-----------------------------------------------------------------------------
(* The administrator: Admin\OrderController.                               *)

Submissions(o) == {m \in ManualPayments : OrderOf[m] = o /\ sub[m] # "absent"}

\* Mutant: it is enough that no submission waits.
ReviewedUnlessWaiting(o) == \A m \in Submissions(o) : sub[m] # "pending"

\* No payment was submitted, or one was and staff approved it.
Reviewed(o) ==
  Submissions(o) = {} \/ \E m \in Submissions(o) : sub[m] = "approved"

\* ::transition.  A submitted payment has to be reviewed before the order can
\* be called paid by hand.
AdminTransition(o, to) ==
  /\ Allows(status[o], to)
  /\ to \in {"paid", "fulfilled"} => Reviewed(o)
  /\ MoveOrder(o, to, "admin")
  /\ owed' = IF to = "paid" THEN owed \union {o} ELSE owed
  /\ UNCHANGED <<pay, sub, events, latest, age, gatewayVars, ses, reconVars,
                 destroying, job, jobSeen, crashes>>

\* ::refulfill; the same as ::transition asking a paid order to be paid.
Refulfill(o) ==
  /\ GrantsEntitlements(status[o]) /\ o \notin owed
  /\ owed' = owed \union {o}
  /\ UNCHANGED <<orderVars, pay, sub, events, latest, age, gatewayVars, ses,
                 reconVars, destroying, job, jobSeen, crashes>>

HasPayments(o) == \E p \in Payments : OrderOf[p] = o /\ pay[p] # "absent"

\* ::destroy reads, without a lock, that the order never took money ...
DestroyCheck(o) ==
  /\ status[o] \in Unpaid
  /\ ~HasPayments(o) /\ Submissions(o) = {}
  /\ destroying' = destroying \union {o}
  /\ UNCHANGED <<orderVars, pay, sub, events, latest, age, gatewayVars, ses,
                 reconVars, jobVars, crashes>>

\* ... then deletes the row.  Payments and their events go with it; a
\* submission's foreign key refuses the delete.
DestroyDelete(o) ==
  /\ o \in destroying
  /\ \A p \in GatewayPayments : OrderOf[p] = o => Unlocked(p)
  /\ destroying' = destroying \ {o}
  /\ IF Submissions(o) # {}
       THEN UNCHANGED <<status, pay, events, latest>>
       ELSE /\ status' = [status EXCEPT ![o] = "deleted"]
            /\ pay' = [p \in Payments |-> IF OrderOf[p] = o THEN "absent" ELSE pay[p]]
            /\ events' = {e \in events : OrderOf[e.pay] # o}
            /\ latest' = [p \in GatewayPayments |->
                            IF OrderOf[p] = o THEN "none" ELSE latest[p]]
  /\ UNCHANGED <<paidBy, sub, age, gatewayVars, ses, reconVars, jobVars,
                 crashes>>

-----------------------------------------------------------------------------
(* Jobs\FulfillOrder and FulfillmentService::fulfill.                      *)

\* dispatch() runs after the commit.  The job is unique per order: while one
\* is queued or running another is dropped.
Dispatch(o) ==
  /\ o \in owed
  /\ owed' = owed \ {o}
  /\ job' = [job EXCEPT ![o] = IF @ = "none" THEN "queued" ELSE @]
  /\ UNCHANGED <<orderVars, pay, sub, events, latest, age, gatewayVars, ses,
                 reconVars, destroying, jobSeen, crashes>>

\* The process ends between the commit and the dispatch.
LoseDispatch(o) ==
  /\ o \in owed /\ crashes < MaxCrashes
  /\ owed' = owed \ {o}
  /\ crashes' = crashes + 1
  /\ UNCHANGED <<orderVars, pay, sub, events, latest, age, gatewayVars, ses,
                 reconVars, destroying, job, jobSeen>>

\* The job reads the order and grants what it entitles to, or has nothing to do.
FulfillGrant(o) ==
  /\ job[o] = "queued"
  /\ IF GrantsEntitlements(status[o])
       THEN /\ job' = [job EXCEPT ![o] = "granted"]
            /\ jobSeen' = [jobSeen EXCEPT ![o] = status[o]]
       ELSE /\ job' = [job EXCEPT ![o] = "none"]
            /\ UNCHANGED jobSeen
  /\ UNCHANGED <<orderVars, pay, sub, events, latest, age, gatewayVars, ses,
                 reconVars, destroying, owed, crashes>>

\* The status read at the start decides whether the order is moved; a refused
\* transition puts the job back on the queue.
FulfillMove(o) ==
  LET moves == Allows(jobSeen[o], "fulfilled")
      refused == moves /\ ~CanMove(o, "fulfilled") IN
  /\ job[o] = "granted"
  /\ job' = [job EXCEPT ![o] = IF refused THEN "queued" ELSE "none"]
  /\ jobSeen' = [jobSeen EXCEPT ![o] = "none"]
  /\ IF moves /\ ~refused THEN MoveOrder(o, "fulfilled", "job") ELSE UNCHANGED orderVars
  /\ UNCHANGED <<pay, sub, events, latest, age, gatewayVars, ses, reconVars,
                 destroying, owed, crashes>>

\* The worker dies; the queue hands the job out again.
CrashJob(o) ==
  /\ job[o] = "granted" /\ crashes < MaxCrashes
  /\ job' = [job EXCEPT ![o] = "queued"]
  /\ jobSeen' = [jobSeen EXCEPT ![o] = "none"]
  /\ crashes' = crashes + 1
  /\ UNCHANGED <<orderVars, pay, sub, events, latest, age, gatewayVars, ses,
                 reconVars, destroying, owed>>

-----------------------------------------------------------------------------
External(p) == CustomerPays(p) \/ GatewayDeclines(p) \/ GrowOlder(p)

Callback(h) ==
  \/ \E verdict \in Verdicts : GatewayAnswers(h, verdict)
  \/ GatewayTimesOut(h) \/ AlreadySettled(h) \/ PaymentVanished(h) \/ LockPayment(h)
  \/ RecordPaymentOnly(h) \/ RecordAndMove(h) \/ TransitionRefused(h)

Reconcile(p) == ReconcileSilent(p) \/ ReconcileExpire(p) \/ ReconcileReplay(p)

Next ==
  \/ \E p \in GatewayPayments : External(p) \/ StartPayment(p) \/ Reconcile(p)
  \/ \E h \in Requests, p \in GatewayPayments, m \in Messages : ReceiveIpn(h, p, m)
  \/ \E h \in Handlers : Callback(h) \/ CrashHandler(h)
  \/ ReconcileStart
  \/ \E m \in ManualPayments : Submit(m) \/ Approve(m) \/ Decline(m)
  \/ \E o \in Orders, to \in AdminTargets : AdminTransition(o, to)
  \/ \E o \in Orders :
       \/ Refulfill(o) \/ DestroyCheck(o) \/ DestroyDelete(o)
       \/ Dispatch(o) \/ LoseDispatch(o)
       \/ FulfillGrant(o) \/ FulfillMove(o) \/ CrashJob(o)

Spec == Init /\ [][Next]_vars

Fairness ==
  \A o \in Orders :
    WF_vars(Dispatch(o)) /\ WF_vars(FulfillGrant(o)) /\ WF_vars(FulfillMove(o))

FairSpec == Spec /\ Fairness

-----------------------------------------------------------------------------
(* Properties.                                                             *)

TypeOK ==
  /\ status \in [Orders -> AnyStatus]
  /\ paidBy \in [Orders -> {"none", "gateway", "manual", "admin"}]
  /\ pay \in [Payments -> PayStatus]
  /\ sub \in [ManualPayments -> {"absent", "pending", "approved", "rejected"}]
  /\ events \subseteq Fingerprints
  /\ latest \in [GatewayPayments -> AllMessages \union {"none"}]
  /\ age \in [GatewayPayments -> {"new", "old", "stale", "forgotten"}]
  /\ taken \in [GatewayPayments -> BOOLEAN]
  /\ declined \in [GatewayPayments -> BOOLEAN]
  /\ ses \in [Handlers -> Session]
  /\ todo \subseteq GatewayPayments
  /\ expiring \subseteq GatewayPayments
  /\ destroying \subseteq Orders
  /\ owed \subseteq Orders
  /\ job \in [Orders -> {"none", "queued", "granted"}]
  /\ jobSeen \in [Orders -> AnyStatus \union {"none"}]
  /\ crashes \in 0..MaxCrashes

(***************************************************************************)
(* An order is paid for a reason that is really there: the gateway took    *)
(* the money of one of its payments, or staff approved one of its          *)
(* submissions, or an administrator said so for an order nobody had        *)
(* submitted a payment for.  No lost answer, forged failure, stale read or *)
(* crash in handleCallback, review or transition makes an order paid.      *)
(***************************************************************************)
PaidIsBacked ==
  \A o \in Orders :
    /\ paidBy[o] = "gateway" =>
         \E p \in GatewayPayments : OrderOf[p] = o /\ taken[p]
    /\ paidBy[o] = "manual" =>
         \E m \in ManualPayments : OrderOf[m] = o /\ sub[m] = "approved"
    /\ paidBy[o] = "admin" => Submissions(o) = {}
    /\ status[o] \in PaidSide => paidBy[o] # "none"

(***************************************************************************)
(* A customer is never paying online and by hand at the same time: while a *)
(* submission of an order awaits review none of its card payments is open, *)
(* although ::gateway and ::submit check each other's tables.              *)
(***************************************************************************)
NoParallelAttempts ==
  \A m \in ManualPayments, p \in GatewayPayments :
    sub[m] = "pending" /\ OrderOf[p] = OrderOf[m] => pay[p] # "pending"

(***************************************************************************)
(* Of the submissions of an order at most one awaits review, at most one   *)
(* is ever approved, and an approved one has its payment validated.        *)
(***************************************************************************)
OneSubmissionAtATime ==
  /\ \A m, n \in ManualPayments :
       /\ OrderOf[m] = OrderOf[n] /\ m # n
       /\ sub[m] \in {"pending", "approved"}
       => sub[n] # sub[m]
  /\ \A m \in ManualPayments : sub[m] = "approved" => pay[m] = "validated"

(***************************************************************************)
(* One attempt at a time: the tables of both ways to pay agree with each   *)
(* other and each with itself, whatever ::gateway, ::submit and ::review   *)
(* read before they write.                                                 *)
(***************************************************************************)
OneAttempt == NoParallelAttempts /\ OneSubmissionAtATime

(***************************************************************************)
(* The fingerprint is a claim: two workers never process copies of one     *)
(* callback at the same time, and nobody works on a callback whose event   *)
(* row is not stored.                                                      *)
(***************************************************************************)
OneWorkerPerCallback ==
  \A h \in Handlers :
    ses[h].pc # "idle" =>
      /\ \A g \in Handlers : ses[g].call = ses[h].call => g = h
      /\ status[OrderOf[ses[h].call.pay]] # "deleted" => ses[h].call \in events

\* A step that undoes a settlement on the strength of an earlier look at the
\* rows: the expiry of an abandoned attempt, the deletion of an unpaid order.
DecidedEarlier(p) == ReconcileExpire(p) \/ DestroyDelete(OrderOf[p])

(***************************************************************************)
(* Money that arrived stays recorded: a validated or held payment is never *)
(* turned back by a late or mismatched answer, a review or an              *)
(* administrator.  Reconciliation never takes an attempt for abandoned,    *)
(* nor does an administrator set out to delete an order, once the money is *)
(* recorded; so a settlement is lost only when it arrives between the look *)
(* and the write of one of these two, which take no lock in between.       *)
(***************************************************************************)
SettledStays ==
  [][\A p \in Payments :
       pay[p] \in Settled =>
         /\ pay'[p] \in Settled \/ DecidedEarlier(p)
         /\ p \in expiring' => p \in expiring
         /\ OrderOf[p] \in destroying' => OrderOf[p] \in destroying]_vars

(***************************************************************************)
(* The gateway pays an order only in the transaction that validates one of *)
(* its payments: a payment on risk hold, or one settled while the order    *)
(* was not payable, does not pay it.                                       *)
(***************************************************************************)
PaidOnlyByValidation ==
  [][\A o \in Orders :
       paidBy[o] = "none" /\ paidBy'[o] = "gateway" =>
         \E p \in GatewayPayments :
           OrderOf[p] = o /\ pay[p] # "validated" /\ pay'[p] = "validated"]_vars

\* A dispatch of the job is due, or a job is there that will move the order.
OnItsWay(o) ==
  \/ o \in owed \/ job[o] = "queued"
  \/ job[o] = "granted" /\ Allows(jobSeen[o], "fulfilled")

LeftBehind(o) == status[o] = "paid" /\ ~OnItsWay(o)

\* Dropped because the job is unique, while the one that runs read the order
\* when it had been fulfilled or refunded in part, and will not move it.
DispatchDropped(o) ==
  /\ Dispatch(o) /\ job[o] = "granted"
  /\ jobSeen[o] \in {"fulfilled", "partially_refunded"}

(***************************************************************************)
(* A paid order is left without a job that moves it on in two ways only:   *)
(* its process dies between the commit and the dispatch, or it was called  *)
(* paid again while an older run of its unique job was on its way out.     *)
(***************************************************************************)
LeftBehindForAReason ==
  [][\A o \in Orders :
       ~LeftBehind(o) /\ LeftBehind(o)' => LoseDispatch(o) \/ DispatchDropped(o)]_vars

(***************************************************************************)
(* A paid order does not wait for ever: unless it is left behind for one   *)
(* of those reasons, the queue moves it on to fulfilled (or someone moves  *)
(* it elsewhere), whatever callbacks, reviews and administrators do.       *)
(***************************************************************************)
PaidGetsFulfilled ==
  /\ \A o \in Orders : status[o] = "paid" ~> status[o] # "paid" \/ LeftBehind(o)
  /\ LeftBehindForAReason

\* The payments side implements the order lifecycle.
Lifecycle == INSTANCE OrderLifecycle
               WITH everPaid <- [o \in Orders |-> paidBy[o] # "none"]

(***************************************************************************)
(* Every step of every handler moves at most one order, by one transition  *)
(* the state machine allows, or removes it.                                *)
(***************************************************************************)
ImplementsLifecycle == Lifecycle!Spec

-----------------------------------------------------------------------------
(* What the safety properties rest on.                                     *)

\* A worker that is busy holds a real callback, a worker that heard from the
\* gateway holds an answer it really gave, and a confirmed payment was taken.
HandlerOK(s) ==
  /\ s.pc = "idle" => s.call = NoCall
  /\ s.pc # "idle" => s.call \in Fingerprints
  /\ s.pc \in {"answered", "settling"} =>
       /\ s.verdict \in Verdicts \ {"unverified"}
       /\ IsSuccess(s.verdict) => taken[s.call.pay]
  /\ s.pc = "settling" => s.seen \in AnyStatus

HandlersOK == \A h \in Handlers : HandlerOK(ses[h])

\* What a worker saw under a payment's lock is so until it lets go of it.
LocksHeld ==
  \A h \in Handlers : ses[h].pc = "settling" =>
    LET p == ses[h].call.pay IN
    /\ pay[p] # "absent" /\ ~NothingToRecord(p, ses[h].verdict)
    /\ \A g \in Handlers : ses[g].pc = "settling" /\ ses[g].call.pay = p => g = h

\* A submission and its payment row tell the same story.
SubmissionsMatch ==
  \A m \in ManualPayments :
    /\ sub[m] \in {"absent", "pending"} => pay[m] = sub[m]
    /\ sub[m] = "approved" => pay[m] = "validated" /\ paidBy[OrderOf[m]] # "none"

\* An order that was not paid is on the unpaid side of the state machine.
PaidSideIffPaid ==
  \A o \in Orders :
    status[o] # "deleted" => (paidBy[o] # "none" <=> status[o] \in PaidSide)

\* A deleted order leaves nothing behind.
GoneIsGone ==
  \A p \in GatewayPayments :
    /\ status[OrderOf[p]] = "deleted" => pay[p] = "absent"
    /\ pay[p] = "absent" => latest[p] = "none"

(***************************************************************************)
(* The deletion that checks without a lock can take an order with money of *)
(* the gateway's, never one the customer submitted a payment for or staff  *)
(* approved: the submission's foreign key stands in its way.               *)
(***************************************************************************)
SubmittedIsKept ==
  /\ \A m \in ManualPayments : sub[m] # "absent" => status[OrderOf[m]] # "deleted"
  /\ \A o \in Orders : paidBy[o] = "manual" => status[o] # "deleted"

(***************************************************************************)
(* The inductive invariant: the properties above with what the handlers    *)
(* know, what the row locks guarantee and what the rows of one order say   *)
(* of each other.                                                          *)
(***************************************************************************)
IInv ==
  /\ TypeOK /\ HandlersOK /\ LocksHeld
  /\ SubmissionsMatch /\ PaidSideIffPaid /\ GoneIsGone
  /\ PaidIsBacked /\ NoParallelAttempts /\ OneSubmissionAtATime
  /\ OneWorkerPerCallback
=============================================================================
