------------------------------ MODULE Refunds ------------------------------
(***************************************************************************)
(* Giving money back: an administrator requests a refund, an administrator *)
(* approves or rejects it (Admin\RefundController), the ProcessRefund job  *)
(* asks the gateway, records the refund and withdraws the entitlements,    *)
(* while the order's FulfillOrder job may still be granting them.          *)
(*                                                                         *)
(* One order.  A request is cut between reading the refund and writing it, *)
(* because RefundController::approve and ::reject take no lock; a job is   *)
(* cut at the gateway call and at each commit.                             *)
(***************************************************************************)
EXTENDS OrderStates, Naturals, FiniteSets

CONSTANTS
  Refunds,       \* rows of refunds
  Admins,        \* requests being served at the same time
  NumWorkers,    \* queue workers
  Total,         \* orders.total_minor
  PaidOnline,    \* the settled payment went through the card gateway
  RevokeChoices, \* values of refunds.revoke_entitlements asked for
  AdminTargets,  \* statuses administrators ask for by hand in this instance
  MaxTries,      \* ProcessRefund::$tries
  MaxFailures    \* bound: processes that die and gateway calls that time out

ASSUME RefundsAssumption ==
  /\ NumWorkers \in Nat \ {0} /\ Total \in Nat \ {0}
  /\ MaxTries \in Nat \ {0} /\ MaxFailures \in Nat
  /\ PaidOnline \in BOOLEAN /\ RevokeChoices \subseteq BOOLEAN
  /\ AdminTargets \subseteq OrderStatus
  /\ IsFiniteSet(Refunds) /\ IsFiniteSet(Admins)

Jobs == Admins \X Refunds   \* one ProcessRefund per approval of a refund

VARIABLES
  status,        \* orders.status
  fulfilledAt,   \* orders.fulfilled_at IS NOT NULL
  refunded,      \* orders.refunded_minor
  refund,        \* refunds.status, "absent" without a row
  amount,        \* refunds.amount_minor
  revoke,        \* refunds.revoke_entitlements
  desk,          \* what each administrator's request is doing
  job,           \* the ProcessRefund jobs
  sent,          \* external: what the gateway has given back for each refund
  fulfil,        \* the FulfillOrder job
  access,        \* the customer's entitlements from this order
  failures

orderVars  == <<status, fulfilledAt>>
refundVars == <<refund, amount, revoke>>
vars == <<status, fulfilledAt, refunded, refund, amount, revoke, desk, job,
          sent, fulfil, access, failures>>

NoJob    == [pc |-> "none", tries |-> 0]
Away     == [pc |-> "idle", refund |-> "none", seen |-> "none", wasFulfilled |-> FALSE]
NoFulfil == [pc |-> "none", seen |-> "none"]

\* A paid order, its fulfilment still queued or long done.
Init ==
  /\ \/ status = "paid" /\ fulfilledAt = FALSE /\ access = "none"
        /\ fulfil = [NoFulfil EXCEPT !.pc = "queued"]
     \/ status = "fulfilled" /\ fulfilledAt = TRUE /\ access = "live"
        /\ fulfil = NoFulfil
  /\ refunded = 0
  /\ refund = [r \in Refunds |-> "absent"]
  /\ amount = [r \in Refunds |-> 0]
  /\ revoke = [r \in Refunds |-> FALSE]
  /\ desk = [a \in Admins |-> Away]
  /\ job = [j \in Jobs |-> NoJob]
  /\ sent = [r \in Refunds |-> 0]
  /\ failures = 0

\* Mutant: the transition table is not consulted.
MovesAnywhere(to) == TRUE

\* OrderStateMachine::transition: a no-op, a move, or an exception.
Moves(to) == status = to \/ Allows(status, to)

Move(to) ==
  /\ status' = to
  /\ fulfilledAt' = (fulfilledAt \/ to = "fulfilled")

\* What the refunds of S add up to, counted unit by unit.
Units(S)   == {u \in Refunds \X (1..Total) : u[1] \in S /\ u[2] <= amount[u[1]]}
SumOver(S) == Cardinality(Units(S))

-----------------------------------------------------------------------------
(* Admin\RefundController.                                                 *)

Outstanding == {r \in Refunds : refund[r] \in {"requested", "approved"}}

\* Mutant: only what was refunded counts.
RefundableNow == Total - refunded

Refundable == Total - refunded - SumOver(Outstanding)

\* ::store, one transaction under the order's lock.
Store(r, a, rv) ==
  /\ refund[r] = "absent"
  /\ GrantsEntitlements(status)
  /\ a <= Refundable
  /\ refund' = [refund EXCEPT ![r] = "requested"]
  /\ amount' = [amount EXCEPT ![r] = a]
  /\ revoke' = [revoke EXCEPT ![r] = rv]
  /\ IF Allows(status, "refund_pending") THEN Move("refund_pending")
     ELSE UNCHANGED orderVars
  /\ UNCHANGED <<refunded, desk, job, sent, fulfil, access, failures>>

\* ::approve and ::reject read the refund and its order ...
Open(a, r, pc) ==
  /\ desk[a] = Away
  /\ refund[r] = "requested"
  /\ desk' = [desk EXCEPT ![a] = [pc |-> pc, refund |-> r, seen |-> status,
                                  wasFulfilled |-> fulfilledAt]]
  /\ UNCHANGED <<orderVars, refunded, refundVars, job, sent, fulfil, access, failures>>

\* ... and write the decision over whatever the row says by then.
Approve(a) ==
  /\ desk[a].pc = "approving"
  /\ refund' = [refund EXCEPT ![desk[a].refund] = "approved"]
  /\ desk' = [desk EXCEPT ![a].pc = "dispatching"]
  /\ UNCHANGED <<orderVars, refunded, amount, revoke, job, sent, fulfil, access, failures>>

DispatchRefund(a) ==
  /\ desk[a].pc = "dispatching"
  /\ job' = [job EXCEPT ![<<a, desk[a].refund>>] = [NoJob EXCEPT !.pc = "queued"]]
  /\ desk' = [desk EXCEPT ![a] = Away]
  /\ UNCHANGED <<orderVars, refunded, refundVars, sent, fulfil, access, failures>>

Reject(a) ==
  /\ desk[a].pc = "rejecting"
  /\ refund' = [refund EXCEPT ![desk[a].refund] = "rejected"]
  /\ desk' = [desk EXCEPT ![a].pc = "releasing"]
  /\ UNCHANGED <<orderVars, refunded, amount, revoke, job, sent, fulfil, access, failures>>

\* The order goes back to paid or fulfilled, as the order read with the
\* refund says; a refused transition is a 409 after the rejection is saved.
Release(a) ==
  LET to == IF desk[a].wasFulfilled THEN "fulfilled" ELSE "paid" IN
  /\ desk[a].pc = "releasing"
  /\ IF desk[a].seen = "refund_pending" /\ Moves(to) THEN Move(to)
     ELSE UNCHANGED orderVars
  /\ desk' = [desk EXCEPT ![a] = Away]
  /\ UNCHANGED <<refunded, refundVars, job, sent, fulfil, access, failures>>

\* The request dies on its way.
CrashRequest(a) ==
  /\ desk[a] # Away /\ failures < MaxFailures
  /\ desk' = [desk EXCEPT ![a] = Away]
  /\ failures' = failures + 1
  /\ UNCHANGED <<orderVars, refunded, refundVars, job, sent, fulfil, access>>

\* Admin\OrderController::transition, for a paid order without submissions.
AdminTransition(to) ==
  /\ Allows(status, to)
  /\ Move(to)
  /\ fulfil' = IF to = "paid" /\ fulfil.pc = "none" THEN [fulfil EXCEPT !.pc = "queued"]
               ELSE fulfil
  /\ UNCHANGED <<refunded, refundVars, desk, job, sent, access, failures>>

-----------------------------------------------------------------------------
(* Jobs\ProcessRefund.                                                     *)

Running ==
  Cardinality({j \in Jobs : job[j].pc \in {"asking", "recording", "revoking"}})
    + (IF fulfil.pc \in {"reading", "granted"} THEN 1 ELSE 0)

Goto(j, pc) == job' = [job EXCEPT ![j].pc = pc]

\* Mutant: a failing job is queued again for ever.
RetryForEver(j) == job' = [job EXCEPT ![j].pc = "queued"]

\* Mutant: a job that failed takes the refund for made when it comes again.
RetryAsMade(j) ==
  job' = [job EXCEPT ![j].pc = IF job[j].tries < MaxTries THEN "recording" ELSE "dead"]

\* The job failed: queued again until its tries are used up (failed_jobs).
Retry(j) ==
  job' = [job EXCEPT ![j].pc = IF job[j].tries < MaxTries THEN "queued" ELSE "dead"]

\* Mutant: a processed refund is processed again.
DueUnlessRejected(r) == refund[r] # "rejected"

\* The job has something to do only while its refund is approved.
Due(r) == refund[r] = "approved"

StartRefund(j) ==
  /\ job[j].pc = "queued" /\ Running < NumWorkers
  /\ job' = [job EXCEPT ![j] =
               [pc |-> IF ~Due(j[2]) THEN "done"
                       ELSE IF PaidOnline THEN "asking" ELSE "recording",
                tries |-> @.tries + 1]]
  /\ UNCHANGED <<orderVars, refunded, refundVars, desk, sent, fulfil, access, failures>>

\* External: the gateway never gives back more than it took.
SentInAll == Cardinality({u \in Refunds \X (1..Total) : u[2] <= sent[u[1]]})
CanGiveBack(r) == SentInAll + amount[r] <= Total

GatewayAccepts(j) ==
  /\ job[j].pc = "asking" /\ CanGiveBack(j[2])
  /\ sent' = [sent EXCEPT ![j[2]] = @ + amount[j[2]]]
  /\ Goto(j, "recording")
  /\ UNCHANGED <<orderVars, refunded, refundVars, desk, fulfil, access, failures>>

\* Mutant: the refusal is logged, the refund left as it was.
GatewayRefusesSilently(j) ==
  /\ job[j].pc = "asking"
  /\ Goto(j, "done")
  /\ UNCHANGED <<orderVars, refunded, refundVars, desk, sent, fulfil, access, failures>>

GatewayRefuses(j) ==
  /\ job[j].pc = "asking"
  /\ refund' = [refund EXCEPT ![j[2]] = "rejected"]
  /\ Goto(j, "done")
  /\ UNCHANGED <<orderVars, refunded, amount, revoke, desk, sent, fulfil, access, failures>>

\* The HTTP call throws; the gateway may have done its part all the same.
GatewayTimesOut(j, acted) ==
  /\ job[j].pc = "asking" /\ failures < MaxFailures
  /\ acted => CanGiveBack(j[2])
  /\ sent' = IF acted THEN [sent EXCEPT ![j[2]] = @ + amount[j[2]]] ELSE sent
  /\ Retry(j)
  /\ failures' = failures + 1
  /\ UNCHANGED <<orderVars, refunded, refundVars, desk, fulfil, access>>

\* Mutant: an off-by-one in what counts as everything.
StatusAfterLate(now) == IF now > Total THEN "refunded" ELSE "partially_refunded"

StatusAfter(now) == IF now >= Total THEN "refunded" ELSE "partially_refunded"

\* One transaction: the refund is processed, refunded_minor grows, the order
\* moves.  A refused transition rolls all of it back and the job is retried.
Record(j) ==
  LET r == j[2]
      now == refunded + amount[r]
      to == StatusAfter(now) IN
  /\ job[j].pc = "recording"
  /\ IF Moves(to)
       THEN /\ refund' = [refund EXCEPT ![r] = "processed"]
            /\ refunded' = now
            /\ Move(to)
            /\ Goto(j, IF revoke[r] THEN "revoking" ELSE "done")
       ELSE Retry(j) /\ UNCHANGED <<orderVars, refund, refunded>>
  /\ UNCHANGED <<amount, revoke, desk, sent, fulfil, access, failures>>

\* RevocationService::revokeForOrder, after the commit.
Revoke(j) ==
  /\ job[j].pc = "revoking"
  /\ access' = IF access = "live" THEN "revoked" ELSE access
  /\ Goto(j, "done")
  /\ UNCHANGED <<orderVars, refunded, refundVars, desk, sent, fulfil, failures>>

CrashRefund(j) ==
  /\ job[j].pc \in {"asking", "recording", "revoking"} /\ failures < MaxFailures
  /\ Retry(j)
  /\ failures' = failures + 1
  /\ UNCHANGED <<orderVars, refunded, refundVars, desk, sent, fulfil, access>>

-----------------------------------------------------------------------------
(* Jobs\FulfillOrder, seen from here: the order is read, the grants        *)
(* commit, the order moves as the first read said.                         *)

Refulfill ==
  /\ GrantsEntitlements(status) /\ fulfil.pc = "none"
  /\ fulfil' = [fulfil EXCEPT !.pc = "queued"]
  /\ UNCHANGED <<orderVars, refunded, refundVars, desk, job, sent, access, failures>>

FulfillRead ==
  /\ fulfil.pc = "queued" /\ Running < NumWorkers
  /\ fulfil' = IF GrantsEntitlements(status) THEN [pc |-> "reading", seen |-> status]
               ELSE NoFulfil
  /\ UNCHANGED <<orderVars, refunded, refundVars, desk, job, sent, access, failures>>

\* Every grant clears revoked_at.
FulfillGrant ==
  /\ fulfil.pc = "reading"
  /\ access' = "live"
  /\ fulfil' = [fulfil EXCEPT !.pc = "granted"]
  /\ UNCHANGED <<orderVars, refunded, refundVars, desk, job, sent, failures>>

FulfillMove ==
  LET moves == Allows(fulfil.seen, "fulfilled") IN
  /\ fulfil.pc = "granted"
  /\ IF moves /\ Moves("fulfilled") THEN Move("fulfilled") ELSE UNCHANGED orderVars
  /\ fulfil' = IF moves /\ ~Moves("fulfilled") THEN [NoFulfil EXCEPT !.pc = "queued"]
               ELSE NoFulfil
  /\ UNCHANGED <<refunded, refundVars, desk, job, sent, access, failures>>

-----------------------------------------------------------------------------
Desk(a) ==
  \/ \E r \in Refunds : Open(a, r, "approving") \/ Open(a, r, "rejecting")
  \/ Approve(a) \/ DispatchRefund(a) \/ Reject(a) \/ Release(a)

Process(j) ==
  \/ StartRefund(j) \/ GatewayAccepts(j) \/ GatewayRefuses(j)
  \/ Record(j) \/ Revoke(j)

Fulfil == FulfillRead \/ FulfillGrant \/ FulfillMove

Next ==
  \/ \E r \in Refunds, a \in 1..Total, rv \in RevokeChoices : Store(r, a, rv)
  \/ \E a \in Admins : Desk(a) \/ CrashRequest(a)
  \/ \E j \in Jobs :
       \/ Process(j) \/ CrashRefund(j)
       \/ \E acted \in BOOLEAN : GatewayTimesOut(j, acted)
  \/ \E to \in AdminTargets : AdminTransition(to)
  \/ Refulfill \/ Fulfil

Spec == Init /\ [][Next]_vars

\* The queue hands out the oldest job first, so one that waits is taken up in
\* the end although a busy worker may disable it again and again; what a
\* worker has begun goes on; and a request that was let in finishes.
Fairness ==
  /\ \A a \in Admins : WF_vars(Approve(a) \/ DispatchRefund(a) \/ Reject(a) \/ Release(a))
  /\ \A j \in Jobs :
       /\ SF_vars(StartRefund(j))
       /\ WF_vars(GatewayAccepts(j) \/ GatewayRefuses(j) \/ Record(j) \/ Revoke(j))
  /\ WF_vars(FulfillGrant \/ FulfillMove)

FairSpec == Spec /\ Fairness

-----------------------------------------------------------------------------
(* Properties.                                                             *)

TypeOK ==
  /\ status \in OrderStatus
  /\ fulfilledAt \in BOOLEAN
  /\ refunded \in Nat
  /\ refund \in [Refunds -> {"absent", "requested", "approved", "rejected", "processed"}]
  /\ amount \in [Refunds -> 0..Total]
  /\ revoke \in [Refunds -> BOOLEAN]
  /\ desk \in [Admins ->
       [pc : {"idle", "approving", "dispatching", "rejecting", "releasing"},
        refund : Refunds \union {"none"},
        seen : OrderStatus \union {"none"}, wasFulfilled : BOOLEAN]]
  /\ job \in [Jobs ->
       [pc : {"none", "queued", "asking", "recording", "revoking", "done", "dead"},
        tries : 0..MaxTries]]
  /\ sent \in [Refunds -> Nat]
  /\ fulfil \in [pc : {"none", "queued", "reading", "granted"},
                 seen : OrderStatus \union {"none"}]
  /\ access \in {"none", "live", "revoked"}
  /\ failures \in 0..MaxFailures

(***************************************************************************)
(* Refunds never add up past the order: what was refunded and what is on   *)
(* its way back stay within the total, across retries, crashes and refused *)
(* transitions of the job.                                                 *)
(***************************************************************************)
RefundsWithinTotal == refunded + SumOver(Outstanding) <= Total

(***************************************************************************)
(* refunded_minor is exactly the sum of the processed refunds: no refund   *)
(* is counted twice by a retried job and none is processed uncounted.      *)
(***************************************************************************)
RefundedIsSum == refunded = SumOver({r \in Refunds : refund[r] = "processed"})

(***************************************************************************)
(* Once all of an order's money went back the order is refunded; and but   *)
(* for an administrator who says so by hand, it becomes refunded only by   *)
(* the refund that brings all of it back, and partially refunded only by   *)
(* one that leaves some.                                                   *)
(***************************************************************************)
StatusTellsRefunded ==
  /\ [](refunded >= Total => status = "refunded")
  /\ [][status' # status /\ status' \in {"refunded", "partially_refunded"} =>
          \/ \E to \in AdminTargets : AdminTransition(to)
          \/ refunded' > 0 /\ (status' = "refunded" <=> refunded' >= Total)]_vars

(***************************************************************************)
(* The books of an order paid online never say that more went back than    *)
(* the gateway gave back: not when a call times out, a worker dies, a job  *)
(* comes again or a refund is decided on twice.                            *)
(***************************************************************************)
BackedByTheGateway == PaidOnline => refunded <= SentInAll

(***************************************************************************)
(* Once the whole order is refunded, by refunds that withdraw the access,  *)
(* and the queue is quiet, the access is not there, whichever of           *)
(* fulfilment and refund ran first; a worker that dies before it withdrew  *)
(* it leaves it.                                                           *)
(***************************************************************************)
RefundedLosesAccess ==
  /\ refunded >= Total /\ Running = 0 /\ failures = 0
  /\ \A r \in Refunds : refund[r] # "absent" => revoke[r]
  => access # "live"

\* The approval is written, and nothing will ever work on it.
Undispatched(r) ==
  \A a \in Admins :
    job[<<a, r>>].pc = "none" /\ ~(desk[a].pc = "dispatching" /\ desk[a].refund = r)

(***************************************************************************)
(* An approval is not lost: through timeouts and dying workers it ends in  *)
(* a decision, or its job ends in failed_jobs where an operator finds it,  *)
(* unless the request died between writing it and dispatching the job.     *)
(***************************************************************************)
ApprovedIsAnswered ==
  \A r \in Refunds :
    refund[r] = "approved" ~>
      \/ refund[r] # "approved"
      \/ \E a \in Admins : job[<<a, r>>].pc = "dead"
      \/ Undispatched(r)

\* The refund side implements the order lifecycle for its one order.
Lifecycle == INSTANCE OrderLifecycle
               WITH Orders <- {"order"},
                    status <- [o \in {"order"} |-> status],
                    everPaid <- [o \in {"order"} |-> TRUE]

(***************************************************************************)
(* Every step moves the order at most once and as the state machine allows *)
(***************************************************************************)
ImplementsLifecycle == Lifecycle!Spec
-----------------------------------------------------------------------------
(* What the types rest on, and the books while no two requests decide on   *)
(* one refund at once.                                                     *)

\* A request that is about to write a decision works on an undecided refund.
OpenIsUndecided ==
  \A a \in Admins : desk[a].pc \in {"approving", "rejecting"} =>
    desk[a].refund \in Refunds /\ refund[desk[a].refund] = "requested"

\* A job that is about to settle a refund works on an approved one.
UnsettledIsApproved ==
  \A j \in Jobs : job[j].pc \in {"asking", "recording"} => refund[j[2]] = "approved"

\* A queued job has a try left.
QueuedHasTry == \A j \in Jobs : job[j].pc = "queued" => job[j].tries < MaxTries

IInv == TypeOK /\ QueuedHasTry /\ OpenIsUndecided /\ UnsettledIsApproved
=============================================================================
