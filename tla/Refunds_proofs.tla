--------------------------- MODULE Refunds_proofs ---------------------------
(***************************************************************************)
(* Theorems about refunds, for every set of refunds and any number of      *)
(* administrators and workers: types, the refinement of the order          *)
(* lifecycle, what becomes of an approval, what the gateway backs and what *)
(* the order's status tells; the withdrawal of access with one worker; the *)
(* books to the last unit while no two requests decide on one refund at    *)
(* once.  At the end the affiliate ledger: payouts and what a commission   *)
(* is worked out on.                                                       *)
(***************************************************************************)
EXTENDS Affiliates, FiniteSetTheorems, TLAPS

-----------------------------------------------------------------------------
(* Types.                                                                  *)

\* A status that a transition is allowed to reach is one of the code.
LEMMA AllowedIsStatus ==
  ASSUME NEW s, NEW t, Allows(s, t) PROVE t \in OrderStatus
BY DEF Allows, NextStatuses, OrderStatus

JobPcs == {"none", "queued", "asking", "recording", "revoking", "done", "dead"}

JobsTyped ==
  job \in [Jobs -> [pc : JobPcs, tries : 0..MaxTries]] /\ QueuedHasTry

\* A job that goes on stays a job.
LEMMA GotoTyped ==
  ASSUME JobsTyped, NEW j \in Jobs, NEW pc \in JobPcs \ {"queued"}, Goto(j, pc)
  PROVE  JobsTyped'
BY DEF JobsTyped, Goto, QueuedHasTry

\* A job that failed is queued again, with a try left, or given up.
LEMMA RetryTyped ==
  ASSUME JobsTyped, NEW j \in Jobs, Retry(j)
  PROVE  JobsTyped'
<1> DEFINE pc == IF job[j].tries < MaxTries THEN "queued" ELSE "dead"
<1>1. pc \in JobPcs /\ (pc = "queued" => job[j].tries < MaxTries)
  BY DEF JobPcs
<1>2. job' = [job EXCEPT ![j].pc = pc]
  BY DEF Retry
<1> HIDE DEF pc
<1> QED BY <1>1, <1>2 DEF JobsTyped, QueuedHasTry

RefundStates == {"absent", "requested", "approved", "rejected", "processed"}

DeskRecords ==
  [pc : {"idle", "approving", "dispatching", "rejecting", "releasing"},
   refund : Refunds \union {"none"},
   seen : OrderStatus \union {"none"}, wasFulfilled : BOOLEAN]

\* The type invariant with its larger sets named, before a step and after it.
Typed ==
  /\ status \in OrderStatus /\ fulfilledAt \in BOOLEAN
  /\ refunded \in Nat
  /\ refund \in [Refunds -> RefundStates]
  /\ amount \in [Refunds -> 0..Total]
  /\ revoke \in [Refunds -> BOOLEAN]
  /\ desk \in [Admins -> DeskRecords]
  /\ JobsTyped
  /\ sent \in [Refunds -> Nat]
  /\ fulfil \in [pc : {"none", "queued", "reading", "granted"},
                 seen : OrderStatus \union {"none"}]
  /\ access \in {"none", "live", "revoked"}
  /\ failures \in 0..MaxFailures

LEMMA Unfolded == Typed <=> TypeOK /\ QueuedHasTry
BY DEF TypeOK, Typed, JobsTyped, JobPcs, RefundStates, DeskRecords

\* What a move leaves behind.
LEMMA MoveTyped ==
  ASSUME Typed, NEW to \in OrderStatus, Move(to)
  PROVE  status' \in OrderStatus /\ fulfilledAt' \in BOOLEAN
BY DEF Move, Typed

\* The steps of the administrators keep the types.
LEMMA DeskTyped ==
  ASSUME Typed, NEW a \in Admins, Desk(a) \/ CrashRequest(a) PROVE Typed'
<1> USE RefundsAssumption
<1>0. Away \in DeskRecords
  BY DEF Away, DeskRecords
<1>1. ASSUME NEW r \in Refunds, NEW pc \in {"approving", "rejecting"},
             Open(a, r, pc)
      PROVE  Typed'
  <2>1. desk' \in [Admins -> DeskRecords]
    BY <1>1 DEF Typed, Open, DeskRecords
  <2> QED BY <1>1, <2>1 DEF Typed, Open, orderVars, refundVars, JobsTyped, QueuedHasTry
<1>2. CASE Approve(a)
  <2>1. refund' \in [Refunds -> RefundStates]
    BY <1>2 DEF Typed, Approve, RefundStates
  <2>2. desk' \in [Admins -> DeskRecords]
    BY <1>2 DEF Typed, Approve, DeskRecords
  <2> QED BY <1>2, <2>1, <2>2 DEF Typed, Approve, orderVars, JobsTyped, QueuedHasTry
<1>3. CASE DispatchRefund(a)
  <2> DEFINE new == [NoJob EXCEPT !.pc = "queued"]
  <2>1. new \in [pc : JobPcs, tries : 0..MaxTries] /\ new.tries < MaxTries
    BY DEF NoJob, JobPcs
  <2>2. job' = [job EXCEPT ![<<a, desk[a].refund>>] = new]
    BY <1>3 DEF DispatchRefund
  <2> HIDE DEF new
  <2>4. JobsTyped'
    BY <2>1, <2>2 DEF Typed, JobsTyped, QueuedHasTry
  <2>3. desk' \in [Admins -> DeskRecords]
    BY <1>0, <1>3 DEF Typed, DispatchRefund
  <2> QED BY <1>3, <2>3, <2>4 DEF Typed, DispatchRefund, orderVars, refundVars
<1>4. CASE Reject(a)
  <2>1. refund' \in [Refunds -> RefundStates]
    BY <1>4 DEF Typed, Reject, RefundStates
  <2>2. desk' \in [Admins -> DeskRecords]
    BY <1>4 DEF Typed, Reject, DeskRecords
  <2> QED BY <1>4, <2>1, <2>2 DEF Typed, Reject, orderVars, JobsTyped, QueuedHasTry
<1>5. CASE Release(a)
  <2> DEFINE to == IF desk[a].wasFulfilled THEN "fulfilled" ELSE "paid"
  <2>1. to \in OrderStatus
    BY DEF OrderStatus
  <2>2. Move(to) \/ UNCHANGED orderVars
    BY <1>5 DEF Release
  <2>3. status' \in OrderStatus /\ fulfilledAt' \in BOOLEAN
    BY <2>1, <2>2, MoveTyped DEF orderVars, Typed
  <2>4. desk' \in [Admins -> DeskRecords]
    BY <1>0, <1>5 DEF Typed, Release
  <2> QED BY <1>5, <2>3, <2>4 DEF Typed, Release, refundVars, JobsTyped, QueuedHasTry
<1>6. CASE CrashRequest(a)
  <2>1. desk' \in [Admins -> DeskRecords]
    BY <1>0, <1>6 DEF Typed, CrashRequest
  <2>2. failures' \in 0..MaxFailures
    BY <1>6 DEF CrashRequest, Typed
  <2> QED BY <1>6, <2>1, <2>2
          DEF Typed, CrashRequest, orderVars, refundVars, JobsTyped, QueuedHasTry
<1> QED BY <1>1, <1>2, <1>3, <1>4, <1>5, <1>6 DEF Desk

\* The steps of the refund jobs keep the types.
LEMMA ProcessTyped ==
  ASSUME Typed, NEW j \in Jobs,
         \/ Process(j) \/ CrashRefund(j)
         \/ \E acted \in BOOLEAN : GatewayTimesOut(j, acted)
  PROVE  Typed'
<1> USE RefundsAssumption
<1>0. JobsTyped /\ j[2] \in Refunds
  BY DEF Typed, Jobs
<1>1. CASE StartRefund(j)
  <2>1. job[j].tries + 1 \in 0..MaxTries
    BY <1>0, <1>1 DEF StartRefund, JobsTyped, QueuedHasTry
  <2>2. JobsTyped'
    BY <1>0, <1>1, <2>1 DEF StartRefund, JobsTyped, JobPcs, QueuedHasTry
  <2> QED BY <1>1, <2>2 DEF Typed, StartRefund, orderVars, refundVars
<1>2. CASE GatewayAccepts(j)
  <2>1. JobsTyped'
    BY <1>0, <1>2, GotoTyped DEF GatewayAccepts, JobPcs
  <2>2. sent' \in [Refunds -> Nat]
    BY <1>0, <1>2 DEF GatewayAccepts, Typed
  <2> QED BY <1>2, <2>1, <2>2 DEF Typed, GatewayAccepts, orderVars, refundVars
<1>3. CASE GatewayRefuses(j)
  <2>1. JobsTyped'
    BY <1>0, <1>3, GotoTyped DEF GatewayRefuses, JobPcs
  <2>2. refund' \in [Refunds -> RefundStates]
    BY <1>3 DEF Typed, GatewayRefuses, RefundStates
  <2> QED BY <1>3, <2>1, <2>2 DEF Typed, GatewayRefuses, orderVars
<1>4. ASSUME NEW acted \in BOOLEAN, GatewayTimesOut(j, acted) PROVE Typed'
  <2>1. JobsTyped'
    BY <1>0, <1>4, RetryTyped DEF GatewayTimesOut
  <2>2. sent' \in [Refunds -> Nat]
    BY <1>0, <1>4 DEF GatewayTimesOut, Typed
  <2>3. failures' \in 0..MaxFailures
    BY <1>4 DEF GatewayTimesOut, Typed
  <2> QED BY <1>4, <2>1, <2>2, <2>3
          DEF Typed, GatewayTimesOut, orderVars, refundVars
<1>5. CASE Record(j)
  <2> DEFINE now == refunded + amount[j[2]]
  <2>1. now \in Nat
    BY <1>0 DEF Typed
  <2>2. StatusAfter(now) \in OrderStatus
    BY DEF StatusAfter, OrderStatus
  <2>3. CASE Moves(StatusAfter(now))
    <3>1. Move(StatusAfter(now)) /\ refunded' = now
      BY <1>5, <2>3 DEF Record
    <3>2. refund' \in [Refunds -> RefundStates]
      BY <1>5, <2>3 DEF Typed, Record, RefundStates
    <3>3. Goto(j, "revoking") \/ Goto(j, "done")
      BY <1>5, <2>3 DEF Record
    <3>4. JobsTyped'
      BY <1>0, <3>3, GotoTyped DEF JobPcs
    <3>5. UNCHANGED <<amount, revoke, desk, sent, fulfil, access, failures>>
      BY <1>5 DEF Record
    <3>6. status' \in OrderStatus /\ fulfilledAt' \in BOOLEAN
      BY <2>2, <3>1, MoveTyped
    <3> QED BY <2>1, <3>1, <3>2, <3>4, <3>5, <3>6 DEF Typed
  <2>4. CASE ~Moves(StatusAfter(now))
    <3>1. Retry(j) /\ UNCHANGED <<orderVars, refund, refunded>>
      BY <1>5, <2>4 DEF Record
    <3>2. JobsTyped'
      BY <1>0, <3>1, RetryTyped
    <3> QED BY <1>5, <3>1, <3>2 DEF Typed, Record, orderVars
  <2> QED BY <2>3, <2>4
<1>6. CASE Revoke(j)
  <2>1. JobsTyped'
    BY <1>0, <1>6, GotoTyped DEF Revoke, JobPcs
  <2> QED BY <1>6, <2>1 DEF Typed, Revoke, orderVars, refundVars
<1>7. CASE CrashRefund(j)
  <2>1. JobsTyped'
    BY <1>0, <1>7, RetryTyped DEF CrashRefund
  <2>2. failures' \in 0..MaxFailures
    BY <1>7 DEF CrashRefund, Typed
  <2> QED BY <1>7, <2>1, <2>2 DEF Typed, CrashRefund, orderVars, refundVars
<1> QED BY <1>1, <1>2, <1>3, <1>4, <1>5, <1>6, <1>7 DEF Process

\* The steps of the fulfilment job keep the types.
LEMMA FulfilTyped == ASSUME Typed, Refulfill \/ Fulfil PROVE Typed'
<1> DEFINE FulfilStates == [pc : {"none", "queued", "reading", "granted"},
                            seen : OrderStatus \union {"none"}]
<1>0. NoFulfil \in FulfilStates /\ fulfil \in FulfilStates /\ JobsTyped
  BY DEF NoFulfil, Typed
<1>1. CASE Refulfill
  <2>1. fulfil' \in FulfilStates
    BY <1>0, <1>1 DEF Refulfill
  <2> QED BY <1>1, <2>1
          DEF Typed, Refulfill, orderVars, refundVars, JobsTyped, QueuedHasTry
<1>2. CASE FulfillRead
  <2>1. fulfil' \in FulfilStates
    BY <1>0, <1>2 DEF FulfillRead, Typed
  <2> QED BY <1>2, <2>1
          DEF Typed, FulfillRead, orderVars, refundVars, JobsTyped, QueuedHasTry
<1>3. CASE FulfillGrant
  <2>1. fulfil' \in FulfilStates
    BY <1>0, <1>3 DEF FulfillGrant
  <2> QED BY <1>3, <2>1
          DEF Typed, FulfillGrant, orderVars, refundVars, JobsTyped, QueuedHasTry
<1>4. CASE FulfillMove
  <2>1. fulfil' \in FulfilStates
    BY <1>0, <1>4 DEF FulfillMove, NoFulfil
  <2>2. Move("fulfilled") \/ UNCHANGED orderVars
    BY <1>4 DEF FulfillMove
  <2>3. status' \in OrderStatus /\ fulfilledAt' \in BOOLEAN
    BY <2>2, MoveTyped DEF orderVars, Typed, OrderStatus
  <2> QED BY <1>4, <2>1, <2>3 DEF Typed, FulfillMove, refundVars, JobsTyped, QueuedHasTry
<1> QED BY <1>1, <1>2, <1>3, <1>4 DEF Fulfil

\* Every step keeps the types.
LEMMA NextTyped == ASSUME Typed, [Next]_vars PROVE Typed'
<1> USE RefundsAssumption
<1>1. ASSUME NEW r \in Refunds, NEW a \in 1..Total, NEW rv \in RevokeChoices,
             Store(r, a, rv)
      PROVE  Typed'
  <2>1. Move("refund_pending") \/ UNCHANGED orderVars
    BY <1>1 DEF Store
  <2>2. status' \in OrderStatus /\ fulfilledAt' \in BOOLEAN
    BY <2>1, MoveTyped DEF orderVars, Typed, OrderStatus
  <2>3. refund' \in [Refunds -> RefundStates] /\ revoke' \in [Refunds -> BOOLEAN]
    BY <1>1 DEF Store, Typed, RefundStates
  <2>4. amount' \in [Refunds -> 0..Total]
    BY <1>1 DEF Store, Typed
  <2> QED BY <1>1, <2>2, <2>3, <2>4 DEF Typed, Store, JobsTyped, QueuedHasTry
<1>2. ASSUME NEW to \in AdminTargets, AdminTransition(to) PROVE Typed'
  <2>1. status' \in OrderStatus /\ fulfilledAt' \in BOOLEAN
    BY <1>2, MoveTyped DEF AdminTransition
  <2> QED BY <1>2, <2>1
          DEF Typed, AdminTransition, refundVars, JobsTyped, QueuedHasTry
<1>3. CASE UNCHANGED vars
  BY <1>3 DEF vars, Typed, JobsTyped, QueuedHasTry
<1> QED BY <1>1, <1>2, <1>3, DeskTyped, ProcessTyped, FulfilTyped DEF Next

\* The first state is well typed.
LEMMA InitTyped == ASSUME Init PROVE Typed
<1>1. /\ status \in OrderStatus /\ fulfilledAt \in BOOLEAN
      /\ access \in {"none", "live", "revoked"}
  BY DEF Init, OrderStatus
<1>2. fulfil \in [pc : {"none", "queued", "reading", "granted"},
                 seen : OrderStatus \union {"none"}]
  BY DEF Init, NoFulfil
<1>3. JobsTyped
  BY RefundsAssumption DEF Init, NoJob, JobsTyped, JobPcs, QueuedHasTry
<1>4. desk \in [Admins -> DeskRecords]
  BY DEF Init, Away, DeskRecords
<1>5. refund \in [Refunds -> RefundStates]
  BY DEF Init, RefundStates
<1> QED BY <1>1, <1>2, <1>3, <1>4, <1>5, RefundsAssumption DEF Init, Typed

(***************************************************************************)
(* Every reachable state is well typed, and no job is tried more often     *)
(* than ProcessRefund::$tries says.                                        *)
(***************************************************************************)
THEOREM Typing == Spec => [](TypeOK /\ QueuedHasTry)
<1>1. Typed /\ [Next]_vars => Typed'
  BY NextTyped
<1> QED BY <1>1, InitTyped, Unfolded, PTL DEF Spec

-----------------------------------------------------------------------------
(* Decisions, while no two requests decide on one refund at once.          *)

Decided == OpenIsUndecided /\ UnsettledIsApproved

\* The request of a has read r and will write its decision.
Deciding(a, r) == desk[a].pc \in {"approving", "rejecting"} /\ desk[a].refund = r

\* RefundController::approve and ::reject take no lock: the theorems of this
\* part hold for the behaviours in which no two of them work on one refund at
\* the same moment, and are false of the others.
OneDecides ==
  \A a, b \in Admins, r \in Refunds : Deciding(a, r) /\ Deciding(b, r) => a = b

\* A single administrator is such a case.
LEMMA Alone == ASSUME \A a, b \in Admins : a = b PROVE OneDecides
BY DEF OneDecides

(***************************************************************************)
(* A refund has no job before it is approved and dispatched, and is        *)
(* dispatched by one request, once.                                        *)
(***************************************************************************)
DispatchedOnce ==
  /\ \A a \in Admins, r \in Refunds :
       refund[r] \in {"absent", "requested"} => job[<<a, r>>].pc = "none"
  /\ \A a \in Admins : desk[a].pc = "dispatching" =>
       /\ desk[a].refund \in Refunds /\ refund[desk[a].refund] \notin {"absent", "requested"}
       /\ \A b \in Admins : job[<<b, desk[a].refund>>].pc = "none"
  /\ \A a, b \in Admins :
       /\ desk[a].pc = "dispatching" /\ desk[b].pc = "dispatching"
       /\ desk[a].refund = desk[b].refund
       => a = b
  /\ \A a, b \in Admins, r \in Refunds :
       job[<<a, r>>].pc # "none" /\ job[<<b, r>>].pc # "none" => a = b

\* Which steps change the state of a refund, and from where to where.
LEMMA RefundWriters ==
  ASSUME Typed, Decided, [Next]_vars, NEW r \in Refunds, refund'[r] # refund[r]
  PROVE  \/ refund[r] = "absent" /\ refund'[r] = "requested"
         \/ \E a \in Admins :
              /\ Approve(a) \/ Reject(a)
              /\ desk[a].refund = r
              /\ refund[r] = "requested" /\ refund'[r] \in {"approved", "rejected"}
         \/ \E a \in Admins :
              /\ job[<<a, r>>].pc \in {"asking", "recording"}
              /\ job'[<<a, r>>].pc \in {"revoking", "done"}
              /\ \A j \in Jobs : j # <<a, r>> => job'[j] = job[j]
              /\ desk' = desk
              /\ refund[r] = "approved" /\ refund'[r] \in {"processed", "rejected"}
<1>1. ASSUME NEW s \in Refunds, NEW m \in 1..Total, NEW rv \in RevokeChoices,
             Store(s, m, rv)
      PROVE  refund[r] = "absent" /\ refund'[r] = "requested"
  BY <1>1 DEF Store, Typed
<1>2. ASSUME NEW a \in Admins, Approve(a) \/ Reject(a)
      PROVE  desk[a].refund = r /\ refund[r] = "requested"
             /\ refund'[r] \in {"approved", "rejected"}
  BY <1>2 DEF Approve, Reject, Typed, Decided, OpenIsUndecided
<1>3. ASSUME NEW j \in Jobs, GatewayRefuses(j) \/ Record(j)
      PROVE  \E a \in Admins :
               /\ job[<<a, r>>].pc \in {"asking", "recording"}
               /\ job'[<<a, r>>].pc \in {"revoking", "done"}
               /\ \A k \in Jobs : k # <<a, r>> => job'[k] = job[k]
               /\ desk' = desk
               /\ refund[r] = "approved" /\ refund'[r] \in {"processed", "rejected"}
  <2>1. job[j].pc \in {"asking", "recording"} /\ desk' = desk
    BY <1>3 DEF GatewayRefuses, Record
  <2>2. Goto(j, "revoking") \/ Goto(j, "done")
    BY <1>3 DEF GatewayRefuses, Record
  <2>3. \/ refund' = [refund EXCEPT ![j[2]] = "rejected"]
        \/ refund' = [refund EXCEPT ![j[2]] = "processed"]
    BY <1>3 DEF GatewayRefuses, Record
  <2>4. r = j[2] /\ refund'[r] \in {"processed", "rejected"}
    BY <2>3 DEF Typed
  <2>5. PICK a \in Admins : j = <<a, r>>
    BY <2>4 DEF Jobs
  <2>6. refund[r] = "approved"
    BY <2>1, <2>4 DEF Decided, UnsettledIsApproved
  <2>7. job'[j].pc \in {"revoking", "done"} /\ \A k \in Jobs : k # j => job'[k] = job[k]
    BY <2>2 DEF Goto, Typed, JobsTyped
  <2> QED BY <2>1, <2>4, <2>5, <2>6, <2>7
<1>4. CASE UNCHANGED refund
  BY <1>4
<1>5. ASSUME NEW a \in Admins, Desk(a) \/ CrashRequest(a), ~Approve(a), ~Reject(a)
      PROVE  UNCHANGED refund
  BY <1>5 DEF Desk, Open, DispatchRefund, Release, CrashRequest, refundVars
<1>6. ASSUME NEW j \in Jobs,
             \/ Process(j) \/ CrashRefund(j)
             \/ \E acted \in BOOLEAN : GatewayTimesOut(j, acted),
             ~GatewayRefuses(j), ~Record(j)
      PROVE  UNCHANGED refund
  BY <1>6 DEF Process, StartRefund, GatewayAccepts, Revoke, CrashRefund,
              GatewayTimesOut, refundVars
<1>7. ASSUME \/ \E to \in AdminTargets : AdminTransition(to)
             \/ Refulfill \/ Fulfil \/ UNCHANGED vars
      PROVE  UNCHANGED refund
  BY <1>7 DEF AdminTransition, Refulfill, Fulfil, FulfillRead, FulfillGrant,
              FulfillMove, refundVars, vars
<1> QED BY <1>1, <1>2, <1>3, <1>4, <1>5, <1>6, <1>7 DEF Next

\* A request about to write a decision was so before, or has just been opened.
LEMMA Opening ==
  ASSUME Typed, [Next]_vars, NEW a \in Admins,
         desk'[a].pc \in {"approving", "rejecting"}
  PROVE  \/ desk'[a] = desk[a] /\ ~Approve(a) /\ ~Reject(a)
         \/ /\ UNCHANGED refund
            /\ desk'[a].refund \in Refunds /\ refund[desk'[a].refund] = "requested"
<1>1. ASSUME NEW b \in Admins, NEW r \in Refunds, NEW pc \in {"approving", "rejecting"},
             Open(b, r, pc)
      PROVE  \/ desk'[a] = desk[a] /\ ~Approve(a) /\ ~Reject(a)
             \/ /\ UNCHANGED refund
                /\ desk'[a].refund \in Refunds /\ refund[desk'[a].refund] = "requested"
  <2>1. CASE a = b
    BY <1>1, <2>1 DEF Open, Typed, refundVars
  <2>2. CASE a # b
    <3>1. desk'[a] = desk[a] /\ UNCHANGED refund
      BY <1>1, <2>2 DEF Open, Typed, refundVars
    <3>2. ~Approve(a) /\ ~Reject(a)
      BY <3>1 DEF Approve, Reject, Typed, DeskRecords
    <3> QED BY <3>1, <3>2
  <2> QED BY <2>1, <2>2
<1>2. ~Approve(a) /\ ~Reject(a)
  BY DEF Approve, Reject, Typed, DeskRecords
<1>3. ASSUME NEW b \in Admins,
             \/ Approve(b) \/ DispatchRefund(b) \/ Reject(b) \/ Release(b)
             \/ CrashRequest(b)
      PROVE  desk'[a] = desk[a]
  <2>1. \/ desk' = [desk EXCEPT ![b].pc = "dispatching"]
        \/ desk' = [desk EXCEPT ![b].pc = "releasing"]
        \/ desk' = [desk EXCEPT ![b] = Away]
    BY <1>3 DEF Approve, DispatchRefund, Reject, Release, CrashRequest
  <2> QED BY <2>1 DEF Away, Typed, DeskRecords
<1>4. ASSUME NEW j \in Jobs,
             \/ Process(j) \/ CrashRefund(j)
             \/ \E acted \in BOOLEAN : GatewayTimesOut(j, acted)
      PROVE  UNCHANGED desk
  BY <1>4 DEF Process, StartRefund, GatewayAccepts, GatewayRefuses, Record, Revoke,
              CrashRefund, GatewayTimesOut
<1>5. ASSUME \/ \E r \in Refunds, m \in 1..Total, rv \in RevokeChoices : Store(r, m, rv)
             \/ \E to \in AdminTargets : AdminTransition(to)
             \/ Refulfill \/ Fulfil \/ UNCHANGED vars
      PROVE  UNCHANGED desk
  BY <1>5 DEF Store, AdminTransition, Refulfill, Fulfil, FulfillRead, FulfillGrant,
              FulfillMove, vars
<1> QED BY <1>1, <1>2, <1>3, <1>4, <1>5 DEF Next, Desk

\* A job about to settle its refund was so before, or has just found it approved.
LEMMA Settling ==
  ASSUME Typed, [Next]_vars, NEW j \in Jobs, job'[j].pc \in {"asking", "recording"}
  PROVE  \/ job[j].pc \in {"asking", "recording"}
         \/ UNCHANGED refund /\ refund[j[2]] = "approved"
<1> USE DEF Typed, JobsTyped
<1>1. ASSUME NEW k \in Jobs, StartRefund(k)
      PROVE  job'[j] = job[j] \/ (UNCHANGED refund /\ refund[j[2]] = "approved")
  BY <1>1 DEF StartRefund, Due, refundVars
<1>2. ASSUME NEW k \in Jobs, NEW pc,
             \/ job[k].pc \in {"asking", "recording"}
             \/ pc \notin {"asking", "recording"},
             job' = [job EXCEPT ![k].pc = pc]
      PROVE  job[j].pc \in {"asking", "recording"}
  BY <1>2
<1>3. ASSUME NEW k \in Jobs,
             \/ GatewayAccepts(k) \/ GatewayRefuses(k) \/ Record(k) \/ Revoke(k)
             \/ CrashRefund(k) \/ \E acted \in BOOLEAN : GatewayTimesOut(k, acted)
      PROVE  job[j].pc \in {"asking", "recording"}
  <2>1. GatewayAccepts(k) => job[k].pc = "asking" /\ Goto(k, "recording")
    BY DEF GatewayAccepts
  <2>2. ~GatewayAccepts(k) =>
          Goto(k, "revoking") \/ Goto(k, "done") \/ Retry(k)
    BY <1>3 DEF GatewayRefuses, Record, Revoke, CrashRefund, GatewayTimesOut
  <2>3. Retry(k) => Goto(k, "queued") \/ Goto(k, "dead")
    BY DEF Retry, Goto
  <2> QED BY <1>2, <2>1, <2>2, <2>3 DEF Goto
<1>4. ASSUME NEW a \in Admins, DispatchRefund(a) PROVE job'[j] = job[j]
  BY <1>4 DEF DispatchRefund, NoJob
<1>5. ASSUME NEW a \in Admins, Desk(a) \/ CrashRequest(a), ~DispatchRefund(a)
      PROVE  UNCHANGED job
  BY <1>5 DEF Desk, Open, Approve, Reject, Release, CrashRequest
<1>6. ASSUME \/ \E r \in Refunds, m \in 1..Total, rv \in RevokeChoices : Store(r, m, rv)
             \/ \E to \in AdminTargets : AdminTransition(to)
             \/ Refulfill \/ Fulfil \/ UNCHANGED vars
      PROVE  UNCHANGED job
  BY <1>6 DEF Store, AdminTransition, Refulfill, Fulfil, FulfillRead, FulfillGrant,
              FulfillMove, vars
<1> QED BY <1>1, <1>3, <1>4, <1>5, <1>6 DEF Next, Process

Busy(j) == job[j].pc \in {"asking", "recording", "revoking"}

\* How a step changes the jobs of refunds.
LEMMA JobSteps ==
  ASSUME Typed, [Next]_vars
  PROVE  \/ UNCHANGED job
         \/ \E a \in Admins : DispatchRefund(a)
         \/ \E j \in Jobs : StartRefund(j)
         \/ \E j \in Jobs, pc \in JobPcs :
              /\ Busy(j) /\ pc # "none" /\ UNCHANGED fulfil /\ UNCHANGED desk
              /\ job' = [job EXCEPT ![j].pc = pc]
              /\ pc = "revoking" => job[j].pc # "revoking"
              /\ job[j].pc = "revoking" => Revoke(j) \/ failures' = failures + 1
<1>1. ASSUME NEW a \in Admins, Desk(a) \/ CrashRequest(a), ~DispatchRefund(a)
      PROVE  UNCHANGED job
  BY <1>1 DEF Desk, Open, Approve, Reject, Release, CrashRequest
<1>2. ASSUME NEW j \in Jobs,
             \/ Process(j) \/ CrashRefund(j)
             \/ \E acted \in BOOLEAN : GatewayTimesOut(j, acted),
             ~StartRefund(j)
      PROVE  \E pc \in JobPcs :
               /\ Busy(j) /\ pc # "none" /\ UNCHANGED fulfil /\ UNCHANGED desk
               /\ job' = [job EXCEPT ![j].pc = pc]
               /\ pc = "revoking" => job[j].pc # "revoking"
               /\ job[j].pc = "revoking" => Revoke(j) \/ failures' = failures + 1
  <2>1. Busy(j) /\ UNCHANGED fulfil /\ UNCHANGED desk
    BY <1>2 DEF Process, GatewayAccepts, GatewayRefuses, Record, Revoke, CrashRefund,
                GatewayTimesOut, Busy
  <2>2. \E pc \in {"recording", "revoking", "done", "queued", "dead"} :
          /\ job' = [job EXCEPT ![j].pc = pc]
          /\ pc = "revoking" => job[j].pc # "revoking"
    BY <1>2 DEF Process, GatewayAccepts, GatewayRefuses, Record, Revoke, CrashRefund,
                GatewayTimesOut, Goto, Retry
  <2>3. job[j].pc = "revoking" => Revoke(j) \/ failures' = failures + 1
    BY <1>2 DEF Process, GatewayAccepts, GatewayRefuses, Record, CrashRefund,
                GatewayTimesOut
  <2> QED BY <2>1, <2>2, <2>3 DEF JobPcs
<1>3. ASSUME \/ \E r \in Refunds, m \in 1..Total, rv \in RevokeChoices : Store(r, m, rv)
             \/ \E to \in AdminTargets : AdminTransition(to)
             \/ Refulfill \/ Fulfil \/ UNCHANGED vars
      PROVE  UNCHANGED job
  BY <1>3 DEF Store, AdminTransition, Refulfill, Fulfil, FulfillRead, FulfillGrant,
              FulfillMove, vars
<1> QED BY <1>1, <1>2, <1>3 DEF Next

\* Jobs are dispatched once.
LEMMA DispatchedKept ==
  ASSUME Typed, Decided, DispatchedOnce, [Next]_vars PROVE DispatchedOnce'
<1>1. ASSUME NEW r \in Refunds, refund'[r] \in {"absent", "requested"}
      PROVE  refund[r] \in {"absent", "requested"}
  BY <1>1, RefundWriters
<1>2. ASSUME NEW j \in Jobs, job'[j].pc # "none"
      PROVE  \/ job[j].pc # "none"
             \/ \E a \in Admins : DispatchRefund(a) /\ j = <<a, desk[a].refund>>
  <2>1. ASSUME NEW k \in Jobs, StartRefund(k) PROVE job[j].pc # "none"
    BY <1>2, <2>1 DEF StartRefund, Typed, JobsTyped
  <2>2. ASSUME NEW a \in Admins, DispatchRefund(a), job[j].pc = "none"
        PROVE  j = <<a, desk[a].refund>>
    BY <1>2, <2>2 DEF DispatchRefund, Typed, JobsTyped
  <2>3. ASSUME NEW k \in Jobs, NEW pc \in JobPcs, Busy(k), job' = [job EXCEPT ![k].pc = pc]
        PROVE  job[j].pc # "none"
    BY <1>2, <2>3 DEF Busy, Typed, JobsTyped
  <2> QED BY <1>2, <2>1, <2>2, <2>3, JobSteps
<1>3. ASSUME NEW a \in Admins, desk'[a].pc = "dispatching"
      PROVE  /\ desk'[a].refund = desk[a].refund
             /\ \/ desk[a].pc = "dispatching" /\ ~DispatchRefund(a)
                \/ Approve(a)
  <2>0. ASSUME desk' = [desk EXCEPT ![a] = Away] PROVE FALSE
    BY <1>3, <2>0 DEF Away, Typed
  <2>1. ~DispatchRefund(a) /\ ~Release(a) /\ ~CrashRequest(a)
    BY <2>0 DEF DispatchRefund, Release, CrashRequest
  <2>2. ASSUME NEW b \in Admins, b # a, Desk(b) \/ CrashRequest(b)
        PROVE  desk'[a] = desk[a]
    BY <2>2 DEF Desk, Open, Approve, Reject, DispatchRefund, Release, CrashRequest, Typed
  <2>3. ASSUME Desk(a) PROVE Approve(a) /\ desk'[a].refund = desk[a].refund
    <3>1. Approve(a) => desk'[a].refund = desk[a].refund
      BY DEF Approve, Typed, DeskRecords
    <3>2. ~\E r \in Refunds : Open(a, r, "approving") \/ Open(a, r, "rejecting")
      BY <1>3 DEF Open, Typed
    <3>3. ~Reject(a)
      BY <1>3 DEF Reject, Typed, DeskRecords
    <3> QED BY <2>1, <2>3, <3>1, <3>2, <3>3 DEF Desk
  <2>4. ASSUME NEW j \in Jobs,
               \/ Process(j) \/ CrashRefund(j)
               \/ \E acted \in BOOLEAN : GatewayTimesOut(j, acted)
        PROVE  UNCHANGED desk
    BY <2>4 DEF Process, StartRefund, GatewayAccepts, GatewayRefuses, Record, Revoke,
                CrashRefund, GatewayTimesOut
  <2>5. ASSUME \/ \E r \in Refunds, m \in 1..Total, rv \in RevokeChoices : Store(r, m, rv)
               \/ \E to \in AdminTargets : AdminTransition(to)
               \/ Refulfill \/ Fulfil \/ UNCHANGED vars
        PROVE  UNCHANGED desk
    BY <2>5 DEF Store, AdminTransition, Refulfill, Fulfil, FulfillRead, FulfillGrant,
                FulfillMove, vars
  <2>6. desk'[a] = desk[a] \/ (Approve(a) /\ desk'[a].refund = desk[a].refund)
    BY <2>1, <2>2, <2>3, <2>4, <2>5 DEF Next
  <2> QED BY <1>3, <2>1, <2>6
<1>4. ASSUME NEW a \in Admins, NEW r \in Refunds, refund'[r] \in {"absent", "requested"}
      PROVE  job'[<<a, r>>].pc = "none"
  <2>1. refund[r] \in {"absent", "requested"} /\ <<a, r>> \in Jobs
    BY <1>1, <1>4 DEF Jobs
  <2>2. job[<<a, r>>].pc = "none"
    BY <2>1 DEF DispatchedOnce
  <2>3. ~\E b \in Admins : DispatchRefund(b) /\ desk[b].refund = r
    BY <2>1 DEF DispatchRefund, DispatchedOnce
  <2> QED BY <1>2, <2>1, <2>2, <2>3
<1>5. ASSUME NEW a \in Admins, Approve(a)
      PROVE  /\ desk[a].refund \in Refunds /\ refund[desk[a].refund] = "requested"
             /\ refund'[desk[a].refund] = "approved" /\ UNCHANGED job
  BY <1>5 DEF Approve, Decided, OpenIsUndecided, Typed
<1>6. ASSUME NEW a \in Admins, desk'[a].pc = "dispatching"
      PROVE  /\ desk'[a].refund \in Refunds /\ refund'[desk'[a].refund] \notin {"absent", "requested"}
             /\ \A b \in Admins : job'[<<b, desk'[a].refund>>].pc = "none"
  <2> DEFINE r == desk[a].refund
  <2>1. CASE Approve(a)
    <3>1. \A b \in Admins : job[<<b, r>>].pc = "none"
      BY <1>5, <2>1 DEF DispatchedOnce
    <3> QED BY <1>3, <1>5, <1>6, <2>1, <3>1
  <2>2. CASE desk[a].pc = "dispatching" /\ ~DispatchRefund(a)
    <3>1. /\ r \in Refunds /\ refund[r] \notin {"absent", "requested"}
          /\ \A b \in Admins : job[<<b, r>>].pc = "none"
      BY <2>2 DEF DispatchedOnce
    <3>2. refund'[r] \notin {"absent", "requested"}
      BY <1>1, <3>1
    <3>3. ASSUME NEW b \in Admins, job'[<<b, r>>].pc # "none" PROVE FALSE
      <4>1. <<b, r>> \in Jobs
        BY <3>1 DEF Jobs
      <4>2. PICK c \in Admins : DispatchRefund(c) /\ <<b, r>> = <<c, desk[c].refund>>
        BY <1>2, <3>1, <3>3, <4>1
      <4>3. desk[c].pc = "dispatching" /\ desk[c].refund = r
        BY <4>2 DEF DispatchRefund
      <4>4. c = a
        BY <2>2, <4>3 DEF DispatchedOnce
      <4> QED BY <2>2, <4>2, <4>4
    <3> QED BY <1>3, <1>6, <3>1, <3>2, <3>3
  <2> QED BY <1>3, <1>6, <2>1, <2>2
<1>7. ASSUME NEW a \in Admins, NEW b \in Admins,
             desk'[a].pc = "dispatching", desk'[b].pc = "dispatching",
             desk'[a].refund = desk'[b].refund
      PROVE  a = b
  <2>1. desk[a].refund = desk[b].refund
    BY <1>3, <1>7
  <2>2. ASSUME NEW c \in Admins, NEW d \in Admins, Approve(c), desk[d].pc = "dispatching",
               desk[c].refund = desk[d].refund
        PROVE  FALSE
    BY <1>5, <2>2 DEF DispatchedOnce
  <2>3. CASE Approve(a) /\ Approve(b)
    BY <1>7, <2>3 DEF Approve, Typed, DeskRecords
  <2>4. CASE desk[a].pc = "dispatching" /\ desk[b].pc = "dispatching"
    BY <2>1, <2>4 DEF DispatchedOnce
  <2> QED BY <1>3, <1>7, <2>1, <2>2, <2>3, <2>4
<1>8. ASSUME NEW a \in Admins, NEW b \in Admins, NEW r \in Refunds,
             job'[<<a, r>>].pc # "none", job'[<<b, r>>].pc # "none"
      PROVE  a = b
  <2>0. <<a, r>> \in Jobs /\ <<b, r>> \in Jobs
    BY DEF Jobs
  <2>1. ASSUME NEW c \in Admins, NEW d \in Admins, DispatchRefund(c), desk[c].refund = r,
               job'[<<d, r>>].pc # "none"
        PROVE  c = d
    <3>1. job[<<d, r>>].pc = "none"
      BY <2>1 DEF DispatchRefund, DispatchedOnce
    <3>2. PICK e \in Admins : DispatchRefund(e) /\ <<d, r>> = <<e, desk[e].refund>>
      BY <1>2, <2>1, <3>1 DEF Jobs
    <3>3. /\ desk[d].pc = "dispatching" /\ desk[d].refund = r
          /\ desk[c].pc = "dispatching"
      BY <2>1, <3>2 DEF DispatchRefund
    <3> QED BY <2>1, <3>3 DEF DispatchedOnce
  <2>2. job[<<a, r>>].pc # "none" \/ (DispatchRefund(a) /\ desk[a].refund = r)
    BY <1>2, <1>8, <2>0
  <2>3. job[<<b, r>>].pc # "none" \/ (DispatchRefund(b) /\ desk[b].refund = r)
    BY <1>2, <1>8, <2>0
  <2> QED BY <1>8, <2>1, <2>2, <2>3 DEF DispatchedOnce
<1> QED BY <1>4, <1>6, <1>7, <1>8 DEF DispatchedOnce

\* While one decides at a time, every step keeps what decisions rest on.
LEMMA DecidedKept ==
  ASSUME OneDecides, DispatchedOnce, Typed, Decided, [Next]_vars PROVE Decided'
<1>1. ASSUME NEW a \in Admins, desk'[a].pc \in {"approving", "rejecting"}
      PROVE  desk'[a].refund \in Refunds /\ refund'[desk'[a].refund] = "requested"
  <2>1. CASE desk'[a] = desk[a] /\ ~Approve(a) /\ ~Reject(a)
    <3> DEFINE r == desk[a].refund
    <3>1. r \in Refunds /\ refund[r] = "requested" /\ Deciding(a, r)
      BY <1>1, <2>1 DEF Decided, OpenIsUndecided, Deciding
    <3>2. ASSUME NEW b \in Admins, Approve(b) \/ Reject(b), desk[b].refund = r
          PROVE  FALSE
      <4>1. Deciding(b, r)
        BY <3>2 DEF Approve, Reject, Deciding
      <4> QED BY <2>1, <3>1, <3>2, <4>1 DEF OneDecides
    <3>3. refund'[r] = refund[r]
      BY <3>1, <3>2, RefundWriters
    <3> QED BY <2>1, <3>1, <3>3
  <2> QED BY <1>1, <2>1, Opening
<1>2. ASSUME NEW j \in Jobs, job'[j].pc \in {"asking", "recording"}
      PROVE  refund'[j[2]] = "approved"
  <2> DEFINE r == j[2]
  <2>1. PICK a \in Admins : r \in Refunds /\ j = <<a, r>>
    BY DEF Jobs
  <2>2. refund[r] = "approved"
    BY <1>2, Settling DEF Decided, UnsettledIsApproved
  <2>3. ASSUME NEW b \in Admins, job[<<b, r>>].pc \in {"asking", "recording"},
               job'[<<b, r>>].pc \in {"revoking", "done"},
               \A k \in Jobs : k # <<b, r>> => job'[k] = job[k]
        PROVE  FALSE
    <3>1. j # <<b, r>> /\ job[j].pc # "none"
      BY <1>2, <2>3
    <3>2. b = a
      BY <2>1, <2>3, <3>1 DEF DispatchedOnce
    <3> QED BY <2>1, <3>1, <3>2
  <2>4. refund'[r] = refund[r]
    BY <2>1, <2>2, <2>3, RefundWriters
  <2> QED BY <2>2, <2>4
<1> QED BY <1>1, <1>2 DEF Decided, OpenIsUndecided, UnsettledIsApproved

Deliberate == Typed /\ Decided /\ DispatchedOnce

LEMMA DeliberateKept == ASSUME OneDecides, Deliberate, [Next]_vars PROVE Deliberate'
BY NextTyped, DecidedKept, DispatchedKept DEF Deliberate

\* In the beginning there is nothing to decide.
LEMMA DeliberateStarts == ASSUME Init PROVE Deliberate
<1>1. Decided /\ DispatchedOnce
  BY DEF Init, Decided, OpenIsUndecided, UnsettledIsApproved, DispatchedOnce, Away, NoJob, Jobs
<1> QED BY <1>1, InitTyped DEF Deliberate

(***************************************************************************)
(* While no two requests decide on one refund at once, the inductive       *)
(* invariant holds in every reachable state, whatever jobs, crashes,       *)
(* time-outs and retries do, for any number of administrators and workers. *)
(***************************************************************************)
THEOREM Invariance == Spec /\ []OneDecides => []IInv
<1>1. Deliberate => IInv
  BY Unfolded DEF Deliberate, Decided, IInv
<1> QED BY <1>1, DeliberateStarts, DeliberateKept, PTL DEF Spec

-----------------------------------------------------------------------------
(* What becomes of an approval, for any number of administrators.          *)

Carriers == {"queued", "asking", "recording", "dead"}

\* A request is about to dispatch the job of r, or its job is not over yet or
\* lies in failed_jobs where an operator finds it.
Carries(a, r) ==
  \/ desk[a].pc = "dispatching" /\ desk[a].refund = r
  \/ job[<<a, r>>].pc \in Carriers

\* Approved, and nothing will ever work on it.
Forgotten(r) == refund[r] = "approved" /\ \A a \in Admins : ~Carries(a, r)

\* A refund becomes approved only by the request that will dispatch its job.
LEMMA Approving ==
  ASSUME Typed, [Next]_vars, NEW r \in Refunds,
         refund[r] # "approved", refund'[r] = "approved"
  PROVE  \E a \in Admins : Carries(a, r)'
<1>1. ASSUME NEW a \in Admins, Approve(a) PROVE Carries(a, r)'
  <2>1. desk[a].refund = r
    BY <1>1 DEF Approve, Typed
  <2> QED BY <1>1, <2>1 DEF Approve, Carries, Typed, DeskRecords
<1>2. ASSUME NEW a \in Admins, Desk(a) \/ CrashRequest(a), ~Approve(a) PROVE FALSE
  BY <1>2 DEF Desk, Open, DispatchRefund, Reject, Release, CrashRequest, refundVars, Typed
<1>3. ASSUME NEW j \in Jobs,
             \/ Process(j) \/ CrashRefund(j)
             \/ \E acted \in BOOLEAN : GatewayTimesOut(j, acted)
      PROVE  FALSE
  BY <1>3 DEF Process, StartRefund, GatewayAccepts, GatewayRefuses, Record, Revoke,
              CrashRefund, GatewayTimesOut, refundVars, Typed
<1>4. ASSUME \/ \E q \in Refunds, m \in 1..Total, rv \in RevokeChoices : Store(q, m, rv)
             \/ \E to \in AdminTargets : AdminTransition(to)
             \/ Refulfill \/ Fulfil \/ UNCHANGED vars
      PROVE  FALSE
  BY <1>4 DEF Store, AdminTransition, Refulfill, Fulfil, FulfillRead, FulfillGrant,
              FulfillMove, refundVars, vars, Typed
<1> QED BY <1>1, <1>2, <1>3, <1>4 DEF Next

\* The job of a refund that stays approved is not over.
LEMMA JobGoesOn ==
  ASSUME Typed, [Next]_vars, NEW j \in Jobs, job[j].pc \in Carriers,
         refund[j[2]] = "approved", refund'[j[2]] = "approved"
  PROVE  job'[j].pc \in Carriers
<1> USE DEF Typed, JobsTyped, Carriers
<1>0. j[2] \in Refunds
  BY DEF Jobs
<1>1. ASSUME NEW k \in Jobs, NEW pc, job' = [job EXCEPT ![k].pc = pc],
             k = j => pc \in Carriers
      PROVE  job'[j].pc \in Carriers
  BY <1>1
<1>2. ASSUME NEW k \in Jobs, StartRefund(k) PROVE job'[j].pc \in Carriers
  BY <1>2 DEF StartRefund, Due
<1>3. ASSUME NEW k \in Jobs, GatewayRefuses(k) PROVE k # j
  BY <1>0, <1>3 DEF GatewayRefuses
<1>4. ASSUME NEW k \in Jobs, Revoke(k) PROVE k # j
  BY <1>4 DEF Revoke
<1>5. ASSUME NEW k \in Jobs, Record(k) PROVE k # j \/ Retry(k)
  <2>1. CASE Moves(StatusAfter(refunded + amount[k[2]]))
    <3>1. refund' = [refund EXCEPT ![k[2]] = "processed"]
      BY <1>5, <2>1 DEF Record
    <3> QED BY <1>0, <3>1
  <2>2. CASE ~Moves(StatusAfter(refunded + amount[k[2]]))
    BY <1>5, <2>2 DEF Record
  <2> QED BY <2>1, <2>2
<1>6. ASSUME NEW k \in Jobs,
             \/ GatewayAccepts(k) \/ GatewayRefuses(k) \/ Record(k) \/ Revoke(k)
             \/ CrashRefund(k) \/ \E acted \in BOOLEAN : GatewayTimesOut(k, acted)
      PROVE  job'[j].pc \in Carriers
  <2>1. Retry(k) => Goto(k, "queued") \/ Goto(k, "dead")
    BY DEF Retry, Goto
  <2>2. GatewayAccepts(k) => Goto(k, "recording")
    BY DEF GatewayAccepts
  <2>3. ~GatewayAccepts(k) => Goto(k, "revoking") \/ Goto(k, "done") \/ Retry(k)
    BY <1>6 DEF GatewayRefuses, Record, Revoke, CrashRefund, GatewayTimesOut
  <2>4. CrashRefund(k) \/ (\E acted \in BOOLEAN : GatewayTimesOut(k, acted)) => Retry(k)
    BY DEF CrashRefund, GatewayTimesOut
  <2>5. k = j => Goto(k, "recording") \/ Goto(k, "queued") \/ Goto(k, "dead")
    BY <1>3, <1>4, <1>5, <1>6, <2>1, <2>2, <2>4
  <2>6. CASE k = j
    BY <1>1, <2>5, <2>6 DEF Goto
  <2>7. CASE k # j
    BY <1>1, <2>1, <2>2, <2>3, <2>7 DEF Goto
  <2> QED BY <2>6, <2>7
<1>7. ASSUME NEW a \in Admins, DispatchRefund(a) PROVE job'[j].pc \in Carriers
  BY <1>7 DEF DispatchRefund, NoJob
<1>8. ASSUME NEW a \in Admins, Desk(a) \/ CrashRequest(a), ~DispatchRefund(a)
      PROVE  UNCHANGED job
  BY <1>8 DEF Desk, Open, Approve, Reject, Release, CrashRequest
<1>9. ASSUME \/ \E r \in Refunds, m \in 1..Total, rv \in RevokeChoices : Store(r, m, rv)
             \/ \E to \in AdminTargets : AdminTransition(to)
             \/ Refulfill \/ Fulfil \/ UNCHANGED vars
      PROVE  UNCHANGED job
  BY <1>9 DEF Store, AdminTransition, Refulfill, Fulfil, FulfillRead, FulfillGrant,
              FulfillMove, vars
<1> QED BY <1>2, <1>6, <1>7, <1>8, <1>9 DEF Next, Process

\* A request that will dispatch a job does so, unless it dies.
LEMMA Dispatching ==
  ASSUME Typed, [Next]_vars, NEW a \in Admins, NEW r \in Refunds,
         desk[a].pc = "dispatching", desk[a].refund = r, ~CrashRequest(a)
  PROVE  Carries(a, r)'
<1>1. ASSUME NEW b \in Admins, b # a, Desk(b) \/ CrashRequest(b) PROVE desk'[a] = desk[a]
  BY <1>1 DEF Desk, Open, Approve, Reject, DispatchRefund, Release, CrashRequest, Typed
<1>2. CASE Desk(a)
  <2>1. DispatchRefund(a)
    BY <1>2 DEF Desk, Open, Away, Approve, Reject, Release
  <2>2. <<a, r>> \in Jobs
    BY DEF Jobs
  <2> QED BY <2>1, <2>2 DEF DispatchRefund, NoJob, Carries, Carriers, Typed, JobsTyped
<1>3. ASSUME NEW j \in Jobs,
             \/ Process(j) \/ CrashRefund(j)
             \/ \E acted \in BOOLEAN : GatewayTimesOut(j, acted)
      PROVE  UNCHANGED desk
  BY <1>3 DEF Process, StartRefund, GatewayAccepts, GatewayRefuses, Record, Revoke,
              CrashRefund, GatewayTimesOut
<1>4. ASSUME \/ \E q \in Refunds, m \in 1..Total, rv \in RevokeChoices : Store(q, m, rv)
             \/ \E to \in AdminTargets : AdminTransition(to)
             \/ Refulfill \/ Fulfil \/ UNCHANGED vars
      PROVE  UNCHANGED desk
  BY <1>4 DEF Store, AdminTransition, Refulfill, Fulfil, FulfillRead, FulfillGrant,
              FulfillMove, vars
<1>5. desk'[a] = desk[a] \/ Carries(a, r)'
  BY <1>1, <1>2, <1>3, <1>4 DEF Next
<1> QED BY <1>5 DEF Carries

\* Failures are counted one by one.
LEMMA FailuresGrow ==
  ASSUME [Next]_vars PROVE failures' \in {failures, failures + 1}
<1>1. ASSUME NEW a \in Admins, Desk(a) \/ CrashRequest(a)
      PROVE  failures' \in {failures, failures + 1}
  BY <1>1 DEF Desk, Open, Approve, Reject, DispatchRefund, Release, CrashRequest
<1>2. ASSUME NEW j \in Jobs,
             \/ Process(j) \/ CrashRefund(j)
             \/ \E acted \in BOOLEAN : GatewayTimesOut(j, acted)
      PROVE  failures' \in {failures, failures + 1}
  BY <1>2 DEF Process, StartRefund, GatewayAccepts, GatewayRefuses, Record, Revoke,
              CrashRefund, GatewayTimesOut
<1>3. ASSUME \/ \E r \in Refunds, m \in 1..Total, rv \in RevokeChoices : Store(r, m, rv)
             \/ \E to \in AdminTargets : AdminTransition(to)
             \/ Refulfill \/ Fulfil \/ UNCHANGED vars
      PROVE  UNCHANGED failures
  BY <1>3 DEF Store, AdminTransition, Refulfill, Fulfil, FulfillRead, FulfillGrant,
              FulfillMove, vars
<1> QED BY <1>1, <1>2, <1>3 DEF Next

\* A step by which an approval is forgotten is the death of its request.
LEMMA ForgottenByDeath ==
  ASSUME Typed, [Next]_vars, NEW r \in Refunds, ~Forgotten(r), Forgotten(r)'
  PROVE  \E a \in Admins :
           /\ desk[a].pc = "dispatching" /\ desk[a].refund = r
           /\ CrashRequest(a)
<1>1. refund[r] = "approved" /\ refund'[r] = "approved"
  BY Approving DEF Forgotten
<1>2. PICK a \in Admins : Carries(a, r)
  BY <1>1 DEF Forgotten
<1>3. job[<<a, r>>].pc \notin Carriers
  <2>1. <<a, r>> \in Jobs /\ <<a, r>>[2] = r
    BY DEF Jobs
  <2> QED BY <1>1, <2>1, JobGoesOn DEF Forgotten, Carries
<1> QED BY <1>2, <1>3, Dispatching DEF Carries, Forgotten

(***************************************************************************)
(* An approval is not forgotten: a refund that is approved has a request   *)
(* about to dispatch its job, or a job that is queued, running or in       *)
(* failed_jobs, until it is decided; the one step that leaves it without   *)
(* is the death of its request between ::approve's write and the dispatch, *)
(* whatever other requests, jobs, time-outs and retries do.                *)
(***************************************************************************)
THEOREM ApprovalsAreCarried ==
  Spec => /\ [][\A r \in Refunds :
                  ~Forgotten(r) /\ Forgotten(r)' =>
                    \E a \in Admins :
                      /\ desk[a].pc = "dispatching" /\ desk[a].refund = r
                      /\ CrashRequest(a)]_vars
          /\ [](failures = 0 => \A r \in Refunds : ~Forgotten(r))
<1> DEFINE Remembered == failures = 0 => \A r \in Refunds : ~Forgotten(r)
           Dies == \A r \in Refunds :
                     ~Forgotten(r) /\ Forgotten(r)' =>
                       \E a \in Admins :
                         /\ desk[a].pc = "dispatching" /\ desk[a].refund = r
                         /\ CrashRequest(a)
<1>1. Init => Typed /\ Remembered
  <2>1. Init => \A r \in Refunds : ~Forgotten(r)
    BY DEF Init, Forgotten
  <2> QED BY <2>1, InitTyped
<1>2. Typed /\ [Next]_vars => Typed' /\ [Dies]_vars
  BY NextTyped, ForgottenByDeath
<1>3. Typed /\ Remembered /\ [Next]_vars => Remembered'
  <2> SUFFICES ASSUME Typed, Remembered, [Next]_vars, failures' = 0,
                      NEW r \in Refunds, Forgotten(r)'
               PROVE  FALSE
    OBVIOUS
  <2>1. failures \in Nat /\ failures' \in Nat /\ failures' >= failures
    <3>1. failures \in 0..MaxFailures /\ failures' \in {failures, failures + 1}
      BY FailuresGrow DEF Typed
    <3> QED BY <3>1, RefundsAssumption
  <2>2. ~Forgotten(r)
    BY <2>1
  <2>3. PICK a \in Admins : CrashRequest(a)
    BY <2>2, ForgottenByDeath
  <2> QED BY <2>1, <2>3 DEF CrashRequest
<1> HIDE DEF Remembered, Dies
<1>4. Spec => [][Dies]_vars /\ []Remembered
  BY <1>1, <1>2, <1>3, PTL DEF Spec
<1> QED BY <1>4 DEF Remembered, Dies

-----------------------------------------------------------------------------
(* The order lifecycle.                                                    *)

\* The abstract specification speaks of the same state machine.
LEMMA SameMachine ==
  /\ Lifecycle!OrderStatus = OrderStatus /\ Lifecycle!PaidSide = PaidSide
  /\ \A s, t : Lifecycle!Allows(s, t) <=> Allows(s, t)
BY DEF Lifecycle!OrderStatus, OrderStatus, Lifecycle!PaidSide, PaidSide,
   Lifecycle!Allows, Allows, Lifecycle!NextStatuses, NextStatuses

\* A step leaves the order alone or moves it as the state machine allows.
LEMMA OrderSteps ==
  ASSUME [Next]_vars
  PROVE  \/ UNCHANGED orderVars
         \/ \E to \in OrderStatus : Moves(to) /\ Move(to)
<1>1. ASSUME NEW r \in Refunds, NEW a \in 1..Total, NEW rv \in RevokeChoices,
             Store(r, a, rv), ~UNCHANGED orderVars
      PROVE  Moves("refund_pending") /\ Move("refund_pending")
  BY <1>1 DEF Store, Moves
<1>2. ASSUME NEW a \in Admins, Release(a), ~UNCHANGED orderVars
      PROVE  \/ Moves("paid") /\ Move("paid")
             \/ Moves("fulfilled") /\ Move("fulfilled")
  BY <1>2 DEF Release
<1>3. ASSUME NEW a \in Admins, Desk(a) \/ CrashRequest(a), ~Release(a)
      PROVE  UNCHANGED orderVars
  BY <1>3 DEF Desk, Open, Approve, DispatchRefund, Reject, CrashRequest
<1>4. ASSUME NEW j \in Jobs, Record(j), ~UNCHANGED orderVars
      PROVE  \/ Moves("refunded") /\ Move("refunded")
             \/ Moves("partially_refunded") /\ Move("partially_refunded")
  BY <1>4 DEF Record, StatusAfter
<1>5. ASSUME NEW j \in Jobs,
             \/ Process(j) \/ CrashRefund(j)
             \/ \E acted \in BOOLEAN : GatewayTimesOut(j, acted),
             ~Record(j)
      PROVE  UNCHANGED orderVars
  BY <1>5 DEF Process, StartRefund, GatewayAccepts, GatewayRefuses, Revoke,
              CrashRefund, GatewayTimesOut
<1>6. ASSUME NEW to \in AdminTargets, AdminTransition(to)
      PROVE  to \in OrderStatus /\ Moves(to) /\ Move(to)
  BY <1>6, AllowedIsStatus DEF AdminTransition, Moves
<1>7. ASSUME Refulfill \/ Fulfil, ~UNCHANGED orderVars
      PROVE  Moves("fulfilled") /\ Move("fulfilled")
  BY <1>7 DEF Refulfill, Fulfil, FulfillRead, FulfillGrant, FulfillMove
<1>8. CASE UNCHANGED vars
  BY <1>8 DEF vars, orderVars
<1> QED BY <1>1, <1>2, <1>3, <1>4, <1>5, <1>6, <1>7, <1>8
        DEF Next, Desk, Process, OrderStatus

(***************************************************************************)
(* The refund side implements the order lifecycle: whatever administrators *)
(* and jobs do, each step is one transition the state machine allows, or   *)
(* leaves the order where it is.                                           *)
(***************************************************************************)
THEOREM Refinement == Spec => ImplementsLifecycle
<1>1. Init => Lifecycle!Init
  BY SameMachine DEF Init, Lifecycle!Init, OrderStatus, PaidSide
<1>2. [Next]_vars => [Lifecycle!Next]_(Lifecycle!vars)
  <2> SUFFICES ASSUME [Next]_vars PROVE [Lifecycle!Next]_(Lifecycle!vars)
    OBVIOUS
  <2>1. CASE UNCHANGED orderVars
    BY <2>1 DEF orderVars, Lifecycle!vars
  <2>2. ASSUME NEW to \in OrderStatus, status = to, Move(to)
        PROVE  UNCHANGED Lifecycle!vars
    BY <2>2 DEF Move, Lifecycle!vars
  <2>3. ASSUME NEW to \in OrderStatus, Allows(status, to), Move(to)
        PROVE  Lifecycle!Next
    <3>1. Lifecycle!Transition("order", to)
      BY <2>3, SameMachine DEF Move, Lifecycle!Transition
    <3> QED BY <3>1, SameMachine DEF Lifecycle!Next
  <2> QED BY <2>1, <2>2, <2>3, OrderSteps DEF Moves
<1> QED BY <1>1, <1>2, PTL DEF Spec, ImplementsLifecycle, Lifecycle!Spec

-----------------------------------------------------------------------------
(* The books, while no two requests decide on one refund at once.          *)

\* The units of f over a set of things, those of S.
Parts(D, f, S) == {u \in D \X (1..Total) : u[1] \in S /\ u[2] <= f[u[1]]}

LEMMA FirstNumbers ==
  ASSUME NEW n \in Nat PROVE IsFiniteSet(1..n) /\ Cardinality(1..n) = n
<1>1. IsFiniteSet(1..n) /\ Cardinality(1..n) = IF 1 > n THEN 0 ELSE n - 1 + 1
  BY FS_Interval
<1> QED BY <1>1

\* Sums are numbers, and adding a thing adds what it is worth.
LEMMA PartsSplit ==
  ASSUME NEW D, IsFiniteSet(D), NEW f \in [D -> 0..Total], NEW S, NEW d \in D, d \notin S
  PROVE  /\ Cardinality(Parts(D, f, S)) \in Nat
         /\ Cardinality(Parts(D, f, S \union {d})) = Cardinality(Parts(D, f, S)) + f[d]
<1> USE RefundsAssumption
<1> DEFINE U == Parts(D, f, S)
           V == {d} \X (1..f[d])
<1>0. f[d] \in 0..Total /\ f[d] \in Nat
  OBVIOUS
<1>1. IsFiniteSet(U) /\ Cardinality(U) \in Nat
  <2>1. IsFiniteSet(1..Total)
    BY FS_Interval
  <2>2. IsFiniteSet(D \X (1..Total))
    BY <2>1, FS_Product
  <2>3. U \in SUBSET (D \X (1..Total))
    BY DEF Parts
  <2> QED BY <2>2, <2>3, FS_Subset, FS_CardinalityType
<1>2. IsFiniteSet(V) /\ Cardinality(V) = f[d]
  <2> DEFINE n == f[d]
  <2>0. n \in Nat
    BY <1>0
  <2>1. IsFiniteSet(1..n) /\ Cardinality(1..n) = n
    <3> HIDE DEF n
    <3> QED BY <2>0, FirstNumbers
  <2>2. IsFiniteSet({d}) /\ Cardinality({d}) = 1
    BY FS_Singleton
  <2>3. IsFiniteSet(V) /\ Cardinality(V) = Cardinality({d}) * Cardinality(1..n)
    BY <2>1, <2>2, FS_Product
  <2>4. Cardinality(V) = 1 * n
    BY <2>1, <2>2, <2>3
  <2>5. 1 * n = n
    BY <2>0
  <2> QED BY <2>3, <2>4, <2>5
<1>3. Parts(D, f, S \union {d}) = U \union V
  BY <1>0 DEF Parts
<1>4. U \cap V = {}
  BY DEF Parts
<1> HIDE DEF U, V
<1>5. Cardinality(U \union V) = Cardinality(U) + Cardinality(V) - Cardinality(U \cap V)
  BY <1>1, <1>2, FS_Union
<1>6. Cardinality(U \cap V) = 0
  BY <1>4, FS_EmptySet
<1>7. Cardinality(U \union V) = Cardinality(U) + f[d]
  BY <1>0, <1>1, <1>2, <1>5, <1>6
<1> QED BY <1>1, <1>3, <1>7 DEF U

\* Fewer things do not add up to more.
LEMMA PartsMonotone ==
  ASSUME NEW D, IsFiniteSet(D), NEW f \in [D -> 0..Total], NEW S, NEW T, T \subseteq S
  PROVE  /\ Cardinality(Parts(D, f, S)) \in Nat /\ Cardinality(Parts(D, f, T)) \in Nat
         /\ Cardinality(Parts(D, f, T)) <= Cardinality(Parts(D, f, S))
<1>1. IsFiniteSet(1..Total)
  BY RefundsAssumption, FS_Interval
<1>2. IsFiniteSet(D \X (1..Total))
  BY <1>1, FS_Product
<1>3. Parts(D, f, S) \in SUBSET (D \X (1..Total))
  BY DEF Parts
<1>4. IsFiniteSet(Parts(D, f, S))
  BY <1>2, <1>3, FS_Subset
<1>5. Parts(D, f, T) \in SUBSET Parts(D, f, S)
  BY DEF Parts
<1> QED BY <1>4, <1>5, FS_Subset, FS_CardinalityType

UnitsIn(amt, S) == Parts(Refunds, amt, S)

Amounts == [Refunds -> 0..Total]

LEMMA SumSplit ==
  ASSUME NEW amt \in Amounts, NEW S, NEW r \in Refunds, r \notin S
  PROVE  /\ Cardinality(UnitsIn(amt, S)) \in Nat
         /\ Cardinality(UnitsIn(amt, S \union {r})) = Cardinality(UnitsIn(amt, S)) + amt[r]
BY RefundsAssumption, PartsSplit DEF UnitsIn, Amounts

LEMMA SumMonotone ==
  ASSUME NEW amt \in Amounts, NEW S, NEW T, T \subseteq S
  PROVE  /\ Cardinality(UnitsIn(amt, S)) \in Nat /\ Cardinality(UnitsIn(amt, T)) \in Nat
         /\ Cardinality(UnitsIn(amt, T)) <= Cardinality(UnitsIn(amt, S))
BY RefundsAssumption, PartsMonotone DEF UnitsIn, Amounts

\* The amount of a refund that does not belong to S plays no part in its sum.
LEMMA SumSame ==
  ASSUME NEW amt \in Amounts, NEW bmt \in Amounts, NEW S,
         \A r \in Refunds \cap S : amt[r] = bmt[r]
  PROVE  UnitsIn(amt, S) = UnitsIn(bmt, S)
BY DEF UnitsIn, Parts

Processed == {r \in Refunds : refund[r] = "processed"}

AmountsArePositive == \A r \in Refunds : refund[r] # "absent" => amount[r] > 0

Books == RefundsWithinTotal /\ RefundedIsSum /\ AmountsArePositive

\* The transaction of ProcessRefund that went through.
Recorded(j) ==
  /\ Record(j) /\ j[2] \in Refunds
  /\ refund' = [refund EXCEPT ![j[2]] = "processed"]
  /\ refunded' = refunded + amount[j[2]]
  /\ status' = StatusAfter(refunded + amount[j[2]])
  /\ Goto(j, IF revoke[j[2]] THEN "revoking" ELSE "done")
  /\ UNCHANGED <<amount, revoke>>

\* Every other step but a request leaves the processed refunds and adds none.
LEMMA BookSteps ==
  ASSUME Typed, Decided, [Next]_vars
  PROVE  \/ \E r \in Refunds, m \in 1..Total, rv \in RevokeChoices : Store(r, m, rv)
         \/ \E j \in Jobs : Recorded(j) /\ refund[j[2]] = "approved"
         \/ /\ UNCHANGED <<refunded, amount>>
            /\ Outstanding' \subseteq Outstanding /\ Processed' = Processed
            /\ \A r \in Refunds : refund[r] = "absent" => refund'[r] = "absent"
<1> DEFINE Quiet == /\ UNCHANGED <<refunded, amount>>
                    /\ Outstanding' \subseteq Outstanding /\ Processed' = Processed
                    /\ \A r \in Refunds : refund[r] = "absent" => refund'[r] = "absent"
<1>0. ASSUME UNCHANGED <<refunded, amount, refund>> PROVE Quiet
  BY <1>0 DEF Outstanding, Processed
<1>1. ASSUME NEW r \in Refunds, NEW to \in {"approved", "rejected"},
             refund[r] \in {"requested", "approved"},
             refund' = [refund EXCEPT ![r] = to], UNCHANGED <<refunded, amount>>
      PROVE  Quiet
  BY <1>1 DEF Outstanding, Processed, Typed
<1>2. ASSUME NEW a \in Admins, Approve(a) \/ Reject(a) PROVE Quiet
  <2>1. desk[a].refund \in Refunds /\ refund[desk[a].refund] = "requested"
    BY <1>2 DEF Approve, Reject, Decided, OpenIsUndecided
  <2> QED BY <1>1, <1>2, <2>1 DEF Approve, Reject
<1>3. ASSUME NEW j \in Jobs, GatewayRefuses(j) PROVE Quiet
  <2>1. j[2] \in Refunds /\ refund[j[2]] = "approved"
    BY <1>3 DEF GatewayRefuses, Decided, UnsettledIsApproved, Jobs
  <2> QED BY <1>1, <1>3, <2>1 DEF GatewayRefuses
<1>4. ASSUME NEW j \in Jobs, Record(j) PROVE (Recorded(j) /\ refund[j[2]] = "approved") \/ Quiet
  <2>1. j[2] \in Refunds /\ refund[j[2]] = "approved"
    BY <1>4 DEF Record, Decided, UnsettledIsApproved, Jobs
  <2>2. CASE Moves(StatusAfter(refunded + amount[j[2]]))
    BY <1>4, <2>1, <2>2 DEF Record, Recorded, Move
  <2>3. CASE ~Moves(StatusAfter(refunded + amount[j[2]]))
    <3>1. UNCHANGED <<refunded, amount, refund>>
      BY <1>4, <2>3 DEF Record
    <3> QED BY <1>0, <3>1
  <2> QED BY <2>2, <2>3
<1>5. ASSUME NEW a \in Admins, Desk(a) \/ CrashRequest(a), ~Approve(a), ~Reject(a)
      PROVE  UNCHANGED <<refunded, amount, refund>>
  BY <1>5 DEF Desk, Open, DispatchRefund, Release, CrashRequest, refundVars
<1>6. ASSUME NEW j \in Jobs,
             \/ Process(j) \/ CrashRefund(j)
             \/ \E acted \in BOOLEAN : GatewayTimesOut(j, acted),
             ~GatewayRefuses(j), ~Record(j)
      PROVE  UNCHANGED <<refunded, amount, refund>>
  BY <1>6 DEF Process, StartRefund, GatewayAccepts, Revoke, CrashRefund,
              GatewayTimesOut, refundVars
<1>7. ASSUME \/ \E to \in AdminTargets : AdminTransition(to)
             \/ Refulfill \/ Fulfil \/ UNCHANGED vars
      PROVE  UNCHANGED <<refunded, amount, refund>>
  BY <1>7 DEF AdminTransition, Refulfill, Fulfil, FulfillRead, FulfillGrant,
              FulfillMove, refundVars, vars
<1> HIDE DEF Quiet
<1>8. \/ \E r \in Refunds, m \in 1..Total, rv \in RevokeChoices : Store(r, m, rv)
      \/ \E j \in Jobs : Recorded(j) /\ refund[j[2]] = "approved"
      \/ Quiet
  BY <1>0, <1>2, <1>3, <1>4, <1>5, <1>6, <1>7 DEF Next
<1> QED BY <1>8 DEF Quiet

\* A refund on its way back fits into what is left of the total.
LEMMA OnItsWay ==
  ASSUME Typed, Books, NEW r \in Refunds, refund[r] = "approved"
  PROVE  /\ amount[r] \in 1..Total /\ refunded + amount[r] <= Total
         /\ refunded + amount[r] + Cardinality(UnitsIn(amount, Outstanding \ {r})) <= Total
         /\ Cardinality(UnitsIn(amount, Outstanding \ {r})) \in Nat
<1>1. amount \in Amounts /\ refunded \in Nat /\ Total \in Nat
  BY RefundsAssumption DEF Typed, Amounts
<1>2. (Outstanding \ {r}) \union {r} = Outstanding
  BY DEF Outstanding
<1>3. /\ Cardinality(UnitsIn(amount, Outstanding \ {r})) \in Nat
      /\ Cardinality(UnitsIn(amount, Outstanding))
           = Cardinality(UnitsIn(amount, Outstanding \ {r})) + amount[r]
  <2>1. r \notin Outstanding \ {r}
    OBVIOUS
  <2> QED BY <1>1, <1>2, <2>1, SumSplit
<1>4. refunded + Cardinality(UnitsIn(amount, Outstanding)) <= Total
  BY DEF Books, RefundsWithinTotal, SumOver, Units, UnitsIn, Parts
<1>5. amount[r] \in 0..Total /\ amount[r] > 0
  BY <1>1 DEF Amounts, Books, AmountsArePositive
<1> QED BY <1>1, <1>3, <1>4, <1>5

\* Every step keeps the books.
LEMMA BooksKept ==
  ASSUME Typed, Decided, Books, [Next]_vars, Typed' PROVE Books'
<1> USE RefundsAssumption
<1>0. /\ amount \in Amounts /\ amount' \in Amounts
      /\ refunded \in Nat /\ refunded' \in Nat /\ Total \in Nat
  BY DEF Typed, Amounts
<1>1. /\ SumOver(Outstanding) = Cardinality(UnitsIn(amount, Outstanding))
      /\ SumOver(Outstanding)' = Cardinality(UnitsIn(amount', Outstanding'))
      /\ refunded = Cardinality(UnitsIn(amount, Processed))
      /\ RefundedIsSum' <=> refunded' = Cardinality(UnitsIn(amount', Processed'))
  BY DEF SumOver, Units, UnitsIn, Parts, Processed, Books, RefundedIsSum
<1>2. refunded + Cardinality(UnitsIn(amount, Outstanding)) <= Total
  BY <1>1 DEF Books, RefundsWithinTotal
<1>3. ASSUME NEW r \in Refunds, NEW m \in 1..Total, NEW rv \in RevokeChoices, Store(r, m, rv)
      PROVE  Books'
  <2>1. /\ refund[r] = "absent" /\ refund' = [refund EXCEPT ![r] = "requested"]
        /\ amount' = [amount EXCEPT ![r] = m] /\ refunded' = refunded
        /\ m <= Total - refunded - Cardinality(UnitsIn(amount, Outstanding))
    BY <1>1, <1>3 DEF Store, Refundable
  <2>2. r \notin Outstanding /\ r \notin Processed
    BY <2>1 DEF Outstanding, Processed
  <2>3. Outstanding' = Outstanding \union {r} /\ Processed' = Processed
    BY <2>1 DEF Outstanding, Processed, Typed
  <2>4. \A q \in Refunds : q # r => amount'[q] = amount[q]
    BY <1>0, <2>1 DEF Amounts
  <2>5. UnitsIn(amount', Outstanding) = UnitsIn(amount, Outstanding)
    BY <1>0, <2>2, <2>4, SumSame
  <2>6. UnitsIn(amount', Processed) = UnitsIn(amount, Processed)
    BY <1>0, <2>2, <2>4, SumSame
  <2>7. amount'[r] = m
    BY <1>0, <2>1 DEF Amounts
  <2>8. /\ Cardinality(UnitsIn(amount', Outstanding)) \in Nat
        /\ Cardinality(UnitsIn(amount', Outstanding'))
             = Cardinality(UnitsIn(amount', Outstanding)) + m
    BY <1>0, <2>2, <2>3, <2>7, SumSplit
  <2>9. RefundsWithinTotal'
    BY <1>0, <1>1, <2>1, <2>5, <2>8 DEF RefundsWithinTotal
  <2>10. RefundedIsSum'
    BY <1>1, <2>1, <2>3, <2>6
  <2>11. AmountsArePositive'
    BY <2>1, <2>4, <2>7 DEF AmountsArePositive, Books, Typed
  <2> QED BY <2>9, <2>10, <2>11 DEF Books
<1>4. ASSUME NEW j \in Jobs, Recorded(j), refund[j[2]] = "approved" PROVE Books'
  <2> DEFINE r == j[2]
  <2>1. /\ r \in Refunds /\ refund[r] = "approved"
        /\ refund' = [refund EXCEPT ![r] = "processed"]
        /\ amount' = amount /\ refunded' = refunded + amount[r]
    BY <1>4 DEF Recorded
  <2> HIDE DEF r
  <2>2. Outstanding' = Outstanding \ {r} /\ Processed' = Processed \union {r} /\ r \notin Processed
    BY <2>1 DEF Outstanding, Processed, Typed
  <2>3. RefundsWithinTotal'
    BY <1>0, <1>1, <2>1, <2>2, OnItsWay DEF RefundsWithinTotal
  <2>4. Cardinality(UnitsIn(amount, Processed \union {r}))
          = Cardinality(UnitsIn(amount, Processed)) + amount[r]
    BY <1>0, <2>1, <2>2, SumSplit
  <2>5. RefundedIsSum'
    BY <1>1, <2>1, <2>2, <2>4
  <2>6. AmountsArePositive'
    BY <2>1 DEF AmountsArePositive, Books, Typed
  <2> QED BY <2>3, <2>5, <2>6 DEF Books
<1>5. ASSUME UNCHANGED <<refunded, amount>>,
             Outstanding' \subseteq Outstanding, Processed' = Processed,
             \A r \in Refunds : refund[r] = "absent" => refund'[r] = "absent"
      PROVE  Books'
  <2>1. /\ Cardinality(UnitsIn(amount, Outstanding')) \in Nat
        /\ Cardinality(UnitsIn(amount, Outstanding)) \in Nat
        /\ Cardinality(UnitsIn(amount, Outstanding')) <= Cardinality(UnitsIn(amount, Outstanding))
    BY <1>0, <1>5, SumMonotone
  <2>2. RefundsWithinTotal'
    BY <1>0, <1>1, <1>2, <1>5, <2>1 DEF RefundsWithinTotal
  <2>3. RefundedIsSum'
    BY <1>1, <1>5
  <2>4. AmountsArePositive'
    BY <1>5 DEF AmountsArePositive, Books
  <2> QED BY <2>2, <2>3, <2>4 DEF Books
<1> QED BY <1>3, <1>4, <1>5, BookSteps

\* In the beginning nothing was refunded.
LEMMA BooksOpened == ASSUME Init PROVE Books
<1>1. Units(Outstanding) = {} /\ Units({r \in Refunds : refund[r] = "processed"}) = {}
  BY DEF Init, Units, Outstanding
<1>2. Cardinality(Units(Outstanding)) = 0
  BY <1>1, FS_EmptySet
<1>3. Cardinality(Units({r \in Refunds : refund[r] = "processed"})) = 0
  BY <1>1, FS_EmptySet
<1> QED BY <1>2, <1>3, RefundsAssumption
        DEF Books, RefundsWithinTotal, RefundedIsSum, AmountsArePositive, SumOver, Init

(***************************************************************************)
(* While no two requests decide on one refund at once, what was refunded   *)
(* and what is on its way back stay within the order's total, and          *)
(* refunded_minor is the sum of the processed refunds                      *)
(* (RefundController::store, ProcessRefund::handle).                       *)
(***************************************************************************)
THEOREM BooksAddUp ==
  Spec /\ []OneDecides => [](RefundsWithinTotal /\ RefundedIsSum)
<1>1. Init => Deliberate /\ Books
  BY DeliberateStarts, BooksOpened
<1>2. OneDecides /\ Deliberate /\ Books /\ [Next]_vars => Deliberate' /\ Books'
  BY DeliberateKept, BooksKept DEF Deliberate
<1>3. Books => RefundsWithinTotal /\ RefundedIsSum
  BY DEF Books
<1> QED BY <1>1, <1>2, <1>3, PTL DEF Spec

-----------------------------------------------------------------------------
(* From here on for any number of administrators who decide at once: what  *)
(* jobs and requests may rely on all the same.                             *)

\* A refund asks for money; a job works on a refund that was decided on; and
\* a request dispatches its job once, because it decides once on a refund.
Started ==
  /\ AmountsArePositive
  /\ \A j \in Jobs : job[j].pc # "none" => refund[j[2]] \notin {"absent", "requested"}
  /\ \A a \in Admins : desk[a].pc \in {"approving", "rejecting"} =>
       desk[a].refund \in Refunds /\ refund[desk[a].refund] # "absent"
  /\ \A a \in Admins : desk[a].pc = "dispatching" =>
       desk[a].refund \in Refunds /\ refund[desk[a].refund] \notin {"absent", "requested"}
  /\ \A a \in Admins : desk[a].pc \in {"approving", "dispatching"} =>
       job[<<a, desk[a].refund>>].pc = "none"

\* A job is there before a step and after it, dispatches aside.
LEMMA SameJobs ==
  ASSUME Typed, [Next]_vars, ~\E a \in Admins : DispatchRefund(a), NEW j \in Jobs
  PROVE  job'[j].pc = "none" <=> job[j].pc = "none"
<1> USE DEF Typed, JobsTyped
<1>1. ASSUME NEW k \in Jobs, StartRefund(k) PROVE job'[j].pc = "none" <=> job[j].pc = "none"
  BY <1>1 DEF StartRefund
<1>2. ASSUME NEW k \in Jobs, NEW pc \in JobPcs, Busy(k), pc # "none",
             job' = [job EXCEPT ![k].pc = pc]
      PROVE  job'[j].pc = "none" <=> job[j].pc = "none"
  BY <1>2 DEF Busy
<1> QED BY <1>1, <1>2, JobSteps

\* What a step makes of a refund, without a look at who decides.
LEMMA RefundGoesOn ==
  ASSUME Typed, [Next]_vars, NEW r \in Refunds
  PROVE  \/ refund'[r] = refund[r] /\ amount'[r] = amount[r] /\ revoke'[r] = revoke[r]
         \/ /\ refund[r] = "absent" /\ refund'[r] = "requested" /\ amount'[r] > 0
            /\ UNCHANGED <<desk, job, refunded, failures>>
         \/ /\ refund'[r] \in {"approved", "rejected", "processed"}
            /\ amount'[r] = amount[r] /\ revoke'[r] = revoke[r]
            /\ \/ refund[r] # "absent"
               \/ \E a \in Admins :
                    desk[a].pc \in {"approving", "rejecting"} /\ desk[a].refund = r
               \/ \E j \in Jobs : j[2] = r /\ job[j].pc # "none"
<1> USE RefundsAssumption DEF Typed
<1>1. ASSUME NEW s \in Refunds, NEW m \in 1..Total, NEW rv \in RevokeChoices, Store(s, m, rv)
      PROVE  \/ refund'[r] = refund[r] /\ amount'[r] = amount[r] /\ revoke'[r] = revoke[r]
             \/ /\ refund[r] = "absent" /\ refund'[r] = "requested" /\ amount'[r] > 0
                /\ UNCHANGED <<desk, job, refunded, failures>>
  BY <1>1 DEF Store
<1>2. ASSUME NEW a \in Admins, Approve(a) \/ Reject(a), refund'[r] # refund[r]
      PROVE  /\ refund'[r] \in {"approved", "rejected"}
             /\ amount'[r] = amount[r] /\ revoke'[r] = revoke[r]
             /\ desk[a].pc \in {"approving", "rejecting"} /\ desk[a].refund = r
  BY <1>2 DEF Approve, Reject
<1>3. ASSUME NEW j \in Jobs, GatewayRefuses(j) \/ Record(j), refund'[r] # refund[r]
      PROVE  /\ refund'[r] \in {"rejected", "processed"}
             /\ amount'[r] = amount[r] /\ revoke'[r] = revoke[r]
             /\ j[2] = r /\ job[j].pc # "none"
  BY <1>3 DEF GatewayRefuses, Record
<1>4. ASSUME NEW a \in Admins, Desk(a) \/ CrashRequest(a)
      PROVE  amount' = amount /\ revoke' = revoke
             /\ (refund' = refund \/ Approve(a) \/ Reject(a))
  BY <1>4 DEF Desk, Open, Approve, Reject, DispatchRefund, Release, CrashRequest, refundVars
<1>5. ASSUME NEW j \in Jobs,
             \/ Process(j) \/ CrashRefund(j)
             \/ \E acted \in BOOLEAN : GatewayTimesOut(j, acted)
      PROVE  amount' = amount /\ revoke' = revoke
             /\ (refund' = refund \/ GatewayRefuses(j) \/ Record(j))
  BY <1>5 DEF Process, StartRefund, GatewayAccepts, GatewayRefuses, Record, Revoke,
              CrashRefund, GatewayTimesOut, refundVars
<1>6. ASSUME \/ \E to \in AdminTargets : AdminTransition(to)
             \/ Refulfill \/ Fulfil \/ UNCHANGED vars
      PROVE  UNCHANGED <<refund, amount, revoke>>
  BY <1>6 DEF AdminTransition, Refulfill, Fulfil, FulfillRead, FulfillGrant,
              FulfillMove, refundVars, vars
<1> QED BY <1>1, <1>2, <1>3, <1>4, <1>5, <1>6 DEF Next

\* What a step makes of the request of one administrator.
LEMMA DeskSteps ==
  ASSUME Typed, [Next]_vars, NEW a \in Admins
  PROVE  \/ desk'[a] = desk[a] /\ ~DispatchRefund(a)
         \/ desk'[a].pc \in {"idle", "releasing"}
         \/ /\ desk'[a].pc \in {"approving", "rejecting"}
            /\ desk'[a].refund \in Refunds /\ refund[desk'[a].refund] = "requested"
            /\ UNCHANGED <<refund, job>>
         \/ /\ desk[a].pc = "approving" /\ desk'[a].pc = "dispatching"
            /\ desk'[a].refund = desk[a].refund /\ UNCHANGED job
            /\ desk[a].refund \in Refunds => refund'[desk[a].refund] = "approved"
<1> USE DEF Typed
<1>1. ASSUME NEW b \in Admins, NEW r \in Refunds, NEW pc \in {"approving", "rejecting"},
             Open(b, r, pc), b = a
      PROVE  /\ desk'[a].pc \in {"approving", "rejecting"}
             /\ desk'[a].refund \in Refunds /\ refund[desk'[a].refund] = "requested"
             /\ UNCHANGED <<refund, job>>
  BY <1>1 DEF Open, refundVars
<1>2. CASE Approve(a)
  BY <1>2 DEF Approve, DeskRecords
<1>3. CASE Reject(a)
  BY <1>3 DEF Reject, DeskRecords
<1>4. CASE DispatchRefund(a) \/ Release(a) \/ CrashRequest(a)
  BY <1>4 DEF DispatchRefund, Release, CrashRequest, Away
<1>5. ASSUME NEW b \in Admins, b # a, Desk(b) \/ CrashRequest(b)
      PROVE  desk'[a] = desk[a]
  BY <1>5 DEF Desk, Open, Approve, Reject, DispatchRefund, Release, CrashRequest
<1>6. ASSUME NEW j \in Jobs,
             \/ Process(j) \/ CrashRefund(j)
             \/ \E acted \in BOOLEAN : GatewayTimesOut(j, acted)
      PROVE  UNCHANGED desk
  BY <1>6 DEF Process, StartRefund, GatewayAccepts, GatewayRefuses, Record, Revoke,
              CrashRefund, GatewayTimesOut
<1>7. ASSUME \/ \E r \in Refunds, m \in 1..Total, rv \in RevokeChoices : Store(r, m, rv)
             \/ \E to \in AdminTargets : AdminTransition(to)
             \/ Refulfill \/ Fulfil \/ UNCHANGED vars
      PROVE  UNCHANGED desk
  BY <1>7 DEF Store, AdminTransition, Refulfill, Fulfil, FulfillRead, FulfillGrant,
              FulfillMove, vars
<1>8. DispatchRefund(a) => desk'[a].pc = "idle"
  BY DEF DispatchRefund, Away
<1> QED BY <1>1, <1>2, <1>3, <1>4, <1>5, <1>6, <1>7, <1>8 DEF Next, Desk

\* Every step keeps it.
LEMMA StartedKept == ASSUME Typed, Started, [Next]_vars PROVE Started'
<1>1. ASSUME NEW r \in Refunds, refund[r] # "absent"
      PROVE  refund'[r] # "absent" /\ amount'[r] = amount[r] /\ revoke'[r] = revoke[r]
  BY <1>1, RefundGoesOn
<1>2. ASSUME NEW r \in Refunds, refund[r] \notin {"absent", "requested"}
      PROVE  refund'[r] \notin {"absent", "requested"}
  BY <1>2, RefundGoesOn
<1>3. AmountsArePositive'
  <2> SUFFICES ASSUME NEW r \in Refunds, refund'[r] # "absent" PROVE amount'[r] > 0
    BY DEF AmountsArePositive
  <2>1. CASE refund[r] # "absent"
    BY <1>1, <2>1 DEF Started, AmountsArePositive
  <2>2. CASE refund[r] = "absent"
    <3>1. ASSUME NEW a \in Admins, desk[a].pc \in {"approving", "rejecting"}, desk[a].refund = r
          PROVE  FALSE
      BY <2>2, <3>1 DEF Started
    <3>2. ASSUME NEW j \in Jobs, j[2] = r, job[j].pc # "none" PROVE FALSE
      BY <2>2, <3>2 DEF Started
    <3> QED BY <2>2, <3>1, <3>2, RefundGoesOn
  <2> QED BY <2>1, <2>2
<1>4. ASSUME NEW j \in Jobs, job'[j].pc # "none"
      PROVE  refund'[j[2]] \notin {"absent", "requested"}
  <2>1. j[2] \in Refunds
    BY DEF Jobs
  <2>2. CASE job[j].pc # "none"
    BY <1>2, <2>1, <2>2 DEF Started
  <2>3. ASSUME NEW a \in Admins, DispatchRefund(a), job[j].pc = "none"
        PROVE  refund'[j[2]] \notin {"absent", "requested"}
    <3>1. j = <<a, desk[a].refund>>
      BY <1>4, <2>3 DEF DispatchRefund, Typed, JobsTyped
    <3>2. j[2] = desk[a].refund
      BY <3>1
    <3> QED BY <1>2, <2>1, <2>3, <3>2 DEF DispatchRefund, Started
  <2> QED BY <1>4, <2>2, <2>3, SameJobs
<1>5. ASSUME NEW a \in Admins, desk'[a].pc \in {"approving", "rejecting"}
      PROVE  desk'[a].refund \in Refunds /\ refund'[desk'[a].refund] # "absent"
  BY <1>1, <1>5, DeskSteps DEF Started
<1>6. ASSUME NEW a \in Admins, desk'[a].pc = "dispatching"
      PROVE  desk'[a].refund \in Refunds /\ refund'[desk'[a].refund] \notin {"absent", "requested"}
  <2>1. CASE desk'[a] = desk[a]
    BY <1>2, <1>6, <2>1 DEF Started
  <2>2. CASE desk[a].pc = "approving" /\ desk'[a].refund = desk[a].refund
             /\ (desk[a].refund \in Refunds => refund'[desk[a].refund] = "approved")
    BY <2>2 DEF Started
  <2> QED BY <1>6, <2>1, <2>2, DeskSteps
<1>7. ASSUME NEW a \in Admins, desk'[a].pc \in {"approving", "dispatching"}
      PROVE  job'[<<a, desk'[a].refund>>].pc = "none"
  <2> DEFINE r == desk'[a].refund
  <2>1. r \in Refunds /\ <<a, r>> \in Jobs
    BY <1>5, <1>6, <1>7 DEF Jobs
  <2>2. CASE desk'[a] = desk[a] /\ ~DispatchRefund(a)
    <3>1. job[<<a, r>>].pc = "none"
      BY <1>7, <2>2 DEF Started
    <3>2. ASSUME NEW b \in Admins, DispatchRefund(b) PROVE job'[<<a, r>>] = job[<<a, r>>]
      <4>1. b # a
        BY <2>2, <3>2
      <4>2. <<a, r>> # <<b, desk[b].refund>>
        BY <4>1
      <4> HIDE DEF r
      <4> QED BY <2>1, <3>2, <4>2 DEF DispatchRefund, Typed, JobsTyped
    <3> QED BY <2>1, <3>1, <3>2, SameJobs
  <2>3. CASE refund[r] = "requested" /\ UNCHANGED <<refund, job>>
    <3>1. <<a, r>>[2] = r
      OBVIOUS
    <3> QED BY <2>1, <2>3, <3>1 DEF Started
  <2>4. CASE desk[a].pc = "approving" /\ r = desk[a].refund /\ UNCHANGED job
    BY <2>4 DEF Started
  <2> QED BY <1>7, <2>2, <2>3, <2>4, DeskSteps
<1> QED BY <1>3, <1>4, <1>5, <1>6, <1>7 DEF Started

LEMMA StartedStarts == ASSUME Init PROVE Started
BY DEF Init, Started, AmountsArePositive, NoJob, Away

-----------------------------------------------------------------------------
(* What the gateway gave back and what the books say.                      *)

\* The refunds that went through and are not in the books yet, by their jobs.
Carried == {j \in Jobs : job[j].pc = "recording"}

Owes == [j \in Jobs |-> amount[j[2]]]

Pending == Cardinality(Parts(Jobs, Owes, Carried))

Backed ==
  /\ sent \in Amounts /\ SentInAll <= Total
  /\ PaidOnline => refunded + Pending <= SentInAll

LEMMA SentTyped ==
  ASSUME sent \in Amounts
  PROVE  SentInAll = Cardinality(UnitsIn(sent, Refunds)) /\ SentInAll \in Nat
<1>1. UnitsIn(sent, Refunds) = {u \in Refunds \X (1..Total) : u[2] <= sent[u[1]]}
  BY DEF UnitsIn, Parts
<1>2. Cardinality(UnitsIn(sent, Refunds)) \in Nat
  BY SumMonotone
<1> QED BY <1>1, <1>2 DEF SentInAll

\* The gateway gives back the amount of one refund.
LEMMA GivesBack ==
  ASSUME Typed, Backed, NEW r \in Refunds, CanGiveBack(r),
         sent' = [sent EXCEPT ![r] = @ + amount[r]]
  PROVE  /\ sent' \in Amounts /\ SentInAll' <= Total
         /\ SentInAll' = SentInAll + amount[r]
<1> DEFINE others == Cardinality(UnitsIn(sent, Refunds \ {r}))
<1>1. /\ sent \in Amounts /\ sent[r] \in Nat /\ amount[r] \in Nat /\ Total \in Nat
      /\ SentInAll + amount[r] <= Total
  BY RefundsAssumption DEF Backed, Amounts, Typed, CanGiveBack
<1>2. (Refunds \ {r}) \union {r} = Refunds /\ r \notin Refunds \ {r}
  OBVIOUS
<1>3. others \in Nat /\ SentInAll = others + sent[r]
  BY <1>1, <1>2, SumSplit, SentTyped
<1>4. sent' \in Amounts
  <2>1. sent[r] + amount[r] \in 0..Total
    BY <1>1, <1>3
  <2> QED BY <1>1, <2>1 DEF Amounts
<1>5. sent'[r] = sent[r] + amount[r]
  BY <1>1 DEF Amounts
<1>6. UnitsIn(sent', Refunds \ {r}) = UnitsIn(sent, Refunds \ {r})
  <2>1. \A q \in Refunds \cap (Refunds \ {r}) : sent'[q] = sent[q]
    BY <1>1 DEF Amounts
  <2> QED BY <1>1, <1>4, <2>1, SumSame
<1>7. SentInAll' = others + sent'[r]
  <2>1. Cardinality(UnitsIn(sent', Refunds)) = Cardinality(UnitsIn(sent', Refunds \ {r})) + sent'[r]
    <3> DEFINE new == sent'
    <3>1. new \in Amounts
      BY <1>4
    <3> HIDE DEF new
    <3>2. Cardinality(UnitsIn(new, (Refunds \ {r}) \union {r}))
            = Cardinality(UnitsIn(new, Refunds \ {r})) + new[r]
      BY <1>2, <3>1, SumSplit
    <3> QED BY <1>2, <3>2 DEF new
  <2>2. UnitsIn(sent', Refunds) = {u \in Refunds \X (1..Total) : u[2] <= sent'[u[1]]}
    BY DEF UnitsIn, Parts
  <2> QED BY <1>6, <2>1, <2>2 DEF SentInAll
<1> HIDE DEF others
<1> QED BY <1>1, <1>3, <1>4, <1>5, <1>7

\* What the jobs carry is a number, and a job adds what it owes.
LEMMA PendingSplit ==
  ASSUME Typed, NEW S, NEW j \in Jobs, j \notin S
  PROVE  /\ Cardinality(Parts(Jobs, Owes, S)) \in Nat
         /\ Cardinality(Parts(Jobs, Owes, S \union {j}))
              = Cardinality(Parts(Jobs, Owes, S)) + amount[j[2]]
<1>1. IsFiniteSet(Jobs)
  BY RefundsAssumption, FS_Product DEF Jobs
<1>2. Owes \in [Jobs -> 0..Total]
  BY DEF Owes, Typed, Jobs
<1>3. Owes[j] = amount[j[2]]
  BY DEF Owes
<1> QED BY <1>1, <1>2, <1>3, PartsSplit

\* Jobs that carry no more than before owe no more.
LEMMA PendingShrinks ==
  ASSUME Typed, Started, [Next]_vars, Carried' \subseteq Carried
  PROVE  Pending \in Nat /\ Pending' \in Nat /\ Pending' <= Pending
<1>1. IsFiniteSet(Jobs)
  BY RefundsAssumption, FS_Product DEF Jobs
<1>2. Owes \in [Jobs -> 0..Total]
  BY DEF Owes, Typed, Jobs
<1>3. ASSUME NEW j \in Jobs, j \in Carried PROVE Owes'[j] = Owes[j]
  <2>1. j[2] \in Refunds /\ refund[j[2]] # "absent"
    BY <1>3 DEF Carried, Started, Jobs
  <2>2. amount'[j[2]] = amount[j[2]]
    BY <2>1, RefundGoesOn
  <2> QED BY <2>2 DEF Owes
<1>4. Parts(Jobs, Owes', Carried') = Parts(Jobs, Owes, Carried')
  BY <1>3 DEF Parts
<1>5. Pending' = Cardinality(Parts(Jobs, Owes, Carried'))
  BY <1>4 DEF Pending
<1> QED BY <1>1, <1>2, <1>5, PartsMonotone DEF Pending

\* Which steps speak to the gateway or write the books.
LEMMA GatewaySteps ==
  ASSUME Typed, [Next]_vars
  PROVE  \/ \E j \in Jobs : GatewayAccepts(j) \/ GatewayTimesOut(j, TRUE) \/ Recorded(j)
         \/ /\ UNCHANGED <<sent, refunded>>
            /\ PaidOnline => Carried' \subseteq Carried
<1> USE DEF Typed, JobsTyped
<1>1. ASSUME UNCHANGED <<sent, refunded>>,
             \A j \in Jobs : job'[j].pc = "recording" => job[j].pc = "recording"
      PROVE  UNCHANGED <<sent, refunded>> /\ Carried' \subseteq Carried
  BY <1>1 DEF Carried
<1>2. ASSUME NEW a \in Admins, Desk(a) \/ CrashRequest(a)
      PROVE  /\ UNCHANGED <<sent, refunded>>
             /\ \A j \in Jobs : job'[j].pc = "recording" => job[j].pc = "recording"
  BY <1>2 DEF Desk, Open, Approve, Reject, DispatchRefund, Release, CrashRequest, NoJob
<1>3. ASSUME NEW k \in Jobs, StartRefund(k), PaidOnline
      PROVE  \A j \in Jobs : job'[j].pc = "recording" => job[j].pc = "recording"
  BY <1>3 DEF StartRefund
<1>4. ASSUME NEW k \in Jobs, StartRefund(k)
      PROVE  UNCHANGED <<sent, refunded>>
  BY <1>4 DEF StartRefund
<1>5. ASSUME NEW k \in Jobs, Record(k), ~Recorded(k)
      PROVE  /\ UNCHANGED <<sent, refunded>>
             /\ \A j \in Jobs : job'[j].pc = "recording" => job[j].pc = "recording"
  <2>1. k[2] \in Refunds
    BY DEF Jobs
  <2>2. ~Moves(StatusAfter(refunded + amount[k[2]]))
    BY <1>5, <2>1 DEF Record, Recorded, Move
  <2> QED BY <1>5, <2>2 DEF Record, Retry
<1>6. ASSUME NEW k \in Jobs,
             GatewayRefuses(k) \/ Revoke(k) \/ CrashRefund(k) \/ GatewayTimesOut(k, FALSE)
      PROVE  /\ UNCHANGED <<sent, refunded>>
             /\ \A j \in Jobs : job'[j].pc = "recording" => job[j].pc = "recording"
  BY <1>6 DEF GatewayRefuses, Revoke, CrashRefund, GatewayTimesOut, Goto, Retry
<1>7. ASSUME \/ \E r \in Refunds, m \in 1..Total, rv \in RevokeChoices : Store(r, m, rv)
             \/ \E to \in AdminTargets : AdminTransition(to)
             \/ Refulfill \/ Fulfil \/ UNCHANGED vars
      PROVE  /\ UNCHANGED <<sent, refunded>>
             /\ \A j \in Jobs : job'[j].pc = "recording" => job[j].pc = "recording"
  BY <1>7 DEF Store, AdminTransition, Refulfill, Fulfil, FulfillRead, FulfillGrant,
              FulfillMove, vars
<1> QED BY <1>1, <1>2, <1>3, <1>4, <1>5, <1>6, <1>7 DEF Next, Process

\* Every step keeps the books backed.
LEMMA BackedKept == ASSUME Typed, Started, Backed, [Next]_vars PROVE Backed'
<1>0. /\ refunded \in Nat /\ SentInAll \in Nat /\ Total \in Nat /\ Pending \in Nat
      /\ \A r \in Refunds : amount[r] \in Nat
  <2>1. IsFiniteSet(Jobs) /\ Owes \in [Jobs -> 0..Total]
    BY RefundsAssumption, FS_Product DEF Jobs, Owes, Typed
  <2> QED BY <2>1, PartsMonotone, SentTyped, RefundsAssumption DEF Pending, Typed, Backed
<1>1. ASSUME NEW j \in Jobs, GatewayAccepts(j) PROVE Backed'
  <2>1. j[2] \in Refunds /\ UNCHANGED <<amount, refunded>> /\ j \notin Carried
    BY <1>1 DEF GatewayAccepts, refundVars, Jobs, Carried
  <2>2. /\ sent' \in Amounts /\ SentInAll' <= Total
        /\ SentInAll' = SentInAll + amount[j[2]]
    BY <1>1, <2>1, GivesBack DEF GatewayAccepts
  <2>3. Carried' = Carried \union {j} /\ Owes' = Owes
    BY <1>1, <2>1 DEF GatewayAccepts, Goto, Carried, Owes, Typed, JobsTyped
  <2>4. Pending' = Pending + amount[j[2]]
    BY <2>1, <2>3, PendingSplit DEF Pending
  <2> QED BY <1>0, <2>1, <2>2, <2>4 DEF Backed
<1>2. ASSUME NEW j \in Jobs, GatewayTimesOut(j, TRUE) PROVE Backed'
  <2>1. j[2] \in Refunds /\ UNCHANGED <<refunded>>
    BY <1>2 DEF GatewayTimesOut, Jobs
  <2>2. /\ sent' \in Amounts /\ SentInAll' <= Total
        /\ SentInAll' = SentInAll + amount[j[2]]
    BY <1>2, <2>1, GivesBack DEF GatewayTimesOut
  <2>3. Carried' \subseteq Carried
    BY <1>2 DEF GatewayTimesOut, Retry, Carried, Typed, JobsTyped
  <2>4. Pending' \in Nat /\ Pending' <= Pending
    BY <2>3, PendingShrinks
  <2> QED BY <1>0, <2>1, <2>2, <2>4 DEF Backed
<1>3. ASSUME NEW j \in Jobs, Recorded(j) PROVE Backed'
  <2> DEFINE rest == Carried \ {j}
  <2>1. /\ j[2] \in Refunds /\ UNCHANGED <<amount, sent>> /\ j \in Carried
        /\ refunded' = refunded + amount[j[2]]
    BY <1>3 DEF Recorded, Record, Carried
  <2>2. Carried' = rest /\ Owes' = Owes /\ SentInAll' = SentInAll
    BY <1>3, <2>1 DEF Recorded, Goto, Carried, Owes, SentInAll, Typed, JobsTyped
  <2>3. Carried = rest \union {j} /\ j \notin rest
    BY <2>1
  <2>4. Pending' \in Nat /\ Pending = Pending' + amount[j[2]]
    BY <2>2, <2>3, PendingSplit DEF Pending
  <2> QED BY <1>0, <2>1, <2>2, <2>4 DEF Backed
<1>4. CASE UNCHANGED <<sent, refunded>> /\ (PaidOnline => Carried' \subseteq Carried)
  <2>1. SentInAll' = SentInAll
    BY <1>4 DEF SentInAll
  <2>2. PaidOnline => Pending' \in Nat /\ Pending' <= Pending
    BY <1>4, PendingShrinks
  <2> QED BY <1>0, <1>4, <2>1, <2>2 DEF Backed
<1> QED BY <1>1, <1>2, <1>3, <1>4, GatewaySteps

LEMMA BackedStarts == ASSUME Init PROVE Backed
<1>1. sent \in Amounts /\ refunded = 0 /\ Total \in Nat
  BY RefundsAssumption DEF Init, Amounts
<1>2. {u \in Refunds \X (1..Total) : u[2] <= sent[u[1]]} = {}
  BY <1>1 DEF Init
<1>3. SentInAll = 0
  BY <1>2, FS_EmptySet DEF SentInAll
<1>4. Parts(Jobs, Owes, Carried) = {}
  BY DEF Init, Carried, NoJob, Parts
<1>5. Pending = 0
  BY <1>4, FS_EmptySet DEF Pending
<1> QED BY <1>1, <1>3, <1>5 DEF Backed

(***************************************************************************)
(* The books of an order paid online never say that more went back than    *)
(* the gateway gave back, and so never more than the order's total, for    *)
(* any number of administrators: not when two of them decide on one refund *)
(* at once, a call times out or a job comes again (ProcessRefund::handle). *)
(***************************************************************************)
THEOREM GatewayBacksTheBooks ==
  Spec => [](BackedByTheGateway /\ (PaidOnline => refunded <= Total))
<1>1. Init => Typed /\ Started /\ Backed
  BY InitTyped, StartedStarts, BackedStarts
<1>2. Typed /\ Started /\ Backed /\ [Next]_vars => Typed' /\ Started' /\ Backed'
  BY NextTyped, StartedKept, BackedKept
<1>3. Typed /\ Backed => BackedByTheGateway /\ (PaidOnline => refunded <= Total)
  <2> SUFFICES ASSUME Typed, Backed, PaidOnline
               PROVE  refunded <= SentInAll /\ refunded <= Total
    BY DEF BackedByTheGateway
  <2>1. IsFiniteSet(Jobs) /\ Owes \in [Jobs -> 0..Total]
    BY RefundsAssumption, FS_Product DEF Jobs, Owes, Typed
  <2>2. /\ refunded \in Nat /\ SentInAll \in Nat /\ Total \in Nat /\ Pending \in Nat
    BY <2>1, PartsMonotone, SentTyped, RefundsAssumption DEF Pending, Typed, Backed
  <2> QED BY <2>2 DEF Backed
<1> QED BY <1>1, <1>2, <1>3, PTL DEF Spec

-----------------------------------------------------------------------------
(* What an order's status tells of its refunds.                            *)

\* A refunded order stays refunded.
LEMMA RefundedIsFinal ==
  ASSUME NEW to, Moves(to), status = "refunded" PROVE to = "refunded"
BY DEF Moves, Allows, NextStatuses

\* Which steps move an order to a refund's status, or change what was refunded.
LEMMA StatusSteps ==
  ASSUME Typed, [Next]_vars
  PROVE  \/ \E j \in Jobs : Recorded(j)
         \/ UNCHANGED <<status, refunded>>
         \/ /\ UNCHANGED refunded
            /\ status # "refunded"
            /\ \/ status' \notin {"refunded", "partially_refunded"}
               \/ \E to \in AdminTargets : AdminTransition(to)
<1>1. ASSUME NEW r \in Refunds, NEW m \in 1..Total, NEW rv \in RevokeChoices, Store(r, m, rv)
      PROVE  /\ UNCHANGED refunded
             /\ \/ status' = status
                \/ status # "refunded" /\ status' \notin {"refunded", "partially_refunded"}
  <2>1. UNCHANGED refunded
    BY <1>1 DEF Store
  <2>2. CASE Allows(status, "refund_pending")
    <3>1. status' = "refund_pending"
      BY <1>1, <2>2 DEF Store, Move
    <3>2. status # "refunded"
      BY <2>2, RefundedIsFinal DEF Moves
    <3> QED BY <2>1, <3>1, <3>2
  <2>3. CASE ~Allows(status, "refund_pending")
    <3>1. UNCHANGED orderVars
      BY <1>1, <2>3 DEF Store
    <3> QED BY <2>1, <3>1 DEF orderVars
  <2> QED BY <2>2, <2>3
<1>2. ASSUME NEW a \in Admins, Release(a)
      PROVE  /\ UNCHANGED refunded
             /\ \/ status' = status
                \/ status # "refunded" /\ status' \notin {"refunded", "partially_refunded"}
  <2> DEFINE to == IF desk[a].wasFulfilled THEN "fulfilled" ELSE "paid"
  <2>1. to \in {"paid", "fulfilled"}
    OBVIOUS
  <2>2. UNCHANGED refunded /\ (status' = status \/ (Moves(to) /\ status' = to))
    BY <1>2 DEF Release, Move, orderVars
  <2>3. Moves(to) => status # "refunded"
    BY <2>1, RefundedIsFinal
  <2> HIDE DEF to
  <2> QED BY <2>1, <2>2, <2>3
<1>3. CASE FulfillMove
  <2>1. UNCHANGED refunded /\ (status' = status \/ (Moves("fulfilled") /\ status' = "fulfilled"))
    BY <1>3 DEF FulfillMove, Move, orderVars
  <2> QED BY <2>1, RefundedIsFinal
<1>4. ASSUME NEW to \in AdminTargets, AdminTransition(to)
      PROVE  UNCHANGED refunded /\ status # "refunded"
  BY <1>4 DEF AdminTransition, Allows, NextStatuses
<1>5. ASSUME NEW j \in Jobs, Record(j)
      PROVE  Recorded(j) \/ UNCHANGED <<status, refunded>>
  BY <1>5 DEF Record, Recorded, Move, orderVars, Jobs
<1>6. ASSUME NEW a \in Admins, Desk(a) \/ CrashRequest(a), ~Release(a)
      PROVE  UNCHANGED <<status, refunded>>
  BY <1>6 DEF Desk, Open, Approve, Reject, DispatchRefund, CrashRequest, orderVars
<1>7. ASSUME NEW j \in Jobs,
             \/ Process(j) \/ CrashRefund(j)
             \/ \E acted \in BOOLEAN : GatewayTimesOut(j, acted),
             ~Record(j)
      PROVE  UNCHANGED <<status, refunded>>
  BY <1>7 DEF Process, StartRefund, GatewayAccepts, GatewayRefuses, Revoke, CrashRefund,
              GatewayTimesOut, orderVars
<1>8. ASSUME Refulfill \/ FulfillRead \/ FulfillGrant \/ UNCHANGED vars
      PROVE  UNCHANGED <<status, refunded>>
  BY <1>8 DEF Refulfill, FulfillRead, FulfillGrant, orderVars, vars
<1> QED BY <1>1, <1>2, <1>3, <1>4, <1>5, <1>6, <1>7, <1>8 DEF Next, Fulfil

Tells == refunded >= Total => status = "refunded"

LEMMA TellsKept == ASSUME Typed, Tells, [Next]_vars PROVE Tells'
<1> USE RefundsAssumption
<1>1. ASSUME NEW j \in Jobs, Recorded(j) PROVE Tells'
  <2>1. status' = StatusAfter(refunded')
    BY <1>1 DEF Recorded
  <2> QED BY <2>1 DEF StatusAfter, Tells
<1> QED BY <1>1, StatusSteps DEF Tells

(***************************************************************************)
(* Once all of an order's money went back the order is refunded, and but   *)
(* for an administrator who says so by hand, it becomes refunded only by   *)
(* the refund that brings all of it back and partially refunded only by    *)
(* one that leaves some, for any number of administrators and whatever     *)
(* they decide at once (ProcessRefund::handle).                            *)
(***************************************************************************)
THEOREM StatusTells == Spec => StatusTellsRefunded
<1> DEFINE Moved ==
      status' # status /\ status' \in {"refunded", "partially_refunded"} =>
        \/ \E to \in AdminTargets : AdminTransition(to)
        \/ refunded' > 0 /\ (status' = "refunded" <=> refunded' >= Total)
<1>1. Init => Typed /\ Started /\ Tells
  <2>1. Init => Tells
    BY RefundsAssumption DEF Init, Tells
  <2> QED BY <2>1, InitTyped, StartedStarts
<1>2. Typed /\ Started /\ Tells /\ [Next]_vars => Typed' /\ Started' /\ Tells'
  BY NextTyped, StartedKept, TellsKept
<1>3. Typed /\ Started /\ [Next]_vars => [Moved]_vars
  <2> SUFFICES ASSUME Typed, Started, [Next]_vars,
                      status' # status, status' \in {"refunded", "partially_refunded"},
                      ~\E to \in AdminTargets : AdminTransition(to)
               PROVE  refunded' > 0 /\ (status' = "refunded" <=> refunded' >= Total)
    OBVIOUS
  <2>1. PICK j \in Jobs : Recorded(j)
    BY StatusSteps
  <2>2. /\ status' = StatusAfter(refunded') /\ refunded' = refunded + amount[j[2]]
        /\ j[2] \in Refunds /\ job[j].pc # "none"
    BY <2>1 DEF Recorded, Record
  <2>3. amount[j[2]] > 0
    BY <2>2 DEF Started, AmountsArePositive
  <2>4. refunded \in Nat /\ amount[j[2]] \in Nat
    BY <2>2, RefundsAssumption DEF Typed
  <2> QED BY <2>2, <2>3, <2>4 DEF StatusAfter
<1>4. Tells <=> (refunded >= Total => status = "refunded")
  BY DEF Tells
<1> QED BY <1>1, <1>2, <1>3, <1>4, PTL DEF Spec, StatusTellsRefunded

-----------------------------------------------------------------------------
(* Access, with the one queue worker of the deployments.                   *)

OneQueueWorker == NumWorkers = 1

\* A refund and the fulfilment of the order do not run at the same moment.
Apart == \A j \in Jobs : Busy(j) => fulfil.pc \notin {"reading", "granted"}

\* The worker runs one job at a time, fulfilment included.
OneJobRuns == Apart /\ \A j, k \in Jobs : Busy(j) /\ Busy(k) => j = k

\* Nothing is granted any more to an order whose money went back.
RefundedIsQuiet == refunded >= Total => fulfil.pc \notin {"reading", "granted"}

AllBack ==
  /\ refunded >= Total /\ failures = 0
  /\ \A r \in Refunds : refund[r] # "absent" => revoke[r]

\* The access of an order whose money went back is gone or being withdrawn.
Withdrawing == AllBack => access # "live" \/ \E j \in Jobs : job[j].pc = "revoking"

\* A worker that is free runs nothing.
LEMMA FreeWorker ==
  ASSUME Running = 0 \/ (OneQueueWorker /\ Running < NumWorkers)
  PROVE  (\A j \in Jobs : ~Busy(j)) /\ fulfil.pc \notin {"reading", "granted"}
<1> DEFINE B == {j \in Jobs : job[j].pc \in {"asking", "recording", "revoking"}}
<1>2. IsFiniteSet(Jobs)
  BY RefundsAssumption, FS_Product DEF Jobs
<1>3. IsFiniteSet(B) /\ Cardinality(B) \in Nat
  BY <1>2, FS_Subset, FS_CardinalityType
<1>4. Running = Cardinality(B) + (IF fulfil.pc \in {"reading", "granted"} THEN 1 ELSE 0)
  BY DEF Running
<1> HIDE DEF B
<1>5. Cardinality(B) = 0 /\ fulfil.pc \notin {"reading", "granted"}
  BY <1>3, <1>4 DEF OneQueueWorker
<1>6. B = {}
  BY <1>3, <1>5, FS_EmptySet
<1> QED BY <1>5, <1>6 DEF B, Busy

\* Fulfilment begins on a free worker, for an order that grants, and grants once.
LEMMA FulfilSteps ==
  ASSUME Typed, [Next]_vars, fulfil'.pc \in {"reading", "granted"}
  PROVE  \/ fulfil.pc \in {"reading", "granted"}
         \/ Running < NumWorkers /\ UNCHANGED <<job, status>> /\ GrantsEntitlements(status)
<1>1. CASE Refulfill \/ Fulfil
  BY <1>1 DEF Refulfill, Fulfil, FulfillRead, FulfillGrant, FulfillMove, NoFulfil, orderVars, Typed
<1>2. CASE \E to \in AdminTargets : AdminTransition(to)
  BY <1>2 DEF AdminTransition, Typed
<1>3. ASSUME NEW a \in Admins, Desk(a) \/ CrashRequest(a) PROVE UNCHANGED fulfil
  BY <1>3 DEF Desk, Open, Approve, Reject, DispatchRefund, Release, CrashRequest
<1>4. ASSUME NEW j \in Jobs,
             \/ Process(j) \/ CrashRefund(j)
             \/ \E acted \in BOOLEAN : GatewayTimesOut(j, acted)
      PROVE  UNCHANGED fulfil
  BY <1>4 DEF Process, StartRefund, GatewayAccepts, GatewayRefuses, Record, Revoke,
              CrashRefund, GatewayTimesOut
<1>5. CASE (\E r \in Refunds, m \in 1..Total, rv \in RevokeChoices : Store(r, m, rv))
           \/ UNCHANGED vars
  BY <1>5 DEF Store, vars
<1> QED BY <1>1, <1>2, <1>3, <1>4, <1>5 DEF Next

\* With one worker, one job runs at a time.
LEMMA RunsKept ==
  ASSUME OneQueueWorker, Typed, OneJobRuns, [Next]_vars
  PROVE  OneJobRuns'
<1> USE DEF Typed, JobsTyped, Apart
<1>1. ASSUME NEW j \in Jobs, StartRefund(j) PROVE OneJobRuns'
  <2>1. (\A k \in Jobs : ~Busy(k)) /\ fulfil.pc \notin {"reading", "granted"}
    BY <1>1, FreeWorker DEF StartRefund
  <2>2. UNCHANGED fulfil /\ \A k \in Jobs : k # j => job'[k] = job[k]
    BY <1>1 DEF StartRefund
  <2> QED BY <2>1, <2>2 DEF OneJobRuns, Busy
<1>2. ASSUME \A k \in Jobs : Busy(k)' => Busy(k) PROVE OneJobRuns'
  <2>1. \A j, k \in Jobs : Busy(j)' /\ Busy(k)' => j = k
    BY <1>2 DEF OneJobRuns
  <2>2. ASSUME NEW j \in Jobs, Busy(j)', fulfil'.pc \in {"reading", "granted"} PROVE FALSE
    <3>1. Busy(j)
      BY <1>2, <2>2
    <3>2. Running < NumWorkers
      BY <2>2, <3>1, FulfilSteps DEF OneJobRuns
    <3> QED BY <3>1, <3>2, FreeWorker
  <2> QED BY <2>1, <2>2 DEF OneJobRuns
<1>3. CASE UNCHANGED job
  BY <1>2, <1>3 DEF Busy
<1>4. ASSUME NEW a \in Admins, DispatchRefund(a) PROVE \A k \in Jobs : Busy(k)' => Busy(k)
  BY <1>4 DEF DispatchRefund, NoJob, Busy
<1>5. ASSUME NEW j \in Jobs, NEW pc \in JobPcs, Busy(j), job' = [job EXCEPT ![j].pc = pc]
      PROVE  \A k \in Jobs : Busy(k)' => Busy(k)
  BY <1>5 DEF Busy
<1> QED BY <1>1, <1>2, <1>3, <1>4, <1>5, JobSteps

\* All of the money is back only with a refund, during which nothing is granted.
LEMMA QuietKept ==
  ASSUME Typed, Tells, Apart, RefundedIsQuiet, [Next]_vars
  PROVE  RefundedIsQuiet'
<1> SUFFICES ASSUME refunded' >= Total, fulfil'.pc \in {"reading", "granted"} PROVE FALSE
  BY DEF RefundedIsQuiet
<1>1. CASE refunded >= Total
  <2>1. status = "refunded" /\ fulfil.pc \notin {"reading", "granted"}
    BY <1>1 DEF Tells, RefundedIsQuiet
  <2> QED BY <2>1, FulfilSteps DEF GrantsEntitlements
<1>2. CASE ~(refunded >= Total)
  <2>1. PICK j \in Jobs : Recorded(j)
    BY <1>2, StatusSteps
  <2>2. Busy(j) /\ UNCHANGED fulfil
    BY <2>1 DEF Recorded, Record, Busy
  <2> QED BY <2>2 DEF Apart
<1> QED BY <1>1, <1>2

\* What else a step may do to what Withdrawing speaks of.
LEMMA AccessSteps ==
  ASSUME Typed, [Next]_vars
  PROVE  /\ failures' \in {failures, failures + 1}
         /\ access' = "live" => access = "live" \/ FulfillGrant
<1>1. CASE \E r \in Refunds, m \in 1..Total, rv \in RevokeChoices : Store(r, m, rv)
  BY <1>1 DEF Store
<1>2. ASSUME NEW a \in Admins, Desk(a) \/ CrashRequest(a)
      PROVE  failures' \in {failures, failures + 1} /\ UNCHANGED access
  BY <1>2 DEF Desk, Open, Approve, Reject, DispatchRefund, Release, CrashRequest
<1>3. ASSUME NEW j \in Jobs,
             \/ Process(j) \/ CrashRefund(j)
             \/ \E acted \in BOOLEAN : GatewayTimesOut(j, acted)
      PROVE  /\ failures' \in {failures, failures + 1}
             /\ access' = "live" => access = "live"
  BY <1>3 DEF Process, StartRefund, GatewayAccepts, GatewayRefuses, Record, Revoke,
              CrashRefund, GatewayTimesOut
<1>4. CASE Refulfill \/ Fulfil
  BY <1>4 DEF Refulfill, Fulfil, FulfillRead, FulfillGrant, FulfillMove
<1>5. CASE (\E to \in AdminTargets : AdminTransition(to)) \/ UNCHANGED vars
  BY <1>5 DEF AdminTransition, vars
<1> QED BY <1>1, <1>2, <1>3, <1>4, <1>5 DEF Next

\* Access goes with the last refund.
LEMMA WithdrawingKept ==
  ASSUME Typed, Started, RefundedIsQuiet, Withdrawing, [Next]_vars
  PROVE  Withdrawing'
<1> SUFFICES ASSUME AllBack' PROVE access' # "live" \/ \E j \in Jobs : job'[j].pc = "revoking"
  BY DEF Withdrawing
<1> USE RefundsAssumption
<1>0. ASSUME NEW r \in Refunds, refund[r] # "absent" PROVE revoke[r]
  <2>1. refund'[r] # "absent" /\ revoke'[r] = revoke[r]
    BY <1>0, RefundGoesOn
  <2> QED BY <2>1 DEF AllBack
<1>1. CASE \E j \in Jobs : Recorded(j)
  <2>1. PICK j \in Jobs : Recorded(j)
    BY <1>1
  <2>2. j[2] \in Refunds /\ job[j].pc # "none"
    BY <2>1 DEF Recorded, Record
  <2>3. revoke[j[2]]
    BY <1>0, <2>2 DEF Started
  <2>4. Goto(j, "revoking")
    BY <2>1, <2>3 DEF Recorded
  <2>5. job'[j].pc = "revoking"
    BY <2>4 DEF Goto, Typed, JobsTyped
  <2> QED BY <2>5
<1>2. CASE ~\E j \in Jobs : Recorded(j)
  <2>1. failures = 0 /\ failures' = failures
    <3>1. failures \in Nat
      BY DEF Typed
    <3> QED BY <3>1, AccessSteps DEF AllBack
  <2>2. refunded >= Total
    BY <1>2, StatusSteps DEF AllBack
  <2>4. access # "live" \/ \E j \in Jobs : job[j].pc = "revoking"
    BY <1>0, <2>1, <2>2 DEF Withdrawing, AllBack
  <2>5. CASE access # "live"
    <3>1. ~FulfillGrant
      BY <2>2 DEF FulfillGrant, RefundedIsQuiet
    <3> QED BY <2>5, <3>1, AccessSteps
  <2>6. CASE \E j \in Jobs : job[j].pc = "revoking"
    <3>1. PICK j \in Jobs : job[j].pc = "revoking"
      BY <2>6
    <3>2. CASE UNCHANGED job
      BY <3>1, <3>2
    <3>3. ASSUME NEW a \in Admins, DispatchRefund(a) PROVE job'[j] = job[j]
      BY <3>1, <3>3 DEF DispatchRefund, Started, Typed, JobsTyped
    <3>4. ASSUME NEW k \in Jobs, StartRefund(k) PROVE job'[j] = job[j]
      BY <3>1, <3>4 DEF StartRefund, Typed, JobsTyped
    <3>5. ASSUME NEW k \in Jobs, NEW pc \in JobPcs,
                 job' = [job EXCEPT ![k].pc = pc],
                 job[k].pc = "revoking" => Revoke(k) \/ failures' = failures + 1
          PROVE  job'[j] = job[j] \/ access' # "live"
      <4>1. CASE k = j
        <5>1. Revoke(j)
          BY <2>1, <3>1, <3>5, <4>1
        <5> QED BY <5>1 DEF Revoke
      <4>2. CASE k # j
        BY <3>5, <4>2
      <4> QED BY <4>1, <4>2
    <3> QED BY <3>1, <3>2, <3>3, <3>4, <3>5, JobSteps
  <2> QED BY <2>4, <2>5, <2>6
<1> QED BY <1>1, <1>2

(***************************************************************************)
(* With the one queue worker of the deployments (compose files, queue      *)
(* service) an order whose money all went back, by refunds that withdraw   *)
(* the access, leaves none once the queue is quiet, for any number of      *)
(* administrators and whatever they decide at once or move by hand         *)
(* (ProcessRefund::handle, FulfillmentService::fulfill).                   *)
(***************************************************************************)
THEOREM AccessEnds == ASSUME OneQueueWorker PROVE Spec => []RefundedLosesAccess
<1> DEFINE AccessInv ==
      Typed /\ Started /\ Tells /\ OneJobRuns /\ RefundedIsQuiet /\ Withdrawing
<1>1. Init => AccessInv
  <2> SUFFICES ASSUME Init PROVE AccessInv
    OBVIOUS
  <2>1. Tells /\ ~(refunded >= Total)
    BY RefundsAssumption DEF Init, Tells
  <2>2. RefundedIsQuiet /\ Withdrawing
    BY <2>1 DEF RefundedIsQuiet, Withdrawing, AllBack
  <2>3. OneJobRuns
    BY DEF Init, Busy, NoJob, OneJobRuns, Apart
  <2> QED BY <2>1, <2>2, <2>3, InitTyped, StartedStarts
<1>2. AccessInv /\ [Next]_vars => AccessInv'
  <2> SUFFICES ASSUME AccessInv, [Next]_vars PROVE AccessInv'
    OBVIOUS
  <2>1. Apart
    BY DEF OneJobRuns
  <2> QED BY <2>1, NextTyped, StartedKept, TellsKept, RunsKept, QuietKept, WithdrawingKept
<1>3. AccessInv => RefundedLosesAccess
  <2> SUFFICES ASSUME AccessInv, refunded >= Total, Running = 0, failures = 0,
                      \A r \in Refunds : refund[r] # "absent" => revoke[r]
               PROVE  access # "live"
    BY DEF RefundedLosesAccess
  <2>1. \A j \in Jobs : ~Busy(j)
    BY FreeWorker
  <2> QED BY <2>1 DEF Withdrawing, AllBack, Busy
<1> QED BY <1>1, <1>2, <1>3, PTL DEF Spec

-----------------------------------------------------------------------------
(* The affiliate ledger, which watches the order.                          *)

\* The ledger's steps are steps of the refund side, or none at all for it.
LEMMA LedgerSteps == [LedgerNext]_allVars => [Next]_vars
<1>1. OrderStep => Next
  BY DEF OrderStep
<1>2. SuspendOrRestore \/ HoldEnds \/ VoidCommission => UNCHANGED vars
  BY DEF SuspendOrRestore, HoldEnds, VoidCommission
<1>3. ASSUME NEW c \in Cashiers,
             \/ \E m \in 1..Commission(Total) : CountBalance(c, m)
             \/ WritePayout(c) \/ LosePayout(c)
      PROVE  UNCHANGED vars
  BY <1>3 DEF CountBalance, WritePayout, LosePayout
<1>4. UNCHANGED allVars => UNCHANGED vars
  BY DEF allVars
<1> QED BY <1>1, <1>2, <1>3, <1>4 DEF LedgerNext

(***************************************************************************)
(* The ledger changes nothing of an order or its refunds: whatever holds   *)
(* of them holds with the ledger (OrderStateMachine::transition calls      *)
(* orderMovedTo last).                                                     *)
(***************************************************************************)
THEOREM LedgerOnlyWatches == LedgerSpec => Spec
<1>1. LedgerInit => Init
  BY DEF LedgerInit
<1> QED BY <1>1, LedgerSteps, PTL DEF LedgerSpec, Spec

(***************************************************************************)
(* With its ledger, too, the refund side implements the order lifecycle.   *)
(***************************************************************************)
THEOREM LedgerRefinement == LedgerSpec => ImplementsLifecycle
BY LedgerOnlyWatches, Refinement

(***************************************************************************)
(* The books of refunds add up with the ledger, too.                       *)
(***************************************************************************)
THEOREM LedgerBooks ==
  LedgerSpec /\ []OneDecides => [](RefundsWithinTotal /\ RefundedIsSum)
BY LedgerOnlyWatches, BooksAddUp

LedgerTyped ==
  /\ commission \in [status : {"none", "earned", "void"}, base : Nat, released : BOOLEAN]
  /\ cashier \in [Cashiers -> Nat]
  /\ paidOut \in Nat /\ unpriced \in Int /\ clawed \in Nat

\* A commission is an amount of money.
LEMMA CommissionTyped == ASSUME NEW n \in Nat PROVE Commission(n) \in Nat
<1>1. Rate \in Nat
  BY AffiliatesAssumption
<1>2. n * Rate \in Nat
  BY <1>1
<1> DEFINE x == n * Rate
<1> HIDE DEF x
<1>3. x \in Nat => x \div 10000 \in Nat
  OBVIOUS
<1> QED BY <1>2, <1>3 DEF Commission, x

LEMMA AvailableTyped == ASSUME LedgerTyped PROVE Available \in Nat
BY CommissionTyped DEF LedgerTyped, Available

\* What the balance loses is counted.
LEMMA ClawCounts ==
  ASSUME LedgerTyped, Available' \in Nat, Claw
  PROVE  clawed' \in Nat /\ Available + clawed <= Available' + clawed'
BY AvailableTyped DEF LedgerTyped, Claw

\* What is left of an amount.
LEMMA Rest ==
  ASSUME NEW whole \in Nat, NEW back \in Nat
  PROVE  (IF back < whole THEN whole - back ELSE 0) \in Nat
OBVIOUS

\* Where more is available than before, what was covered is.
LEMMA MoreCovers ==
  ASSUME NEW before \in Nat, NEW after \in Nat, NEW lost \in Nat, NEW lostAfter \in Nat,
         NEW n \in Nat, before + lost <= after + lostAfter, n <= before + lost
  PROVE  n <= after + lostAfter
OBVIOUS

\* What the ledger makes of a step of the order is a commission again.
LEMMA FollowTyped ==
  ASSUME LedgerTyped, refunded \in Nat, refunded' \in Nat, Follow
  PROVE  /\ commission' \in [status : {"none", "earned", "void"}, base : Nat, released : BOOLEAN]
         /\ unpriced' \in Int
<1>1. Base' \in Nat
  <2>1. Total \in Nat
    BY RefundsAssumption
  <2>2. (IF refunded' < Total THEN Total - refunded' ELSE 0) \in Nat
    BY <2>1, Rest
  <2> QED BY <2>2 DEF Base
<1>2. Earned(Base') \in [status : {"none", "earned", "void"}, base : Nat, released : BOOLEAN]
  BY <1>1 DEF Earned
<1>3. [commission EXCEPT !.base = Base'] \in [status : {"none", "earned", "void"}, base : Nat, released : BOOLEAN]
  BY <1>1 DEF LedgerTyped
<1>4. Voided \in [status : {"none", "earned", "void"}, base : Nat, released : BOOLEAN]
  BY DEF Voided, LedgerTyped
<1>5. CASE status' # status
  BY <1>2, <1>3, <1>4, <1>5 DEF Follow, OrderMovedTo, Earn, Reprice, LedgerTyped
<1>6. CASE status' = status
  BY <1>6 DEF Follow, LedgerTyped
<1> QED BY <1>5, <1>6

\* One payout at a time is about to be recorded, and it is still covered.
Covered ==
  /\ paidOut <= Available + clawed
  /\ \A c \in Cashiers : paidOut + cashier[c] <= Available + clawed
  /\ \A c, d \in Cashiers : cashier[c] > 0 /\ cashier[d] > 0 => c = d

LEMMA CoveredKept ==
  ASSUME LedgerTyped, Covered, refunded \in Nat, refunded' \in Nat, [LedgerNext]_allVars
  PROVE  LedgerTyped' /\ Covered'
<1>0. Available \in Nat /\ \A c \in Cashiers : cashier[c] \in Nat
  BY AvailableTyped DEF LedgerTyped
<1>1. ASSUME commission' \in [status : {"none", "earned", "void"}, base : Nat, released : BOOLEAN]
      PROVE  Available' \in Nat
  BY <1>1, CommissionTyped DEF Available
<1>2. ASSUME commission' \in [status : {"none", "earned", "void"}, base : Nat, released : BOOLEAN],
             unpriced' \in Int, Claw, UNCHANGED <<cashier, paidOut>>
      PROVE  LedgerTyped' /\ Covered'
  <2>1. clawed' \in Nat /\ Available + clawed <= Available' + clawed' /\ Available' \in Nat
    BY <1>1, <1>2, ClawCounts
  <2>2. LedgerTyped'
    BY <1>2, <2>1 DEF LedgerTyped
  <2>3. clawed \in Nat /\ paidOut \in Nat /\ cashier' = cashier /\ paidOut' = paidOut
    BY <1>2 DEF LedgerTyped
  <2>4. ASSUME NEW n \in Nat, n <= Available + clawed PROVE n <= Available' + clawed'
    BY <1>0, <2>1, <2>3, <2>4, MoreCovers
  <2>5. paidOut' <= Available' + clawed'
    BY <2>3, <2>4 DEF Covered
  <2>6. \A c \in Cashiers : paidOut' + cashier'[c] <= Available' + clawed'
    BY <1>0, <2>3, <2>4 DEF Covered
  <2>7. \A c, d \in Cashiers : cashier'[c] > 0 /\ cashier'[d] > 0 => c = d
    BY <2>3 DEF Covered
  <2>8. Covered'
    BY <2>5, <2>6, <2>7 DEF Covered
  <2> QED BY <2>2, <2>8
<1>3. CASE OrderStep
  BY <1>2, <1>3, FollowTyped DEF OrderStep
<1>4. CASE VoidCommission
  <2>1. Voided \in [status : {"none", "earned", "void"}, base : Nat, released : BOOLEAN]
    BY DEF Voided, LedgerTyped
  <2> QED BY <1>2, <1>4, <2>1 DEF VoidCommission, LedgerTyped
<1>5. CASE HoldEnds
  <2>1. LedgerTyped'
    BY <1>5 DEF HoldEnds, LedgerTyped
  <2>2. Available = 0 /\ UNCHANGED <<cashier, paidOut, clawed>>
    BY <1>5 DEF HoldEnds, Available
  <2>3. Available' \in Nat
    BY <1>1, <2>1 DEF LedgerTyped
  <2>4. ASSUME NEW n \in Nat, n <= Available + clawed PROVE n <= Available' + clawed'
    <3>1. clawed \in Nat /\ clawed' \in Nat
      BY <2>2 DEF LedgerTyped
    <3>2. Available = 0 /\ clawed' = clawed
      BY <2>2
    <3>3. ASSUME NEW a \in Nat, NEW b \in Nat PROVE 0 + b <= a + b
      OBVIOUS
    <3>4. Available + clawed <= Available' + clawed'
      BY <2>3, <3>1, <3>2, <3>3
    <3> QED BY <1>0, <2>3, <2>4, <3>1, <3>4, MoreCovers
  <2>5. paidOut' <= Available' + clawed' /\ paidOut \in Nat
    BY <2>2, <2>4 DEF Covered, LedgerTyped
  <2>6. \A c \in Cashiers : paidOut' + cashier'[c] <= Available' + clawed'
    BY <1>0, <2>2, <2>4, <2>5 DEF Covered
  <2>7. \A c, d \in Cashiers : cashier'[c] > 0 /\ cashier'[d] > 0 => c = d
    BY <2>2 DEF Covered
  <2>8. Covered'
    BY <2>5, <2>6, <2>7 DEF Covered
  <2> QED BY <2>1, <2>8
<1>6. ASSUME UNCHANGED <<commission, cashier, paidOut, unpriced, clawed>>
      PROVE  LedgerTyped' /\ Covered'
  BY <1>6 DEF LedgerTyped, Covered, Available, Earning
<1>7. ASSUME NEW c \in Cashiers, NEW m \in 1..Commission(Total), CountBalance(c, m)
      PROVE  LedgerTyped' /\ Covered'
  <2>1. /\ m \in Nat /\ m <= Available - paidOut /\ \A d \in Cashiers : cashier[d] = 0
        /\ cashier' = [cashier EXCEPT ![c] = m]
        /\ UNCHANGED <<commission, paidOut, unpriced, clawed>>
    BY <1>7 DEF CountBalance, NobodyPays
  <2>2. \A d \in Cashiers : cashier'[d] = IF d = c THEN m ELSE 0
    BY <2>1 DEF LedgerTyped
  <2>3. Available' = Available
    BY <2>1 DEF Available, Earning
  <2> QED BY <1>0, <2>1, <2>2, <2>3 DEF LedgerTyped, Covered
<1>8. ASSUME NEW c \in Cashiers, WritePayout(c)
      PROVE  LedgerTyped' /\ Covered'
  <2>1. /\ cashier[c] > 0 /\ paidOut' = paidOut + cashier[c]
        /\ cashier' = [cashier EXCEPT ![c] = 0]
        /\ UNCHANGED <<commission, unpriced, clawed>>
    BY <1>8 DEF WritePayout
  <2>2. \A d \in Cashiers : cashier'[d] = 0
    <3>1. \A d \in Cashiers : d # c => ~(cashier[d] > 0)
      BY <2>1 DEF Covered
    <3> QED BY <1>0, <2>1, <3>1 DEF LedgerTyped
  <2>3. Available' = Available
    BY <2>1 DEF Available, Earning
  <2> QED BY <1>0, <2>1, <2>2, <2>3 DEF LedgerTyped, Covered
<1>9. ASSUME NEW c \in Cashiers, LosePayout(c)
      PROVE  LedgerTyped' /\ Covered'
  <2>1. /\ cashier' = [cashier EXCEPT ![c] = 0]
        /\ UNCHANGED <<commission, paidOut, unpriced, clawed>>
    BY <1>9 DEF LosePayout
  <2>2. \A d \in Cashiers : cashier'[d] = IF d = c THEN 0 ELSE cashier[d]
    BY <2>1 DEF LedgerTyped
  <2>3. Available' = Available
    BY <2>1 DEF Available, Earning
  <2> QED BY <1>0, <2>1, <2>2, <2>3 DEF LedgerTyped, Covered
<1>10. CASE SuspendOrRestore \/ UNCHANGED allVars
  BY <1>6, <1>10 DEF SuspendOrRestore, allVars, ledgerVars
<1> QED BY <1>3, <1>4, <1>5, <1>7, <1>8, <1>9, <1>10 DEF LedgerNext

LEMMA LedgerStarts == ASSUME LedgerInit PROVE LedgerTyped /\ Covered /\ CommissionFollowsRefunds
<1>1. LedgerTyped /\ ~commission.released
  <2>1. Total \in Nat
    BY RefundsAssumption
  <2>2. CASE commission = NoCommission
    BY <2>2 DEF LedgerInit, LedgerTyped, NoCommission
  <2>3. CASE commission = Earned(Total)
    BY <2>1, <2>3 DEF LedgerInit, LedgerTyped, Earned
  <2> QED BY <2>2, <2>3 DEF LedgerInit
<1>2. Covered
  BY <1>1 DEF LedgerInit, Covered, Available
<1>3. status # "refunded" /\ refunded = 0 /\ unpriced = 0 /\ (Earning => commission.base = Total)
  BY DEF LedgerInit, Init, Earning, NoCommission, Earned
<1> QED BY <1>1, <1>2, <1>3, RefundsAssumption DEF CommissionFollowsRefunds, Base

\* What the ledger needs to know of the order's books.
LEMMA RefundedTyped == LedgerSpec => [](refunded \in Nat)
<1>1. TypeOK => refunded \in Nat
  BY DEF TypeOK
<1> QED BY <1>1, Typing, LedgerOnlyWatches, PTL

(***************************************************************************)
(* Two administrators who pay one affiliate at once do not both pay the    *)
(* same balance, and only refunds and voided commissions leave it          *)
(* negative (AffiliateLedger::recordPayout).                               *)
(***************************************************************************)
THEOREM NoDoublePayout == LedgerSpec => []NoOverpayment
<1>1. LedgerInit => LedgerTyped /\ Covered
  BY LedgerStarts
<1>2. /\ LedgerTyped /\ Covered /\ refunded \in Nat /\ (refunded \in Nat)' /\ [LedgerNext]_allVars
      => LedgerTyped' /\ Covered'
  BY CoveredKept
<1>3. Covered => NoOverpayment
  BY DEF Covered, NoOverpayment
<1> QED BY <1>1, <1>2, <1>3, RefundedTyped, PTL DEF LedgerSpec

\* Money goes back only with a transition to a status that says so, or none.
LEMMA MoneyMovesTheOrder ==
  ASSUME Typed, [Next]_vars
  PROVE  refunded' = refunded \/ status' \in {"refunded", "partially_refunded"}
BY StatusSteps DEF Recorded, StatusAfter

\* What the commission is worked out on, while refunds stay within the total.
LEMMA BaseIsRest ==
  ASSUME NEW whole \in Nat, NEW back \in 0..whole
  PROVE  /\ (IF back < whole THEN whole - back ELSE 0) = whole - back
         /\ whole - back \in Nat
OBVIOUS

\* What was given back and not priced makes up for what the base lacks.
LEMMA Shifted ==
  ASSUME NEW a \in Nat, NEW b \in Nat, NEW t \in Nat, NEW u \in Int
  PROVE  (t - b) + (u + (b - a)) = (t - a) + u
OBVIOUS

LEMMA FollowKept ==
  ASSUME LedgerTyped, refunded \in 0..Total, refunded' \in 0..Total,
         refunded' = refunded \/ status' \in {"refunded", "partially_refunded"},
         CommissionFollowsRefunds, Follow
  PROVE  CommissionFollowsRefunds'
<1>1. /\ Total \in Nat /\ refunded \in Nat /\ refunded' \in Nat
      /\ Base = Total - refunded /\ Base' = Total - refunded'
      /\ Base' \in Nat /\ unpriced \in Int
  <2>1. Total \in Nat
    BY RefundsAssumption
  <2>2. Base = Total - refunded
    BY <2>1, BaseIsRest DEF Base
  <2>3. Base' = Total - refunded' /\ Total - refunded' \in Nat
    BY <2>1, BaseIsRest DEF Base
  <2>4. refunded \in Nat /\ refunded' \in Nat
    BY <2>1
  <2> QED BY <2>1, <2>2, <2>3, <2>4 DEF LedgerTyped
<1>2. ASSUME status' # "refunded", UNCHANGED <<commission, refunded, unpriced>>
      PROVE  CommissionFollowsRefunds'
  <2>1. Base' = Base /\ Earning' = Earning
    BY <1>2 DEF Base, Earning
  <2> QED BY <1>2, <2>1 DEF CommissionFollowsRefunds
<1>3. ASSUME ~Earning' PROVE CommissionFollowsRefunds'
  BY <1>3 DEF CommissionFollowsRefunds
<1>4. ASSUME status' # "refunded", commission'.base = Base', unpriced' = 0
      PROVE  CommissionFollowsRefunds'
  <2>1. commission'.base = Base' + unpriced'
    BY <1>1, <1>4
  <2> QED BY <1>4, <2>1 DEF CommissionFollowsRefunds
<1>5. CASE status' # status /\ status' \in {"paid", "fulfilled"}
  <2>1. Earn /\ status' # "refunded" /\ UNCHANGED refunded
    BY <1>5 DEF Follow, OrderMovedTo
  <2>2. CASE UNCHANGED <<commission, unpriced>>
    BY <1>2, <2>1, <2>2
  <2>3. CASE commission' = Earned(Base') /\ unpriced' = 0
    BY <1>4, <2>1, <2>3 DEF Earned
  <2> QED BY <2>1, <2>2, <2>3 DEF Earn
<1>6. CASE status' # status /\ status' = "partially_refunded"
  <2>1. Reprice
    BY <1>6 DEF Follow, OrderMovedTo
  <2>2. CASE ~Earning
    BY <1>3, <2>1, <2>2 DEF Reprice, Earning
  <2>3. CASE Earning
    <3>1. commission' = [commission EXCEPT !.base = Base'] /\ unpriced' = 0
      BY <2>1, <2>3 DEF Reprice
    <3>2. commission'.base = Base'
      BY <3>1 DEF LedgerTyped
    <3> QED BY <1>4, <1>6, <3>1, <3>2
  <2> QED BY <2>2, <2>3
<1>7. CASE status' # status /\ status' = "refunded"
  <2>1. commission' = Voided
    BY <1>7 DEF Follow, OrderMovedTo
  <2>2. ~Earning'
    BY <2>1 DEF Voided, Earning, LedgerTyped
  <2> QED BY <1>3, <2>2
<1>8. CASE status' # status /\ status' \notin {"paid", "fulfilled", "partially_refunded", "refunded"}
  <2>1. UNCHANGED <<commission, unpriced, refunded>> /\ status' # "refunded"
    BY <1>8 DEF Follow, OrderMovedTo
  <2> QED BY <1>2, <2>1
<1>9. CASE status' = status
  <2>1. commission' = commission /\ unpriced' = unpriced + (refunded' - refunded)
    BY <1>9 DEF Follow
  <2>2. Earning' = Earning
    BY <2>1 DEF Earning
  <2>3. Base' + unpriced' = Base + unpriced
    <3>1. /\ Total \in Nat /\ refunded \in Nat /\ refunded' \in Nat /\ unpriced \in Int
      BY <1>1
    <3>2. (Total - refunded') + (unpriced + (refunded' - refunded))
            = (Total - refunded) + unpriced
      BY <3>1, Shifted
    <3> QED BY <1>1, <2>1, <3>2
  <2> QED BY <1>9, <2>1, <2>2, <2>3 DEF CommissionFollowsRefunds
<1> QED BY <1>5, <1>6, <1>7, <1>8, <1>9

LEMMA FollowsKept ==
  ASSUME LedgerTyped, Typed, Decided, refunded \in 0..Total, refunded' \in 0..Total,
         CommissionFollowsRefunds, [LedgerNext]_allVars
  PROVE  CommissionFollowsRefunds'
<1>1. CASE OrderStep
  <2>1. [Next]_vars /\ Follow
    BY <1>1 DEF OrderStep
  <2> QED BY <2>1, MoneyMovesTheOrder, FollowKept
<1>2. ASSUME UNCHANGED <<status, refunded, unpriced>>,
             commission'.status = commission.status, commission'.base = commission.base
      PROVE  CommissionFollowsRefunds'
  BY <1>2 DEF CommissionFollowsRefunds, Earning, Base
<1>3. CASE HoldEnds
  BY <1>2, <1>3 DEF HoldEnds, LedgerTyped, vars
<1>4. CASE VoidCommission
  BY <1>4 DEF VoidCommission, Voided, CommissionFollowsRefunds, Earning, LedgerTyped
<1>5. ASSUME NEW c \in Cashiers,
             \/ \E m \in 1..Commission(Total) : CountBalance(c, m)
             \/ WritePayout(c) \/ LosePayout(c)
      PROVE  CommissionFollowsRefunds'
  BY <1>2, <1>5 DEF CountBalance, WritePayout, LosePayout, vars
<1>6. CASE SuspendOrRestore \/ UNCHANGED allVars
  BY <1>2, <1>6 DEF SuspendOrRestore, allVars, ledgerVars, vars
<1> QED BY <1>1, <1>3, <1>4, <1>5, <1>6 DEF LedgerNext

(***************************************************************************)
(* While no two requests decide on one refund at once, an order wholly     *)
(* refunded earns no commission and one refunded in part earns on what is  *)
(* left, but for the refunds that left the status as it was                *)
(* (orderMovedTo).                                                         *)
(***************************************************************************)
THEOREM CommissionFollows ==
  LedgerSpec /\ []OneDecides => []CommissionFollowsRefunds
<1>1. Init => Deliberate /\ Books
  BY DeliberateStarts, BooksOpened
<1>2. OneDecides /\ Deliberate /\ Books /\ [Next]_vars => Deliberate' /\ Books'
  BY DeliberateKept, BooksKept DEF Deliberate
<1>3. Deliberate /\ Books => Typed /\ Decided /\ refunded \in 0..Total
  <2> SUFFICES ASSUME Deliberate, Books
               PROVE  Typed /\ Decided /\ refunded \in 0..Total
    OBVIOUS
  <2>0. Typed /\ Decided
    BY DEF Deliberate
  <2>1. /\ refunded \in Nat /\ Total \in Nat
        /\ Cardinality(UnitsIn(amount, Outstanding)) \in Nat
    BY <2>0, RefundsAssumption, SumMonotone DEF Typed, Amounts
  <2>2. refunded + Cardinality(UnitsIn(amount, Outstanding)) <= Total
    BY DEF Books, RefundsWithinTotal, SumOver, Units, UnitsIn, Parts
  <2> QED BY <2>0, <2>1, <2>2
<1>4. Spec /\ []OneDecides => [](Typed /\ Decided /\ refunded \in 0..Total)
  BY <1>1, <1>2, <1>3, PTL DEF Spec
<1>5. LedgerSpec /\ []OneDecides => [](Typed /\ Decided /\ refunded \in 0..Total)
  BY <1>4, LedgerOnlyWatches, PTL
<1>6. LedgerInit => LedgerTyped /\ Covered /\ CommissionFollowsRefunds
  BY LedgerStarts
<1>7. /\ LedgerTyped /\ Covered /\ CommissionFollowsRefunds
      /\ Typed /\ Decided /\ refunded \in 0..Total
      /\ (Typed /\ Decided /\ refunded \in 0..Total)'
      /\ [LedgerNext]_allVars
      => LedgerTyped' /\ Covered' /\ CommissionFollowsRefunds'
  BY CoveredKept, FollowsKept
<1> QED BY <1>5, <1>6, <1>7, PTL DEF LedgerSpec
=============================================================================
