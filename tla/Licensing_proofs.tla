--------------------------- MODULE Licensing_proofs ---------------------------
(***************************************************************************)
(* The machines of a licence for any number of requests, machines, devices *)
(* and reviewers and any limit: no seat is taken past the limit, and none  *)
(* by nobody.                                                              *)
(***************************************************************************)
EXTENDS Licensing, FiniteSetTheorems, TLAPS

\* What is written about a machine is about a machine.
Grounded ==
  /\ \A r \in Requests : request[r].status # "none" => request[r].machine \in Machines
  /\ \A v \in Reviewers : desk[v] # None => request[desk[v].request].status \in Statuses
  /\ \A r \in overwritten : request[r].status \in Statuses
  /\ \A d \in Devices : device[d].state # "none" => device[d].machine \in Machines

IInv == TypeOK /\ Grounded /\ SeatsWithinLimit /\ SeatHasAnOwner

\* The bound machines can be counted.
LEMMA BoundCounted == IsFiniteSet(Bound) /\ Cardinality(Bound) \in Nat
<1>1. Bound \subseteq Machines
  BY DEF Bound
<1>. QED  BY <1>1, LicensingAssumption, FS_Subset, FS_CardinalityType

\* Binding a machine takes one seat.
LEMMA BindingTakesOne ==
  ASSUME TypeOK, NEW m \in Machines, m \notin Bound,
         binding' = [binding EXCEPT ![m] = "bound"]
  PROVE  Bound' = Bound \union {m} /\ Cardinality(Bound') = Cardinality(Bound) + 1
<1>1. Bound' = Bound \union {m}
  BY DEF Bound, TypeOK
<1>. QED  BY <1>1, BoundCounted, FS_AddElement

\* Releasing a machine gives seats back.
LEMMA ReleasingGivesBack ==
  ASSUME TypeOK, NEW m \in Machines, releaseMachine(m)
  PROVE  /\ Bound' = Bound \ {m}
         /\ Cardinality(Bound') \in Nat /\ Cardinality(Bound') <= Cardinality(Bound)
<1>1. Bound' = Bound \ {m}
  BY DEF Bound, TypeOK, releaseMachine
<1>2. Bound' \subseteq Bound
  BY <1>1
<1>. QED  BY <1>1, <1>2, BoundCounted, FS_Subset, FS_CardinalityType

\* The initial states satisfy the invariant.
LEMMA InitHolds == Init => IInv
<1>. SUFFICES ASSUME Init PROVE IInv
  OBVIOUS
<1>1. TypeOK
  BY LicensingAssumption DEF Init, TypeOK
<1>2. Grounded
  BY DEF Init, Grounded
<1>3. Bound = {}
  BY DEF Init, Bound
<1>4. SeatsWithinLimit
  BY <1>3, FS_EmptySet, LicensingAssumption DEF Init, SeatsWithinLimit
<1>. QED  BY <1>1, <1>2, <1>3, <1>4 DEF IInv, SeatHasAnOwner

\* A step that binds and overrides nothing, and settles no request, keeps
\* the seats.
LEMMA SeatsKept ==
  ASSUME SeatsWithinLimit, SeatHasAnOwner, UNCHANGED <<binding, overrides, overwritten>>,
         \A r \in Requests : request[r].status = "completed" \/ r \in overwritten
                               => request'[r].machine = request[r].machine
                                  /\ (request'[r].status = request[r].status \/ r \in overwritten),
         \A d \in Devices : device[d].state = "confirmed" => device'[d] = device[d]
  PROVE  SeatsWithinLimit' /\ SeatHasAnOwner'
<1>1. Bound' = Bound
  BY DEF Bound
<1>. QED  BY <1>1 DEF SeatsWithinLimit, SeatHasAnOwner

\* The customer's form and the refund that revokes the licence.
LEMMA CustomerKeeps ==
  ASSUME IInv,
         \/ Revoke
         \/ \E r \in Requests : Submit(r) \/ \E m \in Machines : File(r, m)
  PROVE  IInv'
<1>. TypeOK /\ Grounded /\ SeatsWithinLimit /\ SeatHasAnOwner
  BY DEF IInv
<1>1. CASE Revoke
  <2>1. TypeOK' /\ Grounded'
    BY <1>1 DEF Revoke, TypeOK, Grounded, review, online
  <2>2. SeatsWithinLimit' /\ SeatHasAnOwner'
    BY <1>1, SeatsKept DEF Revoke, review, online
  <2>. QED  BY <2>1, <2>2 DEF IInv
<1>2. CASE \E r \in Requests : Submit(r)
  <2>. PICK r \in Requests : Submit(r)
    BY <1>2
  <2>0. /\ UNCHANGED <<usable, binding, desk, overrides, overwritten, online>>
        /\ request[r].status = "filing" /\ request[r].machine \in Machines
        /\ \/ request' = [request EXCEPT ![r] = [request[r] EXCEPT !.status = "submitted"]]
           \/ request' = [request EXCEPT ![r] = [status |-> "none", machine |-> None]]
    BY DEF Submit, TypeOK, Grounded
  <2>a. r \notin overwritten
    BY <2>0 DEF Grounded, Statuses
  <2>b. PICK x \in [status : {"none", "submitted"}, machine : Machines \union {None}] :
          /\ request' = [request EXCEPT ![r] = x]
          /\ x.status = "submitted" => x.machine \in Machines
    <3>1. request[r] \in [status : Statuses \union {"none", "filing"},
                          machine : Machines \union {None}]
      BY DEF TypeOK
    <3>. QED  BY <2>0, <3>1
  <2>1. TypeOK'
    BY <2>0, <2>b DEF TypeOK, Statuses, online
  <2>2. Grounded'
    <3>1. \A v \in Reviewers : desk[v] # None => desk[v].request # r
      BY <2>0 DEF Grounded, Statuses
    <3>. QED  BY <2>0, <2>a, <2>b, <3>1 DEF TypeOK, Grounded, online
  <2>3. SeatsWithinLimit' /\ SeatHasAnOwner'
    BY <2>0, <2>a, SeatsKept DEF TypeOK, online
  <2>. QED  BY <2>1, <2>2, <2>3 DEF IInv
<1>3. CASE \E r \in Requests, m \in Machines : File(r, m)
  <2>. PICK r \in Requests, m \in Machines : File(r, m)
    BY <1>3
  <2>1. TypeOK'
    BY DEF File, TypeOK, online
  <2>2. Grounded'
    BY DEF File, TypeOK, Grounded, online, Statuses
  <2>a. r \notin overwritten
    BY DEF File, Grounded, Statuses
  <2>3. SeatsWithinLimit' /\ SeatHasAnOwner'
    BY <2>a, SeatsKept DEF File, TypeOK, online
  <2>. QED  BY <2>1, <2>2, <2>3 DEF IInv
<1>. QED  BY <1>1, <1>2, <1>3

\* A request is moved from a status of the table, to one of the table.
LEMMA TableClosed == \A s, to : to \in next(s) => s \in Statuses /\ to \in Statuses
  BY DEF next, Statuses

\* Reading a request for a transition, or giving the transition up.
LEMMA ReadingKeeps ==
  ASSUME IInv, NEW v \in Reviewers,
         Abandon(v) \/ \E r \in Requests : Review(v, r)
  PROVE  IInv'
<1>. TypeOK /\ Grounded /\ SeatsWithinLimit /\ SeatHasAnOwner
  BY DEF IInv
<1>1. /\ UNCHANGED <<usable, request, binding, overrides, overwritten, online>>
      /\ \/ desk' = [desk EXCEPT ![v] = None]
         \/ \E r \in Requests, to \in Statuses :
              /\ desk' = [desk EXCEPT ![v] = [request |-> r, to |-> to]]
              /\ request[r].status \in Statuses
  BY TableClosed DEF Abandon, Review
<1>2. TypeOK'
  BY <1>1 DEF TypeOK, online
<1>3. Grounded'
  BY <1>1 DEF TypeOK, Grounded, online
<1>4. SeatsWithinLimit' /\ SeatHasAnOwner'
  BY <1>1, SeatsKept DEF online
<1>. QED  BY <1>2, <1>3, <1>4 DEF IInv

\* The transition: the request moves, and its machine with it.
LEMMA DecidingKeeps ==
  ASSUME IInv, NEW v \in Reviewers, Decide(v)
  PROVE  IInv'
<1>. TypeOK /\ Grounded /\ SeatsWithinLimit /\ SeatHasAnOwner
  BY DEF IInv
<1>. DEFINE r  == desk[v].request
            m  == request[r].machine
            to == desk[v].to
<1>1. /\ r \in Requests /\ to \in Statuses /\ desk[v] # None
      /\ request[r].status \in Statuses /\ m \in Machines
  BY DEF Decide, TypeOK, Grounded, Statuses
<1>2. /\ request' = [request EXCEPT ![r].status = to]
      /\ overwritten' = IF to \in next(request[r].status)
                          THEN overwritten ELSE overwritten \union {r}
      /\ desk' = [desk EXCEPT ![v] = None]
      /\ UNCHANGED <<usable, online>>
  BY DEF Decide
<1>3. \/ to = "completed" /\ bindMachine(m)
      \/ to = "deactivated" /\ releaseMachine(m) /\ overrides' = overrides
      \/ to \notin {"completed", "deactivated"} /\ UNCHANGED <<binding, overrides>>
  BY DEF Decide
<1>4. \A q \in Requests : /\ request'[q].machine = request[q].machine
                          /\ request'[q].status = IF q = r THEN to ELSE request[q].status
  BY <1>1, <1>2 DEF TypeOK
<1>5. binding' \in [Machines -> {"never", "bound", "released"}] /\ overrides' \in Nat
  BY <1>1, <1>3 DEF TypeOK, bindMachine, releaseMachine
<1>6. TypeOK'
  <2>1. request' \in [Requests -> [status : Statuses \union {"none", "filing"},
                                   machine : Machines \union {None}]]
    BY <1>1, <1>2 DEF TypeOK
  <2>. QED  BY <1>1, <1>2, <1>5, <2>1 DEF TypeOK, online
<1>7. Grounded'
  BY <1>1, <1>2, <1>4 DEF TypeOK, Grounded, Statuses, online
<1>8. SeatsWithinLimit'
  <2>1. CASE UNCHANGED <<binding, overrides>>
    BY <2>1 DEF SeatsWithinLimit, Bound
  <2>2. CASE releaseMachine(m) /\ overrides' = overrides
    <3>1. Cardinality(Bound') \in Nat /\ Cardinality(Bound') <= Cardinality(Bound)
      BY <1>1, <2>2, ReleasingGivesBack
    <3>. QED  BY <2>2, <3>1, BoundCounted, LicensingAssumption DEF SeatsWithinLimit, TypeOK
  <2>3. CASE bindMachine(m) /\ m \notin Bound
    <3>1. Cardinality(Bound') = Cardinality(Bound) + 1
      BY <1>1, <2>3, BindingTakesOne DEF bindMachine
    <3>2. \/ Cardinality(Bound) < DeviceLimit /\ overrides' = overrides
          \/ overrides' = overrides + 1
      BY <2>3 DEF bindMachine, SeatFree
    <3>. QED  BY <3>1, <3>2, BoundCounted, LicensingAssumption DEF SeatsWithinLimit, TypeOK
  <2>. QED  BY <1>3, <2>1, <2>2, <2>3 DEF bindMachine
<1>9. SeatHasAnOwner'
  <2>1. CASE to = "completed" /\ bindMachine(m)
    <3>1. Bound' \subseteq Bound \union {m}
      BY <1>1, <2>1, BindingTakesOne DEF bindMachine, Bound
    <3>. QED  BY <1>1, <1>2, <1>4, <2>1, <3>1 DEF SeatHasAnOwner, online
  <2>2. CASE to = "deactivated" /\ releaseMachine(m)
    <3>1. Bound' = Bound \ {m}
      BY <1>1, <2>2, ReleasingGivesBack
    <3>. QED  BY <1>1, <1>2, <1>4, <3>1 DEF SeatHasAnOwner, online
  <2>3. CASE to \notin {"completed", "deactivated"} /\ UNCHANGED binding
    <3>1. Bound' = Bound
      BY <2>3 DEF Bound
    <3>2. request[r].status = "completed" => r \in overwritten'
      BY <1>2, <2>3 DEF next
    <3>. QED  BY <1>1, <1>2, <1>4, <3>1, <3>2 DEF SeatHasAnOwner, online
  <2>. QED  BY <1>3, <2>1, <2>2, <2>3
<1>. QED  BY <1>6, <1>7, <1>8, <1>9 DEF IInv

\* The connector and the signing worker.
LEMMA OnlineKeeps ==
  ASSUME IInv,
         \/ \E d \in Devices : acknowledge(d) \/ \E m \in Machines : pair(d, m)
         \/ \E m \in Machines : pending(m) \/ complete(m) \/ delivery(m)
  PROVE  IInv'
<1>. TypeOK /\ Grounded /\ SeatsWithinLimit /\ SeatHasAnOwner
  BY DEF IInv
<1>1. TypeOK'
  <2>1. ASSUME NEW d \in Devices, acknowledge(d) PROVE TypeOK'
    BY <2>1 DEF TypeOK, acknowledge, review
  <2>2. ASSUME NEW d \in Devices, NEW m \in Machines, pair(d, m) PROVE TypeOK'
    BY <2>2 DEF TypeOK, pair, review
  <2>3. ASSUME NEW m \in Machines, pending(m) PROVE TypeOK'
    BY <2>3 DEF TypeOK, pending, review
  <2>4. ASSUME NEW m \in Machines, complete(m) PROVE TypeOK'
    BY <2>4 DEF TypeOK, complete, review
  <2>5. ASSUME NEW m \in Machines, delivery(m) PROVE TypeOK'
    BY <2>5 DEF TypeOK, delivery, review
  <2>. QED  BY <2>1, <2>2, <2>3, <2>4, <2>5
<1>2. /\ UNCHANGED <<binding, review>>
      /\ \/ UNCHANGED device
         \/ \E d \in Devices, m \in Machines :
              /\ device[d].state = "none"
              /\ device' = [device EXCEPT ![d] = [state |-> "paired", machine |-> m]]
  BY DEF acknowledge, pair, pending, complete, delivery
<1>3. Grounded'
  BY <1>2 DEF TypeOK, Grounded, review
<1>4. SeatsWithinLimit' /\ SeatHasAnOwner'
  BY <1>2, SeatsKept DEF TypeOK, review
<1>. QED  BY <1>1, <1>3, <1>4 DEF IInv

\* Confirming a device binds its machine, within the limit.
LEMMA ConfirmingKeeps ==
  ASSUME IInv, NEW d \in Devices, confirm(d)
  PROVE  IInv'
<1>. TypeOK /\ Grounded /\ SeatsWithinLimit /\ SeatHasAnOwner
  BY DEF IInv
<1>. DEFINE m == device[d].machine
<1>1. /\ m \in Machines /\ device[d].state = "paired"
      /\ m \in Bound \/ SeatFree
      /\ binding' = [binding EXCEPT ![m] = "bound"]
      /\ device' = [device EXCEPT ![d].state = "confirmed"]
      /\ grantOf' = [grantOf EXCEPT ![m] = d] /\ latest' = [latest EXCEPT ![m] = d]
      /\ UNCHANGED <<usable, review, signed, applied, jobs, inbox, connector>>
  BY DEF confirm, Grounded, Issued
<1>2. Bound' = Bound \union {m}
  BY <1>1 DEF Bound, TypeOK
<1>3. TypeOK'
  BY <1>1 DEF TypeOK, review
<1>4. Grounded'
  BY <1>1 DEF TypeOK, Grounded, review
<1>5. SeatsWithinLimit'
  <2>1. CASE m \in Bound
    BY <1>1, <1>2, <2>1 DEF SeatsWithinLimit, review
  <2>2. CASE m \notin Bound
    <3>1. Cardinality(Bound') = Cardinality(Bound) + 1
      BY <1>1, <2>2, BindingTakesOne
    <3>. QED  BY <1>1, <2>2, <3>1, BoundCounted, LicensingAssumption
              DEF SeatsWithinLimit, SeatFree, TypeOK, review
  <2>. QED  BY <2>1, <2>2
<1>6. SeatHasAnOwner'
  <2>1. device'[d].machine = m /\ device'[d].state = "confirmed"
    BY <1>1 DEF TypeOK
  <2>2. \A x \in Devices : device[x].state = "confirmed" => device'[x] = device[x]
    BY <1>1 DEF TypeOK
  <2>. QED  BY <1>1, <1>2, <2>1, <2>2 DEF SeatHasAnOwner, review
<1>. QED  BY <1>3, <1>4, <1>5, <1>6 DEF IInv

\* Every step keeps the invariant.
LEMMA StepKeeps == IInv /\ [Next]_vars => IInv'
<1>. SUFFICES ASSUME IInv, [Next]_vars PROVE IInv'
  OBVIOUS
<1>1. CASE UNCHANGED vars
  <2>1. Bound' = Bound
    BY <1>1 DEF vars, Bound
  <2>. QED  BY <1>1, <2>1 DEF IInv, TypeOK, Grounded, SeatsWithinLimit, SeatHasAnOwner,
                          vars, review, online
<1>2. CASE Next
  BY <1>2, CustomerKeeps, ReadingKeeps, DecidingKeeps, OnlineKeeps, ConfirmingKeeps DEF Next
<1>. QED  BY <1>1, <1>2

\* The inductive invariant of ActivationService and OnlineLicensingService
\* holds in every reachable state.
THEOREM Invariance == Spec => []IInv
  BY InitHolds, StepKeeps, PTL DEF Spec

\* Completed requests and confirmed devices never take a seat past the
\* licence's device limit and the overrides of reviewers.
THEOREM Seats == Spec => []SeatsWithinLimit
<1>1. IInv => SeatsWithinLimit
  BY DEF IInv
<1>. QED  BY <1>1, Invariance, PTL

\* A seat belongs to a completed request or a confirmed device, unless a
\* transition overwrote a decision it had not seen.
THEOREM Owners == Spec => []SeatHasAnOwner
<1>1. IInv => SeatHasAnOwner
  BY DEF IInv
<1>. QED  BY <1>1, Invariance, PTL

\* The grant of a machine follows the device confirmed last.
LEMMA GrantKept == TypeOK /\ GrantFollows /\ [Next]_vars => GrantFollows'
<1>. SUFFICES ASSUME TypeOK, GrantFollows, [Next]_vars PROVE GrantFollows'
  OBVIOUS
<1>. USE LicensingAssumption DEF TypeOK
<1>1. CASE UNCHANGED online
  BY <1>1 DEF online, GrantFollows
<1>2. ASSUME NEW d \in Devices, NEW m \in Machines, pair(d, m) PROVE GrantFollows'
  <2>1. \A x \in Devices : device[x].state = "confirmed" => device'[x] = device[x]
    BY <1>2 DEF pair
  <2>. QED  BY <1>2, <2>1 DEF pair, GrantFollows
<1>3. ASSUME NEW d \in Devices, confirm(d) PROVE GrantFollows'
  <2>. DEFINE m == device[d].machine
  <2>1. /\ device[d].state = "paired" /\ d \notin inbox
        /\ device' = [device EXCEPT ![d].state = "confirmed"]
        /\ grantOf' = [grantOf EXCEPT ![m] = d] /\ latest' = [latest EXCEPT ![m] = d]
        /\ UNCHANGED <<signed, applied, jobs, inbox>>
    BY <1>3 DEF confirm, Issued, GrantFollows
  <2>2. \A x \in Devices : x # d => device'[x] = device[x]
    BY <2>1
  <2>3. device'[d] = [state |-> "confirmed", machine |-> m]
    BY <2>1
  <2>4. \A n \in Machines : n # m => grantOf'[n] = grantOf[n] /\ latest'[n] = latest[n]
    BY <2>1
  <2>5. \A n \in Machines : n = m => grantOf'[n] = d /\ latest'[n] = d
    BY <2>1
  <2>6. \A n \in Machines : latest[n] # d
    <3>. SUFFICES ASSUME NEW n \in Machines, latest[n] = d PROVE FALSE
      OBVIOUS
    <3>1. device[d] = [state |-> "confirmed", machine |-> n]
      BY DEF GrantFollows
    <3>. QED  BY <2>1, <3>1
  <2>. QED  BY <2>1, <2>2, <2>3, <2>4, <2>5, <2>6 DEF GrantFollows
<1>4. ASSUME NEW m \in Machines, pending(m) PROVE GrantFollows'
  BY <1>4 DEF pending, GrantFollows
<1>5. ASSUME NEW m \in Machines, complete(m) PROVE GrantFollows'
  BY <1>5 DEF complete, GrantFollows
<1>6. ASSUME NEW m \in Machines, delivery(m) PROVE GrantFollows'
  <2>1. \A n \in Machines : latest[n] = connector[m] => n = m
    <3>. SUFFICES ASSUME NEW n \in Machines, latest[n] = connector[m] PROVE n = m
      OBVIOUS
    <3>1. connector[m] # None /\ latest[m] = connector[m]
      BY <1>6 DEF delivery, GrantFollows
    <3>2. /\ device[connector[m]] = [state |-> "confirmed", machine |-> n]
          /\ device[connector[m]] = [state |-> "confirmed", machine |-> m]
      BY <3>1 DEF GrantFollows
    <3>3. device[connector[m]].machine = n /\ device[connector[m]].machine = m
      BY <3>2
    <3>. QED  BY <3>3
  <2>. QED  BY <1>6, <2>1 DEF delivery, GrantFollows
<1>7. ASSUME NEW d \in Devices, acknowledge(d) PROVE GrantFollows'
  BY <1>7 DEF acknowledge, GrantFollows
<1>8. CASE \/ Revoke
           \/ \E r \in Requests : Submit(r) \/ \E m \in Machines : File(r, m)
           \/ \E v \in Reviewers : Decide(v) \/ Abandon(v) \/ \E r \in Requests : Review(v, r)
  BY <1>1, <1>8 DEF Revoke, Submit, File, Decide, Abandon, Review
<1>. QED  BY <1>1, <1>2, <1>3, <1>4, <1>5, <1>6, <1>7, <1>8 DEF Next, vars

\* Reconnecting a machine moves its one grant to the device confirmed last,
\* wherever the grant is between the signing worker and the connector, and
\* an acknowledgement of that device is never for nothing.
THEOREM GrantsFollow == Spec => []GrantFollows
<1>1. Init => GrantFollows
  BY DEF Init, GrantFollows
<1>2. IInv => TypeOK
  BY DEF IInv
<1>. QED  BY <1>1, <1>2, GrantKept, Invariance, PTL DEF Spec
=============================================================================
