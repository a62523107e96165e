------------------------------ MODULE Licensing ------------------------------
(***************************************************************************)
(* The machines of one licence.  Support activates a machine by review: a  *)
(* customer files a request, reviewers move it, completing it binds the    *)
(* machine to the licence and deactivating it releases the machine         *)
(* (ActivationService, activation-review.tsx).  The AutoCAD connector      *)
(* activates one online: it pairs a device, the customer confirms it in a  *)
(* browser, the signing worker signs the activation grant of the machine,  *)
(* and the connector fetches and acknowledges it (OnlineLicensingService,  *)
(* OnlineLicenseController).  Both count the same machine bindings, under  *)
(* the lock on the licence; nothing else is locked.                        *)
(*                                                                         *)
(* The customer's other licences, refills and the text of a grant are left *)
(* out: the duplicate check and the grants of this licence are here.       *)
(***************************************************************************)
EXTENDS Integers, FiniteSets

CONSTANTS
  Requests,      \* rows of activation_requests, once filed
  Machines,      \* machine fingerprints
  Devices,       \* rows of nb_devices, once paired
  Reviewers,     \* transition calls of the dashboard at one time
  DeviceLimit,   \* device_limit of the licence
  MaxOverrides,  \* bound: requests completed past the limit
  None

ASSUME LicensingAssumption ==
  /\ IsFiniteSet(Machines)
  /\ DeviceLimit \in Nat /\ MaxOverrides \in Nat
  /\ None \notin Requests \union Machines \union Devices

VARIABLES
  usable,      \* the licence is issued or active, its order paid
  request,     \* activation_requests: status and machine
  binding,     \* machine_bindings: no row, bound, or released_at set
  desk,        \* the transition calls that have read their request
  device,      \* nb_devices: machine and how far the pairing is
  grantOf,     \* nb_token_issues: the device a machine's grant is for
  signed,      \* machines whose grant has its token
  applied,     \* machines whose grant has applied_at
  jobs,        \* grants the signing worker has fetched
  inbox,       \* devices with a delivered token they have not acknowledged
  connector,   \* external: the device a machine's connector speaks as
  latest,      \* history: the device of a machine confirmed last
  overrides,   \* history: requests completed past the limit
  overwritten  \* history: requests moved as their status no longer allowed

review == <<request, desk, overrides, overwritten>>
online == <<device, grantOf, signed, applied, jobs, inbox, connector, latest>>
vars   == <<usable, binding, review, online>>

Statuses == {"submitted", "under_review", "needs_info", "approved",
             "completed", "deactivated", "rejected"}

Open == {"submitted", "under_review", "approved"}

\* ActivationRequestStatus::next.
next(s) ==
  CASE s = "submitted"    -> {"under_review", "needs_info", "rejected"}
    [] s = "under_review" -> {"needs_info", "approved", "rejected"}
    [] s = "needs_info"   -> {"under_review", "rejected"}
    [] s = "approved"     -> {"completed", "rejected"}
    [] s = "completed"    -> {"deactivated"}
    [] s = "deactivated"  -> {"completed"}
    [] OTHER              -> {}

\* What the page offers, by the status it was loaded with.
NEXT_STATES(shown) ==
  CASE shown = "submitted"    -> {"under_review", "needs_info", "rejected"}
    [] shown = "under_review" -> {"approved", "needs_info", "rejected"}
    [] shown = "needs_info"   -> {"under_review", "rejected"}
    [] shown = "approved"     -> {"completed", "rejected"}
    [] shown = "completed"    -> {"deactivated"}
    [] shown = "deactivated"  -> {"completed"}
    [] OTHER                  -> {}

\* "The API enforces the same rules": every choice of the page has a status
\* the server allows it from, and the other way round.
ASSUME SameRules == \A s \in Statuses : NEXT_STATES(s) = next(s)

Bound == {m \in Machines : binding[m] = "bound"}

\* Machines with a request that is not settled yet hold a seat.
Held == {m \in Machines : \E r \in Requests :
           request[r].machine = m /\ request[r].status \in Open}

Init ==
  /\ usable = TRUE
  /\ request = [r \in Requests |-> [status |-> "none", machine |-> None]]
  /\ binding = [m \in Machines |-> "never"]
  /\ desk = [v \in Reviewers |-> None]
  /\ device = [d \in Devices |-> [state |-> "none", machine |-> None]]
  /\ grantOf = [m \in Machines |-> None]
  /\ signed = {} /\ applied = {} /\ jobs = {} /\ inbox = {}
  /\ connector = [m \in Machines |-> None]
  /\ latest = [m \in Machines |-> None]
  /\ overrides = 0 /\ overwritten = {}

\* revokeForOrder, when a refund takes the order's entitlements away: neither
\* bindings nor requests nor grants change.
Revoke ==
  /\ usable
  /\ usable' = FALSE
  /\ UNCHANGED <<binding, review, online>>

(***************************************************************************)
(* ActivationService::submit, called by the customer's form.  The licence  *)
(* is found usable before the transaction, which locks it but does not ask *)
(* again.                                                                  *)
(***************************************************************************)
File(r, m) ==
  /\ request[r].status = "none" /\ usable
  /\ request' = [request EXCEPT ![r] = [status |-> "filing", machine |-> m]]
  /\ UNCHANGED <<usable, binding, desk, overrides, overwritten, online>>

Acceptable(m) ==
  m \notin Held /\ m \notin Bound /\ Cardinality(Bound \union Held) < DeviceLimit

\* Refused with 409, the request is not stored and the form may send another.
Submit(r) ==
  /\ request[r].status = "filing"
  /\ request' = [request EXCEPT ![r] =
       IF Acceptable(@.machine) THEN [@ EXCEPT !.status = "submitted"]
                                ELSE [status |-> "none", machine |-> None]]
  /\ UNCHANGED <<usable, binding, desk, overrides, overwritten, online>>

(***************************************************************************)
(* ActivationService::transition.  The request is read, and the move       *)
(* allowed, before the transaction that writes it.  The page may be of any *)
(* age: the status it shows only chooses what it offers.                   *)
(***************************************************************************)
Review(v, r) ==
  /\ desk[v] = None
  /\ \E shown \in Statuses, to \in Statuses :
       /\ to \in NEXT_STATES(shown) /\ to \in next(request[r].status)
       /\ desk' = [desk EXCEPT ![v] = [request |-> r, to |-> to]]
  /\ UNCHANGED <<usable, request, binding, overrides, overwritten, online>>

\* Mutant: the comparison with the limit lets one more in.
SeatFreeOrLast == Cardinality(Bound) <= DeviceLimit

\* A seat for a machine that is not bound; the requests still open are not
\* counted here.
SeatFree == Cardinality(Bound) < DeviceLimit

\* The machine's row is made, or a released one used again; past the limit
\* only if the reviewer ticked the override.
bindMachine(m) ==
  IF m \in Bound THEN UNCHANGED <<binding, overrides>>
  ELSE /\ binding' = [binding EXCEPT ![m] = "bound"]
       /\ \/ SeatFree /\ UNCHANGED overrides
          \/ ~SeatFree /\ overrides < MaxOverrides /\ overrides' = overrides + 1

\* Mutant: deactivating a request leaves its machine bound.
releaseMachineNever(m) == UNCHANGED binding

releaseMachine(m) ==
  binding' = IF m \in Bound THEN [binding EXCEPT ![m] = "released"] ELSE binding

Decide(v) ==
  LET r == desk[v].request
      m == request[r].machine IN
  /\ desk[v] # None
  /\ CASE desk[v].to = "completed"   -> bindMachine(m)
       [] desk[v].to = "deactivated" -> releaseMachine(m) /\ UNCHANGED overrides
       [] OTHER                      -> UNCHANGED <<binding, overrides>>
  /\ request' = [request EXCEPT ![r].status = desk[v].to]
  /\ overwritten' = IF desk[v].to \in next(request[r].status)
                      THEN overwritten ELSE overwritten \union {r}
  /\ desk' = [desk EXCEPT ![v] = None]
  /\ UNCHANGED <<usable, online>>

\* The process dies, or bindMachine throws: nothing is written.
Abandon(v) ==
  /\ desk[v] # None
  /\ desk' = [desk EXCEPT ![v] = None]
  /\ UNCHANGED <<usable, binding, request, overrides, overwritten, online>>

(***************************************************************************)
(* The online side.  The connector pairs a device of its machine and polls *)
(* with that device's secret from then on.  A pairing that expires is one  *)
(* that nobody confirms.                                                   *)
(***************************************************************************)
pair(d, m) ==
  /\ device[d].state = "none"
  /\ device' = [device EXCEPT ![d] = [state |-> "paired", machine |-> m]]
  /\ connector' = [connector EXCEPT ![m] = d]
  /\ UNCHANGED <<usable, binding, review, grantOf, signed, applied, jobs, inbox, latest>>

\* Mutant: insertOrIgnore alone, the grant stays with the device it was made for.
IssuedFirst(d, m) == IF grantOf[m] = None THEN d ELSE grantOf[m]

\* One grant per machine, moved to the device just confirmed.
Issued(d, m) == d

\* A released machine still has its row, and a second one breaks the unique
\* index: the call fails.
confirm(d) ==
  LET m == device[d].machine IN
  /\ usable /\ device[d].state = "paired"
  /\ m \in Bound \/ (binding[m] = "never" /\ SeatFree)
  /\ binding' = [binding EXCEPT ![m] = "bound"]
  /\ device' = [device EXCEPT ![d].state = "confirmed"]
  /\ grantOf' = [grantOf EXCEPT ![m] = Issued(d, m)]
  /\ latest' = [latest EXCEPT ![m] = d]
  /\ UNCHANGED <<usable, review, signed, applied, jobs, inbox, connector>>

\* The signing worker fetches grants without a token of usable licences, and
\* brings a token back, whatever has happened since.
pending(m) ==
  /\ grantOf[m] # None /\ m \notin signed \union jobs /\ usable
  /\ jobs' = jobs \union {m}
  /\ UNCHANGED <<usable, binding, review, device, grantOf, signed, applied, inbox,
                 connector, latest>>

complete(m) ==
  /\ m \in jobs
  /\ jobs' = jobs \ {m}
  /\ signed' = signed \union {m}
  /\ UNCHANGED <<usable, binding, review, device, grantOf, applied, inbox,
                 connector, latest>>

\* The connector fetches the token of the device it speaks as.
delivery(m) ==
  LET d == connector[m] IN
  /\ d # None /\ d \notin inbox
  /\ device[d].state = "confirmed" /\ usable /\ m \in Bound
  /\ grantOf[m] = d /\ m \in signed \ applied
  /\ inbox' = inbox \union {d}
  /\ UNCHANGED <<usable, binding, review, device, grantOf, signed, applied, jobs,
                 connector, latest>>

\* Acknowledged, unless the grant has moved to another device meanwhile.
acknowledge(d) ==
  /\ d \in inbox
  /\ inbox' = inbox \ {d}
  /\ applied' = applied \union {m \in signed : grantOf[m] = d}
  /\ UNCHANGED <<usable, binding, review, device, grantOf, signed, jobs,
                 connector, latest>>

Next ==
  \/ Revoke
  \/ \E r \in Requests : Submit(r) \/ \E m \in Machines : File(r, m)
  \/ \E v \in Reviewers : Decide(v) \/ Abandon(v) \/ \E r \in Requests : Review(v, r)
  \/ \E d \in Devices : confirm(d) \/ acknowledge(d)
                          \/ \E m \in Machines : pair(d, m)
  \/ \E m \in Machines : pending(m) \/ complete(m) \/ delivery(m)

Spec == Init /\ [][Next]_vars

\* The signing worker runs again and again, and a connector keeps polling.
Fairness ==
  /\ \A m \in Machines : WF_vars(pending(m)) /\ WF_vars(complete(m)) /\ WF_vars(delivery(m))
  /\ \A d \in Devices : WF_vars(acknowledge(d))

FairSpec == Spec /\ Fairness

TypeOK ==
  /\ usable \in BOOLEAN
  /\ request \in [Requests -> [status : Statuses \union {"none", "filing"},
                               machine : Machines \union {None}]]
  /\ binding \in [Machines -> {"never", "bound", "released"}]
  /\ desk \in [Reviewers -> {None} \union [request : Requests, to : Statuses]]
  /\ device \in [Devices -> [state : {"none", "paired", "confirmed"},
                             machine : Machines \union {None}]]
  /\ grantOf \in [Machines -> Devices \union {None}]
  /\ signed \subseteq Machines /\ applied \subseteq Machines /\ jobs \subseteq Machines
  /\ inbox \subseteq Devices
  /\ connector \in [Machines -> Devices \union {None}]
  /\ latest \in [Machines -> Devices \union {None}]
  /\ overrides \in Nat /\ overwritten \subseteq Requests

\* No more machines are bound than the licence allows and reviewers let in
\* past it, whichever requests are filed, completed, released and completed
\* again while connectors confirm machines of their own.
SeatsWithinLimit == Cardinality(Bound) <= DeviceLimit + overrides

\* A seat is never taken by nobody: a bound machine has a completed request,
\* whose deactivation gives the seat back, or was connected online, unless a
\* reviewer wrote over a decision made after the request was read.
SeatHasAnOwner ==
  \A m \in Bound :
    \/ \E r \in Requests : /\ request[r].machine = m
                           /\ request[r].status = "completed" \/ r \in overwritten
    \/ \E d \in Devices : device[d].machine = m /\ device[d].state = "confirmed"

\* The one grant of a machine always is for the device confirmed last, at
\* whatever point of signing and delivery a reconnection moved it; a token is
\* only delivered to a confirmed device, and when that of the latest device is
\* acknowledged there is a signed grant for the acknowledgement to count for.
GrantFollows ==
  /\ \A m \in Machines :
       /\ grantOf[m] = latest[m]
       /\ latest[m] # None => device[latest[m]] = [state |-> "confirmed", machine |-> m]
       /\ latest[m] \in inbox => m \in signed
       /\ m \in signed \union jobs => latest[m] # None
  /\ \A d \in inbox : device[d].state = "confirmed"
  /\ applied \subseteq signed

\* The machine stays bound to a usable licence, and its connector speaks as
\* the device confirmed last.
Connected(m) ==
  usable /\ m \in Bound /\ latest[m] # None /\ connector[m] = latest[m]

\* A machine that stays connected gets its token: reconnecting moves the one
\* grant of the machine, at whatever point of its signing and delivery.
GrantArrives == \A m \in Machines : <>[]Connected(m) => <>(m \in applied)
=============================================================================
