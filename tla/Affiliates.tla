----------------------------- MODULE Affiliates -----------------------------
(***************************************************************************)
(* The affiliate ledger (AffiliateLedger) on top of the refund side: the   *)
(* commission a referred order earns, what refunds do to it, and the       *)
(* payouts recorded against the balance.                                   *)
(*                                                                         *)
(* The ledger has no steps of its own on an order: OrderStateMachine calls *)
(* it in the transaction of every transition that changes the status, and  *)
(* of no other.  So each step of Refunds is taken together with what the   *)
(* ledger makes of it.  One affiliate, one referred order.                 *)
(***************************************************************************)
EXTENDS Refunds

CONSTANTS
  Cashiers,   \* requests of administrators that record payouts
  Rate        \* the affiliate's rate, in hundredths of a percent

ASSUME AffiliatesAssumption == IsFiniteSet(Cashiers) /\ Rate \in 0..9000

VARIABLES
  active,     \* affiliates.status = active
  commission, \* the row of affiliate_commissions: status, base_minor, and
              \*   whether available_at has passed
  cashier,    \* the amount each request is about to record, 0 when it is not
  paidOut,    \* the sum of affiliate_payouts
  unpriced,   \* history: refunded since the commission was last worked out
  clawed      \* history: what left the balance by a refund or by hand

ledgerVars == <<active, commission, cashier, paidOut, unpriced, clawed>>
allVars    == <<vars, ledgerVars>>

NoCommission == [status |-> "none", base |-> 0, released |-> FALSE]

\* baseFor: what the customer paid less what went back, tax aside.
Base == IF refunded < Total THEN Total - refunded ELSE 0

\* percentOf: rounded down.
Commission(base) == (base * Rate) \div 10000

Earning == commission.status = "earned"

Available == IF Earning /\ commission.released THEN Commission(commission.base) ELSE 0

Earned(base) == [status |-> "earned", base |-> base, released |-> FALSE]

\* The order was paid before; its affiliate may have been suspended then.
LedgerInit ==
  /\ Init
  /\ active \in BOOLEAN
  /\ commission \in {NoCommission, Earned(Total)}
  /\ cashier = [c \in Cashiers |-> 0]
  /\ paidOut = 0 /\ unpriced = 0 /\ clawed = 0

-----------------------------------------------------------------------------
(* AffiliateLedger::orderMovedTo, with the order as the transition left it. *)

\* Once per order, and not while the affiliate is suspended.
Earn ==
  IF commission.status # "none" \/ ~active \/ Base' <= 0
    THEN UNCHANGED <<commission, unpriced>>
    ELSE commission' = Earned(Base') /\ unpriced' = 0

\* Mutant: the base is worked out without what was refunded.
RepriceWhole ==
  IF ~Earning THEN UNCHANGED <<commission, unpriced>>
  ELSE commission' = [commission EXCEPT !.base = Total] /\ unpriced' = 0

Reprice ==
  IF ~Earning THEN UNCHANGED <<commission, unpriced>>
  ELSE commission' = [commission EXCEPT !.base = Base'] /\ unpriced' = 0

Voided == IF Earning THEN [commission EXCEPT !.status = "void"] ELSE commission

OrderMovedTo(to) ==
  CASE to \in {"paid", "fulfilled"}    -> Earn
    [] to = "partially_refunded"       -> Reprice
    [] to = "refunded"                 -> commission' = Voided /\ unpriced' = unpriced
    [] OTHER                           -> UNCHANGED <<commission, unpriced>>

\* A transition to the status the order has returns before it calls the ledger.
Follow ==
  IF status' # status THEN OrderMovedTo(status')
  ELSE commission' = commission /\ unpriced' = unpriced + (refunded' - refunded)

Claw == clawed' = clawed + (IF Available' < Available THEN Available - Available' ELSE 0)

OrderStep ==
  /\ Next
  /\ Follow /\ Claw
  /\ UNCHANGED <<active, cashier, paidOut>>

-----------------------------------------------------------------------------
(* Admin\AffiliateController, and time.                                    *)

\* Mutant: the affiliate's row is not locked.
NobodyWatched == TRUE

\* The lock on the affiliate's row, which recordPayout holds.
NobodyPays == \A c \in Cashiers : cashier[c] = 0

\* ::update, which waits for it.
SuspendOrRestore ==
  /\ NobodyPays
  /\ active' = ~active
  /\ UNCHANGED <<vars, commission, cashier, paidOut, unpriced, clawed>>

\* hold_days are over.
HoldEnds ==
  /\ Earning /\ ~commission.released
  /\ commission' = [commission EXCEPT !.released = TRUE]
  /\ UNCHANGED <<vars, active, cashier, paidOut, unpriced, clawed>>

\* ::voidCommission.
VoidCommission ==
  /\ Earning
  /\ commission' = Voided
  /\ Claw
  /\ UNCHANGED <<vars, active, cashier, paidOut, unpriced>>

\* recordPayout reads the balance ...
CountBalance(c, m) ==
  /\ cashier[c] = 0 /\ NobodyPays
  /\ m <= Available - paidOut
  /\ cashier' = [cashier EXCEPT ![c] = m]
  /\ UNCHANGED <<vars, active, commission, paidOut, unpriced, clawed>>

\* ... and writes the payout, while transitions of orders go on.
WritePayout(c) ==
  /\ cashier[c] > 0
  /\ paidOut' = paidOut + cashier[c]
  /\ cashier' = [cashier EXCEPT ![c] = 0]
  /\ UNCHANGED <<vars, active, commission, unpriced, clawed>>

\* The request dies and its transaction is rolled back.
LosePayout(c) ==
  /\ cashier[c] > 0
  /\ cashier' = [cashier EXCEPT ![c] = 0]
  /\ UNCHANGED <<vars, active, commission, paidOut, unpriced, clawed>>

LedgerNext ==
  \/ OrderStep
  \/ SuspendOrRestore \/ HoldEnds \/ VoidCommission
  \/ \E c \in Cashiers :
       \/ \E m \in 1..Commission(Total) : CountBalance(c, m)
       \/ WritePayout(c) \/ LosePayout(c)

LedgerSpec == LedgerInit /\ [][LedgerNext]_allVars

-----------------------------------------------------------------------------
(* Properties.                                                             *)

LedgerTypeOK ==
  /\ active \in BOOLEAN
  /\ commission \in [status : {"none", "earned", "void"}, base : 0..Total, released : BOOLEAN]
  /\ cashier \in [Cashiers -> Nat]
  /\ {paidOut, unpriced, clawed} \subseteq Nat

(***************************************************************************)
(* "It can never be more than the balance available, so the two sides      *)
(* cannot drift apart": all payouts together stay within what is           *)
(* available, but for what refunds and administrators took back after, or  *)
(* while, it was paid out.                                                 *)
(***************************************************************************)
NoOverpayment == paidOut <= Available + clawed

(***************************************************************************)
(* A refund takes its share of the commission back: an order that was      *)
(* wholly refunded earns nothing, whatever was moved by hand or earned     *)
(* late; one that was refunded in part earns on what is left - except for  *)
(* what was refunded by a transition to the status the order had already,  *)
(* of which the ledger never hears.                                        *)
(***************************************************************************)
CommissionFollowsRefunds ==
  /\ status = "refunded" => ~Earning
  /\ Earning => commission.base = Base + unpriced

=============================================================================
