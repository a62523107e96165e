--------------------------- MODULE PaymentsClaims ---------------------------
(***************************************************************************)
(* What the repository's comments and documents say of payments and the    *)
(* code does not do.  Each claim is checked by a run that must refute it;  *)
(* the README tells the story of each counterexample.                      *)
(***************************************************************************)
EXTENDS MCPayments

\* Within the seven days that ReconcilePayments looks back: what is missed
\* below is missed by a reconciliation that runs in time.
InTime(A) == A /\ \A p \in GatewayPayments : age'[p] # "forgotten"

\* Nothing is asked of the gateway's notifications: any of them may be lost.
\* Reconciliation runs, its steps finish, and the gateway, asked again and
\* again, does answer.
ReconcileFairness ==
  /\ WF_vars(ReconcileStart)
  /\ \A p \in GatewayPayments :
       WF_vars(Reconcile(p)) /\ WF_vars(InTime(GrowOlder(p)))
  /\ \A h \in Handlers :
       /\ WF_vars(Callback(h))
       /\ SF_vars(GatewayAnswers(h, "settled"))

ReconcileSpec == Init /\ [][InTime(Next)]_vars /\ ReconcileFairness

(***************************************************************************)
(* THREAT_MODEL.md:32, "Lost IPN leaving a paid order unfulfilled |        *)
(* Reconciliation job every 15 minutes", and ReconcilePayments.php:16, "Any*)
(* payment that has been pending for a while is re-verified against the    *)
(* gateway": money the gateway took is found and recorded in the end.      *)
(***************************************************************************)
TakenIsRecorded ==
  \A p \in GatewayPayments : taken[p] /\ pay[p] = "pending" ~> pay[p] \in Settled
=============================================================================
