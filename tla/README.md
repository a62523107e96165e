# Verification of the commerce, messaging and licensing core

This directory holds TLA+ models of the parts of the platform that have a protocol of their own: orders,
payments, refunds and the affiliate ledger, checkout behind idempotency keys, notification e-mails, WhatsApp messages and calls,
and the activation of licensed machines. Beside them are the TLC configurations that check the models on
small instances and TLAPS proofs of the theorems that matter most. It is written for a reader who has the
repository at hand. Paths are relative to `src/apps/api/` (a Laravel application) unless they start with
`src/`.

## 1. Inventory

The platform sells courses, downloads, software licences and credit refills. A Next.js frontend
(`src/apps/web`) renders; the API decides and keeps its state in one relational database, runs a queue
(database driver, **one** worker in every documented deployment: `src/compose.yaml:62`,
`src/docs/DEPLOY_CPANEL_BN.md:192`) and a scheduler (`routes/console.php`). Four parts of the frontend keep
state that the server's correctness leans on: the checkout form (its key), the inbox composer (its draft's
key), the call panel (microphone, connection, the call it is on) and the review page of activations (the
transitions it offers).

| Component | State | Operations | Talks to | Hard part | What makes it correct |
|---|---|---|---|---|---|
| Order state machine (`OrderStatus`, `OrderStateMachine`) | `orders.status`, `paid_at`, `fulfilled_at` | `transition` under the order's row lock; `destroy` removes the row | everything that sells; affiliate ledger | callers judge by an order read earlier | paid and unpaid orders are told apart for ever |
| Gateway callbacks (`PaymentProcessor`, `SslCommerzGateway`, `PaymentCallbackController`) | `payments`, `payment_events` (unique fingerprint) | `startPayment`, `handleCallback`, `recordSuccess`, `recordFailure`, `recordUnverified` | gateway, state machine, `FulfillOrder` | copies, reordering, loss, outages, two workers | no order is paid without money; money that arrived stays recorded |
| Reconciliation (`ReconcilePayments`) | reads `payments` older than 15 minutes and younger than 7 days | replay the latest payload; expire after a day | `PaymentProcessor` | races late callbacks | lost callbacks are made good |
| Payments by hand (`PaymentSelectionController`) | `manual_payment_submissions`, a `payments` row each | `gateway`, `submit`, `review` | state machine, `FulfillOrder` | races the online path | one attempt at a time |
| Administrators (`Admin\OrderController`) | - | `transition`, `refulfill`, `destroy` | state machine, `FulfillOrder` | checks made without a lock | a submitted payment is reviewed before the order is called paid |
| Fulfilment (`FulfillOrder`, `FulfillmentService`) | the unique queued job; enrolments, entitlements, licences, refills | grant everything, then move the order | state machine | unique job drops dispatches; early read; crash | paid orders get what they paid for |
| Refunds (`RefundController`, `ProcessRefund`, `RevocationService`) | `refunds`, `orders.refunded_minor` | `store`, `approve`, `reject`, job, revoke | gateway, state machine | retries, timeouts, two administrators, fulfilment at the same time | the sums are right and backed by the gateway; the status follows them; access ends |
| Checkout (`checkout-form.tsx`, `CartService`, `PricingService`, `CheckoutService`) | the form's key; `carts`, `coupons`, `orders` | load, submit, retry; price, redeem, convert | idempotency keys, state machine | two submissions at once; a dropped connection | coupon limits hold; a key becomes one order; an error means no order |
| Idempotency keys (`EnforceIdempotency`) | key, request hash, stored response | look up, claim, replay, give back | checkout and others | crash or retry while a request runs | one effect per key, and its answer for everyone |
| Notification e-mails (`Notifier`, `SendNotificationEmail`, `NotificationMaintenance`, the log's buttons) | `notification_emails`: status, attempts, last attempt; `jobs`, `failed_jobs` | deliver, claim, send, save, retry, resend, prune | mail server | a retry racing a slow send; a killed worker | copies have a reason; automatic attempts end; none lost; the log tells the truth |
| WhatsApp messages (`whatsapp-inbox.tsx`, `WhatsAppMessaging`, `WhatsAppOrderConfirmation`, `DispatchWhatsAppOutbox`) | drafts and keys; `wa_messages`, `wa_order_confirmations`, `wa_status_events` | reserve, dispatch, campaign, confirm, status reports | Meta's API and webhooks | lost answers; reports early, twice, out of order | a row is sent once; allowance and consent hold; no report that has a row is lost |
| WhatsApp calls (`whatsapp-calls.tsx`, `WhatsAppCallController`, `WhatsAppCalling`) | the panel's operation, call, microphone; `wa_calls` | start, answer, reject, hang up, mute, poll, leave; `connect`, `action`, webhooks | Meta, the browser's media | awaits overtaken by polls and unmounts; several tabs; late webhooks | one open call per operator; an open panel is heard only on a call |
| Licensing (`ActivationService`, `activation-review.tsx`, `OnlineLicensingService`, `OnlineLicenseController`) | `activation_requests`, `machine_bindings`, `nb_devices`, `nb_token_issues` | file, review, complete, deactivate; pair, confirm, sign, deliver, acknowledge | customer, reviewers, connector, signing worker | two ways to take one seat; stale reviewers | seats stay within the limit; none is taken by nobody; tokens arrive |
| Affiliate ledger (`AffiliateLedger`) | `affiliate_commissions`, payouts | earn, reprice, void, pay out | called by every transition | refunds after a payout; transitions that change nothing | the balance is what was earned and kept |
| Downloads (`DownloadService`) | entitlements with a count and an expiry | authorize, sign, count | fulfilment, revocation | count at its limit | no download without a live entitlement |
| Learning (`EnrollmentService`, `ProgressService`, `QuizService`, `CertificateService`) | enrolments, progress, attempts, certificates | enrol, revoke, complete, attempt, issue | fulfilment, revocation | attempts at their limit; a job issuing certificates | a certificate for a completed course only |
| Conversations, content publishing, uploads, accounts, growth hub, health, rest of the frontend | rows of their own, screens | see `PROJECT.json` | - | - | - |

The hazards this code is exposed to are listed, at their lines, in `PROJECT.json` under `hazards`, each
with the properties that would catch it going wrong.

## 2. Modules

| Module | What it is |
|---|---|
| `OrderStates` | the transition table, `allows`, `grantsEntitlements` (`app/Enums/OrderStatus.php`); shared by `OrderLifecycle`, `Payments`, `Refunds` |
| `OrderLifecycle` | abstract specification: what is promised about an order whoever moves it |
| `Payments` | callbacks, reconciliation, payments by hand, administrators, deletion, and the fulfilment job; implements `OrderLifecycle` |
| `Refunds` | refund requests and decisions, `ProcessRefund`, revocation, and the fulfilment job beside them; implements `OrderLifecycle` |
| `Affiliates` | the affiliate ledger on top of `Refunds`: every step of the order with what the ledger makes of it, and the payouts |
| `Once` | abstract specification: work done at most once per key, and its result told to everyone who asks |
| `Checkout` | the form, the middleware and `CheckoutService` together, with carts and a coupon; implements `Once` |
| `Emails` | the e-mail log, the queue, its workers, the maintenance run and the buttons of the log |
| `Messages` | composer, outbox, campaigns, order confirmations, and Meta's reports |
| `Calls` | call panels in browser tabs, the call controller, and Meta's call webhooks |
| `Licensing` | the machines of one licence: activation by review and activation online |
| `MC...` | instances for TLC |
| `PaymentsClaims`, `RefundsClaims`, `CheckoutClaims` | what comments, tests and documents claim and the code does not do |
| `..._proofs` (eight) | theorems |

### How the models are cut

A handler is one action for each stretch that nothing else can get into: between two database commits,
two waits for a row lock, or a call to an outside service; in the browser, between two `await`s. What runs in
one transaction under the locks it holds is one action. Nothing may be assumed about what a handler read
before its last cut, so what it carries over is a variable: `ses[h].seen` is the order status
`recordSuccess` read without a lock, `desk[a]` what an administrator's or reviewer's request read,
`run[r].cart` and `run[r].coupon` what a submission was priced by, `worker[w].read` the row a mail job
loaded and compares with when it saves, `process[p].row` the outbox row a dispatch works on, `op[p]` where
a call panel's operation waits.

### `Payments`

| Code | Actions |
|---|---|
| `PaymentSelectionController::gateway`, `startPayment` | `StartPayment` (dead while `gatewayEnabled()` is false, a constant here) |
| `handleCallback`: claim the fingerprint, store the event | `ReceiveIpn`; from reconciliation `ReconcileReplay` |
| `validateTransaction`, `verifiesCallbackSignature` | `GatewayAnswers` (`recordUnverified` included), `GatewayTimesOut` |
| `recordSuccess`, `recordFailure` | `AlreadySettled`, `PaymentVanished`, `LockPayment`, then `RecordPaymentOnly`, `RecordAndMove` or `TransitionRefused` |
| `ReconcilePayments::handle` | `ReconcileStart`, `ReconcileSilent`, `ReconcileExpire`, `ReconcileReplay` |
| `submit`, `review` | `Submit`, `Approve`, `Decline` |
| `Admin\OrderController` | `AdminTransition`, `Refulfill`, `DestroyCheck`, `DestroyDelete` |
| `FulfillOrder` | `Dispatch`, `LoseDispatch`, `FulfillGrant`, `FulfillMove`, `CrashJob` |
| process death | `CrashHandler`, `LoseDispatch`, `CrashJob` |

External actions: `CustomerPays`, `GatewayDeclines`, `GrowOlder`. The gateway may send any message it has
reason for, any number of times, in any order, or never; it does not lie.

Abstractions. `initiated` and `pending` are one value (every query asks for both, and `startPayment` goes
through both in the transaction of its caller). The age of a payment is one of four bands, those between
the constants of the code: 15 minutes, one day, seven days. A fingerprint is source, payment and kind of
message, which is what the five hashed fields tell apart. A success message is confirmed, confirmed with a
risk flag, not confirmed (the validation API answers with an error, which is recorded as unverified and changes
nothing), or answered with another amount, currency or status, which fails the payment and an order that
still waits for it. `FulfillOrder` is retried without end rather than five times: a
refused transition is read again on the retry, and then there is nothing to move. Granting is one step
with the read before it; `Refunds`, where it matters, cuts them apart. The receipt and the
audit log are left out; the affiliate ledger is composed with `Refunds`, where it is taken back. Reconciliation is one process: its job is queued by the scheduler and the
one queue worker runs it.

### `Refunds`

One paid order with its refunds. `Store` is one transaction under the order's lock. `approve` and `reject`
take no lock, so each is `Open` (read), then `Approve` and `DispatchRefund`, or `Reject` and `Release`.
`ProcessRefund` is `StartRefund`, the gateway's answer (`GatewayAccepts`, `GatewayRefuses`,
`GatewayTimesOut`, where the gateway may or may not have acted), `Record`, `Revoke`; it may die at each of
them (`CrashRefund`) and is queued again while it has tries left. `FulfillRead`, `FulfillGrant`,
`FulfillMove` are the fulfilment job; `Running` keeps the jobs within the number of workers. `sent` is what
the gateway has really given back, which the program cannot see. Entitlements are one value, since
fulfilment grants and revocation withdraws all of an order's in one transaction each.

### `Affiliates`

`OrderStateMachine::transition` calls the ledger last, in its own transaction, and only when the status really
changes. So the ledger has no steps of its own on an order: `OrderStep` is a step of `Refunds` together with
`Follow`, which is `orderMovedTo` with the new status.

| Code | Operators |
|---|---|
| `orderMovedTo`: `earn`, `reprice`, `voidForOrder` | `OrderMovedTo`: `Earn`, `Reprice`, `Voided` |
| `Admin\AffiliateController::update`, `voidCommission` | `SuspendOrRestore`, `VoidCommission` |
| `recordPayout`: the affiliate's row is locked and the balance read; the payout is written | `CountBalance`, `WritePayout`; `LosePayout` when the process dies |
| `available_at` passes | `HoldEnds` |

One affiliate and one order, which was paid before (the affiliate may have been suspended then, so it may have
earned nothing yet). Tax is left out of the base. A payout holds the lock of the affiliate's row between its
two steps; transitions of orders read no affiliate's balance and are not kept waiting. `unpriced` counts what
was refunded without a change of status since the commission was last worked out, `clawed` what left the
balance; both are history and no guard reads them.

### `Checkout` and `Once`

A *mount* is one life of the form and so one `Idempotency-Key`; a *submission* is one POST of it.

| Code | Actions |
|---|---|
| `checkout-form.tsx` | `Load`, `LoadFails`, `Submit`, `Receive`, `Drop` |
| the cart page, `CartService` | `AddItem`, `RemoveItem`, `ApplyCoupon`, `RemoveCoupon`, `OpenTwins` (two `firstOrCreate` at once) |
| `EnforceIdempotency` | `Lookup`, `WriteKey` (the unique index), `Memoise`, `GiveBackKey` |
| `CheckoutRequest`, `totalsFor` | `Price`, `Reject` |
| the transaction of `createOrder` | `Begin` (waits for the coupon's row), `Count`, `Commit` |
| process death; an order that fails or is cancelled | `Lose`, `Die`; `Void` |

A cart is open or converted, with lines or without, with the coupon or without; that is all the guards
read. Whatever else can stop an order (a product withdrawn, a total of zero) is the free choice to fail in
`Price`. A key's request hash is the body it was written with. The refinement to `Once` maps `made` to the
order a key's submissions placed and `told` to the order whose payment page the form went on to.

### `Emails`

| Code | Actions |
|---|---|
| `Notifier::deliver` | `Deliver`, which may die between commit and dispatch |
| `SendNotificationEmail::handle` | `Take`, `Claim` (one UPDATE), `Read`, `Mail`, `Save` |
| a killed worker; `failed_jobs` | `Die`, `RetryJob` |
| `NotificationMaintenance::retryDue` from the schedule and from the log | `RetryDue`, `RetryFailed` |
| `NotificationEmailController::retry`, pruning | `Retry`, `Prune` |
| the clock | `Pass` |

The age of the last attempt is one of four bands, those between the constants of the code: never, under
the 60 seconds of the claim, under the ten minutes of the retry, over it. A save writes only what differs from
the row as it was read (`Saved`), which is why a failure after a failure writes no status.

### `Messages`

| Code | Actions |
|---|---|
| the composer | `Press`, `Receive`, `Drop`, `GoTo` |
| `reserve`, `campaign` | `Reserve`, `Campaign` |
| `WhatsAppOrderConfirmation::process` | `ConfirmOrder` |
| `dispatch`: first transaction, call, second transaction | `ClaimReserved` or `WorkOff`, `MetaTakes`, `Settle` |
| status webhook | `Status`, `StatusDropped` |
| webhook messages, settings, contacts, templates, orders, time | `Inbound`, `SaveSettings`, `SaveContact`, `TemplateReviewed`, `OrderPaid`, `OrderRefunded`, `WindowCloses`, `DayPasses`, `SentElsewhere` |

Meta may take a message and its answer be lost, and may report before the answer is stored: the report
then makes a row of its own, which `Settle` merges. It can do so only if the report says for which Bangladeshi
mobile it was; otherwise the event is stored and nothing follows (`StatusDropped`, kept in the history
variable `dropped`). A process that dies is one that takes no further step.

### `Calls`

| Code | Actions |
|---|---|
| `start`, `answer`, `reject`, hang up | `start`, `answer`, `reject`, `end`, each continued by `prepare`/`prepareFails`, `Connected`, `Claimed`, `Fails` |
| mute, the poll, a failed connection | `Mute`, `load`, `PeerFails` |
| the effect's cleanup, `pagehide` | `Unmount`, `Leave`; their terminate requests `ServeParting`, `LoseParting` |
| `connect` | `Insert`, then `MetaTakes`, `MetaStarted`, `MetaRefused`, `MetaUnknown` |
| `action` | `Claim`, `Act`, `ActUnknown`; `Refused`, `CleanupLost` for requests that get nowhere |
| `WhatsAppCalling::ingest` | `HookConnect`, `HookTerminate`, `HookStatus` |
| the contact | `ContactCalls`, `ContactEnds` |

Every request but `connect` holds the settings row's lock through its call to Meta and is one step. A panel's
lists may be old, so a button is offered for every call an earlier load could have shown it for. An
unmounted panel's awaits continue (its tab lives); a closed one's do not. `late` is history: the panels whose
browser gave them the microphone after they had gone.

### `Licensing`

One licence. A machine has at most one binding row, written by review (`bindMachine`,
`releaseMachine`) and online (`confirm`), both under the licence's lock.

| Code | Actions |
|---|---|
| `ActivationService::submit` | `File` (the licence is found usable), `Submit` (the transaction) |
| `ActivationService::transition` | `Review` (read and allowed), `Decide` (the transaction), `Abandon` |
| `RevocationService::revokeForOrder` | `Revoke` |
| `OnlineLicenseController`, `OnlineLicensingService` | `pair`, `confirm`, `pending`, `complete`, `delivery`, `acknowledge` |

`Review` reads the request and takes any move that the page offers for the status it was loaded with
(`NEXT_STATES`) and that the server allows from the status it reads (`next`). The assumption `SameRules` says
that page and server agree on these tables ("The API enforces the same rules"); TLC evaluates it. The override
a reviewer may tick is a free choice, and `overrides` counts the machines bound past the limit by it.
`overwritten` names the requests moved as their status no longer allowed. An expired pairing is one that
nobody confirms.

## 3. What is checked

| Run | Instance | Shows |
|---|---|---|
| `Payments` | one order, a card payment, two payments by hand, one web worker, one crash; messages valid, failed; administrators ask for paid and refund_pending; fair queue | `PaidIsBacked`, `OneAttempt`, `SettledStays`, `ImplementsLifecycle`, `PaidGetsFulfilled` (510,433 states) |
| `PaymentsOnline` | two web workers and reconciliation on one card payment, VALID, VALIDATED and unconfirmed (stray) messages, gateway on; the validation API may confirm, disagree or say nothing, risky payments released; administrators ask for refund_pending | `OneWorkerPerCallback`, `PaidOnlyByValidation` (1,508,372 states) |
| `Refunds` | two refunds of two units, paid online, one administrator, one worker, three tries, one failure, who also asks for refunded and partially_refunded by hand; fair | `RefundsWithinTotal`, `RefundedIsSum`, `StatusTellsRefunded`, `BackedByTheGateway`, `RefundedLosesAccess`, `ApprovedIsAnswered` (353,269 states) |
| `Affiliates` | two refunds of two units of an order paid by hand, one administrator who also asks for every status, two requests that pay the affiliate, a rate of one half | `NoOverpayment`, `CommissionFollowsRefunds`, `ImplementsLifecycle` (1,183,002 states) |
| `Checkout` | two lives of the form of one customer, a valid and an invalid body, two submissions, two carts, a coupon with one use; fair | `CouponWithinLimits`, `OneKeyOneOrder`, `FailureIsHonest`, `ImplementsOnce`, `KeysSettle` (74,952 states) |
| `Emails` | one e-mail, two workers, two automatic attempts, a queue of two, one resend by hand, one killed worker; fair | `CopiesExplained`, `AttemptsAccounted`, `SentIsTrue`, `NotLost` (294,087 states) |
| `Messages` | one contact, one request of the composer beside the outbox run, two rows, two drafts, an allowance of one, one change of the surroundings; fair | `HandedOnce`, `DraftSentOnce`, `WithinAllowance`, `OneCampaign`, `ReportsKept`, `QueueDrains` (1,184,004 states) |
| `Calls` | two tabs of one operator, one call from a contact and one to a contact | `OneOpenCall`, `ActiveIsOwned`, `QuietIsSilent`, `HeardOnlyOnACall`, `OverAndOwnedStay`, `AnsweredStays` (761,428 states) |
| `Licensing` | one request, two machines, two pairings, two reviewers, one seat, one override; fair | `SeatsWithinLimit`, `SeatHasAnOwner`, `GrantArrives` (395,506 states) |
| `LostIpn`, `PartialForgotten`, `TwoOrders` | the smallest instance that has the case | a claim of the repository refuted (section 5) |

What the properties say is written above each of them in the modules.

**Bounds.** *Orders*: every guard of the payment and refund code joins the rows of a single order, and
orders share nothing, so one is enough; two submissions make "another one" possible; one or two web workers
and the reconciler give every pair of handlers. A total of two units is the smallest with a partial refund,
two refunds the smallest where one outlives the other; three tries are the code's. *Affiliates*: a total of two units at one half makes a
commission of one unit that a partial refund rounds down to nothing, and two requests are enough to pay it twice. *Checkout*: two mounts
are a reload, two submissions one repetition or one race, whether of one key or of two; one use of the coupon
is the smallest limit, and with one customer the limit per user is reached as well. *Emails*: rows share only
the queue; two workers are needed for a row to be in two hands, and two attempts (five in the code) are enough
to come to the limit while jobs wait. *Messages*: the guards join rows of one contact or count rows against
the allowance; two rows are the smallest number at which they meet, and the outbox run and a request of the
composer the two that may work on one. *Calls*: two tabs of one operator, and a call in each direction, are
the smallest instance where a second call, a second tab and a second direction meet. *Licensing*: two
machines for one seat; two requests exceed what TLC does in the time, and the proofs cover every number.
`MaxCrashes`, `MaxFailures`, `MaxDeaths`, `MaxByHand`, `MaxChanges`, `MaxOverrides`, `MaxSubmits`,
`MaxInAll`, `MaxCarts`, `MaxQueued`, `MaxRows` and `MaxDrafts` bound only how often something happens.

Two workers on the queue are outside the documented deployments: with them TLC finds fulfilment granting
again what a refund has withdrawn (`RefundedLosesAccess`). `Refunds` and `Affiliates` have one
administrator deciding at a time; with two, `RefundsWithinTotal` and `RefundedIsSum` fail, since neither
`approve` nor `reject` takes a lock (section 5). What two of them cannot spoil is proved for any number:
`BackedByTheGateway`, `StatusTellsRefunded` and `RefundedLosesAccess`.
Deadlock is not checked (`CHECK_DEADLOCK FALSE`) because everything may legitimately come to rest: an order
that is done, a queue that is empty, a licence whose requests are settled, or a bound that is used up.

**Fairness.** Only what the code's own scheduling gives. `Payments`: a committed transaction's dispatch
follows (the statements are adjacent) and the worker runs the job, weakly fair. Of a process that died, or of
a dispatch the unique job dropped, nothing is asked: `PaidGetsFulfilled` says that a paid order moves on *or is
left behind*, and that these two steps are the only ones that leave it behind (`LeftBehindForAReason`). `Refunds`: the same of a job begun and of an HTTP request let in, and strong fairness
only of taking a job off the queue, since the one worker is busy again and again while the database queue
hands out the oldest first. `Checkout`: a request that reached PHP runs on or is lost, and the browser hears
the answer or gives the connection up. `Emails`: the workers work, the maintenance run runs, time passes; no
mail server need ever take an e-mail, nobody need press a button. `Messages`: the minutely run works and its
call to Meta ends, by its timeout if by nothing else. `Licensing`: the signing worker runs again and again
and a connector keeps polling. Nothing is asked of customers, notifications of gateways, webhooks,
administrators or reviewers. `LostIpn` additionally assumes a reconciliation that runs in time and a gateway
that, asked again and again, does answer, so that what it shows cannot be blamed on them.

**Mutants.** Beside each guard that a property depends on stands a version of it with a plausible mistake
(`Mutant:` comments). Substituted, each breaks the property it is listed with in `PROJECT.json`.

## 4. What is proved

The theorems hold for every value of the constants that satisfies the assumption of the module
(`PaymentsAssumption`, `RefundsAssumption`, `CheckoutAssumption`, ...): any number of orders, payments,
workers, mounts, customers, rows, panels, machines; limits and bounds of any size. Sets that are counted are
assumed finite. Each module has one inductive invariant, `IInv`, whose conjuncts are named parts; it holds by
theorem `Invariance`, and is not listed in the runs for that reason. In `Refunds_proofs` it is strengthened by
`Books` and `Covered` for the theorems that need them. There, `approve` and `reject` take no lock,
so the sums of the books can only be proved while no two requests decide on one refund at once. Those theorems
have `[]OneDecides` for a hypothesis beside the specification: the behaviours in which that never happens,
however many administrators there are. The code does not rule the others out, so these theorems say nothing of
two administrators who race; lemma `Alone` shows that the instance the runs check, a single administrator, has
no such behaviour. The theorems that need the hypothesis are listed apart from those that do not.

| Module | Theorems |
|---|---|
| `OrderLifecycle_proofs` | `Typing`; `PaidSideIsPaid`: the transition table alone keeps an order on the paid side exactly when it was paid |
| `Payments_proofs` | `Typing`, `Invariance`, `PaidForAReason`, `OneAttemptAtATime`, `OneWorker`, `SettledIsKept`, `PaysByValidating`, `SubmittedStays`, `LeftBehindOnlySo`, and `Refinement` (implements `OrderLifecycle`) |
| `Refunds_proofs` | without hypotheses: `Typing`, `Refinement`, `ApprovalsAreCarried`, `GatewayBacksTheBooks`, `StatusTells`; with one queue worker (`OneQueueWorker`) `AccessEnds`; under `[]OneDecides`: `Invariance`, `BooksAddUp`. Of `Affiliates`, without hypotheses: `LedgerOnlyWatches`, `LedgerRefinement`, `NoDoublePayout`; under `[]OneDecides`: `LedgerBooks`, `CommissionFollows` |
| `Checkout_proofs` | `Invariance`, `CouponLimits`, `OnceByKey`, `HonestFailures`, `NobodyWaitsForNothing`, and `Implements` (implements `Once`) |
| `Emails_proofs` | `Invariance`, `Copies`, `Sent`, `AttemptsCounted`, `Said`, `SentStays` |
| `Messages_proofs` | `Invariance`, `OncePerRow`, `OncePerDraft`, `WithinTheRules`, `Reporting`, `LogTellsTheTruth`, `ConfirmedOnce` |
| `Calls_proofs` | `Invariance`, `OneCallAtATime`, `PanelsAgreeWithServer`, `Microphones`, `OverAndOwned`, `Answered` |
| `Licensing_proofs` | `Invariance`, `Seats`, `Owners`, `GrantsFollow` |

Some of these state definitions no run lists (`LeftBehindForAReason` on its own, `SubmittedIsKept`, `HoldersAtWork`,
`GrantFollows`, `LogIsTrue`, `OneConfirmation`, `TakenIsSaid`, `SentStands`, the two conjuncts of
`ApprovalsAreCarried`). Each was checked with TLC on the instance of its component before it was proved. Four of
the theorems are the safety core of a liveness property: `LeftBehindOnlySo` of `PaidGetsFulfilled`,
`ApprovalsAreCarried` of `ApprovedIsAnswered`, `NobodyWaitsForNothing` of `KeysSettle`, `GrantsFollow` of
`GrantArrives`. Each says that nobody gets into a state in which the awaited step has nobody left to take it,
unless a process died or for the reason it names; that much is provable for every size.

**Payments.** None of the properties is inductive. A worker about to record a success has to know that
the money was really taken (`HandlersOK`); what it saw under the payment's lock has to be so still
(`LocksHeld`); a submission and its payment row have to tell the same story (`SubmissionsMatch`), or a
review could approve over something else; an order that was not paid has to be on the unpaid side
(`PaidSideIffPaid`), which is what makes a transition to paid the first one; a deleted order has to leave
nothing behind (`GoneIsGone`), or a payment could be opened for it. The proof first shows which actions write
which variable (`OrderWriters`, `PayWriters`, `SessionWriters`, ...), so that each conjunct is looked at only
under the actions that can disturb it. The refinement maps `everPaid` to "someone has moved the order to
paid"; a transition to the status the order has maps to a stutter because of `PaidSideIffPaid`.

`LeftBehindOnlySo` needs one fact besides, `SeenEntitled`: a fulfilment job between its grants and its move read
an entitled order, so if a dispatch was dropped beside it, it either moves the order itself or is the older run
that the theorem names. `SubmittedStays` bounds what a deletion by stale checks can take
(`OrderController.php:116`): a submission's foreign key stands in its way, so an order somebody submitted a
payment for is never deleted, and one paid by approval neither; only money of the gateway's can be lost so.

**Refunds.** Under `OneDecides` whoever writes a decision works on a refund that is still open to it
(`OpenIsUndecided`, `UnsettledIsApproved`). `RefundWriters` lists the ways a refund's state can change,
`Opening` and `Settling` the ways to come to the point of changing it; no two of them can be at that point for
one refund, so a refund has one job at most (`DispatchedOnce`). That the tries stay within `MaxTries` needs
that a queued job has one left (`QueuedHasTry`).

Three theorems do without `OneDecides`. `GatewayBacksTheBooks`: a job that is about to write what the gateway gave back
counts for it once, so what is in the books and what such jobs still owe them stays within what was sent
(`Backed`), even when two jobs of one refund both ask. `StatusTells` needs `Tells`, that an
order whose money all went back is refunded, and the list of steps that can change the status
(`StatusSteps`).

`ApprovalsAreCarried` needs no hypothesis. An approved refund is *forgotten* when there is neither a request about
to dispatch its job nor a job of it that is queued, running or in `failed_jobs` (`Carriers`). The one step that
leads there is the death of the request between `approve`'s write and its dispatch (`RefundController.php:104`);
two administrators, time-outs, retries and refusals never do.

The books are sums over a set of refunds. `SumOver` counts their units, so lemmas about cardinalities
(`SumSplit`, `SumMonotone`, `SumSame`) take the place of an induction: a step adds one refund, moves one from
outstanding to processed, or drops some. `Books` also says that amounts are positive, which is why a first
refund always shows in the status.

`AccessEnds` is the third: it needs the deployments' single worker, and needs it only so that no job of a
refund is between its steps while the fulfilment is (`Apart`, part of `OneJobRuns`). A refunded order has
no fulfilment past its read that still grants (`RefundedIsQuiet`), and until the access is gone some job is on
its way to withdraw it (`Withdrawing`), whichever administrators approved or moved the order by hand.

**The ledger.** It changes nothing of the order (`LedgerOnlyWatches`), so all of the above holds with it (`LedgerRefinement`,
`LedgerBooks` are the corollaries). What a payout counted stays covered although transitions go on (`Covered`): what the balance loses meanwhile is counted
by `clawed`, and the lock keeps every other payout away. That the commission follows the refunds needs that they
never exceed the total (`BooksAddUp`) and that money goes back only with a move to a status that says so, or
with none (`MoneyMovesTheOrder`).

**Checkout.** One order per key rests on the unique index: a submission past the insert is the one that wrote
the key (`HoldersWroteTheKey`), and an order keeps its key from being given back (`OrdersHoldTheirKey`), also
when the process died. The coupon's limit rests on its row's lock: whoever has counted holds it, and the
count is still true (`CountersHoldTheCoupon`); only `Commit` adds a use, and by then the lock rules out any
other (cardinality lemmas on the set of uses). What a customer is told is the key's own order
(`AnswersAreTheKeysOrder`), which makes `Receive` a `Tell` of `Once` and `Commit` a `Make`.
Nobody waits for nothing (`HoldersAtWork`): behind a locked key there is a request at work or a process that
died, and whoever holds the coupon's row is past all waiting, so that waiting for it ends.

**Emails.** Every copy has to be paid for by an attempt, and every attempt beyond the first by a reason
(`CopiesAccounted`): the copies an e-mail may still get, `Slack`, never fall below zero, and when they are
used up no worker is left that could write *failed* over *sent* and so open the row again. The subtle part is
the save that writes nothing because it equals what was read; `StartsClean` ties `read` to the row. Attempts are counted with the jobs that may still make one, the places in
the queue and the workers that hold a job: a job taken moves from the one to the other. The same invariant
bounds the wrong answers of the log: unless a second worker was let in or one died over the e-mail, what the
mail server took is said to be sent or about to be (`TakenIsSaid`), and *sent* stays (`SentStands`).

**Messages.** A row in a process's hands is in no other's and has not been handed over (`OneHand`); a key is
drawn once per draft (`OneDraw`); the allowance counts rows until a day after they are completed, so no
step but a reservation under the lock raises it. That no report that reached a row is lost needs `RowsInOrder` and one row per
message Meta named (`OneRowPerMessage`), which the merge in `Settle` restores. `LogIsTrue` (with `AnswersTrue`, what
a process that heard from Meta still has to write) ties each status to what was really handed over: *queued* and
*cancelled* never were, *accepted* and later name a message Meta has for this contact, and *sending* has a
process behind it, so a row that stays so is the trace of a death. `OneConfirmation` relates the confirmation
rows to the request of their order, which the run that reserves moves on.

**Calls.** What a panel believes is what the server gave it: `Held` says which step of an operation already
owns its call, `AbsentUnowned` that a row nobody inserted has no owner. `MicAccounted` says in which steps a
microphone may be open without a call, and ties a microphone that is on in a panel that went away to a late
grant. `OverAndOwnedStay` and `AnsweredStays` follow from the invariant, step by step.

**Licensing.** Seats are counted by both sides under one lock, so each step that binds a machine raises the
count by one below the limit, or raises `overrides`. That a bound machine has an owner needs `Grounded`:
requests that exist name a machine, and so do paired devices. `GrantFollows` follows one grant per machine through
signing, delivery and reconnection: it always is for the device confirmed last, a token is delivered to a confirmed
device only, and what that device acknowledges was signed.

**Only model-checked.** All liveness (`PaidGetsFulfilled`, `ApprovedIsAnswered`, `KeysSettle`, `NotLost`,
`QueueDrains`, `GrantArrives`), which is outside the prover; of `PaidGetsFulfilled` the second conjunct is proved, of
three others the safety they rest on, as told above. Every safety property of the passing runs is proved.

## 5. Where the code and its own words differ

Each of the first three is a run that TLC refutes, on the smallest instance that has the case.

* `LostIpn`. The customer pays, the notification is lost, so the payment has no event. Every
  reconciliation within the first day passes over it and the first one after expires it; the gateway is never
  asked (`ReconcilePayments.php:45-58`), against "any payment that has been pending for a while is re-verified".
* `PartialForgotten`. One refund is processed (partially_refunded), a second is requested and rejected: the
  order is back at paid or fulfilled (`RefundController.php:127`).
* `TwoOrders`. A submission's connection drops while it is being priced; the customer loads the page again,
  which draws a new key, and pays: both submissions priced the same cart, and both convert it
  (`CheckoutService.php:35`), against "a retry after a dropped connection cannot create two orders".

Further behaviours of the models that no run singles out; most are noted at their hazard.

*Payments.* A declined attempt is reported, the order fails for good, and the second attempt on the same page
succeeds: the payment is validated and the order stays failed (`PaymentProcessor.php:166`, `:220`); in the
other order the same two callbacks leave it paid. A callback that met an outage and was replayed once is
never asked for again. An order can be paid online after its expired card payment gave way to a payment by
hand. Reconciliation may write failed over validated, by a row it read earlier (`ReconcilePayments.php:49`).
An order may be paid while it is being deleted. These two windows are all that undoes a settlement
(`SettledStays`). An answer with another amount fails an order that waits (`PaymentProcessor.php:123-129`). An order that is called paid again, by an administrator or a late callback, while an older
run of its fulfilment, which read it as fulfilled, is on its way out stays paid: the unique job drops the new
dispatch (`FulfillOrder.php:26`), and only *Refulfill* helps. A late callback takes an order from refund_pending back to
paid (`PaymentProcessor.php:220`). A submission whose order leaves pending_payment can be neither approved nor
rejected (`PaymentSelectionController.php:163`). A transition to the status an order has is a silent no-op
(`OrderStateMachine.php:28`).

*Refunds.* Two administrators open one refund; one rejects it, the whole amount is requested again, and the
other's approval overwrites the rejection: both are on their way back (`RefundController.php:96-102`). The
gateway's own limit is then what keeps the money within the total (`BackedByTheGateway`). The
worker dies between recording a refund and withdrawing the access; the retry finds the refund processed and
returns (`ProcessRefund.php:33`, `:73`). A fulfilment job that read the order before the refund was requested
moves it from refund_pending to fulfilled; `ProcessRefund` asks the gateway, which accepts, then its
transition is refused and rolled back, and the retry asks again (`ProcessRefund.php:41`, `:64`). A gateway's
refusal leaves the order in refund_pending.

*Affiliates.* Two refunds are requested before the first is processed. The first one moves the order to
partially_refunded and the commission is worked out again; the second one leaves the status as it is, so the
ledger is not called (`OrderStateMachine.php:28`) and the commission keeps a share of money that went back,
although "every way an order gets paid or refunded passes through here". `unpriced` counts that money and
`CommissionFollowsRefunds` says how far the commission is off.

*Checkout.* Two first requests of a customer may open two carts, and later ones see the older. An item put
into a cart while it is being converted is in no order. A process that dies with a key leaves it locked: the
form is refused with 409 until keys are pruned a week later, also when the order was made.

*E-mails.* Five automatic attempts (`routes/console.php:59-60`) become more when the queue stands still: each
maintenance run queues the waiting row again. "A row someone else is sending right now is left alone"
(`SendNotificationEmail.php:29`) is not so after *Retry*, which clears the time of the attempt.

*WhatsApp.* The outbox run takes the oldest queued rows, also those that wait for a switch or a template:
enough of them and younger replies are never sent (`DispatchWhatsAppOutbox.php:20`). A row whose answer was
lost stays uncertain, and Meta's report of the same message makes a second row, an external one, which uses
the allowance too. "Open chat" keeps the draft's key, which the server then refuses for the other contact. A
report about a message without a row that names no Bangladeshi mobile is stored and dropped, and its
repetitions are taken for known (`WhatsAppMessaging.php:286-298`). A call that was answered is written down
as uncertain when the request that placed it loses its answer (`WhatsAppCallController.php:83`), and a late
ringing is then believed (`WhatsAppCalling.php:95-96`). A page that goes away while the browser still asks for
the microphone gets it all the same, and keeps it when the call ends (`whatsapp-calls.tsx:212-223`, `247`,
`333-337`). A tab muted while `accept` is on its way is heard once it returns, and still shows Mute
(`whatsapp-calls.tsx:360`). A call placed whose answer was lost has no id at Meta; it cannot be ended, and
keeps its operator from another one (`WhatsAppCallController.php:113`), until a webhook names it. A terminate
that gets lost as a page closes leaves the call open until Meta ends it.

*Licensing.* `revokeForOrder` leaves requests and bindings alone: a request filed before can still be
completed after, since `transition` does not ask whether the licence is usable. A request that goes to
needs_info gives its seat up and takes it again, unasked, when it returns to review. Pairing does not count
open requests, so a request accepted within the limit may be refused when it is completed. A machine that
review released cannot be confirmed online (its row still occupies the unique index), and one bound only
online has no request to deactivate; "Deactivate one from Account → Licences" (`ActivationService.php:84`)
names a page that has no such operation. A reviewer who rejects by an older read over a completion leaves a
machine bound that no request can release. Two requests of one machine may both be completed in turn, and
deactivating one releases the machine under the other. Confirming an older pairing after a newer one takes
the machine's grant from its connector. The signing worker is handed the twenty oldest grants without a
token, those of revoked licences included (`OnlineLicenseController.php:78`).

## 6. Not modelled

The components marked `not_modelled` in `PROJECT.json`, with the reasons there. Most of the frontend is
rendering, forms and editors (the dictionary of translations, the markdown editor and formatter, page
editors, charts), whose decisions are the API's and whose state is one screen's. Within the modelled parts:
the hosted payment page's creation, the contents of messages and e-mails beyond what the handlers branch on,
what a line of an order costs, which rows each item grants, carts of visitors who are not signed in and
their merging, test sends and media, the import of contacts, asking a contact's permission to call, the
audio itself, refills and renewals of licences, the text of a grant, receipts, audit records and layout.

## 7. Plan

1. *(done)* The order lifecycle, payments, refunds.
2. *(done)* Checkout behind idempotency keys; the e-mail log; WhatsApp messages and calls; licensing; an
   inductive invariant for each, the refinement of checkout, liveness.
3. *(done)* The affiliate ledger composed with the transitions of `Refunds`; proofs of the books, of the
   withdrawal of access, of the attempts of an e-mail and of answered calls.
4. *(done)* What can be proved about liveness: the safety cores of `PaidGetsFulfilled`, `ApprovedIsAnswered`,
   `KeysSettle` and `GrantArrives`. The refund theorems for any number of administrators and, where it
   holds, of queue workers. Deletion, the outbox log, order confirmations, the truth of the e-mail log.
5. Learning and downloads: attempts and counts at their limit, certificates, enrolments under fulfilment and
   revocation. Carts of visitors and the browser's queue of cart writes; the notification bell and the chat
   thread with their polls; refills.
6. Several orders of one affiliate, and liveness of the review side of licensing.
