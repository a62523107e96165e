------------------------------ MODULE Checkout ------------------------------
(***************************************************************************)
(* Checkout: the form in the browser (checkout-form.tsx), the idempotency  *)
(* middleware in front of POST /checkout, and CheckoutService, which turns *)
(* the customer's open cart into an order and spends the coupon.           *)
(*                                                                         *)
(* A mount is one life of the form: a tab, or one more load of the same    *)
(* tab.  It draws its Idempotency-Key once, so a mount stands for its key. *)
(* A submission is a request of a mount; it is cut where another request   *)
(* can come between: after the key is looked up, after it is written,      *)
(* after the cart is priced, after the coupon row is locked, after its     *)
(* uses are counted, after the transaction, and after the key is settled.  *)
(*                                                                         *)
(* Left out: the pruning of keys after seven days and of expired carts     *)
(* (PlatformHousekeeping), and what the order's lines say.                 *)
(***************************************************************************)
EXTENDS Integers, FiniteSets

CONSTANTS
  Mounts,         \* mounted checkout forms, and so their keys
  Customers,      \* accounts
  Bodies,         \* what a form can say
  Accepted,       \* the bodies CheckoutRequest lets through
  MaxSubmits,     \* bound: submissions of one mount
  MaxInAll,       \* bound: submissions of all mounts
  MaxCarts,       \* bound: carts of one customer
  MaxRedemptions, \* coupons.max_redemptions
  MaxPerUser,     \* coupons.max_redemptions_per_user
  None

ASSUME CheckoutAssumption ==
  /\ IsFiniteSet(Mounts)
  /\ Accepted \subseteq Bodies
  /\ {MaxSubmits, MaxInAll, MaxCarts, MaxRedemptions, MaxPerUser} \subseteq Nat
  /\ None \notin (Mounts \X Nat) \union (Customers \X Nat)

Submissions == Mounts \X (1..MaxSubmits)
Carts       == Customers \X (1..MaxCarts)

VARIABLES
  account,   \* who is signed in where the form is mounted
  form,      \* what each mount shows
  sent,      \* how many submissions it has made
  thanked,   \* the order whose payment page it went on to, or None
  run,       \* each submission at the server
  key,       \* idempotency_keys, by key
  order,     \* orders, by the submission that created them
  cart,      \* carts
  couponLock \* who holds the coupon's row, or None

browser == <<form, sent, thanked>>
vars    == <<account, form, sent, thanked, run, key, order, cart, couponLock>>

FreshRun  == [at |-> "unsent", body |-> None, cart |-> None, coupon |-> FALSE, answer |-> None]
FreeKey   == [state |-> "free", body |-> None, by |-> None]
NoOrder   == [status |-> "none", cart |-> None, coupon |-> FALSE]
NoCart    == [status |-> "none", lines |-> FALSE, coupon |-> FALSE]
SpentCart == [status |-> "converted", lines |-> FALSE, coupon |-> FALSE]
EmptyCart == [status |-> "open", lines |-> FALSE, coupon |-> FALSE]

Init ==
  /\ account \in [Mounts -> Customers]
  /\ form = [m \in Mounts |-> "loading"]
  /\ sent = [m \in Mounts |-> 0]
  /\ thanked = [m \in Mounts |-> None]
  /\ run = [r \in Submissions |-> FreshRun]
  /\ key = [m \in Mounts |-> FreeKey]
  /\ order = [r \in Submissions |-> NoOrder]
  /\ cart = [k \in Carts |-> NoCart]
  /\ couponLock = None

(***************************************************************************)
(* Carts: CartService::forUser and the operations of the cart page.        *)
(***************************************************************************)
\* The customer's open cart: the first row found.
IsOpenCart(c, k) ==
  /\ k \in Carts /\ k[1] = c /\ cart[k].status = "open"
  /\ \A j \in 1..(k[2] - 1) : cart[<<c, j>>].status # "open"

\* Where the next row of the customer goes.
IsNextCart(c, k) ==
  /\ k \in Carts /\ k[1] = c /\ cart[k].status = "none"
  /\ \A j \in 1..(k[2] - 1) : cart[<<c, j>>].status # "none"

HasOpenCart(c) == \E k \in Carts : IsOpenCart(c, k)

\* firstOrCreate: the cart a request of the customer works on.
ForUser(c, k) == IsOpenCart(c, k) \/ (~HasOpenCart(c) /\ IsNextCart(c, k))

\* Orders not draft, failed or cancelled use the coupon they were placed with.
Uses      == {r \in Submissions : order[r].coupon /\ order[r].status = "placed"}
UsesOf(c) == {r \in Uses : account[r[1]] = c}

\* Mutant: the limit is compared one use too late.
CouponLeftOrLast(c) ==
  /\ Cardinality(Uses) <= MaxRedemptions
  /\ Cardinality(UsesOf(c)) <= MaxPerUser

\* couponLimitError finds no limit reached.
CouponLeft(c) ==
  /\ Cardinality(Uses) < MaxRedemptions
  /\ Cardinality(UsesOf(c)) < MaxPerUser

\* A request of the cart page leaves the row of the customer's cart so.
CartStep(c, k, row) ==
  /\ ForUser(c, k) /\ cart' = [cart EXCEPT ![k] = row]
  /\ UNCHANGED <<account, browser, run, key, order, couponLock>>

Opened(k) == [cart[k] EXCEPT !.status = "open"]

AddItem(c)      == \E k \in Carts : CartStep(c, k, [Opened(k) EXCEPT !.lines = TRUE])
RemoveItem(c)   == \E k \in Carts : CartStep(c, k, [Opened(k) EXCEPT !.lines = FALSE])
RemoveCoupon(c) == \E k \in Carts : CartStep(c, k, [Opened(k) EXCEPT !.coupon = FALSE])

\* applyCoupon takes the code off the cart again when a limit is reached.
ApplyCoupon(c) ==
  /\ CouponLeft(c)
  /\ \E k \in Carts : CartStep(c, k, [Opened(k) EXCEPT !.coupon = TRUE])

\* Two requests that both find no open cart create one each: nothing in the
\* table forbids it, and later requests go on with the first.
OpenTwins(c) ==
  /\ ~HasOpenCart(c)
  /\ \E k \in Carts, j \in Carts :
       /\ IsNextCart(c, k) /\ j = <<c, k[2] + 1>>
       /\ cart' = [cart EXCEPT ![k] = EmptyCart, ![j] = EmptyCart]
  /\ UNCHANGED <<account, browser, run, key, order, couponLock>>

(***************************************************************************)
(* The form.                                                               *)
(***************************************************************************)
Show(m, what) ==
  /\ form' = [form EXCEPT ![m] = what]
  /\ UNCHANGED <<account, run, key, order, couponLock>>

\* GET /cart is answered: the form, or the empty page.  The button stays
\* disabled while a line of the cart cannot be bought.
Load(m) == \E k \in Carts :
  /\ form[m] = "loading" /\ ForUser(account[m], k)
  /\ cart' = [cart EXCEPT ![k].status = "open"]
  /\ \/ cart[k].lines /\ Show(m, "ready")
     \/ cart[k].lines /\ Show(m, "blocked")
     \/ ~cart[k].lines /\ Show(m, "empty")
  /\ UNCHANGED <<sent, thanked>>

\* The first answers fail: to the sign-in page, or the empty page for good.
LoadFails(m) ==
  /\ form[m] = "loading"
  /\ \E what \in {"login", "empty"} : Show(m, what)
  /\ UNCHANGED <<sent, thanked, cart>>

Submit(m, b) ==
  /\ form[m] = "ready" /\ sent[m] < MaxSubmits
  /\ Cardinality({r \in Submissions : run[r].at # "unsent"}) < MaxInAll
  /\ form' = [form EXCEPT ![m] = "busy"]
  /\ sent' = [sent EXCEPT ![m] = @ + 1]
  /\ run' = [run EXCEPT ![<<m, sent[m] + 1>>] = [FreshRun EXCEPT !.at = "sent", !.body = b]]
  /\ UNCHANGED <<account, thanked, key, order, cart, couponLock>>

\* The submission the form waits for.
Awaited(m) == <<m, sent[m]>>

Receive(m) ==
  /\ form[m] = "busy" /\ run[Awaited(m)].at = "answered"
  /\ \/ /\ run[Awaited(m)].answer # None
        /\ thanked' = [thanked EXCEPT ![m] = run[Awaited(m)].answer]
        /\ Show(m, "paying")
     \/ run[Awaited(m)].answer = None /\ Show(m, "ready") /\ UNCHANGED thanked
  /\ UNCHANGED <<sent, cart>>

\* The connection drops, or a gateway in between gives up: the form shows an
\* error and lets the customer press again, whatever became of the request.
Drop(m) ==
  /\ form[m] = "busy" /\ Show(m, "ready")
  /\ UNCHANGED <<sent, thanked, cart>>

(***************************************************************************)
(* A submission at the server.                                             *)
(***************************************************************************)
KeyOf(r)  == key[r[1]]
Buyer(r)  == account[r[1]]
At(r, at) == run[r].at = at
Goto(r, at) == run' = [run EXCEPT ![r].at = at]
Ended(r, at, o) == run' = [run EXCEPT ![r] = [FreshRun EXCEPT !.at = at, !.answer = o]]
Answer(r, o) == Ended(r, "answered", o)

\* It is lost on the way, or turned away before the idempotency middleware.
Lose(r) ==
  /\ At(r, "sent") /\ Ended(r, "dead", None)
  /\ UNCHANGED <<account, browser, key, order, cart, couponLock>>

Replayable(r) == KeyOf(r).state = "done" /\ KeyOf(r).body = run[r].body

Lookup(r) ==
  /\ At(r, "sent")
  /\ \/ KeyOf(r).state = "free" /\ Goto(r, "new")
     \/ Replayable(r) /\ Answer(r, KeyOf(r).by)
     \/ KeyOf(r).state # "free" /\ ~Replayable(r) /\ Answer(r, None)
  /\ UNCHANGED <<account, browser, key, order, cart, couponLock>>

\* Mutant: nothing keeps two requests from both writing the key.
WriteKeyUnguarded(r) ==
  /\ At(r, "new")
  /\ key' = [key EXCEPT ![r[1]] = [state |-> "locked", body |-> run[r].body, by |-> r]]
  /\ Goto(r, "keyed")
  /\ UNCHANGED <<account, browser, order, cart, couponLock>>

\* The unique index lets one request write the key; another one fails.
WriteKey(r) ==
  /\ At(r, "new")
  /\ \/ /\ KeyOf(r).state = "free"
        /\ key' = [key EXCEPT ![r[1]] = [state |-> "locked", body |-> run[r].body, by |-> r]]
        /\ Goto(r, "keyed")
     \/ KeyOf(r).state # "free" /\ Answer(r, None) /\ UNCHANGED key
  /\ UNCHANGED <<account, browser, order, cart, couponLock>>

Sellable(r, k) == cart[k].lines /\ (cart[k].coupon => CouponLeft(Buyer(r)))

\* CheckoutRequest, forUser and totalsFor.  Whatever else may stop an order
\* (a line withdrawn, no price, a total of zero) is the free choice to fail.
Price(r) ==
  /\ At(r, "keyed") /\ run[r].body \in Accepted
  /\ \E k \in Carts :
       /\ ForUser(Buyer(r), k)
       /\ cart' = [cart EXCEPT ![k].status = "open"]
       /\ \/ /\ Sellable(r, k)
             /\ run' = [run EXCEPT ![r].at = "priced", ![r].cart = k, ![r].coupon = cart[k].coupon]
          \/ Goto(r, "failed")
  /\ UNCHANGED <<account, browser, key, order, couponLock>>

Reject(r) ==
  /\ At(r, "keyed") /\ run[r].body \notin Accepted
  /\ Goto(r, "failed")
  /\ UNCHANGED <<account, browser, key, order, cart, couponLock>>

\* Mutant: the coupon is read without lockForUpdate.
BeginUnlocked(r) ==
  /\ At(r, "priced") /\ Goto(r, "begun")
  /\ UNCHANGED <<account, browser, key, order, cart, couponLock>>

\* The transaction opens: a cart with a coupon waits for the coupon's row.
Begin(r) ==
  /\ At(r, "priced")
  /\ \/ run[r].coupon /\ couponLock = None /\ couponLock' = r
     \/ ~run[r].coupon /\ UNCHANGED couponLock
  /\ Goto(r, "begun")
  /\ UNCHANGED <<account, browser, key, order, cart>>

Released(r) == IF couponLock = r THEN None ELSE couponLock

\* The locking count of the coupon's uses; no use left rolls everything back.
Count(r) ==
  /\ At(r, "begun")
  /\ \/ (run[r].coupon => CouponLeft(Buyer(r))) /\ Goto(r, "counted") /\ UNCHANGED couponLock
     \/ run[r].coupon /\ ~CouponLeft(Buyer(r)) /\ Goto(r, "failed") /\ couponLock' = Released(r)
  /\ UNCHANGED <<account, browser, key, order, cart>>

\* Mutant: the move to pending_payment fails outside the transaction.
CommitThenFail(r) ==
  /\ At(r, "counted") /\ Goto(r, "failed")
  /\ order' = [order EXCEPT ![r] = [status |-> "placed", cart |-> run[r].cart, coupon |-> run[r].coupon]]
  /\ cart' = [cart EXCEPT ![run[r].cart] = SpentCart]
  /\ couponLock' = Released(r)
  /\ UNCHANGED <<account, browser, key>>

\* The order, its lines and its move to pending_payment; the cart is spent.
Commit(r) ==
  /\ At(r, "counted") /\ Goto(r, "committed")
  /\ order' = [order EXCEPT ![r] = [status |-> "placed", cart |-> run[r].cart, coupon |-> run[r].coupon]]
  /\ cart' = [cart EXCEPT ![run[r].cart] = SpentCart]
  /\ couponLock' = Released(r)
  /\ UNCHANGED <<account, browser, key>>

\* Only a success is memoised; a failure gives the key back.
Memoise(r) ==
  /\ At(r, "committed") /\ Answer(r, r)
  /\ key' = [key EXCEPT ![r[1]].state = "done"]
  /\ UNCHANGED <<account, browser, order, cart, couponLock>>

\* Mutants: a failure is memoised like a success; a failure leaves the key.
MemoiseFailure(r) ==
  /\ At(r, "failed") /\ Answer(r, r)
  /\ key' = [key EXCEPT ![r[1]].state = "done"]
  /\ UNCHANGED <<account, browser, order, cart, couponLock>>

KeepKey(r) ==
  /\ At(r, "failed") /\ Answer(r, None)
  /\ UNCHANGED <<account, browser, key, order, cart, couponLock>>

GiveBackKey(r) ==
  /\ At(r, "failed") /\ Answer(r, None)
  /\ key' = [key EXCEPT ![r[1]] = FreeKey]
  /\ UNCHANGED <<account, browser, order, cart, couponLock>>

Working == {"new", "keyed", "failed", "priced", "begun", "counted", "committed"}

\* The PHP process ends: the database rolls its transaction back, and a key
\* it had written stays locked.
Die(r) ==
  /\ run[r].at \in Working /\ Ended(r, "dead", None)
  /\ couponLock' = Released(r)
  /\ UNCHANGED <<account, browser, key, order, cart>>

\* The order fails or is cancelled, which gives the coupon's use back.
Void(r) ==
  /\ order[r].status = "placed"
  /\ order' = [order EXCEPT ![r].status = "void"]
  /\ UNCHANGED <<account, browser, run, key, cart, couponLock>>

Serve(r) == \/ Lookup(r) \/ WriteKey(r) \/ Price(r) \/ Reject(r) \/ Begin(r)
            \/ Count(r) \/ Commit(r) \/ Memoise(r) \/ GiveBackKey(r)

Shop(c) == \/ AddItem(c) \/ RemoveItem(c) \/ ApplyCoupon(c) \/ RemoveCoupon(c) \/ OpenTwins(c)

Next ==
  \/ \E c \in Customers : Shop(c)
  \/ \E m \in Mounts : Load(m) \/ LoadFails(m) \/ Receive(m) \/ Drop(m)
  \/ \E m \in Mounts, b \in Bodies : Submit(m, b)
  \/ \E r \in Submissions : Lose(r) \/ Serve(r) \/ Die(r) \/ Void(r)

Spec == Init /\ [][Next]_vars

(***************************************************************************)
(* Fairness: a request that reached PHP runs on (no step of it waits for   *)
(* the customer; the coupon's row is handed over when its holder ends),    *)
(* and the browser hears of an answer or gives the connection up.          *)
(***************************************************************************)
Fairness ==
  /\ \A r \in Submissions : WF_vars(Serve(r) \/ Lose(r))
  /\ \A m \in Mounts : WF_vars(Receive(m) \/ Drop(m))

FairSpec == Spec /\ Fairness

-----------------------------------------------------------------------------
(***************************************************************************)
(* Properties.                                                             *)
(***************************************************************************)
Places == {"unsent", "sent", "answered", "dead"} \union Working

RunRecords  == [at : Places, body : Bodies \union {None}, coupon : BOOLEAN,
                cart : Carts \union {None}, answer : Submissions \union {None}]
KeyRecords  == [state : {"free", "locked", "done"}, body : Bodies \union {None},
                by : Submissions \union {None}]
OrderRecords == [status : {"none", "placed", "void"}, cart : Carts \union {None}, coupon : BOOLEAN]
CartRecords == [status : {"none", "open", "converted"}, lines : BOOLEAN, coupon : BOOLEAN]

TypeOK ==
  /\ account \in [Mounts -> Customers]
  /\ form \in [Mounts -> {"loading", "ready", "blocked", "empty", "login", "busy", "paying"}]
  /\ sent \in [Mounts -> 0..MaxSubmits]
  /\ thanked \in [Mounts -> Submissions \union {None}]
  /\ run \in [Submissions -> RunRecords]
  /\ key \in [Mounts -> KeyRecords]
  /\ order \in [Submissions -> OrderRecords]
  /\ cart \in [Carts -> CartRecords]
  /\ couponLock \in Submissions \union {None}

Placed(r) == order[r].status # "none"
Holding   == {"keyed", "failed", "priced", "begun", "counted", "committed"}

\* A submission past the key's insert is the one that wrote it, so only one is.
HoldersWroteTheKey ==
  \A r \in Submissions : run[r].at \in Holding => KeyOf(r).state = "locked" /\ KeyOf(r).by = r

\* An order was made by the writer of its key, which is still there: locked
\* while that submission has not answered, or for ever when its process died.
OrdersHoldTheirKey ==
  \A r \in Submissions : Placed(r) =>
    /\ KeyOf(r).state # "free" /\ KeyOf(r).by = r
    /\ run[r].at \in {"committed", "answered", "dead"}
    /\ KeyOf(r).state = "done" <=> At(r, "answered")
    /\ At(r, "answered") => run[r].answer = r

\* A finished key names an order.
DoneKeysNameOrders ==
  \A m \in Mounts :
    /\ key[m].state # "free" => key[m].by \in Submissions /\ key[m].by[1] = m
    /\ key[m].state = "done" => Placed(key[m].by)

CommittedIsPlaced == \A r \in Submissions : At(r, "committed") => Placed(r)

PricedHasCart ==
  \A r \in Submissions : run[r].at \in {"priced", "begun", "counted"} => run[r].cart \in Carts

\* Submissions are numbered in the order they are made.
SentInOrder ==
  /\ \A r \in Submissions : r[2] > sent[r[1]] => At(r, "unsent")
  /\ \A m \in Mounts : form[m] = "busy" => sent[m] > 0

\* Who counts and spends a coupon's uses holds the coupon's row, and what it
\* counted stays true.
CountersHoldTheCoupon ==
  \A r \in Submissions : run[r].at \in {"begun", "counted"} /\ run[r].coupon =>
    /\ couponLock = r
    /\ At(r, "counted") => CouponLeft(Buyer(r))

\* A customer is only sent to pay for the order of the form's own key.
AnswersAreTheKeysOrder ==
  /\ \A r \in Submissions : run[r].answer # None =>
       /\ At(r, "answered") /\ KeyOf(r).state = "done" /\ KeyOf(r).by = run[r].answer
  /\ \A m \in Mounts : thanked[m] # None => key[m].state = "done" /\ key[m].by = thanked[m]

\* No coupon is used more often than its limits allow, whatever checkouts run
\* at the same moment (CheckoutService, PricingService::couponLimitError).
CouponWithinLimits ==
  /\ Cardinality(Uses) <= MaxRedemptions
  /\ \A c \in Customers : Cardinality(UsesOf(c)) <= MaxPerUser

\* The inductive invariant.
IInv ==
  /\ TypeOK
  /\ HoldersWroteTheKey
  /\ OrdersHoldTheirKey
  /\ DoneKeysNameOrders
  /\ CommittedIsPlaced
  /\ PricedHasCart
  /\ SentInOrder
  /\ CountersHoldTheCoupon
  /\ AnswersAreTheKeysOrder
  /\ CouponWithinLimits

\* Two submissions of one key never both place an order: a double click, a
\* retry of a request still running and a retry after a dropped connection
\* (checkout-form.tsx, EnforceIdempotency).
OneKeyOneOrder ==
  \A r, q \in Submissions : r[1] = q[1] /\ Placed(r) /\ Placed(q) => r = q

\* A submission that was answered with an error placed no order: the customer
\* who is told to try again has not bought anything by it.
FailureIsHonest ==
  \A r \in Submissions : At(r, "answered") /\ run[r].answer = None => ~Placed(r)

\* The order made under a key, as Once knows it.
Made == [m \in Mounts |->
           IF \E r \in Submissions : r[1] = m /\ Placed(r)
           THEN CHOOSE r \in Submissions : r[1] = m /\ Placed(r)
           ELSE None]

O == INSTANCE Once WITH Keys <- Mounts, Results <- Submissions, made <- Made, told <- thanked

\* Checkout behind the middleware implements work that is done once per key.
ImplementsOnce == O!Spec

\* Nobody waits for nothing: a locked key is that of a request still at work,
\* unless the process died, and whoever holds the coupon's row is past all
\* waiting (EnforceIdempotency gives the key back on every failure, and every
\* way out of CheckoutService's transaction gives the row back).
HoldersAtWork ==
  /\ \A m \in Mounts : key[m].state = "locked" =>
       run[key[m].by].at \in Holding \union {"dead"}
  /\ couponLock # None =>
       run[couponLock].at \in {"begun", "counted"} /\ run[couponLock].coupon

\* A key does not stay locked while its request lives: nobody waits for ever
\* for the coupon's row, and every failure gives the key back.
KeysSettle ==
  \A m \in Mounts : key[m].state = "locked"
    ~> (key[m].state # "locked" \/ run[key[m].by].at = "dead")
=============================================================================
