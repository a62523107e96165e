--------------------------- MODULE Checkout_proofs ---------------------------
(***************************************************************************)
(* Checkout for any number of forms, submissions, customers and carts and  *)
(* any coupon limits: one order per key, the limits of the coupon, honest  *)
(* failures, and work done once per key.                                   *)
(***************************************************************************)
EXTENDS Checkout, FiniteSetTheorems, TLAPS

\* A submission is a pair whose first part is its mount.
LEMMA MountOf == \A r \in Submissions : r[1] \in Mounts /\ r = <<r[1], r[2]>> /\ r # None
<1>1. \A m \in Mounts, i \in 1..MaxSubmits : <<m, i>> # None
  BY CheckoutAssumption
<1>. QED  BY <1>1 DEF Submissions

\* There are finitely many submissions.
LEMMA FiniteSubmissions == IsFiniteSet(Submissions)
<1>1. IsFiniteSet(1..MaxSubmits)
  BY CheckoutAssumption, FS_Interval
<1>. QED  BY <1>1, CheckoutAssumption, FS_Product DEF Submissions

\* Every use of the coupon is a submission, so the uses can be counted.
LEMMA UsesCounted ==
  /\ IsFiniteSet(Uses) /\ Cardinality(Uses) \in Nat
  /\ \A c : IsFiniteSet(UsesOf(c)) /\ Cardinality(UsesOf(c)) \in Nat
<1>1. Uses \subseteq Submissions /\ \A c : UsesOf(c) \subseteq Submissions
  BY DEF Uses, UsesOf
<1>. QED  BY <1>1, FiniteSubmissions, FS_Subset, FS_CardinalityType

\* The initial states satisfy the invariant.
LEMMA InitHolds == Init => IInv
<1>. SUFFICES ASSUME Init PROVE IInv
  OBVIOUS
<1>. USE CheckoutAssumption
<1>1. TypeOK
  BY DEF Init, TypeOK, FreshRun, FreeKey, NoOrder, NoCart, Places, RunRecords, KeyRecords, OrderRecords, CartRecords
<1>2. /\ HoldersWroteTheKey /\ OrdersHoldTheirKey /\ DoneKeysNameOrders /\ CommittedIsPlaced
      /\ PricedHasCart /\ SentInOrder /\ CountersHoldTheCoupon /\ AnswersAreTheKeysOrder
  BY MountOf DEF Init, SentInOrder, HoldersWroteTheKey, OrdersHoldTheirKey, DoneKeysNameOrders, CommittedIsPlaced,
     PricedHasCart, CountersHoldTheCoupon, AnswersAreTheKeysOrder, Holding, Placed, At, KeyOf,
     FreshRun, FreeKey, NoOrder
<1>3. Uses = {} /\ \A c : UsesOf(c) = {}
  BY DEF Init, Uses, UsesOf, NoOrder
<1>4. CouponWithinLimits
  BY <1>3, FS_EmptySet DEF CouponWithinLimits
<1>. QED  BY <1>1, <1>2, <1>4 DEF IInv

\* A cart the customer's request works on stays a cart.
LEMMA CartTyped ==
  ASSUME TypeOK, NEW k \in Carts
  PROVE  /\ [cart EXCEPT ![k].status = "open"] \in [Carts -> CartRecords]
         /\ \A b \in BOOLEAN :
              /\ [cart EXCEPT ![k] = [Opened(k) EXCEPT !.lines = b]] \in [Carts -> CartRecords]
              /\ [cart EXCEPT ![k] = [Opened(k) EXCEPT !.coupon = b]] \in [Carts -> CartRecords]
<1>1. cart[k] \in CartRecords
  BY DEF TypeOK
<1>2. Opened(k) \in CartRecords
  BY <1>1 DEF Opened, CartRecords
<1>3. \A b \in BOOLEAN : [Opened(k) EXCEPT !.lines = b] \in CartRecords /\ [Opened(k) EXCEPT !.coupon = b] \in CartRecords
  BY <1>2 DEF CartRecords
<1>. QED  BY <1>2, <1>3 DEF TypeOK, Opened

\* An order that is made, or made void, stays typed.
LEMMA OrderTyped ==
  ASSUME TypeOK, NEW r \in Submissions
  PROVE  /\ [order EXCEPT ![r].status = "void"] \in [Submissions -> OrderRecords]
         /\ \A k \in Carts, b \in BOOLEAN :
              [order EXCEPT ![r] = [status |-> "placed", cart |-> k, coupon |-> b]] \in [Submissions -> OrderRecords]
<1>1. order[r] \in OrderRecords
  BY DEF TypeOK
<1>. QED  BY <1>1 DEF TypeOK, OrderRecords

\* An empty cart is a cart.
LEMMA EmptyTyped == EmptyCart \in CartRecords /\ SpentCart \in CartRecords
  BY DEF EmptyCart, SpentCart, CartRecords

\* A submission that moves, and one that ends, stay typed.
LEMMA RunTyped ==
  ASSUME TypeOK, NEW r \in Submissions
  PROVE  /\ \A s \in Places : [run EXCEPT ![r].at = s] \in [Submissions -> RunRecords]
         /\ \A s \in Places, o \in Submissions \union {None} :
              [run EXCEPT ![r] = [FreshRun EXCEPT !.at = s, !.answer = o]] \in [Submissions -> RunRecords]
         /\ \A s \in Places, b \in Bodies :
              [run EXCEPT ![r] = [FreshRun EXCEPT !.at = s, !.body = b]] \in [Submissions -> RunRecords]
         /\ \A s \in Places, k \in Carts, b \in BOOLEAN :
              [run EXCEPT ![r].at = s, ![r].cart = k, ![r].coupon = b] \in [Submissions -> RunRecords]
<1>1. run[r] \in RunRecords
  BY DEF TypeOK
<1>2. \A s \in Places : [run[r] EXCEPT !.at = s] \in RunRecords
  BY <1>1 DEF RunRecords
<1>3. \A s \in Places, o \in Submissions \union {None} : [FreshRun EXCEPT !.at = s, !.answer = o] \in RunRecords
  BY DEF RunRecords, FreshRun
<1>4. \A s \in Places, b \in Bodies : [FreshRun EXCEPT !.at = s, !.body = b] \in RunRecords
  BY DEF RunRecords, FreshRun
<1>5. \A s \in Places, k \in Carts, b \in BOOLEAN : [run[r] EXCEPT !.at = s, !.cart = k, !.coupon = b] \in RunRecords
  BY <1>1 DEF RunRecords
<1>. QED  BY <1>2, <1>3, <1>4, <1>5 DEF TypeOK

\* So do the keys.
LEMMA KeyTyped ==
  ASSUME TypeOK, NEW m \in Mounts
  PROVE  /\ [key EXCEPT ![m].state = "done"] \in [Mounts -> KeyRecords]
         /\ [key EXCEPT ![m] = FreeKey] \in [Mounts -> KeyRecords]
         /\ \A b \in Bodies \union {None}, r \in Submissions :
              [key EXCEPT ![m] = [state |-> "locked", body |-> b, by |-> r]] \in [Mounts -> KeyRecords]
<1>1. key[m] \in KeyRecords
  BY DEF TypeOK
<1>. QED  BY <1>1 DEF TypeOK, KeyRecords, FreeKey

\* The uses of the coupon follow the orders alone.
LEMMA SameUses ==
  ASSUME UNCHANGED <<account, order>>
  PROVE  Uses' = Uses /\ \A c : UsesOf(c)' = UsesOf(c) /\ CouponLeft(c)' = CouponLeft(c)
<1>1. Uses' = Uses
  BY DEF Uses
<1>2. \A c : UsesOf(c)' = UsesOf(c)
  BY <1>1 DEF UsesOf
<1>. QED  BY <1>1, <1>2 DEF CouponLeft

\* An invariant of the requests holds on when neither they nor their keys,
\* orders and answers change.
LEMMA NothingElse ==
  ASSUME IInv, TypeOK', UNCHANGED <<account, run, key, order, couponLock>>,
         \A m \in Mounts : thanked'[m] # None => key[m].state = "done" /\ key[m].by = thanked'[m],
         UNCHANGED sent, \A m \in Mounts : form'[m] = "busy" => form[m] = "busy"
  PROVE  IInv'
<1>. USE DEF IInv
<1>1. /\ HoldersWroteTheKey' /\ OrdersHoldTheirKey' /\ DoneKeysNameOrders' /\ CommittedIsPlaced' /\ PricedHasCart'
  BY DEF HoldersWroteTheKey, OrdersHoldTheirKey, DoneKeysNameOrders, CommittedIsPlaced, PricedHasCart, Holding, Placed, At, KeyOf
<1>2. CountersHoldTheCoupon' /\ CouponWithinLimits'
  BY SameUses, MountOf DEF CountersHoldTheCoupon, CouponWithinLimits, At, Buyer, TypeOK
<1>3. AnswersAreTheKeysOrder'
  BY DEF AnswersAreTheKeysOrder, At, KeyOf
<1>4. SentInOrder'
  BY MountOf DEF SentInOrder, At
<1>. QED  BY <1>1, <1>2, <1>3, <1>4

\* What happens to carts alone leaves everything else as it is.
LEMMA ShopKeeps ==
  ASSUME IInv, NEW c \in Customers, Shop(c)
  PROVE  IInv'
<1>. USE CheckoutAssumption
<1>1. UNCHANGED <<account, form, sent, thanked, run, key, order, couponLock>>
  BY DEF Shop, AddItem, RemoveItem, ApplyCoupon, RemoveCoupon, OpenTwins, CartStep, browser
<1>2. cart' \in [Carts -> CartRecords]
  <2>. TypeOK
    BY DEF IInv
  <2>1. CASE AddItem(c) \/ RemoveItem(c) \/ ApplyCoupon(c) \/ RemoveCoupon(c)
    <3>1. CASE AddItem(c)
      BY <3>1, CartTyped DEF AddItem, CartStep
    <3>2. CASE RemoveItem(c)
      BY <3>2, CartTyped DEF RemoveItem, CartStep
    <3>3. CASE ApplyCoupon(c)
      BY <3>3, CartTyped DEF ApplyCoupon, CartStep
    <3>4. CASE RemoveCoupon(c)
      BY <3>4, CartTyped DEF RemoveCoupon, CartStep
    <3>. QED  BY <2>1, <3>1, <3>2, <3>3, <3>4
  <2>2. CASE OpenTwins(c)
    BY <2>2, EmptyTyped DEF OpenTwins, TypeOK
  <2>. QED  BY <2>1, <2>2 DEF Shop
<1>3. TypeOK'
  BY <1>1, <1>2 DEF IInv, TypeOK
<1>4. \A m \in Mounts : thanked'[m] # None => key[m].state = "done" /\ key[m].by = thanked'[m]
  BY <1>1 DEF IInv, AnswersAreTheKeysOrder
<1>. QED  BY <1>1, <1>3, <1>4, NothingElse

\* What the form does.
LEMMA FormKeeps ==
  ASSUME IInv, NEW m \in Mounts, Load(m) \/ LoadFails(m) \/ Receive(m) \/ Drop(m)
  PROVE  IInv'
<1>. USE CheckoutAssumption
<1>0. TypeOK /\ AnswersAreTheKeysOrder
  BY DEF IInv
<1>1. CASE Load(m)
  <2>1. PICK k \in Carts : cart' = [cart EXCEPT ![k].status = "open"]
    BY <1>1 DEF Load
  <2>2. cart' \in [Carts -> CartRecords]
    BY <1>0, <2>1, CartTyped
  <2>3. /\ UNCHANGED <<account, run, key, order, couponLock, sent, thanked>>
        /\ form' \in [Mounts -> {"loading", "ready", "blocked", "empty", "login", "busy", "paying"}]
        /\ \A n \in Mounts : form'[n] = "busy" => form[n] = "busy"
    BY <1>0, <1>1 DEF Load, Show, TypeOK
  <2>4. TypeOK'
    BY <1>0, <2>2, <2>3 DEF TypeOK
  <2>. QED  BY <1>0, <2>3, <2>4, NothingElse DEF AnswersAreTheKeysOrder
<1>2. CASE LoadFails(m) \/ Drop(m)
  <2>1. UNCHANGED <<account, run, key, order, couponLock, sent, thanked, cart>>
    BY <1>2 DEF LoadFails, Drop, Show
  <2>0. PICK what \in {"login", "empty", "ready"} : form' = [form EXCEPT ![m] = what]
    BY <1>2 DEF LoadFails, Drop, Show
  <2>2. TypeOK' /\ \A n \in Mounts : form'[n] = "busy" => form[n] = "busy"
    BY <1>0, <2>0, <2>1 DEF TypeOK
  <2>. QED  BY <1>0, <2>1, <2>2, NothingElse DEF AnswersAreTheKeysOrder
<1>3. CASE Receive(m)
  <2>1. UNCHANGED <<account, run, key, order, couponLock, sent, cart>>
    BY <1>3 DEF Receive, Show
  <2>2. CASE run[Awaited(m)].answer # None /\ thanked' = [thanked EXCEPT ![m] = run[Awaited(m)].answer] /\ Show(m, "paying")
    <3>1. Awaited(m) \in Submissions
      <4>1. sent[m] > 0
        BY <1>3 DEF Receive, IInv, SentInOrder
      <4>. QED  BY <4>1, <1>0 DEF Awaited, Submissions, TypeOK
    <3>2. Awaited(m)[1] = m
      BY DEF Awaited
    <3>3. run[Awaited(m)].answer \in Submissions /\ key[m].state = "done" /\ key[m].by = run[Awaited(m)].answer
      BY <1>0, <2>2, <3>1, <3>2 DEF AnswersAreTheKeysOrder, KeyOf, TypeOK, RunRecords
    <3>4. TypeOK' /\ \A n \in Mounts : form'[n] = "busy" => form[n] = "busy"
      BY <1>0, <2>1, <2>2, <3>3 DEF Show, TypeOK
    <3>5. \A n \in Mounts : thanked'[n] # None => key[n].state = "done" /\ key[n].by = thanked'[n]
      BY <1>0, <2>2, <3>3 DEF AnswersAreTheKeysOrder, TypeOK
    <3>. QED  BY <2>1, <3>4, <3>5, NothingElse
  <2>3. CASE Show(m, "ready") /\ UNCHANGED thanked
    <3>1. TypeOK' /\ \A n \in Mounts : form'[n] = "busy" => form[n] = "busy"
      BY <1>0, <2>1, <2>3 DEF Show, TypeOK
    <3>. QED  BY <1>0, <2>1, <2>3, <3>1, NothingElse DEF AnswersAreTheKeysOrder
  <2>. QED  BY <1>3, <2>2, <2>3 DEF Receive
<1>. QED  BY <1>1, <1>2, <1>3

\* The form sends a submission that was not sent before.
LEMMA SubmitKeeps ==
  ASSUME IInv, NEW m \in Mounts, NEW b \in Bodies, Submit(m, b)
  PROVE  IInv'
<1>. USE CheckoutAssumption, MountOf
<1>. TypeOK /\ HoldersWroteTheKey /\ OrdersHoldTheirKey /\ DoneKeysNameOrders /\ CommittedIsPlaced
  BY DEF IInv
<1>. SentInOrder /\ PricedHasCart /\ CountersHoldTheCoupon /\ AnswersAreTheKeysOrder /\ CouponWithinLimits
  BY DEF IInv
<1>. DEFINE r == <<m, sent[m] + 1>>
<1>0. r \in Submissions /\ r[1] = m /\ r[2] = sent[m] + 1
  BY DEF Submit, Submissions, TypeOK
<1>a. /\ form' = [form EXCEPT ![m] = "busy"]
      /\ sent' = [sent EXCEPT ![m] = @ + 1]
      /\ sent[m] < MaxSubmits
      /\ run' = [run EXCEPT ![r] = [FreshRun EXCEPT !.at = "sent", !.body = b]]
      /\ UNCHANGED <<account, thanked, key, order, cart, couponLock>>
  BY DEF Submit
<1>b. At(r, "unsent")
  BY <1>0 DEF SentInOrder, TypeOK
<1>c. ~Placed(r) /\ run[r].answer = None
  BY <1>0, <1>b DEF OrdersHoldTheirKey, AnswersAreTheKeysOrder, At
<1>. HIDE DEF r
<1>d. /\ sent' \in [Mounts -> 0..MaxSubmits] /\ run' \in [Submissions -> RunRecords]
      /\ form' \in [Mounts -> {"loading", "ready", "blocked", "empty", "login", "busy", "paying"}]
  <2>1. run' \in [Submissions -> RunRecords]
    BY <1>0, <1>a, RunTyped DEF Places
  <2>2. sent[m] + 1 \in 0..MaxSubmits
    BY <1>a DEF TypeOK
  <2>. QED  BY <1>a, <2>1, <2>2 DEF TypeOK
<1>1. TypeOK'
  BY <1>a, <1>d DEF TypeOK
<1>2. HoldersWroteTheKey'
  BY <1>0, <1>a, <1>b, <1>c DEF HoldersWroteTheKey, Holding, At, KeyOf, FreshRun, FreeKey, TypeOK, RunRecords, KeyRecords
<1>3. OrdersHoldTheirKey'
  BY <1>0, <1>a, <1>b, <1>c DEF OrdersHoldTheirKey, HoldersWroteTheKey, Holding, Placed, At, KeyOf, FreshRun, FreeKey, TypeOK, RunRecords, KeyRecords
<1>4. DoneKeysNameOrders'
  BY <1>0, <1>a, <1>b, <1>c DEF DoneKeysNameOrders, HoldersWroteTheKey, CommittedIsPlaced, OrdersHoldTheirKey, Holding, Placed, At, KeyOf, FreshRun, FreeKey, TypeOK, RunRecords, KeyRecords
<1>5. CommittedIsPlaced'
  BY <1>0, <1>a, <1>b, <1>c DEF CommittedIsPlaced, Placed, At, KeyOf, FreshRun, FreeKey, TypeOK, RunRecords, KeyRecords
<1>6. PricedHasCart'
  BY <1>0, <1>a, <1>b, <1>c DEF PricedHasCart, At, KeyOf, FreshRun, FreeKey, TypeOK, RunRecords, KeyRecords
<1>7. AnswersAreTheKeysOrder'
  BY <1>0, <1>a, <1>b, <1>c DEF AnswersAreTheKeysOrder, DoneKeysNameOrders, OrdersHoldTheirKey, HoldersWroteTheKey, Holding, Placed, CommittedIsPlaced, At, KeyOf, FreshRun, FreeKey, TypeOK
<1>9. SentInOrder'
  BY <1>0, <1>a, <1>b, <1>c DEF SentInOrder, At, FreshRun, Working, Submissions, TypeOK
<1>8. CountersHoldTheCoupon' /\ CouponWithinLimits'
  BY <1>0, <1>a, <1>b, <1>c, SameUses DEF CountersHoldTheCoupon, CouponWithinLimits, At, Buyer, FreshRun, Released, TypeOK, RunRecords
<1>. QED  BY <1>1, <1>2, <1>3, <1>4, <1>5, <1>6, <1>7, <1>8, <1>9 DEF IInv

\* A submission lost on the way changes nothing.
LEMMA LoseKeeps ==
  ASSUME IInv, NEW r \in Submissions, Lose(r)
  PROVE  IInv'
<1>. USE CheckoutAssumption, MountOf
<1>. TypeOK /\ HoldersWroteTheKey /\ OrdersHoldTheirKey /\ DoneKeysNameOrders /\ CommittedIsPlaced
  BY DEF IInv
<1>. SentInOrder /\ PricedHasCart /\ CountersHoldTheCoupon /\ AnswersAreTheKeysOrder /\ CouponWithinLimits
  BY DEF IInv
<1>a. /\ At(r, "sent") /\ run' = [run EXCEPT ![r] = [FreshRun EXCEPT !.at = "dead", !.answer = None]]
      /\ UNCHANGED <<account, form, sent, thanked, key, order, cart, couponLock>>
  BY DEF Lose, Ended, At, browser
<1>1. TypeOK'
  BY <1>a, RunTyped, KeyTyped, OrderTyped DEF TypeOK, Places, Working, Released
<1>2. HoldersWroteTheKey'
  BY <1>a DEF HoldersWroteTheKey, Holding, At, KeyOf, FreshRun, FreeKey, TypeOK, RunRecords, KeyRecords
<1>3. OrdersHoldTheirKey'
  BY <1>a DEF OrdersHoldTheirKey, HoldersWroteTheKey, Holding, Placed, At, KeyOf, FreshRun, FreeKey, TypeOK, RunRecords, KeyRecords
<1>4. DoneKeysNameOrders'
  BY <1>a DEF DoneKeysNameOrders, HoldersWroteTheKey, CommittedIsPlaced, OrdersHoldTheirKey, Holding, Placed, At, KeyOf, FreshRun, FreeKey, TypeOK, RunRecords, KeyRecords
<1>5. CommittedIsPlaced'
  BY <1>a DEF CommittedIsPlaced, Placed, At, KeyOf, FreshRun, FreeKey, TypeOK, RunRecords, KeyRecords
<1>6. PricedHasCart'
  BY <1>a DEF PricedHasCart, At, KeyOf, FreshRun, FreeKey, TypeOK, RunRecords, KeyRecords
<1>7. AnswersAreTheKeysOrder'
  BY <1>a DEF AnswersAreTheKeysOrder, DoneKeysNameOrders, OrdersHoldTheirKey, HoldersWroteTheKey, Holding, Placed, CommittedIsPlaced, At, KeyOf, FreshRun, FreeKey, TypeOK
<1>9. SentInOrder'
  BY <1>a DEF SentInOrder, At, FreshRun, Working, Submissions, TypeOK
<1>8. CountersHoldTheCoupon' /\ CouponWithinLimits'
  BY <1>a, SameUses DEF CountersHoldTheCoupon, CouponWithinLimits, At, Buyer, FreshRun, Released, TypeOK, RunRecords
<1>. QED  BY <1>1, <1>2, <1>3, <1>4, <1>5, <1>6, <1>7, <1>8, <1>9 DEF IInv

\* The key is looked up: a replayed answer is the key's order.
LEMMA LookupKeeps ==
  ASSUME IInv, NEW r \in Submissions, Lookup(r)
  PROVE  IInv'
<1>. USE CheckoutAssumption, MountOf
<1>. TypeOK /\ HoldersWroteTheKey /\ OrdersHoldTheirKey /\ DoneKeysNameOrders /\ CommittedIsPlaced
  BY DEF IInv
<1>. SentInOrder /\ PricedHasCart /\ CountersHoldTheCoupon /\ AnswersAreTheKeysOrder /\ CouponWithinLimits
  BY DEF IInv
<1>a. At(r, "sent") /\ UNCHANGED <<account, form, sent, thanked, key, order, cart, couponLock>>
  BY DEF Lookup, browser
<1>1. CASE Goto(r, "new")
  <2>a. run' = [run EXCEPT ![r].at = "new"]
    BY <1>1 DEF Goto
  <2>1. TypeOK'
    BY <1>a, <2>a, RunTyped, KeyTyped, OrderTyped DEF TypeOK, Places, Working, Released
  <2>2. HoldersWroteTheKey'
    BY <1>a, <2>a DEF HoldersWroteTheKey, Holding, At, KeyOf, FreshRun, FreeKey, TypeOK, RunRecords, KeyRecords
  <2>3. OrdersHoldTheirKey'
    BY <1>a, <2>a DEF OrdersHoldTheirKey, HoldersWroteTheKey, Holding, Placed, At, KeyOf, FreshRun, FreeKey, TypeOK, RunRecords, KeyRecords
  <2>4. DoneKeysNameOrders'
    BY <1>a, <2>a DEF DoneKeysNameOrders, HoldersWroteTheKey, CommittedIsPlaced, OrdersHoldTheirKey, Holding, Placed, At, KeyOf, FreshRun, FreeKey, TypeOK, RunRecords, KeyRecords
  <2>5. CommittedIsPlaced'
    BY <1>a, <2>a DEF CommittedIsPlaced, Placed, At, KeyOf, FreshRun, FreeKey, TypeOK, RunRecords, KeyRecords
  <2>6. PricedHasCart'
    BY <1>a, <2>a DEF PricedHasCart, At, KeyOf, FreshRun, FreeKey, TypeOK, RunRecords, KeyRecords
  <2>7. AnswersAreTheKeysOrder'
    BY <1>a, <2>a DEF AnswersAreTheKeysOrder, DoneKeysNameOrders, OrdersHoldTheirKey, HoldersWroteTheKey, Holding, Placed, CommittedIsPlaced, At, KeyOf, FreshRun, FreeKey, TypeOK
  <2>9. SentInOrder'
    BY <1>a, <2>a DEF SentInOrder, At, FreshRun, Working, Submissions, TypeOK
  <2>8. CountersHoldTheCoupon' /\ CouponWithinLimits'
    BY <1>a, <2>a, SameUses DEF CountersHoldTheCoupon, CouponWithinLimits, At, Buyer, FreshRun, Released, TypeOK, RunRecords
  <2>. QED  BY <2>1, <2>2, <2>3, <2>4, <2>5, <2>6, <2>7, <2>8, <2>9 DEF IInv
<1>2. CASE Replayable(r) /\ Answer(r, KeyOf(r).by)
  <2>a. run' = [run EXCEPT ![r] = [FreshRun EXCEPT !.at = "answered", !.answer = KeyOf(r).by]]
    BY <1>2 DEF Answer, Ended
  <2>b. KeyOf(r).state = "done" /\ KeyOf(r).by \in Submissions /\ Placed(KeyOf(r).by) /\ ~Placed(r)
    BY <1>2, <1>a DEF Replayable, DoneKeysNameOrders, OrdersHoldTheirKey, KeyOf, At
  <2>1. TypeOK'
    BY <1>a, <2>a, <2>b, RunTyped, KeyTyped, OrderTyped DEF TypeOK, Places, Working, Released
  <2>2. HoldersWroteTheKey'
    BY <1>a, <2>a, <2>b DEF HoldersWroteTheKey, Holding, At, KeyOf, FreshRun, FreeKey, TypeOK, RunRecords, KeyRecords
  <2>3. OrdersHoldTheirKey'
    BY <1>a, <2>a, <2>b DEF OrdersHoldTheirKey, HoldersWroteTheKey, Holding, Placed, At, KeyOf, FreshRun, FreeKey, TypeOK, RunRecords, KeyRecords
  <2>4. DoneKeysNameOrders'
    BY <1>a, <2>a, <2>b DEF DoneKeysNameOrders, HoldersWroteTheKey, CommittedIsPlaced, OrdersHoldTheirKey, Holding, Placed, At, KeyOf, FreshRun, FreeKey, TypeOK, RunRecords, KeyRecords
  <2>5. CommittedIsPlaced'
    BY <1>a, <2>a, <2>b DEF CommittedIsPlaced, Placed, At, KeyOf, FreshRun, FreeKey, TypeOK, RunRecords, KeyRecords
  <2>6. PricedHasCart'
    BY <1>a, <2>a, <2>b DEF PricedHasCart, At, KeyOf, FreshRun, FreeKey, TypeOK, RunRecords, KeyRecords
  <2>7. AnswersAreTheKeysOrder'
    BY <1>a, <2>a, <2>b DEF AnswersAreTheKeysOrder, DoneKeysNameOrders, OrdersHoldTheirKey, HoldersWroteTheKey, Holding, Placed, CommittedIsPlaced, At, KeyOf, FreshRun, FreeKey, TypeOK
  <2>9. SentInOrder'
    BY <1>a, <2>a, <2>b DEF SentInOrder, At, FreshRun, Working, Submissions, TypeOK
  <2>8. CountersHoldTheCoupon' /\ CouponWithinLimits'
    BY <1>a, <2>a, <2>b, SameUses DEF CountersHoldTheCoupon, CouponWithinLimits, At, Buyer, FreshRun, Released, TypeOK, RunRecords
  <2>. QED  BY <2>1, <2>2, <2>3, <2>4, <2>5, <2>6, <2>7, <2>8, <2>9 DEF IInv
<1>3. CASE KeyOf(r).state # "free" /\ Answer(r, None)
  <2>a. run' = [run EXCEPT ![r] = [FreshRun EXCEPT !.at = "answered", !.answer = None]]
    BY <1>3 DEF Answer, Ended
  <2>b. ~Placed(r)
    BY <1>a DEF OrdersHoldTheirKey, At
  <2>1. TypeOK'
    BY <1>a, <2>a, <2>b, RunTyped, KeyTyped, OrderTyped DEF TypeOK, Places, Working, Released
  <2>2. HoldersWroteTheKey'
    BY <1>a, <2>a, <2>b DEF HoldersWroteTheKey, Holding, At, KeyOf, FreshRun, FreeKey, TypeOK, RunRecords, KeyRecords
  <2>3. OrdersHoldTheirKey'
    BY <1>a, <2>a, <2>b DEF OrdersHoldTheirKey, HoldersWroteTheKey, Holding, Placed, At, KeyOf, FreshRun, FreeKey, TypeOK, RunRecords, KeyRecords
  <2>4. DoneKeysNameOrders'
    BY <1>a, <2>a, <2>b DEF DoneKeysNameOrders, HoldersWroteTheKey, CommittedIsPlaced, OrdersHoldTheirKey, Holding, Placed, At, KeyOf, FreshRun, FreeKey, TypeOK, RunRecords, KeyRecords
  <2>5. CommittedIsPlaced'
    BY <1>a, <2>a, <2>b DEF CommittedIsPlaced, Placed, At, KeyOf, FreshRun, FreeKey, TypeOK, RunRecords, KeyRecords
  <2>6. PricedHasCart'
    BY <1>a, <2>a, <2>b DEF PricedHasCart, At, KeyOf, FreshRun, FreeKey, TypeOK, RunRecords, KeyRecords
  <2>7. AnswersAreTheKeysOrder'
    BY <1>a, <2>a, <2>b DEF AnswersAreTheKeysOrder, DoneKeysNameOrders, OrdersHoldTheirKey, HoldersWroteTheKey, Holding, Placed, CommittedIsPlaced, At, KeyOf, FreshRun, FreeKey, TypeOK
  <2>9. SentInOrder'
    BY <1>a, <2>a, <2>b DEF SentInOrder, At, FreshRun, Working, Submissions, TypeOK
  <2>8. CountersHoldTheCoupon' /\ CouponWithinLimits'
    BY <1>a, <2>a, <2>b, SameUses DEF CountersHoldTheCoupon, CouponWithinLimits, At, Buyer, FreshRun, Released, TypeOK, RunRecords
  <2>. QED  BY <2>1, <2>2, <2>3, <2>4, <2>5, <2>6, <2>7, <2>8, <2>9 DEF IInv
<1>. QED  BY <1>1, <1>2, <1>3 DEF Lookup

\* The key is written by one submission at most.
LEMMA WriteKeyKeeps ==
  ASSUME IInv, NEW r \in Submissions, WriteKey(r)
  PROVE  IInv'
<1>. USE CheckoutAssumption, MountOf
<1>. TypeOK /\ HoldersWroteTheKey /\ OrdersHoldTheirKey /\ DoneKeysNameOrders /\ CommittedIsPlaced
  BY DEF IInv
<1>. SentInOrder /\ PricedHasCart /\ CountersHoldTheCoupon /\ AnswersAreTheKeysOrder /\ CouponWithinLimits
  BY DEF IInv
<1>a. At(r, "new") /\ UNCHANGED <<account, form, sent, thanked, order, cart, couponLock>>
  BY DEF WriteKey, browser
<1>b. ~Placed(r)
  BY <1>a DEF OrdersHoldTheirKey, At
<1>1. CASE KeyOf(r).state = "free" /\ key' = [key EXCEPT ![r[1]] = [state |-> "locked", body |-> run[r].body, by |-> r]] /\ Goto(r, "keyed")
  <2>a. run' = [run EXCEPT ![r].at = "keyed"]
    BY <1>1 DEF Goto
  <2>b. run[r].body \in Bodies \union {None}
    BY DEF TypeOK, RunRecords
  <2>1. TypeOK'
    BY <1>a, <1>b, <1>1, <2>a, <2>b, RunTyped, KeyTyped, OrderTyped DEF TypeOK, Places, Working, Released
  <2>2. HoldersWroteTheKey'
    BY <1>a, <1>b, <1>1, <2>a DEF HoldersWroteTheKey, Holding, At, KeyOf, FreshRun, FreeKey, TypeOK, RunRecords, KeyRecords
  <2>3. OrdersHoldTheirKey'
    BY <1>a, <1>b, <1>1, <2>a DEF OrdersHoldTheirKey, HoldersWroteTheKey, Holding, Placed, At, KeyOf, FreshRun, FreeKey, TypeOK, RunRecords, KeyRecords
  <2>4. DoneKeysNameOrders'
    BY <1>a, <1>b, <1>1, <2>a DEF DoneKeysNameOrders, HoldersWroteTheKey, CommittedIsPlaced, OrdersHoldTheirKey, Holding, Placed, At, KeyOf, FreshRun, FreeKey, TypeOK, RunRecords, KeyRecords
  <2>5. CommittedIsPlaced'
    BY <1>a, <1>b, <1>1, <2>a DEF CommittedIsPlaced, Placed, At, KeyOf, FreshRun, FreeKey, TypeOK, RunRecords, KeyRecords
  <2>6. PricedHasCart'
    BY <1>a, <1>b, <1>1, <2>a DEF PricedHasCart, At, KeyOf, FreshRun, FreeKey, TypeOK, RunRecords, KeyRecords
  <2>7. AnswersAreTheKeysOrder'
    BY <1>a, <1>b, <1>1, <2>a DEF AnswersAreTheKeysOrder, DoneKeysNameOrders, OrdersHoldTheirKey, HoldersWroteTheKey, Holding, Placed, CommittedIsPlaced, At, KeyOf, FreshRun, FreeKey, TypeOK
  <2>9. SentInOrder'
    BY <1>a, <1>b, <1>1, <2>a DEF SentInOrder, At, FreshRun, Working, Submissions, TypeOK
  <2>8. CountersHoldTheCoupon' /\ CouponWithinLimits'
    BY <1>a, <1>b, <1>1, <2>a, SameUses DEF CountersHoldTheCoupon, CouponWithinLimits, At, Buyer, FreshRun, Released, TypeOK, RunRecords
  <2>. QED  BY <2>1, <2>2, <2>3, <2>4, <2>5, <2>6, <2>7, <2>8, <2>9 DEF IInv
<1>2. CASE KeyOf(r).state # "free" /\ Answer(r, None) /\ UNCHANGED key
  <2>a. run' = [run EXCEPT ![r] = [FreshRun EXCEPT !.at = "answered", !.answer = None]]
    BY <1>2 DEF Answer, Ended
  <2>1. TypeOK'
    BY <1>a, <1>b, <1>2, <2>a, RunTyped, KeyTyped, OrderTyped DEF TypeOK, Places, Working, Released
  <2>2. HoldersWroteTheKey'
    BY <1>a, <1>b, <1>2, <2>a DEF HoldersWroteTheKey, Holding, At, KeyOf, FreshRun, FreeKey, TypeOK, RunRecords, KeyRecords
  <2>3. OrdersHoldTheirKey'
    BY <1>a, <1>b, <1>2, <2>a DEF OrdersHoldTheirKey, HoldersWroteTheKey, Holding, Placed, At, KeyOf, FreshRun, FreeKey, TypeOK, RunRecords, KeyRecords
  <2>4. DoneKeysNameOrders'
    BY <1>a, <1>b, <1>2, <2>a DEF DoneKeysNameOrders, HoldersWroteTheKey, CommittedIsPlaced, OrdersHoldTheirKey, Holding, Placed, At, KeyOf, FreshRun, FreeKey, TypeOK, RunRecords, KeyRecords
  <2>5. CommittedIsPlaced'
    BY <1>a, <1>b, <1>2, <2>a DEF CommittedIsPlaced, Placed, At, KeyOf, FreshRun, FreeKey, TypeOK, RunRecords, KeyRecords
  <2>6. PricedHasCart'
    BY <1>a, <1>b, <1>2, <2>a DEF PricedHasCart, At, KeyOf, FreshRun, FreeKey, TypeOK, RunRecords, KeyRecords
  <2>7. AnswersAreTheKeysOrder'
    BY <1>a, <1>b, <1>2, <2>a DEF AnswersAreTheKeysOrder, DoneKeysNameOrders, OrdersHoldTheirKey, HoldersWroteTheKey, Holding, Placed, CommittedIsPlaced, At, KeyOf, FreshRun, FreeKey, TypeOK
  <2>9. SentInOrder'
    BY <1>a, <1>b, <1>2, <2>a DEF SentInOrder, At, FreshRun, Working, Submissions, TypeOK
  <2>8. CountersHoldTheCoupon' /\ CouponWithinLimits'
    BY <1>a, <1>b, <1>2, <2>a, SameUses DEF CountersHoldTheCoupon, CouponWithinLimits, At, Buyer, FreshRun, Released, TypeOK, RunRecords
  <2>. QED  BY <2>1, <2>2, <2>3, <2>4, <2>5, <2>6, <2>7, <2>8, <2>9 DEF IInv
<1>. QED  BY <1>a, <1>1, <1>2 DEF WriteKey

\* Pricing gives the submission a cart, or ends it.
LEMMA PriceKeeps ==
  ASSUME IInv, NEW r \in Submissions, Price(r)
  PROVE  IInv'
<1>. USE CheckoutAssumption, MountOf
<1>. TypeOK /\ HoldersWroteTheKey /\ OrdersHoldTheirKey /\ DoneKeysNameOrders /\ CommittedIsPlaced
  BY DEF IInv
<1>. SentInOrder /\ PricedHasCart /\ CountersHoldTheCoupon /\ AnswersAreTheKeysOrder /\ CouponWithinLimits
  BY DEF IInv
<1>a. At(r, "keyed") /\ UNCHANGED <<account, form, sent, thanked, key, order, couponLock>>
  BY DEF Price, browser
<1>b. PICK k \in Carts :
        /\ cart' = [cart EXCEPT ![k].status = "open"]
        /\ \/ run' = [run EXCEPT ![r].at = "priced", ![r].cart = k, ![r].coupon = cart[k].coupon]
           \/ Goto(r, "failed")
  BY DEF Price
<1>c. cart' \in [Carts -> CartRecords]
  BY <1>b, CartTyped
<1>d. cart[k].coupon \in BOOLEAN
  BY DEF TypeOK, CartRecords
<1>1. CASE run' = [run EXCEPT ![r].at = "priced", ![r].cart = k, ![r].coupon = cart[k].coupon]
  <2>1. TypeOK'
    BY <1>a, <1>c, <1>d, <1>1, RunTyped, KeyTyped, OrderTyped DEF TypeOK, Places, Working, Released
  <2>2. HoldersWroteTheKey'
    BY <1>a, <1>c, <1>d, <1>1 DEF HoldersWroteTheKey, Holding, At, KeyOf, FreshRun, FreeKey, TypeOK, RunRecords, KeyRecords
  <2>3. OrdersHoldTheirKey'
    BY <1>a, <1>c, <1>d, <1>1 DEF OrdersHoldTheirKey, HoldersWroteTheKey, Holding, Placed, At, KeyOf, FreshRun, FreeKey, TypeOK, RunRecords, KeyRecords
  <2>4. DoneKeysNameOrders'
    BY <1>a, <1>c, <1>d, <1>1 DEF DoneKeysNameOrders, HoldersWroteTheKey, CommittedIsPlaced, OrdersHoldTheirKey, Holding, Placed, At, KeyOf, FreshRun, FreeKey, TypeOK, RunRecords, KeyRecords
  <2>5. CommittedIsPlaced'
    BY <1>a, <1>c, <1>d, <1>1 DEF CommittedIsPlaced, Placed, At, KeyOf, FreshRun, FreeKey, TypeOK, RunRecords, KeyRecords
  <2>6. PricedHasCart'
    BY <1>a, <1>c, <1>d, <1>1 DEF PricedHasCart, At, KeyOf, FreshRun, FreeKey, TypeOK, RunRecords, KeyRecords
  <2>7. AnswersAreTheKeysOrder'
    BY <1>a, <1>c, <1>d, <1>1 DEF AnswersAreTheKeysOrder, DoneKeysNameOrders, OrdersHoldTheirKey, HoldersWroteTheKey, Holding, Placed, CommittedIsPlaced, At, KeyOf, FreshRun, FreeKey, TypeOK
  <2>9. SentInOrder'
    BY <1>a, <1>c, <1>d, <1>1 DEF SentInOrder, At, FreshRun, Working, Submissions, TypeOK
  <2>8. CountersHoldTheCoupon' /\ CouponWithinLimits'
    BY <1>a, <1>c, <1>d, <1>1, SameUses DEF CountersHoldTheCoupon, CouponWithinLimits, At, Buyer, FreshRun, Released, TypeOK, RunRecords
  <2>. QED  BY <2>1, <2>2, <2>3, <2>4, <2>5, <2>6, <2>7, <2>8, <2>9 DEF IInv
<1>2. CASE Goto(r, "failed")
  <2>a. run' = [run EXCEPT ![r].at = "failed"]
    BY <1>2 DEF Goto
  <2>1. TypeOK'
    BY <1>a, <1>c, <2>a, RunTyped, KeyTyped, OrderTyped DEF TypeOK, Places, Working, Released
  <2>2. HoldersWroteTheKey'
    BY <1>a, <1>c, <2>a DEF HoldersWroteTheKey, Holding, At, KeyOf, FreshRun, FreeKey, TypeOK, RunRecords, KeyRecords
  <2>3. OrdersHoldTheirKey'
    BY <1>a, <1>c, <2>a DEF OrdersHoldTheirKey, HoldersWroteTheKey, Holding, Placed, At, KeyOf, FreshRun, FreeKey, TypeOK, RunRecords, KeyRecords
  <2>4. DoneKeysNameOrders'
    BY <1>a, <1>c, <2>a DEF DoneKeysNameOrders, HoldersWroteTheKey, CommittedIsPlaced, OrdersHoldTheirKey, Holding, Placed, At, KeyOf, FreshRun, FreeKey, TypeOK, RunRecords, KeyRecords
  <2>5. CommittedIsPlaced'
    BY <1>a, <1>c, <2>a DEF CommittedIsPlaced, Placed, At, KeyOf, FreshRun, FreeKey, TypeOK, RunRecords, KeyRecords
  <2>6. PricedHasCart'
    BY <1>a, <1>c, <2>a DEF PricedHasCart, At, KeyOf, FreshRun, FreeKey, TypeOK, RunRecords, KeyRecords
  <2>7. AnswersAreTheKeysOrder'
    BY <1>a, <1>c, <2>a DEF AnswersAreTheKeysOrder, DoneKeysNameOrders, OrdersHoldTheirKey, HoldersWroteTheKey, Holding, Placed, CommittedIsPlaced, At, KeyOf, FreshRun, FreeKey, TypeOK
  <2>9. SentInOrder'
    BY <1>a, <1>c, <2>a DEF SentInOrder, At, FreshRun, Working, Submissions, TypeOK
  <2>8. CountersHoldTheCoupon' /\ CouponWithinLimits'
    BY <1>a, <1>c, <2>a, SameUses DEF CountersHoldTheCoupon, CouponWithinLimits, At, Buyer, FreshRun, Released, TypeOK, RunRecords
  <2>. QED  BY <2>1, <2>2, <2>3, <2>4, <2>5, <2>6, <2>7, <2>8, <2>9 DEF IInv
<1>. QED  BY <1>b, <1>1, <1>2

\* A form that is not accepted ends the submission.
LEMMA RejectKeeps ==
  ASSUME IInv, NEW r \in Submissions, Reject(r)
  PROVE  IInv'
<1>. USE CheckoutAssumption, MountOf
<1>. TypeOK /\ HoldersWroteTheKey /\ OrdersHoldTheirKey /\ DoneKeysNameOrders /\ CommittedIsPlaced
  BY DEF IInv
<1>. SentInOrder /\ PricedHasCart /\ CountersHoldTheCoupon /\ AnswersAreTheKeysOrder /\ CouponWithinLimits
  BY DEF IInv
<1>a. /\ At(r, "keyed") /\ run' = [run EXCEPT ![r].at = "failed"]
      /\ UNCHANGED <<account, form, sent, thanked, key, order, cart, couponLock>>
  BY DEF Reject, Goto, At, browser
<1>1. TypeOK'
  BY <1>a, RunTyped, KeyTyped, OrderTyped DEF TypeOK, Places, Working, Released
<1>2. HoldersWroteTheKey'
  BY <1>a DEF HoldersWroteTheKey, Holding, At, KeyOf, FreshRun, FreeKey, TypeOK, RunRecords, KeyRecords
<1>3. OrdersHoldTheirKey'
  BY <1>a DEF OrdersHoldTheirKey, HoldersWroteTheKey, Holding, Placed, At, KeyOf, FreshRun, FreeKey, TypeOK, RunRecords, KeyRecords
<1>4. DoneKeysNameOrders'
  BY <1>a DEF DoneKeysNameOrders, HoldersWroteTheKey, CommittedIsPlaced, OrdersHoldTheirKey, Holding, Placed, At, KeyOf, FreshRun, FreeKey, TypeOK, RunRecords, KeyRecords
<1>5. CommittedIsPlaced'
  BY <1>a DEF CommittedIsPlaced, Placed, At, KeyOf, FreshRun, FreeKey, TypeOK, RunRecords, KeyRecords
<1>6. PricedHasCart'
  BY <1>a DEF PricedHasCart, At, KeyOf, FreshRun, FreeKey, TypeOK, RunRecords, KeyRecords
<1>7. AnswersAreTheKeysOrder'
  BY <1>a DEF AnswersAreTheKeysOrder, DoneKeysNameOrders, OrdersHoldTheirKey, HoldersWroteTheKey, Holding, Placed, CommittedIsPlaced, At, KeyOf, FreshRun, FreeKey, TypeOK
<1>9. SentInOrder'
  BY <1>a DEF SentInOrder, At, FreshRun, Working, Submissions, TypeOK
<1>8. CountersHoldTheCoupon' /\ CouponWithinLimits'
  BY <1>a, SameUses DEF CountersHoldTheCoupon, CouponWithinLimits, At, Buyer, FreshRun, Released, TypeOK, RunRecords
<1>. QED  BY <1>1, <1>2, <1>3, <1>4, <1>5, <1>6, <1>7, <1>8, <1>9 DEF IInv

\* The coupon's row is taken only when it is free.
LEMMA BeginKeeps ==
  ASSUME IInv, NEW r \in Submissions, Begin(r)
  PROVE  IInv'
<1>. USE CheckoutAssumption, MountOf
<1>. TypeOK /\ HoldersWroteTheKey /\ OrdersHoldTheirKey /\ DoneKeysNameOrders /\ CommittedIsPlaced
  BY DEF IInv
<1>. SentInOrder /\ PricedHasCart /\ CountersHoldTheCoupon /\ AnswersAreTheKeysOrder /\ CouponWithinLimits
  BY DEF IInv
<1>a. /\ At(r, "priced") /\ run' = [run EXCEPT ![r].at = "begun"]
      /\ (run[r].coupon /\ couponLock = None /\ couponLock' = r) \/ (~run[r].coupon /\ UNCHANGED couponLock)
      /\ UNCHANGED <<account, form, sent, thanked, key, order, cart>>
  BY DEF Begin, Goto, At, browser
<1>1. TypeOK'
  BY <1>a, RunTyped, KeyTyped, OrderTyped DEF TypeOK, Places, Working, Released
<1>2. HoldersWroteTheKey'
  BY <1>a DEF HoldersWroteTheKey, Holding, At, KeyOf, FreshRun, FreeKey, TypeOK, RunRecords, KeyRecords
<1>3. OrdersHoldTheirKey'
  BY <1>a DEF OrdersHoldTheirKey, HoldersWroteTheKey, Holding, Placed, At, KeyOf, FreshRun, FreeKey, TypeOK, RunRecords, KeyRecords
<1>4. DoneKeysNameOrders'
  BY <1>a DEF DoneKeysNameOrders, HoldersWroteTheKey, CommittedIsPlaced, OrdersHoldTheirKey, Holding, Placed, At, KeyOf, FreshRun, FreeKey, TypeOK, RunRecords, KeyRecords
<1>5. CommittedIsPlaced'
  BY <1>a DEF CommittedIsPlaced, Placed, At, KeyOf, FreshRun, FreeKey, TypeOK, RunRecords, KeyRecords
<1>6. PricedHasCart'
  BY <1>a DEF PricedHasCart, At, KeyOf, FreshRun, FreeKey, TypeOK, RunRecords, KeyRecords
<1>7. AnswersAreTheKeysOrder'
  BY <1>a DEF AnswersAreTheKeysOrder, DoneKeysNameOrders, OrdersHoldTheirKey, HoldersWroteTheKey, Holding, Placed, CommittedIsPlaced, At, KeyOf, FreshRun, FreeKey, TypeOK
<1>9. SentInOrder'
  BY <1>a DEF SentInOrder, At, FreshRun, Working, Submissions, TypeOK
<1>8. CountersHoldTheCoupon' /\ CouponWithinLimits'
  BY <1>a, SameUses DEF CountersHoldTheCoupon, CouponWithinLimits, At, Buyer, FreshRun, Released, TypeOK, RunRecords
<1>. QED  BY <1>1, <1>2, <1>3, <1>4, <1>5, <1>6, <1>7, <1>8, <1>9 DEF IInv

\* The counted uses leave one for this order.
LEMMA CountKeeps ==
  ASSUME IInv, NEW r \in Submissions, Count(r)
  PROVE  IInv'
<1>. USE CheckoutAssumption, MountOf
<1>. TypeOK /\ HoldersWroteTheKey /\ OrdersHoldTheirKey /\ DoneKeysNameOrders /\ CommittedIsPlaced
  BY DEF IInv
<1>. SentInOrder /\ PricedHasCart /\ CountersHoldTheCoupon /\ AnswersAreTheKeysOrder /\ CouponWithinLimits
  BY DEF IInv
<1>a. At(r, "begun") /\ UNCHANGED <<account, form, sent, thanked, key, order, cart>>
  BY DEF Count, browser
<1>1. CASE (run[r].coupon => CouponLeft(Buyer(r))) /\ Goto(r, "counted") /\ UNCHANGED couponLock
  <2>a. run' = [run EXCEPT ![r].at = "counted"]
    BY <1>1 DEF Goto
  <2>1. TypeOK'
    BY <1>a, <1>1, <2>a, RunTyped, KeyTyped, OrderTyped DEF TypeOK, Places, Working, Released
  <2>2. HoldersWroteTheKey'
    BY <1>a, <1>1, <2>a DEF HoldersWroteTheKey, Holding, At, KeyOf, FreshRun, FreeKey, TypeOK, RunRecords, KeyRecords
  <2>3. OrdersHoldTheirKey'
    BY <1>a, <1>1, <2>a DEF OrdersHoldTheirKey, HoldersWroteTheKey, Holding, Placed, At, KeyOf, FreshRun, FreeKey, TypeOK, RunRecords, KeyRecords
  <2>4. DoneKeysNameOrders'
    BY <1>a, <1>1, <2>a DEF DoneKeysNameOrders, HoldersWroteTheKey, CommittedIsPlaced, OrdersHoldTheirKey, Holding, Placed, At, KeyOf, FreshRun, FreeKey, TypeOK, RunRecords, KeyRecords
  <2>5. CommittedIsPlaced'
    BY <1>a, <1>1, <2>a DEF CommittedIsPlaced, Placed, At, KeyOf, FreshRun, FreeKey, TypeOK, RunRecords, KeyRecords
  <2>6. PricedHasCart'
    BY <1>a, <1>1, <2>a DEF PricedHasCart, At, KeyOf, FreshRun, FreeKey, TypeOK, RunRecords, KeyRecords
  <2>7. AnswersAreTheKeysOrder'
    BY <1>a, <1>1, <2>a DEF AnswersAreTheKeysOrder, DoneKeysNameOrders, OrdersHoldTheirKey, HoldersWroteTheKey, Holding, Placed, CommittedIsPlaced, At, KeyOf, FreshRun, FreeKey, TypeOK
  <2>9. SentInOrder'
    BY <1>a, <1>1, <2>a DEF SentInOrder, At, FreshRun, Working, Submissions, TypeOK
  <2>8. CountersHoldTheCoupon' /\ CouponWithinLimits'
    BY <1>a, <1>1, <2>a, SameUses DEF CountersHoldTheCoupon, CouponWithinLimits, At, Buyer, FreshRun, Released, TypeOK, RunRecords
  <2>. QED  BY <2>1, <2>2, <2>3, <2>4, <2>5, <2>6, <2>7, <2>8, <2>9 DEF IInv
<1>2. CASE run[r].coupon /\ Goto(r, "failed") /\ couponLock' = Released(r)
  <2>a. run' = [run EXCEPT ![r].at = "failed"]
    BY <1>2 DEF Goto
  <2>1. TypeOK'
    BY <1>a, <1>2, <2>a, RunTyped, KeyTyped, OrderTyped DEF TypeOK, Places, Working, Released
  <2>2. HoldersWroteTheKey'
    BY <1>a, <1>2, <2>a DEF HoldersWroteTheKey, Holding, At, KeyOf, FreshRun, FreeKey, TypeOK, RunRecords, KeyRecords
  <2>3. OrdersHoldTheirKey'
    BY <1>a, <1>2, <2>a DEF OrdersHoldTheirKey, HoldersWroteTheKey, Holding, Placed, At, KeyOf, FreshRun, FreeKey, TypeOK, RunRecords, KeyRecords
  <2>4. DoneKeysNameOrders'
    BY <1>a, <1>2, <2>a DEF DoneKeysNameOrders, HoldersWroteTheKey, CommittedIsPlaced, OrdersHoldTheirKey, Holding, Placed, At, KeyOf, FreshRun, FreeKey, TypeOK, RunRecords, KeyRecords
  <2>5. CommittedIsPlaced'
    BY <1>a, <1>2, <2>a DEF CommittedIsPlaced, Placed, At, KeyOf, FreshRun, FreeKey, TypeOK, RunRecords, KeyRecords
  <2>6. PricedHasCart'
    BY <1>a, <1>2, <2>a DEF PricedHasCart, At, KeyOf, FreshRun, FreeKey, TypeOK, RunRecords, KeyRecords
  <2>7. AnswersAreTheKeysOrder'
    BY <1>a, <1>2, <2>a DEF AnswersAreTheKeysOrder, DoneKeysNameOrders, OrdersHoldTheirKey, HoldersWroteTheKey, Holding, Placed, CommittedIsPlaced, At, KeyOf, FreshRun, FreeKey, TypeOK
  <2>9. SentInOrder'
    BY <1>a, <1>2, <2>a DEF SentInOrder, At, FreshRun, Working, Submissions, TypeOK
  <2>8. CountersHoldTheCoupon' /\ CouponWithinLimits'
    BY <1>a, <1>2, <2>a, SameUses DEF CountersHoldTheCoupon, CouponWithinLimits, At, Buyer, FreshRun, Released, TypeOK, RunRecords
  <2>. QED  BY <2>1, <2>2, <2>3, <2>4, <2>5, <2>6, <2>7, <2>8, <2>9 DEF IInv
<1>. QED  BY <1>1, <1>2 DEF Count

\* The key comes to name the order of its writer.
LEMMA MemoiseKeeps ==
  ASSUME IInv, NEW r \in Submissions, Memoise(r)
  PROVE  IInv'
<1>. USE CheckoutAssumption, MountOf
<1>. TypeOK /\ HoldersWroteTheKey /\ OrdersHoldTheirKey /\ DoneKeysNameOrders /\ CommittedIsPlaced
  BY DEF IInv
<1>. SentInOrder /\ PricedHasCart /\ CountersHoldTheCoupon /\ AnswersAreTheKeysOrder /\ CouponWithinLimits
  BY DEF IInv
<1>a. /\ At(r, "committed") /\ run' = [run EXCEPT ![r] = [FreshRun EXCEPT !.at = "answered", !.answer = r]]
      /\ key' = [key EXCEPT ![r[1]].state = "done"]
      /\ UNCHANGED <<account, form, sent, thanked, order, cart, couponLock>>
  BY DEF Memoise, Answer, Ended, At, browser
<1>b. Placed(r) /\ KeyOf(r).state = "locked" /\ KeyOf(r).by = r
  BY <1>a DEF CommittedIsPlaced, HoldersWroteTheKey, Holding, At
<1>1. TypeOK'
  BY <1>a, <1>b, RunTyped, KeyTyped, OrderTyped DEF TypeOK, Places, Working, Released
<1>2. HoldersWroteTheKey'
  BY <1>a, <1>b DEF HoldersWroteTheKey, Holding, At, KeyOf, FreshRun, FreeKey, TypeOK, RunRecords, KeyRecords
<1>3. OrdersHoldTheirKey'
  BY <1>a, <1>b DEF OrdersHoldTheirKey, HoldersWroteTheKey, Holding, Placed, At, KeyOf, FreshRun, FreeKey, TypeOK, RunRecords, KeyRecords
<1>4. DoneKeysNameOrders'
  BY <1>a, <1>b DEF DoneKeysNameOrders, HoldersWroteTheKey, CommittedIsPlaced, OrdersHoldTheirKey, Holding, Placed, At, KeyOf, FreshRun, FreeKey, TypeOK, RunRecords, KeyRecords
<1>5. CommittedIsPlaced'
  BY <1>a, <1>b DEF CommittedIsPlaced, Placed, At, KeyOf, FreshRun, FreeKey, TypeOK, RunRecords, KeyRecords
<1>6. PricedHasCart'
  BY <1>a, <1>b DEF PricedHasCart, At, KeyOf, FreshRun, FreeKey, TypeOK, RunRecords, KeyRecords
<1>7. AnswersAreTheKeysOrder'
  BY <1>a, <1>b DEF AnswersAreTheKeysOrder, DoneKeysNameOrders, OrdersHoldTheirKey, HoldersWroteTheKey, Holding, Placed, CommittedIsPlaced, At, KeyOf, FreshRun, FreeKey, TypeOK
<1>9. SentInOrder'
  BY <1>a, <1>b DEF SentInOrder, At, FreshRun, Working, Submissions, TypeOK
<1>8. CountersHoldTheCoupon' /\ CouponWithinLimits'
  BY <1>a, <1>b, SameUses DEF CountersHoldTheCoupon, CouponWithinLimits, At, Buyer, FreshRun, Released, TypeOK, RunRecords
<1>. QED  BY <1>1, <1>2, <1>3, <1>4, <1>5, <1>6, <1>7, <1>8, <1>9 DEF IInv

\* Only a key without an order is given back.
LEMMA GiveBackKeyKeeps ==
  ASSUME IInv, NEW r \in Submissions, GiveBackKey(r)
  PROVE  IInv'
<1>. USE CheckoutAssumption, MountOf
<1>. TypeOK /\ HoldersWroteTheKey /\ OrdersHoldTheirKey /\ DoneKeysNameOrders /\ CommittedIsPlaced
  BY DEF IInv
<1>. SentInOrder /\ PricedHasCart /\ CountersHoldTheCoupon /\ AnswersAreTheKeysOrder /\ CouponWithinLimits
  BY DEF IInv
<1>a. /\ At(r, "failed") /\ run' = [run EXCEPT ![r] = [FreshRun EXCEPT !.at = "answered", !.answer = None]]
      /\ key' = [key EXCEPT ![r[1]] = FreeKey]
      /\ UNCHANGED <<account, form, sent, thanked, order, cart, couponLock>>
  BY DEF GiveBackKey, Answer, Ended, At, browser
<1>b. /\ KeyOf(r).state = "locked" /\ KeyOf(r).by = r
      /\ \A q \in Submissions : q[1] = r[1] => ~Placed(q)
  BY <1>a DEF HoldersWroteTheKey, OrdersHoldTheirKey, Holding, At, KeyOf
<1>1. TypeOK'
  BY <1>a, <1>b, RunTyped, KeyTyped, OrderTyped DEF TypeOK, Places, Working, Released
<1>2. HoldersWroteTheKey'
  BY <1>a, <1>b DEF HoldersWroteTheKey, Holding, At, KeyOf, FreshRun, FreeKey, TypeOK, RunRecords, KeyRecords
<1>3. OrdersHoldTheirKey'
  BY <1>a, <1>b DEF OrdersHoldTheirKey, HoldersWroteTheKey, Holding, Placed, At, KeyOf, FreshRun, FreeKey, TypeOK, RunRecords, KeyRecords
<1>4. DoneKeysNameOrders'
  BY <1>a, <1>b DEF DoneKeysNameOrders, HoldersWroteTheKey, CommittedIsPlaced, OrdersHoldTheirKey, Holding, Placed, At, KeyOf, FreshRun, FreeKey, TypeOK, RunRecords, KeyRecords
<1>5. CommittedIsPlaced'
  BY <1>a, <1>b DEF CommittedIsPlaced, Placed, At, KeyOf, FreshRun, FreeKey, TypeOK, RunRecords, KeyRecords
<1>6. PricedHasCart'
  BY <1>a, <1>b DEF PricedHasCart, At, KeyOf, FreshRun, FreeKey, TypeOK, RunRecords, KeyRecords
<1>7. AnswersAreTheKeysOrder'
  BY <1>a, <1>b DEF AnswersAreTheKeysOrder, DoneKeysNameOrders, OrdersHoldTheirKey, HoldersWroteTheKey, Holding, Placed, CommittedIsPlaced, At, KeyOf, FreshRun, FreeKey, TypeOK
<1>9. SentInOrder'
  BY <1>a, <1>b DEF SentInOrder, At, FreshRun, Working, Submissions, TypeOK
<1>8. CountersHoldTheCoupon' /\ CouponWithinLimits'
  BY <1>a, <1>b, SameUses DEF CountersHoldTheCoupon, CouponWithinLimits, At, Buyer, FreshRun, Released, TypeOK, RunRecords
<1>. QED  BY <1>1, <1>2, <1>3, <1>4, <1>5, <1>6, <1>7, <1>8, <1>9 DEF IInv

\* A process that dies leaves its key as it was.
LEMMA DieKeeps ==
  ASSUME IInv, NEW r \in Submissions, Die(r)
  PROVE  IInv'
<1>. USE CheckoutAssumption, MountOf
<1>. TypeOK /\ HoldersWroteTheKey /\ OrdersHoldTheirKey /\ DoneKeysNameOrders /\ CommittedIsPlaced
  BY DEF IInv
<1>. SentInOrder /\ PricedHasCart /\ CountersHoldTheCoupon /\ AnswersAreTheKeysOrder /\ CouponWithinLimits
  BY DEF IInv
<1>a. /\ run[r].at \in Working /\ run' = [run EXCEPT ![r] = [FreshRun EXCEPT !.at = "dead", !.answer = None]]
      /\ couponLock' = Released(r)
      /\ UNCHANGED <<account, form, sent, thanked, key, order, cart>>
  BY DEF Die, Ended, At, browser, Working
<1>b. KeyOf(r).state = "done" => ~Placed(r)
  BY <1>a DEF OrdersHoldTheirKey, At, Working
<1>1. TypeOK'
  BY <1>a, <1>b, RunTyped, KeyTyped, OrderTyped DEF TypeOK, Places, Working, Released
<1>2. HoldersWroteTheKey'
  BY <1>a, <1>b DEF HoldersWroteTheKey, Holding, At, KeyOf, FreshRun, FreeKey, TypeOK, RunRecords, KeyRecords
<1>3. OrdersHoldTheirKey'
  BY <1>a, <1>b DEF OrdersHoldTheirKey, HoldersWroteTheKey, Holding, Placed, At, KeyOf, FreshRun, FreeKey, TypeOK, RunRecords, KeyRecords
<1>4. DoneKeysNameOrders'
  BY <1>a, <1>b DEF DoneKeysNameOrders, HoldersWroteTheKey, CommittedIsPlaced, OrdersHoldTheirKey, Holding, Placed, At, KeyOf, FreshRun, FreeKey, TypeOK, RunRecords, KeyRecords
<1>5. CommittedIsPlaced'
  BY <1>a, <1>b DEF CommittedIsPlaced, Placed, At, KeyOf, FreshRun, FreeKey, TypeOK, RunRecords, KeyRecords
<1>6. PricedHasCart'
  BY <1>a, <1>b DEF PricedHasCart, At, KeyOf, FreshRun, FreeKey, TypeOK, RunRecords, KeyRecords
<1>7. AnswersAreTheKeysOrder'
  BY <1>a, <1>b DEF AnswersAreTheKeysOrder, DoneKeysNameOrders, OrdersHoldTheirKey, HoldersWroteTheKey, Holding, Placed, CommittedIsPlaced, At, KeyOf, FreshRun, FreeKey, TypeOK
<1>9. SentInOrder'
  BY <1>a, <1>b DEF SentInOrder, At, FreshRun, Working, Submissions, TypeOK
<1>8. CountersHoldTheCoupon' /\ CouponWithinLimits'
  BY <1>a, <1>b, SameUses DEF CountersHoldTheCoupon, CouponWithinLimits, At, Buyer, FreshRun, Released, TypeOK, RunRecords
<1>. QED  BY <1>1, <1>2, <1>3, <1>4, <1>5, <1>6, <1>7, <1>8, <1>9 DEF IInv

\* The order uses the coupon once more, and the count it rests on still holds.
LEMMA CommitKeeps ==
  ASSUME IInv, NEW r \in Submissions, Commit(r)
  PROVE  IInv'
<1>. USE CheckoutAssumption, MountOf
<1>. TypeOK /\ HoldersWroteTheKey /\ OrdersHoldTheirKey /\ DoneKeysNameOrders /\ CommittedIsPlaced
  BY DEF IInv
<1>. SentInOrder /\ PricedHasCart /\ CountersHoldTheCoupon /\ AnswersAreTheKeysOrder /\ CouponWithinLimits
  BY DEF IInv
<1>a. /\ At(r, "counted") /\ run' = [run EXCEPT ![r].at = "committed"]
      /\ order' = [order EXCEPT ![r] = [status |-> "placed", cart |-> run[r].cart, coupon |-> run[r].coupon]]
      /\ cart' = [cart EXCEPT ![run[r].cart] = SpentCart]
      /\ couponLock' = Released(r)
      /\ UNCHANGED <<account, form, sent, thanked, key>>
  BY DEF Commit, Goto, browser
<1>b. /\ run[r].cart \in Carts /\ run[r].coupon \in BOOLEAN /\ SpentCart \in CartRecords
      /\ KeyOf(r).state = "locked" /\ KeyOf(r).by = r
  BY <1>a DEF PricedHasCart, At, TypeOK, RunRecords, SpentCart, CartRecords, HoldersWroteTheKey, Holding
<1>c. /\ ~Placed(r) /\ order[r].status # "placed"
      /\ \A q \in Submissions : q[1] = r[1] /\ q # r => ~Placed(q)
  BY <1>a, <1>b DEF OrdersHoldTheirKey, At, Placed, KeyOf
<1>1. TypeOK'
  BY <1>a, <1>b, <1>c, RunTyped, KeyTyped, OrderTyped DEF TypeOK, Places, Working, Released
<1>2. HoldersWroteTheKey'
  BY <1>a, <1>b, <1>c DEF HoldersWroteTheKey, Holding, At, KeyOf, FreshRun, FreeKey, TypeOK, RunRecords, KeyRecords
<1>3. OrdersHoldTheirKey'
  BY <1>a, <1>b, <1>c DEF OrdersHoldTheirKey, HoldersWroteTheKey, Holding, Placed, At, KeyOf, FreshRun, FreeKey, TypeOK, RunRecords, KeyRecords
<1>4. DoneKeysNameOrders'
  BY <1>a, <1>b, <1>c DEF DoneKeysNameOrders, HoldersWroteTheKey, CommittedIsPlaced, OrdersHoldTheirKey, Holding, Placed, At, KeyOf, FreshRun, FreeKey, TypeOK, RunRecords, KeyRecords
<1>5. CommittedIsPlaced'
  BY <1>a, <1>b, <1>c DEF CommittedIsPlaced, Placed, At, KeyOf, FreshRun, FreeKey, TypeOK, RunRecords, KeyRecords
<1>6. PricedHasCart'
  BY <1>a, <1>b, <1>c DEF PricedHasCart, At, KeyOf, FreshRun, FreeKey, TypeOK, RunRecords, KeyRecords
<1>7. AnswersAreTheKeysOrder'
  BY <1>a, <1>b, <1>c DEF AnswersAreTheKeysOrder, DoneKeysNameOrders, OrdersHoldTheirKey, HoldersWroteTheKey, Holding, Placed, CommittedIsPlaced, At, KeyOf, FreshRun, FreeKey, TypeOK
<1>9. SentInOrder'
  BY <1>a, <1>b, <1>c DEF SentInOrder, At, FreshRun, Working, Submissions, TypeOK
<1>8. CountersHoldTheCoupon' /\ CouponWithinLimits'
  <2>1. CASE run[r].coupon
    <3>1. couponLock = r /\ CouponLeft(Buyer(r))
      BY <2>1, <1>a DEF CountersHoldTheCoupon, At
    <3>2. CountersHoldTheCoupon'
      BY <1>a, <3>1 DEF CountersHoldTheCoupon, At, TypeOK
    <3>3. Uses' = Uses \union {r} /\ r \notin Uses
      BY <1>a, <1>c, <2>1 DEF Uses, TypeOK
    <3>4. \A c \in Customers : UsesOf(c)' = IF c = Buyer(r) THEN UsesOf(c) \union {r} ELSE UsesOf(c)
      BY <1>a, <3>3 DEF UsesOf, Buyer
    <3>5. Cardinality(Uses') = Cardinality(Uses) + 1
      BY <3>3, UsesCounted, FS_AddElement
    <3>6. \A c \in Customers : Cardinality(UsesOf(c)') = IF c = Buyer(r) THEN Cardinality(UsesOf(c)) + 1 ELSE Cardinality(UsesOf(c))
      <4>1. \A c : r \notin UsesOf(c)
        BY <3>3 DEF UsesOf
      <4>. QED  BY <3>4, <4>1, UsesCounted, FS_AddElement
    <3>. QED  BY <3>1, <3>2, <3>5, <3>6, UsesCounted DEF CouponLeft, CouponWithinLimits
  <2>2. CASE ~run[r].coupon
    <3>1. Uses' = Uses
      BY <1>a, <1>c, <2>2 DEF Uses, TypeOK
    <3>2. \A c : UsesOf(c)' = UsesOf(c)
      BY <1>a, <3>1 DEF UsesOf
    <3>. QED  BY <1>a, <2>2, <3>1, <3>2 DEF CountersHoldTheCoupon, CouponWithinLimits, CouponLeft, At, Buyer, Released, TypeOK
  <2>. QED  BY <2>1, <2>2
<1>. QED  BY <1>1, <1>2, <1>3, <1>4, <1>5, <1>6, <1>7, <1>8, <1>9 DEF IInv

\* A void order gives its use of the coupon back.
LEMMA VoidKeeps ==
  ASSUME IInv, NEW r \in Submissions, Void(r)
  PROVE  IInv'
<1>. USE CheckoutAssumption, MountOf
<1>. TypeOK /\ HoldersWroteTheKey /\ OrdersHoldTheirKey /\ DoneKeysNameOrders /\ CommittedIsPlaced
  BY DEF IInv
<1>. SentInOrder /\ PricedHasCart /\ CountersHoldTheCoupon /\ AnswersAreTheKeysOrder /\ CouponWithinLimits
  BY DEF IInv
<1>a. /\ order[r].status = "placed"
      /\ order' = [order EXCEPT ![r].status = "void"]
      /\ UNCHANGED <<account, form, sent, thanked, run, key, cart, couponLock>>
  BY DEF Void, browser
<1>b. \A q \in Submissions : Placed(q)' <=> Placed(q)
  BY <1>a DEF Placed, TypeOK
<1>1. TypeOK'
  BY <1>a, <1>b, RunTyped, KeyTyped, OrderTyped DEF TypeOK, Places, Working, Released
<1>2. HoldersWroteTheKey'
  BY <1>a, <1>b DEF HoldersWroteTheKey, Holding, At, KeyOf, FreshRun, FreeKey, TypeOK, RunRecords, KeyRecords
<1>3. OrdersHoldTheirKey'
  BY <1>a, <1>b DEF OrdersHoldTheirKey, HoldersWroteTheKey, Holding, Placed, At, KeyOf, FreshRun, FreeKey, TypeOK, RunRecords, KeyRecords
<1>4. DoneKeysNameOrders'
  BY <1>a, <1>b DEF DoneKeysNameOrders, HoldersWroteTheKey, CommittedIsPlaced, OrdersHoldTheirKey, Holding, Placed, At, KeyOf, FreshRun, FreeKey, TypeOK, RunRecords, KeyRecords
<1>5. CommittedIsPlaced'
  BY <1>a, <1>b DEF CommittedIsPlaced, Placed, At, KeyOf, FreshRun, FreeKey, TypeOK, RunRecords, KeyRecords
<1>6. PricedHasCart'
  BY <1>a, <1>b DEF PricedHasCart, At, KeyOf, FreshRun, FreeKey, TypeOK, RunRecords, KeyRecords
<1>7. AnswersAreTheKeysOrder'
  BY <1>a, <1>b DEF AnswersAreTheKeysOrder, DoneKeysNameOrders, OrdersHoldTheirKey, HoldersWroteTheKey, Holding, Placed, CommittedIsPlaced, At, KeyOf, FreshRun, FreeKey, TypeOK
<1>9. SentInOrder'
  BY <1>a, <1>b DEF SentInOrder, At, FreshRun, Working, Submissions, TypeOK
<1>8. CountersHoldTheCoupon' /\ CouponWithinLimits'
  <2>1. Uses' \subseteq Uses
    BY <1>a DEF Uses, TypeOK
  <2>2. \A c : UsesOf(c)' \subseteq UsesOf(c)
    BY <1>a, <2>1 DEF UsesOf
  <2>3. /\ Cardinality(Uses') \in Nat /\ Cardinality(Uses') <= Cardinality(Uses)
    BY <2>1, UsesCounted, FS_Subset, FS_CardinalityType
  <2>4. \A c : Cardinality(UsesOf(c)') \in Nat /\ Cardinality(UsesOf(c)') <= Cardinality(UsesOf(c))
    BY <2>2, UsesCounted, FS_Subset, FS_CardinalityType
  <2>5. \A c : CouponLeft(c) => CouponLeft(c)'
    BY <2>3, <2>4, UsesCounted DEF CouponLeft
  <2>6. CountersHoldTheCoupon'
    BY <1>a, <2>5 DEF CountersHoldTheCoupon, At, Buyer, CouponLeft
  <2>. QED  BY <2>3, <2>4, <2>6, UsesCounted DEF CouponWithinLimits
<1>. QED  BY <1>1, <1>2, <1>3, <1>4, <1>5, <1>6, <1>7, <1>8, <1>9 DEF IInv

\* Every step keeps the invariant.
LEMMA NextKeeps == IInv /\ [Next]_vars => IInv'
<1>. SUFFICES ASSUME IInv, [Next]_vars PROVE IInv'
  OBVIOUS
<1>1. CASE UNCHANGED vars
  <2>1. UNCHANGED <<account, form, sent, thanked, run, key, order, cart, couponLock>>
    BY <1>1 DEF vars
  <2>2. TypeOK'
    BY <2>1 DEF IInv, TypeOK
  <2>. QED  BY <2>1, <2>2, NothingElse DEF IInv, AnswersAreTheKeysOrder
<1>2. CASE \E c \in Customers : Shop(c)
  BY <1>2, ShopKeeps
<1>3. CASE \E m \in Mounts : Load(m) \/ LoadFails(m) \/ Receive(m) \/ Drop(m)
  BY <1>3, FormKeeps
<1>4. CASE \E m \in Mounts, b \in Bodies : Submit(m, b)
  BY <1>4, SubmitKeeps
<1>5. CASE \E r \in Submissions : Lose(r) \/ Serve(r) \/ Die(r) \/ Void(r)
  BY <1>5, LoseKeeps, LookupKeeps, WriteKeyKeeps, PriceKeeps, RejectKeeps, BeginKeeps, CountKeeps,
     CommitKeeps, MemoiseKeeps, GiveBackKeyKeeps, DieKeeps, VoidKeeps DEF Serve
<1>. QED  BY <1>1, <1>2, <1>3, <1>4, <1>5 DEF Next

\* The requests' protocol: the inductive invariant holds in every behaviour.
THEOREM Invariance == Spec => []IInv
<1>. QED  BY InitHolds, NextKeeps, PTL DEF Spec

\* No coupon is used beyond its limits, however many checkouts run at once.
THEOREM CouponLimits == Spec => []CouponWithinLimits
<1>1. IInv => CouponWithinLimits
  BY DEF IInv
<1>. QED  BY <1>1, Invariance, PTL

\* The orders of one key are one.
LEMMA OneOrder == IInv => OneKeyOneOrder
  BY DEF IInv, OrdersHoldTheirKey, OneKeyOneOrder, KeyOf

\* A double click or a retry with the same key never makes a second order.
THEOREM OnceByKey == Spec => []OneKeyOneOrder
<1>. QED  BY OneOrder, Invariance, PTL

\* Whoever is told that the submission failed has not ordered by it.
THEOREM HonestFailures == Spec => []FailureIsHonest
<1>1. IInv => FailureIsHonest
  BY MountOf DEF IInv, OrdersHoldTheirKey, FailureIsHonest
<1>. QED  BY <1>1, Invariance, PTL

\* No step of the customer's pages disturbs a key, the coupon's row or a
\* request at work: a press of the button starts a request that was unsent.
LEMMA PagesLeaveRequests ==
  ASSUME IInv, [Next]_vars, ~\E r \in Submissions : Lose(r) \/ Serve(r) \/ Die(r)
  PROVE  /\ UNCHANGED <<key, couponLock>>
         /\ \A r \in Submissions : run[r].at # "unsent" => run'[r] = run[r]
<1>1. CASE \E m \in Mounts, b \in Bodies : Submit(m, b)
  <2>1. PICK m \in Mounts, b \in Bodies : Submit(m, b)
    BY <1>1
  <2>2. run[<<m, sent[m] + 1>>].at = "unsent" /\ <<m, sent[m] + 1>> \in Submissions
    BY <2>1, CheckoutAssumption DEF Submit, IInv, SentInOrder, TypeOK, Submissions, At
  <2>. QED  BY <2>1, <2>2 DEF Submit, IInv, TypeOK
<1>2. CASE ~\E m \in Mounts, b \in Bodies : Submit(m, b)
  BY <1>2 DEF Next, vars, Shop, AddItem, RemoveItem, ApplyCoupon, RemoveCoupon, OpenTwins, CartStep, Load, LoadFails,
     Receive, Drop, Show, Void
<1>. QED  BY <1>1, <1>2

\* Whoever has a key or the coupon's row gives it back, goes on, or dies.
LEMMA HoldersKept == IInv /\ HoldersAtWork /\ [Next]_vars => HoldersAtWork'
<1>. SUFFICES ASSUME IInv, HoldersAtWork, [Next]_vars PROVE HoldersAtWork'
  OBVIOUS
<1>. USE MountOf
<1>t. TypeOK /\ HoldersWroteTheKey /\ DoneKeysNameOrders
  BY DEF IInv
<1>k. \A m \in Mounts : key[m].state = "locked" =>
        key[m].by \in Submissions /\ key[m].by[1] = m /\ run[key[m].by].at \in Holding \union {"dead"}
  BY <1>t DEF DoneKeysNameOrders, HoldersAtWork
<1>c. couponLock # None =>
        couponLock \in Submissions /\ run[couponLock].at \in {"begun", "counted"} /\ run[couponLock].coupon
  BY <1>t DEF HoldersAtWork, TypeOK
<1>1. CASE ~\E r \in Submissions : Lose(r) \/ Serve(r) \/ Die(r)
  BY <1>1, <1>k, <1>c, PagesLeaveRequests DEF HoldersAtWork, Holding
<1>2. ASSUME NEW r \in Submissions, Lose(r) \/ Lookup(r) PROVE HoldersAtWork'
  <2>1. UNCHANGED <<key, couponLock>> /\ At(r, "sent") /\ \A q \in Submissions : q # r => run'[q] = run[q]
    BY <1>2, <1>t DEF Lose, Lookup, Goto, Answer, Ended, TypeOK
  <2>. QED  BY <2>1, <1>k, <1>c DEF HoldersAtWork, Holding, At
<1>3. ASSUME NEW r \in Submissions, WriteKey(r) PROVE HoldersAtWork'
  <2>1. UNCHANGED couponLock /\ At(r, "new") /\ \A q \in Submissions : q # r => run'[q] = run[q]
    BY <1>3, <1>t DEF WriteKey, Goto, Answer, Ended, TypeOK
  <2>2. CASE key' = [key EXCEPT ![r[1]] = [state |-> "locked", body |-> run[r].body, by |-> r]] /\ Goto(r, "keyed")
    <3>1. run'[r].at = "keyed"
      BY <2>2, <1>t DEF Goto, TypeOK, RunRecords
    <3>2. \A m \in Mounts : key'[m] = IF m = r[1] THEN [state |-> "locked", body |-> run[r].body, by |-> r] ELSE key[m]
      BY <2>2, <1>t DEF TypeOK
    <3>. QED  BY <2>1, <3>1, <3>2, <1>k, <1>c DEF HoldersAtWork, Holding, At
  <2>3. CASE UNCHANGED key
    BY <2>1, <2>3, <1>k, <1>c DEF HoldersAtWork, Holding, At
  <2>. QED  BY <1>3, <2>2, <2>3 DEF WriteKey
<1>4. ASSUME NEW r \in Submissions, Price(r) \/ Reject(r) PROVE HoldersAtWork'
  <2>1. UNCHANGED <<key, couponLock>> /\ At(r, "keyed") /\ \A q \in Submissions : q # r => run'[q] = run[q]
    BY <1>4, <1>t DEF Price, Reject, Goto, TypeOK
  <2>2. run'[r].at \in {"priced", "failed"}
    <3>1. ASSUME NEW k \in Carts,
                 run' = [run EXCEPT ![r].at = "priced", ![r].cart = k, ![r].coupon = cart[k].coupon]
          PROVE  run'[r].at = "priced"
      BY <3>1, <1>t DEF TypeOK, RunRecords
    <3>2. ASSUME Goto(r, "failed") PROVE run'[r].at = "failed"
      BY <3>2, <1>t DEF Goto, TypeOK, RunRecords
    <3>. QED  BY <1>4, <3>1, <3>2 DEF Price, Reject
  <2>. QED  BY <2>1, <2>2, <1>k, <1>c DEF HoldersAtWork, Holding, At
<1>5. ASSUME NEW r \in Submissions, Begin(r) PROVE HoldersAtWork'
  <2>1. UNCHANGED key /\ At(r, "priced") /\ \A q \in Submissions : q # r => run'[q] = run[q]
    BY <1>5, <1>t DEF Begin, Goto, TypeOK
  <2>2. run'[r].at = "begun" /\ run'[r].coupon = run[r].coupon
    BY <1>5, <1>t DEF Begin, Goto, TypeOK, RunRecords
  <2>3. couponLock' = couponLock \/ (couponLock' = r /\ run[r].coupon)
    BY <1>5 DEF Begin
  <2>. QED  BY <2>1, <2>2, <2>3, <1>k, <1>c DEF HoldersAtWork, Holding, At
<1>6. ASSUME NEW r \in Submissions, Count(r) \/ Commit(r) \/ Die(r) PROVE HoldersAtWork'
  <2>1. UNCHANGED key /\ \A q \in Submissions : q # r => run'[q] = run[q]
    BY <1>6, <1>t DEF Count, Commit, Die, Goto, Ended, TypeOK
  <2>2. \/ run'[r].at = "counted" /\ run'[r].coupon = run[r].coupon /\ couponLock' = couponLock
        \/ run'[r].at \in {"failed", "committed", "dead"} /\ couponLock' = Released(r)
    <3>1. \A at : Goto(r, at) => run'[r].at = at /\ run'[r].coupon = run[r].coupon
      BY <1>t DEF Goto, TypeOK, RunRecords
    <3>2. Ended(r, "dead", None) => run'[r].at = "dead"
      BY <1>t DEF Ended, FreshRun, TypeOK
    <3>. QED  BY <1>6, <3>1, <3>2 DEF Count, Commit, Die
  <2>. QED  BY <2>1, <2>2, <1>k, <1>c DEF HoldersAtWork, Holding, Released
<1>7. ASSUME NEW r \in Submissions, Memoise(r) \/ GiveBackKey(r) PROVE HoldersAtWork'
  <2>1. UNCHANGED couponLock /\ run[r].at \in {"committed", "failed"} /\ \A q \in Submissions : q # r => run'[q] = run[q]
    BY <1>7, <1>t DEF Memoise, GiveBackKey, Answer, Ended, At, TypeOK
  <2>2. key'[r[1]].state # "locked" /\ \A m \in Mounts : m # r[1] => key'[m] = key[m]
    BY <1>7, <1>t DEF Memoise, GiveBackKey, FreeKey, TypeOK, KeyRecords
  <2>. QED  BY <2>1, <2>2, <1>k, <1>c DEF HoldersAtWork, Holding
<1>. QED  BY <1>1, <1>2, <1>3, <1>4, <1>5, <1>6, <1>7 DEF Serve

\* Nobody waits for nothing: a locked key has a request at work behind it
\* unless its process died, and who holds the coupon's row waits for nobody.
THEOREM NobodyWaitsForNothing == Spec => []HoldersAtWork
<1>1. Init => HoldersAtWork
  BY DEF Init, HoldersAtWork, FreeKey
<1>. QED  BY <1>1, HoldersKept, Invariance, PTL DEF Spec

\* What Made tells of each mount.
LEMMA MadeIs ==
  ASSUME IInv
  PROVE  /\ Made \in [Mounts -> Submissions \union {None}]
         /\ \A m \in Mounts : Made[m] # None => Made[m][1] = m /\ Placed(Made[m])
         /\ \A r \in Submissions : Placed(r) => Made[r[1]] = r
         /\ \A m \in Mounts : (\A r \in Submissions : r[1] = m => ~Placed(r)) => Made[m] = None
<1>1. OneKeyOneOrder
  BY OneOrder
<1>2. \A m \in Mounts : Made[m] = IF \E r \in Submissions : r[1] = m /\ Placed(r)
                                  THEN CHOOSE r \in Submissions : r[1] = m /\ Placed(r) ELSE None
  BY DEF Made
<1>3. \A m \in Mounts : \/ Made[m] = None /\ \A r \in Submissions : r[1] = m => ~Placed(r)
                        \/ Made[m] \in Submissions /\ Made[m][1] = m /\ Placed(Made[m])
  BY <1>2
<1>4. \A r \in Submissions : Placed(r) => Made[r[1]] = r
  BY <1>1, <1>3, MountOf DEF OneKeyOneOrder
<1>5. Made = [m \in Mounts |-> Made[m]]
  BY DEF Made
<1>. QED  BY <1>3, <1>4, <1>5, MountOf

\* A step makes an order, tells of one, or neither.
LEMMA StepRefines == IInv /\ IInv' /\ [Next]_vars => [O!Next]_<<Made, thanked>>
<1>. SUFFICES ASSUME IInv, IInv', [Next]_vars PROVE [O!Next]_<<Made, thanked>>
  OBVIOUS
<1>. USE MountOf
<1>1. CASE \E r \in Submissions : Commit(r)
  <2>1. PICK r \in Submissions : Commit(r)
    BY <1>1
  <2>2. /\ order' = [order EXCEPT ![r] = [status |-> "placed", cart |-> run[r].cart, coupon |-> run[r].coupon]]
        /\ UNCHANGED thanked /\ At(r, "counted")
    BY <2>1 DEF Commit, browser
  <2>3. KeyOf(r).state = "locked" /\ KeyOf(r).by = r
    BY <2>2 DEF IInv, HoldersWroteTheKey, Holding, At
  <2>4. \A q \in Submissions : q[1] = r[1] => ~Placed(q)
    BY <2>2, <2>3 DEF IInv, OrdersHoldTheirKey, KeyOf, At
  <2>5. Made[r[1]] = None
    BY <2>4, MadeIs
  <2>6. Placed(r)' /\ \A q \in Submissions : q # r => (Placed(q)' <=> Placed(q))
    BY <2>2 DEF IInv, TypeOK, Placed
  <2>7. Made' = [Made EXCEPT ![r[1]] = r]
    <3>1. Made' = [m \in Mounts |-> IF \E q \in Submissions : q[1] = m /\ Placed(q)'
                                    THEN CHOOSE q \in Submissions : q[1] = m /\ Placed(q)' ELSE None]
      BY DEF Made
    <3>2. \A m \in Mounts : m # r[1] => Made'[m] = Made[m]
      <4>. TAKE m \in Mounts
      <4>. HAVE m # r[1]
      <4>1. \A q \in Submissions : (q[1] = m /\ Placed(q)') <=> (q[1] = m /\ Placed(q))
        BY <2>6
      <4>2. (CHOOSE q \in Submissions : q[1] = m /\ Placed(q)') = (CHOOSE q \in Submissions : q[1] = m /\ Placed(q))
        BY <4>1
      <4>. QED  BY <3>1, <4>1, <4>2 DEF Made
    <3>3. Made'[r[1]] = r
      <4>1. OneKeyOneOrder'
        BY OneOrder, PTL
      <4>2. \A q \in Submissions : q[1] = r[1] /\ Placed(q)' => q = r
        BY <2>6, <4>1 DEF OneKeyOneOrder
      <4>. QED  BY <2>6, <3>1, <4>2
    <3>. QED  BY <3>1, <3>2, <3>3 DEF Made
  <2>. QED  BY <2>2, <2>5, <2>7 DEF O!Next, O!Make
<1>2. CASE \E m \in Mounts : Receive(m)
  <2>1. PICK m \in Mounts : Receive(m)
    BY <1>2
  <2>2. UNCHANGED order
    BY <2>1 DEF Receive, Show
  <2>3. UNCHANGED Made
    BY <2>2 DEF Made, Placed
  <2>4. CASE UNCHANGED thanked
    BY <2>3, <2>4
  <2>5. CASE run[Awaited(m)].answer # None /\ thanked' = [thanked EXCEPT ![m] = run[Awaited(m)].answer]
    <3>1. thanked'[m] = run[Awaited(m)].answer
      BY <2>5 DEF IInv, TypeOK
    <3>2. key'[m].state = "done" /\ key'[m].by = thanked'[m]
      BY <2>5, <3>1 DEF IInv, AnswersAreTheKeysOrder
    <3>3. UNCHANGED key
      BY <2>1 DEF Receive, Show
    <3>4. Placed(key[m].by) /\ key[m].by \in Submissions /\ key[m].by[1] = m
      BY <3>2, <3>3 DEF IInv, DoneKeysNameOrders
    <3>5. Made[m] = thanked'[m] /\ Made[m] # None
      BY <3>2, <3>3, <3>4, MadeIs
    <3>. QED  BY <2>3, <2>5, <3>1, <3>5 DEF O!Next, O!Tell
  <2>. QED  BY <2>1, <2>4, <2>5 DEF Receive
<1>3. CASE ~(\E r \in Submissions : Commit(r)) /\ ~(\E m \in Mounts : Receive(m))
  <2>1. UNCHANGED thanked
    BY <1>3 DEF Next, vars, Shop, AddItem, RemoveItem, ApplyCoupon, RemoveCoupon, OpenTwins, CartStep, Load, LoadFails, Drop,
       Submit, Lose, Serve, Lookup, WriteKey, Price, Reject, Begin, Count, Memoise, GiveBackKey, Die, Void, browser
  <2>2. \A r \in Submissions : Placed(r)' <=> Placed(r)
    <3>1. CASE \E r \in Submissions : Void(r)
      BY <3>1 DEF Void, Placed, IInv, TypeOK
    <3>2. CASE ~(\E r \in Submissions : Void(r))
      <4>1. UNCHANGED order
        BY <1>3, <3>2 DEF Next, vars, Shop, AddItem, RemoveItem, ApplyCoupon, RemoveCoupon, OpenTwins, CartStep, Load, LoadFails,
           Drop, Show, Submit, Lose, Serve, Lookup, WriteKey, Price, Reject, Begin, Count, Memoise, GiveBackKey, Die
      <4>. QED  BY <4>1 DEF Placed
    <3>. QED  BY <3>1, <3>2
  <2>3. Made' = Made
    <3>1. \A m \in Mounts : Made'[m] = Made[m]
      <4>. TAKE m \in Mounts
      <4>1. \A q \in Submissions : (q[1] = m /\ Placed(q)') <=> (q[1] = m /\ Placed(q))
        BY <2>2
      <4>2. (CHOOSE q \in Submissions : q[1] = m /\ Placed(q)') = (CHOOSE q \in Submissions : q[1] = m /\ Placed(q))
        BY <4>1
      <4>. QED  BY <4>1, <4>2 DEF Made
    <3>. QED  BY <3>1 DEF Made
  <2>. QED  BY <2>1, <2>3
<1>. QED  BY <1>1, <1>2, <1>3

\* Checkout implements work that is done once per key and told truly.
THEOREM Implements == Spec => ImplementsOnce
<1>1. Init => O!Init
  BY DEF Init, O!Init, Made, Placed, NoOrder
<1>. QED  BY <1>1, Invariance, StepRefines, PTL DEF Spec, ImplementsOnce, O!Spec
=============================================================================
