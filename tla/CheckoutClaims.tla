--------------------------- MODULE CheckoutClaims ---------------------------
(* What the comment of the form says of it, against what the code does.    *)
EXTENDS MCCheckout

\* "generated once per attempt so a double submit or a retry after a dropped
\* connection cannot create two orders" (checkout-form.tsx): when the form has
\* shown that a submission's connection dropped, and the customer loads the
\* page again and pays, the cart is not turned into two orders.  The new load
\* draws a new key, and its submission can price the cart while the first one
\* has priced it and not yet spent it.
RetryOrdersOnce ==
  \A r, q \in Submissions :
    /\ Placed(r) /\ Placed(q) /\ order[r].cart = order[q].cart
    /\ form[r[1]] = "ready"
    => r = q
=============================================================================
