------------------------- MODULE CheckoutProperties -------------------------
(***************************************************************************)
(* What checkout, billing and webhooks are supposed to keep.               *)
(***************************************************************************)
EXTENDS Checkout

\* A paid plan was paid for: the user's plan is that of a subscription the
\* gateway has activated, through dismissed modals, late payments and
\* redelivered webhooks (create_subscription leaves the row pending until the
\* webhook promotes it).
PaidPlanHasPayment ==
    userPlan # Free /\ ~sandbox =>
        \E n \in Subs : gw[n].plan = userPlan /\ gw[n].state \in {"active", "ending", "ended"}

\* What Pay showed is what the gateway charges: a promo code that is withdrawn
\* meanwhile, or applied or removed while the call is in flight, never changes
\* it (create_subscription "must FAIL, not silently charge full price").
PayAsSeen ==
    \A n \in Subs : gw[n].state # "none" => gw[n].offer = (pays[n].seen = "discounted")

\* A cancelled row never renews: the subscription it names was stopped at the
\* gateway first ("Cancelling will stop auto-renewal", billing page).
CancelStopsRenewal ==
    row.status = "cancelled" /\ ~sandbox => gw[row.sub].state \in {"ending", "ended", "void"}

\* Nobody loses a plan before the gateway has ended its subscription ("You
\* keep access until the end of the current billing period").
KeepAccess ==
    [][userPlan # Free /\ userPlan' = Free => ~sandbox /\ gw[row.sub].state = "ended"]_vars

-----------------------------------------------------------------------------
(* Said by the repository, not kept by the code.                           *)

\* "You can cancel anytime from your account." (app/checkout/page.tsx): the
\* row, which is all that an account can cancel, does not stop naming a
\* subscription that goes on renewing.
CancelAnytime ==
    [][\A n \in Subs : row.sub = n /\ row.status = "active" /\ row'.sub # n
         => gw'[n].state # "active"]_vars
=============================================================================
