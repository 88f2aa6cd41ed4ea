------------------------------ MODULE Checkout ------------------------------
(***************************************************************************)
(* Paying for a plan: the checkout page (app/checkout/page.tsx), the        *)
(* billing page (app/billing/page.tsx), the subscription row of the user    *)
(* (services/payment_service.py) and the payment gateway, whose webhooks     *)
(* come late, twice, out of order or not at all.                            *)
(*                                                                          *)
(* There is one row per user; it names one subscription of the gateway.     *)
(* Click n on Pay is what subscription n comes from.  A page that is left    *)
(* loses its state, but handleCheckout goes on: its modal opens, and its     *)
(* redirect acts, wherever the browser is by then.                          *)
(***************************************************************************)
EXTENDS Naturals, FiniteSets

CONSTANTS
    Plans,    \* the paid plans
    Free,     \* the free plan
    MaxSubs,  \* bound: clicks on Pay
    MaxEvents \* bound: webhooks still to be delivered

ASSUME CheckoutAssumption == Free \notin Plans /\ MaxSubs \in Nat \ {0} /\ MaxEvents \in Nat

Subs == 1 .. MaxSubs
NoSub == 0

VARIABLES
    sandbox,     \* no gateway is configured
    promoOn,     \* server: the promo code is valid and has an offer
    gw,          \* gateway: its subscriptions
    events,      \* gateway: webhooks it will still deliver
    row,         \* server: the user's subscription row
    userPlan,    \* server: the user's plan
    page,        \* the page the browser shows, and its plan
    co,          \* state of the checkout page
    pays,        \* handleCheckout, one for each click on Pay
    bl,          \* state of the billing page
    cancelSent   \* POST /payments/cancel in flight

gateway == <<sandbox, promoOn, gw, events>>
account == <<row, userPlan>>
vars == <<gateway, account, page, co, pays, bl, cancelSent>>

At(p, plan) == [at |-> p, plan |-> plan]
FreshCheckout == [promo |-> FALSE, busy |-> FALSE, activated |-> FALSE]
FreshBilling == [shown |-> FALSE, confirm |-> FALSE, cancelling |-> FALSE, done |-> FALSE]
NoPay == [phase |-> "none", plan |-> Free, seen |-> "nothing", mine |-> FALSE]

PlansOrFree == Plans \union {Free}
Amounts == {"full", "discounted"}

Subscriptions == [state : {"none", "created", "active", "ending", "ended", "void"},
                  plan : PlansOrFree, offer : BOOLEAN]
Webhooks == [kind : {"activated", "charged", "ended"}, sub : Subs]
Rows == [sub : Subs \union {NoSub}, plan : PlansOrFree,
         status : {"none", "pending", "active", "cancelled"}]
PageStates == [at : {"other", "checkout", "billing"}, plan : PlansOrFree]
CheckoutStates == [promo : BOOLEAN, busy : BOOLEAN, activated : BOOLEAN]
BillingStates == [shown : BOOLEAN, confirm : BOOLEAN, cancelling : BOOLEAN, done : BOOLEAN]
Clicks == [phase : {"none", "asked", "modal", "leaving", "over"}, plan : PlansOrFree,
           seen : Amounts \union {"nothing"}, mine : BOOLEAN]

TypeOK ==
    /\ sandbox \in BOOLEAN /\ promoOn \in BOOLEAN
    /\ gw \in [Subs -> Subscriptions]
    /\ events \in SUBSET Webhooks
    /\ row \in Rows
    /\ userPlan \in PlansOrFree
    /\ page \in PageStates
    /\ co \in CheckoutStates
    /\ pays \in [Subs -> Clicks]
    /\ bl \in BillingStates
    /\ cancelSent \in BOOLEAN

Init ==
    /\ sandbox \in BOOLEAN /\ promoOn = TRUE
    /\ gw = [n \in Subs |-> [state |-> "none", plan |-> Free, offer |-> FALSE]]
    /\ events = {}
    /\ row = [sub |-> NoSub, plan |-> Free, status |-> "none"]
    /\ userPlan = Free
    /\ page = At("other", Free)
    /\ co = FreshCheckout /\ bl = FreshBilling
    /\ pays = [n \in Subs |-> NoPay]
    /\ cancelSent = FALSE

-----------------------------------------------------------------------------
(* Pages.                                                                  *)

\* The modal of the gateway covers the page; going back is always possible.
Covered == \E n \in Subs : pays[n].phase = "modal"
OnCheckout == page.at = "checkout" /\ ~Covered /\ ~co.activated
OnBilling == page.at = "billing" /\ ~Covered

\* The checkout page takes its plan from its address and refuses any other.
Visit(p, plan) ==
    /\ page' = At(p, plan)
    /\ co' = FreshCheckout /\ bl' = FreshBilling
    /\ pays' = [n \in Subs |-> [pays[n] EXCEPT !.mine = FALSE]]

Open ==
    /\ \/ \E plan \in Plans : Visit("checkout", plan)
       \/ Visit("billing", Free) \/ Visit("other", Free)
    /\ page' # page
    /\ UNCHANGED <<gateway, account, cancelSent>>

quiet == <<gateway, account, page, cancelSent>>

-----------------------------------------------------------------------------
(* The checkout page: promo code, Pay.                                     *)

PromoOffered == page.at = "checkout" /\ ~co.activated /\ ~co.promo

\* The code is applied when the server says so, whatever was clicked since:
\* Pay does not wait for the answer.
handleApplyPromo ==
    /\ PromoOffered /\ promoOn
    /\ co' = [co EXCEPT !.promo = TRUE]
    /\ UNCHANGED <<quiet, pays, bl>>

RemovePromo ==
    /\ OnCheckout /\ co.promo
    /\ co' = [co EXCEPT !.promo = FALSE]
    /\ UNCHANGED <<quiet, pays, bl>>

dueToday == IF co.promo THEN "discounted" ELSE "full"

Clicked(n) == pays[n].phase # "none"
NextClick(n) == ~Clicked(n) /\ \A m \in Subs : m < n => Clicked(m)

PayOffered == OnCheckout /\ ~co.busy

handleCheckout(n) ==
    /\ PayOffered /\ NextClick(n)
    /\ co' = [co EXCEPT !.busy = TRUE]
    /\ pays' = [pays EXCEPT ![n] = [phase |-> "asked", plan |-> page.plan,
                                    seen |-> dueToday, mine |-> TRUE]]
    /\ UNCHANGED <<quiet, bl>>

\* Click n has come to its end; its own page, if it is still there, is free.
\* What was seen is kept for a click that created a subscription.
Over(n) ==
    /\ pays' = [pays EXCEPT ![n] =
         [NoPay EXCEPT !.phase = "over",
                       !.seen = IF gw'[n].state = "none" THEN "nothing" ELSE pays[n].seen]]
    /\ co' = IF pays[n].mine THEN [co EXCEPT !.busy = FALSE] ELSE co

\* Mutated form of Created: the plan is there before it is paid.
CreatedAtOnce(n) ==
    /\ pays[n].phase = "asked" /\ ~sandbox
    /\ pays[n].seen = "discounted" => promoOn
    /\ gw' = [gw EXCEPT ![n] = [state |-> "created", plan |-> pays[n].plan,
                                offer |-> pays[n].seen = "discounted"]]
    /\ row' = [sub |-> n, plan |-> pays[n].plan, status |-> "active"]
    /\ userPlan' = pays[n].plan
    /\ UNCHANGED <<sandbox, promoOn, events>>

\* Mutated form of Created: a code without an offer is charged in full.
CreatedSilently(n) ==
    /\ pays[n].phase = "asked" /\ ~sandbox
    /\ gw' = [gw EXCEPT ![n] = [state |-> "created", plan |-> pays[n].plan,
                                offer |-> promoOn /\ pays[n].seen = "discounted"]]
    /\ row' = [sub |-> n, plan |-> pays[n].plan, status |-> "pending"]
    /\ UNCHANGED <<sandbox, promoOn, events, userPlan>>

\* create_subscription with a gateway: the promo is resolved before anything
\* is charged; the row is pending until the gateway says that it was paid, and
\* names the new subscription from now on.
Created(n) ==
    /\ pays[n].phase = "asked" /\ ~sandbox
    /\ pays[n].seen = "discounted" => promoOn
    /\ gw' = [gw EXCEPT ![n] = [state |-> "created", plan |-> pays[n].plan,
                                offer |-> pays[n].seen = "discounted"]]
    /\ row' = [sub |-> n, plan |-> pays[n].plan, status |-> "pending"]
    /\ UNCHANGED <<sandbox, promoOn, events, userPlan>>

\* create_subscription without a gateway: the plan is there at once.
CreatedSandbox(n) ==
    /\ pays[n].phase = "asked" /\ sandbox
    /\ pays[n].seen = "discounted" => promoOn
    /\ row' = [sub |-> n, plan |-> pays[n].plan, status |-> "active"]
    /\ userPlan' = pays[n].plan
    /\ UNCHANGED gateway

\* The answer of POST /payments/subscribe, or its loss after it was served.
\* The script of the gateway is loaded and its modal opened.
Subscribed(n) ==
    /\ \/ /\ Created(n)
          /\ \/ pays' = [pays EXCEPT ![n].phase = "modal", ![n].plan = Free] /\ UNCHANGED co
             \/ Over(n)
       \/ /\ CreatedSandbox(n)
          /\ pays' = [pays EXCEPT ![n].phase = "leaving", ![n].plan = Free]
          /\ co' = IF pays[n].mine THEN [co EXCEPT !.activated = TRUE] ELSE co
    /\ UNCHANGED <<page, bl, cancelSent>>

\* The call is refused or lost, the script of the gateway does not load, the
\* modal is dismissed, or the payment is refused and the modal closed.
PayEnds(n) ==
    /\ pays[n].phase \in {"asked", "modal"}
    /\ UNCHANGED <<quiet, bl>>
    /\ Over(n)

\* payment.failed frees the page behind the modal, which stays for a retry.
PaymentFailed(n) ==
    /\ pays[n].phase = "modal" /\ pays[n].mine /\ co.busy
    /\ co' = [co EXCEPT !.busy = FALSE]
    /\ UNCHANGED <<quiet, pays, bl>>

\* Mutated form of Redirect: the modal stays open on the dashboard.
RedirectCovered(n) ==
    /\ pays[n].phase = "leaving" \/ (pays[n].phase = "modal" /\ gw[n].state \notin {"created", "void"})
    /\ page' = At("dashboard", Free)
    /\ co' = FreshCheckout /\ bl' = FreshBilling
    /\ pays' = [m \in Subs |-> [pays[m] EXCEPT !.mine = FALSE]]
    /\ UNCHANGED <<gateway, account, cancelSent>>

\* The modal's handler, or the timer of the sandbox: on to the dashboard.
Redirect(n) ==
    /\ pays[n].phase = "leaving" \/ (pays[n].phase = "modal" /\ gw[n].state \notin {"created", "void"})
    /\ page' = At("other", Free)
    /\ co' = FreshCheckout /\ bl' = FreshBilling
    /\ pays' = [m \in Subs |-> [pays[m] EXCEPT !.mine = FALSE,
                                               !.phase = IF m = n THEN "over" ELSE @]]
    /\ UNCHANGED <<gateway, account, cancelSent>>

-----------------------------------------------------------------------------
(* The billing page.                                                       *)

\* The status on screen, of which only one thing matters here: whether it is
\* that of an active paid plan.
StatusShown == userPlan # Free /\ row.status = "active"

\* GET /payments/status: on mount, after a cancellation, when focus returns.
StatusRead ==
    /\ page.at = "billing"
    /\ bl' = [bl EXCEPT !.shown = StatusShown]
    /\ UNCHANGED <<quiet, co, pays>>

CancelOffered == bl.shown /\ ~bl.done

\* "Cancel subscription" and "Keep my plan".
AskCancel ==
    /\ OnBilling /\ CancelOffered
    /\ bl' = [bl EXCEPT !.confirm = ~@]
    /\ UNCHANGED <<quiet, co, pays>>

handleCancel ==
    /\ OnBilling /\ CancelOffered /\ bl.confirm /\ ~bl.cancelling
    /\ ~cancelSent    \* bound: one call in flight
    /\ bl' = [bl EXCEPT !.cancelling = TRUE]
    /\ cancelSent' = TRUE
    /\ UNCHANGED <<gateway, account, page, co, pays>>

\* Mutated form of Cancelled: the row is written whatever the gateway says.
CancelledAnyway ==
    /\ row.status \notin {"none", "cancelled"}
    /\ \/ UNCHANGED gw
       \/ /\ ~sandbox /\ gw[row.sub].state \in {"created", "active"}
          /\ gw' = [gw EXCEPT ![row.sub].state = IF @ = "active" THEN "ending" ELSE "void"]
    /\ row' = [row EXCEPT !.status = "cancelled"]
    /\ UNCHANGED userPlan

\* Mutated form of Cancelled: the plan goes with the row.
CancelledAtOnce ==
    /\ row.status \notin {"none", "cancelled"}
    /\ \/ sandbox /\ UNCHANGED gw
       \/ /\ ~sandbox /\ gw[row.sub].state \in {"created", "active"}
          /\ gw' = [gw EXCEPT ![row.sub].state = IF @ = "active" THEN "ending" ELSE "void"]
    /\ row' = [row EXCEPT !.status = "cancelled"]
    /\ userPlan' = Free

\* cancel_subscription: first the gateway, at the end of the cycle, then the
\* row; the plan stays.
Cancelled ==
    /\ row.status \notin {"none", "cancelled"}
    /\ \/ sandbox /\ UNCHANGED gw
       \/ /\ ~sandbox /\ gw[row.sub].state \in {"created", "active"}
          /\ gw' = [gw EXCEPT ![row.sub].state = IF @ = "active" THEN "ending" ELSE "void"]
    /\ row' = [row EXCEPT !.status = "cancelled"]
    /\ UNCHANGED userPlan

\* The answer reaches the page that asked, if it is still there.
CancelServed ==
    /\ cancelSent /\ cancelSent' = FALSE
    /\ \/ /\ Cancelled
          /\ bl' \in {[bl EXCEPT !.cancelling = FALSE],
                      IF bl.cancelling
                      THEN [bl EXCEPT !.cancelling = FALSE, !.done = TRUE, !.confirm = FALSE]
                      ELSE bl}
       \/ UNCHANGED <<gw, account>> /\ bl' = [bl EXCEPT !.cancelling = FALSE]
    /\ UNCHANGED <<sandbox, promoOn, events, page, co, pays>>

-----------------------------------------------------------------------------
(* The gateway.                                                            *)

Event(k, n) == [kind |-> k, sub |-> n]
Emits(k, n) ==
    /\ events' = events \union {Event(k, n)}
    /\ Cardinality(events') <= MaxEvents
quietGateway == <<sandbox, promoOn, account, page, co, pays, bl, cancelSent>>

\* Paid in the modal, or later by the link the gateway mails (customer_notify).
GatewayPays(n) ==
    /\ gw[n].state = "created"
    /\ gw' = [gw EXCEPT ![n].state = "active"]
    /\ Emits("activated", n)
    /\ UNCHANGED quietGateway

GatewayRenews(n) ==
    /\ gw[n].state = "active" /\ Event("charged", n) \notin events
    /\ Emits("charged", n)
    /\ UNCHANGED <<quietGateway, gw>>

\* The cycle of a cancelled subscription ends, or all its cycles are over.
GatewayEnds(n) ==
    /\ gw[n].state \in {"active", "ending"}
    /\ gw' = [gw EXCEPT ![n].state = "ended"]
    /\ Emits("ended", n)
    /\ UNCHANGED quietGateway

\* An administrator withdraws the promo code, or its uses are spent.
PromoWithdrawn ==
    /\ promoOn /\ promoOn' = FALSE
    /\ UNCHANGED <<sandbox, gw, events, account, page, co, pays, bl, cancelSent>>

-----------------------------------------------------------------------------
(* Webhooks: each may be delivered again, and in any order.                *)

\* The row is made to name the subscription, whatever it named before.
Activated(n) ==
    /\ row' = [sub |-> n, plan |-> gw[n].plan, status |-> "active"]
    /\ userPlan' = gw[n].plan

Charged(n) ==
    /\ userPlan' = IF row.sub = n THEN row.plan ELSE userPlan
    /\ UNCHANGED row

Ended(n) ==
    /\ \/ row.sub = n /\ row' = [row EXCEPT !.status = "cancelled"] /\ userPlan' = Free
       \/ row.sub # n /\ UNCHANGED account

Deliver(e) ==
    /\ e \in events
    /\ events' \in {events, events \ {e}}
    /\ \/ e.kind = "activated" /\ Activated(e.sub)
       \/ e.kind = "charged" /\ Charged(e.sub)
       \/ e.kind = "ended" /\ Ended(e.sub)
    /\ UNCHANGED <<sandbox, promoOn, gw, page, co, pays, bl, cancelSent>>

\* A handler that fails is rolled back and answered with 200 all the same.
DeliveryLost(e) ==
    /\ e \in events
    /\ events' = events \ {e}
    /\ UNCHANGED <<sandbox, promoOn, gw, account, page, co, pays, bl, cancelSent>>

-----------------------------------------------------------------------------
CheckoutStep ==
    \/ Open \/ handleApplyPromo \/ RemovePromo
    \/ \E n \in Subs :
         \/ handleCheckout(n) \/ Subscribed(n) \/ PayEnds(n)
         \/ PaymentFailed(n) \/ Redirect(n)
BillingStep == StatusRead \/ AskCancel \/ handleCancel \/ CancelServed
GatewayStep ==
    \/ \E n \in Subs : GatewayPays(n) \/ GatewayRenews(n) \/ GatewayEnds(n)
    \/ PromoWithdrawn
    \/ \E e \in events : Deliver(e) \/ DeliveryLost(e)

Next == CheckoutStep \/ BillingStep \/ GatewayStep

Spec == Init /\ [][Next]_vars
=============================================================================
