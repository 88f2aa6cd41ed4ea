--------------------------- MODULE CheckoutProofs ---------------------------
(***************************************************************************)
(* The properties of CheckoutProperties, for any plans and any number of   *)
(* clicks and webhooks.                                                    *)
(***************************************************************************)
EXTENDS CheckoutProperties, TLAPS

-----------------------------------------------------------------------------
(* Types.                                                                  *)

LEMMA TypesInit == Init => TypeOK
<1> SUFFICES ASSUME Init PROVE TypeOK
  OBVIOUS
<1>1. gw \in [Subs -> Subscriptions]
  BY DEF Init, Subscriptions, PlansOrFree
<1>2. pays \in [Subs -> Clicks]
  BY DEF Init, Clicks, NoPay, PlansOrFree
<1>3. row \in Rows /\ page \in PageStates
  BY DEF Init, Rows, PageStates, At, PlansOrFree
<1>4. co \in CheckoutStates /\ bl \in BillingStates
  BY DEF Init, CheckoutStates, BillingStates, FreshCheckout, FreshBilling
<1>5. QED
  BY <1>1, <1>2, <1>3, <1>4 DEF Init, TypeOK, PlansOrFree

\* Going to another page.
LEMMA VisitTypes ==
  ASSUME TypeOK, NEW p \in {"other", "checkout", "billing"}, NEW plan \in PlansOrFree,
         Visit(p, plan)
  PROVE  /\ page' \in PageStates /\ co' \in CheckoutStates
         /\ pays' \in [Subs -> Clicks] /\ bl' \in BillingStates
<1>1. \A c \in Clicks : [c EXCEPT !.mine = FALSE] \in Clicks
  BY DEF Clicks
<1>2. pays' \in [Subs -> Clicks]
  BY <1>1 DEF Visit, TypeOK
<1>3. page' \in PageStates
  BY DEF Visit, At, PageStates
<1>4. co' \in CheckoutStates /\ bl' \in BillingStates
  BY DEF Visit, FreshCheckout, FreshBilling, CheckoutStates, BillingStates
<1>5. QED
  BY <1>2, <1>3, <1>4

\* What a click may become.
LEMMA ClickTypes ==
  ASSUME NEW c \in Clicks, NEW ph \in {"none", "asked", "modal", "leaving", "over"},
         NEW seen \in Amounts \union {"nothing"}, NEW plan \in PlansOrFree
  PROVE  /\ [c EXCEPT !.mine = FALSE, !.phase = ph] \in Clicks
         /\ [c EXCEPT !.phase = ph, !.plan = plan] \in Clicks
         /\ [NoPay EXCEPT !.phase = ph, !.seen = seen] \in Clicks
         /\ [phase |-> ph, plan |-> plan, seen |-> seen, mine |-> TRUE] \in Clicks
         /\ c.seen \in Amounts \union {"nothing"} /\ c.plan \in PlansOrFree
  BY DEF Clicks, NoPay, PlansOrFree

LEMMA CheckoutTypes ==
  ASSUME NEW c \in CheckoutStates, NEW b \in BOOLEAN
  PROVE  /\ [c EXCEPT !.promo = b] \in CheckoutStates
         /\ [c EXCEPT !.busy = b] \in CheckoutStates
         /\ [c EXCEPT !.activated = b] \in CheckoutStates
  BY DEF CheckoutStates

LEMMA OverTypes ==
  ASSUME TypeOK, NEW n \in Subs, Over(n)
  PROVE  pays' \in [Subs -> Clicks] /\ co' \in CheckoutStates
<1> DEFINE seen == IF gw'[n].state = "none" THEN "nothing" ELSE pays[n].seen
<1>1. pays[n] \in Clicks /\ pays[n].seen \in Amounts \union {"nothing"}
  BY ClickTypes DEF TypeOK, PlansOrFree
<1>2. [NoPay EXCEPT !.phase = "over", !.seen = seen] \in Clicks
  <2>1. seen \in Amounts \union {"nothing"}
    BY <1>1
  <2> HIDE DEF seen
  <2>2. QED
    BY <1>1, <2>1, ClickTypes DEF PlansOrFree
<1>3. pays' = [pays EXCEPT ![n] = [NoPay EXCEPT !.phase = "over", !.seen = seen]]
  BY DEF Over
<1> HIDE DEF seen
<1>4. pays' \in [Subs -> Clicks]
  BY <1>2, <1>3 DEF TypeOK
<1>5. co' \in CheckoutStates
  BY CheckoutTypes DEF Over, TypeOK
<1>6. QED
  BY <1>4, <1>5

LEMMA BillingTypes ==
  ASSUME NEW b \in BillingStates, NEW x \in BOOLEAN
  PROVE  /\ [b EXCEPT !.shown = x] \in BillingStates
         /\ [b EXCEPT !.cancelling = x] \in BillingStates
         /\ [b EXCEPT !.confirm = ~@] \in BillingStates
         /\ [b EXCEPT !.cancelling = FALSE, !.done = TRUE, !.confirm = FALSE] \in BillingStates
  BY DEF BillingStates

\* What becomes of a subscription.
LEMMA GatewayTypes ==
  ASSUME NEW g \in Subscriptions, NEW x \in {"active", "ending", "ended", "void"},
         NEW plan \in PlansOrFree, NEW b \in BOOLEAN
  PROVE  /\ [g EXCEPT !.state = x] \in Subscriptions
         /\ [state |-> "created", plan |-> plan, offer |-> b] \in Subscriptions
         /\ g.plan \in PlansOrFree
  BY DEF Subscriptions

LEMMA RowTypes ==
  /\ \A n \in Subs, plan \in PlansOrFree, st \in {"pending", "active"} :
        [sub |-> n, plan |-> plan, status |-> st] \in Rows
  /\ \A r \in Rows : /\ [r EXCEPT !.status = "cancelled"] \in Rows
                     /\ r.plan \in PlansOrFree /\ r.sub \in Subs \union {NoSub}
  BY DEF Rows

\* Steps of the pages that only change what is on screen.
LEMMA ScreenTypes ==
  ASSUME TypeOK, handleApplyPromo \/ RemovePromo \/ StatusRead \/ AskCancel \/ handleCancel
                 \/ \E n \in Subs : PaymentFailed(n)
  PROVE  TypeOK'
<1>1. co' \in CheckoutStates
  BY CheckoutTypes DEF TypeOK, handleApplyPromo, RemovePromo, StatusRead, AskCancel, handleCancel,
     PaymentFailed
<1>2. bl' \in BillingStates
  <2>1. StatusShown \in BOOLEAN
    BY DEF StatusShown
  <2> QED
    BY <2>1, BillingTypes DEF TypeOK, handleApplyPromo, RemovePromo, StatusRead, AskCancel,
       handleCancel, PaymentFailed
<1>3. cancelSent' \in BOOLEAN
  BY DEF TypeOK, handleApplyPromo, RemovePromo, StatusRead, AskCancel, handleCancel,
     PaymentFailed, quiet
<1>4. UNCHANGED <<gateway, account, page, pays>>
  BY DEF handleApplyPromo, RemovePromo, StatusRead, AskCancel, handleCancel, PaymentFailed, quiet
<1>5. QED
  BY <1>1, <1>2, <1>3, <1>4 DEF TypeOK, gateway, account

LEMMA PayTypes ==
  ASSUME TypeOK, NEW n \in Subs, handleCheckout(n) \/ Subscribed(n) \/ PayEnds(n) \/ Redirect(n)
  PROVE  TypeOK'
<1>1. CASE handleCheckout(n)
  <2>1. pays' \in [Subs -> Clicks]
    <3>1. page.plan \in PlansOrFree /\ dueToday \in Amounts \union {"nothing"}
      BY DEF TypeOK, PageStates, dueToday, Amounts
    <3> DEFINE c == [phase |-> "asked", plan |-> page.plan, seen |-> dueToday, mine |-> TRUE]
    <3>2. c \in Clicks
      BY <3>1 DEF Clicks
    <3>3. pays' = [pays EXCEPT ![n] = c]
      BY <1>1 DEF handleCheckout
    <3> QED
      BY <3>2, <3>3 DEF TypeOK
  <2>2. co' \in CheckoutStates
    BY <1>1, CheckoutTypes DEF TypeOK, handleCheckout
  <2>3. QED
    BY <1>1, <2>1, <2>2 DEF TypeOK, handleCheckout, quiet, gateway, account
<1>2. CASE Subscribed(n)
  <2>1. pays[n].plan \in PlansOrFree
    BY DEF TypeOK, Clicks
  <2>2. CASE Created(n)
    <3>1. gw' \in [Subs -> Subscriptions]
      <4>1. [state |-> "created", plan |-> pays[n].plan,
             offer |-> pays[n].seen = "discounted"] \in Subscriptions
        BY <2>1 DEF Subscriptions
      <4>2. QED
        BY <2>2, <4>1 DEF TypeOK, Created
    <3>2. row' \in Rows
      BY <2>1, <2>2, RowTypes DEF Created
    <3>3. pays' \in [Subs -> Clicks] /\ co' \in CheckoutStates
      <4>1. CASE Over(n)
        BY <4>1, OverTypes
      <4>2. CASE pays' = [pays EXCEPT ![n].phase = "modal", ![n].plan = Free] /\ UNCHANGED co
        <5>1. [pays[n] EXCEPT !.phase = "modal", !.plan = Free] \in Clicks
          BY DEF TypeOK, Clicks, PlansOrFree
        <5>2. pays' = [pays EXCEPT ![n] = [pays[n] EXCEPT !.phase = "modal", !.plan = Free]]
          BY <4>2 DEF TypeOK
        <5>3. QED
          BY <4>2, <5>1, <5>2 DEF TypeOK
      <4>3. CASE sandbox
        BY <2>2, <4>3 DEF Created
      <4>4. QED
        BY <1>2, <4>1, <4>2, <4>3 DEF Subscribed, CreatedSandbox
    <3>4. QED
      BY <1>2, <2>2, <3>1, <3>2, <3>3 DEF TypeOK, Subscribed, Created
  <2>3. CASE CreatedSandbox(n)
    <3>1. pays' = [pays EXCEPT ![n].phase = "leaving", ![n].plan = Free]
      BY <1>2, <2>3 DEF Subscribed, Created, CreatedSandbox
    <3>2. [pays[n] EXCEPT !.phase = "leaving", !.plan = Free] \in Clicks
      BY DEF TypeOK, Clicks, PlansOrFree
    <3>3. pays' \in [Subs -> Clicks]
      BY <3>1, <3>2 DEF TypeOK
    <3>4. co' \in CheckoutStates
      BY <1>2, <2>3, CheckoutTypes DEF TypeOK, Subscribed, Created, CreatedSandbox
    <3>5. row' \in Rows /\ userPlan' \in PlansOrFree
      BY <2>1, <2>3, RowTypes DEF CreatedSandbox
    <3>6. QED
      BY <1>2, <2>3, <3>3, <3>4, <3>5 DEF TypeOK, Subscribed, CreatedSandbox, gateway
  <2>4. QED
    BY <1>2, <2>2, <2>3 DEF Subscribed
<1>3. CASE PayEnds(n)
  BY <1>3, OverTypes DEF PayEnds, quiet, TypeOK, gateway, account
<1>4. CASE Redirect(n)
  <2>1. \A m \in Subs : [pays[m] EXCEPT !.mine = FALSE,
                                      !.phase = IF m = n THEN "over" ELSE @] \in Clicks
    BY DEF TypeOK, Clicks
  <2>2. pays' \in [Subs -> Clicks]
    BY <1>4, <2>1 DEF Redirect
  <2>3. page' \in PageStates
    BY <1>4 DEF Redirect, At, PageStates, PlansOrFree
  <2>4. co' \in CheckoutStates /\ bl' \in BillingStates
    BY <1>4 DEF Redirect, FreshCheckout, FreshBilling, CheckoutStates, BillingStates
  <2>5. QED
    BY <1>4, <2>2, <2>3, <2>4 DEF TypeOK, Redirect, gateway, account
<1>5. QED
  BY <1>1, <1>2, <1>3, <1>4

LEMMA CancelTypes == ASSUME TypeOK, CancelServed PROVE TypeOK'
<1>1. bl' \in BillingStates
  BY BillingTypes DEF TypeOK, CancelServed
<1>2. gw' \in [Subs -> Subscriptions]
  <2>1. \A g \in Subscriptions :
           [g EXCEPT !.state = IF @ = "active" THEN "ending" ELSE "void"] \in Subscriptions
    BY DEF Subscriptions
  <2>2. CASE gw' = [gw EXCEPT ![row.sub].state = IF @ = "active" THEN "ending" ELSE "void"]
    BY <2>1, <2>2 DEF TypeOK
  <2>3. QED
    BY <2>2 DEF TypeOK, CancelServed, Cancelled
<1>3. row' \in Rows /\ userPlan' = userPlan
  BY RowTypes DEF TypeOK, CancelServed, Cancelled, account
<1>4. QED
  BY <1>1, <1>2, <1>3 DEF TypeOK, CancelServed

LEMMA GatewayStepTypes == ASSUME TypeOK, GatewayStep PROVE TypeOK'
<1>1. ASSUME NEW n \in Subs, GatewayPays(n) \/ GatewayRenews(n) \/ GatewayEnds(n) PROVE TypeOK'
  <2>1. gw' \in [Subs -> Subscriptions]
    <3>1. PICK x \in {"active", "ended"} : gw' = gw \/ gw' = [gw EXCEPT ![n].state = x]
      BY <1>1 DEF GatewayPays, GatewayRenews, GatewayEnds
    <3>2. [gw[n] EXCEPT !.state = x] \in Subscriptions
      BY DEF TypeOK, Subscriptions
    <3>3. QED
      BY <3>1, <3>2 DEF TypeOK
  <2>2. events' \in SUBSET Webhooks
    BY <1>1 DEF TypeOK, GatewayPays, GatewayRenews, GatewayEnds, Emits, Event, Webhooks
  <2>3. QED
    BY <1>1, <2>1, <2>2 DEF TypeOK, GatewayPays, GatewayRenews, GatewayEnds, quietGateway, account
<1>2. CASE PromoWithdrawn
  BY <1>2 DEF TypeOK, PromoWithdrawn, account
<1>3. ASSUME NEW e \in events, Deliver(e) PROVE TypeOK'
  <2>1. e.sub \in Subs
    BY DEF TypeOK, Webhooks
  <2>2. gw[e.sub].plan \in PlansOrFree /\ row.plan \in PlansOrFree /\ Free \in PlansOrFree
    BY <2>1, GatewayTypes, RowTypes DEF TypeOK, PlansOrFree, Subscriptions
  <2>3. row' \in Rows /\ userPlan' \in PlansOrFree
    BY <1>3, <2>1, <2>2, RowTypes DEF TypeOK, Deliver, Activated, Charged, Ended, account
  <2>4. events' \in SUBSET Webhooks
    BY <1>3 DEF TypeOK, Deliver
  <2>5. QED
    BY <1>3, <2>3, <2>4 DEF TypeOK, Deliver
<1>4. ASSUME NEW e \in events, DeliveryLost(e) PROVE TypeOK'
  BY <1>4 DEF TypeOK, DeliveryLost, account
<1>5. QED
  BY <1>1, <1>2, <1>3, <1>4 DEF GatewayStep

LEMMA OpenTypes == ASSUME TypeOK, Open PROVE TypeOK'
<1>1. page' \in PageStates /\ co' \in CheckoutStates /\ pays' \in [Subs -> Clicks]
      /\ bl' \in BillingStates
  BY VisitTypes DEF Open, PlansOrFree
<1>2. QED
  BY <1>1 DEF Open, TypeOK, gateway, account

LEMMA TypesNext == TypeOK /\ [Next]_vars => TypeOK'
<1> SUFFICES ASSUME TypeOK, [Next]_vars PROVE TypeOK'
  OBVIOUS
<1>1. CASE CheckoutStep
  BY <1>1, OpenTypes, ScreenTypes, PayTypes DEF CheckoutStep
<1>2. CASE BillingStep
  BY <1>2, ScreenTypes, CancelTypes DEF BillingStep
<1>3. CASE UNCHANGED vars
  BY <1>3 DEF TypeOK, vars, gateway, account
<1>4. QED
  BY <1>1, <1>2, <1>3, GatewayStepTypes DEF Next

\* The pages, the row and the gateway (app/checkout, app/billing, payment_service.py)
\* stay within their types.
THEOREM TypeCorrect == Spec => []TypeOK
  BY TypesInit, TypesNext, PTL DEF Spec

-----------------------------------------------------------------------------
(* The inductive invariant: what the row, the gateway, the clicks and the  *)
(* webhooks know of each other.                                            *)

\* A checkout page, and a click made on it, is about a paid plan; before its call is
\* served a click has no subscription.
ClickInv ==
    /\ page.at = "checkout" => page.plan # Free
    /\ \A n \in Subs :
         /\ pays[n].phase \in {"none", "asked"} => gw[n].state = "none"
         /\ pays[n].phase = "asked" => pays[n].plan # Free

\* What the gateway has is about a paid plan; without a gateway there is nothing.
GatewayInv ==
    \A n \in Subs : gw[n].state # "none" => gw[n].plan # Free /\ ~sandbox

Paid(n) == gw[n].state \in {"active", "ending", "ended"}

\* A webhook is about a subscription that was paid, and an end about one that ended.
EventInv ==
    \A e \in events : Paid(e.sub) /\ (e.kind = "ended" => gw[e.sub].state = "ended")

\* The row knows its subscription's plan.
RowInv ==
    /\ row.status # "none" => row.sub # NoSub
    /\ row.sub # NoSub =>
         /\ row.plan # Free
         /\ ~sandbox => gw[row.sub].state # "none" /\ row.plan = gw[row.sub].plan

IInv ==
    /\ ClickInv /\ GatewayInv /\ EventInv /\ RowInv
    /\ PaidPlanHasPayment /\ PayAsSeen /\ CancelStopsRenewal

LEMMA IInvInit == Init => IInv
<1> SUFFICES ASSUME Init PROVE IInv
  OBVIOUS
<1>1. ClickInv /\ GatewayInv /\ EventInv
  BY DEF Init, ClickInv, GatewayInv, EventInv, At, NoPay
<1>2. RowInv /\ PaidPlanHasPayment /\ PayAsSeen /\ CancelStopsRenewal
  BY DEF Init, RowInv, PaidPlanHasPayment, PayAsSeen, CancelStopsRenewal
<1>3. QED
  BY <1>1, <1>2 DEF IInv

\* The pages alone: nothing happens at the gateway or on the server.
LEMMA PagesFrame ==
  ASSUME IInv, UNCHANGED <<sandbox, gw, events, row, userPlan>>, ClickInv', PayAsSeen'
  PROVE  IInv'
<1>1. GatewayInv' /\ EventInv'
  BY DEF IInv, GatewayInv, EventInv, Paid
<1>2. RowInv' /\ PaidPlanHasPayment' /\ CancelStopsRenewal'
  BY DEF IInv, RowInv, PaidPlanHasPayment, CancelStopsRenewal
<1>3. QED
  BY <1>1, <1>2 DEF IInv

\* Clicks that keep what they saw and are not asked anew.
LEMMA ClicksFrame ==
  ASSUME IInv, UNCHANGED <<sandbox, gw, events, row, userPlan>>,
         page'.at = "checkout" => page'.plan # Free,
         \A n \in Subs :
           /\ \/ pays'[n].phase = pays[n].phase /\ pays'[n].plan = pays[n].plan
              \/ pays'[n].phase \notin {"none", "asked"}
           /\ pays'[n].seen = pays[n].seen \/ gw[n].state = "none"
  PROVE  IInv'
<1>1. ClickInv'
  BY DEF IInv, ClickInv
<1>2. PayAsSeen'
  BY DEF IInv, PayAsSeen
<1>3. QED
  BY <1>1, <1>2, PagesFrame

\* What Over makes of the clicks.
LEMMA OverClicks ==
  ASSUME TypeOK, NEW n \in Subs, Over(n)
  PROVE  /\ pays'[n].phase = "over"
         /\ pays'[n].seen = IF gw'[n].state = "none" THEN "nothing" ELSE pays[n].seen
         /\ \A m \in Subs : m # n => pays'[m] = pays[m]
<1> DEFINE seen == IF gw'[n].state = "none" THEN "nothing" ELSE pays[n].seen
<1>1. pays' = [pays EXCEPT ![n] = [NoPay EXCEPT !.phase = "over", !.seen = seen]]
  BY DEF Over
<1> HIDE DEF seen
<1>2. pays'[n] = [NoPay EXCEPT !.phase = "over", !.seen = seen]
  BY <1>1 DEF TypeOK
<1>3. pays'[n].phase = "over" /\ pays'[n].seen = seen
  BY <1>2 DEF NoPay
<1>4. \A m \in Subs : m # n => pays'[m] = pays[m]
  BY <1>1 DEF TypeOK
<1>5. QED
  BY <1>3, <1>4 DEF seen

LEMMA ScreenKeeps ==
  ASSUME TypeOK, IInv,
         handleApplyPromo \/ RemovePromo \/ StatusRead \/ AskCancel \/ handleCancel
         \/ \E n \in Subs : PaymentFailed(n)
  PROVE  IInv'
<1>1. UNCHANGED <<sandbox, gw, events, row, userPlan, page, pays>>
  BY DEF handleApplyPromo, RemovePromo, StatusRead, AskCancel, handleCancel, PaymentFailed,
     quiet, gateway, account
<1>2. ClickInv' /\ PayAsSeen'
  BY <1>1 DEF IInv, ClickInv, PayAsSeen
<1>3. QED
  BY <1>1, <1>2, PagesFrame

\* Leaving a page takes "mine" from its clicks and nothing else.
LEMMA OpenKeeps == ASSUME CheckoutAssumption, TypeOK, IInv, Open PROVE IInv'
<1>1. PICK p \in {"checkout", "billing", "other"}, plan \in PlansOrFree :
        Visit(p, plan) /\ (p = "checkout" => plan \in Plans)
  BY DEF Open, PlansOrFree
<1>2. page'.at = "checkout" => page'.plan # Free
  BY <1>1 DEF CheckoutAssumption, Visit, At
<1>3. \A n \in Subs : pays'[n] = [pays[n] EXCEPT !.mine = FALSE]
  BY <1>1 DEF Visit
<1>4. \A c \in Clicks : LET d == [c EXCEPT !.mine = FALSE]
                        IN  d.phase = c.phase /\ d.plan = c.plan /\ d.seen = c.seen
  BY DEF Clicks
<1>5. \A n \in Subs : pays'[n].phase = pays[n].phase /\ pays'[n].plan = pays[n].plan
                      /\ pays'[n].seen = pays[n].seen
  BY <1>3, <1>4 DEF TypeOK
<1>6. UNCHANGED <<sandbox, gw, events, row, userPlan>>
  BY DEF Open, gateway, account
<1>7. QED
  BY <1>2, <1>5, <1>6, ClicksFrame

LEMMA RedirectKeeps == ASSUME TypeOK, IInv, NEW n \in Subs, Redirect(n) PROVE IInv'
<1>1. page'.at # "checkout"
  BY DEF Redirect, At
<1>2. \A m \in Subs :
        pays'[m] = [pays[m] EXCEPT !.mine = FALSE, !.phase = IF m = n THEN "over" ELSE @]
  BY DEF Redirect
<1>4. ASSUME NEW m \in Subs
      PROVE  /\ pays'[m].plan = pays[m].plan /\ pays'[m].seen = pays[m].seen
             /\ pays'[m].phase = pays[m].phase \/ pays'[m].phase = "over"
  <2>1. pays[m] \in Clicks
    BY DEF TypeOK
  <2>2. pays'[m] = [pays[m] EXCEPT !.mine = FALSE, !.phase = "over"]
        \/ pays'[m] = [pays[m] EXCEPT !.mine = FALSE, !.phase = pays[m].phase]
    BY <1>2
  <2>3. QED
    BY <2>1, <2>2 DEF Clicks
<1>5. UNCHANGED <<sandbox, gw, events, row, userPlan>>
  BY DEF Redirect, gateway, account
<1>6. QED
  BY <1>1, <1>4, <1>5, ClicksFrame

LEMMA PayEndsKeeps == ASSUME TypeOK, IInv, NEW n \in Subs, PayEnds(n) PROVE IInv'
<1>1. UNCHANGED <<sandbox, gw, events, row, userPlan, page>>
  BY DEF PayEnds, quiet, gateway, account
<1>2. \A m \in Subs :
        /\ pays'[m] = pays[m] \/ (m = n /\ pays'[m].phase = "over")
        /\ pays'[m].seen = pays[m].seen \/ gw[m].state = "none"
  BY <1>1, OverClicks DEF PayEnds
<1>3. \A m \in Subs :
        /\ \/ pays'[m].phase = pays[m].phase /\ pays'[m].plan = pays[m].plan
           \/ pays'[m].phase \notin {"none", "asked"}
        /\ pays'[m].seen = pays[m].seen \/ gw[m].state = "none"
  BY <1>2
<1>4. page'.at = "checkout" => page'.plan # Free
  BY <1>1 DEF IInv, ClickInv
<1>5. QED
  BY <1>1, <1>3, <1>4, ClicksFrame

\* A first click is about the plan of its page, and nothing exists of it yet.
LEMMA ClickKeeps == ASSUME TypeOK, IInv, NEW n \in Subs, handleCheckout(n) PROVE IInv'
<1>1. UNCHANGED <<sandbox, gw, events, row, userPlan, page>>
  BY DEF handleCheckout, quiet, gateway, account
<1>2. page.plan # Free /\ gw[n].state = "none"
  BY DEF IInv, ClickInv, handleCheckout, PayOffered, OnCheckout, NextClick, Clicked
<1>3. /\ pays'[n].phase = "asked" /\ pays'[n].plan = page.plan
      /\ \A m \in Subs : m # n => pays'[m] = pays[m]
  BY DEF handleCheckout, TypeOK
<1>4. ClickInv'
  BY <1>1, <1>2, <1>3 DEF IInv, ClickInv
<1>5. PayAsSeen'
  BY <1>1, <1>2, <1>3 DEF IInv, PayAsSeen
<1>6. QED
  BY <1>1, <1>4, <1>5, PagesFrame

\* The gateway creates a subscription for a click, with the plan and the offer the
\* click saw, and the row names it from now on.
LEMMA CreatedKeeps ==
  ASSUME TypeOK, IInv, NEW n \in Subs, Created(n), UNCHANGED page,
         pays'[n].phase \notin {"none", "asked"}, pays'[n].seen = pays[n].seen,
         \A m \in Subs : m # n => pays'[m] = pays[m]
  PROVE  IInv'
<1>1. /\ gw[n].state = "none" /\ pays[n].plan # Free /\ ~sandbox
      /\ UNCHANGED <<sandbox, promoOn, events, userPlan>>
  BY DEF IInv, ClickInv, Created
<1>2. /\ gw'[n].state = "created" /\ gw'[n].plan = pays[n].plan
      /\ gw'[n].offer = (pays[n].seen = "discounted")
      /\ \A m \in Subs : m # n => gw'[m] = gw[m]
  BY DEF Created, TypeOK
<1>3. row'.sub = n /\ row'.plan = pays[n].plan /\ row'.status = "pending"
  BY DEF Created
<1>4. ClickInv'
  BY <1>2 DEF IInv, ClickInv
<1>5. GatewayInv'
  BY <1>1, <1>2 DEF IInv, GatewayInv
<1>6. EventInv'
  <2>1. \A e \in events : e.sub \in Subs /\ e.sub # n
    BY <1>1 DEF IInv, EventInv, Paid, TypeOK, Webhooks
  <2>2. QED
    BY <1>1, <1>2, <2>1 DEF IInv, EventInv, Paid
<1>7. RowInv'
  <2>1. n # NoSub
    BY DEF Subs, NoSub
  <2>2. QED
    BY <1>1, <1>2, <1>3, <2>1 DEF RowInv
<1>8. PaidPlanHasPayment'
  BY <1>1, <1>2 DEF IInv, PaidPlanHasPayment
<1>9. PayAsSeen'
  <2>1. ASSUME NEW m \in Subs, gw'[m].state # "none"
        PROVE  gw'[m].offer = (pays'[m].seen = "discounted")
    <3>1. CASE m = n
      BY <1>2, <3>1
    <3>2. CASE m # n
      BY <1>2, <2>1, <3>2 DEF IInv, PayAsSeen
    <3>3. QED
      BY <3>1, <3>2
  <2>2. QED
    BY <2>1 DEF PayAsSeen
<1>10. CancelStopsRenewal'
  BY <1>3 DEF CancelStopsRenewal
<1>11. QED
  BY <1>4, <1>5, <1>6, <1>7, <1>8, <1>9, <1>10 DEF IInv

LEMMA SandboxKeeps ==
  ASSUME TypeOK, IInv, NEW n \in Subs, CreatedSandbox(n), UNCHANGED page,
         pays'[n].phase \notin {"none", "asked"},
         \A m \in Subs : m # n => pays'[m] = pays[m]
  PROVE  IInv'
<1>1. /\ sandbox /\ pays[n].plan # Free /\ UNCHANGED <<sandbox, gw, events>>
      /\ \A m \in Subs : gw[m].state = "none"
  BY DEF IInv, ClickInv, GatewayInv, CreatedSandbox, gateway
<1>2. row'.sub = n /\ row'.plan = pays[n].plan /\ row'.status = "active"
  BY DEF CreatedSandbox
<1>3. n # NoSub
  BY DEF Subs, NoSub
<1>4. ClickInv' /\ GatewayInv' /\ EventInv'
  BY <1>1 DEF IInv, ClickInv, GatewayInv, EventInv, Paid
<1>5. RowInv' /\ PaidPlanHasPayment' /\ PayAsSeen' /\ CancelStopsRenewal'
  BY <1>1, <1>2, <1>3 DEF RowInv, PaidPlanHasPayment, PayAsSeen, CancelStopsRenewal
<1>6. QED
  BY <1>4, <1>5 DEF IInv

LEMMA SubscribedKeeps == ASSUME TypeOK, IInv, NEW n \in Subs, Subscribed(n) PROVE IInv'
<1>1. page' = page
  BY DEF Subscribed
<1>2. \A ph \in {"modal", "leaving"} :
        pays' = [pays EXCEPT ![n].phase = ph, ![n].plan = Free] =>
          /\ pays'[n].phase = ph /\ pays'[n].seen = pays[n].seen
          /\ \A m \in Subs : m # n => pays'[m] = pays[m]
  <2> SUFFICES ASSUME NEW ph \in {"modal", "leaving"},
                      pays' = [pays EXCEPT ![n].phase = ph, ![n].plan = Free]
               PROVE  /\ pays'[n].phase = ph /\ pays'[n].seen = pays[n].seen
                      /\ \A m \in Subs : m # n => pays'[m] = pays[m]
    OBVIOUS
  <2>1. pays'[n] = [pays[n] EXCEPT !.phase = ph, !.plan = Free]
    BY DEF TypeOK
  <2>2. pays'[n].phase = ph /\ pays'[n].seen = pays[n].seen
    BY <2>1 DEF TypeOK, Clicks
  <2>3. \A m \in Subs : m # n => pays'[m] = pays[m]
    BY DEF TypeOK
  <2>4. QED
    BY <2>2, <2>3
<1>3. CASE Created(n)
  <2>1. gw'[n].state = "created" /\ ~sandbox
    BY <1>3 DEF Created, TypeOK
  <2>2. \/ pays' = [pays EXCEPT ![n].phase = "modal", ![n].plan = Free]
        \/ Over(n)
    BY <2>1 DEF Subscribed, CreatedSandbox
  <2>3. /\ pays'[n].phase \notin {"none", "asked"} /\ pays'[n].seen = pays[n].seen
        /\ \A m \in Subs : m # n => pays'[m] = pays[m]
    BY <1>2, <2>1, <2>2, OverClicks
  <2>4. QED
    BY <1>1, <1>3, <2>3, CreatedKeeps
<1>4. CASE CreatedSandbox(n)
  <2>1. pays' = [pays EXCEPT ![n].phase = "leaving", ![n].plan = Free]
    BY <1>4 DEF Subscribed, Created, CreatedSandbox
  <2>2. QED
    BY <1>1, <1>2, <1>4, <2>1, SandboxKeeps
<1>5. QED
  BY <1>3, <1>4 DEF Subscribed

\* A step of the gateway that moves one of its subscriptions on.
LEMMA GatewayMoves ==
  ASSUME TypeOK, IInv, NEW n \in Subs, gw[n].state \notin {"none", "ended", "void"},
         NEW x \in {"active", "ending", "ended", "void"},
         gw' = [gw EXCEPT ![n].state = x],
         Paid(n) => x \in {"active", "ending", "ended"},
         row.status = "cancelled" /\ row.sub = n => x # "active",
         UNCHANGED <<sandbox, userPlan, page, pays>>
  PROVE  /\ ClickInv' /\ GatewayInv' /\ PaidPlanHasPayment' /\ PayAsSeen'
         /\ row' = row => RowInv' /\ CancelStopsRenewal'
         /\ \A m \in Subs : m # n => gw'[m] = gw[m]
         /\ gw'[n].state = x /\ gw'[n].plan = gw[n].plan
<1>1. /\ gw'[n].state = x /\ gw'[n].plan = gw[n].plan /\ gw'[n].offer = gw[n].offer
      /\ \A m \in Subs : m # n => gw'[m] = gw[m]
  <2>1. gw'[n] = [gw[n] EXCEPT !.state = x]
    BY DEF TypeOK
  <2>2. gw'[n].state = x /\ gw'[n].plan = gw[n].plan /\ gw'[n].offer = gw[n].offer
    BY <2>1 DEF TypeOK, Subscriptions
  <2>3. \A m \in Subs : m # n => gw'[m] = gw[m]
    BY DEF TypeOK
  <2>4. QED
    BY <2>2, <2>3
<1>2. ClickInv'
  BY <1>1 DEF IInv, ClickInv
<1>3. GatewayInv'
  BY <1>1 DEF IInv, GatewayInv
<1>4. PaidPlanHasPayment'
  BY <1>1 DEF IInv, PaidPlanHasPayment, Paid
<1>5. PayAsSeen'
  BY <1>1 DEF IInv, PayAsSeen
<1>6. ASSUME row' = row PROVE RowInv' /\ CancelStopsRenewal'
  <2>1. row.sub \in Subs \union {NoSub}
    BY DEF TypeOK, Rows
  <2>2. RowInv'
    BY <1>1, <1>6, <2>1 DEF IInv, RowInv
  <2>3. CancelStopsRenewal'
    BY <1>1, <1>6, <2>1 DEF IInv, RowInv, CancelStopsRenewal
  <2>4. QED
    BY <2>2, <2>3
<1>7. QED
  BY <1>1, <1>2, <1>3, <1>4, <1>5, <1>6

LEMMA GatewayKeeps ==
  ASSUME TypeOK, IInv, NEW n \in Subs, GatewayPays(n) \/ GatewayRenews(n) \/ GatewayEnds(n)
  PROVE  IInv'
<1>1. UNCHANGED <<sandbox, row, userPlan, page, pays>>
  BY DEF GatewayPays, GatewayRenews, GatewayEnds, quietGateway, account
<1>2. \A e \in events : e.sub \in Subs
  BY DEF TypeOK, Webhooks
<1>3. PICK k \in {"activated", "charged", "ended"} :
        events' = events \union {Event(k, n)} /\ (GatewayEnds(n) \/ k # "ended")
  BY DEF GatewayPays, GatewayRenews, GatewayEnds, Emits
<1>4. Event(k, n).kind = k /\ Event(k, n).sub = n
  BY DEF Event
<1>5. CASE GatewayPays(n)
  <2>1. gw[n].state = "created" /\ gw' = [gw EXCEPT ![n].state = "active"]
    BY <1>5 DEF GatewayPays
  <2>2. ~(row.status = "cancelled" /\ row.sub = n) /\ ~Paid(n) /\ ~GatewayEnds(n)
    BY <2>1 DEF IInv, CancelStopsRenewal, GatewayInv, Paid, GatewayEnds
  <2>3. /\ ClickInv' /\ GatewayInv' /\ PaidPlanHasPayment' /\ PayAsSeen'
        /\ RowInv' /\ CancelStopsRenewal'
        /\ \A m \in Subs : m # n => gw'[m] = gw[m]
        /\ gw'[n].state = "active"
    BY <1>1, <2>1, <2>2, GatewayMoves
  <2>4. EventInv'
    BY <1>2, <1>3, <1>4, <2>2, <2>3 DEF IInv, EventInv, Paid
  <2>5. QED
    BY <2>3, <2>4 DEF IInv
<1>6. CASE GatewayEnds(n)
  <2>1. gw[n].state \in {"active", "ending"} /\ gw' = [gw EXCEPT ![n].state = "ended"]
    BY <1>6 DEF GatewayEnds
  <2>2. /\ ClickInv' /\ GatewayInv' /\ PaidPlanHasPayment' /\ PayAsSeen'
        /\ RowInv' /\ CancelStopsRenewal'
        /\ \A m \in Subs : m # n => gw'[m] = gw[m]
        /\ gw'[n].state = "ended"
    BY <1>1, <2>1, GatewayMoves
  <2>3. EventInv'
    BY <1>2, <1>3, <1>4, <2>2 DEF IInv, EventInv, Paid
  <2>4. QED
    BY <2>2, <2>3 DEF IInv
<1>7. CASE GatewayRenews(n)
  <2>1. gw[n].state = "active" /\ gw' = gw /\ ~GatewayEnds(n)
    <3>1. gw[n].state = "active" /\ gw' = gw
      BY <1>7 DEF GatewayRenews
    <3>2. ~GatewayEnds(n)
      BY <3>1 DEF GatewayEnds, TypeOK, Subscriptions
    <3>3. QED
      BY <3>1, <3>2
  <2>2. EventInv'
    BY <1>3, <1>4, <2>1 DEF IInv, EventInv, Paid
  <2>3. ClickInv' /\ GatewayInv' /\ RowInv'
    BY <1>1, <2>1 DEF IInv, ClickInv, GatewayInv, RowInv
  <2>4. PaidPlanHasPayment' /\ PayAsSeen' /\ CancelStopsRenewal'
    BY <1>1, <2>1 DEF IInv, PaidPlanHasPayment, PayAsSeen, CancelStopsRenewal
  <2>5. QED
    BY <2>2, <2>3, <2>4 DEF IInv
<1>8. QED
  BY <1>5, <1>6, <1>7

\* The row becomes "cancelled" after its subscription was stopped at the gateway.
LEMMA CancelKeeps == ASSUME TypeOK, IInv, CancelServed PROVE IInv'
<1>1. UNCHANGED <<sandbox, events, page, pays>>
  BY DEF CancelServed
<1>2. CASE UNCHANGED <<gw, account>>
  <2>1. ClickInv' /\ PayAsSeen'
    BY <1>1, <1>2 DEF IInv, ClickInv, PayAsSeen
  <2>2. QED
    BY <1>1, <1>2, <2>1, PagesFrame DEF account
<1>3. CASE Cancelled
  <2>1. /\ row.status \notin {"none", "cancelled"} /\ row.sub \in Subs
        /\ row'.sub = row.sub /\ row'.plan = row.plan /\ row'.status = "cancelled"
        /\ userPlan' = userPlan
    BY <1>3 DEF Cancelled, TypeOK, Rows, IInv, RowInv
  <2>2. CASE sandbox /\ UNCHANGED gw
    <3>1. ClickInv' /\ GatewayInv' /\ EventInv'
      BY <1>1, <2>2 DEF IInv, ClickInv, GatewayInv, EventInv, Paid
    <3>2. RowInv' /\ PayAsSeen'
      BY <1>1, <2>1, <2>2 DEF IInv, RowInv, PayAsSeen
    <3>3. PaidPlanHasPayment' /\ CancelStopsRenewal'
      BY <1>1, <2>2 DEF PaidPlanHasPayment, CancelStopsRenewal
    <3>4. QED
      BY <3>1, <3>2, <3>3 DEF IInv
  <2>3. CASE ~(sandbox /\ UNCHANGED gw)
    <3> DEFINE n == row.sub
    <3>1. PICK x \in {"ending", "void"} :
            /\ gw[n].state \in {"created", "active"}
            /\ gw' = [gw EXCEPT ![n].state = x]
            /\ x = IF gw[n].state = "active" THEN "ending" ELSE "void"
      BY <1>3, <2>1, <2>3 DEF Cancelled, TypeOK
    <3>2. Paid(n) => x = "ending"
      BY <3>1 DEF Paid
    <3>3. /\ ClickInv' /\ GatewayInv' /\ PaidPlanHasPayment' /\ PayAsSeen'
          /\ \A m \in Subs : m # n => gw'[m] = gw[m]
          /\ gw'[n].state = x /\ gw'[n].plan = gw[n].plan
      BY <1>1, <2>1, <3>1, <3>2, GatewayMoves
    <3>4. EventInv'
      <4>1. \A e \in events : e.sub \in Subs /\ (e.sub = n => x = "ending" /\ e.kind # "ended")
        BY <3>1, <3>2 DEF IInv, EventInv, TypeOK, Webhooks
      <4>2. QED
        BY <1>1, <3>3, <4>1 DEF IInv, EventInv, Paid
    <3>5. RowInv' /\ CancelStopsRenewal'
      BY <1>1, <2>1, <3>3 DEF IInv, RowInv, CancelStopsRenewal
    <3>6. QED
      BY <3>3, <3>4, <3>5 DEF IInv
  <2>4. QED
    BY <2>2, <2>3
<1>4. QED
  BY <1>2, <1>3 DEF CancelServed

\* A webhook, first or again, early or late: it speaks of what the gateway has done.
LEMMA DeliverKeeps == ASSUME TypeOK, IInv, NEW e \in events, Deliver(e) PROVE IInv'
<1> DEFINE n == e.sub
<1>1. UNCHANGED <<sandbox, gw, page, pays>> /\ events' \subseteq events
  BY DEF Deliver
<1>2. /\ n \in Subs /\ n # NoSub /\ Paid(n) /\ gw[n].plan # Free /\ ~sandbox
      /\ e.kind = "ended" => gw[n].state = "ended"
  BY DEF TypeOK, Webhooks, IInv, EventInv, GatewayInv, Paid, Subs, NoSub
<1>3. ClickInv' /\ GatewayInv' /\ EventInv' /\ PayAsSeen'
  BY <1>1 DEF IInv, ClickInv, GatewayInv, EventInv, Paid, PayAsSeen
<1>4. RowInv' /\ PaidPlanHasPayment' /\ CancelStopsRenewal'
  <2>1. CASE Activated(n)
    <3>1. /\ row'.sub = n /\ row'.plan = gw[n].plan /\ row'.status = "active"
          /\ userPlan' = gw[n].plan
      BY <2>1 DEF Activated
    <3>2. QED
      BY <1>1, <1>2, <3>1 DEF RowInv, PaidPlanHasPayment, CancelStopsRenewal, Paid
  <2>2. CASE Charged(n)
    <3>1. row' = row /\ (userPlan' = userPlan \/ (row.sub = n /\ userPlan' = row.plan))
      BY <2>2 DEF Charged
    <3>2. row.sub = n => row.plan = gw[n].plan
      BY <1>2 DEF IInv, RowInv
    <3>3. PaidPlanHasPayment'
      BY <1>1, <1>2, <3>1, <3>2 DEF IInv, PaidPlanHasPayment, Paid
    <3>4. RowInv' /\ CancelStopsRenewal'
      BY <1>1, <3>1 DEF IInv, RowInv, CancelStopsRenewal
    <3>5. QED
      BY <3>3, <3>4
  <2>3. CASE row.sub = n /\ e.kind = "ended" /\ Ended(n)
    <3>1. /\ row'.sub = n /\ row'.plan = row.plan /\ row'.status = "cancelled" /\ userPlan' = Free
      BY <2>3 DEF Ended, TypeOK, Rows
    <3>2. QED
      BY <1>1, <1>2, <2>3, <3>1 DEF IInv, RowInv, PaidPlanHasPayment, CancelStopsRenewal
  <2>4. CASE UNCHANGED account
    BY <1>1, <2>4 DEF IInv, RowInv, PaidPlanHasPayment, CancelStopsRenewal, account
  <2>5. QED
    BY <2>1, <2>2, <2>3, <2>4 DEF Deliver, Ended
<1>5. QED
  BY <1>3, <1>4 DEF IInv

LEMMA IInvNext == TypeOK /\ IInv /\ [Next]_vars => IInv'
<1> SUFFICES ASSUME TypeOK, IInv, [Next]_vars PROVE IInv'
  OBVIOUS
<1>1. CASE CheckoutStep
  BY <1>1, CheckoutAssumption, OpenKeeps, ScreenKeeps, ClickKeeps, SubscribedKeeps, PayEndsKeeps,
     RedirectKeeps DEF CheckoutStep
<1>2. CASE BillingStep
  BY <1>2, ScreenKeeps, CancelKeeps DEF BillingStep
<1>3. CASE PromoWithdrawn \/ (\E e \in events : DeliveryLost(e)) \/ UNCHANGED vars
  <2>1. UNCHANGED <<sandbox, gw, row, userPlan, page, pays>> /\ events' \subseteq events
    BY <1>3 DEF PromoWithdrawn, DeliveryLost, vars, gateway, account
  <2>2. ClickInv' /\ GatewayInv' /\ EventInv' /\ RowInv'
    BY <2>1 DEF IInv, ClickInv, GatewayInv, EventInv, Paid, RowInv
  <2>3. PaidPlanHasPayment' /\ PayAsSeen' /\ CancelStopsRenewal'
    BY <2>1 DEF IInv, PaidPlanHasPayment, PayAsSeen, CancelStopsRenewal
  <2>4. QED
    BY <2>2, <2>3 DEF IInv
<1>4. QED
  BY <1>1, <1>2, <1>3, GatewayKeeps, DeliverKeeps DEF Next, GatewayStep

LEMMA IInvAlways == Spec => [](TypeOK /\ IInv)
  BY TypesInit, TypesNext, IInvInit, IInvNext, PTL DEF Spec

-----------------------------------------------------------------------------
(* The properties.                                                         *)

\* Whatever is clicked, dismissed, paid late or delivered again, a paid plan is that of a
\* subscription the gateway has activated (create_subscription, the webhook handlers).
THEOREM PlansArePaid == Spec => []PaidPlanHasPayment
  BY IInvAlways, PTL DEF IInv

\* The gateway charges what Pay showed when it was clicked (handleCheckout,
\* create_subscription's promo).
THEOREM ChargedAsSeen == Spec => []PayAsSeen
  BY IInvAlways, PTL DEF IInv

\* A row reads cancelled only when its subscription no longer renews (cancel_subscription
\* asks the gateway first).
THEOREM CancelledIsStopped == Spec => []CancelStopsRenewal
  BY IInvAlways, PTL DEF IInv

\* One step: the plan is taken by the webhook of an ended subscription alone.
LEMMA PlanTakenAtEnd ==
  ASSUME TypeOK, IInv, [Next]_vars, userPlan # Free, userPlan' = Free
  PROVE  ~sandbox /\ gw[row.sub].state = "ended"
<1>1. CASE CheckoutStep
  <2>1. PICK n \in Subs : CreatedSandbox(n)
    BY <1>1 DEF CheckoutStep, Open, handleApplyPromo, RemovePromo, handleCheckout, Subscribed,
       Created, PayEnds, PaymentFailed, Redirect, quiet, account
  <2>2. QED
    BY <2>1 DEF IInv, ClickInv, CreatedSandbox
<1>2. CASE BillingStep
  BY <1>2 DEF BillingStep, StatusRead, AskCancel, handleCancel, CancelServed, Cancelled, quiet,
     account
<1>3. ASSUME NEW e \in events, Deliver(e) PROVE ~sandbox /\ gw[row.sub].state = "ended"
  <2>1. /\ e.sub \in Subs /\ Paid(e.sub) /\ gw[e.sub].plan # Free /\ ~sandbox
        /\ e.kind = "ended" => gw[e.sub].state = "ended"
    BY DEF TypeOK, Webhooks, IInv, EventInv, GatewayInv, Paid
  <2>2. row.sub = e.sub => row.plan # Free
    BY <2>1 DEF IInv, RowInv, Subs, NoSub
  <2>3. QED
    BY <1>3, <2>1, <2>2 DEF Deliver, Activated, Charged, Ended, account
<1>4. CASE UNCHANGED userPlan
  BY <1>4
<1>5. QED
  BY <1>1, <1>2, <1>3, <1>4 DEF Next, GatewayStep, GatewayPays, GatewayRenews, GatewayEnds,
     PromoWithdrawn, DeliveryLost, quietGateway, account, vars

\* Nobody loses a plan before the gateway has ended its subscription: neither
\* cancelling nor buying again nor a late webhook takes it ("You keep access until the end
\* of the current billing period").
THEOREM AccessIsKept == Spec => KeepAccess
<1>1. TypeOK /\ IInv /\ [Next]_vars =>
        [userPlan # Free /\ userPlan' = Free => ~sandbox /\ gw[row.sub].state = "ended"]_vars
  BY PlanTakenAtEnd
<1>2. QED
  BY <1>1, IInvAlways, PTL DEF Spec, KeepAccess
=============================================================================
