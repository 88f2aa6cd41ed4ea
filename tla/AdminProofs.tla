---------------------------- MODULE AdminProofs ----------------------------
EXTENDS AdminProperties, TLAPS

-----------------------------------------------------------------------------
(* The tables: what each page offers, and what the server does about it.   *)

\* No route moves a row out of the states S.
Within(S, routes) ==
    \A a \in DOMAIN routes : \A x \in DOMAIN routes[a].moves : routes[a].moves[x] \in S

\* Whoever may use one permission may use the other.
Covers(gate, perm) ==
    \A r \in AdminRoles : gate \in PERMISSIONS[r] => perm \in PERMISSIONS[r]

\* The server does what button a asks for, in the states and with the permission and the
\* reason with which it is offered, but for what the page overlooks; a button that only
\* reads moves nothing.
Agreed(a, b, r) ==
    /\ Covers(b.gate, r.perm)
    /\ \A x \in b.on : x \in r.takes \/ <<a, x>> \in Overlooked
    /\ r.reason => b.reason
    /\ b.reason => b.how \in {"dialog", "prompt"}
    /\ b.how = "read" => DOMAIN r.moves = {}

\* Every button of a page has its route, and they agree.
Agree(buttons, routes) ==
    \A a \in DOMAIN buttons : a \in DOMAIN routes /\ Agreed(a, buttons[a], routes[a])

LEMMA EachWithin ==
    ASSUME NEW S, NEW names, NEW perm, NEW takes, NEW from, NEW to \in S, NEW reason
    PROVE  Within(S, Each(names, Route(perm, takes, To(from, to), reason)))
BY DEF Within, Each, Route, To

LEMMA EachStays ==
    ASSUME NEW S, NEW names, NEW perm, NEW takes, NEW reason
    PROVE  Within(S, Each(names, Route(perm, takes, Stays, reason)))
BY DEF Within, Each, Route, To, Stays

LEMMA JoinWithin ==
    ASSUME NEW S, NEW f, NEW g, Within(S, f), Within(S, g)
    PROVE  Within(S, f @@ g)
BY DEF Within, @@

LEMMA JoinAgree ==
    ASSUME NEW b, NEW c, NEW routes, Agree(b, routes), Agree(c, routes)
    PROVE  Agree(b @@ c, routes)
BY DEF Agree, @@

LEMMA SameCovers == ASSUME NEW perm PROVE Covers(perm, perm)
BY DEF Covers

LEMMA JobsTable == Agree(jobsButtons, jobRoutes) /\ Within(JobStates, jobRoutes)
BY SameCovers DEF Agree, Within, Agreed, jobsButtons, jobRoutes, Btn, Route, To, JobStates, TERMINAL

LEMMA SubscriptionAgree == Agree(subscriptionButtons, subscriptionRoutes)
BY SameCovers DEF Agree, Agreed, subscriptionButtons, subscriptionRoutes, @@, Each, Btn, Route, To,
   Stays, SubscriptionStates

LEMMA SubscriptionWithin == Within(SubscriptionStates, subscriptionRoutes)
BY DEF Within, subscriptionRoutes, @@, Each, Route, To, Stays, SubscriptionStates

LEMMA ProjectAgree == Agree(projectButtons, projectRoutes)
BY SameCovers DEF Agree, Agreed, projectButtons, projectRoutes, @@, Each, Btn, Route, To, Stays,
   ProjectStates

LEMMA ProjectWithin == Within(ProjectStates, projectRoutes)
BY DEF Within, projectRoutes, @@, Each, Route, To, Stays, ProjectStates

LEMMA PaymentAgree == Agree(paymentButtons, paymentRoutes)
BY SameCovers DEF Agree, Agreed, paymentButtons, paymentRoutes, @@, Each, Btn, Route, To, Stays,
   PaymentStates, Overlooked, Refunds

LEMMA PaymentWithin == Within(PaymentStates, paymentRoutes)
BY DEF Within, paymentRoutes, @@, Each, Route, To, Stays, PaymentStates

LEMMA StorageAgree == Agree(storageButtons, storageRoutes)
BY SameCovers DEF Agree, Agreed, storageButtons, storageRoutes, @@, Each, Btn, Route, To, Stays,
   StorageStates, Overlooked

LEMMA StorageWithin == Within(StorageStates, storageRoutes)
BY DEF Within, storageRoutes, @@, Each, Route, To, Stays, StorageStates

LEMMA IncidentAgree == Agree(incidentButtons, incidentRoutes)
BY SameCovers DEF Agree, Agreed, incidentButtons, incidentRoutes, @@, Each, Btn, Route, To, Stays,
   IncidentStates

LEMMA IncidentWithin == Within(IncidentStates, incidentRoutes)
BY DEF Within, incidentRoutes, @@, Each, Route, To, Stays, IncidentStates

LEMMA FlagAgree == Agree(flagButtons, flagRoutes)
BY SameCovers DEF Agree, Agreed, flagButtons, flagRoutes, @@, Each, Btn, Route, To, Stays, FlagStates

LEMMA FlagWithin == Within(FlagStates, flagRoutes)
BY DEF Within, flagRoutes, @@, Each, Route, To, Stays, FlagStates

LEMMA PresetAgree == Agree(presetButtons, presetRoutes)
BY SameCovers DEF Agree, Agreed, presetButtons, presetRoutes, @@, Each, Btn, Route, To, Stays,
   PresetStates

LEMMA PresetWithin == Within(PresetStates, presetRoutes)
BY DEF Within, presetRoutes, @@, Each, Route, To, Stays, PresetStates

LEMMA PromoAgree == Agree(promoButtons, promoRoutes)
BY SameCovers DEF Agree, Agreed, promoButtons, promoRoutes, @@, Each, Btn, Route, To, Stays, PromoStates

LEMMA PromoWithin == Within(PromoStates, promoRoutes)
BY DEF Within, promoRoutes, @@, Each, Route, To, Stays, PromoStates

LEMMA PlanAgree == Agree(planButtons, planRoutes)
BY SameCovers DEF Agree, Agreed, planButtons, planRoutes, @@, Each, Btn, Route, To, Stays, PlanStates

LEMMA PlanWithin == Within(PlanStates, planRoutes)
BY DEF Within, planRoutes, @@, Each, Route, To, Stays, PlanStates

LEMMA AbuseAgree == Agree(abuseButtons, abuseRoutes)
BY SameCovers DEF Agree, Agreed, abuseButtons, abuseRoutes, @@, Each, Btn, Route, To, Stays, AbuseStates

LEMMA AbuseWithin == Within(AbuseStates, abuseRoutes)
BY DEF Within, abuseRoutes, @@, Each, Route, To, Stays, AbuseStates

LEMMA ModelAgree == Agree(modelButtons, modelRoutes)
BY SameCovers DEF Agree, Agreed, modelButtons, modelRoutes, @@, Each, Btn, Route, To, Stays, ModelStates

LEMMA ModelWithin == Within(ModelStates, modelRoutes)
BY DEF Within, modelRoutes, @@, Each, Route, To, Stays, ModelStates

LEMMA AdministratorAgree == Agree(administratorButtons, administratorRoutes)
BY SameCovers DEF Agree, Agreed, administratorButtons, administratorRoutes, @@, Each, Btn, Route, To,
   Stays, AdminStates

LEMMA AdministratorWithin == Within(AdminStates, administratorRoutes)
BY DEF Within, administratorRoutes, @@, Each, Route, To, Stays, AdminStates

LEMMA TabCovers ==
    \A gate \in {"audit.view", "billing.view", "users.view"} : Covers(gate, "users.view")
<1>1. AdminRoles = {"super_admin", "operations", "support", "billing", "compliance", "analyst"}
    BY DEF AdminRoles, PERMISSIONS
<1>2. "users.view" \in VIEW /\ VIEW \subseteq ALL /\ VIEW # {"users.view"}
    BY DEF VIEW, ALL
<1>3. "users.view" \in PERMISSIONS["super_admin"] /\ "users.view" \in PERMISSIONS["analyst"]
      /\ "users.view" \in PERMISSIONS["operations"]
    BY <1>2 DEF PERMISSIONS
<1>4. "users.view" \in PERMISSIONS["support"] /\ "users.view" \in PERMISSIONS["billing"]
      /\ "users.view" \in PERMISSIONS["compliance"]
    BY DEF PERMISSIONS
<1> QED BY <1>1, <1>3, <1>4 DEF Covers


\* A route that asks no more than the permission and the reason, and refuses nothing.
Takes(routes, a, perm, S, reason) ==
    /\ a \in DOMAIN routes
    /\ routes[a].perm = perm /\ routes[a].takes = S /\ routes[a].reason = reason

LEMMA ReportAgree == Agree(reportButtons, reportRoutes)
<1>1. \A a \in {"mark_safe", "request_information", "restrict_processing", "disable_downloads",
          "escalate", "close", "set_severity"} :
          Takes(reportRoutes, a, "abuse.manage", ReportStates, FALSE)
    BY DEF Takes, reportRoutes, @@, Each, Route
<1>2. \A a \in {"add_note", "place_legal_hold", "remove_legal_hold", "suspend_account", "ban_account"} :
          Takes(reportRoutes, a, "abuse.manage", ReportStates, TRUE)
    BY DEF Takes, reportRoutes, @@, Each, Route
<1> DEFINE B(how, reason) == Btn("abuse.manage", ReportStates, how, reason)
<1>3. Agree(Each({"mark_safe", "request_information", "restrict_processing", "disable_downloads",
                  "escalate", "close"}, B("dialog", FALSE)), reportRoutes)
    BY <1>1, SameCovers DEF Agree, Agreed, Takes, Each, Btn
<1>4. Agree(Each({"add_note", "place_legal_hold", "remove_legal_hold", "suspend_account",
                  "ban_account"}, B("dialog", TRUE)), reportRoutes)
    BY <1>2, SameCovers DEF Agree, Agreed, Takes, Each, Btn
<1>5. Agree(Each({"set_severity"}, B("direct", FALSE)), reportRoutes)
    BY <1>1, SameCovers DEF Agree, Agreed, Takes, Each, Btn
<1> QED BY <1>3, <1>4, <1>5, JoinAgree DEF reportButtons

LEMMA TabsAgree == Agree(TABS, userRoutes)
<1>1. DOMAIN TABS = {"profile", "billing", "credits", "projects", "jobs", "activity", "notes"}
    BY DEF TABS, @@, Each
<1>2. /\ DOMAIN TABS \subseteq DOMAIN userRoutes
      /\ \A a \in DOMAIN TABS : userRoutes[a] = tabRoutes[a]
    BY <1>1 DEF userRoutes, tabRoutes, @@, Each
<1>3. /\ \A a \in DOMAIN TABS \ {"notes"} : tabRoutes[a] = Route("users.view", UserStates, Stays, FALSE)
      /\ tabRoutes["notes"] = Route("notes.view", UserStates, Stays, FALSE)
    BY <1>1 DEF tabRoutes, @@, Each
<1>4. /\ TABS["profile"] = Btn("users.view", UserStates, "read", FALSE)
      /\ TABS["credits"] = Btn("users.view", UserStates, "read", FALSE)
      /\ TABS["projects"] = Btn("users.view", UserStates, "read", FALSE)
      /\ TABS["jobs"] = Btn("users.view", UserStates, "read", FALSE)
      /\ TABS["billing"] = Btn("billing.view", UserStates, "read", FALSE)
      /\ TABS["activity"] = Btn("audit.view", UserStates, "read", FALSE)
      /\ TABS["notes"] = Btn("notes.view", UserStates, "read", FALSE)
    BY DEF TABS, @@, Each
<1>5. ASSUME NEW a, NEW perm, NEW gate, Covers(gate, perm)
      PROVE  Agreed(a, Btn(gate, UserStates, "read", FALSE), Route(perm, UserStates, Stays, FALSE))
    BY <1>5 DEF Agreed, Btn, Route, Stays, To
<1>6. ASSUME NEW a \in DOMAIN TABS PROVE Agreed(a, TABS[a], tabRoutes[a])
    <2>1. CASE a = "notes"
        BY <1>1, <1>3, <1>4, <1>5, <2>1, SameCovers
    <2>2. CASE a = "billing"
        BY <1>1, <1>3, <1>4, <1>5, <2>2, TabCovers
    <2>3. CASE a = "activity"
        BY <1>1, <1>3, <1>4, <1>5, <2>3, TabCovers
    <2>4. CASE a \in {"profile", "credits", "projects", "jobs"}
        BY <1>1, <1>3, <1>4, <1>5, <2>4, TabCovers
    <2> QED BY <1>1, <2>1, <2>2, <2>3, <2>4
<1> QED BY <1>2, <1>6 DEF Agree

LEMMA UserAgree == Agree(userButtons, userRoutes)
<1>0. DOMAIN tabRoutes = {"profile", "billing", "credits", "projects", "jobs", "activity", "notes"}
    BY DEF tabRoutes, TABS, @@, Each
<1>1. \A a \in {"verify_email", "resend_verification", "force_password_reset", "revoke_sessions"} :
          Takes(userRoutes, a, "users.support", UserStates, FALSE)
    <2>1. Takes(userRoutes, "verify_email", "users.support", UserStates, FALSE)
        BY <1>0 DEF Takes, userRoutes, @@, Each, Route
    <2>2. Takes(userRoutes, "resend_verification", "users.support", UserStates, FALSE)
        BY <1>0 DEF Takes, userRoutes, @@, Each, Route
    <2>3. Takes(userRoutes, "force_password_reset", "users.support", UserStates, FALSE)
        BY <1>0 DEF Takes, userRoutes, @@, Each, Route
    <2>4. Takes(userRoutes, "revoke_sessions", "users.support", UserStates, FALSE)
        BY <1>0 DEF Takes, userRoutes, @@, Each, Route
    <2> QED BY <2>1, <2>2, <2>3, <2>4
<1>2. \A a \in {"credit", "debit"} : Takes(userRoutes, a, "users.credits", UserStates, TRUE)
    BY <1>0 DEF Takes, userRoutes, @@, Each, Route
<1>3. /\ Takes(userRoutes, "change_plan", "users.plan", UserStates, FALSE)
      /\ Takes(userRoutes, "change_role", "users.role", UserStates, FALSE)
      /\ Takes(userRoutes, "suspend", "users.manage", UserStates, FALSE)
      /\ Takes(userRoutes, "restore", "users.manage", UserStates, FALSE)
      /\ Takes(userRoutes, "delete_account", "users.delete", UserStates, FALSE)
    BY <1>0 DEF Takes, userRoutes, @@, Each, Route
<1>4. {"unverified"} \subseteq UserStates
    BY DEF UserStates
<1>5. Agree([change_plan |-> Btn("users.plan", UserStates, "dialog", FALSE),
        change_role |-> Btn("users.role", UserStates, "dialog", FALSE),
        suspend |-> Btn("users.manage", {"unverified", "active"}, "dialog", TRUE),
        restore |-> Btn("users.manage", {"suspended"}, "dialog", FALSE),
        delete_account |-> Btn("users.delete", UserStates \ {"deleted"}, "dialog", TRUE)], userRoutes)
    BY <1>3, SameCovers DEF Agree, Agreed, Takes, Btn, UserStates
<1>6. Agree(Each({"verify_email", "resend_verification"},
                 Btn("users.support", {"unverified"}, "dialog", FALSE)), userRoutes)
    BY <1>1, <1>4, SameCovers DEF Agree, Agreed, Takes, Each, Btn
<1>7. Agree(Each({"force_password_reset", "revoke_sessions"},
                 Btn("users.support", UserStates, "dialog", FALSE)), userRoutes)
    BY <1>1, SameCovers DEF Agree, Agreed, Takes, Each, Btn
<1>8. Agree(Each({"credit", "debit"}, Btn("users.credits", UserStates, "dialog", TRUE)), userRoutes)
    BY <1>2, SameCovers DEF Agree, Agreed, Takes, Each, Btn
<1> QED BY <1>5, <1>6, <1>7, <1>8, TabsAgree, JoinAgree DEF userButtons
LEMMA ReportWithin == Within(ReportStates, reportRoutes)
<1> DEFINE R(to, reason) == Route("abuse.manage", ReportStates, To(ReportStates, to), reason)
<1>1. Within(ReportStates, Each({"mark_safe", "close"}, R("resolved", FALSE)))
    BY EachWithin DEF ReportStates
<1>2. Within(ReportStates, Each({"restrict_processing", "disable_downloads"},
                             R("action_required", FALSE)))
    BY EachWithin DEF ReportStates
<1>3. Within(ReportStates, Each({"suspend_account", "ban_account"}, R("action_required", TRUE)))
    BY EachWithin DEF ReportStates
<1>4. Within(ReportStates,
        [escalate |-> R("escalated", FALSE),
         request_information |-> R("waiting_for_information", FALSE),
         place_legal_hold |-> R("legal_hold", TRUE),
         remove_legal_hold |-> Route("abuse.manage", ReportStates, Stays, TRUE),
         add_note |-> Route("abuse.manage", ReportStates, Stays, TRUE),
         set_severity |-> Route("abuse.manage", ReportStates, Stays, FALSE)])
    BY DEF Within, Route, To, Stays, ReportStates
<1> QED BY <1>1, <1>2, <1>3, <1>4, JoinWithin DEF reportRoutes

LEMMA UserWithin == Within(UserStates, userRoutes)
<1> DEFINE R(perm, from, to) == Route(perm, UserStates, To(from, to), FALSE)
           S(perm, reason) == Route(perm, UserStates, Stays, reason)
<1>1. Within(UserStates, Each(DOMAIN TABS \ {"notes"}, S("users.view", FALSE)))
    BY EachStays
<1>2. Within(UserStates, [notes |-> S("notes.view", FALSE)])
    BY DEF Within, Route, To, Stays
<1>3. Within(UserStates, [verify_email |-> R("users.support", {"unverified"}, "active")])
    BY DEF Within, Route, To, UserStates
<1>4. Within(UserStates, Each({"resend_verification", "force_password_reset", "revoke_sessions"},
                              S("users.support", FALSE)))
    BY EachStays
<1>5. Within(UserStates, Each({"credit", "debit"}, S("users.credits", TRUE)))
    BY EachStays
<1>6. Within(UserStates,
        [change_plan |-> S("users.plan", FALSE), change_role |-> S("users.role", FALSE),
         suspend |-> R("users.manage", UserStates, "suspended"),
         restore |-> R("users.manage", {"suspended", "deleted"}, "active"),
         delete_account |-> R("users.delete", UserStates, "deleted")])
    BY DEF Within, Route, To, Stays, UserStates
<1>7. Within(UserStates, tabRoutes)
    BY <1>1, <1>2, JoinWithin DEF tabRoutes
<1> QED BY <1>3, <1>4, <1>5, <1>6, <1>7, JoinWithin DEF userRoutes

\* What holds of every page with a row.
Sound(p) ==
    /\ Agree(Buttons[p], Routes[p])
    /\ Within(Rows[p], Routes[p])
    /\ "none" \notin Rows[p] /\ "asked" \notin Rows[p]
    /\ p \in DOMAIN Moves => \A m \in Moves[p] : m[2] \in Rows[p]

LEMMA MovesWithin == ASSUME NEW p \in DOMAIN Moves PROVE \A m \in Moves[p] : m[2] \in Rows[p]
BY DEF Moves, Rows, UserStates, JobStates, SubscriptionStates, StorageStates

LEMMA NoneIsNoState == ASSUME NEW p \in DOMAIN Rows PROVE "none" \notin Rows[p] /\ "asked" \notin Rows[p]
BY DEF Rows, UserStates, SubscriptionStates, ProjectStates, JobStates, PaymentStates, ReportStates,
   StorageStates, IncidentStates, FlagStates, PresetStates, PromoStates, PlanStates, AbuseStates,
   ModelStates, AdminStates

LEMMA PageAgree == ASSUME NEW p \in DOMAIN Rows PROVE Agree(Buttons[p], Routes[p])
BY JobsTable, SubscriptionAgree, ProjectAgree, PaymentAgree, StorageAgree, IncidentAgree, FlagAgree,
   PresetAgree, PromoAgree, PlanAgree, AbuseAgree, ModelAgree, AdministratorAgree, ReportAgree, UserAgree
   DEF Rows, Buttons, Routes, jobButtons

LEMMA PageWithin == ASSUME NEW p \in DOMAIN Rows PROVE Within(Rows[p], Routes[p])
BY JobsTable, SubscriptionWithin, ProjectWithin, PaymentWithin, StorageWithin, IncidentWithin, FlagWithin,
   PresetWithin, PromoWithin, PlanWithin, AbuseWithin, ModelWithin, AdministratorWithin,
             ReportWithin, UserWithin
   DEF Rows, Routes

LEMMA EveryPageSound == ASSUME NEW p \in DOMAIN Rows PROVE Sound(p)
BY MovesWithin, NoneIsNoState, PageAgree, PageWithin DEF Sound


-----------------------------------------------------------------------------
(* A page with a row.                                                      *)

Dialogs == [act : Acts \union {"none"}, seen : Rows[page] \union {"none"},
            text : {"none", "mine", "other"}, busy : BOOLEAN]
CallRecords == [phase : InFlight \union {"none", "over"},
          act : Acts \union {"none"}, seen : Rows[page] \union {"none"},
          why : {"none", "mine", "other"}]

RowOK ==
    /\ page \in Pages /\ me \in AdminRoles \union {NoRole} /\ role \in AdminRoles \union {NoRole}
    /\ st \in Rows[page] /\ shown \in Rows[page] \union {"none"}
    /\ fetch \in Rows[page] \union {"none", "asked"}
    /\ dialog \in Dialogs /\ calls \in [Slots -> CallRecords]
    /\ changes \in 0..MaxChanges[page] /\ excused \in BOOLEAN /\ dismissed \in BOOLEAN

\* Action a was offered to this administrator on a row in state x.
WasOffered(a, x) ==
    /\ a \in Acts /\ x \in Button(a).on /\ hasPermission(Staff(me), Button(a).gate)

\* The dialog is open on an action that was offered; no text of another action is in it
\* unless one was dismissed with a text.
DialogOK ==
    /\ dialog.act # "none" => WasOffered(dialog.act, dialog.seen)
    /\ ~dismissed => dialog.text # "other" /\ (dialog.act = "none" => dialog.text = "none")

\* A call under way was offered, and carries the reason its button asks for.
CallsOK ==
    \A i \in Pending :
        /\ WasOffered(calls[i].act, calls[i].seen)
        /\ Button(calls[i].act).reason => calls[i].why # "none" /\ (~dismissed => calls[i].why = "mine")

\* Calls the row has been changed for, and whose answers ask for the row again.
Unheard == {i \in Slots : calls[i].phase = "done" /\ ~Reads(i)}

\* What has been read is the row, unless it will be asked for again.
FreshOK ==
    ~excused /\ fetch # "asked" /\ Unheard = {} =>
        IF fetch = "none" THEN shown # "none" => shown = st ELSE fetch = st

RowInv == RowOK /\ DialogOK /\ CallsOK /\ FreshOK

LEMMA PageSound == ASSUME RowInv PROVE page \in DOMAIN Rows /\ Sound(page)
BY PanelAssumption, EveryPageSound DEF RowInv, RowOK

LEMMA RowStart == ASSUME RowInit PROVE RowInv
<1>1. page \in DOMAIN Rows /\ Sound(page)
    BY PanelAssumption, EveryPageSound DEF RowInit
<1>2. MaxChanges[page] \in Nat
    BY PanelAssumption DEF RowInit
<1>3. RowOK
    <2>1. dialog \in Dialogs
        BY DEF RowInit, Closed, Dialogs
    <2>2. calls \in [Slots -> CallRecords]
        BY DEF RowInit, NoCall, CallRecords
    <2>3. me \in AdminRoles \union {NoRole} /\ role \in AdminRoles \union {NoRole}
        BY DEF RowInit
    <2>4. shown = "none" /\ fetch = "asked" /\ changes \in 0..MaxChanges[page]
        BY <1>2 DEF RowInit
    <2>5. page \in Pages /\ st \in Rows[page] /\ excused \in BOOLEAN /\ dismissed \in BOOLEAN
        BY DEF RowInit
    <2> QED BY <2>1, <2>2, <2>3, <2>4, <2>5 DEF RowOK
<1>4. DialogOK /\ FreshOK
    BY DEF RowInit, DialogOK, FreshOK, Closed
<1>5. Pending = {}
    BY DEF RowInit, Pending, InFlight, NoCall
<1> QED BY <1>3, <1>4, <1>5 DEF RowInv, CallsOK

LEMMA RowPoll == ASSUME RowInv, Poll \/ Revisit PROVE RowInv'
<1>1. RowOK'
    <2>1. Closed \in Dialogs
        BY DEF Closed, Dialogs
    <2>2. dialog' \in Dialogs /\ Dialogs' = Dialogs /\ CallRecords' = CallRecords /\ Slots' = Slots
        BY <2>1 DEF RowInv, RowOK, Poll, Revisit, Dialogs, CallRecords, Slots, Acts
    <2> QED BY <2>2 DEF RowInv, RowOK, Poll, Revisit
<1>2. DialogOK'
    BY DEF RowInv, DialogOK, Poll, Revisit, Closed, WasOffered, Acts, Button
<1>3. CallsOK'
    BY DEF RowInv, CallsOK, Poll, Revisit, Pending, Slots, WasOffered, Acts, Button
<1>4. FreshOK'
    BY DEF FreshOK, Poll, Revisit
<1> QED BY <1>1, <1>2, <1>3, <1>4 DEF RowInv

LEMMA RowFetchServed == ASSUME RowInv, FetchServed PROVE RowInv'
<1>1. RowOK'
    BY DEF RowInv, RowOK, FetchServed, Dialogs, CallRecords, Slots, Acts
<1>2. DialogOK'
    BY DEF RowInv, DialogOK, FetchServed, WasOffered, Acts, Button
<1>3. CallsOK'
    BY DEF RowInv, CallsOK, FetchServed, Pending, Slots, WasOffered, Acts, Button
<1>4. st # "none"
    BY PageSound DEF RowInv, RowOK, Sound
<1>5. FreshOK'
    BY <1>4 DEF FreshOK, FetchServed
<1> QED BY <1>1, <1>2, <1>3, <1>5 DEF RowInv

LEMMA RowFetchShown == ASSUME RowInv, FetchShown PROVE RowInv'
<1>1. RowOK'
    BY DEF RowInv, RowOK, FetchShown, Dialogs, CallRecords, Slots, Acts
<1>2. DialogOK'
    BY DEF RowInv, DialogOK, FetchShown, WasOffered, Acts, Button
<1>3. CallsOK'
    BY DEF RowInv, CallsOK, FetchShown, Pending, Slots, WasOffered, Acts, Button
<1>4. FreshOK'
    BY DEF RowInv, FreshOK, FetchShown, Unheard, Slots, Reads, Button
<1> QED BY <1>1, <1>2, <1>3, <1>4 DEF RowInv

LEMMA RowFetchFails == ASSUME RowInv, FetchFails PROVE RowInv'
<1>1. RowOK'
    BY DEF RowInv, RowOK, FetchFails, Dialogs, CallRecords, Slots, Acts
<1>2. DialogOK'
    BY DEF RowInv, RowOK, Dialogs, DialogOK, FetchFails, WasOffered, Acts, Button
<1>3. CallsOK'
    BY DEF RowInv, CallsOK, FetchFails, Pending, Slots, WasOffered, Acts, Button
<1>4. FreshOK'
    BY DEF FreshOK, FetchFails
<1> QED BY <1>1, <1>2, <1>3, <1>4 DEF RowInv

LEMMA RowAsk == ASSUME RowInv, NEW a \in Acts, Ask(a) PROVE RowInv'
<1>1. RowOK'
    BY DEF RowInv, RowOK, Ask, Offered, Dialogs, CallRecords, Slots, Acts
<1>2. DialogOK'
    BY DEF RowInv, RowOK, Dialogs, DialogOK, Ask, Offered, WasOffered, Acts, Button
<1>3. CallsOK'
    BY DEF RowInv, CallsOK, Ask, Pending, Slots, WasOffered, Acts, Button
<1>4. FreshOK'
    BY DEF RowInv, FreshOK, Ask, Unheard, Slots, Reads, Button
<1> QED BY <1>1, <1>2, <1>3, <1>4 DEF RowInv

\* One more call is sent.
LEMMA Sends ==
    ASSUME RowInv, NEW a, NEW x, NEW why \in {"none", "mine", "other"}, Send(a, x, why),
           WasOffered(a, x), x \in Rows[page] \union {"none"},
           Button(a).reason => why # "none" /\ (~dismissed => why = "mine"),
           UNCHANGED <<page, me, dismissed>>
    PROVE  calls' \in [Slots -> CallRecords] /\ CallsOK' /\ Unheard' = Unheard
<1>1. PICK i \in Unused : calls' = [calls EXCEPT ![i] = [phase |-> "sent", act |-> a, seen |-> x,
                                                 why |-> why]]
    BY DEF Send
<1>2. i \in Slots /\ Slots' = Slots /\ calls[i].phase = "none"
    BY DEF Unused, Slots
<1>3. calls' \in [Slots -> CallRecords]
    BY <1>1, <1>2 DEF RowInv, RowOK, CallRecords, InFlight, WasOffered
<1>4. calls'[i] = [phase |-> "sent", act |-> a, seen |-> x, why |-> why]
          /\ \A j \in Slots \ {i} : calls'[j] = calls[j]
    BY <1>1, <1>2 DEF RowInv, RowOK
<1>5. CallsOK'
    BY <1>2, <1>4 DEF RowInv, CallsOK, Pending, WasOffered, Acts, Button
<1>6. Unheard' = Unheard
    BY <1>2, <1>4 DEF Unheard, Reads, Button
<1> QED BY <1>3, <1>5, <1>6

LEMMA RowPress == ASSUME RowInv, NEW a \in Acts, Press(a) PROVE RowInv'
<1> DEFINE why == IF Button(a).how = "prompt" THEN "mine" ELSE "none"
<1>1. WasOffered(a, shown) /\ shown \in Rows[page]
    BY DEF RowInv, RowOK, Press, Offered, WasOffered
<1>2. Button(a).reason => why = "mine"
    BY PageSound DEF Sound, Agree, Agreed, Acts, Button, Press
<1>3. why \in {"none", "mine", "other"} /\ Send(a, shown, why) /\ UNCHANGED <<page, me, dismissed>>
    BY DEF Press
<1>4. calls' \in [Slots -> CallRecords] /\ CallsOK' /\ Unheard' = Unheard
    BY <1>1, <1>2, <1>3, Sends
<1>5. RowOK'
    BY <1>4 DEF RowInv, RowOK, Press, Dialogs, CallRecords, Slots, Acts
<1>6. DialogOK'
    BY DEF RowInv, DialogOK, Press, WasOffered, Acts, Button
<1>7. FreshOK'
    BY <1>4 DEF RowInv, FreshOK, Press
<1> QED BY <1>4, <1>5, <1>6, <1>7 DEF RowInv

LEMMA RowTypeReason == ASSUME RowInv, TypeReason PROVE RowInv'
<1>1. RowOK'
    BY DEF RowInv, RowOK, TypeReason, Dialogs, CallRecords, Slots, Acts
<1>2. DialogOK'
    BY DEF RowInv, RowOK, Dialogs, DialogOK, TypeReason, WasOffered, Acts, Button
<1>3. CallsOK'
    BY DEF RowInv, CallsOK, TypeReason, Pending, Slots, WasOffered, Acts, Button
<1>4. FreshOK'
    BY DEF RowInv, FreshOK, TypeReason, Unheard, Slots, Reads, Button
<1> QED BY <1>1, <1>2, <1>3, <1>4 DEF RowInv

LEMMA RowConfirm == ASSUME RowInv, confirm PROVE RowInv'
<1>1. WasOffered(dialog.act, dialog.seen) /\ dialog.seen \in Rows[page] \union {"none"}
      /\ dialog.text \in {"none", "mine", "other"}
    BY DEF RowInv, RowOK, Dialogs, DialogOK, confirm
<1>2. Button(dialog.act).reason => dialog.text # "none" /\ (~dismissed => dialog.text = "mine")
    BY <1>1 DEF RowInv, DialogOK, confirm
<1>3. Send(dialog.act, dialog.seen, dialog.text) /\ UNCHANGED <<page, me, dismissed>>
    BY DEF confirm
<1>4. calls' \in [Slots -> CallRecords] /\ CallsOK' /\ Unheard' = Unheard
    BY <1>1, <1>2, <1>3, Sends
<1>5. RowOK'
    BY <1>4 DEF RowInv, RowOK, confirm, Dialogs, CallRecords, Slots, Acts
<1>6. DialogOK'
    BY DEF RowInv, RowOK, Dialogs, DialogOK, confirm, WasOffered, Acts, Button
<1>7. FreshOK'
    BY <1>4 DEF RowInv, FreshOK, confirm
<1> QED BY <1>4, <1>5, <1>6, <1>7 DEF RowInv

LEMMA RowClose == ASSUME RowInv, onClose PROVE RowInv'
<1>1. RowOK'
    BY DEF RowInv, RowOK, onClose, Dialogs, CallRecords, Slots, Acts
<1>2. DialogOK'
    BY DEF RowInv, RowOK, Dialogs, DialogOK, onClose, WasOffered, Acts, Button
<1>3. CallsOK'
    BY DEF RowInv, CallsOK, onClose, Pending, Slots, WasOffered, Acts, Button
<1>4. FreshOK'
    BY DEF RowInv, FreshOK, onClose, Unheard, Slots, Reads, Button
<1> QED BY <1>1, <1>2, <1>3, <1>4 DEF RowInv

\* The administrator's permission for a button covers what its route asks for.
LEMMA OfferedIsServed ==
    ASSUME RowInv, NEW a, NEW x, WasOffered(a, x)
    PROVE  LET r == Routes[page][a] IN
           /\ hasPermission(Staff(me), r.perm) /\ (x \in r.takes \/ <<a, x>> \in Overlooked)
           /\ r.reason => Button(a).reason
           /\ Button(a).how = "read" => DOMAIN r.moves = {}
           /\ a \in DOMAIN Routes[page]
<1>1. a \in DOMAIN Routes[page] /\ Agreed(a, Button(a), Routes[page][a])
    BY PageSound DEF WasOffered, Sound, Agree, Acts, Button
<1>2. effectiveAdminRole(Staff(me)) \in AdminRoles
    BY DEF WasOffered, hasPermission, effectiveAdminRole, Staff, NoRole, AdminRoles, PERMISSIONS
<1>3. hasPermission(Staff(me), Routes[page][a].perm)
    BY <1>1, <1>2 DEF WasOffered, hasPermission, Agreed, Covers
<1> QED BY <1>1, <1>3 DEF WasOffered, Agreed

LEMMA MoveStays == ASSUME RowInv, NEW a \in DOMAIN Routes[page] PROVE Move(a) \in Rows[page]
BY PageSound DEF Move, Sound, Within, RowInv, RowOK

\* What the server's answer to call i may be.
Verdicts == {"forbidden", "refused", "unfit", "done"}
Justified(i, v) ==
    /\ v = "forbidden" => \/ role # me
                          \/ /\ calls[i].act \in Refunds
                             /\ effectiveAdminRole(Staff(role)) # "super_admin"
    /\ v = "unfit" => calls[i].act \in Numbered
    /\ v = "refused" => st # calls[i].seen \/ <<calls[i].act, calls[i].seen>> \in Overlooked

LEMMA ServedStep ==
    ASSUME RowInv, NEW i \in Slots, Served(i)
    PROVE  \E v \in Verdicts :
               /\ calls' = [calls EXCEPT ![i].phase = v]
               /\ st' = IF v = "done" THEN Move(calls[i].act) ELSE st
               /\ Justified(i, v)
<1> DEFINE a == calls[i].act
           r == Routes[page][a]
           v(n) == IF ~Allowed(a) THEN "forbidden"
                   ELSE IF st \notin r.takes \/ (r.reason /\ calls[i].why = "none") THEN "refused"
                   ELSE IF ~Fits(a, n) THEN "unfit"
                   ELSE IF ~Approved(a, n) THEN "forbidden" ELSE "done"
<1>1. WasOffered(a, calls[i].seen) /\ (Button(a).reason => calls[i].why # "none")
    BY DEF Served, Pending, InFlight, RowInv, CallsOK
<1>2. /\ hasPermission(Staff(me), r.perm)
      /\ calls[i].seen \in r.takes \/ <<a, calls[i].seen>> \in Overlooked
      /\ r.reason => Button(a).reason
    BY <1>1, OfferedIsServed
<1>3. PICK n \in Amounts : calls' = [calls EXCEPT ![i].phase = v(n)]
                            /\ st' = IF v(n) = "done" THEN Move(a) ELSE st
    BY DEF Served
<1>4. v(n) = "forbidden" => \/ role # me
                            \/ a \in Refunds /\ effectiveAdminRole(Staff(role)) # "super_admin"
    BY <1>2 DEF Allowed, Approved
<1>5. v(n) = "unfit" => a \in Numbered
    BY DEF Fits
<1>6. v(n) = "refused" => st # calls[i].seen \/ <<a, calls[i].seen>> \in Overlooked
    BY <1>1, <1>2
<1>7. v(n) \in Verdicts
    BY DEF Verdicts
<1> HIDE DEF v
<1> QED BY <1>3, <1>4, <1>5, <1>6, <1>7 DEF Justified

LEMMA RowServed == ASSUME RowInv, NEW i \in Slots, Served(i) PROVE RowInv'
<1>1. PICK v \in Verdicts :
          /\ calls' = [calls EXCEPT ![i].phase = v]
          /\ v = "done" => st' = Move(calls[i].act)
          /\ v # "done" => st' = st
    BY ServedStep
<1>2. UNCHANGED <<page, me, role, shown, fetch, dialog, changes, excused, dismissed>>
      /\ calls[i].phase = "sent" /\ Slots' = Slots /\ CallRecords' = CallRecords /\ Dialogs' = Dialogs
    BY DEF Served, Slots, CallRecords, Dialogs, Acts
<1>3. calls \in [Slots -> CallRecords] /\ calls[i] \in CallRecords
    BY DEF RowInv, RowOK
<1>4. /\ calls' \in [Slots -> CallRecords]
      /\ calls'[i] = [calls[i] EXCEPT !.phase = v] /\ \A j \in Slots \ {i} : calls'[j] = calls[j]
    BY <1>1, <1>3 DEF CallRecords, Verdicts, InFlight
<1>5. WasOffered(calls[i].act, calls[i].seen)
    BY <1>2 DEF Pending, InFlight, RowInv, CallsOK
<1>6. st' \in Rows[page]
    BY <1>1, <1>5, OfferedIsServed, MoveStays DEF RowInv, RowOK
<1>7. RowOK'
    BY <1>2, <1>4, <1>6 DEF RowInv, RowOK
<1>8. DialogOK'
    BY <1>2 DEF RowInv, DialogOK, WasOffered, Acts, Button
<1>9. CallsOK'
    BY <1>2, <1>3, <1>4 DEF RowInv, CallsOK, Pending, InFlight, WasOffered, Acts, Button, CallRecords
<1>10. FreshOK'
    <2>1. CASE v = "done" /\ ~Reads(i)
        <3>1. calls'[i].phase = "done" /\ calls'[i].act = calls[i].act
            BY <1>3, <1>4, <2>1 DEF CallRecords
        <3>2. i \in Unheard'
            BY <1>2, <2>1, <3>1 DEF Unheard, Reads, Button
        <3> QED BY <3>2 DEF FreshOK
    <2>2. CASE v # "done" \/ Reads(i)
        <3>1. st' = st
            BY <1>1, <1>5, <2>2, OfferedIsServed DEF Move, Reads
        <3>2. Unheard' = Unheard
            BY <1>2, <1>3, <1>4, <2>2 DEF Unheard, Reads, Button, CallRecords
        <3> QED BY <1>2, <3>1, <3>2 DEF RowInv, FreshOK
    <2> QED BY <2>1, <2>2
<1> QED BY <1>7, <1>8, <1>9, <1>10 DEF RowInv

LEMMA RowOthersChange == ASSUME RowInv, OthersChange PROVE RowInv'
<1>1. st' \in Rows[page]
    BY MoveStays, PageSound DEF OthersChange, Sound
<1>2. changes' \in 0..MaxChanges[page]
    BY PanelAssumption DEF OthersChange, RowInv, RowOK
<1>3. RowOK'
    BY <1>1, <1>2 DEF RowInv, RowOK, OthersChange, Dialogs, CallRecords, Slots, Acts
<1>4. DialogOK'
    BY DEF RowInv, DialogOK, OthersChange, WasOffered, Acts, Button
<1>5. CallsOK'
    BY DEF RowInv, CallsOK, OthersChange, Pending, Slots, WasOffered, Acts, Button
<1>6. FreshOK'
    BY DEF FreshOK, OthersChange
<1> QED BY <1>3, <1>4, <1>5, <1>6 DEF RowInv

LEMMA RowDemoted == ASSUME RowInv, Demoted PROVE RowInv'
<1>1. RowOK'
    BY PanelAssumption DEF RowInv, RowOK, Demoted, Dialogs, CallRecords, Slots, Acts
<1>2. DialogOK'
    BY DEF RowInv, DialogOK, Demoted, WasOffered, Acts, Button
<1>3. CallsOK'
    BY DEF RowInv, CallsOK, Demoted, Pending, Slots, WasOffered, Acts, Button
<1>4. FreshOK'
    BY DEF RowInv, FreshOK, Demoted, Unheard, Slots, Reads, Button
<1> QED BY <1>1, <1>2, <1>3, <1>4 DEF RowInv

\* The end of a call: the dialog, if it is touched, is closed or free again.
LEMMA RowEnds ==
    ASSUME RowInv, NEW i \in Slots, Answered(i) \/ Fails(i)
    PROVE  RowInv'
<1>1. /\ calls' = [calls EXCEPT ![i] = Over]
      /\ dialog' = dialog \/ dialog' = Closed \/ dialog' = [dialog EXCEPT !.busy = FALSE]
      /\ UNCHANGED <<page, me, role, st, shown, changes, dismissed>>
      /\ fetch' = fetch \/ fetch' = "asked"
      /\ excused' \in BOOLEAN
    <2>1. CASE Answered(i)
        BY <2>1 DEF Answered, AfterSuccess, RowInv, RowOK
    <2>2. CASE Fails(i)
        BY <2>2 DEF Fails, AfterSuccess, AfterFailure
    <2> QED BY <2>1, <2>2
<1>2. Slots' = Slots /\ CallRecords' = CallRecords /\ Dialogs' = Dialogs
    BY <1>1 DEF Slots, CallRecords, Dialogs, Acts
<1>3. Over \in CallRecords /\ Over.phase = "over" /\ Closed \in Dialogs
    BY DEF Over, NoCall, CallRecords, Closed, Dialogs
<1>4. calls' \in [Slots -> CallRecords] /\ calls'[i].phase = "over"
          /\ \A j \in Slots \ {i} : calls'[j] = calls[j]
    BY <1>1, <1>3 DEF RowInv, RowOK
<1>5. /\ dialog' \in Dialogs
      /\ dialog' = Closed \/ (dialog'.act = dialog.act /\ dialog'.seen = dialog.seen
                /\ dialog'.text = dialog.text)
    BY <1>1, <1>3 DEF RowInv, RowOK, Dialogs
<1>6. RowOK'
    BY <1>1, <1>2, <1>4, <1>5 DEF RowInv, RowOK
<1>7. DialogOK'
    BY <1>1, <1>5 DEF RowInv, DialogOK, WasOffered, Acts, Button, Closed
<1>8. CallsOK'
    BY <1>1, <1>2, <1>4 DEF RowInv, CallsOK, Pending, InFlight, WasOffered, Acts, Button
<1>9. FreshOK'
    <2>1. Unheard' = Unheard \ {i}
        BY <1>1, <1>2, <1>4 DEF Unheard, Reads, Button
    <2>2. CASE i \in Unheard
        BY <2>2 DEF FreshOK, Answered, Fails, Unheard
    <2>3. CASE i \notin Unheard
        BY <2>1, <2>3 DEF FreshOK, Answered, Fails, Unheard, RowInv
    <2> QED BY <2>2, <2>3
<1> QED BY <1>6, <1>7, <1>8, <1>9 DEF RowInv

LEMMA RowStep == ASSUME RowInv, RowNext PROVE RowInv'
BY RowPoll, RowFetchServed, RowFetchShown, RowFetchFails, RowAsk, RowPress, RowTypeReason, RowConfirm,
   RowClose, RowServed, RowOthersChange, RowDemoted, RowEnds DEF RowNext

\* Only the server's answer forbids or refuses a call.
LEMMA RowVerdict ==
    ASSUME RowInv, RowNext, NEW i \in Slots, calls[i].phase = "sent"
    PROVE  Justified(i, calls'[i].phase)
<1> SUFFICES ASSUME calls'[i].phase \in {"forbidden", "refused", "unfit"}
             PROVE  Justified(i, calls'[i].phase)
    BY DEF Justified
<1>0. calls \in [Slots -> CallRecords]
    BY DEF RowInv, RowOK
<1>1. ASSUME calls' = calls PROVE FALSE
    BY <1>1
<1>2. ASSUME NEW a, NEW x, NEW why, Send(a, x, why) PROVE FALSE
    BY <1>0, <1>2 DEF Send, Unused
<1>3. ASSUME NEW j \in Slots, calls' = [calls EXCEPT ![j] = Over] PROVE FALSE
    BY <1>0, <1>3 DEF Over, NoCall
<1>4. PICK j \in Slots : Served(j)
    BY <1>1, <1>2, <1>3 DEF RowNext, Poll, Revisit, FetchServed, FetchShown, FetchFails, Ask, Press,
       TypeReason, confirm, onClose, Answered, Fails, OthersChange, Demoted
<1>5. PICK v \in Verdicts : calls' = [calls EXCEPT ![j].phase = v] /\ Justified(j, v)
    BY <1>4, ServedStep
<1>6. i = j /\ calls'[i].phase = v
    BY <1>0, <1>5 DEF CallRecords
<1> QED BY <1>5, <1>6


-----------------------------------------------------------------------------
(* Lists.                                                                  *)

Totals == [total : 0..MaxRows, rows : Nat]

\* Rows reach page p of filter f.
Reached(f, p) == p = 1 \/ (p - 1) * PageSize < list.count[f]

ListOK ==
    list \in [screen : Lists, filter : Filters, page : PageNos, count : [Filters -> 0..MaxRows],
              cache : [Keys -> Totals], reads : SUBSET Keys,
              answers : SUBSET [key : Keys, answer : Totals], steps : Nat, gone : BOOLEAN]

\* One answer at most is on its way to each read, and some rows are rows.
AnswersOK ==
    /\ list.count["some"] <= list.count["all"]
    /\ \A a \in list.answers : a.key \in list.reads
    /\ \A a, b \in list.answers : a.key = b.key => a = b

\* An answer counts no more rows than there are, and is empty only where there are none.
Honest(k, answer) ==
    answer.total <= list.count[k[1]] /\ (answer.rows = 0 => answer.total = 0)

\* While no row goes, every page asked for has rows, if any page has.
PagesOK ==
    ~list.gone =>
        /\ Reached(list.filter, list.page)
        /\ \A k \in list.reads : Reached(k[1], k[2])
        /\ \A a \in list.answers : Honest(a.key, a.answer)
        /\ \A k \in Keys : list.cache[k] # Nothing => Honest(k, list.cache[k])

ListInv == ListOK /\ AnswersOK /\ PagesOK

LEMMA PageRows ==
    ASSUME NEW total \in 0..MaxRows, NEW p \in PageNos
    PROVE  /\ Page(total, p) \in Totals /\ Page(total, p).total = total
           /\ p = 1 \/ (p - 1) * PageSize < total => (Page(total, p).rows = 0 => total = 0)
<1> DEFINE left == IF total > (p - 1) * PageSize THEN total - (p - 1) * PageSize ELSE 0
<1>1. PageSize \in Nat \ {0} /\ MaxRows \in Nat
    BY ListAssumption
<1>2. (p - 1) * PageSize \in Nat /\ (p = 1 => (p - 1) * PageSize = 0)
    BY <1>1 DEF PageNos
<1>3. left \in Nat /\ (left = 0 => total <= (p - 1) * PageSize)
    BY <1>1, <1>2
<1>4. Min({left, PageSize}) \in {left, PageSize}
    BY <1>1, <1>3 DEF Min
<1>5. Page(total, p) = [total |-> total, rows |-> Min({left, PageSize})]
    BY DEF Page
<1> HIDE DEF left
<1>6. Page(total, p) \in Totals
    BY <1>1, <1>3, <1>4, <1>5 DEF Totals
<1>7. (p = 1 \/ (p - 1) * PageSize < total) /\ Page(total, p).rows = 0 => total = 0
    BY <1>1, <1>2, <1>3, <1>4, <1>5
<1> QED BY <1>5, <1>6, <1>7

LEMMA LastPage ==
    ASSUME NEW total \in 0..MaxRows, NEW p \in PageNos, p >= 2, p <= PageCount(total)
    PROVE  (p - 1) * PageSize < total
<1> DEFINE n == (total + PageSize - 1) \div PageSize
<1>1. PageSize \in Nat \ {0} /\ MaxRows \in Nat /\ total \in Nat /\ p \in Nat
    BY ListAssumption DEF PageNos
<1>2. n \in Int
    BY <1>1
<1>3. PageCount(total) \in {1, n}
    BY <1>2 DEF PageCount, Max
<1>4. p <= n
    BY <1>1, <1>2, <1>3
<1> QED BY <1>1, <1>4

LEMMA ListStart == ASSUME ListInit PROVE ListInv
<1>1. PICK s \in Lists, all \in 0..MaxRows : \E some \in 0..all : list = FreshList(s, all, some)
    BY DEF ListInit
<1>2. PICK some \in 0..all : list = FreshList(s, all, some)
    BY <1>1
<1>3. MaxRows \in Nat
    BY ListAssumption
<1>4. <<"all", 1>> \in Keys /\ "all" \in Filters /\ 1 \in PageNos /\ Nothing \in Totals
    BY <1>3 DEF Keys, Filters, PageNos, Nothing, Totals
<1>5. [all |-> all, some |-> some] \in [Filters -> 0..MaxRows]
    BY <1>2, <1>3 DEF Filters
<1>6. [k \in Keys |-> Nothing] \in [Keys -> Totals]
    BY <1>4
<1>7. ListOK
    BY <1>2, <1>4, <1>5, <1>6 DEF ListOK, FreshList
<1>8. AnswersOK
    BY <1>2, <1>3 DEF AnswersOK, FreshList
<1>9. PagesOK
    BY <1>2, <1>4 DEF PagesOK, FreshList, Reached
<1> QED BY <1>7, <1>8, <1>9 DEF ListInv

\* The controls stand on page p of filter f, and other reads may be under way.
TurnedTo(f, p, again) ==
    list' = [list EXCEPT !.filter = f, !.page = p, !.reads = OnList(f, p) \union again]

\* The controls are moved to a page that has rows, or is the first.
LEMMA Turned ==
    ASSUME ListInv, NEW f \in Filters, NEW p \in PageNos, NEW again \in SUBSET {<<"all", 1>>},
           TurnedTo(f, p, again),
           ~list.gone => Reached(f, p)
    PROVE  ListInv'
<1>0. <<"all", 1>> \in Keys /\ <<f, p>> \in Keys
    BY ListAssumption DEF Keys, Filters, PageNos
<1>1. OnList(f, p) \union again \in SUBSET Keys /\ list.reads \subseteq OnList(f, p)
      /\ OnList(f, p) \subseteq list.reads \union {<<f, p>>}
    BY <1>0 DEF OnList, ListInv, ListOK
<1>2. ListOK'
    BY <1>1 DEF ListInv, ListOK, TurnedTo
<1>3. /\ list'.filter = f /\ list'.page = p /\ list'.reads = OnList(f, p) \union again
      /\ list'.count = list.count /\ list'.cache = list.cache /\ list'.answers = list.answers
      /\ list'.gone = list.gone
    BY DEF ListInv, ListOK, TurnedTo
<1>4. AnswersOK'
    BY <1>1, <1>3 DEF ListInv, AnswersOK
<1>5. PagesOK'
    <2>1. \A g, q : Reached(g, q)' <=> Reached(g, q)
        BY <1>3 DEF Reached
    <2>2. \A k, answer : Honest(k, answer)' <=> Honest(k, answer)
        BY <1>3 DEF Honest
    <2>3. Reached("all", 1)
        BY DEF Reached
    <2>4. ASSUME ~list.gone, NEW k \in list'.reads PROVE Reached(k[1], k[2])
        BY <1>1, <1>3, <2>3, <2>4 DEF ListInv, PagesOK
    <2> QED BY <1>3, <2>1, <2>2, <2>4 DEF ListInv, PagesOK
<1> QED BY <1>2, <1>4, <1>5 DEF ListInv

LEMMA ListSetFilter == ASSUME ListInv, NEW f \in Filters, setFilter(f) PROVE ListInv'
<1>1. 1 \in PageNos /\ Reached(f, 1)
    BY ListAssumption DEF PageNos, Reached
<1>2. TurnedTo(f, 1, {}) /\ {} \in SUBSET {<<"all", 1>>}
    BY DEF setFilter, TurnedTo
<1> QED BY <1>1, <1>2, Turned

LEMMA ListBack == ASSUME ListInv, BackToList PROVE ListInv'
<1>1. 1 \in PageNos /\ Reached("all", 1) /\ "all" \in Filters
    BY ListAssumption DEF PageNos, Reached, Filters
<1>2. PICK again \in SUBSET {<<"all", 1>>} : TurnedTo("all", 1, again)
    BY DEF BackToList, TurnedTo
<1> QED BY <1>1, <1>2, Turned

LEMMA ListPagination == ASSUME ListInv, NEW p \in PageNos, Pagination(p) PROVE ListInv'
<1>0. PageSize \in Nat \ {0} /\ MaxRows \in Nat
    BY ListAssumption
<1>1. list.filter \in Filters /\ list.page \in PageNos /\ list.count[list.filter] \in 0..MaxRows
      /\ list.cache[key] \in Totals /\ key \in Keys
    BY DEF ListInv, ListOK, key, Keys
<1>2. ASSUME ~list.gone PROVE Reached(list.filter, p)
    <2>1. CASE p = list.page - 1
        <3>1. (list.page - 1) * PageSize < list.count[list.filter]
            BY <1>2, <2>1 DEF ListInv, PagesOK, Reached, PageNos
        <3>2. (p - 1) * PageSize <= (list.page - 1) * PageSize
            BY <1>0, <1>1, <2>1 DEF PageNos
        <3>3. (p - 1) * PageSize \in Int /\ (list.page - 1) * PageSize \in Int
            BY <1>0, <1>1 DEF PageNos
        <3> QED BY <1>1, <3>1, <3>2, <3>3 DEF Reached
    <2>2. CASE p = list.page + 1 /\ list.page < PageCount(Table.total)
        <3>1. Table.total \in 0..MaxRows /\ Table.total <= list.count[list.filter]
            BY <1>1, <1>2 DEF Pagination, TableShown, Table, ListInv, PagesOK, Honest, key, Totals
        <3>2. PageCount(Table.total) \in Int
            BY <1>0, <3>1 DEF PageCount, Max
        <3>3. p >= 2 /\ p <= PageCount(Table.total)
            BY <1>1, <2>2, <3>2 DEF PageNos
        <3>4. (p - 1) * PageSize < Table.total
            BY <3>1, <3>3, LastPage
        <3>5. (p - 1) * PageSize \in Int
            BY <1>0 DEF PageNos
        <3> QED BY <1>1, <3>1, <3>4, <3>5 DEF Reached
    <2> QED BY <2>1, <2>2 DEF Pagination
<1>3. TurnedTo(list.filter, p, {}) /\ {} \in SUBSET {<<"all", 1>>}
    BY DEF Pagination, TurnedTo, ListInv, ListOK
<1> QED BY <1>1, <1>2, <1>3, Turned

LEMMA ListRefetch == ASSUME ListInv, Refetch PROVE ListInv'
<1>1. key \in Keys /\ list' = [list EXCEPT !.reads = @ \union {key}]
    BY DEF Refetch, key, Keys, ListInv, ListOK
<1>2. ListOK'
    BY <1>1 DEF ListInv, ListOK
<1>3. /\ list'.filter = list.filter /\ list'.page = list.page /\ list'.reads = list.reads \union {key}
      /\ list'.count = list.count /\ list'.cache = list.cache /\ list'.answers = list.answers
      /\ list'.gone = list.gone
    BY <1>1 DEF ListInv, ListOK
<1>4. AnswersOK'
    BY <1>3 DEF ListInv, AnswersOK
<1>5. PagesOK'
    BY <1>3 DEF ListInv, PagesOK, Reached, Honest, key
<1> QED BY <1>2, <1>4, <1>5 DEF ListInv

\* Where rows reach a page, the rows counted for it do.
LEMMA CountedRows ==
    ASSUME ListInv, NEW k \in Keys
    PROVE  /\ Counted(k) \in 0..MaxRows /\ Counted(k) <= list.count[k[1]]
           /\ (k[2] - 1) * PageSize < list.count[k[1]] => (k[2] - 1) * PageSize < Counted(k)
           /\ k[2] = 1 /\ Counted(k) = 0 => list.count[k[1]] = 0
<1> DEFINE n == list.count[k[1]]
           end == k[2] * PageSize
<1>1. PageSize \in Nat \ {0} /\ MaxRows \in Nat /\ n \in 0..MaxRows /\ k[2] \in Nat \ {0}
    BY ListAssumption DEF ListInv, ListOK, Keys, PageNos
<1>2. end \in Nat /\ (k[2] - 1) * PageSize \in Int /\ (k[2] - 1) * PageSize < end /\ end > 0
    BY <1>1
<1> HIDE DEF n, end
<1>3. Min({n, end}) \in {n, end} /\ Min({n, end}) <= n /\ Min({n, end}) <= end
    BY <1>1, <1>2 DEF Min
<1>4. Counted(k) \in {n, Min({n, end})}
    BY DEF Counted, n, end
<1>5. /\ Counted(k) \in 0..MaxRows /\ Counted(k) <= n
      /\ (k[2] - 1) * PageSize < n => (k[2] - 1) * PageSize < Counted(k)
      /\ Counted(k) = 0 => n = 0
    BY <1>1, <1>2, <1>3, <1>4
<1> QED BY <1>5 DEF n

LEMMA ListServes == ASSUME ListInv, NEW k \in list.reads, ListServed(k) PROVE ListInv'
<1> DEFINE n == list.count[k[1]]
           answer == IF Kind.paged THEN Page(Counted(k), k[2]) ELSE [total |-> n, rows |-> n]
           a == [key |-> k, answer |-> answer]
<1>0. MaxRows \in Nat
    BY ListAssumption
<1>1. k \in Keys /\ k[1] \in Filters /\ k[2] \in PageNos /\ n \in 0..MaxRows
    BY DEF ListInv, ListOK, Keys
<1>2. /\ answer \in Totals /\ answer.total <= n
      /\ Reached(k[1], k[2]) => (answer.rows = 0 => answer.total = 0)
    <2>1. CASE Kind.paged
        BY <1>1, <2>1, PageRows, CountedRows DEF Reached
    <2>2. CASE ~Kind.paged
        BY <1>0, <1>1, <2>2 DEF Totals
    <2> QED BY <2>1, <2>2
<1>3. list' = [list EXCEPT !.answers = @ \union {a}] /\ \A b \in list.answers : b.key # k
    BY DEF ListServed
<1> HIDE DEF answer
<1>4. a \in [key : Keys, answer : Totals]
    BY <1>1, <1>2
<1>5. ListOK'
    BY <1>3, <1>4 DEF ListInv, ListOK
<1>6. /\ list'.filter = list.filter /\ list'.page = list.page /\ list'.reads = list.reads
      /\ list'.count = list.count /\ list'.cache = list.cache /\ list'.answers = list.answers \union {a}
      /\ list'.gone = list.gone
    BY <1>3 DEF ListInv, ListOK
<1>7. AnswersOK'
    BY <1>3, <1>6 DEF ListInv, AnswersOK
<1>8. ~list.gone => Honest(k, answer)
    BY <1>1, <1>2 DEF Honest, ListInv, PagesOK
<1>9. PagesOK'
    BY <1>6, <1>8 DEF ListInv, PagesOK, Reached, Honest
<1> QED BY <1>5, <1>7, <1>9 DEF ListInv

LEMMA ListArrival == ASSUME ListInv, NEW a \in list.answers, ListArrives(a) PROVE ListInv'
<1>1. a.key \in Keys /\ a.answer \in Totals
    BY DEF ListInv, ListOK
<1>2. list' = [list EXCEPT !.answers = @ \ {a}, !.reads = @ \ {a.key}, !.cache[a.key] = a.answer]
    BY DEF ListArrives
<1>3. ListOK'
    BY <1>1, <1>2 DEF ListInv, ListOK
<1>4. /\ list'.filter = list.filter /\ list'.page = list.page /\ list'.reads = list.reads \ {a.key}
      /\ list'.count = list.count /\ list'.cache = [list.cache EXCEPT ![a.key] = a.answer]
      /\ list'.answers = list.answers \ {a} /\ list'.gone = list.gone
    BY <1>2 DEF ListInv, ListOK
<1>5. AnswersOK'
    BY <1>4 DEF ListInv, AnswersOK
<1>6. ASSUME ~list.gone, NEW k \in Keys, list'.cache[k] # Nothing PROVE Honest(k, list'.cache[k])
    BY <1>4, <1>6 DEF ListInv, ListOK, PagesOK
<1>7. PagesOK'
    BY <1>4, <1>6 DEF ListInv, PagesOK, Reached, Honest
<1> QED BY <1>3, <1>5, <1>7 DEF ListInv

LEMMA ListFailure == ASSUME ListInv, NEW k \in list.reads, ListFails(k) PROVE ListInv'
<1>1. list' = [list EXCEPT !.reads = @ \ {k}, !.answers = {a \in @ : a.key # k}]
    BY DEF ListFails
<1>2. ListOK'
    BY <1>1 DEF ListInv, ListOK
<1>3. /\ list'.filter = list.filter /\ list'.page = list.page /\ list'.reads = list.reads \ {k}
      /\ list'.count = list.count /\ list'.cache = list.cache
      /\ list'.answers = {a \in list.answers : a.key # k} /\ list'.gone = list.gone
    BY <1>1 DEF ListInv, ListOK
<1>4. AnswersOK'
    BY <1>3 DEF ListInv, AnswersOK
<1>5. PagesOK'
    BY <1>3 DEF ListInv, PagesOK, Reached, Honest
<1> QED BY <1>2, <1>4, <1>5 DEF ListInv

LEMMA ListRows == ASSUME ListInv, RowsComeAndGo PROVE ListInv'
<1>0. MaxRows \in Nat /\ MaxSteps \in Nat
    BY ListAssumption
<1>1. PICK d \in {"come", "go"}, some \in BOOLEAN :
          LET n == list.count IN
          /\ IF d = "come" THEN n["all"] < MaxRows
             ELSE n["all"] > 0 /\ (some => n["some"] > 0) /\ (~some => n["some"] < n["all"])
          /\ list' = [list EXCEPT
                 !.count["all"] = IF d = "come" THEN @ + 1 ELSE @ - 1,
                 !.count["some"] = IF ~some THEN @ ELSE IF d = "come" THEN @ + 1 ELSE @ - 1,
                 !.steps = @ + 1, !.gone = @ \/ d = "go"]
    BY DEF RowsComeAndGo
<1>2. list.count \in [Filters -> 0..MaxRows] /\ Filters = {"all", "some"}
          /\ list.count["some"] <= list.count["all"]
    BY DEF ListInv, ListOK, AnswersOK, Filters
<1>3. /\ list'.filter = list.filter /\ list'.page = list.page /\ list'.reads = list.reads
      /\ list'.cache = list.cache /\ list'.answers = list.answers /\ list'.screen = list.screen
      /\ list'.steps = list.steps + 1 /\ list'.gone = (list.gone \/ d = "go")
      /\ list'.count["all"] = IF d = "come" THEN list.count["all"] + 1 ELSE list.count["all"] - 1
      /\ list'.count["some"] = IF ~some THEN list.count["some"]
                               ELSE IF d = "come" THEN list.count["some"] + 1 ELSE list.count["some"] - 1
      /\ DOMAIN list'.count = Filters
    BY <1>1, <1>2 DEF ListInv, ListOK
<1>4. list'.count["all"] \in 0..MaxRows /\ list'.count["some"] \in 0..MaxRows
      /\ list'.count["some"] <= list'.count["all"]
    BY <1>0, <1>1, <1>2, <1>3
<1>5. list'.count \in [Filters -> 0..MaxRows]
    BY <1>1, <1>2, <1>4 DEF ListInv, ListOK
<1>6. ListOK'
    <2> DEFINE counts == list'.count
    <2>1. list' = [list EXCEPT !.count = counts, !.steps = list.steps + 1, !.gone = list.gone \/ d = "go"]
        BY <1>1 DEF ListInv, ListOK
    <2>2. counts \in [Filters -> 0..MaxRows]
        BY <1>5
    <2>3. list.steps + 1 \in Nat /\ (list.gone \/ d = "go") \in BOOLEAN
        BY DEF ListInv, ListOK
    <2> HIDE DEF counts
    <2> QED BY <2>1, <2>2, <2>3 DEF ListInv, ListOK
<1>7. AnswersOK'
    BY <1>3, <1>4 DEF ListInv, AnswersOK
<1>8. ASSUME ~list'.gone, NEW f \in Filters
      PROVE  list.count[f] <= list'.count[f] /\ list'.count[f] \in Nat /\ list.count[f] \in Nat
    <2>1. d = "come"
        BY <1>3, <1>8
    <2>2. f = "all" \/ f = "some"
        BY <1>2
    <2> QED BY <1>0, <1>2, <1>3, <1>4, <2>1, <2>2
<1>9. ASSUME ~list'.gone, NEW k \in Keys, NEW answer \in Totals, Honest(k, answer)
      PROVE  Honest(k, answer)'
    BY <1>0, <1>8, <1>9 DEF Honest, Keys, Totals
<1>10. ASSUME ~list'.gone, NEW f \in Filters, NEW p \in PageNos, Reached(f, p)
       PROVE  Reached(f, p)'
    <2>1. PageSize \in Nat
        BY ListAssumption
    <2>2. (p - 1) * PageSize \in Int
        BY <2>1 DEF PageNos
    <2> QED BY <1>8, <1>10, <2>2 DEF Reached
<1>11. PagesOK'
    BY <1>3, <1>9, <1>10 DEF ListInv, PagesOK, ListOK, Keys
<1> QED BY <1>6, <1>7, <1>11 DEF ListInv

LEMMA ListStep == ASSUME ListInv, ListNext PROVE ListInv'
BY ListSetFilter, ListPagination, ListRefetch, ListBack, ListRows, ListServes, ListFailure, ListArrival
   DEF ListNext


-----------------------------------------------------------------------------
(* The search box.                                                         *)

Texts == Terms \union {"", "x"}
AskRecords == [term : Terms, cancelled : BOOLEAN, phase : {"waiting", "sent", "over"}]

SearchOK ==
    search \in [q : Texts, open : BOOLEAN, results : Terms \union {"none"},
                loading : BOOLEAN, asks : Seq(AskRecords), keys : Nat]

\* Whoever may still answer answers for the text in the box, and so did whoever did.
AskersOK ==
    /\ \A i \in DOMAIN search.asks :
           ~search.asks[i].cancelled /\ search.asks[i].phase # "over" => search.asks[i].term = search.q
    /\ search.results # "none" /\ ~search.loading /\ search.q \in Terms => search.results = search.q

SearchInv == SearchOK /\ AskersOK

\* What the box remembers, with the questions asked for it.
LEMMA SearchFields ==
    ASSUME SearchInv
    PROVE  /\ search.q \in Texts /\ search.results \in Terms \union {"none"}
           /\ search.open \in BOOLEAN /\ search.loading \in BOOLEAN
BY DEF SearchInv, SearchOK

LEMMA SearchAsks ==
    ASSUME SearchInv
    PROVE  /\ search.asks \in Seq(AskRecords) /\ Len(search.asks) \in Nat
           /\ DOMAIN search.asks = 1..Len(search.asks)
           /\ \A i \in DOMAIN search.asks : search.asks[i] \in AskRecords
<1>1. search.asks \in Seq(AskRecords)
    BY DEF SearchInv, SearchOK
<1> QED BY <1>1

LEMMA SearchStart == ASSUME SearchInit PROVE SearchInv
<1>1. <<>> \in Seq(AskRecords)
    OBVIOUS
<1>2. SearchOK
    BY <1>1 DEF SearchInit, FreshSearch, SearchOK, Texts
<1>3. AskersOK
    <2>1. search.asks = <<>> /\ search.results = "none"
        BY DEF SearchInit, FreshSearch
    <2> QED BY <2>1 DEF AskersOK
<1> QED BY <1>2, <1>3 DEF SearchInv

\* Cancelling leaves nobody who would still answer.
LEMMA AllCancelled ==
    ASSUME SearchInv
    PROVE  /\ Cancelled \in Seq(AskRecords) /\ Len(Cancelled) = Len(search.asks)
           /\ \A i \in DOMAIN Cancelled : Cancelled[i].cancelled
<1>1. search.asks \in Seq(AskRecords) /\ DOMAIN search.asks = 1..Len(search.asks)
          /\ Len(search.asks) \in Nat
    BY SearchAsks
<1>2. ASSUME NEW i \in DOMAIN search.asks
      PROVE  LET c == [search.asks[i] EXCEPT !.cancelled = TRUE,
                                             !.phase = IF @ = "waiting" THEN "over" ELSE @]
             IN  c \in AskRecords /\ c.cancelled
    <2>1. search.asks[i] \in AskRecords
        BY SearchAsks
    <2> QED BY <2>1 DEF AskRecords
<1>3. Cancelled \in [1..Len(search.asks) -> AskRecords]
          /\ \A i \in DOMAIN Cancelled : Cancelled[i].cancelled
    BY <1>1, <1>2 DEF Cancelled
<1> QED BY <1>1, <1>3

LEMMA SearchKeys == ASSUME SearchInv PROVE search.keys \in Nat
BY DEF SearchInv, SearchOK

\* A sequence and one more.
LEMMA OneMore ==
    ASSUME NEW S, NEW s \in Seq(S), NEW x \in S
    PROVE  /\ Append(s, x) \in Seq(S)
           /\ \A i \in DOMAIN Append(s, x) :
                  Append(s, x)[i] = x \/ (i \in DOMAIN s /\ Append(s, x)[i] = s[i])
OBVIOUS

\* The same box with another text and other questions.
BoxBecomes(q, results, asks, keys) ==
    \E open, loading \in BOOLEAN :
        search' = [search EXCEPT !.q = q, !.open = open, !.results = results, !.loading = loading,
                                 !.asks = asks, !.keys = keys]

LEMMA SearchUpdate ==
    ASSUME SearchInv, NEW q \in Texts, NEW results \in Terms \union {"none"},
           NEW keys \in Nat, NEW asks \in Seq(AskRecords), BoxBecomes(q, results, asks, keys),
           \A i \in DOMAIN asks : ~asks[i].cancelled /\ asks[i].phase # "over" => asks[i].term = q,
           results # "none" /\ ~search'.loading /\ q \in Terms => results = q
    PROVE  SearchInv'
<1>1. SearchOK'
    BY DEF BoxBecomes, SearchInv, SearchOK
<1>2. search'.q = q /\ search'.results = results /\ search'.asks = asks
    BY DEF BoxBecomes, SearchInv, SearchOK
<1>3. AskersOK'
    BY <1>2 DEF AskersOK
<1> QED BY <1>1, <1>3 DEF SearchInv

\* The text becomes t, and the drop-down is open or not.
TextBecomes(t) == \E open \in BOOLEAN : search' = [SetQ(t) EXCEPT !.open = open]

LEMMA SearchText ==
    ASSUME SearchInv, NEW t \in Texts, TextBecomes(t)
    PROVE  SearchInv'
<1>0. search.keys \in Nat /\ search.keys + 1 \in Nat
    BY SearchKeys
<1>1. CASE t \notin Terms
    <2>1. BoxBecomes(t, "none", Cancelled, search.keys + 1)
        <3>1. PICK open \in BOOLEAN : search' = [SetQ(t) EXCEPT !.open = open]
            BY DEF TextBecomes
        <3>2. search' = [search EXCEPT !.q = t, !.open = open, !.results = "none",
                                       !.loading = search.loading, !.asks = Cancelled,
                                                 !.keys = search.keys + 1]
            BY <1>1, <3>1 DEF SetQ, SearchInv, SearchOK
        <3> QED BY <3>2, SearchFields DEF BoxBecomes
    <2>2. "none" \in Terms \union {"none"}
        OBVIOUS
    <2> QED BY <1>0, <2>1, <2>2, AllCancelled, SearchUpdate
<1>2. CASE t \in Terms
    <2> DEFINE ask == [term |-> t, cancelled |-> FALSE, phase |-> "waiting"]
               asks == Append(Cancelled, ask)
    <2>1. BoxBecomes(t, search.results, asks, search.keys + 1) /\ search'.loading
        <3>1. PICK open \in BOOLEAN : search' = [SetQ(t) EXCEPT !.open = open]
            BY DEF TextBecomes
        <3>2. search' = [search EXCEPT !.q = t, !.open = open, !.results = search.results,
                                       !.loading = TRUE, !.asks = asks, !.keys = search.keys + 1]
            BY <1>2, <3>1 DEF SetQ, SearchInv, SearchOK
        <3>3. search'.loading
            BY <3>2 DEF SearchInv, SearchOK
        <3> QED BY <3>2, <3>3 DEF BoxBecomes
    <2>2. ask \in AskRecords
        BY <1>2 DEF AskRecords
    <2>3. search.results \in Terms \union {"none"}
        BY SearchFields
    <2>4. Cancelled \in Seq(AskRecords) /\ \A i \in DOMAIN Cancelled : Cancelled[i].cancelled
        BY AllCancelled
    <2>5. ask.term = t
        OBVIOUS
    <2> HIDE DEF ask
    <2>6. /\ asks \in Seq(AskRecords)
          /\ \A i \in DOMAIN asks : asks[i] = ask \/ (i \in DOMAIN Cancelled /\ asks[i] = Cancelled[i])
        BY <2>2, <2>4, OneMore
    <2>7. \A i \in DOMAIN asks : ~asks[i].cancelled /\ asks[i].phase # "over" => asks[i].term = t
        BY <2>4, <2>5, <2>6
    <2> HIDE DEF asks
    <2> QED BY <1>0, <2>1, <2>3, <2>6, <2>7, SearchUpdate
<1> QED BY <1>1, <1>2

\* One who asked goes on, or comes to an end.
AskBecomes(i, phase, results) ==
    \E open, loading \in BOOLEAN :
        search' = [search EXCEPT !.asks[i].phase = phase, !.results = results, !.open = open,
                                 !.loading = loading]

LEMMA SearchProgress ==
    ASSUME SearchInv, NEW i \in DOMAIN search.asks, NEW phase \in {"sent", "over"},
           search.asks[i].phase # "over",
           NEW results \in Terms \union {"none"}, AskBecomes(i, phase, results),
           \/ results = "none"
           \/ results = search.asks[i].term /\ ~search.asks[i].cancelled
           \/ results = search.results /\ (search.loading => search'.loading)
    PROVE  SearchInv'
<1> DEFINE one == [search.asks[i] EXCEPT !.phase = phase]
           asks == [search.asks EXCEPT ![i] = one]
<1>1. search.asks[i] \in AskRecords
    BY SearchAsks
<1>2. one \in AskRecords /\ one.term = search.asks[i].term /\ one.cancelled = search.asks[i].cancelled
    BY <1>1 DEF AskRecords
<1>3. BoxBecomes(search.q, results, asks, search.keys)
    <2>1. PICK open \in BOOLEAN, loading \in BOOLEAN :
              search' = [search EXCEPT !.asks[i].phase = phase, !.results = results, !.open = open,
                                       !.loading = loading]
        BY DEF AskBecomes
    <2>2. search' = [search EXCEPT !.q = search.q, !.open = open, !.results = results,
                                   !.loading = loading,
                                   !.asks = asks, !.keys = search.keys]
        BY <2>1 DEF SearchInv, SearchOK
    <2> QED BY <2>2 DEF BoxBecomes
<1> HIDE DEF one
<1>4. asks \in Seq(AskRecords) /\ DOMAIN asks = DOMAIN search.asks
      /\ \A j \in DOMAIN asks : asks[j] = IF j = i THEN one ELSE search.asks[j]
    BY <1>2, SearchAsks
<1> HIDE DEF asks
<1>5. \A j \in DOMAIN asks : ~asks[j].cancelled /\ asks[j].phase # "over" => asks[j].term = search.q
    BY <1>2, <1>4 DEF SearchInv, AskersOK
<1>6. results # "none" /\ ~search'.loading /\ search.q \in Terms => results = search.q
    BY DEF SearchInv, AskersOK
<1>7. search.q \in Texts
    BY SearchFields
<1>8. search.keys \in Nat
    BY SearchKeys
<1> QED BY <1>3, <1>4, <1>5, <1>6, <1>7, <1>8, SearchUpdate

LEMMA SearchAsked ==
    ASSUME SearchInv, NEW i \in DOMAIN search.asks, Fires(i) \/ SearchAnswered(i) \/ SearchFails(i)
    PROVE  SearchInv'
<1>1. search.asks[i].term \in Terms
    BY SearchAsks DEF AskRecords
<1>2. search.results \in Terms \union {"none"}
    BY SearchFields
<1>3. search.asks[i].phase # "over"
    BY DEF Fires, SearchAnswered, SearchFails
<1>4. CASE Fires(i)
    <2>1. AskBecomes(i, "sent", search.results) /\ (search.loading => search'.loading)
        BY <1>4 DEF AskBecomes, Fires, SearchInv, SearchOK
    <2> QED BY <1>2, <1>3, <2>1, SearchProgress
<1>5. CASE (SearchAnswered(i) \/ SearchFails(i)) /\ search.asks[i].cancelled
    <2>1. AskBecomes(i, "over", search.results) /\ (search.loading => search'.loading)
        <3>1. search' = [search EXCEPT !.asks[i].phase = "over"]
            BY <1>5 DEF SearchAnswered, SearchFails
        <3>2. search' = [search EXCEPT !.asks[i].phase = "over", !.results = search.results,
                                       !.open = search.open, !.loading = search.loading]
            BY <3>1 DEF SearchInv, SearchOK
        <3>3. search'.loading = search.loading
            BY <3>1 DEF SearchInv, SearchOK
        <3> QED BY <3>2, <3>3, SearchFields DEF AskBecomes
    <2> QED BY <1>2, <1>3, <2>1, SearchProgress
<1>6. CASE SearchAnswered(i) /\ ~search.asks[i].cancelled
    <2>1. AskBecomes(i, "over", search.asks[i].term)
        BY <1>6 DEF AskBecomes, SearchAnswered, SearchInv, SearchOK
    <2> QED BY <1>1, <1>3, <1>6, <2>1, SearchProgress
<1>7. CASE SearchFails(i) /\ ~search.asks[i].cancelled
    <2>1. AskBecomes(i, "over", "none")
        BY <1>7 DEF AskBecomes, SearchFails, SearchInv, SearchOK
    <2> QED BY <1>2, <1>3, <2>1, SearchProgress
<1> QED BY <1>4, <1>5, <1>6, <1>7

LEMMA SearchClick == ASSUME SearchInv, onClick \/ onFocus PROVE SearchInv'
<1>1. PICK open \in BOOLEAN : search' = [search EXCEPT !.open = open]
    BY DEF onClick, onFocus
<1>2. SearchOK'
    BY <1>1 DEF SearchInv, SearchOK
<1>3. search'.q = search.q /\ search'.results = search.results /\ search'.loading = search.loading
      /\ search'.asks = search.asks
    BY <1>1 DEF SearchInv, SearchOK
<1>4. AskersOK'
    BY <1>3 DEF SearchInv, AskersOK
<1> QED BY <1>2, <1>4 DEF SearchInv

LEMMA SearchStep == ASSUME SearchInv, SearchNext PROVE SearchInv'
<1>1. ASSUME NEW t \in Texts, Type(t) PROVE SearchInv'
    <2>1. TextBecomes(t)
        BY <1>1, SearchFields DEF TextBecomes, Type, SetQ, SearchInv, SearchOK
    <2> QED BY <2>1, SearchText
<1>2. ASSUME go PROVE SearchInv'
    BY <1>2, SearchText DEF go, TextBecomes, Texts
<1> QED BY <1>1, <1>2, SearchClick, SearchAsked DEF SearchNext, Texts


-----------------------------------------------------------------------------
(* Forms.                                                                  *)

SaveRecords == [phase : {"none", "sent", "served", "done", "failed"}, what : Values, own : BOOLEAN]

FormOK ==
    form \in [name : Forms, db : Values, read : Values, got : Values, fetch : {"none", "asked", "back"},
              open : BOOLEAN, base : Values, draft : Values, late : BOOLEAN, typed : 0..MaxTyped,
              busy : BOOLEAN, saves : [Saves -> SaveRecords], took : [Values -> Nat],
              writes : 0..MaxWrites, excused : BOOLEAN]

\* Calls the server has taken, whose answers are on their way; and those it has
\* taken, or may yet take.
Answerless == {i \in Saves : form.saves[i].phase = "served"}
Accepted == {i \in Saves : form.saves[i].phase \in {"sent", "served", "done"}}

\* A button that waits waits for a call of this opening of the form; only an
\* invitation forgets one.
BusyOK ==
    /\ Sort.waits =>
           /\ form.busy <=> \E i \in UnderWay : form.saves[i].own
           /\ \A i, j \in UnderWay : form.saves[i].own /\ form.saves[j].own => i = j
    /\ form.name # "invite" => \A i \in UnderWay : form.saves[i].own

\* Two calls at once write a record in an order the page does not know.
AloneOK == Sort.fill # "blank" /\ ~form.excused => \A i, j \in UnderWay : i = j

FetchOK ==
    /\ Sort.fill = "blank" => form.fetch = "none"
    /\ Sort.fill = "load" /\ form.fetch # "none" => UnderWay = {}

TookOK ==
    \A i \in Saves : form.saves[i].phase \in {"served", "done"} => form.took[form.saves[i].what] > 0

\* A text typed while no call was under way is what every call under way carries.
DraftOK == ~form.late /\ form.draft # 0 => \A i \in UnderWay : form.saves[i].what = form.draft

\* No text has been sent before it was typed.
TextOK ==
    Sort.fill = "blank" => form.draft <= form.typed /\ \A i \in Saves : form.saves[i].what <= form.typed

\* No text of a form whose button waits is under way twice, or again.
AddedOK ==
    Sort.fill = "blank" /\ Sort.waits /\ ~form.excused =>
        /\ \A v \in Values : form.took[v] <= 1
        /\ \A v \in Values : form.took[v] > 0 =>
               \E i \in Saves : form.saves[i].what = v /\ form.saves[i].phase \in {"served", "done"}
        /\ \A i, j \in Accepted : form.saves[i].what = form.saves[j].what => i = j
        /\ \A i \in Accepted : form.draft # 0 /\ form.saves[i].what = form.draft =>
               i \in UnderWay /\ form.saves[i].own

\* The record is what the call taken last has written.
ServedOK ==
    Sort.fill # "blank" /\ ~form.excused => \A i \in Answerless : form.db = form.saves[i].what

\* The page knows all there is to know of the record.
Informed == Sort.fill # "blank" /\ ~form.excused /\ Answerless = {}

ReadOK ==
    Informed =>
        /\ form.fetch = "back" => form.got = form.db
        /\ Sort.fill = "row" /\ form.fetch = "none" => form.read = form.db

\* What the form was filled with is the record, unless a read will fill it again. The
\* maintenance window is filled again only by news.
BaseOK ==
    Informed =>
        /\ form.name \in {"paymentNote", "settings", "maintenance"} /\ form.fetch = "none" =>
               form.base = form.db
        /\ form.name \in {"template", "plan"} /\ form.open => form.base = form.db
        /\ form.name = "maintenance" /\ form.fetch = "asked" /\ form.db = form.read => form.base = form.db
        /\ form.name = "maintenance" /\ form.fetch = "back" /\ form.got = form.read => form.base = form.db

FormInv ==
    /\ FormOK /\ BusyOK /\ AloneOK /\ FetchOK /\ TookOK /\ DraftOK /\ TextOK /\ AddedOK
    /\ ServedOK /\ ReadOK /\ BaseOK

\* What the forms differ in.
LEMMA Sorts ==
    ASSUME form.name \in DOMAIN AllForms
    PROVE  /\ Sort.fill = "blank" <=> form.name \in {"note", "broadcast", "promo", "preset", "invite"}
           /\ Sort.fill = "row" <=> form.name \in {"paymentNote", "template", "plan"}
           /\ Sort.fill = "load" <=> form.name = "settings"
           /\ Sort.fill = "cache" <=> form.name = "maintenance"
           /\ Sort.waits <=> form.name \in {"settings", "maintenance", "broadcast", "preset", "invite"}
           /\ Sort.modal <=> form.name \in {"template", "plan", "promo", "preset", "invite"}
           /\ Sort.done = "empty" <=> form.name \in {"note", "paymentNote", "broadcast"}
           /\ Sort.done = "close" <=> form.name \in {"plan", "promo", "preset", "invite"}
           /\ Sort.done = "answer" <=> form.name \in {"settings", "maintenance"}
           /\ Sort.done = "keep" <=> form.name = "template"
           /\ form.name \in {"note", "paymentNote", "settings", "maintenance", "template", "broadcast",
                             "plan", "promo", "preset", "invite"}
<1>1. form.name \in {"note", "paymentNote", "settings", "maintenance", "template", "broadcast", "plan",
                      "promo", "preset", "invite"}
    BY DEF AllForms
<1>2. CASE form.name = "note"
    <2>1. Sort = [fill |-> "blank", waits |-> FALSE, done |-> "empty", modal |-> FALSE]
        BY <1>2 DEF Sort, AllForms, note, Form
    <2> QED BY <1>2, <2>1
<1>3. CASE form.name = "paymentNote"
    <2>1. Sort = [fill |-> "row", waits |-> FALSE, done |-> "empty", modal |-> FALSE]
        BY <1>3 DEF Sort, AllForms, paymentNote, Form
    <2> QED BY <1>3, <2>1
<1>4. CASE form.name = "settings"
    <2>1. Sort = [fill |-> "load", waits |-> TRUE, done |-> "answer", modal |-> FALSE]
        BY <1>4 DEF Sort, AllForms, settings, Form
    <2> QED BY <1>4, <2>1
<1>5. CASE form.name = "maintenance"
    <2>1. Sort = [fill |-> "cache", waits |-> TRUE, done |-> "answer", modal |-> FALSE]
        BY <1>5 DEF Sort, AllForms, maintenance, Form
    <2> QED BY <1>5, <2>1
<1>6. CASE form.name = "template"
    <2>1. Sort = [fill |-> "row", waits |-> FALSE, done |-> "keep", modal |-> TRUE]
        BY <1>6 DEF Sort, AllForms, template, Form
    <2> QED BY <1>6, <2>1
<1>7. CASE form.name = "broadcast"
    <2>1. Sort = [fill |-> "blank", waits |-> TRUE, done |-> "empty", modal |-> FALSE]
        BY <1>7 DEF Sort, AllForms, broadcast, Form
    <2> QED BY <1>7, <2>1
<1>8. CASE form.name = "plan"
    <2>1. Sort = [fill |-> "row", waits |-> FALSE, done |-> "close", modal |-> TRUE]
        BY <1>8 DEF Sort, AllForms, plan, Form
    <2> QED BY <1>8, <2>1
<1>9. CASE form.name = "promo"
    <2>1. Sort = [fill |-> "blank", waits |-> FALSE, done |-> "close", modal |-> TRUE]
        BY <1>9 DEF Sort, AllForms, promo, Form
    <2> QED BY <1>9, <2>1
<1>10. CASE form.name = "preset"
    <2>1. Sort = [fill |-> "blank", waits |-> TRUE, done |-> "close", modal |-> TRUE]
        BY <1>10 DEF Sort, AllForms, preset, Form
    <2> QED BY <1>10, <2>1
<1>11. CASE form.name = "invite"
    <2>1. Sort = [fill |-> "blank", waits |-> TRUE, done |-> "close", modal |-> TRUE]
        BY <1>11 DEF Sort, AllForms, invite, Form
    <2> QED BY <1>11, <2>1
<1> QED BY <1>1, <1>2, <1>3, <1>4, <1>5, <1>6, <1>7, <1>8, <1>9, <1>10, <1>11

LEMMA Numbers ==
    /\ Values \subseteq Nat /\ 0 \in Values /\ Other \in Values /\ 0..MaxTyped \subseteq Values
    /\ Saves \subseteq Nat /\ MaxTyped \in Nat /\ MaxWrites \in Nat
BY FormAssumption DEF Values, Saves, Other

LEMMA FormFields ==
    ASSUME FormInv
    PROVE  /\ form.name \in DOMAIN AllForms /\ form.saves \in [Saves -> SaveRecords]
           /\ form.took \in [Values -> Nat] /\ form.typed \in 0..MaxTyped /\ form.writes \in 0..MaxWrites
           /\ form.draft \in Values /\ form.base \in Values /\ form.db \in Values
           /\ form.read \in Values /\ form.got \in Values /\ FormShows \in Values /\ Filled \in Values
BY FormAssumption, Numbers DEF FormInv, FormOK, FormShows, Filled

LEMMA FormStart == ASSUME FormInit PROVE FormInv
<1>1. PICK f \in Forms : form = FreshForm(f)
    BY DEF FormInit
<1>2. /\ form.name = f /\ form.db = 0 /\ form.read = 0 /\ form.got = 0 /\ form.fetch = "none"
      /\ form.base = 0 /\ form.draft = 0 /\ form.typed = 0 /\ form.busy = FALSE
      /\ form.saves = [i \in Saves |-> NoSave] /\ form.took = [v \in Values |-> 0]
    BY <1>1 DEF FreshForm
<1>3. FormOK
    <2>1. NoSave \in SaveRecords
        BY Numbers DEF NoSave, SaveRecords
    <2>2. 0 \in 0..MaxTyped /\ 0 \in 0..MaxWrites
        BY Numbers
    <2>4. (~AllForms[f].modal) \in BOOLEAN
        OBVIOUS
    <2>3. [i \in Saves |-> NoSave] \in [Saves -> SaveRecords] /\ [v \in Values |-> 0] \in [Values -> Nat]
        BY <2>1
    <2> QED BY <1>1, <2>2, <2>3, <2>4, Numbers DEF FormOK, FreshForm
<1>4. \A i \in Saves : form.saves[i].phase = "none" /\ form.saves[i].what = 0
    BY <1>2 DEF NoSave
<1>5. UnderWay = {} /\ Accepted = {} /\ Answerless = {}
    BY <1>4 DEF UnderWay, Accepted, Answerless
<1>6. BusyOK /\ AloneOK /\ FetchOK /\ DraftOK /\ ServedOK
    BY <1>2, <1>5 DEF BusyOK, AloneOK, FetchOK, DraftOK, ServedOK
<1>7. TookOK /\ TextOK
    BY <1>2, <1>4 DEF TookOK, TextOK
<1>8. AddedOK
    BY <1>2, <1>5 DEF AddedOK
<1>9. ReadOK /\ BaseOK
    BY <1>2 DEF ReadOK, BaseOK
<1> QED BY <1>3, <1>6, <1>7, <1>8, <1>9 DEF FormInv

\* A step that leaves the calls and what they wrote alone.
CallsStay ==
    /\ form'.name = form.name /\ form'.took = form.took
    /\ \A i \in Saves : /\ form'.saves[i].phase = form.saves[i].phase
                        /\ form'.saves[i].what = form.saves[i].what
                        /\ form'.saves[i].own = form.saves[i].own

LEMMA SameCalls ==
    ASSUME CallsStay
    PROVE  UnderWay' = UnderWay /\ Accepted' = Accepted /\ Answerless' = Answerless /\ Sort' = Sort
BY DEF CallsStay, UnderWay, Accepted, Answerless, Sort

LEMMA SameTook == ASSUME FormInv, CallsStay PROVE TookOK'
BY DEF CallsStay, FormInv, TookOK

LEMMA SameBusy == ASSUME FormInv, CallsStay, form'.busy = form.busy PROVE BusyOK'
BY SameCalls DEF CallsStay, FormInv, BusyOK, UnderWay

LEMMA SameDraft ==
    ASSUME FormInv, CallsStay, form'.late = form.late, form'.draft = form.draft \/ form'.draft = 0
    PROVE  DraftOK'
BY SameCalls DEF CallsStay, FormInv, DraftOK, UnderWay

LEMMA SameText ==
    ASSUME FormInv, CallsStay, form'.typed = form.typed, form'.draft = form.draft \/ form'.draft = 0
    PROVE  TextOK'
BY SameCalls, FormFields, Numbers DEF CallsStay, FormInv, TextOK

LEMMA SameAdded ==
    ASSUME FormInv, CallsStay, form'.draft = form.draft \/ form'.draft = 0,
           Sort.fill = "blank" /\ ~form'.excused => ~form.excused
    PROVE  AddedOK'
<1>1. SUFFICES ASSUME Sort.fill = "blank", Sort.waits, ~form'.excused
               PROVE  /\ \A v \in Values : form'.took[v] <= 1
                      /\ \A v \in Values : form'.took[v] > 0 =>
                             \E i \in Saves : form'.saves[i].what = v
                                       /\ form'.saves[i].phase \in {"served", "done"}
                      /\ \A i, j \in Accepted : form'.saves[i].what = form'.saves[j].what => i = j
                      /\ \A i \in Accepted : form'.draft # 0 /\ form'.saves[i].what = form'.draft =>
                             i \in UnderWay /\ form'.saves[i].own
    BY SameCalls DEF AddedOK
<1>2. AddedOK /\ ~form.excused
    BY <1>1 DEF FormInv
<1>3. Accepted \subseteq Saves
    BY DEF Accepted
<1> QED BY <1>1, <1>2, <1>3 DEF CallsStay, AddedOK

LEMMA SameServed ==
    ASSUME FormInv, CallsStay, form'.db = form.db, ~form'.excused => ~form.excused \/ UnderWay = {}
    PROVE  AloneOK' /\ ServedOK'
<1>1. Answerless \subseteq UnderWay
    BY DEF Answerless, UnderWay
<1> QED BY <1>1, SameCalls DEF CallsStay, FormInv, AloneOK, ServedOK, Answerless


LEMMA FormClose == ASSUME FormInv, Close PROVE FormInv'
<1>1. form' = [form EXCEPT !.open = FALSE]
    BY DEF Close
<1>2. FormOK'
    BY <1>1 DEF FormInv, FormOK
<1>3. /\ CallsStay /\ form'.db = form.db /\ form'.read = form.read /\ form'.got = form.got
      /\ form'.fetch = form.fetch /\ form'.base = form.base /\ form'.draft = form.draft
      /\ form'.late = form.late /\ form'.typed = form.typed /\ form'.busy = form.busy
      /\ form'.excused = form.excused /\ form'.open = FALSE
    BY <1>1 DEF FormInv, FormOK, CallsStay
<1>4. TookOK' /\ BusyOK' /\ DraftOK' /\ TextOK' /\ AddedOK' /\ AloneOK' /\ ServedOK'
    BY <1>3, SameTook, SameBusy, SameDraft, SameText, SameAdded, SameServed
<1>5. FetchOK' /\ ReadOK' /\ BaseOK'
    BY <1>3, SameCalls DEF FormInv, FetchOK, ReadOK, BaseOK, Informed, CallsStay
<1> QED BY <1>2, <1>4, <1>5 DEF FormInv

LEMMA FormSomebodyWrites == ASSUME FormInv, SomebodyWrites PROVE FormInv'
<1>1. form' = [form EXCEPT !.db = Other, !.writes = @ + 1, !.excused = TRUE] /\ Sort.fill # "blank"
    BY DEF SomebodyWrites
<1>2. FormOK'
    <2>1. form.writes + 1 \in 0..MaxWrites
        BY FormFields, Numbers DEF SomebodyWrites
    <2> QED BY <1>1, <2>1, Numbers DEF FormInv, FormOK
<1>3. /\ CallsStay /\ form'.fetch = form.fetch /\ form'.draft = form.draft
      /\ form'.late = form.late /\ form'.typed = form.typed /\ form'.busy = form.busy
      /\ form'.excused
    BY <1>1 DEF FormInv, FormOK, CallsStay
<1>4. TookOK' /\ BusyOK' /\ DraftOK' /\ TextOK' /\ AddedOK'
    BY <1>1, <1>3, SameTook, SameBusy, SameDraft, SameText, SameAdded
<1>5. FetchOK' /\ AloneOK' /\ ServedOK' /\ ReadOK' /\ BaseOK'
    BY <1>3, SameCalls DEF FormInv, FetchOK, AloneOK, ServedOK, ReadOK, BaseOK, Informed
<1> QED BY <1>2, <1>4, <1>5 DEF FormInv

LEMMA FormTypeIn == ASSUME FormInv, TypeIn PROVE FormInv'
<1>1. form' = [form EXCEPT !.typed = @ + 1, !.draft = form.typed + 1, !.late = UnderWay # {}]
    BY DEF TypeIn
<1>2. form.typed + 1 \in 0..MaxTyped /\ form.typed + 1 \in Values
    BY FormFields, Numbers DEF TypeIn
<1>3. FormOK'
    BY <1>1, <1>2 DEF FormInv, FormOK
<1>4. /\ CallsStay /\ form'.db = form.db /\ form'.read = form.read /\ form'.got = form.got
      /\ form'.fetch = form.fetch /\ form'.base = form.base /\ form'.draft = form.typed + 1
      /\ form'.late = (UnderWay # {}) /\ form'.typed = form.typed + 1 /\ form'.busy = form.busy
      /\ form'.excused = form.excused /\ form'.open = form.open
    BY <1>1 DEF FormInv, FormOK, CallsStay
<1>5. TookOK' /\ BusyOK' /\ AloneOK' /\ ServedOK'
    BY <1>4, SameTook, SameBusy, SameServed
<1>6. FetchOK' /\ ReadOK' /\ BaseOK'
    BY <1>4, SameCalls DEF FormInv, FetchOK, ReadOK, BaseOK, Informed, CallsStay
<1>7. DraftOK'
    BY <1>4, SameCalls DEF DraftOK
<1>8. \A i \in Saves : form.saves[i].what \in Nat
    BY FormFields, Numbers DEF SaveRecords
<1>9. TextOK'
    BY <1>4, <1>8, FormFields, Numbers, SameCalls DEF FormInv, TextOK, CallsStay
<1>10. AddedOK'
    <2>1. SUFFICES ASSUME Sort.fill = "blank", Sort.waits, ~form.excused
                   PROVE  AddedOK'
        BY <1>4, SameCalls DEF AddedOK
    <2>2. \A i \in Saves : form'.saves[i].what # form'.draft
        BY <1>4, <1>8, <2>1, FormFields, Numbers DEF FormInv, TextOK, CallsStay
    <2> QED BY <1>4, <2>1, <2>2, SameCalls DEF FormInv, AddedOK, CallsStay, Accepted
<1> QED BY <1>3, <1>5, <1>6, <1>7, <1>9, <1>10 DEF FormInv

LEMMA FormFormRead == ASSUME FormInv, FormRead PROVE FormInv'
<1>1. /\ form.fetch = "asked"
      /\ form' = [form EXCEPT !.fetch = "back", !.got = form.db,
                              !.excused = @ /\ ~(Refilled /\ UnderWay = {})]
    BY DEF FormRead
<1>2. FormOK'
    BY <1>1 DEF FormInv, FormOK
<1>3. /\ CallsStay /\ form'.db = form.db /\ form'.read = form.read /\ form'.got = form.db
      /\ form'.fetch = "back" /\ form'.base = form.base /\ form'.draft = form.draft
      /\ form'.late = form.late /\ form'.typed = form.typed /\ form'.busy = form.busy
      /\ form'.open = form.open /\ form'.excused = (form.excused /\ ~(Refilled /\ UnderWay = {}))
    BY <1>1 DEF FormInv, FormOK, CallsStay
<1>4. Sort.fill # "blank"
    BY <1>1 DEF FormInv, FetchOK
<1>5. TookOK' /\ BusyOK' /\ DraftOK' /\ TextOK' /\ AddedOK' /\ AloneOK' /\ ServedOK'
    BY <1>3, <1>4, SameTook, SameBusy, SameDraft, SameText, SameAdded, SameServed
<1>6. FetchOK' /\ ReadOK'
    BY <1>1, <1>3, SameCalls DEF FormInv, FetchOK, ReadOK, CallsStay
<1>7. BaseOK'
    <2>1. SUFFICES ASSUME Informed'
                   PROVE  /\ form.name \in {"template", "plan"} /\ form.open => form.base = form.db
                          /\ form.name = "maintenance" /\ form.db = form.read => form.base = form.db
        BY <1>3 DEF BaseOK, CallsStay
    <2>2. CASE Refilled /\ UnderWay = {}
        BY <2>2, FormFields, Sorts DEF Refilled
    <2>3. CASE ~(Refilled /\ UnderWay = {})
        <3>1. Informed
            BY <1>3, <2>1, <2>3, SameCalls DEF Informed
        <3> QED BY <1>1, <3>1 DEF FormInv, BaseOK
    <2> QED BY <2>2, <2>3
<1> QED BY <1>2, <1>5, <1>6, <1>7 DEF FormInv

LEMMA FormFormReadShown == ASSUME FormInv, FormReadShown PROVE FormInv'
<1> DEFINE all == form.name \in {"paymentNote", "settings"}
                  \/ (form.name = "maintenance" /\ form.got # form.read)
<1>1. Sort.fill # "blank" /\ form.fetch = "back"
    BY DEF FormReadShown, FormInv, FetchOK
<1>2. \E draft \in {form.draft, 0} :
          form' = [form EXCEPT !.fetch = "none", !.read = form.got, !.base = IF all THEN form.got ELSE @,
                               !.draft = draft]
    <2>1. Sort.fill = "load" <=> form.name = "settings"
        BY FormFields, Sorts
    <2>2. Sort.fill = "cache" <=> form.name = "maintenance"
        BY FormFields, Sorts
    <2> QED BY <2>1, <2>2 DEF FormReadShown, FormInv, FormOK
<1>3. FormOK'
    <2>1. PICK draft \in {form.draft, 0} :
              form' = [form EXCEPT !.fetch = "none", !.read = form.got,
                                   !.base = IF all THEN form.got ELSE @,
                                   !.draft = draft]
        BY <1>2
    <2>2. draft \in Values /\ form.got \in Values /\ form.base \in Values
        BY FormFields, Numbers
    <2> HIDE DEF all
    <2> QED BY <2>1, <2>2 DEF FormInv, FormOK
<1>4. /\ CallsStay /\ form'.db = form.db /\ form'.read = form.got /\ form'.got = form.got
      /\ form'.fetch = "none" /\ form'.base = (IF all THEN form.got ELSE form.base)
      /\ form'.draft = form.draft \/ form'.draft = 0
      /\ form'.late = form.late /\ form'.typed = form.typed /\ form'.busy = form.busy
      /\ form'.open = form.open /\ form'.excused = form.excused
    BY <1>2 DEF FormInv, FormOK, CallsStay
<1> HIDE DEF all
<1>5. TookOK' /\ BusyOK' /\ DraftOK' /\ TextOK' /\ AddedOK' /\ AloneOK' /\ ServedOK'
    BY <1>4, SameTook, SameBusy, SameDraft, SameText, SameAdded, SameServed
<1>6. FetchOK'
    BY <1>4 DEF FetchOK
<1>7. Informed' => Informed /\ form.got = form.db
    BY <1>1, <1>4, SameCalls DEF Informed, FormInv, ReadOK
<1>8. ReadOK'
    BY <1>4, <1>7 DEF ReadOK
<1>9. BaseOK'
    BY <1>1, <1>4, <1>7 DEF FormInv, BaseOK, CallsStay, all
<1> QED BY <1>3, <1>5, <1>6, <1>8, <1>9 DEF FormInv

LEMMA FormFormReadFails == ASSUME FormInv, FormReadFails PROVE FormInv'
<1>1. form' = [form EXCEPT !.fetch = "none", !.excused = TRUE, !.open = @ /\ Sort.fill # "load"]
    BY DEF FormReadFails
<1>2. FormOK'
    BY <1>1 DEF FormInv, FormOK
<1>3. /\ CallsStay /\ form'.fetch = "none" /\ form'.draft = form.draft /\ form'.db = form.db
      /\ form'.late = form.late /\ form'.typed = form.typed /\ form'.busy = form.busy
      /\ form'.excused
    BY <1>1 DEF FormInv, FormOK, CallsStay
<1>4. TookOK' /\ BusyOK' /\ DraftOK' /\ TextOK' /\ AddedOK' /\ AloneOK' /\ ServedOK'
    BY <1>3, SameTook, SameBusy, SameDraft, SameText, SameAdded, SameServed
<1>5. FetchOK' /\ ReadOK' /\ BaseOK'
    BY <1>3 DEF FetchOK, ReadOK, BaseOK, Informed
<1> QED BY <1>2, <1>4, <1>5 DEF FormInv

LEMMA FormBack == ASSUME FormInv, BackToForm PROVE FormInv'
<1>0. UnderWay = {} /\ form.fetch = "none"
    BY DEF BackToForm
<1>1. PICK again \in BOOLEAN :
          /\ Sort.fill = "load" => again
          /\ Sort.fill = "blank" => ~again
          /\ form' = [form EXCEPT !.open = ~Sort.modal, !.base = Filled, !.draft = 0,
                                  !.fetch = IF again THEN "asked" ELSE "none",
                                  !.excused = @ \/ (~again /\ form.read # form.db)]
    BY DEF BackToForm
<1>2. FormOK'
    BY <1>1, FormFields, Numbers DEF FormInv, FormOK
<1>3. /\ CallsStay /\ form'.db = form.db /\ form'.read = form.read /\ form'.base = Filled
      /\ form'.fetch = (IF again THEN "asked" ELSE "none") /\ form'.draft = 0
      /\ form'.late = form.late /\ form'.typed = form.typed /\ form'.busy = form.busy
      /\ form'.open = ~Sort.modal /\ form'.excused = (form.excused \/ (~again /\ form.read # form.db))
    BY <1>1 DEF FormInv, FormOK, CallsStay
<1>4. TookOK' /\ BusyOK' /\ DraftOK' /\ TextOK' /\ AddedOK' /\ AloneOK' /\ ServedOK'
    BY <1>3, SameTook, SameBusy, SameDraft, SameText, SameAdded, SameServed
<1>5. FetchOK'
    BY <1>0, <1>1, <1>3, SameCalls DEF FetchOK
<1>6. Informed' => Sort.fill # "blank" /\ Filled = form.read /\ (~again => form.read = form.db)
    BY <1>3, SameCalls DEF Informed, Filled
<1>7. ReadOK'
    BY <1>3, <1>6 DEF ReadOK
<1>8. form.name \in {"template", "plan"} => ~form'.open
    BY <1>3, FormFields, Sorts
<1>9. BaseOK'
    BY <1>3, <1>6, <1>8 DEF BaseOK, CallsStay
<1> QED BY <1>2, <1>4, <1>5, <1>7, <1>9 DEF FormInv


LEMMA FormOpen == ASSUME FormInv, OpenForm PROVE FormInv'
<1> DEFINE forgets == form.name = "invite"
           stale == Sort.fill = "row" /\ (form.fetch # "none" \/ UnderWay # {})
<1>1. \E draft \in {form.draft, 0} :
          /\ draft = form.draft => form.name = "preset" \/ form.draft = 0
          /\ form' = [form EXCEPT !.open = TRUE, !.base = Filled, !.draft = draft,
                                  !.late = UnderWay # {}, !.busy = @ /\ form.name # "invite",
                                  !.saves = [i \in Saves |->
                                              [form.saves[i] EXCEPT !.own = @ /\ form.name # "invite"]],
                                  !.excused = @ \/ stale]
    BY DEF OpenForm
<1>2. PICK draft \in {form.draft, 0} :
          /\ draft = form.draft => form.name = "preset" \/ form.draft = 0
          /\ form' = [form EXCEPT !.open = TRUE, !.base = Filled, !.draft = draft,
                                  !.late = UnderWay # {}, !.busy = @ /\ form.name # "invite",
                                  !.saves = [i \in Saves |->
                                              [form.saves[i] EXCEPT !.own = @ /\ form.name # "invite"]],
                                  !.excused = @ \/ stale]
    BY <1>1
<1> DEFINE saves == [i \in Saves |-> [form.saves[i] EXCEPT !.own = @ /\ form.name # "invite"]]
<1>3. saves \in [Saves -> SaveRecords]
    <2>1. ASSUME NEW i \in Saves
          PROVE  [form.saves[i] EXCEPT !.own = @ /\ form.name # "invite"] \in SaveRecords
        <3>1. form.saves[i] \in SaveRecords
            BY FormFields
        <3> QED BY <3>1 DEF SaveRecords
    <2> QED BY <2>1
<1>4. \A i \in Saves : /\ saves[i].phase = form.saves[i].phase /\ saves[i].what = form.saves[i].what
                       /\ saves[i].own = (form.saves[i].own /\ form.name # "invite")
    <2>1. ASSUME NEW i \in Saves
          PROVE  /\ saves[i].phase = form.saves[i].phase /\ saves[i].what = form.saves[i].what
                 /\ saves[i].own = (form.saves[i].own /\ form.name # "invite")
        <3>1. form.saves[i] \in SaveRecords
            BY FormFields
        <3> QED BY <3>1 DEF SaveRecords
    <2> QED BY <2>1
<1>5. form' = [form EXCEPT !.open = TRUE, !.base = Filled, !.draft = draft, !.late = UnderWay # {},
                           !.busy = form.busy /\ form.name # "invite", !.saves = saves,
                           !.excused = form.excused \/ stale]
    BY <1>2
<1> HIDE DEF saves
<1>6. FormOK'
    <2>1. draft \in Values
        BY FormFields, Numbers
    <2> QED BY <1>3, <1>5, <2>1, FormFields DEF FormInv, FormOK
<1>7. /\ form'.name = form.name /\ form'.took = form.took /\ form'.saves = saves
      /\ form'.db = form.db /\ form'.read = form.read /\ form'.got = form.got
      /\ form'.fetch = form.fetch /\ form'.base = Filled /\ form'.draft = draft
      /\ form'.late = (UnderWay # {}) /\ form'.typed = form.typed
      /\ form'.busy = (form.busy /\ form.name # "invite")
      /\ form'.excused = (form.excused \/ stale) /\ form'.open = TRUE
    BY <1>5 DEF FormInv, FormOK
<1>8. UnderWay' = UnderWay /\ Accepted' = Accepted /\ Answerless' = Answerless /\ Sort' = Sort
    BY <1>4, <1>7 DEF UnderWay, Accepted, Answerless, Sort
<1>9. UnderWay \subseteq Saves /\ Accepted \subseteq Saves /\ Answerless \subseteq Saves
    BY DEF UnderWay, Accepted, Answerless
<1>10. BusyOK'
    <2>1. CASE form.name = "invite"
        BY <1>4, <1>7, <1>8, <1>9, <2>1 DEF BusyOK
    <2>2. CASE form.name # "invite"
        <3>1. \A i \in UnderWay : form'.saves[i].own = form.saves[i].own
            BY <1>4, <1>7, <1>9, <2>2, FormFields DEF SaveRecords
        <3>2. form'.busy = form.busy
            BY <1>7, <2>2 DEF FormInv, FormOK
        <3> QED BY <1>7, <1>8, <2>2, <3>1, <3>2 DEF FormInv, BusyOK
    <2> QED BY <2>1, <2>2
<1>11. AloneOK' /\ FetchOK'
    BY <1>7, <1>8 DEF FormInv, AloneOK, FetchOK
<1>12. TookOK'
    BY <1>4, <1>7 DEF FormInv, TookOK
<1>13. DraftOK'
    BY <1>7, <1>8 DEF DraftOK
<1>14. TextOK'
    BY <1>4, <1>7, <1>8, FormFields, Numbers DEF FormInv, TextOK
<1>15. ServedOK'
    BY <1>4, <1>7, <1>8, <1>9 DEF FormInv, ServedOK
<1>16. AddedOK'
    <2>1. SUFFICES ASSUME Sort.fill = "blank", Sort.waits, ~form.excused PROVE AddedOK'
        BY <1>7, <1>8 DEF AddedOK
    <2>2. CASE form.name = "preset"
        <3>1. \A i \in Saves : form'.saves[i].own = form.saves[i].own
            BY <1>4, <1>7, <2>2, FormFields DEF SaveRecords
        <3> QED BY <1>4, <1>7, <1>8, <1>9, <2>1, <3>1 DEF FormInv, AddedOK
    <2>3. CASE form.name # "preset"
        <3>1. form'.draft = 0
            BY <1>2, <1>7, <2>3
        <3> QED BY <1>4, <1>7, <1>8, <1>9, <2>1, <3>1 DEF FormInv, AddedOK
    <2> QED BY <2>2, <2>3
<1>17. Informed' => Informed /\ ~stale
    BY <1>7, <1>8 DEF Informed
<1>18. ReadOK'
    BY <1>7, <1>8, <1>17 DEF FormInv, ReadOK
<1>19. form.name \in {"template", "plan", "promo", "preset", "invite"}
       /\ (Sort.fill = "row" <=> form.name \in {"template", "plan"})
    BY FormFields, Sorts DEF OpenForm
<1>20. BaseOK'
    BY <1>7, <1>17, <1>19 DEF FormInv, BaseOK, ReadOK, Informed, Filled
<1> QED BY <1>6, <1>10, <1>11, <1>12, <1>13, <1>14, <1>15, <1>16, <1>18, <1>20 DEF FormInv

LEMMA FormSaves == ASSUME FormInv, SaveForm PROVE FormInv'
<1>1. PICK k \in Unsent : form' = Sending(k)
    BY DEF SaveForm
<1>2. k \in Saves /\ form.saves[k].phase = "none" /\ MaySave /\ ~(Sort.waits /\ form.busy)
    BY DEF Unsent, SaveForm
<1> DEFINE new == [phase |-> "sent", what |-> FormShows, own |-> TRUE]
           stale == ~Sort.waits /\ Sort.fill # "blank" /\ UnderWay # {}
           waits == Sort.waits
<1>3. form' = [form EXCEPT !.saves[k] = new, !.busy = waits, !.excused = @ \/ stale]
    BY <1>1 DEF Sending
<1>4. new \in SaveRecords /\ waits \in BOOLEAN
    <2>1. new \in SaveRecords
        BY FormFields DEF SaveRecords
    <2>2. Sort.waits = TRUE \/ Sort.waits = FALSE
        BY FormFields DEF Sort, AllForms, Form, note, paymentNote, settings, maintenance, template,
           broadcast, plan, promo, preset, invite
    <2> QED BY <2>1, <2>2
<1> HIDE DEF waits
<1>5. FormOK'
    BY <1>2, <1>3, <1>4 DEF FormInv, FormOK
<1>6. /\ form'.name = form.name /\ form'.took = form.took
      /\ form'.saves[k] = new /\ \A i \in Saves \ {k} : form'.saves[i] = form.saves[i]
      /\ form'.db = form.db /\ form'.read = form.read /\ form'.got = form.got
      /\ form'.fetch = form.fetch /\ form'.base = form.base /\ form'.draft = form.draft
      /\ form'.late = form.late /\ form'.typed = form.typed /\ form'.busy = waits
      /\ form'.open = form.open /\ form'.excused = (form.excused \/ stale)
    BY <1>2, <1>3 DEF FormInv, FormOK
<1>7. new.phase = "sent" /\ new.what = FormShows /\ new.own
    OBVIOUS
<1>8. UnderWay' = UnderWay \union {k} /\ Accepted' = Accepted \union {k} /\ Answerless' = Answerless
      /\ Sort' = Sort /\ k \notin Accepted /\ k \notin UnderWay
    BY <1>2, <1>6, <1>7 DEF UnderWay, Accepted, Answerless, Sort
<1>9. UnderWay \subseteq Saves /\ Accepted \subseteq Saves /\ Answerless \subseteq Saves
    BY DEF UnderWay, Accepted, Answerless
<1> HIDE DEF new
<1>10. Sort.waits => \A i \in UnderWay : ~form.saves[i].own
    BY <1>2 DEF FormInv, BusyOK
<1>11. BusyOK'
    BY <1>6, <1>7, <1>8, <1>9, <1>10 DEF FormInv, BusyOK, waits
<1>12. AloneOK'
    <2>1. SUFFICES ASSUME Sort.fill # "blank", ~form'.excused PROVE UnderWay = {}
        BY <1>8 DEF AloneOK
    <2>2. CASE ~Sort.waits
        BY <1>6, <2>1, <2>2
    <2>3. CASE Sort.waits
        BY <1>10, <2>1, <2>3, FormFields, Sorts DEF FormInv, BusyOK
    <2> QED BY <2>2, <2>3
<1>13. FetchOK'
    BY <1>2, <1>6, <1>8 DEF FormInv, FetchOK, MaySave, InReach
<1>14. TookOK'
    BY <1>6, <1>7 DEF FormInv, TookOK
<1>15. DraftOK'
    BY <1>6, <1>7, <1>8, <1>9 DEF FormInv, DraftOK, FormShows
<1>16. Sort.fill = "blank" => form.draft # 0 /\ FormShows = form.draft
    BY <1>2, FormFields, Sorts DEF MaySave, FormShows
<1>17. TextOK'
    BY <1>6, <1>7, <1>8, <1>16 DEF FormInv, TextOK
<1>18. AddedOK'
    <2>1. SUFFICES ASSUME Sort.fill = "blank", Sort.waits, ~form.excused PROVE AddedOK'
        BY <1>6, <1>8 DEF AddedOK
    <2>2. \A i \in Accepted : form.saves[i].what # form.draft
        BY <1>10, <1>16, <2>1 DEF FormInv, AddedOK
    <2>3. \A v \in Values : form'.took[v] <= 1
        BY <1>6, <2>1 DEF FormInv, AddedOK
    <2>4. ASSUME NEW v \in Values, form'.took[v] > 0
          PROVE  \E i \in Saves : form'.saves[i].what = v /\ form'.saves[i].phase \in {"served", "done"}
        <3>1. PICK i \in Saves : form.saves[i].what = v /\ form.saves[i].phase \in {"served", "done"}
            BY <1>6, <2>1, <2>4 DEF FormInv, AddedOK
        <3> QED BY <1>2, <1>6, <3>1
    <2>5. \A i, j \in Accepted' : form'.saves[i].what = form'.saves[j].what => i = j
        BY <1>6, <1>7, <1>8, <1>9, <1>16, <2>1, <2>2 DEF FormInv, AddedOK
    <2>6. \A i \in Accepted' : form'.draft # 0 /\ form'.saves[i].what = form'.draft =>
              i \in UnderWay' /\ form'.saves[i].own
        BY <1>6, <1>7, <1>8, <1>9, <2>2
    <2> QED BY <2>3, <2>4, <2>5, <2>6 DEF AddedOK
<1>19. ServedOK'
    BY <1>2, <1>6, <1>8, <1>9 DEF FormInv, ServedOK, Answerless
<1>20. ReadOK' /\ BaseOK'
    BY <1>6, <1>8 DEF FormInv, ReadOK, BaseOK, Informed
<1> QED BY <1>5, <1>11, <1>12, <1>13, <1>14, <1>15, <1>17, <1>18, <1>19, <1>20 DEF FormInv

LEMMA FormServed == ASSUME FormInv, NEW k \in Saves, SaveServed(k) PROVE FormInv'
<1> DEFINE v == form.saves[k].what
           db == IF Sort.fill = "blank" THEN form.db ELSE v
<1>1. form.saves[k].phase = "sent" /\ form' = [form EXCEPT !.saves[k].phase = "served",
                                                           !.took[v] = @ + 1, !.db = db]
    BY DEF SaveServed, FormInv, FormOK
<1>2. form.saves[k] \in SaveRecords /\ v \in Values /\ form.took[v] \in Nat /\ db \in Values
    BY FormFields DEF SaveRecords
<1> DEFINE new == [form.saves[k] EXCEPT !.phase = "served"]
<1>3. new \in SaveRecords /\ new.phase = "served" /\ new.what = v /\ new.own = form.saves[k].own
    BY <1>2 DEF SaveRecords
<1>4. form' = [form EXCEPT !.saves = [form.saves EXCEPT ![k] = new],
                           !.took = [form.took EXCEPT ![v] = form.took[v] + 1], !.db = db]
    BY <1>1 DEF FormInv, FormOK
<1> HIDE DEF new, db
<1>5. FormOK'
    <2>1. [form.saves EXCEPT ![k] = new] \in [Saves -> SaveRecords]
        BY <1>3, FormFields
    <2>2. [form.took EXCEPT ![v] = form.took[v] + 1] \in [Values -> Nat]
        BY <1>2, FormFields
    <2> QED BY <1>2, <1>4, <2>1, <2>2 DEF FormInv, FormOK
<1>6. /\ form'.name = form.name /\ form'.took = [form.took EXCEPT ![v] = form.took[v] + 1]
      /\ form'.saves = [form.saves EXCEPT ![k] = new]
      /\ form'.db = db /\ form'.read = form.read /\ form'.got = form.got
      /\ form'.fetch = form.fetch /\ form'.base = form.base /\ form'.draft = form.draft
      /\ form'.late = form.late /\ form'.typed = form.typed /\ form'.busy = form.busy
      /\ form'.open = form.open /\ form'.excused = form.excused
    BY <1>4 DEF FormInv, FormOK
<1>7. form'.saves[k] = new /\ \A i \in Saves \ {k} : form'.saves[i] = form.saves[i]
    BY <1>6, FormFields
<1>8. form'.took[v] = form.took[v] + 1 /\ \A w \in Values \ {v} : form'.took[w] = form.took[w]
    BY <1>2, <1>6, FormFields
<1>9. UnderWay' = UnderWay /\ Accepted' = Accepted /\ Answerless' = Answerless \union {k} /\ Sort' = Sort
      /\ k \in UnderWay /\ k \in Accepted
    BY <1>1, <1>3, <1>6, <1>7 DEF UnderWay, Accepted, Answerless, Sort
<1>10. UnderWay \subseteq Saves /\ Accepted \subseteq Saves /\ Answerless \subseteq UnderWay
    BY DEF UnderWay, Accepted, Answerless
<1>11. \A i \in Saves : form'.saves[i].what = form.saves[i].what /\ form'.saves[i].own = form.saves[i].own
    BY <1>3, <1>7
<1>12. BusyOK'
    BY <1>6, <1>9, <1>10, <1>11 DEF FormInv, BusyOK
<1>13. AloneOK' /\ FetchOK'
    BY <1>6, <1>9 DEF FormInv, AloneOK, FetchOK
<1>14. TookOK'
    <2>1. \A w \in Values : form'.took[w] >= form.took[w] /\ form.took[w] \in Nat /\ form'.took[w] \in Nat
        BY <1>2, <1>8, FormFields
    <2>2. \A i \in Saves : form.saves[i].what \in Values
        BY FormFields DEF SaveRecords
    <2> QED BY <1>2, <1>3, <1>7, <1>8, <1>11, <2>1, <2>2 DEF FormInv, TookOK
<1>15. DraftOK' /\ TextOK'
    BY <1>6, <1>9, <1>10, <1>11 DEF FormInv, DraftOK, TextOK
<1>16. ServedOK'
    BY <1>6, <1>9, <1>10, <1>11 DEF FormInv, ServedOK, AloneOK, db
<1>17. ReadOK' /\ BaseOK'
    BY <1>9 DEF ReadOK, BaseOK, Informed
<1>18. AddedOK'
    <2>1. SUFFICES ASSUME Sort.fill = "blank", Sort.waits, ~form.excused PROVE AddedOK'
        BY <1>6, <1>9 DEF AddedOK
    <2>2. form.took[v] = 0
        <3>1. ASSUME form.took[v] > 0 PROVE FALSE
            <4>1. PICK i \in Saves : form.saves[i].what = v /\ form.saves[i].phase \in {"served", "done"}
                BY <1>2, <2>1, <3>1 DEF FormInv, AddedOK
            <4>2. i \in Accepted /\ i # k
                BY <1>1, <4>1 DEF Accepted
            <4> QED BY <1>9, <2>1, <4>1, <4>2 DEF FormInv, AddedOK
        <3> QED BY <1>2, <3>1
    <2>3. \A w \in Values : form'.took[w] <= 1
        BY <1>8, <2>1, <2>2 DEF FormInv, AddedOK
    <2>4. ASSUME NEW w \in Values, form'.took[w] > 0
          PROVE  \E i \in Saves : form'.saves[i].what = w /\ form'.saves[i].phase \in {"served", "done"}
        <3>1. CASE w = v
            BY <1>3, <1>7, <3>1
        <3>2. CASE w # v
            <4>1. PICK i \in Saves : form.saves[i].what = w /\ form.saves[i].phase \in {"served", "done"}
                BY <1>8, <2>1, <2>4, <3>2 DEF FormInv, AddedOK
            <4> QED BY <1>1, <1>7, <4>1
        <3> QED BY <3>1, <3>2
    <2>5. \A i, j \in Accepted' : form'.saves[i].what = form'.saves[j].what => i = j
        BY <1>9, <1>10, <1>11, <2>1 DEF FormInv, AddedOK
    <2>6. \A i \in Accepted' : form'.draft # 0 /\ form'.saves[i].what = form'.draft =>
              i \in UnderWay' /\ form'.saves[i].own
        BY <1>6, <1>9, <1>10, <1>11, <2>1 DEF FormInv, AddedOK
    <2> QED BY <2>3, <2>4, <2>5, <2>6 DEF AddedOK
<1> QED BY <1>5, <1>12, <1>13, <1>14, <1>15, <1>16, <1>17, <1>18 DEF FormInv


\* A call that ends: its answer comes, or it fails.
CallEnds(k, phase) ==
    /\ form'.name = form.name /\ form'.took = form.took /\ form'.db = form.db /\ form'.read = form.read
    /\ form'.got = form.got /\ form'.late = form.late /\ form'.typed = form.typed
    /\ form'.saves[k].phase = phase
    /\ \A i \in Saves : /\ form'.saves[i].what = form.saves[i].what
                        /\ form'.saves[i].own = form.saves[i].own
                        /\ i # k => form'.saves[i].phase = form.saves[i].phase
    /\ form'.busy = (form.busy /\ ~form.saves[k].own)

LEMMA CallGone ==
    ASSUME NEW k \in UnderWay, NEW phase \in {"done", "failed"}, CallEnds(k, phase)
    PROVE  /\ UnderWay' = UnderWay \ {k} /\ Answerless' = Answerless \ {k} /\ Sort' = Sort
           /\ phase = "failed" => Accepted' = Accepted \ {k}
           /\ phase = "done" => Accepted' = Accepted
           /\ UnderWay \subseteq Accepted /\ Accepted \subseteq Saves /\ Answerless \subseteq UnderWay
           /\ k \in Saves
BY DEF CallEnds, UnderWay, Answerless, Accepted, Sort

LEMMA CallGoneBusy ==
    ASSUME FormInv, NEW k \in UnderWay, NEW phase \in {"done", "failed"}, CallEnds(k, phase)
    PROVE  BusyOK'
<1>1. SUFFICES /\ Sort.waits =>
                      /\ form'.busy <=> \E i \in UnderWay \ {k} : form.saves[i].own
                      /\ \A i, j \in UnderWay \ {k} : form.saves[i].own /\ form.saves[j].own => i = j
               /\ form.name # "invite" => \A i \in UnderWay \ {k} : form.saves[i].own
    BY CallGone DEF CallEnds, BusyOK
<1>2. BusyOK
    BY DEF FormInv
<1>3. form.name # "invite" => \A i \in UnderWay \ {k} : form.saves[i].own
    BY <1>2 DEF BusyOK
<1>4. ASSUME Sort.waits
      PROVE  /\ form'.busy <=> \E i \in UnderWay \ {k} : form.saves[i].own
             /\ \A i, j \in UnderWay \ {k} : form.saves[i].own /\ form.saves[j].own => i = j
    <2>1. /\ form.busy <=> \E i \in UnderWay : form.saves[i].own
          /\ \A i, j \in UnderWay : form.saves[i].own /\ form.saves[j].own => i = j
        BY <1>2, <1>4 DEF BusyOK
    <2>2. CASE form.saves[k].own
        <3>1. ~form'.busy
            BY <2>2 DEF CallEnds
        <3> QED BY <2>1, <2>2, <3>1
    <2>3. CASE ~form.saves[k].own
        <3>1. form'.busy <=> form.busy
            BY <2>3 DEF CallEnds
        <3> QED BY <2>1, <2>3, <3>1
    <2> QED BY <2>2, <2>3
<1> QED BY <1>1, <1>3, <1>4

LEMMA CallGoneRest ==
    ASSUME FormInv, NEW k \in UnderWay, NEW phase \in {"done", "failed"}, CallEnds(k, phase),
           phase = "done" => form.saves[k].phase = "served",
           form'.draft = form.draft \/ form'.draft = 0,
           phase = "done" /\ Sort.done \in {"close", "empty"} => form'.draft = 0,
           ~form'.excused => ~form.excused,
           phase = "failed" /\ form.saves[k].phase = "served" => form'.excused
    PROVE  TookOK' /\ DraftOK' /\ TextOK' /\ AddedOK' /\ AloneOK' /\ ServedOK'
<1>1. TookOK'
    BY CallGone DEF FormInv, TookOK, CallEnds
<1>2. DraftOK'
    BY CallGone DEF FormInv, DraftOK, CallEnds
<1>3. TextOK'
    BY CallGone, FormFields, Numbers DEF FormInv, TextOK, CallEnds
<1>4. AloneOK' /\ ServedOK'
    BY CallGone DEF FormInv, AloneOK, ServedOK, CallEnds
<1>5. ASSUME Sort.fill = "blank", Sort.waits, ~form'.excused
      PROVE  /\ \A v \in Values : form'.took[v] <= 1
             /\ \A v \in Values : form'.took[v] > 0 =>
                    \E i \in Saves : form'.saves[i].what = v
                                    /\ form'.saves[i].phase \in {"served", "done"}
             /\ \A i, j \in Accepted' : form'.saves[i].what = form'.saves[j].what => i = j
             /\ \A i \in Accepted' : form'.draft # 0 /\ form'.saves[i].what = form'.draft =>
                    i \in UnderWay' /\ form'.saves[i].own
    <2>1. /\ \A v \in Values : form.took[v] <= 1
          /\ \A v \in Values : form.took[v] > 0 =>
                 \E i \in Saves : form.saves[i].what = v /\ form.saves[i].phase \in {"served", "done"}
          /\ \A i, j \in Accepted : form.saves[i].what = form.saves[j].what => i = j
          /\ \A i \in Accepted : form.draft # 0 /\ form.saves[i].what = form.draft =>
                 i \in UnderWay /\ form.saves[i].own
        BY <1>5 DEF FormInv, AddedOK
    <2>2. phase = "done" => form'.draft = 0
        BY <1>5, FormFields, Sorts
    <2>3. Accepted' \subseteq Accepted /\ Accepted \subseteq Saves
        BY CallGone
    <2>4. \A v \in Values : form'.took[v] <= 1
        BY <2>1 DEF CallEnds
    <2>5. ASSUME NEW v \in Values, form'.took[v] > 0
          PROVE  \E i \in Saves : form'.saves[i].what = v /\ form'.saves[i].phase \in {"served", "done"}
        <3>1. PICK i \in Saves : form.saves[i].what = v /\ form.saves[i].phase \in {"served", "done"}
            BY <2>1, <2>5 DEF CallEnds
        <3>2. form'.saves[i].phase \in {"served", "done"}
            <4>1. CASE i # k
                BY <3>1, <4>1 DEF CallEnds
            <4>2. CASE i = k
                <5>1. form.saves[k].phase = "served"
                    BY <3>1, <4>2 DEF UnderWay
                <5>2. phase = "done"
                    BY <1>5, <5>1
                <5> QED BY <4>2, <5>2 DEF CallEnds
            <4> QED BY <4>1, <4>2
        <3> QED BY <3>1, <3>2 DEF CallEnds
    <2>6. \A i, j \in Accepted' : form'.saves[i].what = form'.saves[j].what => i = j
        BY <2>1, <2>3 DEF CallEnds
    <2>7. ASSUME NEW i \in Accepted', form'.draft # 0, form'.saves[i].what = form'.draft
          PROVE  i \in UnderWay' /\ form'.saves[i].own
        <3>1. phase = "failed" /\ form'.draft = form.draft
            BY <2>2, <2>7
        <3>2. i \in Accepted /\ i # k /\ i \in Saves
            BY <2>3, <2>7, <3>1, CallGone
        <3>3. form.saves[i].what = form.draft /\ form.draft # 0
            BY <2>7, <3>1, <3>2 DEF CallEnds
        <3>4. i \in UnderWay /\ form.saves[i].own
            BY <2>1, <3>2, <3>3
        <3> QED BY <3>2, <3>4, CallGone DEF CallEnds
    <2> QED BY <2>4, <2>5, <2>6, <2>7
<1>6. AddedOK'
    <2>1. Sort' = Sort
        BY CallGone
    <2> QED BY <1>5, <2>1 DEF AddedOK
<1> QED BY <1>1, <1>2, <1>3, <1>4, <1>6

LEMMA FormFails == ASSUME FormInv, NEW k \in Saves, SaveFails(k) PROVE FormInv'
<1> DEFINE served == form.saves[k].phase = "served"
           new == [form.saves[k] EXCEPT !.phase = "failed"]
<1>1. k \in UnderWay
    BY DEF SaveFails
<1>2. form' = [form EXCEPT !.excused = @ \/ served, !.saves[k].phase = "failed",
                           !.busy = @ /\ ~form.saves[k].own]
    BY DEF SaveFails, Ends
<1>3. form.saves[k] \in SaveRecords
    BY FormFields
<1>4. new \in SaveRecords /\ new.phase = "failed" /\ new.what = form.saves[k].what
      /\ new.own = form.saves[k].own
    BY <1>3 DEF SaveRecords
<1>5. form' = [form EXCEPT !.excused = form.excused \/ served, !.saves = [form.saves EXCEPT ![k] = new],
                           !.busy = form.busy /\ ~form.saves[k].own]
    BY <1>2 DEF FormInv, FormOK
<1> HIDE DEF new
<1>6. FormOK'
    <2>1. [form.saves EXCEPT ![k] = new] \in [Saves -> SaveRecords]
        BY <1>4, FormFields
    <2> QED BY <1>5, <2>1 DEF FormInv, FormOK
<1>7. /\ form'.name = form.name /\ form'.took = form.took /\ form'.db = form.db /\ form'.read = form.read
      /\ form'.got = form.got /\ form'.late = form.late /\ form'.typed = form.typed
      /\ form'.saves = [form.saves EXCEPT ![k] = new] /\ form'.busy = (form.busy /\ ~form.saves[k].own)
      /\ form'.fetch = form.fetch /\ form'.base = form.base /\ form'.draft = form.draft
      /\ form'.open = form.open /\ form'.excused = (form.excused \/ served)
    BY <1>5 DEF FormInv, FormOK
<1>8. form'.saves[k] = new /\ \A i \in Saves \ {k} : form'.saves[i] = form.saves[i]
    BY <1>7, FormFields
<1>9. CallEnds(k, "failed")
    BY <1>4, <1>7, <1>8 DEF CallEnds
<1>10. BusyOK'
    BY <1>1, <1>9, CallGoneBusy
<1>11. TookOK' /\ DraftOK' /\ TextOK' /\ AddedOK' /\ AloneOK' /\ ServedOK'
    BY <1>1, <1>7, <1>9, CallGoneRest
<1>12. Informed' => Informed
    <2>1. SUFFICES ASSUME Informed' PROVE Answerless = {}
        BY <1>1, <1>7, <1>9, <2>1, CallGone DEF Informed
    <2>2. ~served
        BY <1>7, <2>1 DEF Informed
    <2>3. k \notin Answerless /\ Answerless' = {} /\ Answerless' = Answerless \ {k}
        BY <1>1, <1>9, <2>1, <2>2, CallGone DEF Informed, Answerless
    <2> QED BY <2>3
<1>13. FetchOK' /\ ReadOK' /\ BaseOK'
    BY <1>1, <1>7, <1>9, <1>12, CallGone DEF FormInv, FetchOK, ReadOK, BaseOK
<1> QED BY <1>6, <1>10, <1>11, <1>13 DEF FormInv

LEMMA FormAnswered == ASSUME FormInv, NEW k \in Saves, SaveAnswered(k) PROVE FormInv'
<1> DEFINE v == form.saves[k].what
           new == [form.saves[k] EXCEPT !.phase = "done"]
           older == Sort.fill = "cache" /\ form.fetch = "back" /\ form.got # form.db
           asked == IF Sort.fill = "row" THEN "asked" ELSE form.fetch
           open == IF Sort.done = "close" THEN FALSE ELSE form.open
           base == IF Sort.done \in {"answer", "keep"} THEN v ELSE form.base
           draft == IF Sort.done = "keep" /\ form.draft # v THEN form.draft ELSE 0
<1>1. form.saves[k].phase = "served" /\ k \in UnderWay /\ k \in Answerless
    BY DEF SaveAnswered, UnderWay, Answerless
<1>2. form.saves[k] \in SaveRecords /\ v \in Values /\ 0 \in Values
    BY FormFields, Numbers DEF SaveRecords
<1>3. new \in SaveRecords /\ new.phase = "done" /\ new.what = v /\ new.own = form.saves[k].own
    BY <1>2 DEF SaveRecords
<1>4. /\ Sort.done \in {"empty", "close", "answer", "keep"}
      /\ Sort.done = "close" \/ Sort.done = "empty" \/ Sort.done = "answer" \/ Sort.done = "keep"
    BY FormFields, Sorts
<1>5. form' = [form EXCEPT !.open = open, !.base = base, !.draft = draft, !.fetch = asked,
                           !.excused = form.excused \/ older,
                           !.saves = [form.saves EXCEPT ![k] = new],
                           !.busy = form.busy /\ ~form.saves[k].own]
    <2>1. CASE Sort.done = "empty"
        <3>1. form' = Ends(k, "done", [[form EXCEPT !.draft = 0]
                                  EXCEPT !.fetch = asked, !.excused = @ \/ older])
            BY <2>1 DEF SaveAnswered
        <3>2. open = form.open /\ base = form.base /\ draft = 0
            BY <2>1
        <3> HIDE DEF new, open, base, draft, asked, older
        <3>3. form' = [[form EXCEPT !.draft = 0]
                       EXCEPT !.fetch = asked, !.excused = form.excused \/ older,
                              !.saves = [form.saves EXCEPT ![k] = new],
                              !.busy = form.busy /\ ~form.saves[k].own]
            BY <3>1 DEF Ends, FormInv, FormOK, new
        <3> QED BY <3>2, <3>3 DEF FormInv, FormOK
    <2>2. CASE Sort.done = "close"
        <3>1. form' = Ends(k, "done", [[form EXCEPT !.open = FALSE, !.draft = 0]
                                  EXCEPT !.fetch = asked, !.excused = @ \/ older])
            BY <2>2 DEF SaveAnswered
        <3>2. open = FALSE /\ base = form.base /\ draft = 0
            BY <2>2
        <3> HIDE DEF new, open, base, draft, asked, older
        <3>3. form' = [[form EXCEPT !.open = FALSE, !.draft = 0]
                       EXCEPT !.fetch = asked, !.excused = form.excused \/ older,
                              !.saves = [form.saves EXCEPT ![k] = new],
                              !.busy = form.busy /\ ~form.saves[k].own]
            BY <3>1 DEF Ends, FormInv, FormOK, new
        <3> QED BY <3>2, <3>3 DEF FormInv, FormOK
    <2>3. CASE Sort.done = "answer"
        <3>1. form' = Ends(k, "done", [[form EXCEPT !.base = v, !.draft = 0]
                                  EXCEPT !.fetch = asked, !.excused = @ \/ older])
            BY <2>3 DEF SaveAnswered
        <3>2. open = form.open /\ base = v /\ draft = 0
            BY <2>3
        <3> HIDE DEF new, open, base, draft, asked, older
        <3>3. form' = [[form EXCEPT !.base = v, !.draft = 0]
                       EXCEPT !.fetch = asked, !.excused = form.excused \/ older,
                              !.saves = [form.saves EXCEPT ![k] = new],
                              !.busy = form.busy /\ ~form.saves[k].own]
            BY <3>1 DEF Ends, FormInv, FormOK, new
        <3> QED BY <3>2, <3>3 DEF FormInv, FormOK
    <2>4. CASE Sort.done = "keep"
        <3>1. form' = Ends(k, "done", [[form EXCEPT !.base = v, !.draft = IF @ = v THEN 0 ELSE @]
                                  EXCEPT !.fetch = asked, !.excused = @ \/ older])
            BY <2>4 DEF SaveAnswered
        <3>2. open = form.open /\ base = v /\ draft = (IF form.draft = v THEN 0 ELSE form.draft)
            BY <2>4
        <3> HIDE DEF new, open, base, draft, asked, older
        <3>3. form' = [[form EXCEPT !.base = v, !.draft = IF @ = v THEN 0 ELSE @]
                       EXCEPT !.fetch = asked, !.excused = form.excused \/ older,
                              !.saves = [form.saves EXCEPT ![k] = new],
                              !.busy = form.busy /\ ~form.saves[k].own]
            BY <3>1 DEF Ends, FormInv, FormOK, new
        <3> QED BY <3>2, <3>3 DEF FormInv, FormOK
    <2> QED BY <1>4, <2>1, <2>2, <2>3, <2>4
<1>6. open \in BOOLEAN /\ base \in Values /\ draft \in Values /\ asked \in {"none", "asked", "back"}
    <2>1. form.open \in BOOLEAN /\ form.fetch \in {"none", "asked", "back"}
        BY DEF FormInv, FormOK
    <2> QED BY <1>2, <2>1, FormFields
<1>7. (draft = form.draft \/ draft = 0) /\ (Sort.done = "close" \/ Sort.done = "empty" => draft = 0)
    OBVIOUS
<1>8. /\ Sort.fill = "row" => asked = "asked"
      /\ Sort.fill # "row" => asked = form.fetch
      /\ Sort.done = "answer" => base = v
      /\ Sort.done = "keep" => base = v
      /\ Sort.done = "close" => ~open
      /\ Sort.done # "close" => open = form.open
      /\ Sort.done \notin {"answer", "keep"} => base = form.base
    OBVIOUS
<1> HIDE DEF new, open, base, draft, asked, older
<1>9. FormOK'
    <2>1. [form.saves EXCEPT ![k] = new] \in [Saves -> SaveRecords]
        BY <1>3, FormFields
    <2>2. (form.excused \/ older) \in BOOLEAN /\ (form.busy /\ ~form.saves[k].own) \in BOOLEAN
        OBVIOUS
    <2> QED BY <1>5, <1>6, <2>1, <2>2 DEF FormInv, FormOK
<1>10. /\ form'.name = form.name /\ form'.took = form.took /\ form'.db = form.db /\ form'.read = form.read
       /\ form'.got = form.got /\ form'.late = form.late /\ form'.typed = form.typed
       /\ form'.saves = [form.saves EXCEPT ![k] = new] /\ form'.busy = (form.busy /\ ~form.saves[k].own)
       /\ form'.fetch = asked /\ form'.base = base /\ form'.draft = draft
       /\ form'.open = open /\ form'.excused = (form.excused \/ older)
    BY <1>5 DEF FormInv, FormOK
<1>11. form'.saves[k] = new /\ \A i \in Saves \ {k} : form'.saves[i] = form.saves[i]
    BY <1>10, FormFields
<1>12. CallEnds(k, "done")
    BY <1>3, <1>10, <1>11 DEF CallEnds
<1>13. BusyOK'
    BY <1>1, <1>12, CallGoneBusy
<1>14. TookOK' /\ DraftOK' /\ TextOK' /\ AddedOK' /\ AloneOK' /\ ServedOK'
    BY <1>1, <1>7, <1>10, <1>12, CallGoneRest
<1>15. FetchOK'
    <2>1. Sort' = Sort /\ UnderWay' = UnderWay \ {k}
        BY <1>1, <1>12, CallGone
    <2>2. Sort.fill # "row" => form'.fetch = form.fetch
        BY <1>8, <1>10
    <2> QED BY <2>1, <2>2 DEF FormInv, FetchOK
<1>16. ASSUME Informed' PROVE Sort.fill # "blank" /\ ~form.excused /\ ~older /\ form.db = v
    <2>1. Sort.fill # "blank" /\ ~form.excused /\ ~older
        BY <1>1, <1>10, <1>12, <1>16, CallGone DEF Informed
    <2> QED BY <1>1, <2>1 DEF FormInv, ServedOK
<1>17. Sort' = Sort
    BY <1>1, <1>12, CallGone
<1>18. Sort.fill = "cache" /\ ~older /\ form.fetch = "back" => form.got = form.db
    BY DEF older
<1>19. ReadOK'
    <2>1. SUFFICES ASSUME Informed'
                   PROVE  /\ form'.fetch = "back" => form.got = form.db
                          /\ ~(Sort.fill = "row" /\ form'.fetch = "none")
        BY <1>10, <1>17 DEF ReadOK
    <2>2. form'.fetch = "back" => form.fetch = "back" /\ Sort.fill # "row"
        BY <1>8, <1>10
    <2>3. Sort.fill = "load" => form.fetch = "none"
        BY <1>1 DEF FormInv, FetchOK
    <2>4. Sort.fill = "cache" \/ Sort.fill = "load" \/ Sort.fill = "row"
        BY <1>16, <2>1, FormFields, Sorts
    <2> QED BY <1>8, <1>10, <1>16, <1>18, <2>1, <2>2, <2>3, <2>4
<1>20. BaseOK'
    <2>1. SUFFICES ASSUME Informed'
                   PROVE  /\ form.name \in {"settings", "maintenance", "template"} => form'.base = form.db
                          /\ form.name = "paymentNote" => form'.fetch # "none"
                          /\ form.name = "plan" => ~form'.open
        BY <1>10, <1>17 DEF BaseOK
    <2>2. form.name \in {"settings", "maintenance"} => Sort.done = "answer"
        BY FormFields, Sorts
    <2>3. form.name = "template" => Sort.done = "keep"
        BY FormFields, Sorts
    <2>4. form.name = "plan" => Sort.done = "close"
        BY FormFields, Sorts
    <2>5. form.name = "paymentNote" => Sort.fill = "row"
        BY FormFields, Sorts
    <2> QED BY <1>8, <1>10, <1>16, <2>1, <2>2, <2>3, <2>4, <2>5
<1> QED BY <1>9, <1>13, <1>14, <1>15, <1>19, <1>20 DEF FormInv

LEMMA FormStep == ASSUME FormInv, FormNext PROVE FormInv'
BY FormOpen, FormClose, FormTypeIn, FormSaves, FormServed, FormAnswered, FormFails, FormFormRead,
   FormFormReadShown, FormFormReadFails, FormBack, FormSomebodyWrites DEF FormNext


-----------------------------------------------------------------------------
(* The panel.                                                              *)

IInv ==
    /\ view \in {"row", "list", "search", "form"}
    /\ view = "row" => RowInv
    /\ view = "list" => ListInv
    /\ view = "search" => SearchInv
    /\ view = "form" => FormInv

LEMMA PanelStart == Init => IInv
BY RowStart, ListStart, SearchStart, FormStart DEF Init, IInv

LEMMA RowStays == ASSUME RowInv, UNCHANGED rowVars PROVE RowInv'
<1>1. RowOK'
    BY DEF RowInv, RowOK, rowVars, Dialogs, CallRecords, Slots, Acts
<1>2. DialogOK' /\ CallsOK' /\ FreshOK'
    BY DEF RowInv, DialogOK, CallsOK, FreshOK, rowVars, Unheard, Reads, Pending, Slots, WasOffered, Acts,
           Button
<1> QED BY <1>1, <1>2 DEF RowInv

LEMMA ListStays == ASSUME ListInv, UNCHANGED list PROVE ListInv'
<1>1. ListOK' /\ AnswersOK'
    BY DEF ListInv, ListOK, AnswersOK
<1>2. PagesOK'
    BY DEF ListInv, PagesOK, Reached, Honest
<1> QED BY <1>1, <1>2 DEF ListInv

LEMMA SearchStays == ASSUME SearchInv, UNCHANGED search PROVE SearchInv'
BY DEF SearchInv, SearchOK, AskersOK

LEMMA FormStays == ASSUME FormInv, UNCHANGED form PROVE FormInv'
<1>1. FormOK' /\ CallsStay
    BY DEF FormInv, FormOK, CallsStay
<1>2. TookOK' /\ BusyOK' /\ DraftOK' /\ TextOK' /\ AddedOK' /\ AloneOK' /\ ServedOK'
    BY <1>1, SameTook, SameBusy, SameDraft, SameText, SameAdded, SameServed
<1>3. FetchOK' /\ ReadOK' /\ BaseOK'
    BY <1>1, SameCalls DEF FormInv, FetchOK, ReadOK, BaseOK, Informed
<1> QED BY <1>1, <1>2, <1>3 DEF FormInv

LEMMA PanelStep == IInv /\ [Next]_vars => IInv'
<1> SUFFICES ASSUME IInv, [Next]_vars PROVE IInv'
    OBVIOUS
<1>1. view' = view
    BY DEF Next, vars
<1>2. CASE view = "row"
    <2>1. RowInv'
        BY <1>2, RowStep, RowStays DEF IInv, Next, vars
    <2> QED BY <1>1, <1>2, <2>1 DEF IInv
<1>3. CASE view = "list"
    <2>1. ListInv'
        BY <1>3, ListStep, ListStays DEF IInv, Next, vars
    <2> QED BY <1>1, <1>3, <2>1 DEF IInv
<1>4. CASE view = "search"
    <2>1. SearchInv'
        BY <1>4, SearchStep, SearchStays DEF IInv, Next, vars
    <2> QED BY <1>1, <1>4, <2>1 DEF IInv
<1>5. CASE view = "form"
    <2>1. FormInv'
        BY <1>5, FormStep, FormStays DEF IInv, Next, vars
    <2> QED BY <1>1, <1>5, <2>1 DEF IInv
<1> QED BY <1>2, <1>3, <1>4, <1>5 DEF IInv

LEMMA TypesHold == IInv => TypeOK
<1> SUFFICES ASSUME IInv PROVE TypeOK
    OBVIOUS
<1>1. ASSUME view = "row" PROVE RowTyped
    <2>1. RowOK
        BY <1>1 DEF IInv, RowInv
    <2>2. \A i \in Slots : calls[i] \in CallRecords
        BY <2>1 DEF RowOK
    <2> QED BY <2>1, <2>2 DEF RowOK, RowTyped, Dialogs, CallRecords
<1>2. ASSUME view = "list" PROVE ListTyped
    <2>1. ListOK /\ AnswersOK
        BY <1>2 DEF IInv, ListInv
    <2>2. {a.key : a \in list.answers} \subseteq list.reads
        BY <2>1 DEF AnswersOK
    <2> QED BY <2>1, <2>2 DEF ListOK, AnswersOK, ListTyped
<1>3. ASSUME view = "search" PROVE SearchTyped
    <2>1. SearchInv
        BY <1>3 DEF IInv
    <2>2. \A i \in DOMAIN search.asks : search.asks[i].term \in Terms
        BY <2>1, SearchAsks DEF AskRecords
    <2> QED BY <2>1, <2>2, SearchFields DEF SearchTyped, Texts
<1>4. ASSUME view = "form" PROVE FormTyped
    <2>1. FormInv
        BY <1>4 DEF IInv
    <2>2. form.fetch \in {"none", "asked", "back"}
        BY <2>1 DEF FormInv, FormOK
    <2> QED BY <2>1, <2>2, FormFields DEF FormTyped, SaveRecords
<1> QED BY <1>1, <1>2, <1>3, <1>4 DEF TypeOK

\* Every variable of every view keeps its type, and no status ever comes over a row that its page's
\* buttons and filters do not know (frontend/app/admin, backend/app/api/admin*.py).
THEOREM TypeCorrect == Spec => []TypeOK
BY PanelStart, PanelStep, TypesHold, PTL DEF Spec

LEMMA ShownRow ==
    ASSUME IInv, view = "row", Pending = {}, fetch = "none", shown # "none", ~excused
    PROVE  shown = st
<1>1. FreshOK
    BY DEF IInv, RowInv
<1>2. Unheard = {}
    BY DEF Unheard, Pending, InFlight
<1> QED BY <1>1, <1>2 DEF FreshOK

LEMMA ShownForm ==
    ASSUME IInv, view = "form", Sort.fill # "blank", InReach, UnderWay = {}, form.fetch = "none",
           form.draft = 0, ~form.excused
    PROVE  form.base = form.db
<1>1. FormInv
    BY DEF IInv
<1>2. Informed
    BY DEF Informed, Answerless, UnderWay
<1>3. form.name \in {"paymentNote", "settings", "maintenance", "template", "plan"}
    BY <1>1, FormFields, Sorts
<1>4. form.open
    BY DEF InReach
<1> QED BY <1>1, <1>2, <1>3, <1>4 DEF FormInv, BaseOK

LEMMA ShownSearch == ASSUME IInv, view = "search", ResultsShown PROVE search.results = search.q
BY DEF IInv, SearchInv, AskersOK, ResultsShown

LEMMA ShownList ==
    ASSUME IInv, view = "list", TableShown, Table.rows = 0, ~list.gone
    PROVE  Table.total = 0
<1>1. ListInv
    BY DEF IInv
<1>2. key \in Keys
    BY <1>1 DEF ListInv, ListOK, key, Keys
<1> QED BY <1>1, <1>2 DEF ListInv, PagesOK, Honest, TableShown, Table

\* What is on screen at rest is what the server has: a row, the form filled from it, the results under
\* the search box, an empty page of a list (frontend/app/admin, components/admin).
THEOREM ScreensAreTrue == Spec => []ShownIsTrue
<1>1. IInv => ShownIsTrue
    BY ShownRow, ShownForm, ShownSearch, ShownList DEF ShownIsTrue
<1> QED BY PanelStart, PanelStep, <1>1, PTL DEF Spec

\* The buttons and the server agree, but for the refund of a failed payment and the cleanup of a
\* locked project: a call is forbidden only to one whose role has changed since the login, or who asks
\* for a large refund and is no super administrator; it is refused for its number only where the dialog
\* asks for one, and for its row only when that has moved since the button was pressed
\* (frontend/features/admin/permissions.ts and the pages of frontend/app/admin; backend/app/api/admin.py
\* and backend/app/services/admin_service.py).
THEOREM ButtonsAndServerAgree == Spec => RefusedOnlyIfBehind
<1>1. IInv /\ [Next]_vars =>
        [view = "row" => \A i \in Slots : calls[i].phase = "sent" =>
            /\ calls'[i].phase = "forbidden" =>
                   \/ role # me
                   \/ calls[i].act \in Refunds /\ effectiveAdminRole(Staff(role)) # "super_admin"
            /\ calls'[i].phase = "unfit" => calls[i].act \in Numbered
            /\ calls'[i].phase = "refused" =>
                   st # calls[i].seen \/ <<calls[i].act, calls[i].seen>> \in Overlooked]_vars
    <2> SUFFICES ASSUME IInv, Next, view = "row", NEW i \in Slots, calls[i].phase = "sent"
                 PROVE  Justified(i, calls'[i].phase)
        BY DEF Justified
    <2>1. RowInv /\ RowNext
        BY DEF IInv, Next
    <2> QED BY <2>1, RowVerdict
<1> QED BY PanelStart, PanelStep, <1>1, PTL DEF Spec, RefusedOnlyIfBehind

LEMMA ReasonsFit == IInv => ReasonIsForThisAction
BY DEF IInv, RowInv, CallsOK, ReasonIsForThisAction

LEMMA OnceAdded == IInv => AddedOnce
BY DEF IInv, FormInv, AddedOK, AddedOnce

\* Only the end of a call ends it.
LEMMA WhoEnds ==
    ASSUME FormInv, FormNext, NEW i \in UnderWay, form'.saves[i].phase \in {"done", "failed"}
    PROVE  SaveAnswered(i) \/ (SaveFails(i) /\ form'.draft = form.draft)
<1>1. i \in Saves /\ form.saves[i].phase \in {"sent", "served"} /\ form.saves \in [Saves -> SaveRecords]
    BY FormFields DEF UnderWay
<1>2. ASSUME form'.saves = form.saves PROVE FALSE
    BY <1>1, <1>2
<1>3. ASSUME OpenForm PROVE FALSE
    <2>1. form'.saves = [j \in Saves |-> [form.saves[j] EXCEPT !.own = @ /\ form.name # "invite"]]
        BY <1>3 DEF OpenForm, FormInv, FormOK
    <2>2. form'.saves[i].phase = form.saves[i].phase
        BY <1>1, <2>1 DEF SaveRecords
    <2> QED BY <1>1, <2>2
<1>4. ASSUME SaveForm PROVE FALSE
    <2>1. PICK j \in Unsent : form' = Sending(j)
        BY <1>4 DEF SaveForm
    <2>2. i # j /\ form'.saves[i] = form.saves[i]
        BY <1>1, <2>1 DEF Sending, Unsent, FormInv, FormOK
    <2> QED BY <1>1, <2>2
<1>5. ASSUME NEW j \in Saves, SaveServed(j) PROVE FALSE
    <2>1. form'.saves = [form.saves EXCEPT ![j].phase = "served"]
        BY <1>5 DEF SaveServed, FormInv, FormOK
    <2>2. form'.saves[i].phase \in {form.saves[i].phase, "served"}
        BY <1>1, <2>1 DEF SaveRecords
    <2> QED BY <1>1, <2>2
<1>6. ASSUME NEW j \in Saves, SaveAnswered(j) PROVE i = j
    <2>1. form'.saves = [form.saves EXCEPT ![j].phase = "done"]
        <3>1. Sort.done \in {"empty", "close", "answer", "keep"}
            BY FormFields, Sorts
        <3> QED BY <1>6, <3>1 DEF SaveAnswered, Ends, FormInv, FormOK
    <2> QED BY <1>1, <2>1
<1>7. ASSUME NEW j \in Saves, SaveFails(j) PROVE i = j /\ form'.draft = form.draft
    <2>1. form'.saves = [form.saves EXCEPT ![j].phase = "failed"] /\ form'.draft = form.draft
        BY <1>7 DEF SaveFails, Ends, FormInv, FormOK
    <2> QED BY <1>1, <2>1
<1>8. ASSUME \/ Close \/ TypeIn \/ FormRead \/ FormReadShown \/ FormReadFails \/ BackToForm
          \/ SomebodyWrites
      PROVE  FALSE
    <2>1. form'.saves = form.saves
        BY <1>8 DEF Close, TypeIn, FormRead, FormReadShown, FormReadFails, BackToForm, SomebodyWrites,
                    FormInv, FormOK
    <2> QED BY <1>2, <2>1
<1> QED BY <1>3, <1>4, <1>5, <1>6, <1>7, <1>8 DEF FormNext

\* What an administrator types is used as meant: a reason goes into the audit log with its own action,
\* a form's text is added once, and what the end of a call takes out of a form is in the server's hands,
\* unless it was typed while that or another call was under way
\* (frontend/components/admin/ui.tsx and the onSuccess handlers of frontend/app/admin).
THEOREM TextIsUsedAsMeant == Spec => TypedTextIsSafe
<1>1. IInv /\ IInv' /\ [Next]_vars =>
        [/\ ReasonIsForThisAction' /\ AddedOnce'
         /\ view = "form" /\ form.draft # 0 /\ form'.draft = 0
              /\ (\E i \in UnderWay : form'.saves[i].phase \in {"done", "failed"}) =>
                form.took[form.draft] > 0 \/ form.late]_vars
    <2> SUFFICES ASSUME IInv, IInv', Next
                 PROVE  /\ ReasonIsForThisAction' /\ AddedOnce'
                        /\ view = "form" /\ form.draft # 0 /\ form'.draft = 0
                             /\ (\E i \in UnderWay : form'.saves[i].phase \in {"done", "failed"}) =>
                               form.took[form.draft] > 0 \/ form.late
        OBVIOUS
    <2>1. ReasonIsForThisAction' /\ AddedOnce'
        BY ReasonsFit, OnceAdded, PTL
    <2>2. ASSUME view = "form", form.draft # 0, form'.draft = 0, ~form.late,
                 NEW i \in UnderWay, form'.saves[i].phase \in {"done", "failed"}
          PROVE  form.took[form.draft] > 0
        <3>1. FormInv /\ FormNext
            BY <2>2 DEF IInv, Next
        <3>2. SaveAnswered(i)
            BY <2>2, <3>1, WhoEnds
        <3>3. form.saves[i].phase = "served" /\ i \in Saves
            BY <3>2 DEF SaveAnswered, UnderWay
        <3>4. form.saves[i].what = form.draft
            BY <2>2, <3>1 DEF FormInv, DraftOK
        <3> QED BY <3>1, <3>3, <3>4 DEF FormInv, TookOK
    <2> QED BY <2>1, <2>2
<1> QED BY PanelStart, PanelStep, <1>1, PTL DEF Spec, TypedTextIsSafe
=============================================================================
