----------------------------- MODULE AdminPages -----------------------------
(***************************************************************************)
(* The admin panel as tables: who may see and do what (features/admin/       *)
(* permissions.ts and its server twin), which buttons each page under         *)
(* app/admin offers for a row in a given state, and what the server's routes   *)
(* (api/admin.py, services/admin_service.py) ask of a call and do to the row.  *)
(* A page is followed through one of its rows, in the states its buttons       *)
(* tell apart; a button that leaves the row's state alone has no "moves".      *)
(***************************************************************************)
EXTENDS FiniteSets

-----------------------------------------------------------------------------
(* Permissions.                                                            *)

VIEW == {"overview.view", "users.view", "projects.view", "jobs.view", "workers.view",
         "config.view", "audit.view", "abuse.view", "billing.view", "notes.view",
         "models.view", "presets.view", "notifications.view", "analytics.view",
         "health.view"}

ALL == VIEW \union
    {"users.manage", "users.support", "users.credits", "users.role", "users.plan",
     "users.delete", "projects.manage", "jobs.manage", "config.manage", "abuse.manage",
     "notes.manage", "billing.manage", "plans.manage", "promos.manage", "models.manage",
     "presets.manage", "notifications.manage", "flags.manage", "maintenance.manage",
     "analytics.export", "health.manage", "admins.manage", "admins.view", "secrets.view"}

PERMISSIONS ==
    [super_admin |-> ALL,
     operations |-> (VIEW \ {"billing.view"}) \union
         {"projects.manage", "jobs.manage", "config.manage", "models.manage",
          "presets.manage", "notifications.manage", "flags.manage",
          "maintenance.manage", "health.manage"},
     support |-> {"overview.view", "users.view", "users.support", "users.credits",
          "projects.view", "jobs.view", "notes.view", "notes.manage", "abuse.view"},
     billing |-> {"overview.view", "users.view", "users.credits", "users.plan",
          "billing.view", "billing.manage", "plans.manage", "promos.manage",
          "notes.view", "analytics.view", "analytics.export"},
     compliance |-> {"overview.view", "users.view", "users.manage", "projects.view",
          "projects.manage", "abuse.view", "abuse.manage", "audit.view",
          "notes.view", "notes.manage"},
     analyst |-> VIEW]

AdminRoles == DOMAIN PERMISSIONS
NoRole == "none"

\* A user is [role |-> "user" or "admin", admin_role |-> a role or "none"].
effectiveAdminRole(u) ==
    IF u.admin_role \in AdminRoles THEN u.admin_role
    ELSE IF u.role = "admin" THEN "super_admin" ELSE NoRole

hasPermission(u, p) ==
    LET r == effectiveAdminRole(u) IN r # NoRole /\ p \in PERMISSIONS[r]

-----------------------------------------------------------------------------
(* Buttons of a page: the permission that shows it, the states in which it   *)
(* is offered, whether it reads, acts at once, after a dialog or after a      *)
(* prompt that asks for a note, and whether the dialog insists on a reason.   *)

Btn(gate, on, how, reason) == [gate |-> gate, on |-> on, how |-> how, reason |-> reason]
Each(names, btn) == [n \in names |-> btn]

\* The one table, and beside it the other (as in TLC, for the provers).
f @@ g == [x \in DOMAIN f \union DOMAIN g |-> IF x \in DOMAIN f THEN f[x] ELSE g[x]]

UserStates == {"unverified", "active", "suspended", "deleted"}

\* The tabs of a user's page, each a read of its own; two need no more than the page.
TABS ==
    Each({"profile", "credits", "projects", "jobs"}, Btn("users.view", UserStates, "read", FALSE))
    @@ [billing |-> Btn("billing.view", UserStates, "read", FALSE),
        activity |-> Btn("audit.view", UserStates, "read", FALSE),
        notes |-> Btn("notes.view", UserStates, "read", FALSE)]

userButtons ==
    TABS @@ Each({"verify_email", "resend_verification"},
         Btn("users.support", {"unverified"}, "dialog", FALSE))
    @@ Each({"force_password_reset", "revoke_sessions"},
            Btn("users.support", UserStates, "dialog", FALSE))
    @@ Each({"credit", "debit"}, Btn("users.credits", UserStates, "dialog", TRUE))
    @@ [change_plan |-> Btn("users.plan", UserStates, "dialog", FALSE),
        change_role |-> Btn("users.role", UserStates, "dialog", FALSE),
        suspend |-> Btn("users.manage", {"unverified", "active"}, "dialog", TRUE),
        restore |-> Btn("users.manage", {"suspended"}, "dialog", FALSE),
        delete_account |-> Btn("users.delete", UserStates \ {"deleted"}, "dialog", TRUE)]

SubscriptionStates ==
    {"pending", "trialing", "active", "ending", "past_due", "paused", "cancelled", "expired"}

subscriptionButtons ==
    [cancel |-> Btn("billing.manage", {"active", "ending", "trialing", "past_due", "paused"},
                    "dialog", TRUE),
     reactivate |-> Btn("billing.manage", {"cancelled", "expired", "paused"}, "direct", FALSE),
     resume |-> Btn("billing.manage", {"ending"}, "direct", FALSE)]

ProjectStates == {"open", "locked", "deleted"}

projectButtons ==
    [extend_retention |-> Btn("projects.manage", {"open", "locked"}, "dialog", FALSE),
     expire_now |-> Btn("projects.manage", {"open", "locked"}, "dialog", TRUE),
     lock |-> Btn("projects.manage", {"open"}, "dialog", TRUE),
     unlock |-> Btn("projects.manage", {"locked"}, "dialog", FALSE),
     delete_files |-> Btn("projects.manage", {"open", "locked"}, "dialog", TRUE),
     delete_project |-> Btn("projects.manage", {"open", "locked"}, "dialog", TRUE)]

JobStates == {"processing_queued", "processing", "completed", "failed", "cancelled"}
TERMINAL == {"completed", "failed", "cancelled"}

\* The list of jobs and the page of one job offer the same.
jobsButtons ==
    [retry |-> Btn("jobs.manage", {"failed", "cancelled"}, "dialog", FALSE),
     cancel |-> Btn("jobs.manage", JobStates \ TERMINAL, "dialog", FALSE)]
jobButtons == jobsButtons

\* One button, offered while an amount is left to refund, whatever the status; the
\* amount is typed: all of an untouched payment, or half. A payment that failed is
\* recorded with its amount.
PaymentStates == {"failed", "captured", "partially_refunded", "refunded"}

paymentButtons ==
    [refund_all |-> Btn("billing.manage", {"failed", "captured"}, "dialog", TRUE),
     refund_half |-> Btn("billing.manage", PaymentStates \ {"refunded"}, "dialog", TRUE)]

ReportStates == {"new", "waiting_for_information", "action_required", "legal_hold",
                 "escalated", "resolved"}

reportButtons ==
    Each({"mark_safe", "request_information", "restrict_processing", "disable_downloads",
          "escalate", "close"}, Btn("abuse.manage", ReportStates, "dialog", FALSE))
    @@ Each({"add_note", "place_legal_hold", "remove_legal_hold", "suspend_account",
             "ban_account"}, Btn("abuse.manage", ReportStates, "dialog", TRUE))
    @@ Each({"set_severity"}, Btn("abuse.manage", ReportStates, "direct", FALSE))

\* Locked: locked, on hold or with an active job. The page shows which rows had a
\* cleanup fail and does not look at the lock.
StorageStates == {"tracked", "locked", "cleanup_failed", "cleanup_failed_locked"}

storageButtons ==
    Each({"extend_retention", "verify_existence"},
         Btn("projects.manage", StorageStates, "dialog", FALSE))
    @@ [retry_cleanup |-> Btn("projects.manage", {"cleanup_failed", "cleanup_failed_locked"},
                              "dialog", TRUE),
        expire_now |-> Btn("projects.manage", {"tracked", "locked"}, "dialog", TRUE)]

IncidentStates == {"open", "monitoring", "resolved"}

incidentButtons ==
    Each({"acknowledge", "silence"},
         Btn("health.manage", {"open", "monitoring"}, "direct", FALSE))
    @@ Each({"add_note", "resolve"}, Btn("health.manage", {"open", "monitoring"}, "prompt", TRUE))
    @@ [reopen |-> Btn("health.manage", {"resolved"}, "direct", FALSE)]

\* The switch sends the opposite of what is shown.
FlagStates == {"on", "off"}

flagButtons ==
    [turn_off |-> Btn("flags.manage", {"on"}, "direct", FALSE),
     turn_on |-> Btn("flags.manage", {"off"}, "direct", FALSE)]

PresetStates == {"enabled", "disabled", "default", "default_disabled"}

presetButtons ==
    [disable |-> Btn("presets.manage", {"enabled", "default"}, "direct", FALSE),
     enable |-> Btn("presets.manage", {"disabled", "default_disabled"}, "direct", FALSE),
     set_default |-> Btn("presets.manage", {"enabled", "disabled"}, "direct", FALSE)]

PromoStates == {"active", "disabled"}

promoButtons ==
    [disable |-> Btn("promos.manage", {"active"}, "direct", FALSE),
     enable |-> Btn("promos.manage", {"disabled"}, "direct", FALSE),
     configureOffer |-> Btn("promos.manage", PromoStates, "prompt", FALSE)]

PlanStates == {"active", "archived"}

planButtons ==
    [archive |-> Btn("plans.manage", {"active"}, "direct", FALSE),
     restore |-> Btn("plans.manage", {"archived"}, "direct", FALSE)]

AbuseStates == {"open", "escalated", "dismissed", "actioned"}

abuseButtons ==
    Each({"dismiss", "escalate", "suspend_reporter"},
         Btn("abuse.manage", {"open"}, "dialog", FALSE))

ModelStates == {"testing", "active", "rollback_candidate", "disabled", "deprecated"}

modelButtons ==
    Each({"enable_testing", "enable_production", "set_default", "set_fallback"},
         Btn("models.manage", ModelStates, "dialog", FALSE))
    @@ Each({"rollback", "disable", "deprecate"}, Btn("models.manage", ModelStates, "dialog", TRUE))

\* Another administrator's account; one's own offers no buttons.
AdminStates == {"active", "suspended", "removed"}

administratorButtons ==
    Each({"change_role", "revoke_sessions", "require_mfa"},
         Btn("admins.manage", {"active", "suspended"}, "direct", FALSE))
    @@ [suspend |-> Btn("admins.manage", {"active"}, "dialog", TRUE),
        reactivate |-> Btn("admins.manage", {"suspended"}, "direct", FALSE),
        remove |-> Btn("admins.manage", {"active", "suspended"}, "dialog", TRUE)]

-----------------------------------------------------------------------------
(* Routes: the permission one asks for, the states in which it does not       *)
(* answer 409, where it moves the row, and whether it insists on a reason.    *)

Route(perm, takes, moves, reason) ==
    [perm |-> perm, takes |-> takes, moves |-> moves, reason |-> reason]
To(S, s) == [x \in S |-> s]
Stays == To({}, "")

tabRoutes ==
    Each(DOMAIN TABS \ {"notes"}, Route("users.view", UserStates, Stays, FALSE))
    @@ [notes |-> Route("notes.view", UserStates, Stays, FALSE)]

userRoutes ==
    tabRoutes
    @@ [verify_email |-> Route("users.support", UserStates, To({"unverified"}, "active"), FALSE)]
    @@ Each({"resend_verification", "force_password_reset", "revoke_sessions"},
            Route("users.support", UserStates, Stays, FALSE))
    @@ Each({"credit", "debit"}, Route("users.credits", UserStates, Stays, TRUE))
    @@ [change_plan |-> Route("users.plan", UserStates, Stays, FALSE),
        change_role |-> Route("users.role", UserStates, Stays, FALSE),
        suspend |-> Route("users.manage", UserStates, To(UserStates, "suspended"), FALSE),
        restore |-> Route("users.manage", UserStates, To({"suspended", "deleted"}, "active"), FALSE),
        delete_account |-> Route("users.delete", UserStates, To(UserStates, "deleted"), FALSE)]

subscriptionRoutes ==
    LET S == SubscriptionStates IN
    [cancel |-> Route("billing.manage", S, To(S, "cancelled"), FALSE),
     resume |-> Route("billing.manage", S, To({"cancelled", "paused", "ending"}, "active"), FALSE),
     reactivate |-> Route("billing.manage", {"cancelled", "expired", "paused"}, To(S, "active"), FALSE)]

projectRoutes ==
    LET S == ProjectStates IN
    Each({"extend_retention", "expire_now", "delete_files"},
         Route("projects.manage", S, Stays, FALSE))
    @@ [lock |-> Route("projects.manage", S, To({"open"}, "locked"), FALSE),
        unlock |-> Route("projects.manage", S, To({"locked"}, "open"), FALSE),
        delete_project |-> Route("projects.manage", S, To(S, "deleted"), TRUE)]

\* Mutated form of jobRoutes: a job that waits in the queue cannot be cancelled.
jobRoutesRunningOnly ==
    [retry |-> Route("jobs.manage", {"failed", "cancelled"},
                     To(JobStates, "processing_queued"), FALSE),
     cancel |-> Route("jobs.manage", {"processing"}, To(JobStates, "cancelled"), FALSE)]

jobRoutes ==
    [retry |-> Route("jobs.manage", {"failed", "cancelled"},
                     To(JobStates, "processing_queued"), FALSE),
     cancel |-> Route("jobs.manage", JobStates \ TERMINAL, To(JobStates, "cancelled"), FALSE)]

\* What the amount typed makes of a call is in Served.
paymentRoutes ==
    [refund_all |-> Route("billing.manage", {"captured"}, To({"captured"}, "refunded"), TRUE),
     refund_half |-> Route("billing.manage", {"captured", "partially_refunded"},
         [captured |-> "partially_refunded", partially_refunded |-> "refunded"], TRUE)]

reportRoutes ==
    LET S == ReportStates IN
    Each({"mark_safe", "close"}, Route("abuse.manage", S, To(S, "resolved"), FALSE))
    @@ Each({"restrict_processing", "disable_downloads"},
            Route("abuse.manage", S, To(S, "action_required"), FALSE))
    @@ Each({"suspend_account", "ban_account"},
            Route("abuse.manage", S, To(S, "action_required"), TRUE))
    @@ [escalate |-> Route("abuse.manage", S, To(S, "escalated"), FALSE),
        request_information |-> Route("abuse.manage", S, To(S, "waiting_for_information"), FALSE),
        place_legal_hold |-> Route("abuse.manage", S, To(S, "legal_hold"), TRUE),
        remove_legal_hold |-> Route("abuse.manage", S, Stays, TRUE),
        add_note |-> Route("abuse.manage", S, Stays, TRUE),
        set_severity |-> Route("abuse.manage", S, Stays, FALSE)]

\* Files are deleted of no project that is locked, on hold or has an active job.
storageRoutes ==
    Each({"extend_retention", "verify_existence", "expire_now"},
         Route("projects.manage", StorageStates, Stays, FALSE))
    @@ [retry_cleanup |-> Route("projects.manage", {"tracked", "cleanup_failed"},
                                To({"cleanup_failed"}, "tracked"), FALSE)]

\* Mutated form of incidentRoutes: acknowledging writes a status nothing reads.
incidentRoutesAcknowledged ==
    LET S == IncidentStates IN
    Each({"silence", "add_note"}, Route("health.manage", S, Stays, FALSE))
    @@ [acknowledge |-> Route("health.manage", S, To(S, "acknowledged"), FALSE),
        resolve |-> Route("health.manage", S, To(S, "resolved"), TRUE),
        reopen |-> Route("health.manage", S, To(S, "open"), FALSE)]

incidentRoutes ==
    LET S == IncidentStates IN
    [acknowledge |-> Route("health.manage", S, To(S, "monitoring"), FALSE),
     silence |-> Route("health.manage", S, Stays, FALSE),
     add_note |-> Route("health.manage", S, Stays, TRUE),
     resolve |-> Route("health.manage", S, To(S, "resolved"), TRUE),
     reopen |-> Route("health.manage", S, To(S, "open"), FALSE)]

flagRoutes ==
    [turn_on |-> Route("flags.manage", FlagStates, To({"off"}, "on"), FALSE),
     turn_off |-> Route("flags.manage", FlagStates, To({"on"}, "off"), FALSE)]

presetRoutes ==
    [disable |-> Route("presets.manage", PresetStates,
         [enabled |-> "disabled", default |-> "default_disabled"], FALSE),
     enable |-> Route("presets.manage", PresetStates,
         [disabled |-> "enabled", default_disabled |-> "default"], FALSE),
     set_default |-> Route("presets.manage", PresetStates, To(PresetStates, "default"), FALSE)]

promoRoutes ==
    [disable |-> Route("promos.manage", PromoStates, To({"active"}, "disabled"), FALSE),
     enable |-> Route("promos.manage", PromoStates, To({"disabled"}, "active"), FALSE),
     configureOffer |-> Route("promos.manage", PromoStates, Stays, FALSE)]

planRoutes ==
    [archive |-> Route("plans.manage", PlanStates, To({"active"}, "archived"), FALSE),
     restore |-> Route("plans.manage", PlanStates, To({"archived"}, "active"), FALSE)]

abuseRoutes ==
    LET S == AbuseStates IN
    [dismiss |-> Route("abuse.manage", S, To(S, "dismissed"), FALSE),
     escalate |-> Route("abuse.manage", S, To(S, "escalated"), FALSE),
     suspend_reporter |-> Route("abuse.manage", S, To(S, "actioned"), FALSE)]

modelRoutes ==
    LET S == ModelStates IN
    [enable_testing |-> Route("models.manage", S, To(S, "testing"), FALSE),
     enable_production |-> Route("models.manage", S, To(S, "active"), FALSE),
     set_default |-> Route("models.manage", S, Stays, FALSE),
     set_fallback |-> Route("models.manage", S, Stays, FALSE),
     rollback |-> Route("models.manage", S, To(S, "rollback_candidate"), TRUE),
     disable |-> Route("models.manage", S, To(S, "disabled"), TRUE),
     deprecate |-> Route("models.manage", S, To(S, "deprecated"), TRUE)]

\* Changing the role of one who was removed makes an administrator of them again.
administratorRoutes ==
    LET S == AdminStates IN
    Each({"revoke_sessions", "require_mfa"}, Route("admins.manage", S, Stays, FALSE))
    @@ [change_role |-> Route("admins.manage", S, To({"removed"}, "active"), FALSE),
        reactivate |-> Route("admins.manage", S, To({"suspended"}, "active"), FALSE),
        suspend |-> Route("admins.manage", S, To({"active"}, "suspended"), TRUE),
        remove |-> Route("admins.manage", S, To(S, "removed"), TRUE)]

-----------------------------------------------------------------------------
(* All pages with a row.                                                   *)

Rows ==
    [user |-> UserStates, subscriptions |-> SubscriptionStates, project |-> ProjectStates,
     jobs |-> JobStates, job |-> JobStates, payment |-> PaymentStates,
     report |-> ReportStates, storage |-> StorageStates, incidents |-> IncidentStates,
     flags |-> FlagStates, presets |-> PresetStates, promos |-> PromoStates,
     plans |-> PlanStates, abuse |-> AbuseStates, models |-> ModelStates,
     administrators |-> AdminStates]

Buttons ==
    [user |-> userButtons, subscriptions |-> subscriptionButtons, project |-> projectButtons,
     jobs |-> jobsButtons, job |-> jobButtons, payment |-> paymentButtons,
     report |-> reportButtons, storage |-> storageButtons, incidents |-> incidentButtons,
     flags |-> flagButtons, presets |-> presetButtons, promos |-> promoButtons,
     plans |-> planButtons, abuse |-> abuseButtons, models |-> modelButtons,
     administrators |-> administratorButtons]

Routes ==
    [user |-> userRoutes, subscriptions |-> subscriptionRoutes, project |-> projectRoutes,
     jobs |-> jobRoutes, job |-> jobRoutes, payment |-> paymentRoutes,
     report |-> reportRoutes, storage |-> storageRoutes, incidents |-> incidentRoutes,
     flags |-> flagRoutes, presets |-> presetRoutes, promos |-> promoRoutes,
     plans |-> planRoutes, abuse |-> abuseRoutes, models |-> modelRoutes,
     administrators |-> administratorRoutes]

\* The permission the panel's menu asks for before it links to a page with rows.
NAV_ITEMS ==
    [user |-> "users.view", subscriptions |-> "billing.view", project |-> "projects.view",
     jobs |-> "jobs.view", job |-> "jobs.view", payment |-> "billing.view",
     report |-> "abuse.view", storage |-> "projects.view", incidents |-> "health.view",
     flags |-> "config.view", presets |-> "presets.view", promos |-> "billing.view",
     plans |-> "billing.view", abuse |-> "abuse.view", models |-> "models.view",
     administrators |-> "admins.view"]

\* What moves a row besides administrators: its owner, the workers, the gateway.
Moves ==
    [user |-> {<<"unverified", "active">>},
     jobs |-> {<<"processing_queued", "processing">>, <<"processing", "completed">>,
               <<"processing", "failed">>},
     job |-> {<<"processing_queued", "processing">>, <<"processing", "completed">>,
              <<"processing", "failed">>},
     subscriptions |-> {<<"pending", "active">>, <<"active", "past_due">>,
                        <<"ending", "cancelled">>},
     storage |-> {<<"tracked", "locked">>, <<"locked", "tracked">>,
                  <<"cleanup_failed", "cleanup_failed_locked">>,
                  <<"cleanup_failed_locked", "cleanup_failed">>}]

\* Actions for which the dialog asks for a number. It starts at 0, or where the dialog
\* before it left it; the default the page hands over comes too late to be used.
Numbered == {"credit", "debit", "refund_all", "refund_half", "extend_retention"}
Refunds == {"refund_all", "refund_half"}

\* Pages on which a failed call closes the dialog as if it had succeeded.
Swallows == {"administrators"}
\* Pages that read themselves again every few seconds.
Polls == {"jobs", "job"}
\* Pages whose buttons all wait while one call is under way.
OneAtATime == {"incidents"}
\* Pages that show nothing but an error once a read has failed.
HidesOnError == {"user", "project", "job"}
=============================================================================
