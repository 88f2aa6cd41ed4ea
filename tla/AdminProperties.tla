--------------------------- MODULE AdminProperties ---------------------------
(***************************************************************************)
(* What an administrator may rely on in front of the panel.                  *)
(***************************************************************************)
EXTENDS AdminPanel

RowTyped ==
    /\ page \in Pages /\ me \in AdminRoles \union {NoRole}
    /\ role \in AdminRoles \union {NoRole}
    /\ st \in Rows[page]
    /\ shown \in Rows[page] \union {"none"}
    /\ fetch \in Rows[page] \union {"none", "asked"}
    /\ dialog \in [act : Acts \union {"none"}, seen : Rows[page] \union {"none"},
                   text : {"none", "mine", "other"}, busy : BOOLEAN]
    /\ \A i \in Slots :
           calls[i] \in [phase : InFlight \union {"none", "over"},
                         act : Acts \union {"none"}, seen : Rows[page] \union {"none"},
                         why : {"none", "mine", "other"}]
    /\ changes \in 0..MaxChanges[page] /\ excused \in BOOLEAN /\ dismissed \in BOOLEAN

ListTyped ==
    /\ list.filter \in Filters /\ list.page \in PageNos
    /\ list.count \in [Filters -> 0..MaxRows] /\ list.count["some"] <= list.count["all"]
    /\ list.reads \subseteq Keys /\ {a.key : a \in list.answers} \subseteq list.reads

SearchTyped ==
    /\ search.q \in Terms \union {"", "x"} /\ search.results \in Terms \union {"none"}
    /\ \A i \in DOMAIN search.asks : search.asks[i].term \in Terms

FormTyped ==
    /\ {form.db, form.read, form.got, form.base, form.draft} \subseteq Values
    /\ form.fetch \in {"none", "asked", "back"}
    /\ form.saves \in [Saves -> [phase : {"none", "sent", "served", "done", "failed"},
                                 what : Values, own : BOOLEAN]]

\* Types, and no status on a row that the page's buttons do not know.
TypeOK ==
    /\ view = "row" => RowTyped
    /\ view = "list" => ListTyped
    /\ view = "search" => SearchTyped
    /\ view = "form" => FormTyped

\* Where a page offers what the route refuses: the refund of a payment that failed
\* (payments/[id]/page.tsx:97 looks at the amount, api/admin.py:955 at the status), and
\* another cleanup of a locked or held project (storage/page.tsx:162, admin_service.py:1703).
Overlooked ==
    (Refunds \X {"failed"}) \union {<<"retry_cleanup", "cleanup_failed_locked">>}

\* The buttons and the server agree but for these (the two copies of the permission table,
\* the statuses each button and each route names, the reasons each asks for). A call is
\* forbidden only to one whose role has changed since the login, or a large refund to one
\* who is no super administrator; it is refused for its number only where the dialog asks
\* for one, and for the row's status only when that has moved since the page the button was
\* pressed on.
RefusedOnlyIfBehind ==
    [][view = "row" => \A i \in Slots : calls[i].phase = "sent" =>
           /\ calls'[i].phase = "forbidden" =>
                  \/ role # me
                  \/ calls[i].act \in Refunds /\ effectiveAdminRole(Staff(role)) # "super_admin"
           /\ calls'[i].phase = "unfit" => calls[i].act \in Numbered
           /\ calls'[i].phase = "refused" =>
                  st # calls[i].seen \/ <<calls[i].act, calls[i].seen>> \in Overlooked]_vars

\* What is on screen at rest is what the server has. With no call and no read
\* under way a page that shows the row shows it as it is, unless somebody else
\* moved it, or an answer or a read was lost, since; and so does a form nothing
\* was typed in. Results under the search box are for the text in it, and a page
\* of a list without rows means that there are none, unless rows went meanwhile.
ShownIsTrue ==
    /\ view = "row" =>
           (Pending = {} /\ fetch = "none" /\ shown # "none" /\ ~excused => shown = st)
    /\ view = "form" /\ Sort.fill # "blank" =>
           (InReach /\ UnderWay = {} /\ form.fetch = "none" /\ form.draft = 0 /\ ~form.excused =>
                form.base = form.db)
    /\ view = "search" => (ResultsShown => search.results = search.q)
    /\ view = "list" => (TableShown /\ Table.rows = 0 /\ ~list.gone => Table.total = 0)

\* A reason is sent with the action it was typed for, as long as no dialog was
\* closed by hand with a text in it.
ReasonIsForThisAction ==
    view = "row" =>
        \A i \in Pending :
            Button(calls[i].act).reason /\ ~dismissed => calls[i].why = "mine"

\* A text in a form whose button waits is added once, unless its answer was lost.
AddedOnce ==
    view = "form" /\ Sort.fill = "blank" /\ Sort.waits /\ ~form.excused =>
        \A v \in Values : form.took[v] <= 1

\* What an administrator types is used as meant: a reason goes into the audit log
\* with its own action, a form's text is added once, and what the end of a call
\* takes out of a form is in the server's hands, unless it was typed while that
\* or another call was under way.
TypedTextIsSafe ==
    [][ /\ ReasonIsForThisAction' /\ AddedOnce'
        /\ view = "form" /\ form.draft # 0 /\ form'.draft = 0
              /\ (\E i \in UnderWay : form'.saves[i].phase \in {"done", "failed"}) =>
                form.took[form.draft] > 0 \/ form.late]_vars
=============================================================================
