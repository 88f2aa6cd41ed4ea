---------------------------- MODULE AdminConsole ----------------------------
(***************************************************************************)
(* One visit of an administrator to one page of the panel: what the page has  *)
(* read (react-query), the confirmation dialog all pages share                *)
(* (components/admin/ConfirmActionDialog.tsx), the calls it makes and their   *)
(* answers, while another administrator or a worker moves the same row.       *)
(* The row is another person's: rows about the administrator on the page and   *)
(* accounts of staff, which fewer buttons are shown for, are left out.         *)
(***************************************************************************)
EXTENDS AdminPages, Naturals

CONSTANTS
    Pages,       \* the pages visited
    MaxCalls,    \* calls one visit to a page makes, per page
    MaxChanges,  \* times somebody else moves the row, per page
    Demotions    \* roles the administrator may be moved to meanwhile

ASSUME PanelAssumption ==
    /\ Pages \subseteq DOMAIN Rows
    /\ MaxCalls \in [Pages -> Nat] /\ MaxChanges \in [Pages -> Nat]
    /\ Demotions \subseteq AdminRoles

VARIABLES
    page,
    me,         \* the admin role the browser keeps from the login
    role,       \* the admin role the server reads on every call
    st,         \* the row in the database
    shown,      \* the row as the page shows it, "none" before the first answer
    fetch,      \* the page's read: "none", "asked", or the state an answer carries
    dialog,     \* [act, seen, text, busy]: the action, the row it was opened on, and
                \* whether the reason field holds a text typed for this opening
                \* of the dialog ("mine") or before it ("other")
    calls,      \* [phase, act, seen, why] per call
    changes,
    excused,    \* something since the last read the page cannot know of
    dismissed   \* a dialog was closed with text in its reason field

rowVars == <<page, me, role, st, shown, fetch, dialog, calls, changes, excused, dismissed>>

Closed == [act |-> "none", seen |-> "none", text |-> "none", busy |-> FALSE]
NoCall == [phase |-> "none", act |-> "none", seen |-> "none", why |-> "none"]

Over == [NoCall EXCEPT !.phase = "over"]
Slots == 1..MaxCalls[page]

Staff(r) == [role |-> "admin", admin_role |-> r]
Acts == DOMAIN Buttons[page]
Button(a) == Buttons[page][a]
InFlight == {"sent", "done", "refused", "unfit", "forbidden"}
Pending == {i \in Slots : calls[i].phase \in InFlight}
Unused == {i \in Slots : calls[i].phase = "none"}

RowInit ==
    /\ page \in Pages
    /\ me \in AdminRoles \union {NoRole} /\ role = me
    /\ hasPermission(Staff(me), NAV_ITEMS[page])
    /\ st \in Rows[page] /\ shown = "none" /\ fetch = "asked"
    /\ dialog = Closed /\ calls = [i \in Slots |-> NoCall]
    /\ changes = 0 /\ excused = FALSE /\ dismissed = FALSE

-----------------------------------------------------------------------------
(* Reading.                                                                *)

\* Pages with refetchInterval; the page of one job stops once it has ended.
Poll ==
    /\ page \in Polls /\ fetch = "none" /\ shown # "none"
    /\ ~(page = "job" /\ shown \in TERMINAL)
    /\ fetch' = "asked"
    /\ UNCHANGED <<page, me, role, st, shown, dialog, calls, changes, excused, dismissed>>

\* Coming back to the page once what it has read is stale (staleTime).
Revisit ==
    /\ fetch = "none" /\ dialog.act = "none" /\ Pending = {}
    /\ fetch' = "asked" /\ dialog' = Closed
    /\ UNCHANGED <<page, me, role, st, shown, calls, changes, excused, dismissed>>

FetchServed ==
    /\ fetch = "asked" /\ hasPermission(Staff(role), NAV_ITEMS[page])
    /\ fetch' = st /\ excused' = FALSE
    /\ UNCHANGED <<page, me, role, st, shown, dialog, calls, changes, dismissed>>

FetchShown ==
    /\ fetch \notin {"none", "asked"}
    /\ shown' = fetch /\ fetch' = "none"
    /\ UNCHANGED <<page, me, role, st, dialog, calls, changes, excused, dismissed>>

\* The read and its one retry fail.
FetchFails ==
    /\ fetch # "none"
    /\ fetch' = "none" /\ excused' = TRUE
    /\ IF page \in HidesOnError
       THEN shown' = "none" /\ dialog' = [dialog EXCEPT !.text = "none", !.busy = FALSE]
       ELSE UNCHANGED <<shown, dialog>>
    /\ UNCHANGED <<page, me, role, st, calls, changes, dismissed>>

-----------------------------------------------------------------------------
(* Buttons and the dialog.                                                 *)

Send(a, seen, why) ==
    \E i \in Unused :
        /\ \A j \in Unused : i <= j
        /\ calls' = [calls EXCEPT ![i] = [phase |-> "sent", act |-> a, seen |-> seen, why |-> why]]

Offered(a) ==
    /\ shown # "none" /\ dialog.act = "none"
    /\ hasPermission(Staff(me), Button(a).gate) /\ shown \in Button(a).on
    /\ page \in OneAtATime => Pending = {}

\* What is left in the reason field by an earlier dialog is still there.
Ask(a) ==
    /\ Offered(a) /\ Button(a).how = "dialog"
    /\ dialog' = [dialog EXCEPT !.act = a, !.seen = shown,
                                !.text = IF @ = "none" THEN @ ELSE "other"]
    /\ UNCHANGED <<page, me, role, st, shown, fetch, calls, changes, excused, dismissed>>

\* A prompt without a text sends nothing.
Press(a) ==
    /\ Offered(a) /\ Button(a).how \in {"direct", "prompt", "read"}
    /\ Send(a, shown, IF Button(a).how = "prompt" THEN "mine" ELSE "none")
    /\ UNCHANGED <<page, me, role, st, shown, fetch, dialog, changes, excused, dismissed>>

TypeReason ==
    /\ dialog.act # "none" /\ Button(dialog.act).reason
    /\ dialog' = [dialog EXCEPT !.text = "mine"]
    /\ UNCHANGED <<page, me, role, st, shown, fetch, calls, changes, excused, dismissed>>

confirm ==
    /\ dialog.act # "none" /\ ~dialog.busy
    /\ Button(dialog.act).reason => dialog.text # "none"
    /\ Send(dialog.act, dialog.seen, dialog.text)
    /\ dialog' = [dialog EXCEPT !.busy = TRUE]
    /\ UNCHANGED <<page, me, role, st, shown, fetch, changes, excused, dismissed>>

\* Cancel or a click beside it: closed, its call goes on and its fields stay.
onClose ==
    /\ dialog.act # "none"
    /\ dialog' = [dialog EXCEPT !.act = "none", !.seen = "none"]
    /\ dismissed' = (dismissed \/ dialog.text # "none")
    /\ UNCHANGED <<page, me, role, st, shown, fetch, calls, changes, excused>>

-----------------------------------------------------------------------------
(* The server.                                                             *)

Move(a) == IF st \in DOMAIN Routes[page][a].moves THEN Routes[page][a].moves[st] ELSE st

\* The number typed in the dialog: none or too much for what it is about (a credit or
\* hours of none, a debit beyond the balance, a refund beyond the rest), or all right, and
\* then a refund may be one that only a super administrator may make.
Amounts == {"wrong", "right", "large"}

Allowed(a) == hasPermission(Staff(role), Routes[page][a].perm)
Fits(a, n) == a \in Numbered => n # "wrong"
Approved(a, n) ==
    a \in Refunds /\ n = "large" => effectiveAdminRole(Staff(role)) = "super_admin"

\* 403 without the permission, 409 or 422 for the row or the number, 403 for want of
\* approval, or the row moves.
Served(i) ==
    /\ calls[i].phase = "sent"
    /\ \E n \in Amounts :
           LET a == calls[i].act
               r == Routes[page][a]
               verdict == IF ~Allowed(a) THEN "forbidden"
                          ELSE IF st \notin r.takes \/ (r.reason /\ calls[i].why = "none")
                          THEN "refused"
                          ELSE IF ~Fits(a, n) THEN "unfit"
                          ELSE IF ~Approved(a, n) THEN "forbidden" ELSE "done"
           IN /\ calls' = [calls EXCEPT ![i].phase = verdict]
              /\ st' = IF verdict = "done" THEN Move(a) ELSE st
    /\ UNCHANGED <<page, me, role, shown, fetch, dialog, changes, excused, dismissed>>

OthersChange ==
    /\ changes < MaxChanges[page] /\ changes' = changes + 1
    /\ \/ \E a \in DOMAIN Routes[page] :
              st \in Routes[page][a].takes /\ Move(a) # st /\ st' = Move(a)
       \/ page \in DOMAIN Moves /\ \E m \in Moves[page] : m[1] = st /\ st' = m[2]
    /\ excused' = TRUE
    /\ UNCHANGED <<page, me, role, shown, fetch, dialog, calls, dismissed>>

\* The browser keeps the role it logged in with.
Demoted ==
    /\ role = me /\ \E r \in Demotions \ {role} : role' = r
    /\ UNCHANGED <<page, me, st, shown, fetch, dialog, calls, changes, excused, dismissed>>

-----------------------------------------------------------------------------
(* Answers.                                                                *)

Confirmed(i) == Button(calls[i].act).how = "dialog"
Reads(i) == Button(calls[i].act).how = "read"

\* The dialog after its action succeeded: whichever dialog is open closes.
AfterSuccess == dialog' = Closed
\* ... after it failed: it stays open with its text and an error.
AfterFailure == dialog' = [dialog EXCEPT !.busy = FALSE]

\* invalidateQueries drops a read under way and asks again; deleting a project
\* goes back to the list instead.
Answered(i) ==
    /\ calls[i].phase = "done" /\ calls' = [calls EXCEPT ![i] = Over]
    /\ IF Confirmed(i) THEN AfterSuccess ELSE UNCHANGED dialog
    /\ IF calls[i].act = "delete_project"
       THEN excused' = TRUE /\ UNCHANGED fetch
       ELSE fetch' = (IF Reads(i) THEN fetch ELSE "asked") /\ UNCHANGED excused
    /\ UNCHANGED <<page, me, role, st, shown, changes, dismissed>>

\* Refused, or the answer is lost, whether the call was served or not. Where the
\* page swallows the error the dialog takes the call for done.
Fails(i) ==
    /\ calls[i].phase \in InFlight /\ calls' = [calls EXCEPT ![i] = Over]
    /\ excused' = (excused \/ (calls[i].phase = "done" /\ ~Reads(i)))
    /\ IF ~Confirmed(i) THEN UNCHANGED dialog
       ELSE IF page \in Swallows THEN AfterSuccess ELSE AfterFailure
    /\ UNCHANGED <<page, me, role, st, shown, fetch, changes, dismissed>>

RowNext ==
    \/ Poll \/ Revisit \/ FetchServed \/ FetchShown \/ FetchFails
    \/ \E a \in Acts : Ask(a) \/ Press(a)
    \/ TypeReason \/ confirm \/ onClose
    \/ \E i \in Slots : Served(i) \/ Answered(i) \/ Fails(i)
    \/ OthersChange \/ Demoted
=============================================================================
