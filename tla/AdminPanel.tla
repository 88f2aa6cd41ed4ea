----------------------------- MODULE AdminPanel -----------------------------
(***************************************************************************)
(* The panel: an administrator in front of a page with a row, of a list, of a *)
(* form or of the search box. Each is followed by itself; they share nothing   *)
(* but the server.                                                           *)
(***************************************************************************)
EXTENDS AdminConsole, AdminLists, AdminSearch, AdminForms

VARIABLE view

vars == <<view, rowVars, list, search, form>>

NoRow ==
    /\ page = "none" /\ me = NoRole /\ role = NoRole /\ st = "none" /\ shown = "none"
    /\ fetch = "none" /\ dialog = Closed /\ calls = <<>>
    /\ changes = 0 /\ excused = FALSE /\ dismissed = FALSE

Init ==
    \/ view = "row" /\ RowInit /\ NoList /\ NoSearch /\ NoForm
    \/ view = "list" /\ NoRow /\ ListInit /\ NoSearch /\ NoForm
    \/ view = "search" /\ NoRow /\ NoList /\ SearchInit /\ NoForm
    \/ view = "form" /\ NoRow /\ NoList /\ NoSearch /\ FormInit

Next ==
    /\ UNCHANGED view
    /\ \/ view = "row" /\ RowNext /\ UNCHANGED <<list, search, form>>
       \/ view = "list" /\ ListNext /\ UNCHANGED <<rowVars, search, form>>
       \/ view = "search" /\ SearchNext /\ UNCHANGED <<rowVars, list, form>>
       \/ view = "form" /\ FormNext /\ UNCHANGED <<rowVars, list, search>>

Spec == Init /\ [][Next]_vars
=============================================================================
