----------------------------- MODULE AdminForms -----------------------------
(***************************************************************************)
(* The forms of the panel: what they are filled with, whether their button    *)
(* waits for the call under way, and what a success does to them, while        *)
(* another administrator writes to the same record. A text typed is a number   *)
(* of its own; 0 stands for the record, or the empty form, as it was.          *)
(***************************************************************************)
EXTENDS Naturals

CONSTANTS
    Forms,       \* the forms visited
    MaxTyped,    \* texts typed
    MaxSaves,    \* calls
    MaxWrites    \* writes by somebody else

VARIABLE form

-----------------------------------------------------------------------------
(* fill: "blank", "row" (what the page has read), "load" (a read of its own   *)
(* at every visit) or "cache" (whatever react-query has, each time it changes); *)
(* waits: the button is disabled while a call is under way; done: after a       *)
(* success the form is emptied, closed, filled with the answer, or kept;       *)
(* modal: it is opened and closed.                                            *)

Form(fill, waits, done, modal) == [fill |-> fill, waits |-> waits, done |-> done, modal |-> modal]

note == Form("blank", FALSE, "empty", FALSE)
paymentNote == Form("row", FALSE, "empty", FALSE)
settings == Form("load", TRUE, "answer", FALSE)
maintenance == Form("cache", TRUE, "answer", FALSE)
template == Form("row", FALSE, "keep", TRUE)
broadcast == Form("blank", TRUE, "empty", FALSE)
plan == Form("row", FALSE, "close", TRUE)
promo == Form("blank", FALSE, "close", TRUE)
preset == Form("blank", TRUE, "close", TRUE)
invite == Form("blank", TRUE, "close", TRUE)

AllForms ==
    [note |-> note, paymentNote |-> paymentNote, settings |-> settings, maintenance |-> maintenance,
     template |-> template, broadcast |-> broadcast, plan |-> plan, promo |-> promo,
     preset |-> preset, invite |-> invite]

ASSUME FormAssumption ==
    /\ Forms \subseteq DOMAIN AllForms
    /\ MaxTyped \in Nat /\ MaxSaves \in Nat /\ MaxWrites \in Nat

Other == MaxTyped + 1
Values == 0..Other
Saves == 1..MaxSaves
NoSave == [phase |-> "none", what |-> 0, own |-> FALSE]

\* db: the record; read: the record as the page has it; fetch: a read under way,
\* with what it brings in got; base: what the form was filled with; draft: the
\* text typed over it, 0 if none; late: it was typed, or its form opened, while a
\* call was under way; took: how often the server has taken each text; excused:
\* the record has changed in a way the page cannot know of.
FreshForm(f) ==
    [name |-> f, db |-> 0, read |-> 0, got |-> 0, fetch |-> "none", open |-> ~AllForms[f].modal,
     base |-> 0, draft |-> 0, late |-> FALSE, typed |-> 0, busy |-> FALSE,
     saves |-> [i \in Saves |-> NoSave], took |-> [v \in Values |-> 0],
     writes |-> 0, excused |-> FALSE]

NoForm == form = [name |-> "none"]
FormInit == \E f \in Forms : form = FreshForm(f)

Sort == AllForms[form.name]
UnderWay == {i \in Saves : form.saves[i].phase \in {"sent", "served"}}
Unsent == {i \in Saves : form.saves[i].phase = "none"}
FormShows == IF form.draft # 0 THEN form.draft ELSE form.base
Filled == IF Sort.fill = "blank" THEN 0 ELSE form.read
\* The fields are on screen.
InReach == form.open /\ (Sort.fill = "load" => form.fetch = "none")

-----------------------------------------------------------------------------
\* New plan, New promo, Edit, a template of the list: the form is filled, over
\* whatever was in it; only a preset's text survives its Cancel. A new invitation
\* knows nothing of one under way.
OpenForm ==
    /\ Sort.modal /\ (form.name = "template" \/ ~form.open)
    /\ form' = [form EXCEPT !.open = TRUE, !.base = Filled,
                            !.draft = IF form.name = "preset" THEN @ ELSE 0,
                            !.late = UnderWay # {},
                            !.busy = @ /\ form.name # "invite",
                            !.saves = [i \in Saves |->
                                          [form.saves[i] EXCEPT !.own = @ /\ form.name # "invite"]],
                            !.excused = @ \/ (Sort.fill = "row" /\ (form.fetch # "none" \/ UnderWay # {}))]

Close ==
    /\ Sort.modal /\ form.open /\ form.name # "template"
    /\ form' = [form EXCEPT !.open = FALSE]

\* The fields stay open to typing while a call is under way.
TypeIn ==
    /\ InReach /\ form.typed < MaxTyped
    /\ form' = [form EXCEPT !.typed = @ + 1, !.draft = form.typed + 1, !.late = UnderWay # {}]

\* Empty forms and unchanged settings are not sent; other forms write back
\* every field they show, changed or not.
MaySave ==
    InReach /\ (form.draft # 0 \/ form.name \in {"template", "plan", "maintenance"})

Sending(i) ==
    [form EXCEPT !.saves[i] = [phase |-> "sent", what |-> FormShows, own |-> TRUE],
                 !.busy = Sort.waits,
                 !.excused = @ \/ (~Sort.waits /\ Sort.fill # "blank" /\ UnderWay # {})]

\* Mutated form of SaveForm: the button does not wait.
SaveFormAtOnce ==
    MaySave /\ \E i \in Unsent : (\A j \in Unsent : i <= j) /\ form' = Sending(i)

SaveForm ==
    /\ MaySave /\ ~(Sort.waits /\ form.busy)
    /\ \E i \in Unsent : (\A j \in Unsent : i <= j) /\ form' = Sending(i)

\* The server writes the record, or adds one. No version is compared.
SaveServed(i) ==
    /\ form.saves[i].phase = "sent"
    /\ LET v == form.saves[i].what IN
       form' = [form EXCEPT !.saves[i].phase = "served", !.took[v] = @ + 1,
                            !.db = IF Sort.fill = "blank" THEN @ ELSE v]

Ends(i, phase, f) ==
    [f EXCEPT !.saves[i].phase = phase, !.busy = @ /\ ~form.saves[i].own]

\* Done: whatever form is open now is emptied, closed or filled, and the page
\* reads again where it shows a row. The answer is the record as it was written;
\* a read of the maintenance window under way will bring an older one after it.
SaveAnswered(i) ==
    /\ form.saves[i].phase = "served"
    /\ LET v == form.saves[i].what
           after == CASE Sort.done = "empty" -> [form EXCEPT !.draft = 0]
                      [] Sort.done = "close" -> [form EXCEPT !.open = FALSE, !.draft = 0]
                      [] Sort.done = "answer" -> [form EXCEPT !.base = v, !.draft = 0]
                      [] Sort.done = "keep" ->
                             [form EXCEPT !.base = v, !.draft = IF @ = v THEN 0 ELSE @]
       IN form' = Ends(i, "done", [after EXCEPT
                !.fetch = IF Sort.fill = "row" THEN "asked" ELSE @,
                !.excused = @ \/ (Sort.fill = "cache" /\ form.fetch = "back" /\ form.got # form.db)])

\* Refused, or the answer is lost.
SaveFails(i) ==
    /\ i \in UnderWay
    /\ form' = Ends(i, "failed", [form EXCEPT !.excused = @ \/ form.saves[i].phase = "served"])

-----------------------------------------------------------------------------
\* A form that shows what is read, and for which it is news.
Refilled ==
    /\ form.name \notin {"plan", "template"}
    /\ Sort.fill = "cache" => form.db # form.read

\* Reading the row again. Where the form shows it and no call is under way, the
\* page is up to date again.
FormRead ==
    /\ form.fetch = "asked"
    /\ form' = [form EXCEPT !.fetch = "back", !.got = form.db,
                            !.excused = @ /\ ~(Refilled /\ UnderWay = {})]

\* What a read brings reaches a form that shows the row; the settings and, when
\* it is news, the maintenance window are filled again over what was typed.
FormReadShown ==
    /\ form.fetch = "back"
    /\ LET read == [form EXCEPT !.fetch = "none", !.read = form.got] IN
       form' = IF form.name = "paymentNote" THEN [read EXCEPT !.base = form.got]
               ELSE IF Sort.fill = "load" \/ (Sort.fill = "cache" /\ form.got # form.read)
               THEN [read EXCEPT !.base = form.got, !.draft = 0]
               ELSE read

FormReadFails ==
    /\ form.fetch # "none"
    /\ form' = [form EXCEPT !.fetch = "none", !.excused = TRUE, !.open = @ /\ Sort.fill # "load"]

\* Leaving the page with no call under way and coming back: what was typed is
\* gone. Settings are read again; elsewhere what the page has read is shown, and
\* read again if it is stale: until then nobody notices that saving a maintenance
\* window left the cache as it was.
BackToForm ==
    /\ UnderWay = {} /\ form.fetch = "none"
    /\ \E again \in BOOLEAN :
           /\ Sort.fill = "load" => again
           /\ Sort.fill = "blank" => ~again
           /\ form' = [form EXCEPT !.open = ~Sort.modal, !.base = Filled, !.draft = 0,
                                   !.fetch = IF again THEN "asked" ELSE "none",
                                   !.excused = @ \/ (~again /\ form.read # form.db)]
    /\ form' # form

SomebodyWrites ==
    /\ form.writes < MaxWrites /\ Sort.fill # "blank"
    /\ form' = [form EXCEPT !.db = Other, !.writes = @ + 1, !.excused = TRUE]

FormNext ==
    \/ OpenForm \/ Close \/ TypeIn \/ SaveForm
    \/ \E i \in Saves : SaveServed(i) \/ SaveAnswered(i) \/ SaveFails(i)
    \/ FormRead \/ FormReadShown \/ FormReadFails \/ BackToForm \/ SomebodyWrites
=============================================================================
