------------------------------ MODULE MCAdmin ------------------------------
(* The panel on small instances. *)
EXTENDS AdminProperties

AllPages == DOMAIN Rows
EveryForm == DOMAIN AllForms

\* Two calls where a second one changes what the first one met, one where the
\* page has many buttons that differ in nothing but their rows of the tables.
Calls == [p \in Pages |->
             IF p \in {"flags", "incidents", "subscriptions", "payment", "promos", "plans", "job"}
             THEN 2 ELSE 1]

\* Nobody else moves the row where every route takes every state.
Changes == [p \in Pages |-> IF p \in {"report", "models"} THEN 0 ELSE 1]

\* One list of each sort; the others differ from these in nothing.
SomeLists == {"users", "transactions", "storage", "abuse", "jobs", "queue"}
=============================================================================
