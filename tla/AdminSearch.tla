----------------------------- MODULE AdminSearch -----------------------------
(***************************************************************************)
(* The search box in the panel's menu (components/admin/GlobalSearch.tsx): a  *)
(* keystroke cancels what went before, waits 300 ms and asks the server, and   *)
(* answers come back in any order.                                           *)
(***************************************************************************)
EXTENDS Naturals, Sequences

CONSTANTS
    Terms,      \* texts of two characters and more
    MaxKeys     \* keystrokes

ASSUME SearchAssumption == MaxKeys \in Nat /\ "" \notin Terms

VARIABLE search  \* the box, see FreshSearch

\* asks: one per keystroke that left a term, [term, cancelled, phase]; phase goes
\* from "waiting" to "sent" to "over".
FreshSearch ==
    [q |-> "", open |-> FALSE, results |-> "none", loading |-> FALSE, asks |-> <<>>, keys |-> 0]

NoSearch == search = [q |-> "none"]
SearchInit == search = FreshSearch

\* The cleanup of the effect that ran for the text before: a timer that has not
\* fired is cleared, an answer under way will be ignored.
Cancelled ==
    [i \in DOMAIN search.asks |->
        [search.asks[i] EXCEPT !.cancelled = TRUE,
                               !.phase = IF @ = "waiting" THEN "over" ELSE @]]

\* The text becomes t, with the effect that runs for it.
SetQ(t) ==
    IF t \notin Terms
    THEN [search EXCEPT !.q = t, !.results = "none", !.asks = Cancelled, !.keys = @ + 1]
    ELSE [search EXCEPT !.q = t, !.loading = TRUE, !.keys = @ + 1,
                        !.asks = Append(Cancelled, [term |-> t, cancelled |-> FALSE, phase |-> "waiting"])]

Type(t) == search.keys < MaxKeys /\ t # search.q /\ search' = SetQ(t)

Fires(i) ==
    /\ search.asks[i].phase = "waiting"
    /\ search' = [search EXCEPT !.asks[i].phase = "sent"]

\* Mutated form of SearchAnswered: every answer is shown.
SearchAnsweredAlways(i) ==
    /\ search.asks[i].phase = "sent"
    /\ search' = [search EXCEPT !.asks[i].phase = "over", !.results = search.asks[i].term,
                                !.open = TRUE, !.loading = FALSE]

SearchAnswered(i) ==
    /\ search.asks[i].phase = "sent"
    /\ search' = IF search.asks[i].cancelled
                 THEN [search EXCEPT !.asks[i].phase = "over"]
                 ELSE [search EXCEPT !.asks[i].phase = "over", !.results = search.asks[i].term,
                                     !.open = TRUE, !.loading = FALSE]

\* An error reads like an answer without results.
SearchFails(i) ==
    /\ search.asks[i].phase = "sent"
    /\ search' = IF search.asks[i].cancelled
                 THEN [search EXCEPT !.asks[i].phase = "over"]
                 ELSE [search EXCEPT !.asks[i].phase = "over", !.results = "none", !.loading = FALSE]

\* A click beside the box, and the focus coming back to it.
onClick == search.open /\ search' = [search EXCEPT !.open = FALSE]
onFocus == search.results # "none" /\ ~search.open /\ search' = [search EXCEPT !.open = TRUE]

\* What the drop-down shows.
ResultsShown ==
    search.open /\ search.q \in Terms /\ ~search.loading /\ search.results # "none"

\* A result is followed: the box is closed and emptied.
go == ResultsShown /\ search' = [SetQ("") EXCEPT !.open = FALSE]

SearchNext ==
    \/ \E t \in Terms \union {"", "x"} : Type(t)
    \/ \E i \in DOMAIN search.asks : Fires(i) \/ SearchAnswered(i) \/ SearchFails(i)
    \/ onClick \/ onFocus \/ go
=============================================================================
