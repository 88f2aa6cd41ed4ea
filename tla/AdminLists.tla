----------------------------- MODULE AdminLists -----------------------------
(***************************************************************************)
(* The lists of the panel: a filter, a page number, and react-query's cache   *)
(* of one answer per filter and page (its key), beside rows that other people  *)
(* add and remove. A list is followed with its filter in two positions, all    *)
(* rows and some of them; a search text and several drop-downs are one filter. *)
(***************************************************************************)
EXTENDS FiniteSetsExt, Naturals

CONSTANTS
    Lists,      \* the lists visited
    PageSize,   \* rows on a page
    MaxRows,    \* rows of a list
    MaxSteps    \* times rows come or go

VARIABLE list   \* the list on screen, see FreshList

-----------------------------------------------------------------------------
(* What the lists differ in: a filter, pages, reading again by themselves.   *)

Screen(filtered, paged, polls) == [filtered |-> filtered, paged |-> paged, polls |-> polls]

users == Screen(TRUE, TRUE, FALSE)
projects == Screen(TRUE, TRUE, FALSE)
payments == Screen(TRUE, TRUE, FALSE)
audit == Screen(TRUE, TRUE, FALSE)
compliance == Screen(TRUE, TRUE, FALSE)
storage == Screen(FALSE, TRUE, FALSE)
subscriptions == Screen(TRUE, TRUE, FALSE)
transactions == Screen(FALSE, TRUE, FALSE)
activity == Screen(FALSE, TRUE, FALSE)
jobs == Screen(TRUE, FALSE, TRUE)
abuse == Screen(TRUE, FALSE, FALSE)
analytics == Screen(TRUE, FALSE, FALSE)
queue == Screen(FALSE, FALSE, TRUE)
workers == Screen(FALSE, FALSE, TRUE)
overview == Screen(FALSE, FALSE, TRUE)

Screens ==
    [users |-> users, projects |-> projects, payments |-> payments, audit |-> audit,
     compliance |-> compliance, storage |-> storage, subscriptions |-> subscriptions,
     transactions |-> transactions, activity |-> activity, jobs |-> jobs, abuse |-> abuse,
     analytics |-> analytics, queue |-> queue, workers |-> workers, overview |-> overview]

ASSUME ListAssumption ==
    /\ Lists \subseteq DOMAIN Screens
    /\ PageSize \in Nat \ {0} /\ MaxRows \in Nat /\ MaxSteps \in Nat

-----------------------------------------------------------------------------
Filters == {"all", "some"}
PageNos == 1..(MaxRows + 1)
Keys == Filters \X PageNos

\* An answer: how many rows there are in all, and how many are on this page.
PageCount(total) == Max({1, (total + PageSize - 1) \div PageSize})
Page(total, p) ==
    LET left == IF total > (p - 1) * PageSize THEN total - (p - 1) * PageSize ELSE 0
    IN [total |-> total, rows |-> Min({left, PageSize})]
Nothing == [total |-> 0, rows |-> 99]

\* count: the rows in the database; cache: the answer kept per key; reads: the
\* keys asked for; answers: what is on its way back; gone: rows went since the start.
FreshList(s, all, some) ==
    [screen |-> s, filter |-> "all", page |-> 1,
     count |-> [all |-> all, some |-> some],
     cache |-> [k \in Keys |-> Nothing], reads |-> {<<"all", 1>>}, answers |-> {},
     steps |-> 0, gone |-> FALSE]

NoList == list = [screen |-> "none"]

ListInit ==
    \E s \in Lists, all \in 0..MaxRows : \E some \in 0..all : list = FreshList(s, all, some)

key == <<list.filter, list.page>>
Kind == Screens[list.screen]
OnList(f, p) == IF list.cache[<<f, p>>] = Nothing THEN list.reads \union {<<f, p>>} ELSE list.reads
\* The table is on screen ("isLoading || !data" shows a placeholder instead).
Table == list.cache[key]
TableShown == Table # Nothing

\* Choosing a filter goes back to the first page; an answer kept is shown at once.
setFilter(f) ==
    /\ Kind.filtered /\ f # list.filter
    /\ list' = [list EXCEPT !.filter = f, !.page = 1, !.reads = OnList(f, 1)]

\* Previous and Next, offered only where there is more than one page.
Pagination(p) ==
    /\ Kind.paged /\ TableShown /\ PageCount(Table.total) > 1
    /\ \/ p = list.page - 1 /\ list.page > 1
       \/ p = list.page + 1 /\ list.page < PageCount(Table.total)
    /\ list' = [list EXCEPT !.page = p, !.reads = OnList(list.filter, p)]

\* refetchInterval.
Refetch ==
    /\ Kind.polls /\ key \notin list.reads
    /\ list' = [list EXCEPT !.reads = @ \union {key}]

\* Leaving the page and coming back: the controls start over, what was kept is
\* shown, and read again if it is stale.
BackToList ==
    /\ \E again \in SUBSET {<<"all", 1>>} :
           list' = [list EXCEPT !.filter = "all", !.page = 1, !.reads = OnList("all", 1) \union again]
    /\ list' # list

\* The server counts the rows and cuts the page out. The storage page's rows are read up to
\* the end of the page asked for, and the answer counts those: its Next is never offered.
Counted(k) ==
    IF list.screen = "storage" THEN Min({list.count[k[1]], k[2] * PageSize}) ELSE list.count[k[1]]
ListServed(k) ==
    /\ k \in list.reads /\ \A a \in list.answers : a.key # k
    /\ list' = [list EXCEPT !.answers = @ \union
                   {[key |-> k, answer |-> IF Kind.paged THEN Page(Counted(k), k[2])
                                           ELSE [total |-> list.count[k[1]], rows |-> list.count[k[1]]]]}]

ListArrives(a) ==
    /\ a \in list.answers
    /\ list' = [list EXCEPT !.answers = @ \ {a}, !.reads = @ \ {a.key}, !.cache[a.key] = a.answer]

\* The read and its retry fail: what was kept stays on screen, under an error.
ListFails(k) ==
    /\ k \in list.reads
    /\ list' = [list EXCEPT !.reads = @ \ {k}, !.answers = {a \in @ : a.key # k}]

RowsComeAndGo ==
    /\ list.steps < MaxSteps
    /\ \E d \in {"come", "go"}, some \in BOOLEAN :
           LET n == list.count IN
           /\ IF d = "come" THEN n["all"] < MaxRows
              ELSE n["all"] > 0 /\ (some => n["some"] > 0) /\ (~some => n["some"] < n["all"])
           /\ list' = [list EXCEPT
                  !.count["all"] = IF d = "come" THEN @ + 1 ELSE @ - 1,
                  !.count["some"] = IF ~some THEN @ ELSE IF d = "come" THEN @ + 1 ELSE @ - 1,
                  !.steps = @ + 1, !.gone = @ \/ d = "go"]

ListNext ==
    \/ \E f \in Filters : setFilter(f)
    \/ \E p \in PageNos : Pagination(p)
    \/ Refetch \/ BackToList \/ RowsComeAndGo
    \/ \E k \in list.reads : ListServed(k) \/ ListFails(k)
    \/ \E a \in list.answers : ListArrives(a)
=============================================================================
