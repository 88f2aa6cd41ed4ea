-------------------------- MODULE SessionProperties --------------------------
(***************************************************************************)
(* What the browser's session is supposed to keep.                         *)
(***************************************************************************)
EXTENDS Session

\* A call waits only while its tab has a refresh in flight: however the refresh
\* ends (granted, refused, lost), it takes all of its waiters along
\* (refreshPromise of api.ts).
WaitersHaveRefresh ==
    \A t \in Tabs, r \in Requests :
        req[t][r].state = "waiting" => refreshPromise[t] # NoRefresh

\* A tab that has handled its storage events shows the session all tabs share,
\* whichever tab signed in or refreshed last (AuthHydrator).
StoreFollowsStorage ==
    \A t \in hydrated \ events : storage # NoSession => store[t] = storage

\* Tabs that refresh at the same time never log each other out: a tab is sent
\* to /login?session=expired only after sessions were ended on purpose or the
\* answer to a served refresh was lost (_ROTATION_GRACE_SECONDS).
ExpiryHasCause ==
    \A t \in Tabs : page[t] = "expired" => cause
=============================================================================
