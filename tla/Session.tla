------------------------------ MODULE Session ------------------------------
(***************************************************************************)
(* The signed-in session of one browser, as services/api.ts,               *)
(* features/auth/ and the pages that start or end a session keep it, with  *)
(* the server's rotation of refresh tokens.                                *)
(*                                                                         *)
(* The tabs of the browser share localStorage and each keep a copy of it in *)
(* their own store.  Every API call carries the access token of            *)
(* localStorage; one that is answered 401 waits for its tab's one refresh   *)
(* and is sent a second time.  A session n stands for the access token, the *)
(* refresh token and the user record issued together: the browser writes    *)
(* and removes the three in one synchronous step.                           *)
(***************************************************************************)
EXTENDS Naturals, FiniteSets

CONSTANTS
    Tabs,          \* tabs of the browser
    Requests,      \* concurrent API calls of one tab
    MaxCalls,      \* bound: calls under way in all tabs together
    Channels,      \* ways to sign in: "password", the form; "google", the button
    MaxSessions    \* bound: sessions the server may issue

ASSUME SessionAssumption ==
    MaxSessions \in Nat \ {0} /\ MaxCalls \in Nat /\ Channels \subseteq {"password", "google"}

NoSession == 0
Sessions == 1 .. MaxSessions
\* "login" stands for the signed-out pages, the registration page included.
Pages == {"app", "login", "expired"}

VARIABLES
    sess,            \* server: state of each session's refresh token
    account,         \* server: whether it exists, is verified, is deleted
    storage,         \* localStorage: the session all tabs share
    store,           \* zustand store of each tab
    hydrated,        \* tabs whose store has been read from localStorage
    events,          \* tabs with a storage event still to handle
    page,            \* where each tab is
    refreshPromise,  \* the tab's one refresh in flight
    req,             \* API calls of each tab
    logins,          \* sign-in calls in flight in each tab
    logouts,         \* session a tab is signing out of
    cause            \* history: sessions were ended on purpose, or the answer to a
                     \* served refresh was lost

vars == <<sess, account, storage, store, hydrated, events, page,
          refreshPromise, req, logins, logouts, cause>>
server == <<sess, account>>
client == <<storage, store, hydrated, events>>

\* One refresh of a tab: the session it was sent with and the one it brings.
Refreshes == [from : Sessions \union {NoSession}, to : Sessions \union {NoSession},
              phase : {"none", "sent", "granted", "refused"}]
NoRefresh == [from |-> NoSession, to |-> NoSession, phase |-> "none"]

\* An API call; "retry" once it has been sent a second time.
Calls == [state : {"idle", "sent", "waiting"}, retry : BOOLEAN]
Idle == [state |-> "idle", retry |-> FALSE]

TypeOK ==
    /\ sess \in [Sessions -> {"unused", "live", "grace", "dead"}]
    /\ account \in {"none", "unverified", "active", "deleted"}
    /\ storage \in Sessions \union {NoSession}
    /\ store \in [Tabs -> Sessions \union {NoSession}]
    /\ hydrated \in SUBSET Tabs
    /\ events \in SUBSET Tabs
    /\ page \in [Tabs -> Pages]
    /\ refreshPromise \in [Tabs -> Refreshes]
    /\ req \in [Tabs -> [Requests -> Calls]]
    /\ logins \in [Tabs -> SUBSET Channels]
    /\ logouts \in [Tabs -> Sessions \union {NoSession}]
    /\ cause \in BOOLEAN

\* A browser opened on the app with session 1 in localStorage, or by somebody
\* who has no account yet.
Init ==
    /\ \/ /\ account = "active" /\ storage = 1
          /\ sess = [n \in Sessions |-> IF n = 1 THEN "live" ELSE "unused"]
          /\ page = [t \in Tabs |-> "app"]
       \/ /\ account = "none" /\ storage = NoSession
          /\ sess = [n \in Sessions |-> "unused"]
          /\ page = [t \in Tabs |-> "login"]
    /\ store = [t \in Tabs |-> NoSession]
    /\ hydrated = {}
    /\ events = {}
    /\ refreshPromise = [t \in Tabs |-> NoRefresh]
    /\ req = [t \in Tabs |-> [r \in Requests |-> Idle]]
    /\ logins = [t \in Tabs |-> {}]
    /\ logouts = [t \in Tabs |-> NoSession]
    /\ cause = FALSE

-----------------------------------------------------------------------------
(* The store, localStorage and the storage events between tabs.            *)

\* The other tabs hear of a change once they listen.
Others(t) == hydrated \ {t}

\* setAuth: the tab's own store and localStorage change at once; the other
\* tabs hear of it by a storage event.
setAuth(t, n) ==
    /\ storage' = n
    /\ store' = [store EXCEPT ![t] = n]
    /\ events' = events \union Others(t)

\* An event the tab itself has still to handle would find nothing stored.
clear(t) ==
    /\ storage' = NoSession
    /\ store' = [store EXCEPT ![t] = NoSession]
    /\ events' = (IF storage = NoSession THEN events ELSE events \union Others(t)) \ {t}

\* Mutated form of hydrate: a tab that already holds a session keeps it.
hydrateOnce(t) ==
    /\ hydrated' = hydrated \union {t}
    /\ store' = IF storage # NoSession /\ store[t] = NoSession
                THEN [store EXCEPT ![t] = storage] ELSE store

\* hydrate copies a stored session; when nothing is stored it only says that
\* the store has been read.
hydrate(t) ==
    /\ hydrated' = hydrated \union {t}
    /\ store' = IF storage # NoSession THEN [store EXCEPT ![t] = storage] ELSE store

Mount(t) ==
    /\ t \notin hydrated
    /\ hydrate(t)
    /\ events' = events \ {t}
    /\ UNCHANGED <<server, storage, page, refreshPromise, req, logins, logouts, cause>>

OnStorage(t) ==
    /\ t \in events /\ t \in hydrated
    /\ hydrate(t)
    /\ events' = events \ {t}
    /\ UNCHANGED <<server, storage, page, refreshPromise, req, logins, logouts, cause>>

\* The guard of the signed-in pages: hydrated without a session goes to login.
AuthGuard(t) ==
    /\ page[t] = "app" /\ t \in hydrated /\ store[t] = NoSession
    /\ page' = [page EXCEPT ![t] = "login"]
    /\ UNCHANGED <<server, client, refreshPromise, req, logins, logouts, cause>>

-----------------------------------------------------------------------------
(* API calls: the request and response interceptors of api.ts.             *)

Send(t, r) ==
    /\ page[t] = "app" /\ req[t][r].state = "idle"
    /\ Cardinality({c \in Tabs \X Requests : req[c[1]][c[2]].state # "idle"}) < MaxCalls
    /\ req' = [req EXCEPT ![t][r] = [state |-> "sent", retry |-> FALSE]]
    /\ UNCHANGED <<server, client, page, refreshPromise, logins, logouts, cause>>

\* The answer of a call, or a call the network lost.
Settle(t, r) ==
    /\ req[t][r].state = "sent"
    /\ req' = [req EXCEPT ![t][r] = Idle]
    /\ UNCHANGED <<server, client, page, refreshPromise, logins, logouts, cause>>

\* The stored session is dead: it is cleared and the calls that wait for it
\* fail; unless it is there already the tab is reloaded at
\* /login?session=expired, which drops whatever it had in flight.
endSession(t, failed) ==
    /\ clear(t)
    /\ refreshPromise' = [refreshPromise EXCEPT ![t] = NoRefresh]
    /\ \/ /\ page[t] = "app"
          /\ page' = [page EXCEPT ![t] = "expired"]
          /\ hydrated' = hydrated \ {t}
          /\ req' = [req EXCEPT ![t] = [r \in Requests |-> Idle]]
          /\ logouts' = [logouts EXCEPT ![t] = NoSession]
       \/ /\ page[t] # "app"
          /\ req' = [req EXCEPT ![t] = [r \in Requests |-> IF r \in failed THEN Idle ELSE @[r]]]
          /\ UNCHANGED <<page, hydrated, logouts>>

Waiting(t) == {r \in Requests : req[t][r].state = "waiting"}

startRefresh(t) ==
    refreshPromise' = IF refreshPromise[t] # NoRefresh THEN refreshPromise
                      ELSE [refreshPromise EXCEPT ![t] =
                              [from |-> storage, to |-> NoSession, phase |-> "sent"]]

\* The access token has expired (or the password the call carries is wrong:
\* that is a 401 too).  A first 401 joins the tab's refresh, which it starts
\* when there is none; with nothing stored the refresh is refused on the spot.
Answer401(t, r) ==
    /\ req[t][r].state = "sent" /\ ~req[t][r].retry
    /\ \/ /\ refreshPromise[t] = NoRefresh /\ storage = NoSession
          /\ endSession(t, {r})
       \/ /\ refreshPromise[t] # NoRefresh \/ storage # NoSession
          /\ req' = [req EXCEPT ![t][r] = [state |-> "waiting", retry |-> TRUE]]
          /\ startRefresh(t)
          /\ UNCHANGED <<client, page, logouts>>
    /\ UNCHANGED <<server, logins, cause>>

\* The next session the server issues.
Issues(n) == sess[n] = "unused" /\ \A m \in Sessions : m < n => sess[m] # "unused"

\* Mutated form of ServeRefresh: the old token is revoked at once.
ServeRefreshNoGrace(t) ==
    LET from == refreshPromise[t].from IN
    /\ refreshPromise[t].phase = "sent"
    /\ \/ \E n \in Sessions :
            /\ account = "active" /\ sess[from] = "live" /\ Issues(n)
            /\ sess' = [sess EXCEPT ![from] = "dead", ![n] = "live"]
            /\ refreshPromise' = [refreshPromise EXCEPT ![t] =
                                    [from |-> from, to |-> n, phase |-> "granted"]]
       \/ /\ account = "deleted" \/ sess[from] = "dead"
          /\ refreshPromise' = [refreshPromise EXCEPT ![t] =
                                  [from |-> from, to |-> NoSession, phase |-> "refused"]]
          /\ UNCHANGED sess
    /\ UNCHANGED <<account, client, page, req, logins, logouts, cause>>

\* The server rotates: the old refresh token keeps a grace window and the
\* answer carries a session of its own.
ServeRefresh(t) ==
    LET from == refreshPromise[t].from IN
    /\ refreshPromise[t].phase = "sent"
    /\ \/ \E n \in Sessions :
            /\ account = "active" /\ sess[from] \in {"live", "grace"} /\ Issues(n)
            /\ sess' = [sess EXCEPT ![from] = "grace", ![n] = "live"]
            /\ refreshPromise' = [refreshPromise EXCEPT ![t] =
                                    [from |-> from, to |-> n, phase |-> "granted"]]
       \/ /\ account = "deleted" \/ sess[from] = "dead"
          /\ refreshPromise' = [refreshPromise EXCEPT ![t] =
                                  [from |-> from, to |-> NoSession, phase |-> "refused"]]
          /\ UNCHANGED sess
    /\ UNCHANGED <<account, client, page, req, logins, logouts, cause>>

\* The new session is stored and every waiting call is sent again with it.
RefreshGranted(t) ==
    LET n == refreshPromise[t].to IN
    /\ refreshPromise[t].phase = "granted"
    /\ setAuth(t, n)
    /\ refreshPromise' = [refreshPromise EXCEPT ![t] = NoRefresh]
    /\ req' = [req EXCEPT ![t] = [r \in Requests |->
                 IF @[r].state # "waiting" THEN @[r]
                 ELSE [state |-> "sent", retry |-> TRUE]]]
    /\ UNCHANGED <<server, hydrated, page, logins, logouts, cause>>

RefreshRefused(t) ==
    /\ refreshPromise[t].phase = "refused"
    /\ endSession(t, Waiting(t))
    /\ UNCHANGED <<server, logins, cause>>

\* Mutated form of RefreshFailed: the calls that wait are forgotten.
RefreshFailedAlone(t) ==
    /\ refreshPromise[t].phase \in {"sent", "granted"}
    /\ cause' = (cause \/ refreshPromise[t].phase = "granted")
    /\ refreshPromise' = [refreshPromise EXCEPT ![t] = NoRefresh]
    /\ UNCHANGED <<server, client, page, req, logins, logouts>>

\* A dropped connection, a 5xx or the 15 s timeout fails the waiting calls
\* and leaves the session alone.
RefreshFailed(t) ==
    /\ refreshPromise[t].phase \in {"sent", "granted"}
    /\ cause' = (cause \/ refreshPromise[t].phase = "granted")
    /\ refreshPromise' = [refreshPromise EXCEPT ![t] = NoRefresh]
    /\ req' = [req EXCEPT ![t] = [r \in Requests |->
                 IF @[r].state = "waiting" THEN Idle ELSE @[r]]]
    /\ UNCHANGED <<server, client, page, logins, logouts>>

-----------------------------------------------------------------------------
(* Signing in and out, and the operations that end every session.          *)

\* The registration form: an account that has to prove its address first.
Register(t) ==
    /\ page[t] = "login" /\ account = "none"
    /\ account' = "unverified"
    /\ UNCHANGED <<sess, client, page, refreshPromise, req, logins, logouts, cause>>

\* The link in the mail, opened anywhere.
VerifyEmail ==
    /\ account = "unverified" /\ account' = "active"
    /\ UNCHANGED <<sess, client, page, refreshPromise, req, logins, logouts, cause>>

\* The password form is disabled while it is busy, the Google button ignores
\* a second credential; neither looks at the other.
SignInOffered(t, c) == page[t] \in {"login", "expired"} /\ c \notin logins[t]

LoginSend(t, c) ==
    /\ SignInOffered(t, c)
    /\ logins' = [logins EXCEPT ![t] = @ \union {c}]
    /\ UNCHANGED <<server, client, page, refreshPromise, req, logouts, cause>>

\* Google creates a verified account where there is none, and is refused an
\* unverified one.
LoginGranted(t, c) ==
    /\ c \in logins[t]
    /\ account = "active" \/ (account = "none" /\ c = "google")
    /\ account' = "active"
    /\ \E n \in Sessions :
         /\ Issues(n)
         /\ sess' = [sess EXCEPT ![n] = "live"]
         /\ setAuth(t, n)
    /\ page' = [page EXCEPT ![t] = "app"]
    /\ logins' = [logins EXCEPT ![t] = @ \ {c}]
    /\ UNCHANGED <<hydrated, refreshPromise, req, logouts, cause>>

LoginFailed(t, c) ==
    /\ c \in logins[t]
    /\ logins' = [logins EXCEPT ![t] = @ \ {c}]
    /\ UNCHANGED <<server, client, page, refreshPromise, req, logouts, cause>>

\* A login page opened with a session goes on to the app, except after expiry.
Forward(t) ==
    /\ page[t] = "login" /\ t \in hydrated /\ store[t] # NoSession
    /\ page' = [page EXCEPT ![t] = "app"]
    /\ UNCHANGED <<server, client, refreshPromise, req, logins, logouts, cause>>

\* The account menu, which needs a user, with its item not yet clicked.
LogoutOffered(t) == page[t] = "app" /\ store[t] # NoSession /\ logouts[t] = NoSession

\* Signing out names the refresh token the store held when it was clicked.
LogoutSend(t) ==
    /\ LogoutOffered(t)
    /\ logouts' = [logouts EXCEPT ![t] = store[t]]
    /\ UNCHANGED <<server, client, page, refreshPromise, req, logins, cause>>

\* Mutated form of LogoutDone: the tab goes to a page of its own.
LogoutDoneElsewhere(t) ==
    /\ logouts[t] # NoSession
    /\ clear(t)
    /\ page' = [page EXCEPT ![t] = "goodbye"]
    /\ logouts' = [logouts EXCEPT ![t] = NoSession]
    /\ cause' = TRUE
    /\ UNCHANGED <<sess, account, hydrated, refreshPromise, req, logins>>

\* authApi.logout swallows its own failure: the tab is cleared either way.
LogoutDone(t) ==
    /\ logouts[t] # NoSession
    /\ \/ sess' = [sess EXCEPT ![logouts[t]] = "dead"]
       \/ UNCHANGED sess
    /\ clear(t)
    /\ page' = [page EXCEPT ![t] = "login"]
    /\ logouts' = [logouts EXCEPT ![t] = NoSession]
    /\ cause' = TRUE
    /\ UNCHANGED <<account, hydrated, refreshPromise, req, logins>>

RevokeAll == sess' = [n \in Sessions |-> IF sess[n] = "unused" THEN "unused" ELSE "dead"]

\* The link of the forgotten-password mail, opened anywhere: it proves the address
\* too and ends every session.
ResetPassword ==
    /\ account \in {"unverified", "active"} /\ account' = "active"
    /\ RevokeAll
    /\ cause' = TRUE
    /\ UNCHANGED <<client, page, refreshPromise, req, logins, logouts>>

\* A password change ends every session of the account, the caller's own
\* included; the caller stays where it is.
ChangePassword(t) ==
    /\ page[t] = "app" /\ storage # NoSession /\ account = "active"
    /\ RevokeAll
    /\ cause' = TRUE
    /\ UNCHANGED <<account, client, page, refreshPromise, req, logins, logouts>>

\* Deleting the account goes on to sign the tab out.
DeleteAccount(t) ==
    /\ LogoutOffered(t) /\ storage # NoSession /\ account = "active"
    /\ account' = "deleted"
    /\ RevokeAll
    /\ cause' = TRUE
    /\ logouts' = [logouts EXCEPT ![t] = store[t]]
    /\ UNCHANGED <<client, page, refreshPromise, req, logins>>

-----------------------------------------------------------------------------
(* Time.                                                                   *)

\* The 60 s grace window outlasts every refresh that was sent with the old
\* token before it was rotated away: a refresh lives 15 s at most.
GraceEnds(n) ==
    /\ sess[n] = "grace"
    /\ \A t \in Tabs : refreshPromise[t].from # n
    /\ sess' = [sess EXCEPT ![n] = "dead"]
    /\ UNCHANGED <<account, client, page, refreshPromise, req, logins, logouts, cause>>

TabStep(t) ==
    \/ Mount(t) \/ OnStorage(t) \/ AuthGuard(t) \/ Forward(t) \/ Register(t)
    \/ ServeRefresh(t) \/ RefreshGranted(t) \/ RefreshRefused(t) \/ RefreshFailed(t)
    \/ LogoutSend(t) \/ LogoutDone(t) \/ ChangePassword(t) \/ DeleteAccount(t)
    \/ \E r \in Requests : Send(t, r) \/ Settle(t, r) \/ Answer401(t, r)
    \/ \E c \in Channels : LoginSend(t, c) \/ LoginGranted(t, c) \/ LoginFailed(t, c)

Next ==
    \/ \E t \in Tabs : TabStep(t)
    \/ \E n \in Sessions : GraceEnds(n)
    \/ VerifyEmail \/ ResetPassword

Spec == Init /\ [][Next]_vars
=============================================================================
