--------------------------- MODULE SessionProofs ---------------------------
(***************************************************************************)
(* The properties of SessionProperties, for any number of tabs, calls and  *)
(* sessions.                                                               *)
(***************************************************************************)
EXTENDS SessionProperties, TLAPS

-----------------------------------------------------------------------------
(* Types.                                                                  *)

LEMMA SomeCalls ==
  /\ Idle \in Calls
  /\ \A b \in BOOLEAN : [state |-> "sent", retry |-> b] \in Calls
  /\ [state |-> "waiting", retry |-> TRUE] \in Calls
  BY DEF Calls, Idle

LEMMA SomeRefreshes ==
  /\ NoRefresh \in Refreshes
  /\ \A m, n \in Sessions \union {NoSession}, ph \in {"sent", "granted", "refused"} :
        [from |-> m, to |-> n, phase |-> ph] \in Refreshes
  /\ \A p \in Refreshes : p.from \in Sessions \union {NoSession}
                         /\ p.to \in Sessions \union {NoSession}
  BY DEF Refreshes, NoRefresh

\* Changing one call, or all calls of one tab.
LEMMA OneCall ==
  ASSUME NEW q \in [Tabs -> [Requests -> Calls]], NEW t \in Tabs, NEW r \in Requests,
         NEW c \in Calls
  PROVE  [q EXCEPT ![t][r] = c] \in [Tabs -> [Requests -> Calls]]
<1>1. [q[t] EXCEPT ![r] = c] \in [Requests -> Calls]
  OBVIOUS
<1>2. QED
  BY <1>1

LEMMA TabCalls ==
  ASSUME NEW q \in [Tabs -> [Requests -> Calls]], NEW t \in Tabs,
         NEW f \in [Requests -> Calls]
  PROVE  [q EXCEPT ![t] = f] \in [Tabs -> [Requests -> Calls]]
  OBVIOUS

LEMMA OneRefresh ==
  ASSUME NEW p \in [Tabs -> Refreshes], NEW t \in Tabs, NEW x \in Refreshes
  PROVE  [p EXCEPT ![t] = x] \in [Tabs -> Refreshes]
  OBVIOUS

LEMMA TypesInit == Init => TypeOK
<1> SUFFICES ASSUME Init PROVE TypeOK
  OBVIOUS
<1>1. refreshPromise \in [Tabs -> Refreshes] /\ req \in [Tabs -> [Requests -> Calls]]
  BY SomeCalls, SomeRefreshes DEF Init
<1>2. storage \in Sessions \union {NoSession}
  BY SessionAssumption DEF Init, Sessions
<1>3. sess \in [Sessions -> {"unused", "live", "grace", "dead"}] /\ page \in [Tabs -> Pages]
  BY DEF Init, Pages
<1>4. /\ store \in [Tabs -> Sessions \union {NoSession}]
      /\ logouts \in [Tabs -> Sessions \union {NoSession}]
  BY DEF Init
<1>5. QED
  BY <1>1, <1>2, <1>3, <1>4 DEF Init, TypeOK

\* What endSession leaves has the types it had.
LEMMA EndSessionTypes ==
  ASSUME TypeOK, NEW t \in Tabs, NEW failed \in SUBSET Requests, endSession(t, failed),
         UNCHANGED <<sess, account, logins, cause>>
  PROVE  TypeOK'
<1>1. req' \in [Tabs -> [Requests -> Calls]]
  <2>1. [r \in Requests |-> Idle] \in [Requests -> Calls]
    BY SomeCalls
  <2>2. [r \in Requests |-> IF r \in failed THEN Idle ELSE req[t][r]] \in [Requests -> Calls]
    BY SomeCalls DEF TypeOK
  <2>3. QED
    BY <2>1, <2>2, TabCalls DEF TypeOK, endSession
<1>2. refreshPromise' \in [Tabs -> Refreshes]
  BY SomeRefreshes DEF TypeOK, endSession
<1>3. QED
  BY <1>1, <1>2 DEF TypeOK, endSession, clear, Others, Pages

LEMMA CallTypes ==
  ASSUME TypeOK, NEW t \in Tabs, NEW r \in Requests,
         Send(t, r) \/ Settle(t, r) \/ Answer401(t, r)
  PROVE  TypeOK'
<1>1. CASE Send(t, r) \/ Settle(t, r)
  <2>1. req' \in [Tabs -> [Requests -> Calls]]
    <3>1. PICK c \in Calls : req' = [req EXCEPT ![t][r] = c]
      BY <1>1, SomeCalls DEF Send, Settle
    <3>2. QED
      BY <3>1, OneCall DEF TypeOK
  <2>2. QED
    BY <1>1, <2>1 DEF TypeOK, Send, Settle, server, client
<1>2. CASE Answer401(t, r) /\ endSession(t, {r})
  BY <1>2, EndSessionTypes DEF Answer401, server
<1>3. CASE Answer401(t, r) /\ ~endSession(t, {r})
  <2>1. req' \in [Tabs -> [Requests -> Calls]]
    <3>1. PICK c \in Calls : req' = [req EXCEPT ![t][r] = c]
      BY <1>3, SomeCalls DEF Answer401
    <3>2. QED
      BY <3>1, OneCall DEF TypeOK
  <2>2. refreshPromise' \in [Tabs -> Refreshes]
    <3>1. refreshPromise' = refreshPromise
          \/ refreshPromise' = [refreshPromise EXCEPT ![t] =
                                  [from |-> storage, to |-> NoSession, phase |-> "sent"]]
      BY <1>3 DEF Answer401, startRefresh
    <3>2. [from |-> storage, to |-> NoSession, phase |-> "sent"] \in Refreshes
      BY SomeRefreshes DEF TypeOK
    <3>3. QED
      BY <3>1, <3>2, OneRefresh DEF TypeOK
  <2>3. QED
    BY <1>3, <2>1, <2>2 DEF TypeOK, Answer401, server, client
<1>4. QED
  BY <1>1, <1>2, <1>3

LEMMA RefreshTypes ==
  ASSUME TypeOK, NEW t \in Tabs,
         ServeRefresh(t) \/ RefreshGranted(t) \/ RefreshRefused(t) \/ RefreshFailed(t)
  PROVE  TypeOK'
<1>1. CASE ServeRefresh(t)
  <2>1. refreshPromise' \in [Tabs -> Refreshes]
    <3>1. PICK m \in Sessions \union {NoSession}, n \in Sessions \union {NoSession},
               ph \in {"granted", "refused"} :
             refreshPromise' = [refreshPromise EXCEPT ![t] =
                                  [from |-> m, to |-> n, phase |-> ph]]
      <4>1. refreshPromise[t].from \in Sessions \union {NoSession}
        BY SomeRefreshes DEF TypeOK
      <4>2. QED
        BY <1>1, <4>1 DEF ServeRefresh
    <3>2. [from |-> m, to |-> n, phase |-> ph] \in Refreshes
      BY SomeRefreshes
    <3>3. QED
      BY <3>1, <3>2, OneRefresh DEF TypeOK
  <2>2. sess' \in [Sessions -> {"unused", "live", "grace", "dead"}]
    BY <1>1 DEF TypeOK, ServeRefresh
  <2>3. QED
    BY <1>1, <2>1, <2>2 DEF TypeOK, ServeRefresh, client
<1>2. CASE RefreshGranted(t)
  <2>1. /\ refreshPromise' \in [Tabs -> Refreshes]
        /\ refreshPromise[t].to \in Sessions \union {NoSession}
    BY <1>2, SomeRefreshes DEF TypeOK, RefreshGranted
  <2>2. req' \in [Tabs -> [Requests -> Calls]]
    BY <1>2, SomeCalls DEF TypeOK, RefreshGranted
  <2>3. QED
    BY <1>2, <2>1, <2>2 DEF TypeOK, RefreshGranted, setAuth, Others, server
<1>3. CASE RefreshRefused(t)
  BY <1>3, EndSessionTypes DEF RefreshRefused, Waiting, server
<1>4. CASE RefreshFailed(t)
  <2>1. refreshPromise' \in [Tabs -> Refreshes]
    BY <1>4, SomeRefreshes DEF TypeOK, RefreshFailed
  <2>2. req' \in [Tabs -> [Requests -> Calls]]
    BY <1>4, SomeCalls DEF TypeOK, RefreshFailed
  <2>3. QED
    BY <1>4, <2>1, <2>2 DEF TypeOK, RefreshFailed, server, client
<1>5. QED
  BY <1>1, <1>2, <1>3, <1>4

LEMMA SignInTypes ==
  ASSUME TypeOK, NEW t \in Tabs, NEW c \in Channels,
         LoginSend(t, c) \/ LoginGranted(t, c) \/ LoginFailed(t, c)
  PROVE  TypeOK'
<1>1. CASE LoginSend(t, c) \/ LoginFailed(t, c)
  BY <1>1 DEF TypeOK, LoginSend, LoginFailed, server, client
<1>2. CASE LoginGranted(t, c)
  BY <1>2 DEF TypeOK, LoginGranted, setAuth, Others, Pages
<1>3. QED
  BY <1>1, <1>2

LEMMA SignOutTypes ==
  ASSUME TypeOK, NEW t \in Tabs,
         LogoutSend(t) \/ LogoutDone(t) \/ ChangePassword(t) \/ DeleteAccount(t)
  PROVE  TypeOK'
<1>1. CASE LogoutSend(t)
  BY <1>1 DEF TypeOK, LogoutSend, server, client
<1>2. CASE LogoutDone(t)
  BY <1>2 DEF TypeOK, LogoutDone, clear, Others, Pages, NoSession
<1>3. CASE ChangePassword(t) \/ DeleteAccount(t)
  BY <1>3 DEF TypeOK, ChangePassword, DeleteAccount, RevokeAll, client
<1>4. QED
  BY <1>1, <1>2, <1>3

LEMMA PageTypes ==
  ASSUME TypeOK, NEW t \in Tabs,
         Mount(t) \/ OnStorage(t) \/ AuthGuard(t) \/ Forward(t) \/ Register(t)
  PROVE  TypeOK'
<1>1. CASE Mount(t) \/ OnStorage(t)
  BY <1>1 DEF TypeOK, Mount, OnStorage, hydrate, server
<1>2. CASE AuthGuard(t) \/ Forward(t)
  BY <1>2 DEF TypeOK, AuthGuard, Forward, Pages, server, client
<1>3. CASE Register(t)
  BY <1>3 DEF TypeOK, Register, client
<1>4. QED
  BY <1>1, <1>2, <1>3

LEMMA TypesNext == TypeOK /\ [Next]_vars => TypeOK'
<1> SUFFICES ASSUME TypeOK, [Next]_vars PROVE TypeOK'
  OBVIOUS
<1>1. ASSUME NEW t \in Tabs, TabStep(t) PROVE TypeOK'
  BY <1>1, CallTypes, RefreshTypes, SignInTypes, SignOutTypes, PageTypes DEF TabStep
<1>2. ASSUME NEW n \in Sessions, GraceEnds(n) PROVE TypeOK'
  BY <1>2 DEF TypeOK, GraceEnds, client
<1>3. CASE VerifyEmail \/ ResetPassword
  BY <1>3 DEF TypeOK, VerifyEmail, ResetPassword, RevokeAll, client
<1>4. CASE UNCHANGED vars
  BY <1>4 DEF TypeOK, vars
<1>5. QED
  BY <1>1, <1>2, <1>3, <1>4 DEF Next

\* The state of the session (api.ts, authStore.ts, the pages) stays within its types.
THEOREM TypeCorrect == Spec => []TypeOK
  BY TypesInit, TypesNext, PTL DEF Spec

-----------------------------------------------------------------------------
(* Calls that wait.                                                        *)

LEMMA WaitersInit == Init => WaitersHaveRefresh
  BY DEF Init, WaitersHaveRefresh, Idle

\* A tab whose calls and refresh stay as they are keeps the property.
LEMMA WaitersFrame ==
  ASSUME WaitersHaveRefresh, UNCHANGED <<req, refreshPromise>>
  PROVE  WaitersHaveRefresh'
  BY DEF WaitersHaveRefresh

\* It is enough to look at the tab that moves.
LEMMA WaitersLocal ==
  ASSUME TypeOK, WaitersHaveRefresh, NEW t \in Tabs,
         \A u \in Tabs : u # t => req'[u] = req[u] /\ refreshPromise'[u] = refreshPromise[u],
         \A r \in Requests : req'[t][r].state = "waiting" => refreshPromise'[t] # NoRefresh
  PROVE  WaitersHaveRefresh'
<1> SUFFICES ASSUME NEW u \in Tabs, NEW r \in Requests, req'[u][r].state = "waiting"
             PROVE  refreshPromise'[u] # NoRefresh
  BY DEF WaitersHaveRefresh
<1>1. CASE u = t
  BY <1>1
<1>2. CASE u # t
  BY <1>2 DEF WaitersHaveRefresh
<1>3. QED
  BY <1>1, <1>2

LEMMA EndSessionWaiters ==
  ASSUME TypeOK, WaitersHaveRefresh, NEW t \in Tabs, NEW failed \in SUBSET Requests,
         endSession(t, failed), \A r \in Requests \ failed : req[t][r].state # "waiting"
  PROVE  WaitersHaveRefresh'
<1>1. \A u \in Tabs : u # t => req'[u] = req[u] /\ refreshPromise'[u] = refreshPromise[u]
  BY DEF endSession, TypeOK
<1>2. \A r \in Requests : req'[t][r].state # "waiting"
  BY DEF endSession, TypeOK, Idle
<1>3. QED
  BY <1>1, <1>2, WaitersLocal

LEMMA CallWaiters ==
  ASSUME TypeOK, WaitersHaveRefresh, NEW t \in Tabs, NEW r \in Requests,
         Send(t, r) \/ Settle(t, r) \/ Answer401(t, r)
  PROVE  WaitersHaveRefresh'
<1>1. CASE Send(t, r) \/ Settle(t, r)
  <2>1. PICK c \in Calls : req' = [req EXCEPT ![t][r] = c] /\ c.state # "waiting"
    BY <1>1, SomeCalls DEF Send, Settle, Idle
  <2>2. refreshPromise' = refreshPromise
    BY <1>1 DEF Send, Settle
  <2>3. \A s \in Requests : req'[t][s].state = "waiting" => req[t][s].state = "waiting"
    BY <2>1 DEF TypeOK
  <2>4. \A u \in Tabs : u # t => req'[u] = req[u]
    BY <2>1 DEF TypeOK
  <2>5. QED
    BY <2>2, <2>3, <2>4, WaitersLocal DEF WaitersHaveRefresh
<1>2. CASE Answer401(t, r) /\ refreshPromise[t] = NoRefresh /\ storage = NoSession
  <2>1. endSession(t, {r})
    BY <1>2 DEF Answer401
  <2>2. QED
    BY <1>2, <2>1, EndSessionWaiters DEF WaitersHaveRefresh
<1>3. CASE Answer401(t, r) /\ ~(refreshPromise[t] = NoRefresh /\ storage = NoSession)
  <2>1. refreshPromise'[t] # NoRefresh
    BY <1>3 DEF Answer401, startRefresh, TypeOK, NoRefresh
  <2>2. \A u \in Tabs : u # t => req'[u] = req[u] /\ refreshPromise'[u] = refreshPromise[u]
    <3>1. PICK c : req' = [req EXCEPT ![t][r] = c]
      BY <1>3 DEF Answer401
    <3>2. PICK p : refreshPromise' = refreshPromise
                   \/ refreshPromise' = [refreshPromise EXCEPT ![t] = p]
      BY <1>3 DEF Answer401, startRefresh
    <3>3. QED
      BY <3>1, <3>2 DEF TypeOK
  <2>3. QED
    BY <2>1, <2>2, WaitersLocal
<1>4. QED
  BY <1>1, <1>2, <1>3

LEMMA RefreshWaiters ==
  ASSUME TypeOK, WaitersHaveRefresh, NEW t \in Tabs,
         ServeRefresh(t) \/ RefreshGranted(t) \/ RefreshRefused(t) \/ RefreshFailed(t)
  PROVE  WaitersHaveRefresh'
<1>1. CASE ServeRefresh(t)
  <2>1. PICK p : refreshPromise' = [refreshPromise EXCEPT ![t] = p] /\ p # NoRefresh
    BY <1>1 DEF ServeRefresh, NoRefresh
  <2>2. req' = req
    BY <1>1 DEF ServeRefresh
  <2>3. QED
    BY <2>1, <2>2, WaitersLocal DEF TypeOK
<1>2. CASE RefreshGranted(t)
  BY <1>2, WaitersLocal DEF RefreshGranted, TypeOK
<1>3. CASE RefreshRefused(t)
  BY <1>3, EndSessionWaiters DEF RefreshRefused, Waiting
<1>4. CASE RefreshFailed(t)
  BY <1>4, WaitersLocal DEF RefreshFailed, TypeOK, Idle
<1>5. QED
  BY <1>1, <1>2, <1>3, <1>4

LEMMA WaitersNext == TypeOK /\ WaitersHaveRefresh /\ [Next]_vars => WaitersHaveRefresh'
<1> SUFFICES ASSUME TypeOK, WaitersHaveRefresh, [Next]_vars PROVE WaitersHaveRefresh'
  OBVIOUS
<1>1. ASSUME NEW t \in Tabs, TabStep(t) PROVE WaitersHaveRefresh'
  <2>1. CASE Mount(t) \/ OnStorage(t) \/ AuthGuard(t) \/ Forward(t) \/ Register(t)
    BY <2>1, WaitersFrame DEF Mount, OnStorage, AuthGuard, Forward, Register
  <2>2. CASE \E c \in Channels : LoginSend(t, c) \/ LoginGranted(t, c) \/ LoginFailed(t, c)
    BY <2>2, WaitersFrame DEF LoginSend, LoginGranted, LoginFailed
  <2>3. CASE LogoutSend(t) \/ LogoutDone(t) \/ ChangePassword(t) \/ DeleteAccount(t)
    BY <2>3, WaitersFrame DEF LogoutSend, LogoutDone, ChangePassword, DeleteAccount
  <2>4. QED
    BY <1>1, <2>1, <2>2, <2>3, CallWaiters, RefreshWaiters DEF TabStep
<1>2. ASSUME NEW n \in Sessions, GraceEnds(n) PROVE WaitersHaveRefresh'
  BY <1>2, WaitersFrame DEF GraceEnds
<1>3. CASE VerifyEmail \/ ResetPassword
  BY <1>3, WaitersFrame DEF VerifyEmail, ResetPassword
<1>4. CASE UNCHANGED vars
  BY <1>4, WaitersFrame DEF vars
<1>5. QED
  BY <1>1, <1>2, <1>3, <1>4 DEF Next

\* No call waits for a refresh that is gone: the interceptor of api.ts sends each
\* of them again or fails it, whatever else happens to the tab meanwhile.
THEOREM NobodyWaitsForNothing == Spec => []WaitersHaveRefresh
  BY WaitersInit, WaitersNext, TypeCorrect, PTL DEF Spec

-----------------------------------------------------------------------------
(* The copies of localStorage.                                             *)

LEMMA CopiesFrame ==
  ASSUME StoreFollowsStorage, UNCHANGED <<storage, store, hydrated, events>>
  PROVE  StoreFollowsStorage'
  BY DEF StoreFollowsStorage

LEMMA CopiesCleared ==
  ASSUME NEW t \in Tabs, clear(t)
  PROVE  StoreFollowsStorage'
  BY DEF clear, StoreFollowsStorage

LEMMA CopiesSet ==
  ASSUME TypeOK, NEW t \in Tabs, NEW n \in Sessions \union {NoSession}, setAuth(t, n),
         hydrated' = hydrated
  PROVE  StoreFollowsStorage'
  BY DEF setAuth, Others, StoreFollowsStorage, TypeOK

LEMMA CopiesNext == TypeOK /\ StoreFollowsStorage /\ [Next]_vars => StoreFollowsStorage'
<1> SUFFICES ASSUME TypeOK, StoreFollowsStorage, [Next]_vars PROVE StoreFollowsStorage'
  OBVIOUS
<1>1. ASSUME NEW t \in Tabs, TabStep(t) PROVE StoreFollowsStorage'
  <2>1. CASE Mount(t) \/ OnStorage(t)
    BY <2>1 DEF Mount, OnStorage, hydrate, StoreFollowsStorage, TypeOK
  <2>2. CASE AuthGuard(t) \/ Forward(t) \/ Register(t)
    BY <2>2, CopiesFrame DEF AuthGuard, Forward, Register, client
  <2>3. CASE \E c \in Channels : LoginSend(t, c) \/ LoginFailed(t, c)
    BY <2>3, CopiesFrame DEF LoginSend, LoginFailed, client
  <2>4. ASSUME NEW c \in Channels, LoginGranted(t, c) PROVE StoreFollowsStorage'
    BY <2>4, CopiesSet DEF LoginGranted
  <2>5. CASE LogoutDone(t)
    BY <2>5, CopiesCleared DEF LogoutDone
  <2>6. CASE LogoutSend(t) \/ ChangePassword(t) \/ DeleteAccount(t)
    BY <2>6, CopiesFrame DEF LogoutSend, ChangePassword, DeleteAccount, client
  <2>7. CASE ServeRefresh(t) \/ RefreshFailed(t)
    BY <2>7, CopiesFrame DEF ServeRefresh, RefreshFailed, client
  <2>8. CASE RefreshGranted(t)
    <3>1. refreshPromise[t].to \in Sessions \union {NoSession}
      BY SomeRefreshes DEF TypeOK
    <3>2. QED
      BY <2>8, <3>1, CopiesSet DEF RefreshGranted
  <2>9. CASE RefreshRefused(t)
    BY <2>9, CopiesCleared DEF RefreshRefused, endSession
  <2>10. ASSUME NEW r \in Requests, Answer401(t, r) PROVE StoreFollowsStorage'
    BY <2>10, CopiesFrame, CopiesCleared DEF Answer401, endSession, client
  <2>11. CASE \E r \in Requests : Send(t, r) \/ Settle(t, r)
    BY <2>11, CopiesFrame DEF Send, Settle, client
  <2>12. QED
    BY <1>1, <2>1, <2>2, <2>3, <2>4, <2>5, <2>6, <2>7, <2>8, <2>9, <2>10, <2>11 DEF TabStep
<1>2. ASSUME NEW n \in Sessions, GraceEnds(n) PROVE StoreFollowsStorage'
  BY <1>2, CopiesFrame DEF GraceEnds, client
<1>3. CASE VerifyEmail \/ ResetPassword
  BY <1>3, CopiesFrame DEF VerifyEmail, ResetPassword, client
<1>4. CASE UNCHANGED vars
  BY <1>4, CopiesFrame DEF vars
<1>5. QED
  BY <1>1, <1>2, <1>3, <1>4 DEF Next

\* However many tabs sign in and refresh, one that has handled its storage events
\* (AuthHydrator) shows the session that is stored.
THEOREM TabsFollowStorage == Spec => []StoreFollowsStorage
<1>1. Init => StoreFollowsStorage
  BY DEF Init, StoreFollowsStorage
<1>2. QED
  BY <1>1, CopiesNext, TypeCorrect, PTL DEF Spec

-----------------------------------------------------------------------------
(* The inductive invariant behind ExpiryHasCause: what holds as long as    *)
(* nothing that may end a session has happened.                            *)

\* Nobody has been sent away, and the account is there.
Undisturbed ==
    /\ \A t \in Tabs : page[t] # "expired"
    /\ account # "deleted"

\* A browser without a session has nothing under way that could need one.
SignedOut ==
    storage = NoSession =>
        \A t \in Tabs :
            /\ page[t] # "app" /\ store[t] = NoSession
            /\ refreshPromise[t].phase = "none"
            /\ \A r \in Requests : req[t][r].state = "idle"

Granted(t) == refreshPromise[t].phase = "granted"

\* The stored session is live, or has been rotated away by a refresh whose answer
\* is on its way to one of the tabs.
StoredIsGood ==
    storage # NoSession =>
        \/ sess[storage] = "live"
        \/ /\ sess[storage] = "grace"
           /\ \E t \in Tabs : Granted(t) /\ refreshPromise[t].from = storage

\* No refresh is refused: each was sent with a token that is live or in its grace
\* window.
RefreshesAreGood ==
    \A t \in Tabs : refreshPromise[t].phase # "none" =>
        /\ refreshPromise[t].phase # "refused"
        /\ refreshPromise[t].from \in Sessions
        /\ sess[refreshPromise[t].from] \in {"live", "grace"}

\* A session on its way to a tab is live, and nobody else has it yet.
GrantsAreFresh ==
    \A t \in Tabs : Granted(t) =>
        /\ refreshPromise[t].to \in Sessions
        /\ sess[refreshPromise[t].to] = "live"
        /\ refreshPromise[t].to # storage
        /\ \A u \in Tabs :
             /\ refreshPromise[u].phase # "none" =>
                  refreshPromise[u].from # refreshPromise[t].to
             /\ Granted(u) /\ u # t => refreshPromise[u].to # refreshPromise[t].to

Steady ==
    /\ Undisturbed
    /\ SignedOut
    /\ StoredIsGood
    /\ RefreshesAreGood
    /\ GrantsAreFresh

SteadyInv == ~cause => Steady

LEMMA NoSessionIsNone == NoSession \notin Sessions
  BY SessionAssumption DEF NoSession, Sessions

LEMMA SteadyInit == Init => SteadyInv
<1> SUFFICES ASSUME Init PROVE Steady
  BY DEF SteadyInv
<1>1. 1 \in Sessions /\ NoSession # 1
  BY SessionAssumption DEF Sessions, NoSession
<1>2. Undisturbed
  BY DEF Init, Undisturbed
<1>3. SignedOut
  BY <1>1 DEF Init, SignedOut, NoRefresh, Idle
<1>4. StoredIsGood
  BY <1>1 DEF Init, StoredIsGood
<1>5. RefreshesAreGood /\ GrantsAreFresh
  BY DEF Init, RefreshesAreGood, GrantsAreFresh, Granted, NoRefresh
<1>6. QED
  BY <1>2, <1>3, <1>4, <1>5 DEF Steady

\* The server's and the refreshes' side of a state that stay as they are.
LEMMA SteadyServer ==
  ASSUME Steady, UNCHANGED <<sess, storage, refreshPromise>>
  PROVE  StoredIsGood' /\ RefreshesAreGood' /\ GrantsAreFresh'
  BY DEF Steady, StoredIsGood, RefreshesAreGood, GrantsAreFresh, Granted

LEMMA SteadyFrame ==
  ASSUME Steady, UNCHANGED <<sess, account, storage, store, refreshPromise, req, page>>
  PROVE  Steady'
<1>1. Undisturbed' /\ SignedOut'
  BY DEF Steady, Undisturbed, SignedOut
<1>2. QED
  BY <1>1, SteadyServer DEF Steady

LEMMA PageSteady ==
  ASSUME TypeOK, Steady, NEW t \in Tabs,
         Mount(t) \/ OnStorage(t) \/ AuthGuard(t) \/ Forward(t) \/ Register(t)
  PROVE  Steady'
<1>1. CASE Mount(t) \/ OnStorage(t)
  <2>1. Undisturbed' /\ SignedOut'
    BY <1>1 DEF Steady, Undisturbed, SignedOut, Mount, OnStorage, hydrate, server
  <2>2. QED
    BY <1>1, <2>1, SteadyServer DEF Steady, Mount, OnStorage, server
<1>2. CASE AuthGuard(t) \/ Forward(t) \/ Register(t)
  <2>1. Undisturbed'
    BY <1>2 DEF Steady, Undisturbed, TypeOK, AuthGuard, Forward, Register, server
  <2>2. SignedOut'
    BY <1>2 DEF Steady, SignedOut, TypeOK, AuthGuard, Forward, Register, client
  <2>3. QED
    BY <1>2, <2>1, <2>2, SteadyServer DEF Steady, AuthGuard, Forward, Register, server, client
<1>3. QED
  BY <1>1, <1>2

\* Only a tab with a session has a call under way.
LEMMA CallNeedsSession ==
  ASSUME Steady, NEW t \in Tabs, NEW r \in Requests,
         page[t] = "app" \/ req[t][r].state # "idle"
  PROVE  storage # NoSession
  BY DEF Steady, SignedOut

\* With a session stored, only the pages and the account matter on the browser's side.
LEMMA SignedInSteady ==
  ASSUME Steady, storage' # NoSession, UNCHANGED <<page, account>>
  PROVE  Undisturbed' /\ SignedOut'
  BY DEF Steady, Undisturbed, SignedOut

\* A refresh is sent with the stored token, which no grant brings a second time.
LEMMA StartSteady ==
  ASSUME TypeOK, Steady, NEW t \in Tabs, startRefresh(t), storage # NoSession,
         UNCHANGED <<sess, storage>>
  PROVE  StoredIsGood' /\ RefreshesAreGood' /\ GrantsAreFresh'
<1>1. CASE refreshPromise' = refreshPromise
  BY <1>1, SteadyServer
<1>2. CASE refreshPromise' # refreshPromise
  <2> DEFINE p == [from |-> storage, to |-> NoSession, phase |-> "sent"]
  <2>1. refreshPromise[t].phase = "none" /\ refreshPromise' = [refreshPromise EXCEPT ![t] = p]
    BY <1>2 DEF startRefresh, NoRefresh
  <2>2. /\ refreshPromise'[t].from = storage /\ refreshPromise'[t].phase = "sent"
        /\ \A u \in Tabs : u # t => refreshPromise'[u] = refreshPromise[u]
    BY <2>1 DEF TypeOK
  <2>3. storage \in Sessions /\ sess[storage] \in {"live", "grace"}
    BY DEF TypeOK, Steady, StoredIsGood
  <2>4. StoredIsGood'
    BY <2>1, <2>2 DEF Steady, StoredIsGood, Granted
  <2>5. RefreshesAreGood'
    BY <2>2, <2>3 DEF Steady, RefreshesAreGood
  <2>6. GrantsAreFresh'
    BY <2>2 DEF Steady, GrantsAreFresh, Granted
  <2>7. QED
    BY <2>4, <2>5, <2>6
<1>3. QED
  BY <1>1, <1>2

LEMMA CallSteady ==
  ASSUME TypeOK, Steady, NEW t \in Tabs, NEW r \in Requests,
         Send(t, r) \/ Settle(t, r) \/ Answer401(t, r)
  PROVE  Steady'
<1>1. storage # NoSession
  BY CallNeedsSession DEF Send, Settle, Answer401
<1>2. UNCHANGED <<sess, account, storage, page>>
  BY <1>1 DEF Send, Settle, Answer401, server, client
<1>3. Undisturbed' /\ SignedOut'
  BY <1>1, <1>2, SignedInSteady
<1>4. StoredIsGood' /\ RefreshesAreGood' /\ GrantsAreFresh'
  <2>1. CASE Send(t, r) \/ Settle(t, r)
    BY <1>2, <2>1, SteadyServer DEF Send, Settle
  <2>2. CASE Answer401(t, r)
    BY <1>1, <1>2, <2>2, StartSteady DEF Answer401
  <2>3. QED
    BY <2>1, <2>2
<1>5. QED
  BY <1>3, <1>4 DEF Steady

\* The server rotates the token of a refresh: the old session passes into its grace
\* window while the new one is on its way.
LEMMA RotateSteady ==
  ASSUME TypeOK, Steady, NEW t \in Tabs, NEW n \in Sessions,
         refreshPromise[t].phase = "sent", Issues(n),
         sess' = [sess EXCEPT ![refreshPromise[t].from] = "grace", ![n] = "live"],
         refreshPromise' = [refreshPromise EXCEPT ![t] =
             [from |-> refreshPromise[t].from, to |-> n, phase |-> "granted"]],
         UNCHANGED <<storage, store, page, account, req>>
  PROVE  Steady'
<1> DEFINE from == refreshPromise[t].from
<1>1. from \in Sessions /\ sess[from] \in {"live", "grace"} /\ sess[n] = "unused"
  BY DEF Steady, RefreshesAreGood, Issues
<1>2. /\ sess'[from] = "grace" /\ sess'[n] = "live" /\ from # n
      /\ \A m \in Sessions : m # from /\ m # n => sess'[m] = sess[m]
  BY <1>1 DEF TypeOK
<1>3. /\ refreshPromise'[t].from = from /\ refreshPromise'[t].to = n
      /\ refreshPromise'[t].phase = "granted"
      /\ \A u \in Tabs : u # t => refreshPromise'[u] = refreshPromise[u]
  BY DEF TypeOK
<1>4. storage # n /\ \A u \in Tabs : refreshPromise[u].phase # "none" => refreshPromise[u].from # n
  BY <1>1, NoSessionIsNone DEF Steady, StoredIsGood, RefreshesAreGood
<1>5. Undisturbed'
  BY DEF Steady, Undisturbed
<1>6. SignedOut'
  BY <1>3 DEF Steady, SignedOut
<1>7. StoredIsGood'
  <2>1. CASE storage = NoSession
    BY <2>1 DEF StoredIsGood
  <2>2. CASE storage = from
    BY <1>2, <1>3, <2>2 DEF StoredIsGood, Granted
  <2>3. CASE storage # from /\ storage # NoSession
    <3>1. storage \in Sessions /\ sess'[storage] = sess[storage]
      BY <1>2, <1>4, <2>3 DEF TypeOK
    <3>2. \A u \in Tabs : Granted(u) =>
            Granted(u)' /\ refreshPromise'[u].from = refreshPromise[u].from
      BY <1>3 DEF Granted
    <3>3. QED
      BY <2>3, <3>1, <3>2 DEF Steady, StoredIsGood
  <2>4. QED
    BY <2>1, <2>2, <2>3
<1>8. RefreshesAreGood'
  <2>1. \A m \in Sessions : sess[m] \in {"live", "grace"} => sess'[m] \in {"live", "grace"}
    BY <1>2
  <2>2. QED
    BY <1>1, <1>3, <2>1 DEF Steady, RefreshesAreGood
<1>9. GrantsAreFresh'
  <2> SUFFICES ASSUME NEW v \in Tabs, Granted(v)'
               PROVE  /\ refreshPromise'[v].to \in Sessions
                      /\ sess'[refreshPromise'[v].to] = "live"
                      /\ refreshPromise'[v].to # storage
                      /\ \A u \in Tabs :
                           /\ refreshPromise'[u].phase # "none" =>
                                refreshPromise'[u].from # refreshPromise'[v].to
                           /\ Granted(u)' /\ u # v =>
                                refreshPromise'[u].to # refreshPromise'[v].to
    BY DEF GrantsAreFresh, Granted
  <2>1. CASE v = t
    <3>1. \A u \in Tabs : Granted(u) => refreshPromise[u].to # n
      BY <1>1 DEF Steady, GrantsAreFresh
    <3>2. QED
      BY <1>2, <1>3, <1>4, <2>1, <3>1 DEF Granted
  <2>2. CASE v # t
    <3>1. Granted(v) /\ refreshPromise'[v] = refreshPromise[v]
      BY <1>3, <2>2 DEF Granted
    <3>2. /\ refreshPromise[v].to \in Sessions /\ sess[refreshPromise[v].to] = "live"
          /\ refreshPromise[v].to # storage /\ refreshPromise[v].to # from
          /\ refreshPromise[v].to # n
      BY <1>1, <3>1 DEF Steady, GrantsAreFresh
    <3>3. \A u \in Tabs :
            /\ refreshPromise'[u].phase # "none" => refreshPromise'[u].from # refreshPromise[v].to
            /\ Granted(u)' /\ u # v => refreshPromise'[u].to # refreshPromise[v].to
      <4> SUFFICES ASSUME NEW u \in Tabs
                   PROVE  /\ refreshPromise'[u].phase # "none" =>
                                refreshPromise'[u].from # refreshPromise[v].to
                          /\ Granted(u)' /\ u # v =>
                                refreshPromise'[u].to # refreshPromise[v].to
        OBVIOUS
      <4>1. CASE u = t
        BY <1>3, <3>2, <4>1
      <4>2. CASE u # t
        BY <1>3, <3>1, <4>2 DEF Steady, GrantsAreFresh, Granted
      <4>3. QED
        BY <4>1, <4>2
    <3>4. QED
      BY <1>2, <3>1, <3>2, <3>3
  <2>3. QED
    BY <2>1, <2>2
<1>10. QED
  BY <1>5, <1>6, <1>7, <1>8, <1>9 DEF Steady

\* A tab stores the session its refresh brought: it is live, nobody else has it, and
\* the old one is no longer the stored one.
LEMMA GrantedSteady ==
  ASSUME TypeOK, Steady, NEW t \in Tabs, RefreshGranted(t)
  PROVE  Steady'
<1>1. /\ storage' = refreshPromise[t].to /\ Granted(t)
      /\ UNCHANGED <<sess, account, page>>
  BY DEF RefreshGranted, setAuth, Granted, server
<1>2. /\ storage' \in Sessions /\ sess[storage'] = "live"
      /\ \A u \in Tabs : Granted(u) /\ u # t => refreshPromise[u].to # storage'
  BY <1>1 DEF Steady, GrantsAreFresh
<1>3. /\ refreshPromise'[t].phase = "none"
      /\ \A u \in Tabs : u # t => refreshPromise'[u] = refreshPromise[u]
  BY DEF RefreshGranted, TypeOK, NoRefresh
<1>4. Undisturbed' /\ SignedOut'
  BY <1>1, <1>2, NoSessionIsNone, SignedInSteady
<1>5. StoredIsGood'
  BY <1>1, <1>2 DEF StoredIsGood
<1>6. RefreshesAreGood'
  BY <1>1, <1>3 DEF Steady, RefreshesAreGood
<1>7. GrantsAreFresh'
  BY <1>1, <1>2, <1>3 DEF Steady, GrantsAreFresh, Granted
<1>8. QED
  BY <1>4, <1>5, <1>6, <1>7 DEF Steady

\* A refresh that fails before it was served changes nothing for the others.
LEMMA FailedSteady ==
  ASSUME TypeOK, Steady, NEW t \in Tabs, RefreshFailed(t), ~Granted(t)
  PROVE  Steady'
<1>1. UNCHANGED <<sess, account, storage, store, page>>
  BY DEF RefreshFailed, server, client
<1>2. /\ refreshPromise'[t].phase = "none"
      /\ \A u \in Tabs : u # t => refreshPromise'[u] = refreshPromise[u]
  BY DEF RefreshFailed, TypeOK, NoRefresh
<1>3. storage # NoSession
  BY DEF RefreshFailed, Steady, SignedOut
<1>4. Undisturbed' /\ SignedOut'
  BY <1>1, <1>3, SignedInSteady
<1>5. StoredIsGood'
  BY <1>1, <1>2 DEF Steady, StoredIsGood, Granted
<1>6. RefreshesAreGood' /\ GrantsAreFresh'
  BY <1>1, <1>2 DEF Steady, RefreshesAreGood, GrantsAreFresh, Granted
<1>7. QED
  BY <1>4, <1>5, <1>6 DEF Steady

LEMMA RefreshSteady ==
  ASSUME TypeOK, Steady, NEW t \in Tabs, ~cause',
         ServeRefresh(t) \/ RefreshGranted(t) \/ RefreshRefused(t) \/ RefreshFailed(t)
  PROVE  Steady'
<1>1. CASE ServeRefresh(t)
  <2>1. refreshPromise[t].phase = "sent" /\ UNCHANGED <<storage, store, page, account, req>>
    BY <1>1 DEF ServeRefresh, client
  <2>2. account # "deleted" /\ sess[refreshPromise[t].from] # "dead"
    BY <2>1 DEF Steady, Undisturbed, RefreshesAreGood
  <2>3. PICK n \in Sessions :
          /\ Issues(n)
          /\ sess' = [sess EXCEPT ![refreshPromise[t].from] = "grace", ![n] = "live"]
          /\ refreshPromise' = [refreshPromise EXCEPT ![t] =
                [from |-> refreshPromise[t].from, to |-> n, phase |-> "granted"]]
    BY <1>1, <2>2 DEF ServeRefresh
  <2>4. QED
    BY <2>1, <2>3, RotateSteady
<1>2. CASE RefreshGranted(t)
  BY <1>2, GrantedSteady
<1>3. CASE RefreshRefused(t)
  BY <1>3 DEF RefreshRefused, Steady, RefreshesAreGood
<1>4. CASE RefreshFailed(t)
  <2>1. ~Granted(t)
    BY <1>4 DEF RefreshFailed, Granted
  <2>2. QED
    BY <1>4, <2>1, FailedSteady
<1>5. QED
  BY <1>1, <1>2, <1>3, <1>4

\* A new session is stored: nobody else has it.
LEMMA LoginSteady ==
  ASSUME TypeOK, Steady, NEW t \in Tabs, NEW c \in Channels, LoginGranted(t, c)
  PROVE  Steady'
<1>1. PICK n \in Sessions :
        sess[n] = "unused" /\ sess' = [sess EXCEPT ![n] = "live"] /\ storage' = n
  BY DEF LoginGranted, setAuth, Issues
<1>2. sess'[n] = "live" /\ \A m \in Sessions : m # n => sess'[m] = sess[m]
  BY <1>1 DEF TypeOK
<1>3. refreshPromise' = refreshPromise
  BY DEF LoginGranted
<1>4. Undisturbed'
  BY DEF LoginGranted, Steady, Undisturbed, TypeOK
<1>5. SignedOut' /\ StoredIsGood'
  BY <1>1, <1>2, NoSessionIsNone DEF SignedOut, StoredIsGood
<1>6. \A m \in Sessions : sess[m] \in {"live", "grace"} => m # n /\ sess'[m] = sess[m]
  BY <1>1, <1>2
<1>7. RefreshesAreGood' /\ GrantsAreFresh'
  BY <1>1, <1>3, <1>6 DEF Steady, RefreshesAreGood, GrantsAreFresh, Granted
<1>8. QED
  BY <1>4, <1>5, <1>7 DEF Steady

\* The grace window of a session ends when no refresh carries it any more; by then it
\* is not the stored one.
LEMMA GraceSteady ==
  ASSUME TypeOK, Steady, NEW n \in Sessions, GraceEnds(n)
  PROVE  Steady'
<1>1. /\ sess[n] = "grace" /\ \A t \in Tabs : refreshPromise[t].from # n
      /\ sess' = [sess EXCEPT ![n] = "dead"]
      /\ UNCHANGED <<account, storage, store, page, refreshPromise, req>>
  BY DEF GraceEnds, client
<1>2. \A m \in Sessions : m # n => sess'[m] = sess[m]
  BY <1>1
<1>3. Undisturbed' /\ SignedOut'
  BY <1>1 DEF Steady, Undisturbed, SignedOut
<1>4. StoredIsGood'
  BY <1>1, <1>2 DEF Steady, StoredIsGood, Granted, TypeOK
<1>5. RefreshesAreGood' /\ GrantsAreFresh'
  BY <1>1, <1>2 DEF Steady, RefreshesAreGood, GrantsAreFresh, Granted
<1>6. QED
  BY <1>3, <1>4, <1>5 DEF Steady

LEMMA SteadyNext == TypeOK /\ SteadyInv /\ [Next]_vars => SteadyInv'
<1> SUFFICES ASSUME TypeOK, cause \/ Steady, [Next]_vars, ~cause' PROVE Steady'
  BY DEF SteadyInv
<1>1. ASSUME NEW t \in Tabs, TabStep(t) PROVE Steady'
  <2>1. CASE Mount(t) \/ OnStorage(t) \/ AuthGuard(t) \/ Forward(t) \/ Register(t)
    BY <2>1, PageSteady DEF Mount, OnStorage, AuthGuard, Forward, Register
  <2>2. ASSUME NEW r \in Requests, Send(t, r) \/ Settle(t, r) \/ Answer401(t, r)
        PROVE  Steady'
    BY <2>2, CallSteady DEF Send, Settle, Answer401
  <2>3. CASE ServeRefresh(t) \/ RefreshGranted(t) \/ RefreshRefused(t) \/ RefreshFailed(t)
    BY <2>3, RefreshSteady DEF ServeRefresh, RefreshGranted, RefreshRefused, RefreshFailed
  <2>4. ASSUME NEW c \in Channels, LoginSend(t, c) \/ LoginFailed(t, c) PROVE Steady'
    BY <2>4, SteadyFrame DEF LoginSend, LoginFailed, server, client
  <2>5. ASSUME NEW c \in Channels, LoginGranted(t, c) PROVE Steady'
    BY <2>5, LoginSteady DEF LoginGranted
  <2>6. CASE LogoutSend(t)
    BY <2>6, SteadyFrame DEF LogoutSend, server, client
  <2>7. CASE LogoutDone(t) \/ ChangePassword(t) \/ DeleteAccount(t)
    BY <2>7 DEF LogoutDone, ChangePassword, DeleteAccount
  <2>8. QED
    BY <1>1, <2>1, <2>2, <2>3, <2>4, <2>5, <2>6, <2>7 DEF TabStep
<1>2. ASSUME NEW n \in Sessions, GraceEnds(n) PROVE Steady'
  BY <1>2, GraceSteady DEF GraceEnds
<1>3. CASE VerifyEmail
  <2>1. Undisturbed' /\ SignedOut'
    BY <1>3 DEF VerifyEmail, Steady, Undisturbed, SignedOut, client
  <2>2. QED
    BY <1>3, <2>1, SteadyServer DEF VerifyEmail, Steady, client
<1>4. CASE ResetPassword
  BY <1>4 DEF ResetPassword
<1>5. CASE UNCHANGED vars
  BY <1>5, SteadyFrame DEF vars
<1>6. QED
  BY <1>1, <1>2, <1>3, <1>4, <1>5 DEF Next

\* Tabs that share one rotating refresh token never send each other to the expiry page
\* (_ROTATION_GRACE_SECONDS, refreshAccessToken): unless a session was ended on purpose
\* or the answer to a served refresh was lost, nobody is sent there.
THEOREM NobodyIsExpelled == Spec => []ExpiryHasCause
<1>1. SteadyInv => ExpiryHasCause
  BY DEF SteadyInv, Steady, Undisturbed, ExpiryHasCause
<1>2. QED
  BY <1>1, SteadyInit, SteadyNext, TypeCorrect, PTL DEF Spec
=============================================================================
