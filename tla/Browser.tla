------------------------------- MODULE Browser -------------------------------
(***************************************************************************)
(* The browser client of the sessions (frontend/src/lib/api.ts and         *)
(* auth-context.tsx), composed with the server of module Sessions: tabs    *)
(* that share the token pair in localStorage, each with API calls that may *)
(* get a 401 and then share the tab's one refresh.                         *)
(*                                                                         *)
(* A slot of Request is a fetch and its server side; the server side goes  *)
(* on when nobody waits for it any more.  An access token may expire at    *)
(* any time, so any call may get a 401; a call that is not waiting for a   *)
(* refresh, be it a first try or the retry, has no state of its own.       *)
(***************************************************************************)
EXTENDS Sessions

CONSTANTS Tab,
          Call,      \* API calls of a tab that can be in flight together
          Hydrate,   \* the call of AuthProvider when the page loads
          NoTab

ASSUME BrowserAssumption == Hydrate \in Call /\ NoTab \notin Tab

VARIABLES store,     \* localStorage: the row whose token pair it holds, or 0
          fetch,     \* fetch[r]: who waits for request r, and for what
          blocked,   \* blocked[t]: calls that await the tab's refreshPromise
          excused,   \* history: families with a lost answer or a sign-out
          out        \* history: "no"; "yes" after logout, or "raced" by a refresh

client == <<store, fetch, blocked, excused, out>>

allVars == <<vars, client>>

(* row: the refresh token that the server has yet to look up, or 0.        *)
Nobody == [tab |-> NoTab, kind |-> "none", row |-> 0]

Free(r) == fetch[r] = Nobody /\ req[r].pc = "idle"

Fetches(r, t, kind) == fetch[r].tab = t /\ fetch[r].kind = kind

(* refreshPromise of the tab is not null.                                  *)
Refreshing(t) == \E r \in Request : Fetches(r, t, "refresh")

Send(r, t, kind, row) == fetch' = [fetch EXCEPT ![r] = [tab |-> t, kind |-> kind, row |-> row]]

Settled(r) == fetch' = [fetch EXCEPT ![r] = Nobody]

(* The server goes on without a client.                                    *)
Orphaned(f) == [f EXCEPT !.tab = NoTab, !.kind = "none"]

Failed(r) == fetch[r].row = 0 /\ req[r].pc = "idle"

(* The family whose token a refresh carries or its server side has taken.  *)
Carried(r) ==
    IF fetch[r].row # 0 THEN {rows[fetch[r].row].family}
    ELSE IF req[r].row # 0 THEN {rows[req[r].row].family} ELSE {}

(* The calls that await the refresh go on, with a retry or an error.       *)
Release(t) == blocked' = [blocked EXCEPT ![t] = {}]

-----------------------------------------------------------------------------
(* rawRequest.  While the page loads, any error clears the tokens.         *)

LoadFails(t) ==
    /\ Hydrate \notin blocked[t]
    /\ store # 0
    /\ store' = 0
    /\ UNCHANGED <<vars, fetch, blocked, excused, out>>

(* Mutation: every 401 starts a refresh of its own.                        *)
StartRefreshUnshared(t, c, r) ==
    /\ c \notin blocked[t]
    /\ store # 0 /\ Free(r)
    /\ blocked' = [blocked EXCEPT ![t] = @ \cup {c}]
    /\ Send(r, t, "refresh", store)
    /\ UNCHANGED <<vars, store, excused, out>>

StartRefresh(t, c, r) ==
    /\ c \notin blocked[t]
    /\ ~Refreshing(t)
    /\ store # 0 /\ Free(r)
    /\ blocked' = [blocked EXCEPT ![t] = @ \cup {c}]
    /\ Send(r, t, "refresh", store)
    /\ UNCHANGED <<vars, store, excused, out>>

JoinRefresh(t, c) ==
    /\ c \notin blocked[t]
    /\ Refreshing(t)
    /\ blocked' = [blocked EXCEPT ![t] = @ \cup {c}]
    /\ UNCHANGED <<vars, store, fetch, excused, out>>

(* refreshTokens: the pair is stored, even if a logout has cleared the     *)
(* storage since.                                                          *)
Refreshed(t, r) ==
    /\ Fetches(r, t, "refresh")
    /\ Respond(r)
    /\ store' = req[r].row
    /\ Settled(r)
    /\ Release(t)
    /\ UNCHANGED <<excused, out>>

(* Mutation: only a refresh that succeeds wakes the calls.                 *)
RefreshRefusedSilently(t, r) ==
    /\ Fetches(r, t, "refresh")
    /\ Failed(r)
    /\ store' = 0
    /\ Settled(r)
    /\ UNCHANGED <<vars, blocked, excused, out>>

(* Any other answer, a 429 or a 500 as much as a 401, clears the storage.  *)
RefreshRefused(t, r) ==
    /\ Fetches(r, t, "refresh")
    /\ Failed(r)
    /\ store' = 0
    /\ Settled(r)
    /\ Release(t)
    /\ UNCHANGED <<vars, excused, out>>

(* fetch rejects: the tokens stay, unless the page was loading.            *)
RefreshLost(t, r) ==
    /\ Fetches(r, t, "refresh")
    /\ store' = IF Hydrate \in blocked[t] THEN 0 ELSE store
    /\ fetch' = [fetch EXCEPT ![r] = Orphaned(@)]
    /\ excused' = excused \cup Carried(r)
    /\ Release(t)
    /\ UNCHANGED <<vars, out>>

-----------------------------------------------------------------------------
(* AuthProvider.                                                           *)

SignUp(r, u) ==
    /\ Free(r)
    /\ RegisterCheck(r, u)
    /\ UNCHANGED client

SignIn(t, r, u, f) ==
    /\ store = 0 /\ Free(r)
    /\ Login(r, u, f)
    /\ Send(r, t, "login", 0)
    /\ UNCHANGED <<store, blocked, excused, out>>

SignedIn(t, r) ==
    /\ Fetches(r, t, "login")
    /\ Respond(r)
    /\ store' = req[r].row
    /\ out' = "no"
    /\ Settled(r)
    /\ UNCHANGED <<blocked, excused>>

(* The server's SELECT for a logout finds the row whatever has happened to *)
(* it, and rows are never deleted: when it runs makes no difference, and   *)
(* it is taken with the sending.  What it leads to, LogoutRevoke, is not.  *)
SignOut(t, r) ==
    /\ store # 0 /\ Free(r)
    /\ LogoutLookup(r, store)
    /\ Send(r, t, "logout", 0)
    /\ excused' = excused \cup {rows[store].family}
    /\ UNCHANGED <<store, blocked, out>>

(* Mutation: the tokens are cleared only if the server has answered.       *)
SignedOutIfAnswered(t, r) ==
    /\ Fetches(r, t, "logout")
    /\ store' = IF Failed(r) THEN 0 ELSE store
    /\ out' = IF \E u \in Tab : Refreshing(u) THEN "raced" ELSE "yes"
    /\ fetch' = [fetch EXCEPT ![r] = Orphaned(@)]
    /\ UNCHANGED <<vars, blocked, excused>>

(* Answered or not, the tokens are cleared.                                *)
SignedOut(t, r) ==
    /\ Fetches(r, t, "logout")
    /\ store' = 0
    /\ out' = IF \E u \in Tab : Refreshing(u) THEN "raced" ELSE "yes"
    /\ fetch' = [fetch EXCEPT ![r] = Orphaned(@)]
    /\ UNCHANGED <<vars, blocked, excused>>

(* A reload or a closed tab: its variables are gone, localStorage is not.  *)
Reload(t) ==
    /\ Release(t)
    /\ fetch' = [r \in Request |-> IF fetch[r].tab = t THEN Orphaned(fetch[r]) ELSE fetch[r]]
    /\ excused' = excused \cup UNION {Carried(r) : r \in {q \in Request : fetch[q].tab = t}}
    /\ UNCHANGED <<vars, store, out>>

-----------------------------------------------------------------------------
(* The server side of a fetch.                                             *)

(* A token that has expired, or a caller over the rate limit, is answered  *)
(* without a change.                                                       *)
Serve(r) ==
    /\ fetch[r].row # 0
    /\ \/ RefreshLookup(r, fetch[r].row)
       \/ RefreshReused(r, fetch[r].row)
       \/ UNCHANGED vars
    /\ fetch' = [fetch EXCEPT ![r].row = 0]
    /\ UNCHANGED <<store, blocked, excused, out>>

Step(r) ==
    /\ \/ RegisterInsert(r) \/ LoginAudit(r) \/ RefreshRevoke(r) \/ RefreshIssue(r)
       \/ ReuseRevoke(r) \/ ReuseAnswer(r) \/ LogoutRevoke(r) \/ RevokeCommit(r)
    /\ UNCHANGED client

(* A 500: what was committed stays.                                        *)
Crash(r) ==
    /\ Abort(r)
    /\ excused' = excused \cup Carried(r)
    /\ UNCHANGED <<store, fetch, blocked, out>>

LoginFailed(t, r) ==
    /\ Fetches(r, t, "login")
    /\ Failed(r)
    /\ Settled(r)
    /\ UNCHANGED <<vars, store, blocked, excused, out>>

(* An answer that nobody waits for.                                        *)
Undelivered(r) ==
    /\ fetch[r].kind = "none"
    /\ req[r].pc = "respond"
    /\ Abort(r)
    /\ UNCHANGED client

(* The session is closed from another device.                              *)
RevokedElsewhere(r, u, row) ==
    /\ Free(r)
    /\ RevokeLookup(r, u, row)
    /\ excused' = excused \cup {rows[row].family}
    /\ UNCHANGED <<store, fetch, blocked, out>>

BrowserInit ==
    /\ Init
    /\ store = 0
    /\ fetch = [r \in Request |-> Nobody]
    /\ blocked = [t \in Tab |-> {}]
    /\ excused = {}
    /\ out = "no"

Settle(t, r) == Refreshed(t, r) \/ RefreshRefused(t, r) \/ RefreshLost(t, r)

TabStep(t) ==
    \/ LoadFails(t) \/ Reload(t)
    \/ \E c \in Call : JoinRefresh(t, c)
    \/ \E c \in Call, r \in Request : StartRefresh(t, c, r)
    \/ \E r \in Request :
        \/ Settle(t, r) \/ SignedIn(t, r) \/ LoginFailed(t, r)
        \/ SignOut(t, r) \/ SignedOut(t, r)
    \/ \E r \in Request, u \in User, f \in Family : SignIn(t, r, u, f)

ServerStep(r) ==
    \/ Serve(r) \/ Step(r) \/ Crash(r) \/ Undelivered(r)
    \/ \E u \in User : SignUp(r, u)
    \/ \E u \in User, row \in DOMAIN rows : RevokedElsewhere(r, u, row)

BrowserNext ==
    \/ \E t \in Tab : TabStep(t)
    \/ \E r \in Request : ServerStep(r)

(* A fetch is settled in the end: the server answers, or the browser gives *)
(* up waiting for it.                                                      *)
Fairness == \A t \in Tab, r \in Request : WF_allVars(Settle(t, r))

BrowserSpec == BrowserInit /\ [][BrowserNext]_allVars

FairSpec == BrowserSpec /\ Fairness

-----------------------------------------------------------------------------
(* "Concurrent 401s must share one in-flight refresh ... a second attempt  *)
(* with the already-rotated-out token would look like theft and revoke the *)
(* whole session" (api.ts:61-64).  With one tab the server takes a refresh *)
(* for a theft only where an answer to the client was lost or the user has *)
(* ended the session.                                                      *)
NoFalseTheft ==
    \A r \in Request : req[r].pc = "reuse" => rows[req[r].row].family \in excused

(* Between refreshes the stored token is the one its session goes on with: *)
(* the family's only row that is not revoked.                              *)
StoreIsLive ==
    store # 0 /\ rows[store].family \notin excused /\ (\A t \in Tab : ~Refreshing(t)) =>
        \A row \in FamilyRows(rows[store].family) : rows[row].revoked <=> row # store

(* After a logout the browser holds tokens again only through a new login, *)
(* or from a refresh that was in flight when the logout cleared them       *)
(* (auth-context.tsx:62-73).                                               *)
OutMeansOut == out = "yes" => store = 0

(* A call that awaits the refresh goes on in the end, however the refresh  *)
(* ends (api.ts:113-123).                                                  *)
BlockedReleased ==
    \A t \in Tab, c \in Call : c \in blocked[t] ~> c \notin blocked[t]
=============================================================================
