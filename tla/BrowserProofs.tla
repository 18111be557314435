---------------------------- MODULE BrowserProofs ----------------------------
(***************************************************************************)
(* Theorems about Browser, for any number of tabs, calls and requests:     *)
(* with these clients the server still behaves as module Sessions says, so *)
(* all that is proved of Sessions holds of the composition; and within a   *)
(* tab, calls share one refresh, whose end wakes them all.                 *)
(***************************************************************************)
EXTENDS Browser, SessionsProofs

(* A client presents only tokens that it was given.                        *)
Presented == known \cup {0}

Fetch == [tab : Tab \cup {NoTab}, kind : {"none", "refresh", "login", "logout"},
          row : Presented]

(* While the user is signed out for good, no refresh is in flight.         *)
Quiet == out = "yes" => store = 0 /\ \A t \in Tab : ~Refreshing(t)

BInv ==
    /\ store \in Presented
    /\ fetch \in [Request -> Fetch]
    /\ Quiet

-----------------------------------------------------------------------------
(* How a step changes fetch.                                               *)

LEMMA FetchGrows ==
    ASSUME BInv, known \subseteq known'
    PROVE  store \in Presented' /\ fetch \in [Request -> Fetch']
BY DEF BInv, Presented, Fetch

LEMMA SendFetch ==
    ASSUME BInv, NEW r \in Request, NEW t \in Tab,
           NEW kind \in {"refresh", "login", "logout"}, NEW row \in Presented,
           Send(r, t, kind, row)
    PROVE  fetch' \in [Request -> Fetch]
BY DEF BInv, Send, Fetch

(* Requests other than r are what they were; nobody waits for r.           *)
Left(r) ==
    /\ fetch' \in [Request -> Fetch']
    /\ \A q \in Request : fetch'[q].kind = "refresh" => q # r /\ fetch'[q] = fetch[q]

LEMMA SettledLeft ==
    ASSUME BInv, NEW r \in Request, Settled(r), known \subseteq known'
    PROVE  Left(r)
<1>1. fetch \in [Request -> Fetch']
  BY FetchGrows
<1>2. Nobody \in Fetch' /\ Nobody.kind = "none"
  BY DEF Nobody, Fetch, Presented
<1>3. QED
  BY <1>1, <1>2 DEF Settled, Left

LEMMA OrphanedFetch ==
    ASSUME NEW f \in Fetch
    PROVE  /\ Orphaned(f) \in Fetch /\ Orphaned(f).row = f.row
           /\ Orphaned(f).kind # "refresh"
BY DEF Fetch, Orphaned

LEMMA OrphanedLeft ==
    ASSUME BInv, NEW r \in Request, known' = known,
           fetch' = [fetch EXCEPT ![r] = Orphaned(@)]
    PROVE  Left(r)
<1>1. fetch \in [Request -> Fetch] /\ fetch[r] \in Fetch /\ Fetch' = Fetch
  BY DEF BInv, Fetch, Presented
<1>2. Orphaned(fetch[r]) \in Fetch /\ Orphaned(fetch[r]).kind # "refresh"
  BY <1>1, OrphanedFetch
<1>3. QED
  BY <1>1, <1>2 DEF Left

(* No refresh appears where there was none.                                *)
LEMMA LeftQuiet ==
    ASSUME BInv, NEW r \in Request, Left(r),
           out' = "yes" => store' = 0 /\ \A t \in Tab : ~Refreshing(t)
    PROVE  Quiet'
BY DEF BInv, Quiet, Refreshing, Fetches, Left

LEMMA SentQuiet ==
    ASSUME BInv, NEW r \in Request, NEW t \in Tab, NEW kind \in {"login", "logout"},
           NEW row, Send(r, t, kind, row), UNCHANGED <<store, out>>
    PROVE  Quiet'
<1>1. \A q \in Request : fetch'[q].kind = "refresh" => fetch'[q] = fetch[q]
  BY DEF BInv, Send
<1>2. QED
  BY <1>1 DEF BInv, Quiet, Refreshing, Fetches

LEMMA InitBInv == BrowserInit => BInv
BY DEF BrowserInit, BInv, Presented, Fetch, Nobody, Quiet

-----------------------------------------------------------------------------
(* The steps of a tab.                                                     *)

(* An answer is delivered: the token that is stored is known from now on.  *)
LEMMA Delivered ==
    ASSUME BInv, TypeOK, NEW r \in Request, Respond(r), Settled(r), store' = req[r].row
    PROVE  /\ Next
           /\ Left(r)
           /\ store' \in Presented'
<1>1. Next
  BY DEF Next, Continue
<1>2. known' = known \cup {req[r].row}
  BY DEF Respond
<1>3. QED
  BY <1>1, <1>2, SettledLeft DEF Presented

LEMMA TabStepBInv ==
    ASSUME BInv, TypeOK, NEW t \in Tab, TabStep(t)
    PROVE  [Next]_vars /\ BInv'
<1>a. store \in Presented /\ fetch \in [Request -> Fetch] /\ Quiet
  BY DEF BInv
<1>b. UNCHANGED vars => known' = known /\ Presented' = Presented /\ Fetch' = Fetch
  BY DEF vars, Presented, Fetch
<1>1. CASE LoadFails(t)
  BY <1>a, <1>b, <1>1 DEF LoadFails, BInv, Quiet, Refreshing, Fetches, Presented
<1>2. CASE Reload(t)
  <2>1. \A r \in Request : fetch[r] \in Fetch
    BY <1>a
  <2>2. fetch' = [r \in Request |-> IF fetch[r].tab = t THEN Orphaned(fetch[r]) ELSE fetch[r]]
    BY <1>2 DEF Reload
  <2>3. \A r \in Request : fetch'[r] \in Fetch /\ (fetch'[r].kind = "refresh" => fetch'[r] = fetch[r])
    BY <2>1, <2>2, OrphanedFetch
  <2>4. fetch' \in [Request -> Fetch]
    BY <2>2, <2>3
  <2>5. UNCHANGED <<vars, store, out>>
    BY <1>2 DEF Reload
  <2>6. Quiet'
    BY <1>a, <2>3, <2>5 DEF Quiet, Refreshing, Fetches
  <2>7. QED
    BY <1>a, <1>b, <2>4, <2>5, <2>6 DEF BInv
<1>3. ASSUME NEW c \in Call, JoinRefresh(t, c)
      PROVE  [Next]_vars /\ BInv'
  BY <1>a, <1>b, <1>3 DEF JoinRefresh, BInv, Quiet, Refreshing, Fetches
<1>4. ASSUME NEW c \in Call, NEW r \in Request, StartRefresh(t, c, r)
      PROVE  [Next]_vars /\ BInv'
  <2>1. Send(r, t, "refresh", store) /\ UNCHANGED <<vars, store, out>> /\ store # 0
    BY <1>4 DEF StartRefresh
  <2>2. fetch' \in [Request -> Fetch]
    BY <1>a, <2>1, SendFetch
  <2>3. Quiet'
    BY <1>a, <2>1 DEF Quiet
  <2>4. QED
    BY <1>a, <1>b, <2>1, <2>2, <2>3 DEF BInv
<1>5. ASSUME NEW r \in Request, Settle(t, r)
      PROVE  [Next]_vars /\ BInv'
  <2>1. ~(out = "yes")
    BY <1>a, <1>5 DEF Settle, Refreshed, RefreshRefused, RefreshLost, Quiet, Refreshing
  <2>2. UNCHANGED out
    BY <1>5 DEF Settle, Refreshed, RefreshRefused, RefreshLost
  <2>3. Quiet'
    BY <2>1, <2>2 DEF Quiet
  <2>4. CASE Refreshed(t, r)
    BY <2>3, <2>4, Delivered DEF Refreshed, BInv, Left
  <2>5. CASE RefreshRefused(t, r)
    <3>1. Settled(r) /\ store' = 0 /\ UNCHANGED vars
      BY <2>5 DEF RefreshRefused
    <3>2. QED
      BY <1>b, <2>3, <3>1, SettledLeft DEF BInv, Left, Presented
  <2>6. CASE RefreshLost(t, r)
    <3>1. fetch' = [fetch EXCEPT ![r] = Orphaned(@)] /\ store' \in {0, store} /\ UNCHANGED vars
      BY <2>6 DEF RefreshLost
    <3>2. QED
      BY <1>a, <1>b, <2>3, <3>1, OrphanedLeft DEF BInv, Left, Presented
  <2>7. QED
    BY <1>5, <2>4, <2>5, <2>6 DEF Settle
<1>6. ASSUME NEW r \in Request, SignedIn(t, r)
      PROVE  [Next]_vars /\ BInv'
  <2>1. out' = "no" /\ Respond(r) /\ Settled(r) /\ store' = req[r].row
    BY <1>6 DEF SignedIn
  <2>2. Quiet'
    BY <2>1 DEF Quiet
  <2>3. QED
    BY <2>1, <2>2, Delivered DEF BInv, Left
<1>7. ASSUME NEW r \in Request, LoginFailed(t, r)
      PROVE  [Next]_vars /\ BInv'
  <2>1. Settled(r) /\ UNCHANGED <<vars, store, out>>
    BY <1>7 DEF LoginFailed
  <2>2. Left(r)
    BY <1>b, <2>1, SettledLeft
  <2>3. QED
    BY <1>a, <1>b, <2>1, <2>2, LeftQuiet DEF BInv, Left, Quiet
<1>8. ASSUME NEW r \in Request, SignOut(t, r)
      PROVE  [Next]_vars /\ BInv'
  <2>1. /\ LogoutLookup(r, store) /\ Send(r, t, "logout", 0) /\ UNCHANGED <<store, out>>
        /\ store \in known /\ 0 \in Presented
    BY <1>a, <1>8 DEF SignOut, Presented
  <2>2. Next /\ known' = known
    BY <2>1 DEF LogoutLookup, Next, Start
  <2>3. fetch' \in [Request -> Fetch] /\ Quiet'
    BY <2>1, SendFetch, SentQuiet
  <2>4. QED
    BY <1>a, <2>1, <2>2, <2>3 DEF BInv, Presented, Fetch
<1>9. ASSUME NEW r \in Request, SignedOut(t, r)
      PROVE  [Next]_vars /\ BInv'
  <2>1. /\ fetch' = [fetch EXCEPT ![r] = Orphaned(@)] /\ store' = 0 /\ UNCHANGED vars
        /\ out' = "yes" => \A u \in Tab : ~Refreshing(u)
    BY <1>9 DEF SignedOut
  <2>2. Left(r)
    BY <1>b, <2>1, OrphanedLeft
  <2>3. QED
    BY <1>b, <2>1, <2>2, LeftQuiet DEF BInv, Left, Presented
<1>10. ASSUME NEW r \in Request, NEW u \in User, NEW f \in Family, SignIn(t, r, u, f)
       PROVE  [Next]_vars /\ BInv'
  <2>1. /\ Login(r, u, f) /\ Send(r, t, "login", 0) /\ UNCHANGED <<store, out>>
        /\ 0 \in Presented
    BY <1>10 DEF SignIn, Presented
  <2>2. Next /\ known' = known
    BY <2>1 DEF Login, Next, Start
  <2>3. fetch' \in [Request -> Fetch] /\ Quiet'
    BY <2>1, SendFetch, SentQuiet
  <2>4. QED
    BY <1>a, <2>1, <2>2, <2>3 DEF BInv, Presented, Fetch
<1>11. QED
  BY <1>1, <1>2, <1>3, <1>4, <1>5, <1>6, <1>7, <1>8, <1>9, <1>10 DEF TabStep

-----------------------------------------------------------------------------
(* The steps of the server.  No step but an answer changes what is known.  *)

LEMMA ServerOnly ==
    ASSUME BInv, known' = known, UNCHANGED client
    PROVE  BInv'
BY DEF BInv, client, Presented, Fetch, Quiet, Refreshing, Fetches

(* What a fetch is when the server has looked up its token.                *)
LEMMA ServedFetch ==
    ASSUME BInv, NEW r \in Request, Serve(r)
    PROVE  /\ fetch' \in [Request -> Fetch]
           /\ fetch'[r].row = 0
           /\ fetch'[r].tab = fetch[r].tab /\ fetch'[r].kind = fetch[r].kind
           /\ \A q \in Request \ {r} : fetch'[q] = fetch[q]
           /\ \A kind : \A q \in Request, t \in Tab :
                 Fetches(q, t, kind)' <=> Fetches(q, t, kind)
<1>1. fetch \in [Request -> Fetch] /\ fetch[r] \in Fetch
  BY DEF BInv
<1>2. PICK f : f = [fetch[r] EXCEPT !.row = 0]
  OBVIOUS
<1>3. f \in Fetch /\ f.row = 0 /\ f.kind = fetch[r].kind /\ f.tab = fetch[r].tab
  BY <1>1, <1>2 DEF Fetch, Presented
<1>4. fetch' = [fetch EXCEPT ![r] = f]
  BY <1>1, <1>2 DEF Serve, Fetch
<1>5. \A q \in Request : fetch'[q] = IF q = r THEN f ELSE fetch[q]
  BY <1>1, <1>4
<1>6. fetch' \in [Request -> Fetch]
  BY <1>1, <1>3, <1>4
<1>7. QED
  BY <1>3, <1>5, <1>6 DEF Fetches

LEMMA ServerStepBInv ==
    ASSUME BInv, NEW r \in Request, ServerStep(r)
    PROVE  [Next]_vars /\ BInv'
<1>1. CASE Serve(r)
  <2>1. UNCHANGED <<store, out>>
    BY <1>1 DEF Serve
  <2>2. fetch[r].row \in known
    BY <1>1 DEF Serve, BInv, Fetch, Presented
  <2>3. \/ RefreshLookup(r, fetch[r].row)
        \/ RefreshReused(r, fetch[r].row)
        \/ UNCHANGED vars
    BY <1>1 DEF Serve
  <2>4. [Next]_vars /\ known' = known
    BY <2>2, <2>3 DEF Next, Start, vars, RefreshLookup, RefreshReused
  <2>5. /\ fetch' \in [Request -> Fetch]
        /\ \A t \in Tab : Refreshing(t)' <=> Refreshing(t)
    BY <1>1, ServedFetch DEF Refreshing
  <2>6. Quiet'
    BY <2>1, <2>5 DEF BInv, Quiet
  <2>7. QED
    BY <2>1, <2>4, <2>5, <2>6 DEF BInv, Presented, Fetch
<1>2. CASE Step(r)
  <2>1. Continue(r) /\ UNCHANGED client
    BY <1>2 DEF Step, Continue
  <2>2. known' = known
    BY <1>2 DEF Step, RegisterInsert, LoginAudit, RefreshRevoke, RefreshIssue, ReuseRevoke,
                ReuseAnswer, LogoutRevoke, RevokeCommit
  <2>3. QED
    BY <2>1, <2>2, ServerOnly DEF Next
<1>3. CASE Crash(r)
  <2>1. Abort(r) /\ known' = known /\ UNCHANGED <<store, fetch, out>>
    BY <1>3 DEF Crash, Abort
  <2>2. QED
    BY <2>1 DEF Next, BInv, Presented, Fetch, Quiet, Refreshing, Fetches
<1>4. CASE Undelivered(r)
  <2>1. Abort(r) /\ known' = known /\ UNCHANGED client
    BY <1>4 DEF Undelivered, Abort
  <2>2. QED
    BY <2>1, ServerOnly DEF Next
<1>5. ASSUME NEW u \in User, SignUp(r, u)
      PROVE  [Next]_vars /\ BInv'
  <2>1. RegisterCheck(r, u) /\ known' = known /\ UNCHANGED client
    BY <1>5 DEF SignUp, RegisterCheck
  <2>2. QED
    BY <2>1, ServerOnly DEF Next, Start
<1>6. ASSUME NEW u \in User, NEW row \in DOMAIN rows, RevokedElsewhere(r, u, row)
      PROVE  [Next]_vars /\ BInv'
  <2>1. RevokeLookup(r, u, row) /\ known' = known /\ UNCHANGED <<store, fetch, out>>
    BY <1>6 DEF RevokedElsewhere, RevokeLookup
  <2>2. QED
    BY <2>1 DEF Next, Start, BInv, Presented, Fetch, Quiet, Refreshing, Fetches
<1>7. QED
  BY <1>1, <1>2, <1>3, <1>4, <1>5, <1>6 DEF ServerStep

LEMMA BrowserStep ==
    BInv /\ TypeOK /\ [BrowserNext]_allVars => [Next]_vars /\ BInv'
<1> SUFFICES ASSUME BInv, TypeOK, [BrowserNext]_allVars
             PROVE  [Next]_vars /\ BInv'
  OBVIOUS
<1>1. CASE \E t \in Tab : TabStep(t)
  BY <1>1, TabStepBInv
<1>2. CASE \E r \in Request : ServerStep(r)
  BY <1>2, ServerStepBInv
<1>3. CASE UNCHANGED allVars
  BY <1>3, ServerOnly DEF allVars, vars
<1>4. QED
  BY <1>1, <1>2, <1>3 DEF BrowserNext

-----------------------------------------------------------------------------
(* What tabs send, in whatever order, with whatever answers lost, is what  *)
(* Sessions allows its clients: each step of the composition is a step of  *)
(* Sessions or leaves the server alone.  What SessionsProofs proves thus   *)
(* holds with these clients.                                               *)
THEOREM ClientsObeySessions == BrowserSpec => Spec
<1>1. BrowserInit => Init /\ BInv
  BY InitBInv DEF BrowserInit
<1>2. BInv /\ IInv /\ [BrowserNext]_allVars => [Next]_vars /\ BInv' /\ IInv'
  BY BrowserStep, StepIInv DEF IInv
<1>3. Init => IInv
  BY InitIInv
<1>4. QED
  BY <1>1, <1>2, <1>3, PTL DEF BrowserSpec, Spec

(* After a logout that no refresh was racing, localStorage stays empty     *)
(* until the next login, with any number of tabs and calls and whatever    *)
(* the server answers (auth-context.tsx:62-73).                            *)
THEOREM LoggedOutStaysOut == BrowserSpec => []OutMeansOut
<1>1. BrowserInit => IInv /\ BInv
  BY InitBInv, InitIInv DEF BrowserInit
<1>2. BInv /\ IInv /\ [BrowserNext]_allVars => BInv' /\ IInv'
  BY BrowserStep, StepIInv DEF IInv
<1>3. BInv => OutMeansOut
  BY DEF BInv, Quiet, OutMeansOut
<1>4. QED
  BY <1>1, <1>2, <1>3, PTL DEF BrowserSpec

(* The composition implements the life of a session, opened once and       *)
(* closed for good (auth_service.py:50-162 under api.ts:61-127).           *)
THEOREM BrowserKeepsLifecycle == BrowserSpec => ImplementsLifecycle
BY ClientsObeySessions, Refinement, PTL

-----------------------------------------------------------------------------
(* Any number of tabs: who waits for a refresh, and for which.             *)

RefreshOf(t) == {r \in Request : Fetches(r, t, "refresh")}

(* Somebody waits exactly while one refresh of the tab is in flight.       *)
Together(t) ==
    \/ blocked[t] = {} /\ RefreshOf(t) = {}
    \/ blocked[t] # {} /\ \E r \in Request : RefreshOf(t) = {r}

SharedRefresh == \A t \in Tab : Together(t)

WInv == blocked \in [Tab -> SUBSET Call] /\ SharedRefresh

(* A call goes on only when the refresh that it awaits has ended, and then *)
(* all of them do.                                                         *)
WakesTogether ==
    [][\A t \in Tab :
          \/ blocked[t] \subseteq blocked'[t] /\ RefreshOf(t) \subseteq RefreshOf(t)'
          \/ blocked'[t] = {} /\ RefreshOf(t)' = {}]_allVars

(* What a step may do to a tab.                                            *)
Rests(t) == RefreshOf(t)' = RefreshOf(t) /\ blocked'[t] = blocked[t]

Joins(t) ==
    /\ Refreshing(t) /\ RefreshOf(t)' = RefreshOf(t)
    /\ \E c \in Call : blocked'[t] = blocked[t] \cup {c}

Starts(t) ==
    /\ ~Refreshing(t)
    /\ \E r \in Request, c \in Call : RefreshOf(t)' = {r} /\ blocked'[t] = blocked[t] \cup {c}

Ends(t) ==
    /\ blocked'[t] = {}
    /\ \/ RefreshOf(t)' = {}
       \/ \E r \in RefreshOf(t) : RefreshOf(t)' = RefreshOf(t) \ {r}

TabChange(t) ==
    /\ blocked' \in [Tab -> SUBSET Call]
    /\ Rests(t) \/ Joins(t) \/ Starts(t) \/ Ends(t)

LEMMA ChangesTogether ==
    ASSUME NEW t \in Tab, Together(t), TabChange(t)
    PROVE  /\ Together(t)'
           /\ \/ blocked[t] \subseteq blocked'[t] /\ RefreshOf(t) \subseteq RefreshOf(t)'
              \/ blocked'[t] = {} /\ RefreshOf(t)' = {}
<1>0. Refreshing(t) <=> RefreshOf(t) # {}
  BY DEF Refreshing, RefreshOf
<1>1. CASE Rests(t)
  BY <1>1 DEF Rests, Together
<1>2. CASE Joins(t)
  BY <1>0, <1>2 DEF Joins, Together
<1>3. CASE Starts(t)
  BY <1>0, <1>3 DEF Starts, Together
<1>4. CASE Ends(t)
  BY <1>4 DEF Ends, Together
<1>5. QED
  BY <1>1, <1>2, <1>3, <1>4 DEF TabChange

(* A step that changes one fetch, which is not a refresh of the tab before *)
(* or after.                                                               *)
LEMMA OtherFetch ==
    ASSUME BInv, NEW t, NEW r \in Request, NEW f, fetch' = [fetch EXCEPT ![r] = f],
           ~Fetches(r, t, "refresh"), f.tab # t \/ f.kind # "refresh"
    PROVE  RefreshOf(t)' = RefreshOf(t)
BY DEF BInv, RefreshOf, Fetches

LEMMA FetchEnds ==
    ASSUME BInv, NEW t, NEW r \in RefreshOf(t), NEW f, fetch' = [fetch EXCEPT ![r] = f],
           f.kind # "refresh"
    PROVE  RefreshOf(t)' = RefreshOf(t) \ {r}
BY DEF BInv, RefreshOf, Fetches

LEMMA SendOther ==
    ASSUME BInv, NEW t \in Tab, NEW u \in Tab, NEW r \in Request, NEW kind, NEW row,
           Free(r), Send(r, u, kind, row), t # u \/ kind # "refresh"
    PROVE  RefreshOf(t)' = RefreshOf(t)
<1> DEFINE f == [tab |-> u, kind |-> kind, row |-> row]
<1>1. f.tab = u /\ f.kind = kind /\ fetch' = [fetch EXCEPT ![r] = f]
  BY DEF Send
<1>2. ~Fetches(r, t, "refresh")
  BY DEF Free, Nobody, Fetches
<1> HIDE DEF f
<1>3. QED
  BY <1>1, <1>2, OtherFetch

LEMMA GivenUp ==
    ASSUME BInv, NEW r \in Request
    PROVE  Nobody.kind # "refresh" /\ Orphaned(fetch[r]).kind # "refresh"
BY DEF BInv, Fetch, Nobody, Orphaned

LEMMA SameFetch ==
    ASSUME NEW t \in Tab, UNCHANGED fetch
    PROVE  RefreshOf(t)' = RefreshOf(t)
BY DEF RefreshOf, Fetches

LEMMA TabMoves ==
    ASSUME BInv, WInv, NEW t \in Tab, NEW u \in Tab, TabStep(u)
    PROVE  TabChange(t)
<1>a. blocked \in [Tab -> SUBSET Call]
  BY DEF WInv
<1>b. \A r \in Request, k \in {"login", "logout"} :
          Fetches(r, u, k) => ~Fetches(r, t, "refresh")
  BY DEF Fetches
<1>1. CASE LoadFails(u)
  BY <1>a, <1>1, SameFetch DEF LoadFails, TabChange, Rests
<1>2. CASE Reload(u)
  <2>1. /\ fetch' = [r \in Request |-> IF fetch[r].tab = u THEN Orphaned(fetch[r]) ELSE fetch[r]]
        /\ blocked' = [blocked EXCEPT ![u] = {}]
    BY <1>2 DEF Reload, Release
  <2>2. CASE t = u
    <3>1. RefreshOf(t)' = {}
      BY <2>1, <2>2, GivenUp DEF RefreshOf, Fetches
    <3>2. QED
      BY <1>a, <2>1, <2>2, <3>1 DEF TabChange, Ends
  <2>3. CASE t # u
    <3>1. RefreshOf(t)' = RefreshOf(t)
      BY <2>1, <2>3, GivenUp DEF RefreshOf, Fetches
    <3>2. QED
      BY <1>a, <2>1, <2>3, <3>1 DEF TabChange, Rests
  <2>4. QED
    BY <2>2, <2>3
<1>3. ASSUME NEW c \in Call, JoinRefresh(u, c)
      PROVE  TabChange(t)
  BY <1>a, <1>3, SameFetch DEF JoinRefresh, TabChange, Rests, Joins
<1>4. ASSUME NEW c \in Call, NEW r \in Request, StartRefresh(u, c, r)
      PROVE  TabChange(t)
  <2>1. /\ Free(r) /\ ~Refreshing(u) /\ Send(r, u, "refresh", store)
        /\ blocked' = [blocked EXCEPT ![u] = @ \cup {c}]
    BY <1>4 DEF StartRefresh
  <2>2. CASE t = u
    <3>1. RefreshOf(u)' = {r}
      BY <2>1 DEF BInv, Send, RefreshOf, Refreshing, Fetches
    <3>2. QED
      BY <1>a, <2>1, <2>2, <3>1 DEF TabChange, Starts
  <2>3. CASE t # u
    BY <1>a, <2>1, <2>3, SendOther DEF TabChange, Rests
  <2>4. QED
    BY <2>2, <2>3
<1>5. ASSUME NEW r \in Request, Settle(u, r)
      PROVE  TabChange(t)
  <2>1. PICK f : fetch' = [fetch EXCEPT ![r] = f] /\ f.kind # "refresh"
    BY <1>5, GivenUp DEF Settle, Refreshed, RefreshRefused, RefreshLost, Settled
  <2>2. Fetches(r, u, "refresh") /\ blocked' = [blocked EXCEPT ![u] = {}]
    BY <1>5 DEF Settle, Refreshed, RefreshRefused, RefreshLost, Release
  <2>3. CASE t = u
    <3>1. r \in RefreshOf(t)
      BY <2>2, <2>3 DEF RefreshOf
    <3>2. QED
      BY <1>a, <2>1, <2>2, <2>3, <3>1, FetchEnds DEF TabChange, Ends
  <2>4. CASE t # u
    <3>1. ~Fetches(r, t, "refresh")
      BY <2>2, <2>4 DEF Fetches
    <3>2. QED
      BY <1>a, <2>1, <2>2, <2>4, <3>1, OtherFetch DEF TabChange, Rests
  <2>5. QED
    BY <2>3, <2>4
<1>6. ASSUME NEW r \in Request, SignedIn(u, r) \/ LoginFailed(u, r) \/ SignedOut(u, r)
      PROVE  TabChange(t)
  <2>1. PICK f : fetch' = [fetch EXCEPT ![r] = f] /\ f.kind # "refresh"
    BY <1>6, GivenUp DEF SignedIn, LoginFailed, SignedOut, Settled
  <2>2. ~Fetches(r, t, "refresh") /\ UNCHANGED blocked
    BY <1>b, <1>6 DEF SignedIn, LoginFailed, SignedOut
  <2>3. QED
    BY <1>a, <2>1, <2>2, OtherFetch DEF TabChange, Rests
<1>7. ASSUME NEW r \in Request, SignOut(u, r)
      PROVE  TabChange(t)
  BY <1>a, <1>7, SendOther DEF SignOut, TabChange, Rests
<1>8. ASSUME NEW r \in Request, NEW v \in User, NEW f \in Family, SignIn(u, r, v, f)
      PROVE  TabChange(t)
  BY <1>a, <1>8, SendOther DEF SignIn, TabChange, Rests
<1>9. QED
  BY <1>1, <1>2, <1>3, <1>4, <1>5, <1>6, <1>7, <1>8 DEF TabStep

LEMMA ServerMoves ==
    ASSUME BInv, WInv, NEW t \in Tab, NEW r \in Request, ServerStep(r)
    PROVE  TabChange(t)
<1>a. blocked \in [Tab -> SUBSET Call]
  BY DEF WInv
<1>1. CASE Serve(r)
  <2>1. UNCHANGED blocked
    BY <1>1 DEF Serve
  <2>2. RefreshOf(t)' = RefreshOf(t)
    BY <1>1, ServedFetch DEF RefreshOf
  <2>3. QED
    BY <1>a, <2>1, <2>2 DEF TabChange, Rests
<1>2. CASE ~Serve(r)
  <2>1. UNCHANGED <<fetch, blocked>>
    BY <1>2 DEF ServerStep, Step, Crash, Undelivered, SignUp, RevokedElsewhere, client
  <2>2. QED
    BY <1>a, <2>1, SameFetch DEF TabChange, Rests
<1>3. QED
  BY <1>1, <1>2

LEMMA EveryTabMoves ==
    ASSUME BInv, WInv, [BrowserNext]_allVars, NEW t \in Tab
    PROVE  TabChange(t)
<1>1. CASE \E u \in Tab : TabStep(u)
  BY <1>1, TabMoves
<1>2. CASE \E r \in Request : ServerStep(r)
  BY <1>2, ServerMoves
<1>3. CASE UNCHANGED allVars
  BY <1>3, SameFetch DEF WInv, allVars, client, TabChange, Rests
<1>4. QED
  BY <1>1, <1>2, <1>3 DEF BrowserNext

LEMMA WInvKept ==
    /\ BrowserInit => WInv
    /\ IInv /\ BInv /\ WInv /\ [BrowserNext]_allVars => WInv'
<1>1. ASSUME BrowserInit
      PROVE  WInv
  <2>1. \A t \in Tab : blocked[t] = {} /\ RefreshOf(t) = {}
    BY <1>1, BrowserAssumption DEF BrowserInit, RefreshOf, Fetches, Nobody
  <2>2. QED
    BY <1>1, <2>1 DEF BrowserInit, WInv, SharedRefresh, Together
<1>2. ASSUME BInv, WInv, [BrowserNext]_allVars
      PROVE  WInv'
  <2>1. ASSUME NEW t \in Tab
        PROVE  Together(t)' /\ blocked' \in [Tab -> SUBSET Call]
    <3>1. TabChange(t) /\ Together(t)
      BY <1>2, EveryTabMoves DEF WInv, SharedRefresh
    <3>2. QED
      BY <3>1, ChangesTogether DEF TabChange
  <2>2. CASE Tab = {}
    <3>1. UNCHANGED blocked
      BY <1>2, <2>2 DEF BrowserNext, ServerStep, Serve, Step, Crash, Undelivered, SignUp,
         RevokedElsewhere, client, allVars
    <3>2. QED
      BY <1>2, <2>2, <3>1 DEF WInv, SharedRefresh
  <2>3. SharedRefresh'
    BY <2>1 DEF SharedRefresh
  <2>4. CASE Tab # {}
    <3>1. PICK t \in Tab : TRUE
      BY <2>4
    <3>2. blocked' \in [Tab -> SUBSET Call]
      BY <2>1, <3>1
    <3>3. QED
      BY <2>3, <3>2 DEF WInv
  <2>5. QED
    BY <2>2, <2>4
<1>3. QED
  BY <1>1, <1>2

(* In each of any number of tabs that share one storage: a call awaits a   *)
(* refresh exactly while one is in flight, and there is never a second one *)
(* beside it (api.ts:61-65, 113-123).                                      *)
THEOREM OneRefreshPerTab == BrowserSpec => []SharedRefresh
<1>1. BrowserInit => IInv /\ BInv
  BY InitBInv, InitIInv DEF BrowserInit
<1>2. BInv /\ IInv /\ [BrowserNext]_allVars => BInv' /\ IInv'
  BY BrowserStep, StepIInv DEF IInv
<1>3. WInv => SharedRefresh
  BY DEF WInv
<1>4. QED
  BY <1>1, <1>2, <1>3, WInvKept, PTL DEF BrowserSpec

(* Whoever awaits a refresh waits for its end and for nothing else, and    *)
(* its end, be it an answer, a refusal, a failed fetch or a reload, sends  *)
(* all of them on (api.ts:113-123).  What BlockedReleased says beyond this *)
(* is that a fetch ends.                                                   *)
THEOREM EndWakesAll == BrowserSpec => WakesTogether
<1>1. BrowserInit => IInv /\ BInv
  BY InitBInv, InitIInv DEF BrowserInit
<1>2. BInv /\ IInv /\ [BrowserNext]_allVars => BInv' /\ IInv'
  BY BrowserStep, StepIInv DEF IInv
<1>3. ASSUME BInv, WInv, [BrowserNext]_allVars
      PROVE  [\A t \in Tab :
                \/ blocked[t] \subseteq blocked'[t] /\ RefreshOf(t) \subseteq RefreshOf(t)'
                \/ blocked'[t] = {} /\ RefreshOf(t)' = {}]_allVars
  <2> SUFFICES ASSUME NEW t \in Tab
               PROVE  \/ blocked[t] \subseteq blocked'[t] /\ RefreshOf(t) \subseteq RefreshOf(t)'
                      \/ blocked'[t] = {} /\ RefreshOf(t)' = {}
    OBVIOUS
  <2>1. TabChange(t) /\ Together(t)
    BY <1>3, EveryTabMoves DEF WInv, SharedRefresh
  <2>2. QED
    BY <2>1, ChangesTogether
<1>4. QED
  BY <1>1, <1>2, <1>3, WInvKept, PTL DEF BrowserSpec, WakesTogether

-----------------------------------------------------------------------------
(* One tab: no refresh of its own looks like a theft.  The family of a     *)
(* token that the tab holds, has sent or has been granted is written by    *)
(* nobody else, unless an answer was lost or the user ended the session.   *)

Kept(s) == s # 0 /\ rows[s].family \notin excused

(* The family can go on with row s only.                                   *)
Alone(s) ==
    /\ ~rows[s].revoked
    /\ \A t \in FamilyRows(rows[s].family) : t # s => rows[t].revoked

(* The server side of q works on family f; its token is on the way.        *)
At(q, f) == req[q].row # 0 /\ rows[req[q].row].family = f

Sent(q, f) == fetch[q].row # 0 /\ rows[fetch[q].row].family = f

(* What a request in flight knows of the row s it works on.                *)
Granted(r, s) ==
    \/ /\ req[r].pc = "rotate" /\ fetch[r].kind = "refresh"
       /\ Alone(s)
    \/ /\ req[r].pc = "issue" /\ fetch[r].kind = "refresh"
       /\ \A t \in FamilyRows(rows[s].family) : rows[t].revoked
    \/ /\ req[r].pc = "respond" /\ fetch[r].kind = "refresh"
       /\ Alone(s)
    \/ /\ req[r].pc \in {"login_audit", "respond"} /\ fetch[r].kind = "login"
       /\ Alone(s)
       /\ FamilyRows(rows[s].family) = {s}
       /\ s \notin known

ServedAlone(r) ==
    Kept(req[r].row) =>
        /\ fetch[r].tab \in Tab
        /\ Granted(r, req[r].row)
        /\ \A q \in Request \ {r} :
              ~At(q, rows[req[r].row].family) /\ ~Sent(q, rows[req[r].row].family)

SentAlone(r) ==
    Kept(fetch[r].row) =>
        /\ fetch[r].tab \in Tab /\ fetch[r].kind = "refresh"
        /\ Alone(fetch[r].row)
        /\ \A q \in Request : ~At(q, rows[fetch[r].row].family)

StoredAlone ==
    Kept(store) /\ (\A q \in Request : ~At(q, rows[store].family)) => Alone(store)

OneRefresh ==
    \A q, r \in Request, t, u \in Tab :
        Fetches(q, t, "refresh") /\ Fetches(r, u, "refresh") => q = r

(* A request that is on its way is served by an idle slot, and an idle one *)
(* works on no row.                                                        *)
Slots ==
    \A r \in Request :
        /\ req[r].pc \in {"idle", "register"} => req[r].row = 0
        /\ fetch[r].row # 0 => req[r].pc = "idle"

OInv ==
    /\ \A r \in Request : ServedAlone(r) /\ SentAlone(r)
    /\ StoredAlone
    /\ OneRefresh
    /\ Slots

(* Rows, requests and tokens that are named are rows of the table.         *)
LEMMA Named ==
    ASSUME IInv, BInv, OInv
    PROVE  /\ rows \in Seq(Row) /\ Len(rows) \in Nat /\ DOMAIN rows = 1..Len(rows)
           /\ known \subseteq DOMAIN rows
           /\ store # 0 => store \in known
           /\ \A r \in Request :
                /\ fetch[r].row # 0 => fetch[r].row \in known
                /\ req[r].row # 0 => req[r].row \in DOMAIN rows
BY DEF IInv, TypeOK, RequestsConsistent, Consistent, BInv, Presented, Fetch, OInv, Slots

-----------------------------------------------------------------------------
(* A step after which no kept family has more in flight than before, and   *)
(* none that is kept loses the request that works on it.                   *)

RowsKept ==
    /\ excused \subseteq excused'
    /\ DOMAIN rows \subseteq DOMAIN rows'
    /\ \A s \in DOMAIN rows :
        /\ rows'[s].family = rows[s].family
        /\ rows[s].family \notin excused' => (rows'[s].revoked <=> rows[s].revoked)
    /\ \A s \in DOMAIN rows' \ DOMAIN rows : rows'[s].family \in excused'

Fewer ==
    /\ RowsKept
    /\ known' = known
    /\ \A q \in Request :
        /\ Kept(req[q].row)' => /\ req'[q] = req[q]
                                /\ fetch'[q].tab = fetch[q].tab /\ fetch'[q].kind = fetch[q].kind
        /\ Kept(fetch[q].row)' => fetch'[q] = fetch[q]
        /\ req[q].row # 0 /\ rows[req[q].row].family \notin excused' => req'[q].row = req[q].row
        /\ fetch'[q].kind = "refresh" => fetch'[q].tab = fetch[q].tab /\ fetch[q].kind = "refresh"
    /\ Kept(store)' => store' = store
    /\ Slots'

(* Under RowsKept a kept family has the rows it had.                       *)
LEMMA KeptFamily ==
    ASSUME RowsKept, NEW f, f \notin excused'
    PROVE  /\ f \notin excused
           /\ FamilyRows(f)' = FamilyRows(f)
           /\ \A t \in FamilyRows(f) :
                /\ t \in DOMAIN rows /\ rows'[t].family = f
                /\ rows'[t].revoked <=> rows[t].revoked
<1>1. f \notin excused
  BY DEF RowsKept
<1>2. \A t \in FamilyRows(f) :
        /\ t \in DOMAIN rows /\ t \in DOMAIN rows' /\ rows'[t].family = f
        /\ rows'[t].revoked <=> rows[t].revoked
  BY DEF RowsKept, FamilyRows
<1>3. \A t \in DOMAIN rows' : rows'[t].family = f => t \in FamilyRows(f)
  BY DEF RowsKept, FamilyRows
<1>4. FamilyRows(f)' = FamilyRows(f)
  BY <1>2, <1>3 DEF FamilyRows
<1>5. QED
  BY <1>1, <1>2, <1>4

LEMMA KeptRow ==
    ASSUME RowsKept, NEW s \in DOMAIN rows, Kept(s)'
    PROVE  /\ Kept(s)
           /\ rows'[s].family = rows[s].family
           /\ Alone(s) => Alone(s)'
<1>1. rows'[s].family = rows[s].family /\ rows[s].family \notin excused'
  BY DEF Kept, RowsKept
<1>2. s \in FamilyRows(rows[s].family)
  BY DEF FamilyRows
<1>3. Kept(s)
  BY <1>1, KeptFamily DEF Kept
<1>4. ASSUME Alone(s)
      PROVE  Alone(s)'
  BY <1>1, <1>2, <1>4, KeptFamily DEF Alone
<1>5. QED
  BY <1>1, <1>3, <1>4

LEMMA FewerAt ==
    ASSUME IInv, BInv, OInv, Fewer, NEW q \in Request, NEW f, f \notin excused'
    PROVE  /\ At(q, f)' <=> At(q, f)
           /\ Sent(q, f)' => Sent(q, f)
<1>1. ASSUME At(q, f)'
      PROVE  At(q, f)
  <2>1. Kept(req[q].row)'
    BY <1>1 DEF At, Kept
  <2>2. req'[q] = req[q] /\ req[q].row \in DOMAIN rows
    BY <1>1, <2>1, Named DEF Fewer, At
  <2>3. QED
    BY <1>1, <2>2 DEF At, Fewer, RowsKept
<1>2. ASSUME Sent(q, f)'
      PROVE  Sent(q, f)
  <2>1. Kept(fetch[q].row)'
    BY <1>2 DEF Sent, Kept
  <2>2. fetch'[q] = fetch[q] /\ fetch[q].row \in DOMAIN rows
    BY <1>2, <2>1, Named DEF Fewer, Sent
  <2>3. QED
    BY <1>2, <2>2 DEF Sent, Fewer, RowsKept
<1>3. ASSUME At(q, f)
      PROVE  At(q, f)'
  <2>1. req[q].row \in DOMAIN rows /\ req'[q].row = req[q].row
    BY <1>3, Named DEF At, Fewer
  <2>2. QED
    BY <1>3, <2>1 DEF At, Fewer, RowsKept
<1>4. QED
  BY <1>1, <1>2, <1>3

LEMMA FewerOInv ==
    ASSUME IInv, BInv, OInv, Fewer
    PROVE  OInv'
<1>a. RowsKept
  BY DEF Fewer
<1>1. ASSUME NEW r \in Request
      PROVE  ServedAlone(r)'
  <2> SUFFICES ASSUME Kept(req[r].row)'
               PROVE  /\ fetch'[r].tab \in Tab
                      /\ Granted(r, req[r].row)'
                      /\ \A q \in Request \ {r} : ~At(q, rows[req[r].row].family)'
                                                  /\ ~Sent(q, rows[req[r].row].family)'
    BY DEF ServedAlone
  <2>1. /\ req'[r] = req[r]
        /\ fetch'[r].tab = fetch[r].tab /\ fetch'[r].kind = fetch[r].kind
    BY DEF Fewer
  <2>2. PICK s \in DOMAIN rows : s = req[r].row /\ s = req'[r].row
    BY <2>1, Named DEF Kept
  <2>3. Kept(s)'
    BY <2>2
  <2>4. PICK f : f = rows[s].family /\ f = rows'[s].family
    BY <1>a, <2>3, KeptRow
  <2>5. Kept(s) /\ (Alone(s) => Alone(s)') /\ f \notin excused'
    BY <1>a, <2>3, <2>4, KeptRow DEF Kept
  <2>6. /\ fetch[r].tab \in Tab /\ Granted(r, s)
        /\ \A q \in Request \ {r} : ~At(q, f) /\ ~Sent(q, f)
    BY <2>2, <2>4, <2>5 DEF OInv, ServedAlone
  <2>7. Granted(r, s)'
    <3>1. /\ FamilyRows(rows[s].family)' = FamilyRows(f)
          /\ \A t \in FamilyRows(f) : rows'[t].revoked <=> rows[t].revoked
      BY <1>a, <2>4, <2>5, KeptFamily DEF FamilyRows
    <3>2. known' = known
      BY DEF Fewer
    <3>3. QED
      BY <2>1, <2>4, <2>5, <2>6, <3>1, <3>2 DEF Granted
  <2>8. \A q \in Request \ {r} : ~At(q, f)' /\ ~Sent(q, f)'
    BY <2>5, <2>6, FewerAt
  <2>9. \A q \in Request \ {r} : ~At(q, rows[req[r].row].family)'
                                 /\ ~Sent(q, rows[req[r].row].family)'
    BY <2>2, <2>4, <2>8 DEF At, Sent
  <2>10. QED
    BY <2>1, <2>2, <2>6, <2>7, <2>9
<1>2. ASSUME NEW r \in Request
      PROVE  SentAlone(r)'
  <2> SUFFICES ASSUME Kept(fetch[r].row)'
               PROVE  /\ fetch'[r].tab \in Tab /\ fetch'[r].kind = "refresh"
                      /\ Alone(fetch[r].row)'
                      /\ \A q \in Request : ~At(q, rows[fetch[r].row].family)'
    BY DEF SentAlone
  <2>1. fetch'[r] = fetch[r]
    BY DEF Fewer
  <2>2. PICK s \in DOMAIN rows : s = fetch[r].row /\ s = fetch'[r].row
    BY <2>1, Named DEF Kept
  <2>3. Kept(s)'
    BY <2>2
  <2>4. PICK f : f = rows[s].family /\ f = rows'[s].family
    BY <1>a, <2>3, KeptRow
  <2>5. Kept(s) /\ (Alone(s) => Alone(s)') /\ f \notin excused'
    BY <1>a, <2>3, <2>4, KeptRow DEF Kept
  <2>6. /\ fetch[r].tab \in Tab /\ fetch[r].kind = "refresh" /\ Alone(s)
        /\ \A q \in Request : ~At(q, f)
    BY <2>2, <2>4, <2>5 DEF OInv, SentAlone
  <2>7. \A q \in Request : ~At(q, f)'
    BY <2>5, <2>6, FewerAt
  <2>8. QED
    BY <2>1, <2>2, <2>4, <2>5, <2>6, <2>7 DEF At
<1>3. StoredAlone'
  <2> SUFFICES ASSUME Kept(store)', \A q \in Request : ~At(q, rows[store].family)'
               PROVE  Alone(store)'
    BY DEF StoredAlone
  <2>1. PICK s \in DOMAIN rows : s = store /\ s = store'
    BY Named DEF Fewer, Kept
  <2>2. Kept(s)'
    BY <2>1
  <2>3. PICK f : f = rows[s].family /\ f = rows'[s].family
    BY <1>a, <2>2, KeptRow
  <2>4. Kept(s) /\ (Alone(s) => Alone(s)') /\ f \notin excused'
    BY <1>a, <2>2, <2>3, KeptRow DEF Kept
  <2>5. \A q \in Request : ~At(q, f)'
    BY <2>1, <2>3 DEF At
  <2>6. \A q \in Request : ~At(q, f)
    BY <2>4, <2>5, FewerAt
  <2>7. Alone(s)
    BY <2>1, <2>3, <2>4, <2>6 DEF OInv, StoredAlone
  <2>8. QED
    BY <2>1, <2>4, <2>7
<1>4. OneRefresh'
  BY DEF Fewer, OInv, OneRefresh, Fetches
<1>5. QED
  BY <1>1, <1>2, <1>3, <1>4 DEF OInv, Fewer

-----------------------------------------------------------------------------
(* A step in which request r goes on for a kept family f, on which nobody  *)
(* else works: rows of other families stay as they are.                    *)

Advance(r, f) ==
    /\ excused' = excused /\ known' = known /\ store' = store
    /\ DOMAIN rows \subseteq DOMAIN rows'
    /\ \A t \in DOMAIN rows :
        /\ rows'[t].family = rows[t].family
        /\ rows[t].family # f => (rows'[t].revoked <=> rows[t].revoked)
    /\ \A t \in DOMAIN rows' \ DOMAIN rows : rows'[t].family = f
    /\ \A q \in Request \ {r} :
        /\ req'[q] = req[q] /\ fetch'[q] = fetch[q]
        /\ ~At(q, f) /\ ~Sent(q, f)
    /\ req[r].row # 0 => rows[req[r].row].family = f
    /\ fetch'[r].row = 0
    /\ fetch'[r].kind = "refresh" => fetch'[r].tab = fetch[r].tab /\ fetch[r].kind = "refresh"
    /\ Slots'

(* What r has when it has gone on.                                         *)
Advanced(r, f) ==
    /\ req'[r].row \in DOMAIN rows'
    /\ req'[r].row # 0
    /\ rows'[req'[r].row].family = f
    /\ fetch'[r].tab \in Tab
    /\ Granted(r, req[r].row)'

LEMMA OtherFamily ==
    ASSUME NEW r \in Request, NEW f, Advance(r, f), NEW g, g # f
    PROVE  /\ FamilyRows(g)' = FamilyRows(g)
           /\ \A t \in FamilyRows(g) :
                /\ t \in DOMAIN rows /\ rows'[t].family = g
                /\ rows'[t].revoked <=> rows[t].revoked
<1>1. \A t \in FamilyRows(g) :
        /\ t \in DOMAIN rows /\ t \in DOMAIN rows' /\ rows'[t].family = g
        /\ rows'[t].revoked <=> rows[t].revoked
  BY DEF Advance, FamilyRows
<1>2. \A t \in DOMAIN rows' : rows'[t].family = g => t \in FamilyRows(g)
  BY DEF Advance, FamilyRows
<1>3. QED
  BY <1>1, <1>2 DEF FamilyRows

LEMMA AdvanceAt ==
    ASSUME IInv, BInv, OInv, NEW r \in Request, NEW f, Advance(r, f), Advanced(r, f),
           NEW g, g # f, NEW q \in Request
    PROVE  /\ At(q, g)' <=> At(q, g)
           /\ Sent(q, g)' => Sent(q, g)
<1>1. CASE q = r
  BY <1>1 DEF Advance, Advanced, At, Sent
<1>2. CASE q # r
  <2>1. req'[q] = req[q] /\ fetch'[q] = fetch[q]
    BY <1>2 DEF Advance
  <2>2. /\ req[q].row # 0 => rows'[req[q].row].family = rows[req[q].row].family
        /\ fetch[q].row # 0 => rows'[fetch[q].row].family = rows[fetch[q].row].family
    BY Named DEF Advance
  <2>3. QED
    BY <2>1, <2>2 DEF At, Sent
<1>3. QED
  BY <1>1, <1>2

(* In a family other than f what was alone is alone.                       *)
LEMMA OtherAlone ==
    ASSUME NEW r \in Request, NEW f, Advance(r, f),
           NEW s \in DOMAIN rows, rows[s].family # f, Kept(s)'
    PROVE  /\ Kept(s) /\ rows'[s].family = rows[s].family
           /\ Alone(s) => Alone(s)'
<1>1. rows'[s].family = rows[s].family /\ Kept(s)
  BY DEF Advance, Kept
<1>2. s \in FamilyRows(rows[s].family)
  BY DEF FamilyRows
<1>3. QED
  BY <1>1, <1>2, OtherFamily DEF Alone

LEMMA AdvanceOInv ==
    ASSUME IInv, BInv, OInv, NEW r \in Request, NEW f, Advance(r, f), Advanced(r, f)
    PROVE  OInv'
<1>f. /\ \A q \in Request \ {r} : ~At(q, f)' /\ ~Sent(q, f)'
      /\ ~Sent(r, f)'
      /\ At(r, f)'
  <2>1. ASSUME NEW q \in Request \ {r}
        PROVE  ~At(q, f)' /\ ~Sent(q, f)'
    <3>1. /\ req'[q] = req[q] /\ fetch'[q] = fetch[q]
          /\ ~At(q, f) /\ ~Sent(q, f)
      BY DEF Advance
    <3>2. /\ req[q].row # 0 => rows'[req[q].row].family = rows[req[q].row].family
          /\ fetch[q].row # 0 => rows'[fetch[q].row].family = rows[fetch[q].row].family
      BY Named DEF Advance
    <3>3. QED
      BY <3>1, <3>2 DEF At, Sent
  <2>2. QED
    BY <2>1 DEF Advance, Advanced, At, Sent
<1>1. ServedAlone(r)'
  BY <1>f DEF ServedAlone, Advanced, At, Sent
<1>2. ASSUME NEW q \in Request, q # r
      PROVE  ServedAlone(q)'
  <2> SUFFICES ASSUME Kept(req[q].row)'
               PROVE  /\ fetch'[q].tab \in Tab
                      /\ Granted(q, req[q].row)'
                      /\ \A p \in Request \ {q} : ~At(p, rows[req[q].row].family)'
                                                  /\ ~Sent(p, rows[req[q].row].family)'
    BY DEF ServedAlone
  <2>1. req'[q] = req[q] /\ fetch'[q] = fetch[q] /\ ~At(q, f)
    BY <1>2 DEF Advance
  <2>2. PICK s \in DOMAIN rows : s = req[q].row /\ s = req'[q].row
    BY <2>1, Named DEF Kept
  <2>3. rows[s].family # f /\ Kept(s)'
    BY <2>1, <2>2 DEF At, Kept
  <2>4. PICK g : g = rows[s].family /\ g = rows'[s].family
    BY <2>3, OtherAlone
  <2>5. Kept(s) /\ (Alone(s) => Alone(s)') /\ g # f
    BY <2>3, <2>4, OtherAlone
  <2>6. /\ fetch[q].tab \in Tab /\ Granted(q, s)
        /\ \A p \in Request \ {q} : ~At(p, g) /\ ~Sent(p, g)
    BY <2>2, <2>4, <2>5 DEF OInv, ServedAlone
  <2>7. Granted(q, s)'
    <3>1. /\ FamilyRows(rows[s].family)' = FamilyRows(g)
          /\ \A t \in FamilyRows(g) : rows'[t].revoked <=> rows[t].revoked
      BY <2>4, <2>5, OtherFamily DEF FamilyRows
    <3>2. known' = known
      BY DEF Advance
    <3>3. QED
      BY <2>1, <2>4, <2>5, <2>6, <3>1, <3>2 DEF Granted
  <2>8. \A p \in Request \ {q} : ~At(p, g)' /\ ~Sent(p, g)'
    BY <2>5, <2>6, AdvanceAt
  <2>9. \A p \in Request \ {q} : ~At(p, rows[req[q].row].family)'
                                 /\ ~Sent(p, rows[req[q].row].family)'
    BY <2>2, <2>4, <2>8 DEF At, Sent
  <2>10. QED
    BY <2>1, <2>2, <2>6, <2>7, <2>9
<1>3. ASSUME NEW q \in Request
      PROVE  SentAlone(q)'
  <2> SUFFICES ASSUME Kept(fetch[q].row)'
               PROVE  /\ fetch'[q].tab \in Tab /\ fetch'[q].kind = "refresh"
                      /\ Alone(fetch[q].row)'
                      /\ \A p \in Request : ~At(p, rows[fetch[q].row].family)'
    BY DEF SentAlone
  <2>1. q # r /\ fetch'[q] = fetch[q] /\ ~Sent(q, f)
    BY DEF Advance, Kept
  <2>2. PICK s \in DOMAIN rows : s = fetch[q].row /\ s = fetch'[q].row
    BY <2>1, Named DEF Kept
  <2>3. rows[s].family # f /\ Kept(s)'
    BY <2>1, <2>2 DEF Sent, Kept
  <2>4. PICK g : g = rows[s].family /\ g = rows'[s].family
    BY <2>3, OtherAlone
  <2>5. Kept(s) /\ (Alone(s) => Alone(s)') /\ g # f
    BY <2>3, <2>4, OtherAlone
  <2>6. /\ fetch[q].tab \in Tab /\ fetch[q].kind = "refresh" /\ Alone(s)
        /\ \A p \in Request : ~At(p, g)
    BY <2>2, <2>4, <2>5 DEF OInv, SentAlone
  <2>7. \A p \in Request : ~At(p, g)'
    BY <2>5, <2>6, AdvanceAt
  <2>8. QED
    BY <2>1, <2>2, <2>4, <2>5, <2>6, <2>7 DEF At
<1>4. StoredAlone'
  <2> SUFFICES ASSUME Kept(store)', \A q \in Request : ~At(q, rows[store].family)'
               PROVE  Alone(store)'
    BY DEF StoredAlone
  <2>1. PICK s \in DOMAIN rows : s = store /\ s = store'
    BY Named DEF Advance, Kept
  <2>2. rows'[s].family # f
    BY <1>f, <2>1 DEF At
  <2>3. rows[s].family # f /\ Kept(s)'
    BY <2>1, <2>2 DEF Advance
  <2>4. PICK g : g = rows[s].family /\ g = rows'[s].family
    BY <2>3, OtherAlone
  <2>5. Kept(s) /\ (Alone(s) => Alone(s)') /\ g # f
    BY <2>3, <2>4, OtherAlone
  <2>6. \A q \in Request : ~At(q, g)'
    BY <2>1, <2>4 DEF At
  <2>7. \A q \in Request : ~At(q, g)
    BY <2>5, <2>6, AdvanceAt
  <2>8. Alone(s)
    BY <2>1, <2>4, <2>5, <2>7 DEF OInv, StoredAlone
  <2>9. QED
    BY <2>1, <2>5, <2>8
<1>5. OneRefresh'
  <2>1. \A q \in Request : fetch'[q].kind = "refresh" =>
            fetch'[q].tab = fetch[q].tab /\ fetch[q].kind = "refresh"
    BY DEF Advance
  <2>2. QED
    BY <2>1 DEF OInv, OneRefresh, Fetches
<1>6. QED
  BY <1>1, <1>2, <1>3, <1>4, <1>5 DEF OInv, Advance

-----------------------------------------------------------------------------
(* A pair arrives, and a refresh is sent.                                  *)

LEMMA DeliveredOInv ==
    ASSUME IInv, BInv, OInv, NEW r \in Request, Respond(r), Settled(r),
           store' = req[r].row, excused' = excused
    PROVE  OInv'
<1>1. PICK s \in DOMAIN rows : s = req[r].row /\ s # 0 /\ s = store'
  BY Named DEF Respond, IInv, RequestsConsistent, Consistent
<1>2. /\ req[r].pc = "respond" /\ rows' = rows /\ known' = known \cup {s}
      /\ req' = [req EXCEPT ![r] = Idle] /\ fetch' = [fetch EXCEPT ![r] = Nobody]
      /\ req \in [Request -> ReqState] /\ fetch \in [Request -> Fetch]
  BY <1>1 DEF Respond, Finish, Settled, IInv, TypeOK, BInv
<1>3. /\ \A x : Kept(x)' <=> Kept(x)
      /\ \A x \in DOMAIN rows : Alone(x)' <=> Alone(x)
      /\ \A f : FamilyRows(f)' = FamilyRows(f)
  BY <1>2 DEF Kept, Alone, FamilyRows
<1>4. /\ req'[r].row = 0 /\ req'[r].pc = "idle" /\ fetch'[r].row = 0 /\ fetch'[r].kind = "none"
      /\ \A q \in Request : q # r => req'[q] = req[q] /\ fetch'[q] = fetch[q]
  BY <1>2 DEF Idle, Nobody
<1>5. \A q \in Request : \A f : (At(q, f)' => At(q, f)) /\ (Sent(q, f)' => Sent(q, f))
  BY <1>2, <1>4 DEF At, Sent
<1>6. ASSUME NEW q \in Request
      PROVE  ServedAlone(q)'
  <2> SUFFICES ASSUME q # r, Kept(req'[q].row)
               PROVE  /\ fetch'[q].tab \in Tab
                      /\ Granted(q, req[q].row)'
                      /\ \A p \in Request \ {q} : ~At(p, rows[req[q].row].family)'
                                                  /\ ~Sent(p, rows[req[q].row].family)'
    BY <1>2, <1>4 DEF ServedAlone, Kept
  <2>1. req'[q] = req[q] /\ fetch'[q] = fetch[q] /\ req[q].row \in DOMAIN rows
    BY <1>4, Named DEF Kept
  <2>2. /\ fetch[q].tab \in Tab /\ Granted(q, req[q].row)
        /\ \A p \in Request \ {q} : ~At(p, rows[req[q].row].family)
                                    /\ ~Sent(p, rows[req[q].row].family)
    BY <2>1 DEF OInv, ServedAlone
  <2>3. req[q].row # s
    BY <1>1, <2>2 DEF At
  <2>4. Granted(q, req[q].row)'
    BY <1>2, <1>3, <2>1, <2>2, <2>3 DEF Granted
  <2>5. QED
    BY <1>2, <1>5, <2>1, <2>2, <2>4 DEF At, Sent
<1>7. ASSUME NEW q \in Request
      PROVE  SentAlone(q)'
  <2> SUFFICES ASSUME q # r, Kept(fetch'[q].row)
               PROVE  /\ fetch'[q].tab \in Tab /\ fetch'[q].kind = "refresh"
                      /\ Alone(fetch[q].row)'
                      /\ \A p \in Request : ~At(p, rows[fetch[q].row].family)'
    BY <1>2, <1>4 DEF SentAlone, Kept
  <2>1. fetch'[q] = fetch[q] /\ fetch[q].row \in DOMAIN rows
    BY <1>4, Named DEF Kept
  <2>2. /\ fetch[q].tab \in Tab /\ fetch[q].kind = "refresh" /\ Alone(fetch[q].row)
        /\ \A p \in Request : ~At(p, rows[fetch[q].row].family)
    BY <2>1 DEF OInv, SentAlone
  <2>3. Alone(fetch[q].row)'
    BY <1>2, <2>1, <2>2 DEF Alone, FamilyRows
  <2>4. QED
    BY <1>2, <1>5, <2>1, <2>2, <2>3 DEF At
<1>8. StoredAlone'
  <2> SUFFICES ASSUME Kept(s)
               PROVE  Alone(s)'
    BY <1>1, <1>2 DEF StoredAlone, Kept, Alone, FamilyRows
  <2>1. Granted(r, s)
    BY <1>1 DEF OInv, ServedAlone
  <2>2. QED
    BY <1>2, <1>3, <2>1 DEF Granted
<1>9. OneRefresh' /\ Slots'
  BY <1>4 DEF OInv, OneRefresh, Slots, Fetches
<1>10. QED
  BY <1>6, <1>7, <1>8, <1>9 DEF OInv

(* Without a refresh in flight, the one tab's token is the family's last.  *)
LEMMA StoredIsAlone ==
    ASSUME IInv, BInv, OInv, NEW t \in Tab, Tab = {t}, ~Refreshing(t), Kept(store)
    PROVE  Alone(store) /\ \A q \in Request : ~At(q, rows[store].family)
<1>1. ASSUME NEW q \in Request, At(q, rows[store].family)
      PROVE  FALSE
  <2>1. Kept(req[q].row) /\ rows[req[q].row].family = rows[store].family
    BY <1>1 DEF Kept, At
  <2>2. fetch[q].tab = t /\ Granted(q, req[q].row)
    BY <2>1 DEF OInv, ServedAlone
  <2>3. fetch[q].kind # "refresh"
    BY <2>2 DEF Refreshing, Fetches
  <2>4. FamilyRows(rows[store].family) = {req[q].row} /\ req[q].row \notin known
    BY <2>1, <2>2, <2>3 DEF Granted
  <2>5. store \in known /\ store \in DOMAIN rows
    BY Named DEF Kept
  <2>6. QED
    BY <2>4, <2>5 DEF FamilyRows
<1>2. QED
  BY <1>1 DEF OInv, StoredAlone

LEMMA StartOInv ==
    ASSUME IInv, BInv, OInv, NEW t \in Tab, Tab = {t}, NEW c \in Call, NEW r \in Request,
           StartRefresh(t, c, r)
    PROVE  OInv'
<1>1. /\ ~Refreshing(t) /\ store # 0 /\ fetch[r] = Nobody /\ req[r].pc = "idle"
      /\ fetch' = [fetch EXCEPT ![r] = [tab |-> t, kind |-> "refresh", row |-> store]]
      /\ rows' = rows /\ req' = req /\ known' = known /\ store' = store /\ excused' = excused
      /\ fetch \in [Request -> Fetch] /\ store \in DOMAIN rows
  BY Named DEF StartRefresh, Free, Send, vars, BInv
<1>2. /\ \A x : Kept(x)' <=> Kept(x)
      /\ \A x \in DOMAIN rows : Alone(x) => Alone(x)'
      /\ \A q \in Request : \A f : At(q, f)' <=> At(q, f)
      /\ \A q \in Request : \A f : q # r => (Sent(q, f)' <=> Sent(q, f))
      /\ \A f : Sent(r, f)' => f = rows[store].family
  BY <1>1 DEF Kept, Alone, FamilyRows, At, Sent
<1>3. req[r].row = 0 /\ \A q \in Request : q # r => fetch'[q] = fetch[q]
  BY <1>1 DEF OInv, Slots
<1>4. ASSUME NEW q \in Request
      PROVE  ServedAlone(q)'
  <2> SUFFICES ASSUME Kept(req[q].row), q # r
               PROVE  /\ fetch'[q].tab \in Tab
                      /\ Granted(q, req[q].row)'
                      /\ \A p \in Request \ {q} : ~At(p, rows[req[q].row].family)'
                                                  /\ ~Sent(p, rows[req[q].row].family)'
    BY <1>1, <1>3 DEF ServedAlone, Kept
  <2>1. /\ fetch[q].tab \in Tab /\ Granted(q, req[q].row)
        /\ \A p \in Request \ {q} : ~At(p, rows[req[q].row].family)
                                    /\ ~Sent(p, rows[req[q].row].family)
    BY DEF OInv, ServedAlone
  <2>2. fetch'[q] = fetch[q]
    BY <1>3
  <2>3. Granted(q, req[q].row)'
    BY <1>1, <2>1, <2>2 DEF Granted, Alone, FamilyRows
  <2>4. rows[req[q].row].family # rows[store].family
    <3> SUFFICES ASSUME rows[req[q].row].family = rows[store].family
                 PROVE  FALSE
      OBVIOUS
    <3>1. Kept(store) /\ At(q, rows[store].family)
      BY <1>1 DEF Kept, At
    <3>2. QED
      BY <1>1, <3>1, StoredIsAlone
  <2>5. QED
    BY <1>1, <1>2, <2>1, <2>2, <2>3, <2>4 DEF At, Sent
<1>5. ASSUME NEW q \in Request
      PROVE  SentAlone(q)'
  <2>1. CASE q = r
    <3>1. fetch'[r].row = store /\ fetch'[r].tab = t /\ fetch'[r].kind = "refresh"
      BY <1>1
    <3>2. ASSUME Kept(store)
          PROVE  Alone(store)' /\ \A p \in Request : ~At(p, rows[store].family)'
      BY <1>1, <1>2, <3>2, StoredIsAlone
    <3>3. QED
      BY <1>1, <2>1, <3>1, <3>2 DEF SentAlone, Kept, Alone, At, FamilyRows
  <2>2. CASE q # r
    <3>1. fetch'[q] = fetch[q] /\ SentAlone(q)
      BY <1>3, <2>2 DEF OInv
    <3>2. QED
      BY <1>1, <3>1 DEF SentAlone, Kept, Alone, At, FamilyRows
  <2>3. QED
    BY <2>1, <2>2
<1>6. StoredAlone'
  BY <1>1 DEF OInv, StoredAlone, Kept, Alone, At, FamilyRows
<1>7. OneRefresh'
  <2>1. \A q \in Request : Fetches(q, t, "refresh")' => q = r
    BY <1>1, <1>3 DEF Refreshing, Fetches
  <2>2. QED
    BY <2>1 DEF OneRefresh, Fetches
<1>8. Slots'
  BY <1>1, <1>3 DEF OInv, Slots
<1>9. QED
  BY <1>4, <1>5, <1>6, <1>7, <1>8 DEF OInv

-----------------------------------------------------------------------------
(* A request of the server that works for no kept family moves on.         *)

Elsewhere(r) ==
    /\ RowsKept
    /\ known' = known /\ store' = store
    /\ \A q \in Request \ {r} : req'[q] = req[q] /\ fetch'[q] = fetch[q]
    /\ req[r].row # 0 => rows[req[r].row].family \in excused'
    /\ ~Kept(req[r].row)'
    /\ Kept(fetch[r].row)' => fetch'[r] = fetch[r]
    /\ fetch'[r].kind = "refresh" => fetch'[r].tab = fetch[r].tab /\ fetch[r].kind = "refresh"
    /\ req'[r].pc \in {"idle", "register"} => req'[r].row = 0
    /\ fetch'[r].row # 0 => req'[r].pc = "idle"

LEMMA ElsewhereOInv ==
    ASSUME IInv, BInv, OInv, NEW r \in Request, Elsewhere(r)
    PROVE  OInv'
<1>1. \A q \in Request \ {r} :
        /\ req'[q] = req[q] /\ fetch'[q] = fetch[q]
        /\ req[q].pc \in {"idle", "register"} => req[q].row = 0
        /\ fetch[q].row # 0 => req[q].pc = "idle"
  BY DEF Elsewhere, OInv, Slots
<1>2. Slots'
  BY <1>1 DEF Elsewhere, Slots
<1>3. Fewer
  BY <1>1, <1>2 DEF Elsewhere, Fewer
<1>4. QED
  BY <1>3, FewerOInv

(* A login inserts the first row of a family.                              *)
LEMMA SignInOInv ==
    ASSUME IInv, BInv, OInv, NEW t \in Tab, NEW r \in Request, NEW u \in User,
           NEW f \in Family, SignIn(t, r, u, f)
    PROVE  OInv'
<1>0. PICK s : s = Len(rows) + 1
  OBVIOUS
<1>1. /\ Login(r, u, f) /\ store = 0 /\ req[r].pc = "idle"
      /\ fetch' = [fetch EXCEPT ![r] = [tab |-> t, kind |-> "login", row |-> 0]]
      /\ UNCHANGED <<store, excused>>
  BY DEF SignIn, Free, Send
<1>2. /\ rows' = Append(rows, [user |-> u, family |-> f, revoked |-> FALSE, parent |-> 0])
      /\ Fresh(f) /\ known' = known
      /\ Begin(r, "login_audit", s, NoUser)
  BY <1>0, <1>1 DEF Login, Insert
<1>3. /\ \A q \in Request \ {r} : req'[q] = req[q] /\ fetch'[q] = fetch[q]
      /\ req'[r].pc = "login_audit" /\ req'[r].row = s
      /\ fetch'[r] = [tab |-> t, kind |-> "login", row |-> 0]
      /\ req[r].row = 0
  BY <1>0, <1>1, <1>2, Named, Moves DEF PC, BInv, OInv, Slots
<1>4. /\ Len(rows) \in Nat /\ DOMAIN rows = 1..Len(rows) /\ DOMAIN rows' = 1..s
      /\ rows'[s].family = f /\ ~rows'[s].revoked
      /\ \A x \in DOMAIN rows : rows'[x] = rows[x] /\ rows[x].family # f
      /\ \A x \in DOMAIN rows' : x \in DOMAIN rows \/ x = s
      /\ s \notin DOMAIN rows /\ s \in DOMAIN rows' /\ s # 0
  BY <1>0, <1>2, Named DEF Fresh, FamilyRows
<1>5. Slots'
  BY <1>3, <1>4 DEF Slots, OInv
<1>6. CASE f \in excused
  <2>1. RowsKept
    BY <1>1, <1>4, <1>6 DEF RowsKept
  <2>2. ~Kept(req[r].row)'
    BY <1>1, <1>3, <1>4, <1>6 DEF Kept
  <2>3. Elsewhere(r)
    BY <1>1, <1>2, <1>3, <1>4, <2>1, <2>2 DEF Elsewhere, Kept
  <2>4. QED
    BY <2>3, ElsewhereOInv
<1>7. CASE f \notin excused
  <2>1. \A q \in Request : ~At(q, f) /\ ~Sent(q, f)
    BY <1>4, Named DEF At, Sent
  <2>2. Advance(r, f)
    BY <1>1, <1>2, <1>3, <1>4, <1>5, <2>1 DEF Advance
  <2>3. FamilyRows(f)' = {s}
    BY <1>4 DEF FamilyRows
  <2>4. Alone(s)'
    BY <1>4, <2>3 DEF Alone
  <2>5. s \notin known'
    BY <1>2, <1>4, Named
  <2>6. Granted(r, s)'
    BY <1>3, <1>4, <2>3, <2>4, <2>5 DEF Granted
  <2>7. Granted(r, req[r].row)'
    BY <1>3, <2>6 DEF Granted
  <2>8. Advanced(r, f)
    BY <1>3, <1>4, <2>7 DEF Advanced
  <2>9. QED
    BY <2>2, <2>8, AdvanceOInv
<1>8. QED
  BY <1>6, <1>7

-----------------------------------------------------------------------------
(* The steps of a tab.                                                     *)

LEMMA ClientOInv ==
    ASSUME IInv, BInv, OInv, UNCHANGED vars, excused \subseteq excused',
           Kept(store)' => store' = store,
           \A q \in Request :
                /\ req[q].row # 0 /\ rows[req[q].row].family \notin excused' =>
                        fetch'[q].tab = fetch[q].tab /\ fetch'[q].kind = fetch[q].kind
                /\ Kept(fetch[q].row)' => fetch'[q] = fetch[q]
                /\ fetch'[q].kind = "refresh" =>
                        fetch'[q].tab = fetch[q].tab /\ fetch[q].kind = "refresh"
                /\ fetch'[q].row # 0 => req[q].pc = "idle"
    PROVE  OInv'
<1>1. rows' = rows /\ req' = req /\ known' = known
  BY DEF vars
<1>2. RowsKept /\ Slots'
  BY <1>1 DEF RowsKept, OInv, Slots
<1>3. \A q \in Request : Kept(req[q].row)' =>
            req[q].row # 0 /\ rows[req[q].row].family \notin excused'
  BY <1>1 DEF Kept
<1>4. Fewer
  BY <1>1, <1>2, <1>3 DEF Fewer
<1>5. QED
  BY <1>4, FewerOInv

(* A fetch of r is given up.                                               *)
LEMMA OrphanExcused ==
    ASSUME BInv, OInv, NEW r \in Request, UNCHANGED vars,
           fetch'[r] = Orphaned(fetch[r]), Carried(r) \subseteq excused'
    PROVE  /\ ~(req[r].row # 0 /\ rows[req[r].row].family \notin excused')
           /\ ~Kept(fetch[r].row)'
           /\ fetch'[r].kind # "refresh"
           /\ fetch'[r].row # 0 => req[r].pc = "idle"
<1>1. fetch'[r].row = fetch[r].row /\ fetch'[r].kind # "refresh"
  BY OrphanedFetch DEF BInv
<1>2. fetch[r].row # 0 => req[r].pc = "idle" /\ req[r].row = 0
  BY DEF OInv, Slots
<1>3. rows' = rows
  BY DEF vars
<1>4. QED
  BY <1>1, <1>2, <1>3 DEF Carried, Kept

LEMMA TabStepOInv ==
    ASSUME IInv, BInv, OInv, NEW t \in Tab, Tab = {t}, TabStep(t)
    PROVE  OInv'
<1>a. /\ fetch \in [Request -> Fetch]
      /\ \A q \in Request : req[q].pc = "idle" => req[q].row = 0
      /\ \A q \in Request : fetch[q].row # 0 => req[q].pc = "idle"
  BY DEF BInv, OInv, Slots
<1>1. CASE LoadFails(t)
  <2>1. UNCHANGED <<vars, fetch, excused>> /\ store' = 0
    BY <1>1 DEF LoadFails
  <2>2. QED
    BY <1>a, <2>1, ClientOInv DEF Kept
<1>2. CASE Reload(t)
  <2>1. /\ UNCHANGED <<vars, store>>
        /\ fetch' = [r \in Request |-> IF fetch[r].tab = t THEN Orphaned(fetch[r]) ELSE fetch[r]]
        /\ excused' = excused \cup UNION {Carried(r) : r \in {q \in Request : fetch[q].tab = t}}
    BY <1>2 DEF Reload
  <2>2. ASSUME NEW q \in Request, fetch[q].tab = t
        PROVE  /\ ~(req[q].row # 0 /\ rows[req[q].row].family \notin excused')
               /\ ~Kept(fetch[q].row)'
               /\ fetch'[q].kind # "refresh"
               /\ fetch'[q].row # 0 => req[q].pc = "idle"
    <3>1. Carried(q) \subseteq excused' /\ fetch'[q] = Orphaned(fetch[q])
      BY <2>1, <2>2
    <3>2. QED
      BY <2>1, <3>1, OrphanExcused
  <2>3. \A q \in Request : fetch[q].tab # t => fetch'[q] = fetch[q]
    BY <2>1
  <2>4. QED
    BY <1>a, <2>1, <2>2, <2>3, ClientOInv
<1>3. ASSUME NEW c \in Call, JoinRefresh(t, c)
      PROVE  OInv'
  <2>1. UNCHANGED <<vars, store, fetch, excused>>
    BY <1>3 DEF JoinRefresh
  <2>2. QED
    BY <1>a, <2>1, ClientOInv
<1>4. ASSUME NEW c \in Call, NEW r \in Request, StartRefresh(t, c, r)
      PROVE  OInv'
  BY <1>4, StartOInv
<1>5. ASSUME NEW r \in Request, Settle(t, r)
      PROVE  OInv'
  <2>1. CASE Refreshed(t, r)
    BY <2>1, DeliveredOInv DEF Refreshed
  <2>2. CASE RefreshRefused(t, r)
    <3>1. /\ UNCHANGED <<vars, excused>> /\ store' = 0 /\ req[r].pc = "idle"
          /\ fetch' = [fetch EXCEPT ![r] = Nobody]
      BY <2>2 DEF RefreshRefused, Failed, Settled
    <3>2. fetch'[r].kind = "none" /\ fetch'[r].row = 0 /\ req[r].row = 0
      BY <1>a, <3>1 DEF Nobody
    <3>3. \A q \in Request : q # r => fetch'[q] = fetch[q]
      BY <1>a, <3>1
    <3>4. QED
      BY <1>a, <3>1, <3>2, <3>3, ClientOInv DEF Kept
  <2>3. CASE RefreshLost(t, r)
    <3>1. /\ UNCHANGED vars /\ store' \in {0, store}
          /\ fetch' = [fetch EXCEPT ![r] = Orphaned(@)]
          /\ excused' = excused \cup Carried(r)
      BY <2>3 DEF RefreshLost
    <3>2. /\ ~(req[r].row # 0 /\ rows[req[r].row].family \notin excused')
          /\ ~Kept(fetch[r].row)'
          /\ fetch'[r].kind # "refresh"
          /\ fetch'[r].row # 0 => req[r].pc = "idle"
      BY <1>a, <3>1, OrphanExcused
    <3>3. \A q \in Request : q # r => fetch'[q] = fetch[q]
      BY <1>a, <3>1
    <3>4. QED
      BY <1>a, <3>1, <3>2, <3>3, ClientOInv DEF Kept
  <2>4. QED
    BY <1>5, <2>1, <2>2, <2>3 DEF Settle
<1>6. ASSUME NEW r \in Request, SignedIn(t, r)
      PROVE  OInv'
  BY <1>6, DeliveredOInv DEF SignedIn
<1>7. ASSUME NEW r \in Request, LoginFailed(t, r)
      PROVE  OInv'
  <2>1. /\ UNCHANGED <<vars, store, excused>> /\ req[r].pc = "idle"
        /\ fetch' = [fetch EXCEPT ![r] = Nobody]
    BY <1>7 DEF LoginFailed, Failed, Settled
  <2>2. fetch'[r].kind = "none" /\ fetch'[r].row = 0 /\ req[r].row = 0
    BY <1>a, <2>1 DEF Nobody
  <2>3. \A q \in Request : q # r => fetch'[q] = fetch[q]
    BY <1>a, <2>1
  <2>4. QED
    BY <1>a, <2>1, <2>2, <2>3, ClientOInv DEF Kept
<1>8. ASSUME NEW r \in Request, SignOut(t, r)
      PROVE  OInv'
  <2>1. /\ Begin(r, "logout", store, NoUser) /\ req[r].pc = "idle" /\ store # 0
        /\ fetch' = [fetch EXCEPT ![r] = [tab |-> t, kind |-> "logout", row |-> 0]]
        /\ excused' = excused \cup {rows[store].family}
        /\ rows' = rows /\ known' = known /\ store' = store
    BY <1>8 DEF SignOut, LogoutLookup, Free, Send
  <2>2. /\ fetch'[r].kind = "logout" /\ fetch'[r].row = 0 /\ req[r].row = 0
        /\ \A q \in Request \ {r} : fetch'[q] = fetch[q]
    BY <1>a, <2>1
  <2>3. /\ \A q \in Request \ {r} : req'[q] = req[q]
        /\ req'[r].pc = "logout" /\ req'[r].row = store
    BY <2>1, Named, Moves DEF PC
  <2>4. RowsKept /\ ~Kept(store)'
    BY <2>1 DEF RowsKept, Kept
  <2>5. Elsewhere(r)
    BY <2>1, <2>2, <2>3, <2>4 DEF Elsewhere, Kept
  <2>6. QED
    BY <2>5, ElsewhereOInv
<1>9. ASSUME NEW r \in Request, SignedOut(t, r)
      PROVE  OInv'
  <2>1. /\ UNCHANGED <<vars, excused>> /\ store' = 0 /\ fetch[r].kind = "logout"
        /\ fetch' = [fetch EXCEPT ![r] = Orphaned(@)]
    BY <1>9 DEF SignedOut, Fetches
  <2>2. ~Kept(req[r].row) /\ ~Kept(fetch[r].row)
    BY <2>1 DEF OInv, ServedAlone, SentAlone, Granted
  <2>3. /\ fetch'[r].kind # "refresh" /\ fetch'[r].row = fetch[r].row
        /\ \A q \in Request : q # r => fetch'[q] = fetch[q]
    BY <1>a, <2>1, OrphanedFetch
  <2>4. rows' = rows /\ excused' = excused
    BY <2>1 DEF vars
  <2>5. ~(req[r].row # 0 /\ rows[req[r].row].family \notin excused') /\ ~Kept(fetch[r].row)'
    BY <2>2, <2>3, <2>4 DEF Kept
  <2>6. QED
    BY <1>a, <2>1, <2>3, <2>5, ClientOInv DEF Kept

<1>10. ASSUME NEW r \in Request, NEW u \in User, NEW f \in Family, SignIn(t, r, u, f)
       PROVE  OInv'
  BY <1>10, SignInOInv
<1>11. QED
  BY <1>1, <1>2, <1>3, <1>4, <1>5, <1>6, <1>7, <1>8, <1>9, <1>10 DEF TabStep

-----------------------------------------------------------------------------
(* The steps of the server.                                                *)

(* Only those four work for a kept family.                                 *)
LEMMA NotGranted ==
    ASSUME OInv, NEW r \in Request,
           \/ req[r].pc \notin {"rotate", "issue", "respond", "login_audit"}
           \/ fetch[r].kind \notin {"refresh", "login"},
           req[r].row # 0
    PROVE  rows[req[r].row].family \in excused
BY DEF OInv, ServedAlone, Granted, Kept

(* Closing a family writes no row of another one.                          *)
LEMMA RevokeKept ==
    ASSUME IInv, NEW f \in excused, rows' = RevokeFamily(f), excused' = excused
    PROVE  RowsKept
<1>1. rows \in Seq(Row)
  BY DEF IInv, TypeOK
<1>2. /\ DOMAIN rows = 1..Len(rows) /\ DOMAIN rows' = 1..Len(rows)
      /\ \A s \in DOMAIN rows :
            /\ rows'[s].family = rows[s].family
            /\ rows'[s].revoked <=> (rows[s].revoked \/ rows[s].family = f)
  BY <1>1, RevokeWholeFamily
<1>3. QED
  BY <1>2 DEF RowsKept

(* The answer or the end of a request that works for no kept family.       *)
LEMMA EndOInv ==
    ASSUME IInv, BInv, OInv, NEW r \in Request, RowsKept, known' = known,
           store' = store, fetch' = fetch, Finish(r),
           req[r].row # 0 => rows[req[r].row].family \in excused'
    PROVE  OInv'
<1>1. /\ \A q \in Request \ {r} : req'[q] = req[q]
      /\ req'[r].pc = "idle" /\ req'[r].row = 0
  BY Moves DEF Finish, Idle, IInv, TypeOK
<1>2. Elsewhere(r)
  BY <1>1 DEF Elsewhere, Kept
<1>3. QED
  BY <1>2, ElsewhereOInv

(* An idle slot takes up a request.                                        *)
LEMMA BeginOInv ==
    ASSUME IInv, BInv, OInv, NEW r \in Request, NEW pc \in PC \ {"idle"}, NEW s \in Nat,
           NEW u \in User \cup {NoUser}, Begin(r, pc, s, u), req[r].pc = "idle",
           rows' = rows, known' = known, store' = store, excused \subseteq excused',
           pc = "register" => s = 0,
           s # 0 => rows[s].family \in excused',
           \A q \in Request \ {r} : fetch'[q] = fetch[q],
           fetch'[r].kind = "refresh" => fetch[r].kind = "refresh",
           fetch'[r].tab = fetch[r].tab, fetch'[r].row = 0
    PROVE  OInv'
<1>1. /\ \A q \in Request \ {r} : req'[q] = req[q]
      /\ req'[r].pc = pc /\ req'[r].row = s
  BY Moves
<1>2. req[r].row = 0 /\ RowsKept
  BY DEF OInv, Slots, RowsKept
<1>3. Elsewhere(r)
  BY <1>1, <1>2 DEF Elsewhere, Kept
<1>4. QED
  BY <1>3, ElsewhereOInv

LEMMA ServeOInv ==
    ASSUME IInv, BInv, OInv, NEW r \in Request, Serve(r)
    PROVE  OInv'
<1>1. /\ fetch[r].row # 0
      /\ store' = store /\ excused' = excused /\ req[r].pc = "idle" /\ req[r].row = 0
  BY DEF Serve, OInv, Slots
<1>2. /\ fetch'[r].row = 0 /\ fetch'[r].tab = fetch[r].tab
      /\ fetch'[r].kind = fetch[r].kind
      /\ \A q \in Request \ {r} : fetch'[q] = fetch[q]
  BY ServedFetch
<1>3. PICK s : s = fetch[r].row /\ s \in DOMAIN rows /\ s \in Nat /\ s # 0
  BY <1>1, Named
<1>4. CASE UNCHANGED vars
  <2>1. \A q \in Request :
            /\ fetch'[q].tab = fetch[q].tab
            /\ req[q].row # 0 => fetch'[q].kind = fetch[q].kind
            /\ fetch'[q].kind = "refresh" => fetch[q].kind = "refresh"
            /\ fetch'[q].row # 0 => fetch'[q] = fetch[q] /\ req[q].pc = "idle"
    BY <1>1, <1>2 DEF OInv, Slots
  <2>2. \A q \in Request : Kept(fetch[q].row)' => fetch'[q] = fetch[q]
    BY <2>1 DEF Kept
  <2>3. QED
    BY <1>1, <1>4, <2>1, <2>2, ClientOInv
<1>5. CASE ~Kept(s) /\ ~UNCHANGED vars
  <2>1. /\ \E pc \in {"rotate", "reuse"} : Begin(r, pc, s, NoUser)
        /\ rows' = rows /\ known' = known
    BY <1>3, <1>5 DEF Serve, RefreshLookup, RefreshReused
  <2>2. rows[s].family \in excused'
    BY <1>1, <1>3, <1>5 DEF Kept
  <2>3. QED
    BY <1>1, <1>2, <1>3, <2>1, <2>2, BeginOInv DEF PC
<1>6. CASE Kept(s) /\ ~UNCHANGED vars
  <2>1. /\ fetch[r].tab \in Tab /\ fetch[r].kind = "refresh" /\ Alone(s)
        /\ \A q \in Request : ~At(q, rows[s].family)
    BY <1>3, <1>6 DEF OInv, SentAlone
  <2>2. RefreshLookup(r, s)
    BY <1>3, <1>6, <2>1 DEF Serve, RefreshReused, Alone
  <2>3. Begin(r, "rotate", s, NoUser) /\ rows' = rows /\ known' = known
    BY <2>2 DEF RefreshLookup
  <2>4. /\ \A q \in Request \ {r} : req'[q] = req[q]
        /\ req'[r].pc = "rotate" /\ req'[r].row = s
    BY <1>3, <2>3, Moves DEF PC
  <2>5. ASSUME NEW q \in Request \ {r}
        PROVE  ~Sent(q, rows[s].family)
    <3> SUFFICES ASSUME Sent(q, rows[s].family)
                 PROVE  FALSE
      OBVIOUS
    <3>1. Kept(fetch[q].row)
      BY <1>6 DEF Sent, Kept
    <3>2. fetch[q].tab \in Tab /\ fetch[q].kind = "refresh"
      BY <3>1 DEF OInv, SentAlone
    <3>3. QED
      BY <2>1, <3>2 DEF OInv, OneRefresh, Fetches
  <2>6. Slots'
    BY <1>2, <1>3, <2>4 DEF OInv, Slots
  <2>7. Advance(r, rows[s].family)
    BY <1>1, <1>2, <2>1, <2>3, <2>4, <2>5, <2>6 DEF Advance
  <2>8. Granted(r, req[r].row)'
    BY <1>2, <2>1, <2>3, <2>4 DEF Granted, Alone, FamilyRows
  <2>9. Advanced(r, rows[s].family)
    BY <1>2, <1>3, <2>1, <2>3, <2>4, <2>8 DEF Advanced
  <2>10. QED
    BY <2>7, <2>9, AdvanceOInv
<1>7. QED
  BY <1>4, <1>5, <1>6

(* The commits of a rotation and of a login.                               *)
LEMMA GrantOInv ==
    ASSUME IInv, BInv, OInv, NEW r \in Request, UNCHANGED client,
           LoginAudit(r) \/ RefreshRevoke(r) \/ RefreshIssue(r)
    PROVE  OInv'
<1>1. /\ req[r].pc \in {"login_audit", "rotate", "issue"} /\ known' = known
      /\ fetch' = fetch /\ store' = store /\ excused' = excused
      /\ rows \in Seq(Row) /\ Len(rows) \in Nat /\ DOMAIN rows = 1..Len(rows)
      /\ req \in [Request -> ReqState]
  BY Named DEF LoginAudit, RefreshRevoke, RefreshIssue, client, IInv, TypeOK
<1>2. PICK s : s = req[r].row /\ s \in DOMAIN rows /\ s \in Nat /\ s # 0
  BY <1>1 DEF IInv, RequestsConsistent, Consistent
<1>3. PICK f : f = rows[s].family
  OBVIOUS
<1>4. fetch[r].row = 0
  BY <1>1 DEF OInv, Slots
<1>5. PICK n : n = Len(rows) + 1
  OBVIOUS
(* What the three do to the request and to the rows.                       *)
<1>6. CASE LoginAudit(r)
  <2>1. /\ \A q \in Request \ {r} : req'[q] = req[q]
        /\ req'[r].pc = "respond" /\ req'[r].row = s /\ rows' = rows
        /\ req[r].pc = "login_audit"
    BY <1>2, <1>6, Moves DEF LoginAudit, PC
  <2>2. Slots'
    BY <1>1, <1>4, <2>1 DEF OInv, Slots
  <2>3. CASE f \in excused
    <3>1. Elsewhere(r)
      BY <1>1, <1>2, <1>3, <1>4, <2>1, <2>3 DEF Elsewhere, RowsKept, Kept
    <3>2. QED
      BY <3>1, ElsewhereOInv
  <2>4. CASE f \notin excused
    <3>1. /\ fetch[r].tab \in Tab /\ Granted(r, s)
          /\ \A q \in Request \ {r} : ~At(q, f) /\ ~Sent(q, f)
      BY <1>2, <1>3, <2>4 DEF OInv, ServedAlone, Kept
    <3>2. Advance(r, f)
      BY <1>1, <1>2, <1>3, <1>4, <2>1, <2>2, <3>1 DEF Advance
    <3>3. Granted(r, req[r].row)'
      BY <1>1, <2>1, <3>1 DEF Granted, Alone, FamilyRows
    <3>4. Advanced(r, f)
      BY <1>1, <1>2, <1>3, <2>1, <3>1, <3>3 DEF Advanced
    <3>5. QED
      BY <3>2, <3>4, AdvanceOInv
  <2>5. QED
    BY <2>3, <2>4
<1>7. CASE RefreshRevoke(r)
  <2>1. /\ \A q \in Request \ {r} : req'[q] = req[q]
        /\ req'[r].pc = "issue" /\ req'[r].row = s /\ rows' = RevokeRow(s)
        /\ req[r].pc = "rotate"
    BY <1>2, <1>7, Moves DEF RefreshRevoke, PC
  <2>2. /\ DOMAIN rows' = DOMAIN rows
        /\ \A t \in DOMAIN rows :
            /\ rows'[t].family = rows[t].family
            /\ rows'[t].revoked <=> (rows[t].revoked \/ t = s)
    BY <1>1, <1>2, <2>1, RevokeOneRow
  <2>3. Slots'
    BY <1>1, <1>4, <2>1 DEF OInv, Slots
  <2>4. CASE f \in excused
    <3>1. RowsKept
      BY <1>1, <1>3, <2>2, <2>4 DEF RowsKept
    <3>2. Elsewhere(r)
      BY <1>1, <1>2, <1>3, <1>4, <2>1, <2>2, <2>4, <3>1 DEF Elsewhere, Kept
    <3>3. QED
      BY <3>2, ElsewhereOInv
  <2>5. CASE f \notin excused
    <3>1. /\ fetch[r].tab \in Tab /\ Granted(r, s)
          /\ \A q \in Request \ {r} : ~At(q, f) /\ ~Sent(q, f)
      BY <1>2, <1>3, <2>5 DEF OInv, ServedAlone, Kept
    <3>2. Alone(s) /\ fetch[r].kind = "refresh"
      BY <2>1, <3>1 DEF Granted
    <3>3. Advance(r, f)
      BY <1>1, <1>2, <1>3, <1>4, <2>1, <2>2, <2>3, <3>1 DEF Advance
    <3>4. \A t \in DOMAIN rows' : rows'[t].family = f => rows'[t].revoked
      BY <1>3, <2>2, <3>2 DEF Alone, FamilyRows
    <3>5. Granted(r, req[r].row)'
      BY <1>1, <1>2, <1>3, <2>1, <2>2, <3>2, <3>4 DEF Granted, FamilyRows
    <3>6. Advanced(r, f)
      BY <1>1, <1>2, <1>3, <2>1, <2>2, <3>1, <3>5 DEF Advanced
    <3>7. QED
      BY <3>3, <3>6, AdvanceOInv
  <2>6. QED
    BY <2>4, <2>5
<1>8. CASE RefreshIssue(r)
  <2>1. /\ \A q \in Request \ {r} : req'[q] = req[q]
        /\ req'[r].pc = "respond" /\ req'[r].row = n /\ req[r].pc = "issue"
        /\ rows' = Append(rows, [user |-> rows[s].user, family |-> f,
                                 revoked |-> FALSE, parent |-> s])
    BY <1>1, <1>2, <1>3, <1>5, <1>8, Moves DEF RefreshIssue, Insert, PC
  <2>2. /\ DOMAIN rows' = 1..n /\ rows'[n].family = f /\ ~rows'[n].revoked
        /\ \A t \in DOMAIN rows : rows'[t] = rows[t]
        /\ \A t \in DOMAIN rows' : t \in DOMAIN rows \/ t = n
        /\ n \in DOMAIN rows' /\ n \notin DOMAIN rows /\ n # 0
    BY <1>1, <1>5, <2>1
  <2>3. Slots'
    BY <1>1, <1>4, <2>1, <2>2 DEF OInv, Slots
  <2>4. CASE f \in excused
    <3>1. RowsKept
      BY <1>1, <1>3, <1>5, <2>2, <2>4 DEF RowsKept
    <3>2. Elsewhere(r)
      BY <1>1, <1>2, <1>3, <1>4, <2>1, <2>2, <2>4, <3>1 DEF Elsewhere, Kept
    <3>3. QED
      BY <3>2, ElsewhereOInv
  <2>5. CASE f \notin excused
    <3>1. /\ fetch[r].tab \in Tab /\ Granted(r, s)
          /\ \A q \in Request \ {r} : ~At(q, f) /\ ~Sent(q, f)
      BY <1>2, <1>3, <2>5 DEF OInv, ServedAlone, Kept
    <3>2. /\ fetch[r].kind = "refresh"
          /\ \A t \in FamilyRows(f) : rows[t].revoked
      BY <1>3, <2>1, <3>1 DEF Granted
    <3>3. Advance(r, f)
      BY <1>1, <1>2, <1>3, <1>4, <1>5, <2>1, <2>2, <2>3, <3>1 DEF Advance
    <3>4. \A t \in DOMAIN rows' : rows'[t].family = f /\ t # n => rows'[t].revoked
      BY <2>2, <3>2 DEF FamilyRows
    <3>5. Granted(r, req[r].row)'
      BY <1>1, <2>1, <2>2, <3>2, <3>4 DEF Granted, Alone, FamilyRows
    <3>6. Advanced(r, f)
      BY <1>1, <2>1, <2>2, <3>1, <3>5 DEF Advanced
    <3>7. QED
      BY <3>3, <3>6, AdvanceOInv
  <2>6. QED
    BY <2>4, <2>5
<1>9. QED
  BY <1>6, <1>7, <1>8

LEMMA ServerStepOInv ==
    ASSUME IInv, BInv, OInv, NEW r \in Request, ServerStep(r)
    PROVE  OInv'
<1>a. /\ \A q \in Request : fetch[q].row # 0 => req[q].pc = "idle"
      /\ \A q \in Request : req[q].pc \in {"idle", "register"} => req[q].row = 0
  BY DEF OInv, Slots
<1>1. CASE Serve(r)
  BY <1>1, ServeOInv
<1>2. CASE Step(r)
  <2>1. fetch' = fetch /\ store' = store /\ excused' = excused /\ UNCHANGED client
    BY <1>2 DEF Step, client
  <2>2. CASE RegisterInsert(r)
    <3>1. RowsKept /\ known' = known /\ Finish(r) /\ req[r].row = 0
      BY <1>a, <2>1, <2>2 DEF RegisterInsert, RowsKept
    <3>2. QED
      BY <2>1, <3>1, EndOInv
  <2>3. CASE LoginAudit(r) \/ RefreshRevoke(r) \/ RefreshIssue(r)
    BY <2>1, <2>3, GrantOInv
  <2>4. CASE ReuseRevoke(r)
    <3>1. /\ req[r].pc = "reuse" /\ rows' = RevokeFamily(rows[req[r].row].family)
          /\ Goto(r, "raised") /\ known' = known
      BY <2>4 DEF ReuseRevoke
    <3>2. req[r].row # 0 /\ req[r].row \in DOMAIN rows
      BY <3>1, Named DEF IInv, RequestsConsistent, Consistent
    <3>3. rows[req[r].row].family \in excused
      BY <3>1, <3>2, NotGranted
    <3>4. RowsKept
      BY <2>1, <3>1, <3>3, RevokeKept
    <3>5. /\ \A q \in Request \ {r} : req'[q] = req[q]
          /\ req'[r].pc = "raised" /\ req'[r].row = req[r].row
      BY <3>1, Moves DEF PC
    <3>6. Elsewhere(r)
      BY <1>a, <2>1, <3>1, <3>2, <3>3, <3>4, <3>5 DEF Elsewhere, Kept, RowsKept
    <3>7. QED
      BY <3>6, ElsewhereOInv
  <2>5. CASE ReuseAnswer(r)
    <3>1. RowsKept /\ known' = known /\ Finish(r) /\ req[r].pc = "raised"
      BY <2>1, <2>5 DEF ReuseAnswer, RowsKept
    <3>2. QED
      BY <2>1, <3>1, NotGranted, EndOInv
  <2>6. CASE LogoutRevoke(r) \/ RevokeCommit(r)
    <3>1. /\ req[r].pc \in {"logout", "revoke"} /\ known' = known /\ Finish(r)
          /\ rows' = RevokeFamily(rows[req[r].row].family)
      BY <2>6 DEF LogoutRevoke, RevokeCommit
    <3>2. req[r].row # 0
      BY <3>1, Named DEF IInv, RequestsConsistent, Consistent
    <3>3. rows[req[r].row].family \in excused
      BY <3>1, <3>2, NotGranted
    <3>4. RowsKept
      BY <2>1, <3>1, <3>3, RevokeKept
    <3>5. QED
      BY <2>1, <3>1, <3>3, <3>4, EndOInv
  <2>7. QED
    BY <1>2, <2>2, <2>3, <2>4, <2>5, <2>6 DEF Step
<1>3. CASE Crash(r)
  <2>1. /\ rows' = rows /\ known' = known /\ fetch' = fetch /\ store' = store /\ Finish(r)
        /\ excused' = excused \cup Carried(r) /\ fetch[r].row = 0
    BY <1>3, <1>a DEF Crash, Abort
  <2>2. req[r].row # 0 => rows[req[r].row].family \in excused'
    BY <2>1 DEF Carried
  <2>3. RowsKept
    BY <2>1 DEF RowsKept
  <2>4. QED
    BY <2>1, <2>2, <2>3, EndOInv
<1>4. CASE Undelivered(r)
  <2>1. /\ rows' = rows /\ known' = known /\ Finish(r) /\ fetch[r].kind = "none"
        /\ fetch' = fetch /\ store' = store /\ excused' = excused
    BY <1>4 DEF Undelivered, Abort, client
  <2>2. RowsKept
    BY <2>1 DEF RowsKept
  <2>3. QED
    BY <2>1, <2>2, NotGranted, EndOInv
<1>5. ASSUME NEW u \in User, SignUp(r, u)
      PROVE  OInv'
  <2>1. /\ Begin(r, "register", 0, u) /\ req[r].pc = "idle" /\ rows' = rows /\ known' = known
        /\ fetch' = fetch /\ store' = store /\ excused' = excused /\ fetch[r].row = 0
    BY <1>5 DEF SignUp, RegisterCheck, Free, Nobody, client
  <2>2. QED
    BY <2>1, BeginOInv DEF PC
<1>6. ASSUME NEW u \in User, NEW row \in DOMAIN rows, RevokedElsewhere(r, u, row)
      PROVE  OInv'
  <2>1. /\ Begin(r, "revoke", row, u) /\ req[r].pc = "idle" /\ rows' = rows /\ known' = known
        /\ fetch' = fetch /\ store' = store /\ fetch[r].row = 0
        /\ excused' = excused \cup {rows[row].family} /\ row \in Nat
    BY <1>6, Named DEF RevokedElsewhere, RevokeLookup, Free, Nobody
  <2>2. QED
    BY <2>1, BeginOInv DEF PC
<1>7. QED
  BY <1>1, <1>2, <1>3, <1>4, <1>5, <1>6 DEF ServerStep

LEMMA OneTabStep ==
    ASSUME NEW t, Tab = {t}, IInv, BInv, OInv, [BrowserNext]_allVars
    PROVE  OInv'
<1>1. CASE \E u \in Tab : TabStep(u)
  BY <1>1, TabStepOInv
<1>2. CASE \E r \in Request : ServerStep(r)
  BY <1>2, ServerStepOInv
<1>3. CASE UNCHANGED allVars
  <2>1. UNCHANGED <<vars, store, fetch, excused>>
    BY <1>3 DEF allVars, client
  <2>2. \A q \in Request : fetch'[q].row # 0 => req[q].pc = "idle"
    BY <2>1 DEF OInv, Slots
  <2>3. QED
    BY <2>1, <2>2, ClientOInv
<1>4. QED
  BY <1>1, <1>2, <1>3 DEF BrowserNext

LEMMA InitOInv == BrowserInit => OInv
BY DEF BrowserInit, Init, OInv, ServedAlone, SentAlone, StoredAlone, OneRefresh, Slots,
       Kept, Fetches, Nobody, Idle

-----------------------------------------------------------------------------
(* With one tab, however many calls and requests overlap, whatever dies    *)
(* and whatever is refused: the server takes a refresh for a theft only    *)
(* where an answer was lost or the user ended the session (api.ts:61-64).  *)
THEOREM OneTabIsNoThief ==
    ASSUME NEW t, Tab = {t}
    PROVE  BrowserSpec => []NoFalseTheft
<1>1. BrowserInit => IInv /\ BInv /\ OInv
  BY InitBInv, InitIInv, InitOInv DEF BrowserInit
<1>2. IInv /\ BInv /\ OInv /\ [BrowserNext]_allVars => IInv' /\ BInv' /\ OInv'
  BY BrowserStep, StepIInv, OneTabStep DEF IInv
<1>3. IInv /\ OInv => NoFalseTheft
  <2> SUFFICES ASSUME IInv, OInv, NEW r \in Request, req[r].pc = "reuse"
               PROVE  rows[req[r].row].family \in excused
    BY DEF NoFalseTheft
  <2>1. req[r].row # 0
    BY DEF IInv, TypeOK, RequestsConsistent, Consistent
  <2>2. QED
    BY <2>1, NotGranted
<1>4. QED
  BY <1>1, <1>2, <1>3, PTL DEF BrowserSpec

(* With one tab, between refreshes the stored token is the only one its    *)
(* session can go on with (api.ts:82-85).                                  *)
THEOREM StoredTokenIsLive ==
    ASSUME NEW t, Tab = {t}
    PROVE  BrowserSpec => []StoreIsLive
<1>1. BrowserInit => IInv /\ BInv /\ OInv
  BY InitBInv, InitIInv, InitOInv DEF BrowserInit
<1>2. IInv /\ BInv /\ OInv /\ [BrowserNext]_allVars => IInv' /\ BInv' /\ OInv'
  BY BrowserStep, StepIInv, OneTabStep DEF IInv
<1>3. IInv /\ BInv /\ OInv => StoreIsLive
  <2> SUFFICES ASSUME IInv, BInv, OInv, Kept(store), ~Refreshing(t),
                      NEW row \in FamilyRows(rows[store].family)
               PROVE  rows[row].revoked <=> row # store
    BY DEF StoreIsLive, Kept
  <2>1. Alone(store)
    BY StoredIsAlone
  <2>2. QED
    BY <2>1 DEF Alone
<1>4. QED
  BY <1>1, <1>2, <1>3, PTL DEF BrowserSpec
=============================================================================
