------------------------------ MODULE Sessions ------------------------------
(***************************************************************************)
(* Registration, login, refresh-token rotation, logout and session         *)
(* revocation (services/auth_service.py, called by api/auth.py).           *)
(*                                                                         *)
(* Every HTTP request runs as one coroutine with a database session of its *)
(* own; PostgreSQL runs at READ COMMITTED.  What other requests can see of *)
(* it are its commits, and what it knows of them is what its last SELECT   *)
(* returned.  So a request is a little process whose steps are: a SELECT,  *)
(* or one commit.  The value it read and still relies on is its pc.        *)
(***************************************************************************)
EXTENDS Naturals, Sequences

CONSTANTS User,      \* e-mail addresses that may register
          Family,    \* family ids (uuid4) that logins may draw
          Request,   \* requests that can be in flight together
          NoUser,
          MaxRows    \* bound: rows of refresh_tokens

ASSUME SessionsAssumption ==
    /\ MaxRows \in Nat
    /\ NoUser \notin User

VARIABLES users,     \* table users: the registered e-mail addresses
          rows,      \* table refresh_tokens, in order of insertion
          horizon,   \* the rows 1..horizon have passed their expires_at
          known,     \* the rows whose raw token reached a client
          audited,   \* families whose login is in table audit_log
          req        \* req[r]: progress of request r

vars == <<users, rows, horizon, known, audited, req>>

(* "parent" is history: the row a rotation consumed to insert this one, 0  *)
(* for the first row of a family.  The columns it stands beside are those  *)
(* of models/refresh_token.py; all rows live equally long, so they expire  *)
(* in order of insertion and expires_at is kept as the horizon.            *)
Row == [user : User, family : Family, revoked : BOOLEAN, parent : Nat]

PC == {"idle", "register", "login_audit", "rotate", "issue", "respond",
       "reuse", "raised", "logout", "revoke"}

(* row: the refresh_tokens row the request selected or inserted (0: none); *)
(* user: the e-mail to register, or current_user of a revocation.          *)
ReqState == [pc : PC, row : Nat, user : User \cup {NoUser}]

Idle == [pc |-> "idle", row |-> 0, user |-> NoUser]

-----------------------------------------------------------------------------
(* Queries and updates.                                                    *)

Expired(t) == t <= horizon

Usable(t) == ~rows[t].revoked /\ ~Expired(t)

FamilyRows(f) == {t \in DOMAIN rows : rows[t].family = f}

(* Mutation: login draws a family id without it being new.                 *)
FreshUnchecked(f) == f \in Family

Fresh(f) == FamilyRows(f) = {}

(* Mutation: the row's user_id is left out.                                *)
InsertNoOwner(u, f, p) ==
    Append(rows, [user |-> NoUser, family |-> f, revoked |-> FALSE, parent |-> p])

(* INSERT of a refresh_tokens row (first half of _issue_token_pair).       *)
Insert(u, f, p) ==
    Append(rows, [user |-> u, family |-> f, revoked |-> FALSE, parent |-> p])

(* Mutation: the commit without the assignment to row.revoked.             *)
RevokeRowForgotten(t) == [rows EXCEPT ![t].revoked = @]

(* UPDATE refresh_tokens SET revoked = true WHERE id = t.                  *)
RevokeRow(t) == [rows EXCEPT ![t].revoked = TRUE]

(* Mutation: the UPDATE without its WHERE clause.                          *)
RevokeEveryFamily(f) ==
    [t \in DOMAIN rows |-> [rows[t] EXCEPT !.revoked = f \in Family]]

(* UPDATE refresh_tokens SET revoked = true WHERE family_id = f.           *)
RevokeFamily(f) ==
    [t \in DOMAIN rows |->
        IF rows[t].family = f THEN [rows[t] EXCEPT !.revoked = TRUE] ELSE rows[t]]

Goto(r, pc) == req' = [req EXCEPT ![r].pc = pc]
Begin(r, pc, t, u) == req' = [req EXCEPT ![r] = [pc |-> pc, row |-> t, user |-> u]]
Finish(r) == req' = [req EXCEPT ![r] = Idle]

-----------------------------------------------------------------------------
(* POST /auth/register: SELECT by e-mail, then INSERT and commit.  The     *)
(* unique index on users.email turns a lost race into an IntegrityError.   *)

RegisterCheck(r, u) ==
    /\ req[r].pc = "idle"
    /\ u \notin users
    /\ Begin(r, "register", 0, u)
    /\ UNCHANGED <<users, rows, horizon, known, audited>>

RegisterInsert(r) ==
    /\ req[r].pc = "register"
    /\ users' = users \cup {req[r].user}
    /\ Finish(r)
    /\ UNCHANGED <<rows, horizon, known, audited>>

(* POST /auth/login.  A fresh family id, its first row, the audit row in a *)
(* commit of its own, and only then the answer.  (Wrong credentials change *)
(* nothing but the audit log, of which only the login rows are kept here:  *)
(* the other entries are written after the fact and read by no property.)  *)
Login(r, u, f) ==
    /\ req[r].pc = "idle"
    /\ u \in users
    /\ Fresh(f)
    /\ Len(rows) < MaxRows
    /\ rows' = Insert(u, f, 0)
    /\ Begin(r, "login_audit", Len(rows) + 1, NoUser)
    /\ UNCHANGED <<users, horizon, known, audited>>

(* Mutation: login answers without waiting for its audit row.              *)
LoginUnaudited(r) ==
    /\ req[r].pc = "login_audit"
    /\ Goto(r, "respond")
    /\ UNCHANGED <<users, rows, horizon, known, audited>>

LoginAudit(r) ==
    /\ req[r].pc = "login_audit"
    /\ audited' = audited \cup {rows[req[r].row].family}
    /\ Goto(r, "respond")
    /\ UNCHANGED <<users, rows, horizon, known>>

(* The TokenPair reaches the client.  (An answer that is lost is Abort.)   *)
Respond(r) ==
    /\ req[r].pc = "respond"
    /\ known' = known \cup {req[r].row}
    /\ Finish(r)
    /\ UNCHANGED <<users, rows, horizon, audited>>

-----------------------------------------------------------------------------
(* POST /auth/refresh: rotate_refresh_token.  The SELECT decides which way *)
(* the request goes; an unknown or an expired token changes nothing.       *)

(* Mutation: the revoked check of rotate_refresh_token dropped.            *)
RefreshLookupUnchecked(r, t) ==
    /\ req[r].pc = "idle"
    /\ ~Expired(t)
    /\ Begin(r, "rotate", t, NoUser)
    /\ UNCHANGED <<users, rows, horizon, known, audited>>

RefreshLookup(r, t) ==
    /\ req[r].pc = "idle"
    /\ Usable(t)
    /\ Begin(r, "rotate", t, NoUser)
    /\ UNCHANGED <<users, rows, horizon, known, audited>>

RefreshReused(r, t) ==
    /\ req[r].pc = "idle"
    /\ rows[t].revoked
    /\ Begin(r, "reuse", t, NoUser)
    /\ UNCHANGED <<users, rows, horizon, known, audited>>

(* row.revoked = True; commit.  No WHERE clause asks whether the row is    *)
(* still unrevoked.                                                        *)
RefreshRevoke(r) ==
    /\ req[r].pc = "rotate"
    /\ rows' = RevokeRow(req[r].row)
    /\ Goto(r, "issue")
    /\ UNCHANGED <<users, horizon, known, audited>>

(* _issue_token_pair: the second commit of a rotation.                     *)
RefreshIssue(r) ==
    /\ req[r].pc = "issue"
    /\ Len(rows) < MaxRows
    /\ rows' = Insert(rows[req[r].row].user, rows[req[r].row].family, req[r].row)
    /\ Begin(r, "respond", Len(rows) + 1, NoUser)
    /\ UNCHANGED <<users, horizon, known, audited>>

(* A consumed token was presented: _revoke_family commits, then the        *)
(* exception is raised and the handler writes its audit row and answers.   *)
ReuseRevoke(r) ==
    /\ req[r].pc = "reuse"
    /\ rows' = RevokeFamily(rows[req[r].row].family)
    /\ Goto(r, "raised")
    /\ UNCHANGED <<users, horizon, known, audited>>

ReuseAnswer(r) ==
    /\ req[r].pc = "raised"
    /\ Finish(r)
    /\ UNCHANGED <<users, rows, horizon, known, audited>>

-----------------------------------------------------------------------------
(* POST /auth/logout: whoever presents a token of the family closes it.    *)

LogoutLookup(r, t) ==
    /\ req[r].pc = "idle"
    /\ Begin(r, "logout", t, NoUser)
    /\ UNCHANGED <<users, rows, horizon, known, audited>>

LogoutRevoke(r) ==
    /\ req[r].pc = "logout"
    /\ rows' = RevokeFamily(rows[req[r].row].family)
    /\ Finish(r)
    /\ UNCHANGED <<users, horizon, known, audited>>

(* DELETE /auth/sessions/{family_id}.  current_user comes from an access   *)
(* token, which no revocation withdraws: any user a pair was delivered to  *)
(* may still hold one.  No row with both the family and the user: 404.     *)
HoldsAccess(u) == \E t \in known : rows[t].user = u

(* Mutation: the user_id condition of the ownership query dropped.         *)
OwnedByAnyone(t, u) == rows[t].user \in User /\ u \in User

OwnedBy(t, u) == rows[t].user = u

RevokeLookup(r, u, t) ==
    /\ req[r].pc = "idle"
    /\ HoldsAccess(u)
    /\ OwnedBy(t, u)
    /\ Begin(r, "revoke", t, u)
    /\ UNCHANGED <<users, rows, horizon, known, audited>>

RevokeCommit(r) ==
    /\ req[r].pc = "revoke"
    /\ rows' = RevokeFamily(rows[req[r].row].family)
    /\ Finish(r)
    /\ UNCHANGED <<users, horizon, known, audited>>


-----------------------------------------------------------------------------
(* The environment.                                                        *)

(* A request dies between two commits: a database error, a cancelled       *)
(* handler, a lost answer.  What it committed stays.  A crash of the       *)
(* process is an Abort of every request in flight.                         *)
Abort(r) ==
    /\ req[r].pc # "idle"
    /\ Finish(r)
    /\ UNCHANGED <<users, rows, horizon, known, audited>>

(* refresh_token_expire_days pass for the oldest row that is not expired.  *)
Expire ==
    /\ horizon < Len(rows)
    /\ horizon' = horizon + 1
    /\ UNCHANGED <<users, rows, known, audited, req>>

Init ==
    /\ users = {}
    /\ rows = <<>>
    /\ horizon = 0
    /\ known = {}
    /\ audited = {}
    /\ req = [r \in Request |-> Idle]

(* Clients present only tokens they were given.                            *)
Start(r) ==
    \/ \E u \in User : RegisterCheck(r, u)
    \/ \E u \in User, f \in Family : Login(r, u, f)
    \/ \E t \in known : RefreshLookup(r, t) \/ RefreshReused(r, t) \/ LogoutLookup(r, t)
    \/ \E u \in User, t \in DOMAIN rows : RevokeLookup(r, u, t)

Continue(r) ==
    \/ RegisterInsert(r) \/ LoginAudit(r) \/ Respond(r)
    \/ RefreshRevoke(r) \/ RefreshIssue(r) \/ ReuseRevoke(r) \/ ReuseAnswer(r)
    \/ LogoutRevoke(r) \/ RevokeCommit(r)

Next ==
    \/ \E r \in Request : Start(r) \/ Continue(r) \/ Abort(r)
    \/ Expire

Spec == Init /\ [][Next]_vars

-----------------------------------------------------------------------------
(* Properties.                                                             *)

TypeOK ==
    /\ users \subseteq User
    /\ rows \in Seq(Row)
    /\ horizon \in 0..Len(rows)
    /\ known \subseteq DOMAIN rows
    /\ audited \subseteq Family
    /\ req \in [Request -> ReqState]

(* All rows of a family belong to one user.  Nothing in the schema says so *)
(* (family_id is a bare uuid); revoke_session relies on it when one owned  *)
(* row lets it revoke every row of the family (auth_service.py:154-162).   *)
FamilyOneOwner ==
    \A s, t \in DOMAIN rows :
        rows[s].family = rows[t].family => rows[s].user = rows[t].user

(* A rotation consumes before it issues: the row a refresh token was       *)
(* exchanged for exists only once the exchanged row is revoked, and it     *)
(* continues the same family (models/refresh_token.py:18-20), whichever    *)
(* requests overlap and wherever one of them dies.                         *)
ConsumedBeforeReplaced ==
    \A t \in DOMAIN rows :
        rows[t].parent # 0 =>
            /\ rows[t].parent \in 1..(t - 1)
            /\ rows[rows[t].parent].revoked
            /\ rows[rows[t].parent].family = rows[t].family

(* Between its ownership check and its commit a session revocation can be  *)
(* overtaken by any other request; still every row its UPDATE would hit is *)
(* the caller's own (api/auth.py:131-153).                                 *)
RevokesOnlyOwnRows ==
    \A r \in Request : req[r].pc = "revoke" =>
        \A t \in FamilyRows(rows[req[r].row].family) : rows[t].user = req[r].user

(* No client holds a refresh token of a family whose login is missing from *)
(* the audit log: the audit row is committed before the first pair leaves  *)
(* and every later pair descends from the first (api/auth.py:66-70).       *)
KnownSessionsAudited ==
    \A t \in known : rows[t].family \in audited

(* refresh_tokens only grows, a revoked row is never un-revoked and a row  *)
(* never changes hands, whatever interleaves.                              *)
RowsKeepHistory ==
    [][/\ Len(rows) <= Len(rows')
       /\ \A t \in DOMAIN rows :
            /\ rows'[t].user = rows[t].user
            /\ rows'[t].family = rows[t].family
            /\ rows[t].revoked => rows'[t].revoked]_vars

(* One commit never revokes rows of two families: logging out, a detected  *)
(* reuse or a revocation closes one device's session and leaves the user's *)
(* other sessions alone (_revoke_family, auth_service.py:104-108).         *)
NewlyRevoked(t) == ~rows[t].revoked /\ rows'[t].revoked

RevocationScope ==
    [][\A s, t \in DOMAIN rows :
        NewlyRevoked(s) /\ NewlyRevoked(t) => rows[s].family = rows[t].family]_vars

(* The family is open while one of its rows can be exchanged or a request  *)
(* that found it so is still rotating it; once it is neither, it never is  *)
(* again.  (A request past its SELECT keeps a family open that a logout    *)
(* has closed in the database: that is as much as the code promises.)      *)
Rotating(f) ==
    \E r \in Request :
        req[r].pc \in {"rotate", "issue"} /\ rows[req[r].row].family = f

Open(f) == Rotating(f) \/ \E t \in FamilyRows(f) : Usable(t)

FamilyStatus(f) ==
    IF Fresh(f) THEN "unopened" ELSE IF Open(f) THEN "open" ELSE "closed"

FamilyOwner(f) ==
    IF Fresh(f) THEN NoUser ELSE rows[CHOOSE t \in FamilyRows(f) : TRUE].user

Lifecycle == INSTANCE SessionLifecycle
    WITH status <- [f \in Family |-> FamilyStatus(f)],
         owner <- [f \in Family |-> FamilyOwner(f)]

(* The token chains implement the life of a session: opened once, by one   *)
(* user, never reopened after it has closed.                               *)
ImplementsLifecycle == Lifecycle!Spec

(* "The entire session family has already been revoked by the time this is *)
(* raised" (RefreshTokenReuseDetectedError, auth_service.py:41-42): at the *)
(* raise no row of the family is left unrevoked.                           *)
ReuseClosesFamily ==
    \A r \in Request : req[r].pc = "raised" =>
        \A t \in FamilyRows(rows[req[r].row].family) : rows[t].revoked
=============================================================================
