--------------------------- MODULE SessionsProofs ---------------------------
(***************************************************************************)
(* Theorems about Sessions, for any sets of users, families and requests   *)
(* and any bound on the rows.                                              *)
(***************************************************************************)
EXTENDS Sessions, TLAPS

(* What request q in flight knows of the row it read or wrote stays true   *)
(* while other requests commit: the strengthening that makes the           *)
(* invariants of Sessions inductive.                                       *)
Consistent(q) ==
    /\ q.pc = "register" => q.user \in User
    /\ q.pc \notin {"idle", "register"} => q.row \in DOMAIN rows
    /\ q.pc = "issue" => rows[q.row].revoked
    /\ q.pc = "revoke" => rows[q.row].user = q.user
    /\ q.pc \in {"rotate", "issue", "respond"} => rows[q.row].family \in audited

RequestsConsistent == \A r \in Request : Consistent(req[r])

IInv ==
    /\ TypeOK
    /\ RequestsConsistent
    /\ FamilyOneOwner
    /\ ConsumedBeforeReplaced
    /\ KnownSessionsAudited

-----------------------------------------------------------------------------
(* The three ways refresh_tokens is written.                               *)

(* Setting the flag of a row keeps it a row and keeps its other columns.   *)
LEMMA RevokedRow ==
    ASSUME NEW x \in Row
    PROVE  LET y == [x EXCEPT !.revoked = TRUE]
           IN  /\ y \in Row
               /\ y.user = x.user /\ y.family = x.family /\ y.parent = x.parent
               /\ y.revoked
BY DEF Row

(* RevokeRow changes one flag of one row.                                  *)
LEMMA RevokeOneRow ==
    ASSUME rows \in Seq(Row), NEW s \in 1..Len(rows)
    PROVE  /\ RevokeRow(s) \in Seq(Row)
           /\ Len(RevokeRow(s)) = Len(rows)
           /\ \A t \in 1..Len(rows) :
                /\ RevokeRow(s)[t].user = rows[t].user
                /\ RevokeRow(s)[t].family = rows[t].family
                /\ RevokeRow(s)[t].parent = rows[t].parent
                /\ RevokeRow(s)[t].revoked <=> (rows[t].revoked \/ t = s)
<1>1. rows[s] \in Row
  OBVIOUS
<1>2. RevokeRow(s) = [rows EXCEPT ![s] = [rows[s] EXCEPT !.revoked = TRUE]]
  BY DEF RevokeRow
<1>3. /\ RevokeRow(s) \in Seq(Row)
      /\ Len(RevokeRow(s)) = Len(rows)
      /\ \A t \in 1..Len(rows) :
            RevokeRow(s)[t] = IF t = s THEN [rows[s] EXCEPT !.revoked = TRUE] ELSE rows[t]
  BY <1>1, <1>2, RevokedRow
<1>4. ASSUME NEW t \in 1..Len(rows), t = s
      PROVE  /\ RevokeRow(s)[t].user = rows[t].user
             /\ RevokeRow(s)[t].family = rows[t].family
             /\ RevokeRow(s)[t].parent = rows[t].parent
             /\ RevokeRow(s)[t].revoked
  BY <1>1, <1>3, <1>4, RevokedRow
<1>5. ASSUME NEW t \in 1..Len(rows), t # s
      PROVE  RevokeRow(s)[t] = rows[t]
  BY <1>3, <1>5
<1>6. QED
  BY <1>3, <1>4, <1>5

(* RevokeFamily changes that flag in every row of one family.              *)
LEMMA RevokeWholeFamily ==
    ASSUME rows \in Seq(Row), NEW f
    PROVE  /\ RevokeFamily(f) \in Seq(Row)
           /\ Len(RevokeFamily(f)) = Len(rows)
           /\ \A t \in 1..Len(rows) :
                /\ RevokeFamily(f)[t].user = rows[t].user
                /\ RevokeFamily(f)[t].family = rows[t].family
                /\ RevokeFamily(f)[t].parent = rows[t].parent
                /\ RevokeFamily(f)[t].revoked <=> (rows[t].revoked \/ rows[t].family = f)
<1>1. \A t \in 1..Len(rows) : rows[t] \in Row
  OBVIOUS
<1>2. RevokeFamily(f) =
        [t \in 1..Len(rows) |->
            IF rows[t].family = f THEN [rows[t] EXCEPT !.revoked = TRUE] ELSE rows[t]]
  BY DEF RevokeFamily
<1>3. RevokeFamily(f) \in [1..Len(rows) -> Row]
  BY <1>1, <1>2, RevokedRow
<1>4. RevokeFamily(f) \in Seq(Row) /\ Len(RevokeFamily(f)) = Len(rows)
  BY <1>3
<1>5. QED
  BY <1>1, <1>2, <1>4, RevokedRow

-----------------------------------------------------------------------------
(* The inductive invariant.                                                *)

LEMMA InitIInv == Init => IInv
<1> SUFFICES ASSUME Init
             PROVE  IInv
  OBVIOUS
<1>1. rows = <<>> /\ rows \in Seq(Row) /\ Len(rows) = 0 /\ DOMAIN rows = {}
  BY DEF Init
<1>2. TypeOK
  BY <1>1 DEF Init, TypeOK, ReqState, PC, Idle
<1>3. QED
  BY <1>1, <1>2 DEF Init, IInv, RequestsConsistent, Consistent, FamilyOneOwner,
     ConsumedBeforeReplaced, KnownSessionsAudited, Idle

(* The columns of a row have their types.                                  *)
LEMMA RowColumns ==
    ASSUME rows \in Seq(Row), NEW t \in DOMAIN rows
    PROVE  rows[t].user \in User /\ rows[t].family \in Family /\ rows[t].parent \in Nat
<1>1. rows[t] \in Row
  OBVIOUS
<1>2. QED
  BY <1>1 DEF Row

(* A step that leaves every row its columns and sets, at most, more flags. *)
OnlyRevokes ==
    /\ rows' \in Seq(Row)
    /\ Len(rows') = Len(rows)
    /\ \A t \in 1..Len(rows) :
        /\ rows'[t].user = rows[t].user
        /\ rows'[t].family = rows[t].family
        /\ rows'[t].parent = rows[t].parent
        /\ rows[t].revoked => rows'[t].revoked

(* Request r moves on; the others stay where they are.                     *)
OnlyMoves(r) ==
    /\ req' \in [Request -> ReqState]
    /\ \A s \in Request \ {r} : req'[s] = req[s]
    /\ Consistent(req[r])'

(* A consistent request stays so under any step that only revokes.         *)
LEMMA ConsistentKept ==
    ASSUME IInv, NEW s \in Request, OnlyRevokes, audited \subseteq audited',
           req'[s] = req[s]
    PROVE  Consistent(req[s])'
<1>1. DOMAIN rows = 1..Len(rows) /\ DOMAIN rows' = 1..Len(rows)
  BY DEF IInv, TypeOK, OnlyRevokes
<1>2. Consistent(req[s])
  BY DEF IInv, RequestsConsistent
<1>3. CASE req[s].pc \in {"idle", "register"}
  BY <1>2, <1>3 DEF Consistent
<1>4. CASE req[s].pc \notin {"idle", "register"}
  <2>1. req[s].row \in 1..Len(rows)
    BY <1>1, <1>2, <1>4 DEF Consistent
  <2>2. QED
    BY <1>1, <1>2, <2>1 DEF Consistent, OnlyRevokes
<1>5. QED
  BY <1>3, <1>4

(* Any step that only revokes and moves one request keeps IInv.            *)
LEMMA RevokeStep ==
    ASSUME IInv, NEW r \in Request, OnlyRevokes, OnlyMoves(r),
           UNCHANGED <<users, horizon, known, audited>>
    PROVE  IInv'
<1>1. DOMAIN rows = 1..Len(rows) /\ DOMAIN rows' = 1..Len(rows)
  BY DEF IInv, TypeOK, OnlyRevokes
<1>2. TypeOK'
  BY <1>1 DEF IInv, TypeOK, OnlyRevokes, OnlyMoves
<1>3. RequestsConsistent'
  BY ConsistentKept DEF RequestsConsistent, OnlyMoves
<1>4. FamilyOneOwner'
  BY <1>1 DEF IInv, FamilyOneOwner, OnlyRevokes
<1>5. ConsumedBeforeReplaced'
  <2> SUFFICES ASSUME NEW t \in 1..Len(rows), rows'[t].parent # 0
               PROVE  /\ rows'[t].parent \in 1..(t - 1)
                      /\ rows'[rows'[t].parent].revoked
                      /\ rows'[rows'[t].parent].family = rows'[t].family
    BY <1>1 DEF ConsumedBeforeReplaced
  <2>1. /\ rows[t].parent \in 1..(t - 1)
        /\ rows[rows[t].parent].revoked
        /\ rows[rows[t].parent].family = rows[t].family
    BY <1>1 DEF IInv, ConsumedBeforeReplaced, OnlyRevokes
  <2>2. rows[t].parent \in 1..Len(rows)
    BY <2>1
  <2>3. QED
    BY <2>1, <2>2 DEF OnlyRevokes
<1>6. KnownSessionsAudited'
  BY <1>1 DEF IInv, TypeOK, KnownSessionsAudited, OnlyRevokes
<1>7. QED
  BY <1>2, <1>3, <1>4, <1>5, <1>6 DEF IInv

(* Any step that inserts one row, moves one request to it and respects the *)
(* family's owner and its chain keeps IInv.                                *)
LEMMA InsertStep ==
    ASSUME IInv, NEW r \in Request, NEW u \in User, NEW f \in Family, NEW p \in Nat,
           rows' = Insert(u, f, p),
           OnlyMoves(r), UNCHANGED <<users, horizon, known, audited>>,
           \A t \in FamilyRows(f) : rows[t].user = u,
           p # 0 => p \in FamilyRows(f) /\ rows[p].revoked
    PROVE  IInv'
<1>1. rows \in Seq(Row) /\ DOMAIN rows = 1..Len(rows) /\ Len(rows) \in Nat
  BY DEF IInv, TypeOK
<1>2. rows' = Append(rows, [user |-> u, family |-> f, revoked |-> FALSE, parent |-> p])
  BY DEF Insert
<1>r. [user |-> u, family |-> f, revoked |-> FALSE, parent |-> p] \in Row
  BY DEF Row
<1>i. /\ rows' \in Seq(Row)
      /\ DOMAIN rows' = 1..(Len(rows) + 1)
      /\ Len(rows') = Len(rows) + 1
      /\ \A t \in 1..Len(rows) : rows'[t] = rows[t]
  BY <1>1, <1>2, <1>r
<1>n. /\ rows'[Len(rows) + 1].user = u
      /\ rows'[Len(rows) + 1].family = f
      /\ rows'[Len(rows) + 1].parent = p
  BY <1>1, <1>2, <1>r
<1>3. TypeOK'
  BY <1>1, <1>i DEF IInv, TypeOK, OnlyMoves
<1>4. RequestsConsistent'
  <2> SUFFICES ASSUME NEW s \in Request \ {r}
               PROVE  Consistent(req[s])'
    BY DEF RequestsConsistent, OnlyMoves
  <2>1. Consistent(req[s]) /\ req'[s] = req[s]
    BY DEF IInv, RequestsConsistent, OnlyMoves
  <2>2. CASE req[s].pc \in {"idle", "register"}
    BY <2>1, <2>2 DEF Consistent
  <2>3. CASE req[s].pc \notin {"idle", "register"}
    <3>1. req[s].row \in 1..Len(rows)
      BY <1>1, <2>1, <2>3 DEF Consistent
    <3>2. QED
      BY <1>1, <1>i, <2>1, <3>1 DEF Consistent
  <2>4. QED
    BY <2>2, <2>3
<1>5. FamilyOneOwner'
  <2> SUFFICES ASSUME NEW s \in 1..(Len(rows) + 1), NEW t \in 1..(Len(rows) + 1),
                      rows'[s].family = rows'[t].family
               PROVE  rows'[s].user = rows'[t].user
    BY <1>i DEF FamilyOneOwner
  <2>1. CASE s \in 1..Len(rows) /\ t \in 1..Len(rows)
    BY <1>1, <1>i, <2>1 DEF IInv, FamilyOneOwner
  <2>2. CASE s = Len(rows) + 1 /\ t \in 1..Len(rows)
    BY <1>1, <1>i, <1>n, <2>2 DEF FamilyRows
  <2>3. CASE s \in 1..Len(rows) /\ t = Len(rows) + 1
    BY <1>1, <1>i, <1>n, <2>3 DEF FamilyRows
  <2>4. QED
    BY <1>1, <2>1, <2>2, <2>3
<1>6. ConsumedBeforeReplaced'
  <2> SUFFICES ASSUME NEW t \in 1..(Len(rows) + 1), rows'[t].parent # 0
               PROVE  /\ rows'[t].parent \in 1..(t - 1)
                      /\ rows'[rows'[t].parent].revoked
                      /\ rows'[rows'[t].parent].family = rows'[t].family
    BY <1>i DEF ConsumedBeforeReplaced
  <2>1. CASE t \in 1..Len(rows)
    <3>1. /\ rows[t].parent \in 1..(t - 1)
          /\ rows[rows[t].parent].revoked
          /\ rows[rows[t].parent].family = rows[t].family
      BY <1>1, <1>i, <2>1 DEF IInv, ConsumedBeforeReplaced
    <3>2. rows[t].parent \in 1..Len(rows)
      BY <1>1, <2>1, <3>1
    <3>3. QED
      BY <1>i, <2>1, <3>1, <3>2
  <2>2. CASE t = Len(rows) + 1
    <3>1. p \in 1..Len(rows) /\ rows[p].revoked /\ rows[p].family = f
      BY <1>1, <1>n, <2>2 DEF FamilyRows
    <3>2. QED
      BY <1>1, <1>i, <1>n, <2>2, <3>1
  <2>3. QED
    BY <1>1, <2>1, <2>2
<1>7. KnownSessionsAudited'
  BY <1>1, <1>i DEF IInv, TypeOK, KnownSessionsAudited
<1>8. QED
  BY <1>3, <1>4, <1>5, <1>6, <1>7 DEF IInv

(* A step that writes no row is a step that only revokes.                  *)
LEMMA SameRows ==
    ASSUME IInv, UNCHANGED rows
    PROVE  OnlyRevokes
BY DEF IInv, TypeOK, OnlyRevokes

(* Revoking one row, or one family, is a step that only revokes.           *)
LEMMA RevokeRowOnly ==
    ASSUME IInv, NEW s \in DOMAIN rows, rows' = RevokeRow(s)
    PROVE  OnlyRevokes /\ rows'[s].revoked
<1>1. rows \in Seq(Row) /\ s \in 1..Len(rows)
  BY DEF IInv, TypeOK
<1>2. QED
  BY <1>1, RevokeOneRow DEF OnlyRevokes

LEMMA RevokeFamilyOnly ==
    ASSUME IInv, NEW f, rows' = RevokeFamily(f)
    PROVE  /\ OnlyRevokes
           /\ \A t \in 1..Len(rows) :
                rows[t].family # f => (rows'[t].revoked <=> rows[t].revoked)
<1>1. rows \in Seq(Row)
  BY DEF IInv, TypeOK
<1>2. QED
  BY <1>1, RevokeWholeFamily DEF OnlyRevokes

(* What each kind of move does to the request that makes it.               *)
LEMMA Moves ==
    ASSUME IInv, NEW r \in Request
    PROVE  /\ \A pc \in PC, t \in Nat, u \in User \cup {NoUser} :
                Begin(r, pc, t, u) =>
                    /\ req' \in [Request -> ReqState]
                    /\ \A s \in Request \ {r} : req'[s] = req[s]
                    /\ req'[r].pc = pc /\ req'[r].row = t /\ req'[r].user = u
           /\ \A pc \in PC :
                Goto(r, pc) =>
                    /\ req' \in [Request -> ReqState]
                    /\ \A s \in Request \ {r} : req'[s] = req[s]
                    /\ req'[r].pc = pc /\ req'[r].row = req[r].row
                    /\ req'[r].user = req[r].user
           /\ Finish(r) =>
                    /\ req' \in [Request -> ReqState]
                    /\ \A s \in Request \ {r} : req'[s] = req[s]
                    /\ req'[r].pc = "idle"
<1>1. req \in [Request -> ReqState]
  BY DEF IInv, TypeOK
<1>2. QED
  BY <1>1 DEF Begin, Goto, Finish, Idle, ReqState, PC

(* The request that finishes has nothing left to be consistent with.       *)
LEMMA FinishMoves ==
    ASSUME IInv, NEW r \in Request, Finish(r)
    PROVE  OnlyMoves(r)
BY Moves DEF OnlyMoves, Consistent

(* Every step keeps IInv, action by action.                                *)
LEMMA StepIInv == IInv /\ [Next]_vars => IInv'
<1> SUFFICES ASSUME IInv, [Next]_vars
             PROVE  IInv'
  OBVIOUS
<1>a. /\ rows \in Seq(Row) /\ Len(rows) \in Nat /\ DOMAIN rows = 1..Len(rows)
      /\ known \subseteq DOMAIN rows /\ req \in [Request -> ReqState]
      /\ \A r \in Request : Consistent(req[r])
  BY DEF IInv, TypeOK, RequestsConsistent
<1>1. ASSUME NEW r \in Request, NEW u \in User, RegisterCheck(r, u)
      PROVE  IInv'
  <2>1. OnlyMoves(r)
    BY <1>1, Moves DEF RegisterCheck, PC, OnlyMoves, Consistent
  <2>2. QED
    BY <1>1, <2>1, SameRows, RevokeStep DEF RegisterCheck
<1>2. ASSUME NEW r \in Request, RegisterInsert(r)
      PROVE  IInv'
  <2>1. req[r].user \in User
    BY <1>2, <1>a DEF RegisterInsert, Consistent
  <2>2. OnlyMoves(r) /\ OnlyRevokes
    BY <1>2, FinishMoves, SameRows DEF RegisterInsert
  <2>3. RequestsConsistent'
    BY <1>2, <2>2, ConsistentKept DEF RegisterInsert, RequestsConsistent, OnlyMoves
  <2>4. QED
    BY <1>2, <2>1, <2>2, <2>3 DEF RegisterInsert, IInv, TypeOK, OnlyMoves,
       FamilyOneOwner, ConsumedBeforeReplaced, KnownSessionsAudited
<1>3. ASSUME NEW r \in Request, NEW u \in User, NEW f \in Family, Login(r, u, f)
      PROVE  IInv'
  <2>1. DOMAIN rows' = 1..(Len(rows) + 1)
    BY <1>3, <1>a DEF Login, Insert
  <2>2. OnlyMoves(r)
    BY <1>3, <1>a, <2>1, Moves DEF Login, PC, OnlyMoves, Consistent
  <2>3. QED
    BY <1>3, <2>2, InsertStep DEF Login, Fresh
<1>4. ASSUME NEW r \in Request, LoginAudit(r)
      PROVE  IInv'
  <2>1. req[r].row \in DOMAIN rows
    BY <1>4, <1>a DEF LoginAudit, Consistent
  <2>2. rows[req[r].row].family \in Family
    BY <1>a, <2>1, RowColumns
  <2>3. OnlyMoves(r) /\ OnlyRevokes
    BY <1>4, <1>a, <2>1, Moves, SameRows DEF LoginAudit, PC, OnlyMoves, Consistent
  <2>4. RequestsConsistent'
    BY <1>4, <2>3, ConsistentKept DEF LoginAudit, RequestsConsistent, OnlyMoves
  <2>5. QED
    BY <1>4, <2>2, <2>3, <2>4 DEF LoginAudit, IInv, TypeOK, OnlyMoves,
       FamilyOneOwner, ConsumedBeforeReplaced, KnownSessionsAudited
<1>5. ASSUME NEW r \in Request, Respond(r)
      PROVE  IInv'
  <2>1. req[r].row \in DOMAIN rows /\ rows[req[r].row].family \in audited
    BY <1>5, <1>a DEF Respond, Consistent
  <2>2. OnlyMoves(r) /\ OnlyRevokes
    BY <1>5, FinishMoves, SameRows DEF Respond
  <2>3. RequestsConsistent'
    BY <1>5, <2>2, ConsistentKept DEF Respond, RequestsConsistent, OnlyMoves
  <2>4. QED
    BY <1>5, <2>1, <2>2, <2>3 DEF Respond, IInv, TypeOK, OnlyMoves,
       FamilyOneOwner, ConsumedBeforeReplaced, KnownSessionsAudited
<1>6. ASSUME NEW r \in Request, NEW t \in known, RefreshLookup(r, t)
      PROVE  IInv'
  <2>1. t \in DOMAIN rows /\ t \in Nat /\ rows[t].family \in audited
    BY <1>a DEF IInv, KnownSessionsAudited
  <2>2. OnlyMoves(r)
    BY <1>6, <2>1, Moves DEF RefreshLookup, PC, OnlyMoves, Consistent
  <2>3. QED
    BY <1>6, <2>2, SameRows, RevokeStep DEF RefreshLookup
<1>7. ASSUME NEW r \in Request, NEW t \in known, RefreshReused(r, t)
      PROVE  IInv'
  <2>1. t \in DOMAIN rows /\ t \in Nat
    BY <1>a
  <2>2. OnlyMoves(r)
    BY <1>7, <2>1, Moves DEF RefreshReused, PC, OnlyMoves, Consistent
  <2>3. QED
    BY <1>7, <2>2, SameRows, RevokeStep DEF RefreshReused
<1>8. ASSUME NEW r \in Request, RefreshRevoke(r)
      PROVE  IInv'
  <2>1. req[r].row \in DOMAIN rows /\ rows[req[r].row].family \in audited
    BY <1>8, <1>a DEF RefreshRevoke, Consistent
  <2>2. OnlyRevokes /\ rows'[req[r].row].revoked
    BY <1>8, <2>1, RevokeRowOnly DEF RefreshRevoke
  <2>3. DOMAIN rows' = DOMAIN rows /\ rows'[req[r].row].family \in audited
    BY <1>a, <2>1, <2>2 DEF OnlyRevokes
  <2>4. OnlyMoves(r)
    BY <1>8, <2>1, <2>2, <2>3, Moves DEF RefreshRevoke, PC, OnlyMoves, Consistent
  <2>5. QED
    BY <1>8, <2>2, <2>4, RevokeStep DEF RefreshRevoke
<1>9. ASSUME NEW r \in Request, RefreshIssue(r)
      PROVE  IInv'
  <2> DEFINE p == req[r].row
  <2>1. p \in DOMAIN rows /\ rows[p].revoked /\ rows[p].family \in audited
    BY <1>9, <1>a DEF RefreshIssue, Consistent
  <2>2. rows[p].user \in User /\ rows[p].family \in Family /\ p \in Nat
    BY <1>a, <2>1, RowColumns
  <2>3. p \in FamilyRows(rows[p].family)
        /\ \A t \in FamilyRows(rows[p].family) : rows[t].user = rows[p].user
    BY <2>1 DEF FamilyRows, IInv, FamilyOneOwner
  <2>4. /\ DOMAIN rows' = 1..(Len(rows) + 1)
        /\ rows'[Len(rows) + 1].family = rows[p].family
    BY <1>9, <1>a DEF RefreshIssue, Insert
  <2>5. /\ req' \in [Request -> ReqState]
        /\ \A s \in Request \ {r} : req'[s] = req[s]
        /\ req'[r].pc = "respond" /\ req'[r].row = Len(rows) + 1
    BY <1>9, <1>a, Moves DEF RefreshIssue, PC
  <2>6. rows'[req'[r].row].family \in audited' /\ req'[r].row \in DOMAIN rows'
    BY <1>9, <1>a, <2>1, <2>4, <2>5 DEF RefreshIssue
  <2>7. OnlyMoves(r)
    BY <2>5, <2>6 DEF OnlyMoves, Consistent
  <2>8. QED
    BY <1>9, <2>1, <2>2, <2>3, <2>7, InsertStep DEF RefreshIssue
<1>10. ASSUME NEW r \in Request, ReuseRevoke(r)
      PROVE  IInv'
  <2>1. req[r].row \in DOMAIN rows
    BY <1>10, <1>a DEF ReuseRevoke, Consistent
  <2>2. OnlyRevokes
    BY <1>10, RevokeFamilyOnly DEF ReuseRevoke
  <2>3. DOMAIN rows' = DOMAIN rows
    BY <1>a, <2>2 DEF OnlyRevokes
  <2>4. OnlyMoves(r)
    BY <1>10, <2>1, <2>3, Moves DEF ReuseRevoke, PC, OnlyMoves, Consistent
  <2>5. QED
    BY <1>10, <2>2, <2>4, RevokeStep DEF ReuseRevoke
<1>11. ASSUME NEW r \in Request, ReuseAnswer(r)
      PROVE  IInv'
  BY <1>11, FinishMoves, SameRows, RevokeStep DEF ReuseAnswer
<1>12. ASSUME NEW r \in Request, NEW t \in known, LogoutLookup(r, t)
      PROVE  IInv'
  <2>1. t \in DOMAIN rows /\ t \in Nat
    BY <1>a
  <2>2. OnlyMoves(r)
    BY <1>12, <2>1, Moves DEF LogoutLookup, PC, OnlyMoves, Consistent
  <2>3. QED
    BY <1>12, <2>2, SameRows, RevokeStep DEF LogoutLookup
<1>13. ASSUME NEW r \in Request, LogoutRevoke(r)
      PROVE  IInv'
  BY <1>13, FinishMoves, RevokeFamilyOnly, RevokeStep DEF LogoutRevoke
<1>14. ASSUME NEW r \in Request, NEW u \in User, NEW t \in DOMAIN rows,
              RevokeLookup(r, u, t)
      PROVE  IInv'
  <2>1. OnlyMoves(r)
    BY <1>14, <1>a, Moves DEF RevokeLookup, OwnedBy, PC, OnlyMoves, Consistent
  <2>2. QED
    BY <1>14, <2>1, SameRows, RevokeStep DEF RevokeLookup
<1>15. ASSUME NEW r \in Request, RevokeCommit(r)
      PROVE  IInv'
  BY <1>15, FinishMoves, RevokeFamilyOnly, RevokeStep DEF RevokeCommit
<1>16. ASSUME NEW r \in Request, Abort(r)
      PROVE  IInv'
  BY <1>16, FinishMoves, SameRows, RevokeStep DEF Abort
<1>17. CASE Expire
  BY <1>17, <1>a DEF Expire, IInv, TypeOK, RequestsConsistent, Consistent,
     FamilyOneOwner, ConsumedBeforeReplaced, KnownSessionsAudited
<1>18. CASE UNCHANGED vars
  BY <1>18 DEF vars, IInv, TypeOK, RequestsConsistent, Consistent,
     FamilyOneOwner, ConsumedBeforeReplaced, KnownSessionsAudited
<1>19. QED
  BY <1>1, <1>2, <1>3, <1>4, <1>5, <1>6, <1>7, <1>8, <1>9, <1>10, <1>11, <1>12,
     <1>13, <1>14, <1>15, <1>16, <1>17, <1>18 DEF Next, Start, Continue

(* The inductive invariant holds of every behaviour.                       *)
THEOREM Invariance == Spec => []IInv
BY InitIInv, StepIInv, PTL DEF Spec

(* Spec keeps every variable in its type.                                  *)
THEOREM TypeCorrect == Spec => []TypeOK
BY Invariance, PTL DEF IInv

(* All rows of a family belong to the user who logged in, for any number   *)
(* of overlapping logins, rotations and revocations.                       *)
THEOREM OneOwner == Spec => []FamilyOneOwner
BY Invariance, PTL DEF IInv

(* No rotation has issued a row before the commit that revokes the row it  *)
(* exchanges.                                                              *)
THEOREM ConsumedFirst == Spec => []ConsumedBeforeReplaced
BY Invariance, PTL DEF IInv

(* No client holds a token of a login that is not in the audit log.        *)
THEOREM LoginsAudited == Spec => []KnownSessionsAudited
BY Invariance, PTL DEF IInv

(* The UPDATE of a session revocation hits only rows of the user whose     *)
(* ownership an earlier SELECT checked.                                    *)
THEOREM OwnershipStable == Spec => []RevokesOnlyOwnRows
<1>1. IInv => RevokesOnlyOwnRows
  <2> SUFFICES ASSUME IInv, NEW r \in Request, req[r].pc = "revoke",
                      NEW t \in FamilyRows(rows[req[r].row].family)
               PROVE  rows[t].user = req[r].user
    BY DEF RevokesOnlyOwnRows
  <2>1. req[r].row \in DOMAIN rows /\ rows[req[r].row].user = req[r].user
    BY DEF IInv, RequestsConsistent, Consistent
  <2>2. QED
    BY <2>1 DEF IInv, FamilyOneOwner, FamilyRows
<1>2. QED
  BY <1>1, Invariance, PTL

(* Every commit to refresh_tokens is one of three.                         *)
LEMMA RowsStep ==
    IInv /\ [Next]_vars =>
        \/ UNCHANGED rows
        \/ \E s \in DOMAIN rows : rows' = RevokeRow(s)
        \/ \E f \in Family : rows' = RevokeFamily(f)
        \/ \E u \in User, f \in Family, p \in Nat : rows' = Insert(u, f, p)
<1> SUFFICES ASSUME IInv, [Next]_vars, rows' # rows
             PROVE  \/ \E s \in DOMAIN rows : rows' = RevokeRow(s)
                    \/ \E f \in Family : rows' = RevokeFamily(f)
                    \/ \E u \in User, f \in Family, p \in Nat : rows' = Insert(u, f, p)
  OBVIOUS
<1>a. rows \in Seq(Row) /\ DOMAIN rows \subseteq Nat
  BY DEF IInv, TypeOK
<1>b. ASSUME NEW r \in Request, req[r].pc \notin {"idle", "register"}
      PROVE  /\ req[r].row \in DOMAIN rows
             /\ rows[req[r].row].user \in User /\ rows[req[r].row].family \in Family
  BY <1>a, <1>b, RowColumns DEF IInv, RequestsConsistent, Consistent
<1>1. PICK r \in Request :
        \/ \E u \in User, f \in Family : Login(r, u, f)
        \/ RefreshRevoke(r) \/ RefreshIssue(r)
        \/ ReuseRevoke(r) \/ LogoutRevoke(r) \/ RevokeCommit(r)
  BY DEF Next, Start, Continue, vars, RegisterCheck, RegisterInsert, LoginAudit, Respond,
     RefreshLookup, RefreshReused, ReuseAnswer, LogoutLookup, RevokeLookup, Abort, Expire
<1>2. CASE \E u \in User, f \in Family : Login(r, u, f)
  BY <1>2 DEF Login
<1>3. CASE RefreshRevoke(r)
  BY <1>3, <1>b DEF RefreshRevoke
<1>4. CASE RefreshIssue(r)
  BY <1>4, <1>a, <1>b DEF RefreshIssue
<1>5. CASE ReuseRevoke(r) \/ LogoutRevoke(r) \/ RevokeCommit(r)
  BY <1>5, <1>b DEF ReuseRevoke, LogoutRevoke, RevokeCommit
<1>6. QED
  BY <1>1, <1>2, <1>3, <1>4, <1>5

(* An insertion leaves the rows that exist as they are.                    *)
LEMMA InsertKeeps ==
    ASSUME IInv, NEW u \in User, NEW f \in Family, NEW p \in Nat, rows' = Insert(u, f, p)
    PROVE  /\ rows' \in Seq(Row) /\ Len(rows') = Len(rows) + 1
           /\ \A t \in 1..Len(rows) : rows'[t] = rows[t]
           /\ LET n == Len(rows) + 1
              IN  /\ rows'[n].user = u /\ rows'[n].family = f /\ rows'[n].parent = p
                  /\ ~rows'[n].revoked
<1>1. rows \in Seq(Row) /\ Len(rows) \in Nat
  BY DEF IInv, TypeOK
<1>2. rows' = Append(rows, [user |-> u, family |-> f, revoked |-> FALSE, parent |-> p])
  BY DEF Insert
<1>3. [user |-> u, family |-> f, revoked |-> FALSE, parent |-> p] \in Row
  BY DEF Row
<1>4. QED
  BY <1>1, <1>2, <1>3

(* No row is ever deleted, un-revoked or given away.                       *)
THEOREM HistoryKept == Spec => RowsKeepHistory
<1>1. IInv /\ [Next]_vars =>
        [/\ Len(rows) <= Len(rows')
         /\ \A t \in DOMAIN rows :
              /\ rows'[t].user = rows[t].user
              /\ rows'[t].family = rows[t].family
              /\ rows[t].revoked => rows'[t].revoked]_vars
  <2> SUFFICES ASSUME IInv, [Next]_vars
               PROVE  /\ Len(rows) <= Len(rows')
                      /\ \A t \in DOMAIN rows :
                           /\ rows'[t].user = rows[t].user
                           /\ rows'[t].family = rows[t].family
                           /\ rows[t].revoked => rows'[t].revoked
    OBVIOUS
  <2>1. DOMAIN rows = 1..Len(rows) /\ Len(rows) \in Nat
    BY DEF IInv, TypeOK
  <2>2. CASE OnlyRevokes
    BY <2>1, <2>2 DEF OnlyRevokes
  <2>3. CASE \E u \in User, f \in Family, p \in Nat : rows' = Insert(u, f, p)
    BY <2>1, <2>3, InsertKeeps
  <2>4. QED
    BY <2>2, <2>3, RowsStep, SameRows, RevokeRowOnly, RevokeFamilyOnly
<1>2. QED
  BY <1>1, Invariance, PTL DEF Spec, RowsKeepHistory

(* No commit revokes rows of two families.                                 *)
THEOREM OneFamilyAtATime == Spec => RevocationScope
<1>1. IInv /\ [Next]_vars =>
        [\A s, t \in DOMAIN rows :
            NewlyRevoked(s) /\ NewlyRevoked(t) => rows[s].family = rows[t].family]_vars
  <2> SUFFICES ASSUME IInv, [Next]_vars,
                      NEW s \in DOMAIN rows, NEW t \in DOMAIN rows,
                      NewlyRevoked(s), NewlyRevoked(t)
               PROVE  rows[s].family = rows[t].family
    OBVIOUS
  <2>1. rows \in Seq(Row) /\ DOMAIN rows = 1..Len(rows)
    BY DEF IInv, TypeOK
  <2>2. CASE UNCHANGED rows
    BY <2>2 DEF NewlyRevoked
  <2>3. ASSUME NEW x \in DOMAIN rows, rows' = RevokeRow(x)
        PROVE  s = x /\ t = x
    BY <2>1, <2>3, RevokeOneRow DEF NewlyRevoked
  <2>4. ASSUME NEW f \in Family, rows' = RevokeFamily(f)
        PROVE  rows[s].family = f /\ rows[t].family = f
    BY <2>1, <2>4, RevokeWholeFamily DEF NewlyRevoked
  <2>5. CASE \E u \in User, f \in Family, p \in Nat : rows' = Insert(u, f, p)
    BY <2>1, <2>5, InsertKeeps DEF NewlyRevoked
  <2>6. QED
    BY <2>2, <2>3, <2>4, <2>5, RowsStep
<1>2. QED
  BY <1>1, Invariance, PTL DEF Spec, RevocationScope

-----------------------------------------------------------------------------
(* Refinement: the token chains implement SessionLifecycle.                *)

AbstractStatus == [f \in Family |-> FamilyStatus(f)]
AbstractOwner == [f \in Family |-> FamilyOwner(f)]

(* FamilyOwner names the user of any row of the family.                    *)
LEMMA OwnerOfRow ==
    IInv => \A f \in Family : \A t \in FamilyRows(f) : FamilyOwner(f) = rows[t].user
BY DEF IInv, FamilyOneOwner, FamilyOwner, Fresh, FamilyRows

LEMMA OwnerOfRowNext ==
    (IInv => \A f \in Family : \A t \in FamilyRows(f) : FamilyOwner(f) = rows[t].user)'
BY OwnerOfRow, PTL

(* A step that inserts nothing and reopens nothing is a Close of the one   *)
(* family it may close, or a stutter.                                      *)
LEMMA CloseStep ==
    ASSUME IInv, IInv', NEW g, OnlyRevokes,
           \A f \in Family : Open(f)' => Open(f),
           \A f \in Family : f # g /\ Open(f) => Open(f)'
    PROVE  [Lifecycle!Next]_(Lifecycle!lifecycleVars)
<1>a. DOMAIN rows = 1..Len(rows) /\ DOMAIN rows' = 1..Len(rows)
  BY DEF IInv, TypeOK, OnlyRevokes
<1>1. ASSUME NEW f \in Family
      PROVE  FamilyRows(f)' = FamilyRows(f)
  BY <1>a DEF FamilyRows, OnlyRevokes
<1>2. ASSUME NEW f \in Family
      PROVE  FamilyOwner(f)' = FamilyOwner(f)
  <2>1. CASE FamilyRows(f) = {}
    BY <1>1, <2>1 DEF FamilyOwner, Fresh
  <2>2. CASE FamilyRows(f) # {}
    <3>1. PICK t \in FamilyRows(f) : TRUE
      BY <2>2
    <3>2. FamilyOwner(f) = rows[t].user
      BY <3>1, OwnerOfRow
    <3>3. FamilyOwner(f)' = rows'[t].user
      BY <1>1, <3>1, OwnerOfRowNext
    <3>4. QED
      BY <1>a, <3>1, <3>2, <3>3 DEF FamilyRows, OnlyRevokes
  <2>3. QED
    BY <2>1, <2>2
<1>3. ASSUME NEW f \in Family
      PROVE  /\ f # g => FamilyStatus(f)' = FamilyStatus(f)
             /\ \/ FamilyStatus(f)' = FamilyStatus(f)
                \/ FamilyStatus(f) = "open" /\ FamilyStatus(f)' = "closed"
  BY <1>1 DEF FamilyStatus, Fresh
<1>4. AbstractOwner' = AbstractOwner
  BY <1>2 DEF AbstractOwner
<1>5. CASE \E f \in Family : FamilyStatus(f)' # FamilyStatus(f)
  <2>1. /\ g \in Family
        /\ FamilyStatus(g) = "open" /\ FamilyStatus(g)' = "closed"
        /\ \A f \in Family \ {g} : FamilyStatus(f)' = FamilyStatus(f)
    BY <1>3, <1>5
  <2>2. AbstractStatus' = [AbstractStatus EXCEPT ![g] = "closed"]
    BY <2>1 DEF AbstractStatus
  <2>3. Lifecycle!Close(g)
    BY <1>4, <2>1, <2>2 DEF Lifecycle!Close, AbstractStatus, AbstractOwner
  <2>4. QED
    BY <2>1, <2>3 DEF Lifecycle!Next
<1>6. CASE \A f \in Family : FamilyStatus(f)' = FamilyStatus(f)
  <2>1. AbstractStatus' = AbstractStatus
    BY <1>6 DEF AbstractStatus
  <2>2. QED
    BY <1>4, <2>1 DEF Lifecycle!lifecycleVars, AbstractStatus, AbstractOwner
<1>7. QED
  BY <1>5, <1>6

(* A request of family g that only revokes rows of g, and that rotates g   *)
(* afterwards only if g was open, closes g or nothing.                     *)
LEMMA RequestStep ==
    ASSUME IInv, IInv', NEW r \in Request, NEW g, OnlyRevokes, OnlyMoves(r),
           horizon' = horizon,
           \A t \in 1..Len(rows) :
                rows[t].family # g => (rows'[t].revoked <=> rows[t].revoked),
           req[r].pc \in {"rotate", "issue"} => rows[req[r].row].family = g,
           req'[r].pc \in {"rotate", "issue"} =>
                rows'[req'[r].row].family = g /\ (g \in Family => Open(g))
    PROVE  [Lifecycle!Next]_(Lifecycle!lifecycleVars)
<1>a. DOMAIN rows = 1..Len(rows) /\ DOMAIN rows' = 1..Len(rows)
  BY DEF IInv, TypeOK, OnlyRevokes
<1>b. ASSUME NEW s \in Request \ {r}, req[s].pc \in {"rotate", "issue"}
      PROVE  req'[s] = req[s] /\ rows'[req[s].row].family = rows[req[s].row].family
  <2>1. req[s].row \in 1..Len(rows)
    BY <1>a, <1>b DEF IInv, RequestsConsistent, Consistent
  <2>2. QED
    BY <2>1 DEF OnlyRevokes, OnlyMoves
<1>1. ASSUME NEW f \in Family, Open(f)'
      PROVE  Open(f)
  <2>1. CASE Rotating(f)'
    <3>1. PICK s \in Request : req'[s].pc \in {"rotate", "issue"} /\ rows'[req'[s].row].family = f
      BY <2>1 DEF Rotating
    <3>2. CASE s = r
      BY <3>1, <3>2
    <3>3. CASE s # r
      <4>1. req'[s] = req[s]
        BY <3>3 DEF OnlyMoves
      <4>2. req[s].pc \in {"rotate", "issue"} /\ rows[req[s].row].family = f
        BY <1>b, <3>1, <3>3, <4>1
      <4>3. QED
        BY <4>2 DEF Open, Rotating
    <3>4. QED
      BY <3>2, <3>3
  <2>2. CASE \E t \in FamilyRows(f)' : Usable(t)'
    <3>1. PICK t \in 1..Len(rows) : rows'[t].family = f /\ ~rows'[t].revoked /\ ~(t <= horizon)
      BY <1>a, <2>2 DEF FamilyRows, Usable, Expired
    <3>2. t \in FamilyRows(f) /\ Usable(t)
      BY <1>a, <3>1 DEF FamilyRows, Usable, Expired, OnlyRevokes
    <3>3. QED
      BY <3>2 DEF Open
  <2>3. QED
    BY <1>1, <2>1, <2>2 DEF Open
<1>2. ASSUME NEW f \in Family, f # g, Open(f)
      PROVE  Open(f)'
  <2>1. CASE Rotating(f)
    <3>1. PICK s \in Request : req[s].pc \in {"rotate", "issue"} /\ rows[req[s].row].family = f
      BY <2>1 DEF Rotating
    <3>2. s # r
      BY <1>2, <3>1
    <3>3. req'[s].pc \in {"rotate", "issue"} /\ rows'[req'[s].row].family = f
      BY <1>b, <3>1, <3>2
    <3>4. QED
      BY <3>3 DEF Open, Rotating
  <2>2. CASE \E t \in FamilyRows(f) : Usable(t)
    <3>1. PICK t \in 1..Len(rows) : rows[t].family = f /\ ~rows[t].revoked /\ ~(t <= horizon)
      BY <1>a, <2>2 DEF FamilyRows, Usable, Expired
    <3>2. rows'[t].family = f /\ ~rows'[t].revoked /\ ~(t <= horizon')
      BY <1>2, <3>1 DEF OnlyRevokes
    <3>3. QED
      BY <1>a, <3>1, <3>2 DEF Open, FamilyRows, Usable, Expired
  <2>3. QED
    BY <1>2, <2>1, <2>2 DEF Open
<1>3. QED
  BY <1>1, <1>2, CloseStep

(* Only a rotating request keeps a family open.                            *)
NotRotating(q) == q.pc \notin {"rotate", "issue"}

(* The insertion of a row of family f by a request that rotates no other   *)
(* family opens f, or leaves it open, and touches nothing else.            *)
LEMMA InsertOpens ==
    ASSUME IInv, IInv', NEW r \in Request, NEW u \in User, NEW f \in Family, NEW p \in Nat,
           rows' = Insert(u, f, p), horizon' = horizon, OnlyMoves(r),
           ~NotRotating(req[r]) => rows[req[r].row].family = f,
           NotRotating(req'[r])
    PROVE  /\ \A h \in Family \ {f} :
                FamilyStatus(h)' = FamilyStatus(h) /\ FamilyOwner(h)' = FamilyOwner(h)
           /\ FamilyStatus(f)' = "open" /\ FamilyOwner(f)' = u
<1>n. PICK n \in Nat : n = Len(rows) + 1
  BY DEF IInv, TypeOK
<1>a. /\ DOMAIN rows = 1..Len(rows) /\ Len(rows) \in Nat /\ DOMAIN rows' = 1..n
      /\ \A t \in 1..Len(rows) : rows'[t] = rows[t]
      /\ rows'[n].user = u /\ rows'[n].family = f /\ ~rows'[n].revoked
      /\ horizon \in 0..Len(rows)
  <2>1. /\ rows' \in Seq(Row) /\ Len(rows') = Len(rows) + 1
        /\ \A t \in 1..Len(rows) : rows'[t] = rows[t]
        /\ rows'[n].user = u /\ rows'[n].family = f /\ ~rows'[n].revoked
    BY <1>n, InsertKeeps
  <2>2. QED
    BY <1>n, <2>1 DEF IInv, TypeOK
<1>1. ASSUME NEW h \in Family \ {f}
      PROVE  FamilyRows(h)' = FamilyRows(h)
  BY <1>a, <1>n DEF FamilyRows
<1>2. ASSUME NEW h \in Family \ {f}
      PROVE  Rotating(h)' <=> Rotating(h)
  <2>1. ASSUME NEW s \in Request \ {r}, ~NotRotating(req[s])
        PROVE  req'[s] = req[s] /\ rows'[req[s].row] = rows[req[s].row]
    <3>1. req[s].row \in 1..Len(rows)
      BY <1>a, <2>1 DEF IInv, RequestsConsistent, Consistent, NotRotating
    <3>2. QED
      BY <1>a, <3>1 DEF OnlyMoves
  <2>2. \A s \in Request \ {r} : req'[s] = req[s]
    BY DEF OnlyMoves
  <2>3. Rotating(h) => Rotating(h)'
    BY <2>1, <2>2 DEF Rotating, NotRotating
  <2>4. Rotating(h)' => Rotating(h)
    BY <2>1, <2>2 DEF Rotating, NotRotating
  <2>5. QED
    BY <2>3, <2>4
<1>3. ASSUME NEW h \in Family \ {f}
      PROVE  FamilyStatus(h)' = FamilyStatus(h)
  <2>1. \A t \in FamilyRows(h) : Usable(t)' <=> Usable(t)
    BY <1>a DEF FamilyRows, Usable, Expired
  <2>2. Open(h)' <=> Open(h)
    BY <1>1, <1>2, <2>1 DEF Open
  <2>3. QED
    BY <1>1, <2>2 DEF FamilyStatus, Fresh
<1>4. ASSUME NEW h \in Family \ {f}
      PROVE  FamilyOwner(h)' = FamilyOwner(h)
  <2>1. CASE FamilyRows(h) = {}
    BY <1>1, <2>1 DEF FamilyOwner, Fresh
  <2>2. CASE FamilyRows(h) # {}
    <3>1. PICK t \in FamilyRows(h) : TRUE
      BY <2>2
    <3>2. FamilyOwner(h) = rows[t].user /\ FamilyOwner(h)' = rows'[t].user
      BY <1>1, <3>1, OwnerOfRow, OwnerOfRowNext
    <3>3. QED
      BY <1>a, <3>1, <3>2 DEF FamilyRows
  <2>3. QED
    BY <2>1, <2>2
<1>5. n \in FamilyRows(f)' /\ Usable(n)'
  BY <1>a, <1>n DEF FamilyRows, Usable, Expired
<1>6. FamilyStatus(f)' = "open"
  BY <1>5 DEF FamilyStatus, Fresh, Open
<1>7. FamilyOwner(f)' = u
  BY <1>a, <1>5, OwnerOfRowNext
<1>8. QED
  BY <1>3, <1>4, <1>6, <1>7

(* Every step of Sessions is a step of SessionLifecycle or a stutter.      *)
LEMMA StepRefines ==
    IInv /\ IInv' /\ [Next]_vars => [Lifecycle!Next]_(Lifecycle!lifecycleVars)
<1> SUFFICES ASSUME IInv, IInv', [Next]_vars
             PROVE  [Lifecycle!Next]_(Lifecycle!lifecycleVars)
  OBVIOUS
<1>a. /\ rows \in Seq(Row) /\ Len(rows) \in Nat /\ DOMAIN rows = 1..Len(rows)
      /\ known \subseteq DOMAIN rows /\ horizon \in 0..Len(rows)
      /\ \A r \in Request : Consistent(req[r])
      /\ \A r \in Request : Consistent(req[r])'
  BY DEF IInv, TypeOK, RequestsConsistent
<1>b. ASSUME NEW r \in Request, Finish(r), UNCHANGED <<rows, horizon>>
      PROVE  [Lifecycle!Next]_(Lifecycle!lifecycleVars)
  <2>1. OnlyMoves(r) /\ req'[r].pc = "idle"
    BY <1>b, FinishMoves, Moves
  <2>2. QED
    BY <1>b, <2>1, SameRows, RequestStep
<1>c. ASSUME NEW r \in Request, NEW pc \in PC \ {"rotate", "issue"}, NEW t \in Nat,
             NEW u \in User \cup {NoUser}, req[r].pc = "idle",
             Begin(r, pc, t, u), UNCHANGED <<rows, horizon>>
      PROVE  [Lifecycle!Next]_(Lifecycle!lifecycleVars)
  <2>1. OnlyMoves(r) /\ req'[r].pc = pc
    BY <1>a, <1>c, Moves DEF OnlyMoves
  <2>2. QED
    BY <1>c, <2>1, SameRows, RequestStep
<1>d. ASSUME NEW r \in Request, NotRotating(req[r]), NotRotating(req'[r]), OnlyMoves(r),
             req[r].pc \notin {"idle", "register"},
             rows' = RevokeFamily(rows[req[r].row].family), horizon' = horizon
      PROVE  [Lifecycle!Next]_(Lifecycle!lifecycleVars)
  BY <1>d, RevokeFamilyOnly, RequestStep DEF NotRotating
<1>1. ASSUME NEW r \in Request, NEW u \in User, RegisterCheck(r, u)
      PROVE  [Lifecycle!Next]_(Lifecycle!lifecycleVars)
  BY <1>1, <1>c DEF RegisterCheck, PC
<1>2. ASSUME NEW r \in Request,
             RegisterInsert(r) \/ Respond(r) \/ ReuseAnswer(r) \/ Abort(r)
      PROVE  [Lifecycle!Next]_(Lifecycle!lifecycleVars)
  BY <1>2, <1>b DEF RegisterInsert, Respond, ReuseAnswer, Abort
<1>3. ASSUME NEW r \in Request, NEW u \in User, NEW f \in Family, Login(r, u, f)
      PROVE  [Lifecycle!Next]_(Lifecycle!lifecycleVars)
  <2>1. OnlyMoves(r) /\ req'[r].pc = "login_audit"
    BY <1>3, <1>a, Moves DEF Login, PC, OnlyMoves
  <2>2. /\ \A h \in Family \ {f} :
              FamilyStatus(h)' = FamilyStatus(h) /\ FamilyOwner(h)' = FamilyOwner(h)
        /\ FamilyStatus(f)' = "open" /\ FamilyOwner(f)' = u
    BY <1>3, <2>1, InsertOpens DEF Login, NotRotating
  <2>3. FamilyStatus(f) = "unopened"
    BY <1>3 DEF Login, FamilyStatus
  <2>4. AbstractStatus' = [AbstractStatus EXCEPT ![f] = "open"]
        /\ AbstractOwner' = [AbstractOwner EXCEPT ![f] = u]
    BY <2>2 DEF AbstractStatus, AbstractOwner
  <2>5. Lifecycle!Open(f, u)
    BY <2>3, <2>4 DEF Lifecycle!Open, AbstractStatus, AbstractOwner
  <2>6. QED
    BY <2>5 DEF Lifecycle!Next
<1>4. ASSUME NEW r \in Request, LoginAudit(r)
      PROVE  [Lifecycle!Next]_(Lifecycle!lifecycleVars)
  <2>1. OnlyMoves(r) /\ req'[r].pc = "respond"
    BY <1>4, <1>a, Moves DEF LoginAudit, PC, OnlyMoves
  <2>2. QED
    BY <1>4, <2>1, SameRows, RequestStep DEF LoginAudit
<1>5. ASSUME NEW r \in Request, NEW t \in known, RefreshLookup(r, t)
      PROVE  [Lifecycle!Next]_(Lifecycle!lifecycleVars)
  <2>1. /\ t \in DOMAIN rows /\ t \in Nat
    BY <1>a
  <2>2. OnlyMoves(r) /\ req'[r].pc = "rotate" /\ req'[r].row = t
    BY <1>5, <1>a, <2>1, Moves DEF RefreshLookup, PC, OnlyMoves
  <2>3. Open(rows[t].family)
    BY <1>5, <2>1 DEF RefreshLookup, Open, FamilyRows
  <2>4. QED
    BY <1>5, <2>2, <2>3, SameRows, RequestStep DEF RefreshLookup
<1>6. ASSUME NEW r \in Request, NEW t \in known, RefreshReused(r, t) \/ LogoutLookup(r, t)
      PROVE  [Lifecycle!Next]_(Lifecycle!lifecycleVars)
  BY <1>6, <1>a, <1>c DEF RefreshReused, LogoutLookup, PC
<1>7. ASSUME NEW r \in Request, NEW u \in User, NEW t \in DOMAIN rows, RevokeLookup(r, u, t)
      PROVE  [Lifecycle!Next]_(Lifecycle!lifecycleVars)
  BY <1>7, <1>a, <1>c DEF RevokeLookup, PC
<1>8. ASSUME NEW r \in Request, RefreshRevoke(r)
      PROVE  [Lifecycle!Next]_(Lifecycle!lifecycleVars)
  <2> DEFINE p == req[r].row
             g == rows[p].family
  <2>1. p \in DOMAIN rows
    BY <1>8, <1>a DEF RefreshRevoke, Consistent
  <2>2. OnlyRevokes
    BY <1>8, <2>1, RevokeRowOnly DEF RefreshRevoke
  <2>3. \A t \in 1..Len(rows) :
            rows[t].family # g => (rows'[t].revoked <=> rows[t].revoked)
    BY <1>8, <1>a, <2>1, RevokeOneRow DEF RefreshRevoke
  <2>4. OnlyMoves(r) /\ req'[r].pc = "issue" /\ req'[r].row = p
    BY <1>8, <1>a, Moves DEF RefreshRevoke, PC, OnlyMoves
  <2>5. rows'[p].family = g
    BY <1>a, <2>1, <2>2 DEF OnlyRevokes
  <2>6. Open(g)
    BY <1>8 DEF RefreshRevoke, Open, Rotating
  <2>7. QED
    BY <1>8, <2>2, <2>3, <2>4, <2>5, <2>6, RequestStep DEF RefreshRevoke
<1>9. ASSUME NEW r \in Request, RefreshIssue(r)
      PROVE  [Lifecycle!Next]_(Lifecycle!lifecycleVars)
  <2>p. req[r].row \in DOMAIN rows
    BY <1>9, <1>a DEF RefreshIssue, Consistent
  <2>1. PICK p \in DOMAIN rows, f \in Family, u \in User :
            p = req[r].row /\ f = rows[p].family /\ u = rows[p].user
    BY <1>a, <2>p, RowColumns
  <2>2. p \in Nat /\ p \in FamilyRows(f)
    BY <1>a, <2>1 DEF FamilyRows
  <2>3. OnlyMoves(r) /\ req'[r].pc = "respond"
    BY <1>9, <1>a, Moves DEF RefreshIssue, PC, OnlyMoves
  <2>4. /\ \A h \in Family \ {f} :
              FamilyStatus(h)' = FamilyStatus(h) /\ FamilyOwner(h)' = FamilyOwner(h)
        /\ FamilyStatus(f)' = "open" /\ FamilyOwner(f)' = u
    BY <1>9, <2>1, <2>2, <2>3, InsertOpens DEF RefreshIssue, NotRotating
  <2>5. FamilyOwner(f) = u
    BY <2>1, <2>2, OwnerOfRow
  <2>6. FamilyStatus(f) = "open"
    BY <1>9, <2>1, <2>2 DEF RefreshIssue, FamilyStatus, Fresh, Open, Rotating
  <2>7. AbstractStatus' = AbstractStatus /\ AbstractOwner' = AbstractOwner
    BY <2>4, <2>5, <2>6 DEF AbstractStatus, AbstractOwner
  <2>8. QED
    BY <2>7 DEF Lifecycle!lifecycleVars, AbstractStatus, AbstractOwner
<1>10. ASSUME NEW r \in Request, ReuseRevoke(r)
      PROVE  [Lifecycle!Next]_(Lifecycle!lifecycleVars)
  <2>1. OnlyMoves(r) /\ req'[r].pc = "raised"
    BY <1>10, <1>a, Moves DEF ReuseRevoke, PC, OnlyMoves
  <2>2. QED
    BY <1>10, <1>d, <2>1 DEF ReuseRevoke, NotRotating
<1>11. ASSUME NEW r \in Request, LogoutRevoke(r) \/ RevokeCommit(r)
      PROVE  [Lifecycle!Next]_(Lifecycle!lifecycleVars)
  <2>1. Finish(r)
    BY <1>11 DEF LogoutRevoke, RevokeCommit
  <2>2. OnlyMoves(r) /\ req'[r].pc = "idle"
    BY <2>1, FinishMoves, Moves
  <2>3. QED
    BY <1>11, <1>d, <2>2 DEF LogoutRevoke, RevokeCommit, NotRotating
<1>12. CASE Expire
  <2> DEFINE g == rows[horizon + 1].family
  <2>1. rows' = rows /\ req' = req /\ horizon' = horizon + 1 /\ horizon \in Nat
    BY <1>12, <1>a DEF Expire
  <2>2. ASSUME NEW f \in Family
        PROVE  /\ FamilyRows(f)' = FamilyRows(f)
               /\ Rotating(f)' <=> Rotating(f)
               /\ \A t \in FamilyRows(f) : Usable(t)' => Usable(t)
               /\ \A t \in FamilyRows(f) : f # g /\ Usable(t) => Usable(t)'
    BY <1>a, <2>1 DEF FamilyRows, Rotating, Usable, Expired
  <2>3. \A f \in Family : (Open(f)' => Open(f)) /\ (f # g /\ Open(f) => Open(f)')
    BY <2>2 DEF Open
  <2>4. QED
    BY <2>1, <2>3, SameRows, CloseStep
<1>13. CASE UNCHANGED vars
  <2>1. \A f \in Family : Open(f)' <=> Open(f)
    BY <1>13 DEF vars, Open, Rotating, FamilyRows, Usable, Expired
  <2>2. QED
    BY <1>13, <2>1, SameRows, CloseStep DEF vars
<1>14. QED
  BY <1>1, <1>2, <1>3, <1>4, <1>5, <1>6, <1>7, <1>8, <1>9, <1>10, <1>11, <1>12, <1>13
     DEF Next, Start, Continue

(* Refresh-token chains implement the life of a session: a family is       *)
(* opened once, by one user, and never again after it has closed.          *)
THEOREM Refinement == Spec => ImplementsLifecycle
<1>1. Init => Lifecycle!Init
  BY DEF Init, Lifecycle!Init, FamilyStatus, FamilyOwner, Fresh, FamilyRows
<1>2. QED
  BY <1>1, StepRefines, Invariance, PTL DEF Spec, Lifecycle!Spec, ImplementsLifecycle
=============================================================================
