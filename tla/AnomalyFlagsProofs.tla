------------------------- MODULE AnomalyFlagsProofs -------------------------
(***************************************************************************)
(* The properties of AnomalyFlags for any number of transactions, pairs,   *)
(* requests and rows.                                                      *)
(*                                                                         *)
(* The argument: the rows of a transaction carry increasing ids, so a row  *)
(* of the table that has an id from the past is the row it was then, and   *)
(* it has kept its dismissal (lemma RowHistory).  Hence what a refit found *)
(* dismissed when it began is either gone or still dismissed when it reads *)
(* the pairs to suppress.                                                  *)
(***************************************************************************)
EXTENDS AnomalyFlags, TLAPS

(* A row dismissed when the refit began is dismissed if it is still there. *)
StartStaysDismissed ==
    \A r \in Request, u \in Txn : req[r].start[u] # NoRow =>
        /\ req[r].start[u].dismissed
        /\ flags[u].id = req[r].start[u].id => flags[u] = req[r].start[u]

(* What the refit loaded as suppressed covers the dismissals it began with.*)
SuppressesStart ==
    \A r \in Request, u \in Txn :
        /\ req[r].pc = "suppress"
        /\ req[r].start[u] # NoRow
        /\ req[r].start[u] = flags[u]
        => Sig[u] \in req[r].suppressed

(* Only a refit past its fit has results.                                  *)
ResultsAfterFit ==
    \A r \in Request : req[r].pc # "reconcile" => req[r].results = {}

IInv ==
    /\ TypeOK
    /\ StartStaysDismissed
    /\ SuppressesStart
    /\ ResultsAfterFit
    /\ FeedbackApplied

-----------------------------------------------------------------------------

(* NoRow is told apart from every row by its id.                           *)
LEMMA RowOrNone ==
    ASSUME NEW x \in Row \cup {NoRow}
    PROVE  /\ x.id \in Nat /\ x.dismissed \in BOOLEAN
           /\ x = [id |-> x.id, dismissed |-> x.dismissed]
           /\ x = NoRow <=> x.id = 0
           /\ x.dismissed => x.id # 0
<1>1. CASE x \in Row
  BY <1>1, AnomalyAssumption DEF Row, NoRow
<1>2. CASE x = NoRow
  BY <1>2 DEF NoRow
<1> QED
  BY <1>1, <1>2

LEMMA IdleType == Idle \in ReqState
  BY DEF Idle, ReqState, PC, Table, NoFlags

(* What a step can do to the row of one transaction.                       *)
RowStep(t) ==
    \/ flags'[t] = NoRow
    \/ flags[t] = NoRow /\ flags'[t] = [id |-> nextId, dismissed |-> FALSE]
    \/ /\ flags'[t].id = flags[t].id
       /\ flags[t].dismissed => flags'[t].dismissed

(* The four outcomes of a refit for one transaction.                       *)
LEMMA CommitRow ==
    ASSUME TypeOK, NEW r \in Request, DetectCommit(r), NEW t \in Txn
    PROVE  \/ /\ t \in Inserts(r) /\ flags[t] = NoRow /\ t \in txns
              /\ flags'[t] = [id |-> nextId, dismissed |-> FALSE]
           \/ flags'[t] = flags[t]
           \/ t \in Deletes(r) /\ Holds(r, t) /\ flags'[t] = NoRow
<1>1. CASE t \in Inserts(r)
  <2>1. flags[t] = NoRow /\ t \in txns
    BY <1>1 DEF DetectCommit, Conflict, Flagged
  <2>2. flags'[t] = [id |-> nextId, dismissed |-> FALSE]
    <3>1. t \notin Updates(r) /\ t \notin Deletes(r)
      BY <1>1 DEF Inserts, Updates, Deletes, Active
    <3> QED
      BY <1>1, <3>1 DEF DetectCommit
  <2> QED
    BY <1>1, <2>1, <2>2
<1>2. CASE t \notin Inserts(r) /\ t \in Updates(r) /\ Holds(r, t)
  <2>1. t \notin Deletes(r)
    BY <1>2 DEF Updates, Deletes
  <2> QED
    BY <1>2, <2>1 DEF DetectCommit, Updated
<1>3. CASE t \notin Inserts(r) /\ t \in Deletes(r) /\ Holds(r, t)
  <2>1. t \notin Updates(r)
    BY <1>3 DEF Updates, Deletes
  <2> QED
    BY <1>3, <2>1 DEF DetectCommit
<1>4. CASE /\ t \notin Inserts(r)
           /\ ~(t \in Updates(r) /\ Holds(r, t))
           /\ ~(t \in Deletes(r) /\ Holds(r, t))
  BY <1>4 DEF DetectCommit
<1> QED
  BY <1>1, <1>2, <1>3, <1>4

(* A row never changes its id, and never loses its dismissal.              *)
LEMMA RowHistory ==
    ASSUME TypeOK, [Next]_vars, NEW t \in Txn
    PROVE  RowStep(t)
<1>1. flags[t] \in Row \cup {NoRow}
  BY DEF TypeOK, Table
<1>2. ASSUME flags'[t] = flags[t] PROVE RowStep(t)
  BY <1>2 DEF RowStep
<1>3. ASSUME NEW T \in SUBSET Txn, AddTransactions(T) PROVE RowStep(t)
  BY <1>2, <1>3 DEF AddTransactions
<1>4. ASSUME NEW T \in SUBSET Txn, DeleteTransactions(T) PROVE RowStep(t)
  BY <1>4 DEF DeleteTransactions, RowStep
<1>5. ASSUME NEW r \in Request,
             \/ DetectLoad(r) \/ DetectSuppressed(r) \/ DetectFit(r) \/ DetectFail(r)
             \/ DismissFail(r) \/ \E u \in Txn : DismissLookup(r, u)
      PROVE  RowStep(t)
  BY <1>2, <1>5 DEF DetectLoad, DetectSuppressed, DetectFit, DetectFail, DismissFail,
                    DismissLookup
<1>6. ASSUME NEW r \in Request, DetectCommit(r) PROVE RowStep(t)
  BY <1>6, CommitRow DEF RowStep
<1>7. ASSUME NEW r \in Request, DismissCommit(r) PROVE RowStep(t)
  <2>1. PICK u \in Txn : flags' = [flags EXCEPT ![u].dismissed = TRUE]
    BY <1>7 DEF DismissCommit, Selected
  <2>2. flags'[t].id = flags[t].id /\ (flags[t].dismissed => flags'[t].dismissed)
    BY <1>1, <2>1 DEF TypeOK, Table, Row, NoRow
  <2> QED
    BY <2>2 DEF RowStep
<1>8. CASE UNCHANGED vars
  BY <1>2, <1>8 DEF vars
<1> QED
  BY <1>3, <1>4, <1>5, <1>6, <1>7, <1>8 DEF Next

(* The part of TypeOK about the tables, and the part about requests.       *)
TablesOK ==
    /\ txns \subseteq Txn
    /\ flags \in Table
    /\ nextId \in 1..(MaxId + 1)
    /\ \A t \in Txn : Flagged(t) => t \in txns /\ flags[t].id < nextId

ReqOK ==
    /\ req \in [Request -> ReqState]
    /\ \A r \in Request, t \in Txn :
        req[r].existing[t].id < nextId /\ req[r].start[t].id < nextId

LEMMA TypeParts == TypeOK <=> TablesOK /\ ReqOK
  BY DEF TypeOK, TablesOK, ReqOK

LEMMA InitInv == Init => IInv
<1> SUFFICES ASSUME Init PROVE IInv
  OBVIOUS
<1>1. TablesOK
  BY AnomalyAssumption DEF Init, TablesOK, Table, NoFlags, Flagged, NoRow
<1>2. ReqOK
  BY IdleType DEF Init, ReqOK, Idle, NoFlags, NoRow
<1>3. \A r \in Request : req[r] = Idle
  BY DEF Init
<1>4. StartStaysDismissed /\ SuppressesStart /\ ResultsAfterFit /\ FeedbackApplied
  BY <1>3 DEF StartStaysDismissed, SuppressesStart, ResultsAfterFit, FeedbackApplied, Idle,
              NoFlags
<1> QED
  BY <1>1, <1>2, <1>4, TypeParts DEF IInv

(* Ids only grow, so requests keep older ids when they keep their columns. *)
LEMMA TablesNext ==
    ASSUME TypeOK, [Next]_vars
    PROVE  TablesOK' /\ nextId <= nextId'
<1>1. TablesOK /\ ReqOK
  BY TypeParts
<1>2. nextId \in Nat
  BY <1>1, AnomalyAssumption DEF TablesOK
<1>3. ASSUME UNCHANGED <<txns, flags, nextId>> PROVE TablesOK' /\ nextId <= nextId'
  BY <1>1, <1>2, <1>3 DEF TablesOK, Flagged
<1>4. ASSUME NEW T \in SUBSET Txn, AddTransactions(T)
      PROVE  TablesOK' /\ nextId <= nextId'
  BY <1>1, <1>2, <1>4 DEF AddTransactions, TablesOK, Flagged
<1>5. ASSUME NEW T \in SUBSET Txn, DeleteTransactions(T)
      PROVE  TablesOK' /\ nextId <= nextId'
  BY <1>1, <1>2, <1>5 DEF DeleteTransactions, TablesOK, Flagged, Table
<1>6. ASSUME NEW r \in Request,
             \/ DetectLoad(r) \/ DetectSuppressed(r) \/ DetectFit(r) \/ DetectFail(r)
             \/ DismissFail(r) \/ \E u \in Txn : DismissLookup(r, u)
      PROVE  TablesOK' /\ nextId <= nextId'
  BY <1>3, <1>6 DEF DetectLoad, DetectSuppressed, DetectFit, DetectFail, DismissFail,
                    DismissLookup
<1>7. ASSUME NEW r \in Request, DetectCommit(r)
      PROVE  TablesOK' /\ nextId <= nextId'
  <2>1. nextId' \in 1..(MaxId + 1) /\ nextId <= nextId' /\ nextId' \in Nat
    BY <1>1, <1>2, <1>7, AnomalyAssumption DEF DetectCommit, TablesOK
  <2>2. ASSUME NEW t \in Txn
        PROVE  /\ flags'[t] \in Row \cup {NoRow}
               /\ flags'[t] # NoRow => t \in txns /\ flags'[t].id < nextId'
    <3>1. flags[t] \in Row \cup {NoRow}
      BY <1>1 DEF TablesOK, Table
    <3>2. CASE /\ t \in Inserts(r) /\ t \in txns
               /\ flags'[t] = [id |-> nextId, dismissed |-> FALSE]
      <4>1. nextId \in 1..MaxId /\ nextId' = nextId + 1
        BY <1>1, <1>2, <1>7, <3>2, AnomalyAssumption DEF DetectCommit, TablesOK
      <4> QED
        BY <3>2, <4>1 DEF Row
    <3>3. CASE flags'[t] = flags[t]
      <4>1. flags[t] # NoRow => t \in txns /\ flags[t].id < nextId
        BY <1>1 DEF TablesOK, Flagged
      <4>2. flags[t].id \in Nat
        BY <3>1, RowOrNone
      <4> QED
        BY <1>2, <2>1, <3>1, <3>3, <4>1, <4>2
    <3>4. CASE flags'[t] = NoRow
      BY <3>4
    <3> QED
      BY <1>7, <3>2, <3>3, <3>4, CommitRow
  <2>3. flags' \in Table
    <3>1. DOMAIN flags' = Txn /\ flags' = [t \in Txn |-> flags'[t]]
      <4> DEFINE F(t) == CASE t \in Inserts(r) -> [id |-> nextId, dismissed |-> FALSE]
                           [] t \in Updates(r) /\ Holds(r, t) -> Updated(r, t)
                           [] t \in Deletes(r) /\ Holds(r, t) -> NoRow
                           [] OTHER -> flags[t]
      <4>1. flags' = [t \in Txn |-> F(t)]
        BY <1>7 DEF DetectCommit
      <4> HIDE DEF F
      <4> QED
        BY <4>1
    <3> QED
      BY <2>2, <3>1 DEF Table
  <2> QED
    BY <1>1, <1>7, <2>1, <2>2, <2>3 DEF TablesOK, Flagged, DetectCommit
<1>8. ASSUME NEW r \in Request, DismissCommit(r)
      PROVE  TablesOK' /\ nextId <= nextId'
  <2>1. PICK u \in Txn : Holds(r, u) /\ flags' = [flags EXCEPT ![u].dismissed = TRUE]
    BY <1>8 DEF DismissCommit, Selected
  <2>2. flags[u] \in Row /\ u \in txns
    BY <1>1, <2>1 DEF TablesOK, Table, Holds, Flagged
  <2>3. /\ flags' \in Table
        /\ \A t \in Txn : flags'[t].id = flags[t].id /\ (t # u => flags'[t] = flags[t])
    BY <1>1, <2>1, <2>2 DEF TablesOK, Table, Row, NoRow
  <2> QED
    BY <1>1, <1>2, <1>8, <2>1, <2>2, <2>3 DEF TablesOK, Flagged, DismissCommit, Holds
<1>9. CASE UNCHANGED vars
  BY <1>3, <1>9 DEF vars
<1> QED
  BY <1>4, <1>5, <1>6, <1>7, <1>8, <1>9 DEF Next

LEMMA ReqUpdate ==
    ASSUME TypeOK, nextId \in Nat, nextId' \in Nat, nextId <= nextId',
           NEW r \in Request, NEW x \in ReqState,
           \A t \in Txn : x.existing[t].id < nextId /\ x.start[t].id < nextId,
           req' = [req EXCEPT ![r] = x]
    PROVE  ReqOK'
<1>1. req' \in [Request -> ReqState]
  BY DEF TypeOK
<1>2. ASSUME NEW q \in Request, NEW t \in Txn
      PROVE  req'[q].existing[t].id < nextId' /\ req'[q].start[t].id < nextId'
  <2>1. req'[q] \in ReqState
    BY <1>1
  <2>2. req'[q].existing[t] \in Row \cup {NoRow} /\ req'[q].start[t] \in Row \cup {NoRow}
    BY <2>1 DEF ReqState, Table
  <2>3. req'[q].existing[t].id \in Nat /\ req'[q].start[t].id \in Nat
    BY <2>2, RowOrNone
  <2>4. req'[q].existing[t].id < nextId /\ req'[q].start[t].id < nextId
    BY DEF TypeOK
  <2> QED
    BY <2>3, <2>4
<1> QED
  BY <1>1, <1>2 DEF ReqOK

LEMMA ReqNext ==
    ASSUME TypeOK, [Next]_vars
    PROVE  ReqOK'
<1>1. /\ TablesOK /\ ReqOK /\ nextId <= nextId'
      /\ nextId \in Nat /\ nextId > 0 /\ nextId' \in Nat
  <2>1. TablesOK' /\ nextId <= nextId' /\ TablesOK /\ ReqOK
    BY TablesNext, TypeParts
  <2> QED
    BY <2>1, AnomalyAssumption DEF TablesOK
<1>2. \A t \in Txn : flags[t] \in Row \cup {NoRow} /\ flags[t].id < nextId
  BY <1>1 DEF TablesOK, Table, Flagged, NoRow
<1>3. \A t \in Txn : NoFlags[t].id < nextId
  BY <1>1 DEF NoFlags, NoRow
<1>4. \A t \in Txn : Idle.existing[t].id < nextId /\ Idle.start[t].id < nextId
  BY <1>3 DEF Idle
<1>5. flags \in Table /\ NoFlags \in Table
  BY <1>1 DEF TablesOK, Table, NoFlags
<1>6. ASSUME req' = req PROVE ReqOK'
  <2>1. ASSUME NEW q \in Request, NEW t \in Txn
        PROVE  req[q].existing[t].id < nextId' /\ req[q].start[t].id < nextId'
    <3>1. req[q].existing[t] \in Row \cup {NoRow} /\ req[q].start[t] \in Row \cup {NoRow}
      BY <1>1 DEF ReqOK, ReqState, Table
    <3>2. req[q].existing[t].id \in Nat /\ req[q].start[t].id \in Nat
      BY <3>1, RowOrNone
    <3> QED
      BY <1>1, <3>2 DEF ReqOK
  <2> QED
    BY <1>1, <1>6, <2>1 DEF ReqOK
<1>7. ASSUME NEW r \in Request, Finish(r) PROVE ReqOK'
  BY <1>1, <1>4, <1>7, IdleType, ReqUpdate DEF Finish
<1>8. ASSUME NEW r \in Request, DetectLoad(r) PROVE ReqOK'
  <2>1. PICK s : s = [t \in Txn |-> IF t \in Dismissed THEN flags[t] ELSE NoRow]
    OBVIOUS
  <2>2. s \in Table /\ \A t \in Txn : s[t].id < nextId
    BY <1>1, <1>2, <2>1 DEF Table, NoRow
  <2>3. PICK x : x = [Idle EXCEPT !.pc = "loaded", !.seen = txns, !.start = s]
    OBVIOUS
  <2>4. x \in ReqState /\ x.existing = Idle.existing /\ x.start = s
    BY <1>1, <2>2, <2>3, IdleType DEF Idle, ReqState, PC, TablesOK
  <2>5. req' = [req EXCEPT ![r] = x]
    BY <1>8, <2>1, <2>3 DEF DetectLoad
  <2> QED
    BY <1>1, <1>4, <2>2, <2>4, <2>5, ReqUpdate
<1>9. ASSUME NEW r \in Request, DetectSuppressed(r) PROVE ReqOK'
  <2>1. DismissedSignatures \in SUBSET Signature
    BY AnomalyAssumption DEF DismissedSignatures, Dismissed
  <2>2. req[r] \in ReqState
    BY <1>1 DEF ReqOK
  <2>3. PICK x : x = [req[r] EXCEPT !.pc = "suppress", !.suppressed = DismissedSignatures]
    OBVIOUS
  <2>4. x \in ReqState /\ x.existing = req[r].existing /\ x.start = req[r].start
    BY <2>1, <2>2, <2>3 DEF ReqState, PC
  <2>5. req' = [req EXCEPT ![r] = x]
    BY <1>1, <1>9, <2>3 DEF DetectSuppressed, ReqOK
  <2>6. \A t \in Txn : x.existing[t].id < nextId /\ x.start[t].id < nextId
    BY <1>1, <2>4 DEF ReqOK
  <2> QED
    BY <1>1, <2>4, <2>5, <2>6, ReqUpdate
<1>10. ASSUME NEW r \in Request, DetectFit(r) PROVE ReqOK'
  <2>1. req[r] \in ReqState
    BY <1>1 DEF ReqOK
  <2>2. PICK driven \in SUBSET Txn, kept \in SUBSET Txn, trained \in BOOLEAN :
          req' = [req EXCEPT ![r] =
                    [Idle EXCEPT !.pc = "reconcile", !.trained = trained, !.results = kept,
                       !.driven = driven, !.existing = flags, !.start = req[r].start]]
    <3>0. (Cardinality(req[r].seen) >= MinTxns) \in BOOLEAN
      OBVIOUS
    <3>1. PICK t \in BOOLEAN : t = (Cardinality(req[r].seen) >= MinTxns)
      BY <3>0, Zenon
    <3>2. PICK o \in SUBSET req[r].seen : \E d \in SUBSET o :
            req' = [req EXCEPT ![r] =
                      [Idle EXCEPT !.pc = "reconcile", !.trained = t,
                         !.results = {v \in o : Sig[v] \notin req[r].suppressed} \cup d,
                         !.driven = d, !.existing = flags, !.start = req[r].start]]
      BY <1>10, <3>1 DEF DetectFit
    <3>3. PICK d \in SUBSET o :
            req' = [req EXCEPT ![r] =
                      [Idle EXCEPT !.pc = "reconcile", !.trained = t,
                         !.results = {v \in o : Sig[v] \notin req[r].suppressed} \cup d,
                         !.driven = d, !.existing = flags, !.start = req[r].start]]
      BY <3>2
    <3>4. d \in SUBSET Txn
      BY <2>1 DEF ReqState
    <3>5. {v \in o : Sig[v] \notin req[r].suppressed} \cup d \in SUBSET Txn
      BY <2>1 DEF ReqState
    <3> QED
      BY <3>1, <3>3, <3>4, <3>5
  <2>3. PICK x : x = [Idle EXCEPT !.pc = "reconcile", !.trained = trained, !.results = kept,
                        !.driven = driven, !.existing = flags, !.start = req[r].start]
    OBVIOUS
  <2>4. x \in ReqState /\ x.existing = flags /\ x.start = req[r].start
    <3>1. req[r].start \in Table
      BY <2>1 DEF ReqState
    <3> QED
      BY <1>5, <2>3, <3>1, IdleType DEF Idle, ReqState, PC
  <2>5. \A t \in Txn : x.existing[t].id < nextId /\ x.start[t].id < nextId
    BY <1>1, <1>2, <2>4 DEF ReqOK
  <2> QED
    BY <1>1, <2>2, <2>3, <2>4, <2>5, ReqUpdate
<1>11. ASSUME NEW r \in Request, NEW u \in Txn, DismissLookup(r, u) PROVE ReqOK'
  <2>1. req[r] \in ReqState
    BY <1>1 DEF ReqOK
  <2>2. PICK e : e = [req[r].existing EXCEPT ![u] = flags[u]]
    OBVIOUS
  <2>3. e \in Table /\ \A t \in Txn : e[t].id < nextId
    BY <1>1, <1>2, <2>1, <2>2 DEF ReqState, Table, ReqOK
  <2>4. PICK x : x = [req[r] EXCEPT !.pc = "dismiss", !.existing = e]
    OBVIOUS
  <2>5. x \in ReqState /\ x.existing = e /\ x.start = req[r].start
    BY <2>1, <2>3, <2>4 DEF ReqState, PC
  <2>6. req' = [req EXCEPT ![r] = x]
    BY <1>1, <1>11, <2>1, <2>2, <2>4 DEF DismissLookup, ReqOK, ReqState
  <2>7. \A t \in Txn : x.start[t].id < nextId
    BY <1>1, <2>5 DEF ReqOK
  <2> QED
    BY <1>1, <2>3, <2>5, <2>6, <2>7, ReqUpdate
<1>12. ASSUME NEW r \in Request,
              \/ DetectCommit(r) \/ DetectFail(r) \/ DismissCommit(r) \/ DismissFail(r)
       PROVE  ReqOK'
  BY <1>7, <1>12 DEF DetectCommit, DetectFail, DismissCommit, DismissFail
<1>13. ASSUME NEW T \in SUBSET Txn, AddTransactions(T) \/ DeleteTransactions(T)
       PROVE  ReqOK'
  BY <1>6, <1>13 DEF AddTransactions, DeleteTransactions
<1>14. CASE UNCHANGED vars
  BY <1>6, <1>14 DEF vars
<1> QED
  BY <1>8, <1>9, <1>10, <1>11, <1>12, <1>13, <1>14 DEF Next

(* What a step does to one request.                                        *)
LEMMA ReqStep ==
    ASSUME TypeOK, [Next]_vars, NEW q \in Request
    PROVE  \/ req'[q] = req[q]
           \/ req'[q] = Idle
           \/ DetectLoad(q) \/ DetectSuppressed(q) \/ DetectFit(q)
           \/ \E u \in Txn : DismissLookup(q, u)
<1>1. req \in [Request -> ReqState]
  BY DEF TypeOK
<1>2. ASSUME NEW r \in Request, Finish(r) PROVE req'[q] = req[q] \/ req'[q] = Idle
  BY <1>1, <1>2 DEF Finish
<1>3. ASSUME NEW r \in Request, r # q,
             \/ DetectLoad(r) \/ DetectSuppressed(r) \/ DetectFit(r)
             \/ \E u \in Txn : DismissLookup(r, u)
      PROVE  req'[q] = req[q]
  BY <1>1, <1>3 DEF DetectLoad, DetectSuppressed, DetectFit, DismissLookup
<1>4. ASSUME NEW r \in Request,
             \/ DetectCommit(r) \/ DetectFail(r) \/ DismissCommit(r) \/ DismissFail(r)
      PROVE  req'[q] = req[q] \/ req'[q] = Idle
  BY <1>2, <1>4 DEF DetectCommit, DetectFail, DismissCommit, DismissFail
<1>5. ASSUME NEW T \in SUBSET Txn, AddTransactions(T) \/ DeleteTransactions(T)
      PROVE  req'[q] = req[q]
  BY <1>5 DEF AddTransactions, DeleteTransactions
<1>6. CASE UNCHANGED vars
  BY <1>6 DEF vars
<1> QED
  BY <1>3, <1>4, <1>5, <1>6 DEF Next

(* The columns of a request that its own steps set or keep.                *)
LEMMA OwnStep ==
    ASSUME TypeOK, NEW q \in Request
    PROVE  /\ DetectLoad(q) => req'[q].pc = "loaded" /\ req'[q].results = {}
           /\ DetectSuppressed(q) => /\ req'[q].pc = "suppress"
                                     /\ req'[q].start = req[q].start
                                     /\ req'[q].results = req[q].results
                                     /\ req[q].pc = "loaded"
           /\ DetectFit(q) => req'[q].pc = "reconcile" /\ req'[q].start = req[q].start
           /\ \A v \in Txn : DismissLookup(q, v) => /\ req'[q].pc = "dismiss"
                                                     /\ req'[q].start = req[q].start
                                                     /\ req'[q].results = req[q].results
                                                     /\ req[q].pc = "idle"
<1>1. req \in [Request -> ReqState] /\ req[q] \in ReqState
  BY DEF TypeOK
<1>2. ASSUME DetectLoad(q) PROVE req'[q].pc = "loaded" /\ req'[q].results = {}
  BY <1>1, <1>2 DEF DetectLoad, Idle
<1>3. ASSUME DetectSuppressed(q)
      PROVE  /\ req'[q].pc = "suppress" /\ req'[q].start = req[q].start
             /\ req'[q].results = req[q].results /\ req[q].pc = "loaded"
  BY <1>1, <1>3 DEF DetectSuppressed, ReqState
<1>4. ASSUME DetectFit(q) PROVE req'[q].pc = "reconcile" /\ req'[q].start = req[q].start
  BY <1>1, <1>4 DEF DetectFit, Idle
<1>5. ASSUME NEW v \in Txn, DismissLookup(q, v)
      PROVE  /\ req'[q].pc = "dismiss" /\ req'[q].start = req[q].start
             /\ req'[q].results = req[q].results /\ req[q].pc = "idle"
  BY <1>1, <1>5 DEF DismissLookup, ReqState
<1> QED
  BY <1>2, <1>3, <1>4, <1>5

(* A dismissed row of the past is still itself wherever its id still is.   *)
LEMMA PastRow ==
    ASSUME TypeOK, [Next]_vars, NEW u \in Txn, NEW s \in Row \cup {NoRow},
           s # NoRow, s.id < nextId, s.dismissed,
           flags[u].id = s.id => flags[u] = s
    PROVE  flags'[u].id = s.id => flags[u] = s /\ flags'[u] = s
<1> SUFFICES ASSUME flags'[u].id = s.id PROVE flags[u] = s /\ flags'[u] = s
  OBVIOUS
<1>1. flags'[u] \in Row \cup {NoRow} /\ nextId \in Nat
  BY TablesNext, TypeParts, AnomalyAssumption DEF TablesOK, Table
<1>2. s.id # 0 /\ s.id \in Nat
  BY RowOrNone
<1>3. flags'[u] # NoRow
  BY <1>2 DEF NoRow
<1>4. flags'[u] # [id |-> nextId, dismissed |-> FALSE]
  BY <1>1, <1>2
<1>5. flags'[u].id = flags[u].id /\ (flags[u].dismissed => flags'[u].dismissed)
  BY <1>3, <1>4, RowHistory DEF RowStep
<1>6. flags[u] = s /\ flags'[u].dismissed
  BY <1>5
<1>7. flags'[u].dismissed = s.dismissed
  <2>1. flags'[u].dismissed \in BOOLEAN /\ s.dismissed \in BOOLEAN
    BY <1>1, RowOrNone
  <2> QED
    BY <1>6, <2>1
<1> QED
  BY <1>1, <1>6, <1>7, RowOrNone

LEMMA StartNext ==
    ASSUME TypeOK, StartStaysDismissed, [Next]_vars
    PROVE  StartStaysDismissed'
<1> SUFFICES ASSUME NEW q \in Request, NEW u \in Txn, req'[q].start[u] # NoRow
             PROVE  /\ req'[q].start[u].dismissed
                    /\ flags'[u].id = req'[q].start[u].id => flags'[u] = req'[q].start[u]
  BY DEF StartStaysDismissed
<1>1. req \in [Request -> ReqState] /\ req[q] \in ReqState
  BY DEF TypeOK
<1>2. CASE req'[q].start = req[q].start
  <2>1. PICK s : s = req[q].start[u]
    OBVIOUS
  <2>2. s \in Row \cup {NoRow} /\ s # NoRow /\ s.id < nextId
    BY <1>1, <1>2, <2>1 DEF ReqState, Table, TypeOK
  <2>3. s.dismissed /\ (flags[u].id = s.id => flags[u] = s)
    BY <2>1, <2>2 DEF StartStaysDismissed
  <2> QED
    BY <1>2, <2>1, <2>2, <2>3, PastRow
<1>3. CASE req'[q] = Idle
  BY <1>3 DEF Idle, NoFlags
<1>4. CASE DetectLoad(q)
  <2>1. req'[q].start[u] = (IF u \in Dismissed THEN flags[u] ELSE NoRow) /\ flags' = flags
    BY <1>1, <1>4 DEF DetectLoad, Idle
  <2> QED
    BY <2>1 DEF Dismissed
<1>5. CASE DetectSuppressed(q) \/ DetectFit(q) \/ \E v \in Txn : DismissLookup(q, v)
  <2>1. req'[q].start = req[q].start
    BY <1>5, OwnStep
  <2> QED
    BY <1>2, <2>1
<1> QED
  BY <1>2, <1>3, <1>4, <1>5, ReqStep

(* A row that equals a dismissed one of the past did so before the step.   *)
LEMMA StartWas ==
    ASSUME TypeOK, StartStaysDismissed, [Next]_vars, NEW q \in Request, NEW u \in Txn,
           req[q].start[u] # NoRow, req[q].start[u] = flags'[u]
    PROVE  req[q].start[u] = flags[u]
<1>1. PICK s : s = req[q].start[u]
  OBVIOUS
<1>2. req[q] \in ReqState
  BY DEF TypeOK
<1>3. s \in Row \cup {NoRow} /\ s # NoRow /\ s.id < nextId
  BY <1>1, <1>2 DEF ReqState, Table, TypeOK
<1>4. s.dismissed /\ (flags[u].id = s.id => flags[u] = s)
  BY <1>1, <1>3 DEF StartStaysDismissed
<1> QED
  BY <1>1, <1>3, <1>4, PastRow

LEMMA SuppressNext ==
    ASSUME TypeOK, StartStaysDismissed, SuppressesStart, [Next]_vars
    PROVE  SuppressesStart'
<1> SUFFICES ASSUME NEW q \in Request, NEW u \in Txn, req'[q].pc = "suppress",
                    req'[q].start[u] # NoRow, req'[q].start[u] = flags'[u]
             PROVE  Sig[u] \in req'[q].suppressed
  BY DEF SuppressesStart
<1>1. req \in [Request -> ReqState] /\ req[q] \in ReqState
  BY DEF TypeOK
<1>2. CASE req'[q] = req[q]
  <2>1. req[q].start[u] = flags[u]
    BY <1>2, StartWas
  <2> QED
    BY <1>2, <2>1 DEF SuppressesStart
<1>3. CASE DetectSuppressed(q)
  <2>1. /\ req'[q].start = req[q].start /\ req'[q].suppressed = DismissedSignatures
        /\ flags' = flags
    BY <1>1, <1>3 DEF DetectSuppressed, ReqState
  <2>2. u \in Dismissed
    BY <2>1 DEF StartStaysDismissed, Dismissed, Flagged
  <2> QED
    BY <2>1, <2>2 DEF DismissedSignatures
<1>4. CASE \/ req'[q] = Idle \/ DetectLoad(q) \/ DetectFit(q)
           \/ \E v \in Txn : DismissLookup(q, v)
  <2>1. req'[q].pc # "suppress"
    BY <1>4, OwnStep DEF Idle
  <2> QED
    BY <2>1
<1> QED
  BY <1>2, <1>3, <1>4, ReqStep

LEMMA FeedbackNext ==
    ASSUME IInv, [Next]_vars
    PROVE  ResultsAfterFit' /\ FeedbackApplied'
<1>1. req \in [Request -> ReqState] /\ TypeOK /\ StartStaysDismissed
  BY DEF IInv, TypeOK
<1>2. ASSUME NEW q \in Request
      PROVE  /\ req'[q].pc # "reconcile" => req'[q].results = {}
             /\ \A t \in req'[q].results \ req'[q].driven, u \in Txn :
                    req'[q].start[u] # NoRow /\ req'[q].start[u] = flags'[u]
                        => Sig[t] # Sig[u]
  <2>1. req[q] \in ReqState
    BY <1>1
  <2>2. CASE req'[q] = req[q]
    <3>1. req'[q].pc # "reconcile" => req'[q].results = {}
      BY <2>2 DEF IInv, ResultsAfterFit
    <3>2. ASSUME NEW t \in req[q].results \ req[q].driven, NEW u \in Txn,
                 req[q].start[u] # NoRow, req[q].start[u] = flags'[u]
          PROVE  Sig[t] # Sig[u]
      <4>1. req[q].start[u] = flags[u]
        BY <1>1, <3>2, StartWas
      <4> QED
        BY <3>2, <4>1 DEF IInv, FeedbackApplied
    <3> QED
      BY <2>2, <3>1, <3>2
  <2>3. CASE DetectFit(q)
    <3>1. /\ req'[q].pc = "reconcile" /\ req'[q].start = req[q].start /\ flags' = flags
          /\ req[q].pc = "suppress"
          /\ \A t \in req'[q].results \ req'[q].driven : Sig[t] \notin req[q].suppressed
      BY <1>1, <2>3 DEF DetectFit, Idle
    <3>2. \A u \in Txn : req[q].start[u] # NoRow /\ req[q].start[u] = flags[u]
                              => Sig[u] \in req[q].suppressed
      BY <3>1 DEF IInv, SuppressesStart
    <3> QED
      BY <3>1, <3>2
  <2>4. CASE \/ req'[q] = Idle \/ DetectLoad(q) \/ DetectSuppressed(q)
             \/ \E v \in Txn : DismissLookup(q, v)
    <3>1. req'[q].results = {}
      <4>1. CASE req'[q] = Idle \/ DetectLoad(q)
        BY <1>1, <4>1, OwnStep DEF Idle
      <4>2. CASE DetectSuppressed(q) \/ \E v \in Txn : DismissLookup(q, v)
        <5>1. req'[q].results = req[q].results /\ req[q].pc # "reconcile"
          BY <1>1, <4>2, OwnStep
        <5> QED
          BY <5>1 DEF IInv, ResultsAfterFit
      <4> QED
        BY <2>4, <4>1, <4>2
    <3> QED
      BY <3>1
  <2> QED
    BY <1>1, <2>2, <2>3, <2>4, ReqStep
<1> QED
  BY <1>2 DEF ResultsAfterFit, FeedbackApplied

LEMMA NextInv == IInv /\ [Next]_vars => IInv'
<1> SUFFICES ASSUME IInv, [Next]_vars PROVE IInv'
  OBVIOUS
<1>1. TypeOK /\ StartStaysDismissed /\ SuppressesStart
  BY DEF IInv
<1>2. TablesOK' /\ ReqOK'
  BY <1>1, TablesNext, ReqNext
<1>3. TypeOK'
  BY <1>2 DEF TypeOK, TablesOK, ReqOK
<1>4. StartStaysDismissed' /\ SuppressesStart'
  BY <1>1, StartNext, SuppressNext
<1>5. ResultsAfterFit' /\ FeedbackApplied'
  BY FeedbackNext
<1> QED
  BY <1>3, <1>4, <1>5 DEF IInv

LEMMA Invariance == Spec => []IInv
  BY InitInv, NextInv, PTL DEF Spec

(* Tables and requests keep their types, and a flag never outlives its     *)
(* transaction (models/anomaly_flag.py:31-42).                             *)
THEOREM TypeCorrect == Spec => []TypeOK
<1>1. IInv => TypeOK
  BY DEF IInv
<1> QED
  BY <1>1, Invariance, PTL

(* A pair dismissed before a refit began is not flagged by it unless an    *)
(* amount drives it, whatever else commits while the refit runs            *)
(* (service.py:26-38, detector.py:153-160).                                *)
THEOREM DismissalsFedBack == Spec => []FeedbackApplied
<1>1. IInv => FeedbackApplied
  BY DEF IInv
<1> QED
  BY <1>1, Invariance, PTL

LEMMA DismissedStep ==
    ASSUME TypeOK, [Next]_vars, NEW t \in Txn, flags[t].dismissed, flags'[t].id = flags[t].id
    PROVE  flags'[t].dismissed
<1>1. flags[t] \in Row \cup {NoRow} /\ nextId \in Nat /\ (Flagged(t) => flags[t].id < nextId)
  BY AnomalyAssumption DEF TypeOK, Table
<1>2. flags[t].id # 0 /\ flags[t] # NoRow
  BY <1>1, RowOrNone DEF NoRow
<1>3. flags'[t] # NoRow
  BY <1>2 DEF NoRow
<1> QED
  BY <1>2, <1>3, RowHistory DEF RowStep

(* No refit overwrites the dismissal of a row it had loaded as active      *)
(* (service.py:80-83 against 139-142).                                     *)
THEOREM DismissalKept == Spec => DismissedRowStaysDismissed
<1>1. TypeOK /\ [Next]_vars =>
        [\A t \in Txn :
            flags[t].dismissed /\ flags'[t].id = flags[t].id => flags'[t].dismissed]_vars
  BY DismissedStep
<1> QED
  BY <1>1, TypeCorrect, PTL DEF Spec, DismissedRowStaysDismissed

LEMMA ClearedStep ==
    ASSUME TypeOK, [Next]_vars, NEW t \in Txn, t \in txns', Flagged(t),
           flags'[t].id # flags[t].id
    PROVE  \E r \in Request :
                /\ req[r].pc = "reconcile" /\ req'[r].pc = "idle"
                /\ req[r].trained /\ t \notin req[r].results
                /\ req[r].existing[t].id = flags[t].id
                /\ ~req[r].existing[t].dismissed
<1>1. req \in [Request -> ReqState] /\ flags \in Table
  BY DEF TypeOK
<1>2. ASSUME NEW T \in SUBSET Txn, AddTransactions(T) \/ DeleteTransactions(T) PROVE FALSE
  BY <1>1, <1>2 DEF AddTransactions, DeleteTransactions
<1>3. ASSUME NEW r \in Request,
             \/ DetectLoad(r) \/ DetectSuppressed(r) \/ DetectFit(r) \/ DetectFail(r)
             \/ DismissFail(r) \/ \E u \in Txn : DismissLookup(r, u)
      PROVE  FALSE
  BY <1>3 DEF DetectLoad, DetectSuppressed, DetectFit, DetectFail, DismissFail, DismissLookup
<1>4. ASSUME NEW r \in Request, DismissCommit(r) PROVE FALSE
  <2>1. PICK u \in Txn : flags' = [flags EXCEPT ![u].dismissed = TRUE]
    BY <1>4 DEF DismissCommit, Selected
  <2>2. flags'[t].id = flags[t].id
    BY <1>1, <2>1 DEF Table, Row, NoRow
  <2> QED
    BY <2>2
<1>5. CASE UNCHANGED vars
  BY <1>5 DEF vars
<1>6. ASSUME NEW r \in Request, DetectCommit(r)
      PROVE  /\ req[r].pc = "reconcile" /\ req'[r].pc = "idle"
             /\ req[r].trained /\ t \notin req[r].results
             /\ req[r].existing[t].id = flags[t].id
             /\ ~req[r].existing[t].dismissed
  <2>1. t \in Deletes(r) /\ Holds(r, t)
    BY <1>6, CommitRow DEF Flagged
  <2>2. req[r].pc = "reconcile" /\ req'[r] = Idle
    BY <1>1, <1>6 DEF DetectCommit, Finish
  <2> QED
    BY <2>1, <2>2 DEF Deletes, Active, Holds, Idle
<1> QED
  BY <1>2, <1>3, <1>4, <1>5, <1>6 DEF Next

(* A flag is cleared only by a trained model that read it as active and no *)
(* longer flags its transaction (service.py:85-92).                        *)
THEOREM ClearingJustified == Spec => ClearedWithCause
<1>1. TypeOK => txns \subseteq Txn
  BY DEF TypeOK
<1>2. TypeOK /\ TypeOK' /\ [Next]_vars =>
        [\A t \in txns' :
            Flagged(t) /\ flags'[t].id # flags[t].id =>
                \E r \in Request :
                    /\ req[r].pc = "reconcile" /\ req'[r].pc = "idle"
                    /\ req[r].trained /\ t \notin req[r].results
                    /\ req[r].existing[t].id = flags[t].id
                    /\ ~req[r].existing[t].dismissed]_vars
  BY <1>1, ClearedStep DEF TypeOK
<1> QED
  BY <1>2, TypeCorrect, PTL DEF Spec, ClearedWithCause

LEMMA DismissingStep ==
    ASSUME TypeOK, [Next]_vars, NEW t \in Txn, flags'[t].dismissed, ~flags[t].dismissed
    PROVE  \E r \in Request :
                req[r].pc = "dismiss" /\ req[r].existing[t].id = flags'[t].id
<1>1. flags \in Table
  BY DEF TypeOK
<1>2. ASSUME NEW T \in SUBSET Txn, AddTransactions(T) \/ DeleteTransactions(T) PROVE FALSE
  BY <1>1, <1>2 DEF AddTransactions, DeleteTransactions, NoRow
<1>3. ASSUME NEW r \in Request,
             \/ DetectLoad(r) \/ DetectSuppressed(r) \/ DetectFit(r) \/ DetectFail(r)
             \/ DismissFail(r) \/ \E u \in Txn : DismissLookup(r, u)
      PROVE  FALSE
  BY <1>3 DEF DetectLoad, DetectSuppressed, DetectFit, DetectFail, DismissFail, DismissLookup
<1>4. ASSUME NEW r \in Request, DetectCommit(r) PROVE FALSE
  BY <1>4, CommitRow DEF NoRow
<1>5. CASE UNCHANGED vars
  BY <1>5 DEF vars
<1>6. ASSUME NEW r \in Request, DismissCommit(r)
      PROVE  req[r].pc = "dismiss" /\ req[r].existing[t].id = flags'[t].id
  <2>1. PICK u \in Txn : Holds(r, u) /\ flags' = [flags EXCEPT ![u].dismissed = TRUE]
    BY <1>6 DEF DismissCommit, Selected
  <2>2. t = u
    BY <1>1, <2>1 DEF Table
  <2>3. flags'[t].id = flags[t].id
    BY <1>1, <2>1 DEF Table, Row, NoRow
  <2> QED
    BY <1>6, <2>1, <2>2, <2>3 DEF DismissCommit, Holds
<1> QED
  BY <1>2, <1>3, <1>4, <1>5, <1>6 DEF Next

(* A dismissal marks the row its user looked up and no later flag on the   *)
(* same transaction (service.py:128-142).                                  *)
THEOREM DismissalAimed == Spec => DismissesWhatWasSeen
<1>1. TypeOK /\ [Next]_vars =>
        [\A t \in Txn :
            flags'[t].dismissed /\ ~flags[t].dismissed =>
                \E r \in Request :
                    req[r].pc = "dismiss" /\ req[r].existing[t].id = flags'[t].id]_vars
  BY DismissingStep
<1> QED
  BY <1>1, TypeCorrect, PTL DEF Spec, DismissesWhatWasSeen

=============================================================================
