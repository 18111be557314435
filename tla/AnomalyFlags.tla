---------------------------- MODULE AnomalyFlags ----------------------------
(***************************************************************************)
(* The anomaly flags of one user: refits of the model and dismissals       *)
(* (services/anomaly/service.py, detector.py, api/anomalies.py).           *)
(*                                                                         *)
(* A refit is triggered by POST /anomalies/detect and at the end of every  *)
(* upload.  It reads the database three times and writes it once; uploads, *)
(* deletions, dismissals and other refits commit in between.  What the     *)
(* forest calls an outlier is left open: any set of transactions.          *)
(***************************************************************************)
EXTENDS Naturals, FiniteSets

CONSTANTS Txn,       \* outgoing transactions of the user
          Signature, \* (merchant, category) pairs
          Sig,       \* Sig[t]: the signature of transaction t
          Request,   \* requests that can be in flight together
          MinTxns,   \* settings.anomaly_min_transactions
          MaxId      \* bound: commits that insert rows

ASSUME AnomalyAssumption ==
    /\ Sig \in [Txn -> Signature]
    /\ MinTxns \in Nat
    /\ MaxId \in Nat

VARIABLES txns,      \* table transactions
          flags,     \* table anomaly_flags: flags[t] is the row of t, or NoRow
          nextId,    \* the next id
          req        \* req[r]: progress of request r

vars == <<txns, flags, nextId, req>>

(* The primary key is a uuid4.  Rows on different transactions never get   *)
(* confused, so an id only tells apart the rows that one transaction has   *)
(* one after the other: the rows of one commit share a number.             *)
Row == [id : 1..MaxId, dismissed : BOOLEAN]

NoRow == [id |-> 0, dismissed |-> FALSE]

Table == [Txn -> Row \cup {NoRow}]

NoFlags == [t \in Txn |-> NoRow]

PC == {"idle", "loaded", "suppress", "reconcile", "dismiss"}

(* seen, suppressed, existing: what the three SELECTs of a refit returned  *)
(* (a dismissal: existing, the one row it selected); results: what         *)
(* detect() made of them, driven: those of them with an amount feature     *)
(* among their drivers; trained: model_trained; start: history, the table  *)
(* when the refit began.                                                   *)
ReqState == [pc : PC, seen : SUBSET Txn, suppressed : SUBSET Signature,
             existing : Table, results : SUBSET Txn, driven : SUBSET Txn,
             trained : BOOLEAN, start : Table]

Idle == [pc |-> "idle", seen |-> {}, suppressed |-> {}, existing |-> NoFlags,
         results |-> {}, driven |-> {}, trained |-> FALSE, start |-> NoFlags]

Init ==
    /\ txns = {}
    /\ flags = NoFlags
    /\ nextId = 1
    /\ req = [r \in Request |-> Idle]

Flagged(t) == flags[t] # NoRow

(* The row a request selected is still there.                              *)
Holds(r, t) == Flagged(t) /\ flags[t].id = req[r].existing[t].id

Finish(r) == req' = [req EXCEPT ![r] = Idle]

-----------------------------------------------------------------------------
(* Other requests on the same tables: an upload commits its transactions;  *)
(* deleting a statement deletes its transactions and, by cascade, the      *)
(* flags on them.                                                          *)

AddTransactions(T) ==
    /\ txns' = txns \cup T
    /\ UNCHANGED <<flags, nextId, req>>

(* Mutation: the foreign key without ON DELETE CASCADE.                    *)
DeleteTransactionsOnly(T) ==
    /\ txns' = txns \ T
    /\ UNCHANGED <<flags, nextId, req>>

DeleteTransactions(T) ==
    /\ txns' = txns \ T
    /\ flags' = [t \in Txn |-> IF t \in T THEN NoRow ELSE flags[t]]
    /\ UNCHANGED <<nextId, req>>

-----------------------------------------------------------------------------
(* run_anomaly_detection.                                                  *)

Dismissed == {t \in Txn : Flagged(t) /\ flags[t].dismissed}

DetectLoad(r) ==
    /\ req[r].pc = "idle"
    /\ req' = [req EXCEPT ![r] =
                [Idle EXCEPT !.pc = "loaded", !.seen = txns,
                    !.start = [t \in Txn |-> IF t \in Dismissed THEN flags[t] ELSE NoRow]]]
    /\ UNCHANGED <<txns, flags, nextId>>

(* Mutation: the loader asks for the flags that are not dismissed.         *)
ActiveSignatures == {Sig[t] : t \in {u \in Txn : Flagged(u)} \ Dismissed}

(* _load_suppressed_signatures                                             *)
DismissedSignatures == {Sig[t] : t \in Dismissed}

DetectSuppressed(r) ==
    /\ req[r].pc = "loaded"
    /\ req' = [req EXCEPT ![r].pc = "suppress", ![r].suppressed = DismissedSignatures]
    /\ UNCHANGED <<txns, flags, nextId>>

(* detect(): fit, then keep the outliers that have no suppressed signature *)
(* or are driven by an amount; below the minimal history there is no model *)
(* and no result.  Nothing is awaited between it and the SELECT of the     *)
(* existing flags.                                                         *)
DetectFit(r) ==
    /\ req[r].pc = "suppress"
    /\ \E outliers \in SUBSET req[r].seen : \E driven \in SUBSET outliers :
        LET trained == Cardinality(req[r].seen) >= MinTxns
            kept == {t \in outliers : Sig[t] \notin req[r].suppressed} \cup driven
        IN  /\ trained \/ outliers = {}
            /\ req' = [req EXCEPT ![r] =
                        [Idle EXCEPT !.pc = "reconcile", !.trained = trained,
                            !.results = kept, !.driven = driven,
                            !.existing = flags, !.start = req[r].start]]
    /\ UNCHANGED <<txns, flags, nextId>>

Active(r) ==
    {t \in Txn : req[r].existing[t] # NoRow /\ ~req[r].existing[t].dismissed}

Inserts(r) == {t \in req[r].results : req[r].existing[t] = NoRow}

Updates(r) == req[r].results \cap Active(r)

(* Mutation: what an untrained model does not flag is cleared as well.     *)
DeletesUntrained(r) == Active(r) \ req[r].results

Deletes(r) == IF req[r].trained THEN Active(r) \ req[r].results ELSE {}

(* Mutation: the UPDATE writes every column of the loaded object back.     *)
UpdatedWholeRow(r, t) == req[r].existing[t]

(* The flush sets only the columns the refit assigned: severity, score and *)
(* drivers, which are not kept here.                                       *)
Updated(r, t) == flags[t]

(* The flush breaks the unique constraint on transaction_id, or the        *)
(* foreign key to a transaction deleted in the meantime.                   *)
Conflict(r) == \E t \in Inserts(r) : Flagged(t) \/ t \notin txns

(* An UPDATE finds its row gone (StaleDataError).  It is only sent when a  *)
(* column really changes, and only checked when it is sent on its own, so  *)
(* the refit may also get away with it.                                    *)
Vanished(r) == \E t \in Updates(r) : ~Holds(r, t)

(* One commit.  DELETE and UPDATE are by primary key, whatever the row     *)
(* looks like by now; a DELETE that finds no row is only a warning.        *)
DetectCommit(r) ==
    /\ req[r].pc = "reconcile"
    /\ ~Conflict(r)
    /\ Inserts(r) = {} \/ nextId <= MaxId
    /\ flags' = [t \in Txn |->
         CASE t \in Inserts(r) -> [id |-> nextId, dismissed |-> FALSE]
           [] t \in Updates(r) /\ Holds(r, t) -> Updated(r, t)
           [] t \in Deletes(r) /\ Holds(r, t) -> NoRow
           [] OTHER -> flags[t]]
    /\ nextId' = IF Inserts(r) = {} THEN nextId ELSE nextId + 1
    /\ Finish(r)
    /\ UNCHANGED txns

(* Rolled back: a 500 for POST /anomalies/detect, swallowed by an upload.  *)
DetectFail(r) ==
    /\ req[r].pc = "reconcile"
    /\ Conflict(r) \/ Vanished(r)
    /\ Finish(r)
    /\ UNCHANGED <<txns, flags, nextId>>

-----------------------------------------------------------------------------
(* dismiss_anomaly_flag: a SELECT by id, then UPDATE ... WHERE id, commit. *)
(* Dismissing twice is allowed.                                            *)

DismissLookup(r, t) ==
    /\ req[r].pc = "idle"
    /\ Flagged(t)
    /\ req' = [req EXCEPT ![r].pc = "dismiss", ![r].existing[t] = flags[t]]
    /\ UNCHANGED <<txns, flags, nextId>>

Selected(r) == {t \in Txn : req[r].existing[t] # NoRow}

(* Mutation: the UPDATE goes by transaction and not by the row's id.       *)
DismissCommitAnyRow(r) ==
    /\ req[r].pc = "dismiss"
    /\ \E t \in Selected(r) :
        Flagged(t) /\ flags' = [flags EXCEPT ![t].dismissed = TRUE]
    /\ Finish(r)
    /\ UNCHANGED <<txns, nextId>>

DismissCommit(r) ==
    /\ req[r].pc = "dismiss"
    /\ \E t \in Selected(r) :
        Holds(r, t) /\ flags' = [flags EXCEPT ![t].dismissed = TRUE]
    /\ Finish(r)
    /\ UNCHANGED <<txns, nextId>>

(* The row is gone: StaleDataError, a 500.                                 *)
DismissFail(r) ==
    /\ req[r].pc = "dismiss"
    /\ \E t \in Selected(r) : ~Holds(r, t)
    /\ Finish(r)
    /\ UNCHANGED <<txns, flags, nextId>>

Next ==
    \/ \E T \in SUBSET Txn : AddTransactions(T) \/ DeleteTransactions(T)
    \/ \E r \in Request :
        \/ DetectLoad(r) \/ DetectSuppressed(r) \/ DetectFit(r)
        \/ DetectCommit(r) \/ DetectFail(r)
        \/ \E t \in Txn : DismissLookup(r, t)
        \/ DismissCommit(r) \/ DismissFail(r)

Spec == Init /\ [][Next]_vars

-----------------------------------------------------------------------------
(* Types, with the foreign key: a flag never outlives its transaction,     *)
(* however a deletion falls between the steps of a refit, and no request   *)
(* holds an id that is yet to be given out (models/anomaly_flag.py:31-42). *)
TypeOK ==
    /\ txns \subseteq Txn
    /\ flags \in Table
    /\ nextId \in 1..(MaxId + 1)
    /\ req \in [Request -> ReqState]
    /\ \A t \in Txn : Flagged(t) => t \in txns /\ flags[t].id < nextId
    /\ \A r \in Request, t \in Txn :
        req[r].existing[t].id < nextId /\ req[r].start[t].id < nextId

(* A dismissed row is never made active again: a refit that loaded it as   *)
(* active and now refreshes its score leaves the dismissal of another      *)
(* request alone (service.py:80-83 against 139-142).                       *)
DismissedRowStaysDismissed ==
    [][\A t \in Txn :
        flags[t].dismissed /\ flags'[t].id = flags[t].id => flags'[t].dismissed]_vars

(* The row of a transaction that stays disappears only in a refit that     *)
(* read it as active, has a trained model, and did not flag it: "no        *)
(* opinion" clears nothing (service.py:85-92, detector.py:122-124).        *)
ClearedWithCause ==
    [][\A t \in txns' :
        Flagged(t) /\ flags'[t].id # flags[t].id =>
            \E r \in Request :
                /\ req[r].pc = "reconcile" /\ req'[r].pc = "idle"
                /\ req[r].trained /\ t \notin req[r].results
                /\ req[r].existing[t].id = flags[t].id
                /\ ~req[r].existing[t].dismissed]_vars

(* The feedback loop: what a refit that began after a dismissal is about   *)
(* to flag with the dismissed signature is driven by an amount, as long as *)
(* the dismissed row lasts (service.py:26-38, detector.py:153-160).        *)
FeedbackApplied ==
    \A r \in Request : \A t \in req[r].results \ req[r].driven, u \in Txn :
        req[r].start[u] # NoRow /\ req[r].start[u] = flags[u] => Sig[t] # Sig[u]

(* A dismissal answers the flag the user was looking at: the row it marks  *)
(* is the one it looked up, never a later flag on the same transaction     *)
(* (service.py:128-142).                                                   *)
DismissesWhatWasSeen ==
    [][\A t \in Txn :
        flags'[t].dismissed /\ ~flags[t].dismissed =>
            \E r \in Request :
                req[r].pc = "dismiss" /\ req[r].existing[t].id = flags'[t].id]_vars

(* "Dismissed flags are sticky -- never re-created" (service.py:47-48,     *)
(* models/anomaly_flag.py:26): while its transaction stays, a dismissed    *)
(* row stays.                                                              *)
DismissalSticky ==
    [][\A t \in txns' : flags[t].dismissed => flags'[t].dismissed]_vars

=============================================================================
