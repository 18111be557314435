--------------------------- MODULE SpendingProofs ---------------------------
(***************************************************************************)
(* Theorems about Spending, for any transactions, amounts, splits, periods *)
(* and questions, and any number of requests in flight: it implements      *)
(* Categorization, so that what is proved there holds here; splits come    *)
(* from one request and add up; the answers fit together and the spending  *)
(* view agrees with them; and what the user decides is kept.  The first    *)
(* theorems need no sums; the lemmas about those come after them.          *)
(***************************************************************************)
EXTENDS Spending, CategorizationProofs

(* No step of Spending changes the variables of Categorization in another  *)
(* way than a step of Categorization does.                                 *)
LEMMA StepRefines == SpendingNext => [Next]_vars
<1>1. ASSUME NEW p \in Process, Work(p)
      PROVE  Next
  BY <1>1 DEF Next
<1>2. ASSUME NEW p \in Process, NEW t \in Txn, Split(p, t)
      PROVE  Next
  BY <1>2 DEF Next
<1>3. ASSUME NEW p \in Process, SplitCommit(p)
      PROVE  Next
  BY <1>3 DEF Next
<1>4. ASSUME NEW t \in Txn, Unsplit(t)
      PROVE  Next
  BY <1>4 DEF Next
<1>5. QED
  BY <1>1, <1>2, <1>3, <1>4
  DEF SpendingNext, SplitSelect, SplitDelete, SplitStore, Remove, ViewPlain, ViewSplits

(* Spending implements Categorization: splits with amounts, their DELETE   *)
(* and the view add no behaviour to the categories.                        *)
THEOREM ImplementsCategorization == SpendingSpec => Spec
<1>1. SpendingInit => Init
  BY DEF SpendingInit
<1>2. [SpendingNext]_spendingVars => [Next]_vars
  BY StepRefines DEF spendingVars
<1>3. QED
  BY <1>1, <1>2, PTL DEF SpendingSpec, Spec

(* What Categorization is proved to keep, it keeps with splits that have   *)
(* amounts and with views in flight.                                       *)
THEOREM CategorizationHolds ==
    SpendingSpec => [](TypeOK /\ ClosedLoop /\ TaughtTogether /\ PromotedByThreshold)
BY ImplementsCategorization, TypeCorrect, LearntIsUsed, TaughtWithTheTaught, ByThreshold, PTL

-----------------------------------------------------------------------------
(* The inductive invariant behind OneBatch: a request that has run its     *)
(* DELETE and is alone with its transaction has seen every row there is.   *)

Row == [category : Category, amount : Int]

AllocShape ==
    /\ alloc = [t \in Txn |-> alloc[t]]
    /\ \A t \in Txn : alloc[t] = [p \in Process |-> alloc[t][p]]

RequestShape ==
    /\ request \in [Process -> [rows : Seq(Row), seen : SUBSET Process, deleted : BOOLEAN]]
    /\ \A p \in Process : proc[p].pc = "split" => Len(request[p].rows) >= 2

AllSeen ==
    \A p \in Process : proc[p].pc = "split" /\ request[p].deleted =>
        \A t \in proc[p].txns \ Crossed : Batches(t) \subseteq request[p].seen

OneHolder == \A t \in Txn \ Crossed : ~Several({p \in Process : t \in proc[p].txns})

SInv == AllocShape /\ RequestShape /\ OneBatch /\ AllSeen /\ OneHolder

(* What the history records of a step.                                     *)
LEMMA MeetHolds ==
    ASSUME Meet
    PROVE  /\ Crossed \subseteq Crossed' /\ OneHolder'
           /\ contested \subseteq contested' /\ Dropped \subseteq contested'
           /\ \A m \in Merchant \ contested' :
                 ~Several({p \in Process : m \in InHand(proc[p])})'
<1>1. contested \subseteq contested' /\ Dropped \subseteq contested'
  BY DEF Meet
<1>2. Crossed \subseteq Crossed'
  BY <1>1 DEF Crossed
<1>3. \A m \in Merchant \ contested' : ~Several({p \in Process : m \in InHand(proc[p])})'
  BY DEF Meet, Several
<1>4. ASSUME NEW t \in Txn \ Crossed'
      PROVE  ~Several({p \in Process : t \in proc[p].txns})'
  <2>1. MerchantOf[t] \in Merchant \ contested'
    BY CategorizationAssumption DEF Crossed
  <2>2. \A p \in Process : t \in proc'[p].txns => MerchantOf[t] \in InHand(proc[p])'
    BY DEF InHand
  <2>3. QED
    BY <1>3, <2>1, <2>2 DEF Several
<1>5. QED
  BY <1>1, <1>2, <1>3, <1>4 DEF OneHolder

LEMMA InitSInv == SpendingInit => SInv
<1> SUFFICES ASSUME SpendingInit
             PROVE  SInv
  OBVIOUS
<1>1. /\ alloc = [t \in Txn |-> [p \in Process |-> << >>]]
      /\ request = [p \in Process |-> NoRequest]
      /\ split = {}
      /\ \A p \in Process : proc[p].pc = "idle"
  BY DEF SpendingInit, Init, Idle
<1>2. \A t \in Txn : Batches(t) = {}
  BY <1>1 DEF Batches
<1>3. NoRequest \in [rows : Seq(Row), seen : SUBSET Process, deleted : BOOLEAN]
  BY DEF NoRequest
<1>4. AllocShape
  BY <1>1 DEF AllocShape
<1>5. RequestShape
  BY <1>1, <1>3 DEF RequestShape
<1>6. OneBatch
  BY <1>1, <1>2 DEF OneBatch, Several
<1>7. AllSeen
  BY <1>1 DEF AllSeen
<1>8. OneHolder
  <2>1. \A p \in Process : proc[p].txns = {}
    BY DEF SpendingInit, Init, Idle
  <2>2. QED
    BY <2>1 DEF OneHolder, Several
<1>9. QED
  BY <1>4, <1>5, <1>6, <1>7, <1>8 DEF SInv

(* Requests other than splits leave the splits in progress alone.          *)
LEMMA WorkKeepsSplits ==
    ASSUME TypeOK, NEW p \in Process, Work(p)
    PROVE  /\ split' = split
           /\ \A q \in Process : proc'[q].pc = "split" => proc'[q] = proc[q]
<1>0. proc \in [Process -> Proc]
  BY DEF TypeOK
<1>1. ASSUME NEW s \in Statement, Upload(p, s)
      PROVE  /\ split' = split
             /\ \A q \in Process : proc'[q].pc = "split" => proc'[q] = proc[q]
  BY <1>0, <1>1 DEF Upload, Proc
<1>2. ASSUME Tier2Matcher(p) \/ Tier2Load(p) \/ Tier2Commit(p)
      PROVE  /\ split' = split
             /\ \A q \in Process : proc'[q].pc = "split" => proc'[q] = proc[q]
  BY <1>0, <1>2 DEF Tier2Matcher, Tier2Load, Tier2Commit, Proc
<1>3. ASSUME Tier3Select(p) \/ Tier3Nothing(p) \/ Tier3Commit(p)
      PROVE  /\ split' = split
             /\ \A q \in Process : proc'[q].pc = "split" => proc'[q] = proc[q]
  BY <1>0, <1>3 DEF Tier3Select, Tier3Nothing, Tier3Commit, Finish, Idle, Proc
<1>4. ASSUME PromoteGroups(p) \/ PromoteCommit(p) \/ PromoteFail(p)
      PROVE  /\ split' = split
             /\ \A q \in Process : proc'[q].pc = "split" => proc'[q] = proc[q]
  <2>1. CASE PromoteGroups(p)
    BY <1>0, <2>1 DEF PromoteGroups, Idle, Proc
  <2>2. CASE PromoteCommit(p)
    BY <1>0, <2>2 DEF PromoteCommit, Finish, Idle, Proc
  <2>3. CASE PromoteFail(p)
    BY <1>0, <2>3 DEF PromoteFail, Finish, Idle, Proc
  <2>4. QED
    BY <1>4, <2>1, <2>2, <2>3
<1>5. ASSUME NEW m \in Merchant, PromoteDecisions(p, m) \/ PromoteEntry(p, m)
      PROVE  /\ split' = split
             /\ \A q \in Process : proc'[q].pc = "split" => proc'[q] = proc[q]
  BY <1>0, <1>5 DEF PromoteDecisions, PromoteEntry, Proc
<1>6. ASSUME NEW t \in Txn, NEW c \in Category, Recategorize(p, t, c)
      PROVE  /\ split' = split
             /\ \A q \in Process : proc'[q].pc = "split" => proc'[q] = proc[q]
  BY <1>0, <1>6 DEF Recategorize, Idle, Proc
<1>7. ASSUME RecategorizeOnly(p) \/ RecategorizeLookup(p)
               \/ RecategorizeCommit(p) \/ RecategorizeFail(p)
      PROVE  /\ split' = split
             /\ \A q \in Process : proc'[q].pc = "split" => proc'[q] = proc[q]
  BY <1>0, <1>7
  DEF RecategorizeOnly, RecategorizeLookup, RecategorizeCommit, RecategorizeFail,
      Finish, Idle, Proc
<1>8. QED
  BY <1>1, <1>2, <1>3, <1>4, <1>5, <1>6, <1>7 DEF Work

(* Rows that are stored are rows.                                          *)
LEMMA StoredRows ==
    ASSUME NEW rows \in Seq(Row), Len(rows) >= 2
    PROVE  Stored(rows) # << >>
<1>1. 1 \in DOMAIN rows
  OBVIOUS
<1>2. DOMAIN Stored(rows) = DOMAIN rows
  BY DEF Stored
<1>3. DOMAIN << >> = {}
  OBVIOUS
<1>4. QED
  BY <1>1, <1>2, <1>3

-----------------------------------------------------------------------------
(* The steps that leave the splits alone.                                  *)
LEMMA QuietStep ==
    ASSUME SInv, UNCHANGED <<alloc, request>>, split' = split,
           Crossed \subseteq Crossed', OneHolder',
           \A q \in Process : proc'[q].pc = "split" => proc'[q] = proc[q]
    PROVE  SInv'
<1>1. \A t \in Txn : Batches(t)' = Batches(t)
  BY DEF Batches
<1>2. AllocShape'
  BY DEF SInv, AllocShape
<1>3. RequestShape'
  BY DEF SInv, RequestShape
<1>4. OneBatch'
  BY <1>1 DEF SInv, OneBatch, Several
<1>5. AllSeen'
  BY DEF SInv, AllSeen, Batches
<1>6. OneHolder'
  OBVIOUS
<1>7. QED
  BY <1>2, <1>3, <1>4, <1>5, <1>6 DEF SInv

LEMMA SelectStep ==
    ASSUME SInv, TypeOK, NEW p \in Process, NEW t \in Txn, NEW splits \in Allocation[t],
           SplitSelect(p, t, splits),
           Crossed \subseteq Crossed', OneHolder'
    PROVE  SInv'
<1>1. splits \in Seq(Row) /\ Len(splits) >= 2
  BY SpendingAssumption DEF SplitSelect, Valid, Row
<1>2. PICK r : r = [NoRequest EXCEPT !.rows = splits]
  OBVIOUS
<1>3. /\ r \in [rows : Seq(Row), seen : SUBSET Process, deleted : BOOLEAN]
      /\ r.rows = splits
      /\ r.deleted = FALSE
  BY <1>1, <1>2 DEF NoRequest
<1>4. request' = [request EXCEPT ![p] = r]
  BY <1>2 DEF SplitSelect
<1>5. \A q \in Process \ {p} : proc'[q] = proc[q] /\ request'[q] = request[q]
  BY <1>4 DEF SplitSelect, Split, TypeOK, SInv, RequestShape
<1>6. request'[p] = r
  BY <1>4 DEF SInv, RequestShape
<1>7. alloc' = alloc /\ split' = split
  BY DEF SplitSelect, Split
<1>8. \A u \in Txn : Batches(u)' = Batches(u)
  BY <1>7 DEF Batches
<1>9. AllocShape'
  BY <1>7 DEF SInv, AllocShape
<1>10. RequestShape'
  BY <1>1, <1>3, <1>4, <1>5, <1>6 DEF SInv, RequestShape
<1>11. OneBatch'
  BY <1>7, <1>8 DEF SInv, OneBatch, Several
<1>12. AllSeen'
  BY <1>3, <1>5, <1>6, <1>7 DEF SInv, AllSeen, Batches
<1>13. OneHolder'
  OBVIOUS
<1>14. QED
  BY <1>9, <1>10, <1>11, <1>12, <1>13 DEF SInv

LEMMA DeleteStep ==
    ASSUME SInv, TypeOK, NEW p \in Process, SplitDelete(p),
           Crossed \subseteq Crossed', OneHolder'
    PROVE  SInv'
<1>1. PICK seen \in SUBSET Process :
          seen = {q \in Process : \E t \in proc[p].txns : alloc[t][q] # << >>}
  OBVIOUS
<1>2. PICK r : r = [request[p] EXCEPT !.deleted = TRUE, !.seen = seen]
  OBVIOUS
<1>3. UNCHANGED <<alloc, split, proc>>
  BY DEF SplitDelete, vars
<1>4. /\ request'[p].seen = seen
      /\ request'[p].rows = request[p].rows
      /\ request' \in [Process -> [rows : Seq(Row), seen : SUBSET Process,
                                   deleted : BOOLEAN]]
      /\ \A q \in Process \ {p} : request'[q] = request[q]
  <2>1. request[p] \in [rows : Seq(Row), seen : SUBSET Process, deleted : BOOLEAN]
    BY DEF SInv, RequestShape
  <2>2. /\ r \in [rows : Seq(Row), seen : SUBSET Process, deleted : BOOLEAN]
        /\ r.seen = seen /\ r.rows = request[p].rows
    BY <1>1, <1>2, <2>1
  <2>3. request' = [request EXCEPT ![p] = r]
    BY <1>1, <1>2 DEF SplitDelete
  <2>4. request \in [Process -> [rows : Seq(Row), seen : SUBSET Process,
                                 deleted : BOOLEAN]]
    BY DEF SInv, RequestShape
  <2>5. QED
    BY <2>2, <2>3, <2>4
<1>5. \A t \in Txn : Batches(t)' = Batches(t)
  BY <1>3 DEF Batches
<1>6. proc[p].txns \subseteq Txn
  BY DEF TypeOK, Proc
<1>7. AllocShape'
  BY <1>3 DEF SInv, AllocShape
<1>8. RequestShape'
  BY <1>3, <1>4 DEF SInv, RequestShape
<1>9. OneBatch'
  BY <1>3, <1>5 DEF SInv, OneBatch, Several
<1>10. AllSeen'
  <2> SUFFICES ASSUME NEW q \in Process, proc[q].pc = "split",
                      request'[q].deleted, NEW t \in proc[q].txns \ Crossed
               PROVE  Batches(t) \subseteq request'[q].seen
    BY <1>3 DEF AllSeen, Batches
  <2>1. CASE q = p
    BY <2>1, <1>1, <1>4 DEF Batches
  <2>2. CASE q # p
    BY <2>2, <1>4 DEF SInv, AllSeen
  <2>3. QED
    BY <2>1, <2>2
<1>11. OneHolder'
  OBVIOUS
<1>12. QED
  BY <1>7, <1>8, <1>9, <1>10, <1>11 DEF SInv

LEMMA StoreStep ==
    ASSUME SInv, TypeOK, NEW p \in Process, SplitStore(p),
           Crossed \subseteq Crossed', OneHolder'
    PROVE  SInv'
<1>1. proc[p].pc = "split" /\ request[p].deleted /\ split' = split \cup proc[p].txns
  BY DEF SplitStore, SplitCommit
<1>2. PICK rows : rows = Stored(request[p].rows)
  OBVIOUS
<1>3. rows # << >>
  BY <1>1, <1>2, StoredRows DEF SInv, RequestShape
<1>4. alloc' = [t \in Txn |->
         IF t \notin proc[p].txns THEN alloc[t]
         ELSE [q \in Process |->
                 IF q = p THEN rows
                 ELSE IF q \in request[p].seen THEN << >> ELSE alloc[t][q]]]
  BY <1>2 DEF SplitStore
<1>5. proc' = [proc EXCEPT ![p] = Idle]
  BY DEF SplitStore, SplitCommit, Finish
<1>6. Idle.pc = "idle" /\ proc'[p].pc = "idle"
  BY <1>5 DEF TypeOK, Idle
<1>7. \A q \in Process \ {p} : proc'[q] = proc[q]
  BY <1>5 DEF TypeOK
<1>8. proc[p].txns \subseteq Txn
  BY DEF TypeOK, Proc
<1>9. \A t \in proc[p].txns :
         Batches(t)' = {p} \cup (Batches(t) \ request[p].seen)
  BY <1>3, <1>4, <1>8 DEF Batches
<1>10. \A t \in Txn \ proc[p].txns : Batches(t)' = Batches(t)
  BY <1>4 DEF Batches
<1>11. AllocShape'
  BY <1>4 DEF SInv, AllocShape
<1>12. RequestShape'
  <2>1. NoRequest \in [rows : Seq(Row), seen : SUBSET Process, deleted : BOOLEAN]
    BY DEF NoRequest
  <2>2. ASSUME NEW q \in Process, q # p
        PROVE  /\ request'[q] \in [rows : Seq(Row), seen : SUBSET Process,
                                   deleted : BOOLEAN]
               /\ request'[q].rows = request[q].rows
    <3>1. request[q] \in [rows : Seq(Row), seen : SUBSET Process, deleted : BOOLEAN]
      BY DEF SInv, RequestShape
    <3>2. PICK r : r = [request[q] EXCEPT !.seen = @ \ {p}]
      OBVIOUS
    <3>3. /\ r \in [rows : Seq(Row), seen : SUBSET Process, deleted : BOOLEAN]
          /\ r.rows = request[q].rows
      BY <3>1, <3>2
    <3>4. request'[q] \in {request[q], r}
      BY <2>2, <3>2 DEF SplitStore
    <3>5. QED
      BY <3>1, <3>3, <3>4
  <2>3. request'[p] = NoRequest
    BY DEF SplitStore
  <2>4. request' = [q \in Process |-> request'[q]]
    BY DEF SplitStore
  <2>5. request' \in [Process -> [rows : Seq(Row), seen : SUBSET Process,
                                  deleted : BOOLEAN]]
    BY <2>1, <2>2, <2>3, <2>4
  <2>6. ASSUME NEW q \in Process, proc'[q].pc = "split"
        PROVE  Len(request'[q].rows) >= 2
    BY <2>2, <2>6, <1>6, <1>7 DEF SInv, RequestShape
  <2>7. QED
    BY <2>5, <2>6 DEF RequestShape
<1>13. OneBatch'
  <2>1. split' = {t \in Txn : Batches(t)' # {}}
    BY <1>1, <1>8, <1>9, <1>10 DEF SInv, OneBatch
  <2>2. ASSUME NEW t \in Txn \ Crossed', Several(Batches(t)')
        PROVE  FALSE
    <3>1. CASE t \in proc[p].txns
      <4>1. Batches(t) \subseteq request[p].seen
        BY <3>1, <2>2, <1>1 DEF SInv, AllSeen
      <4>2. Batches(t)' = {p}
        BY <4>1, <3>1, <1>9
      <4>3. QED
        BY <4>2, <2>2 DEF Several
    <3>2. CASE t \notin proc[p].txns
      BY <3>2, <2>2, <1>10 DEF SInv, OneBatch
    <3>3. QED
      BY <3>1, <3>2
  <2>3. QED
    BY <2>1, <2>2 DEF OneBatch, Several
<1>14. AllSeen'
  <2> SUFFICES ASSUME NEW q \in Process, proc'[q].pc = "split", request'[q].deleted,
                      NEW t \in proc'[q].txns \ Crossed'
               PROVE  Batches(t)' \subseteq request'[q].seen
    BY DEF AllSeen
  <2>1. q # p /\ proc[q].pc = "split" /\ t \in proc[q].txns \ Crossed
    BY <1>6, <1>7
  <2>2. t \in Txn /\ t \notin proc[p].txns
    <3>1. t \in Txn
      BY <2>1 DEF TypeOK, Proc
    <3>2. QED
      BY <2>1, <3>1 DEF SInv, OneHolder, Several
  <2>3. request'[q] = request[q]
    BY <2>1, <2>2 DEF SplitStore
  <2>4. Batches(t)' = Batches(t)
    BY <1>10, <2>2
  <2>5. QED
    BY <2>1, <2>3, <2>4 DEF SInv, AllSeen
<1>15. OneHolder'
  OBVIOUS
<1>16. QED
  BY <1>11, <1>12, <1>13, <1>14, <1>15 DEF SInv

LEMMA RemoveStep ==
    ASSUME SInv, NEW t \in Txn, Remove(t),
           Crossed \subseteq Crossed', OneHolder'
    PROVE  SInv'
<1>1. /\ alloc' = [alloc EXCEPT ![t] = [p \in Process |-> << >>]]
      /\ split' = split \ {t}
      /\ UNCHANGED <<proc, request>>
  BY DEF Remove, Unsplit
<1>2. alloc'[t] = [p \in Process |-> << >>] /\ \A u \in Txn \ {t} : alloc'[u] = alloc[u]
  BY <1>1 DEF SInv, AllocShape
<1>3. Batches(t)' = {} /\ \A u \in Txn \ {t} : Batches(u)' = Batches(u)
  BY <1>2 DEF Batches
<1>4. AllocShape'
  BY <1>1, <1>2 DEF SInv, AllocShape
<1>5. RequestShape'
  BY <1>1 DEF SInv, RequestShape
<1>6. OneBatch'
  BY <1>1, <1>3 DEF SInv, OneBatch, Several
<1>7. AllSeen'
  <2> SUFFICES ASSUME NEW q \in Process, proc[q].pc = "split",
                      request[q].deleted, NEW u \in proc[q].txns \ Crossed
               PROVE  Batches(u)' \subseteq request[q].seen
    BY <1>1 DEF AllSeen
  <2>1. Batches(u) \subseteq request[q].seen
    BY DEF SInv, AllSeen
  <2>2. Batches(u)' \subseteq Batches(u)
    BY <1>1 DEF Batches, SInv, AllocShape
  <2>3. QED
    BY <2>1, <2>2
<1>8. OneHolder'
  OBVIOUS
<1>9. QED
  BY <1>4, <1>5, <1>6, <1>7, <1>8 DEF SInv

LEMMA NextSInv == SInv /\ TypeOK /\ [SpendingNext]_spendingVars => SInv'
<1> SUFFICES ASSUME SInv, TypeOK, [SpendingNext]_spendingVars
             PROVE  SInv'
  OBVIOUS
<1>1. CASE UNCHANGED spendingVars
  BY <1>1, QuietStep DEF spendingVars, vars, SInv, OneHolder, Several, Crossed
<1>2. CASE SpendingNext
  <2>1. Crossed \subseteq Crossed' /\ OneHolder'
    BY <1>2, MeetHolds DEF SpendingNext
  <2>2. ASSUME NEW p \in Process, Work(p), UNCHANGED <<alloc, request, view>>
        PROVE  SInv'
    BY <2>1, <2>2, WorkKeepsSplits, QuietStep
  <2>3. ASSUME NEW p \in Process, NEW t \in Txn, NEW splits \in Allocation[t],
               SplitSelect(p, t, splits)
        PROVE  SInv'
    BY <2>1, <2>3, SelectStep
  <2>4. ASSUME NEW p \in Process, SplitDelete(p)
        PROVE  SInv'
    BY <2>1, <2>4, DeleteStep
  <2>5. ASSUME NEW p \in Process, SplitStore(p)
        PROVE  SInv'
    BY <2>1, <2>5, StoreStep
  <2>6. ASSUME NEW t \in Txn, Remove(t)
        PROVE  SInv'
    BY <2>1, <2>6, RemoveStep
  <2>7. ASSUME NEW period \in Period, ViewPlain(period)
        PROVE  SInv'
    BY <2>1, <2>7, QuietStep DEF ViewPlain, vars
  <2>8. ASSUME ViewSplits
        PROVE  SInv'
    BY <2>1, <2>8, QuietStep DEF ViewSplits, vars
  <2>9. QED
    BY <1>2, <2>2, <2>3, <2>4, <2>5, <2>6, <2>7, <2>8 DEF SpendingNext
<1>3. QED
  BY <1>1, <1>2

(* A transaction counts as split exactly while it has rows, and they are   *)
(* those of one request, whatever was split, removed and split again       *)
(* before, unless two requests worked on this transaction at once          *)
(* (transaction_service.py:141-153).                                       *)
THEOREM SplitsFromOneRequest == SpendingSpec => []OneBatch
<1>1. SInv => OneBatch
  BY DEF SInv
<1>2. QED
  BY <1>1, InitSInv, NextSInv, CategorizationHolds, PTL DEF SpendingSpec

-----------------------------------------------------------------------------
(* Sums over finite sets.  SumFunctionOnSet is a fold: a CHOOSE of a       *)
(* recursive function on all subsets.  That there is one, and what it is,  *)
(* follows from a least counterexample, as does induction over finite sets *)
(* whose hypothesis is a set of sets.                                      *)

(* A nonempty set of naturals has a least member.                          *)
LEMMA Least ==
    ASSUME NEW T \in SUBSET Nat, T # {}
    PROVE  \E n \in T : \A m \in T : n <= m
<1> DEFINE R == {ss \in Nat \X Nat : ss[1] < ss[2]}
<1>1. IsWellFoundedOn(R, Nat)
  BY NatLessThanWellFounded, Zenon DEF OpToRel
<1>2. \E n \in T : \A m \in T : <<m, n>> \notin R
  <2> HIDE DEF R
  <2> QED BY <1>1, WFMin
<1>3. \A m, n \in Nat : <<m, n>> \in R <=> m < n
  OBVIOUS
<1>4. PICK n \in T : \A m \in T : <<m, n>> \notin R
  BY <1>2
<1>5. ASSUME NEW m \in T
      PROVE  n <= m
  <2>1. m \in Nat /\ n \in Nat /\ <<m, n>> \notin R
    BY <1>4
  <2>2. ~(m < n)
    BY <1>3, <2>1
  <2>3. QED
    BY <2>1, <2>2
<1>6. QED
  BY <1>5

First(s) == CHOOSE x \in s : TRUE

(* The recursion of a sum, as far as the sets of D.                        *)
Adds(it, f, D) ==
    it = [s \in D |-> IF s = {} THEN 0
                      ELSE f[First(s)] + it[s \ {First(s)}]]

(* SumFunctionOnSet, unfolded to the recursion.                            *)
LEMMA SumIsFold ==
    ASSUME NEW f, NEW S
    PROVE  SumFunctionOnSet(f, S) = (CHOOSE it : Adds(it, f, SUBSET S))[S]
BY DEF SumFunctionOnSet, FoldFunctionOnSet, MapThenFoldSet, Adds, First

Small(S, n) == {s \in SUBSET S : Cardinality(s) <= n}

(* Without its first member, a set of Small(S, n + 1) is one of Small(S,   *)
(* n).                                                                     *)
LEMMA SmallStep ==
    ASSUME NEW S, IsFiniteSet(S), NEW n \in Nat, NEW s \in Small(S, n + 1), s # {}
    PROVE  s \ {First(s)} \in Small(S, n)
<1>1. First(s) \in s
  BY DEF First
<1>2. IsFiniteSet(s) /\ s \subseteq S
  BY FS_Subset DEF Small
<1>3. Cardinality(s \ {First(s)}) = Cardinality(s) - 1
  BY <1>1, <1>2, FS_RemoveElement
<1>4. Cardinality(s) \in Nat /\ Cardinality(s) <= n + 1
  BY <1>2, FS_CardinalityType DEF Small
<1>5. QED
  BY <1>2, <1>3, <1>4 DEF Small

(* A recursion on the small sets goes on to those with a member more.      *)
LEMMA AddsExtends ==
    ASSUME NEW S, IsFiniteSet(S), NEW n \in Nat, NEW f, \E it : Adds(it, f, Small(S, n))
    PROVE  \E it : Adds(it, f, Small(S, n + 1))
<1>1. PICK it : Adds(it, f, Small(S, n))
  OBVIOUS
<1> DEFINE D == Small(S, n + 1)
<1>a. PICK next : next = [s \in D |-> IF s = {} THEN 0 ELSE f[First(s)] + it[s \ {First(s)}]]
  OBVIOUS
<1>2. \A s \in Small(S, n) : s \in Small(S, n + 1)
  <2>1. \A s \in SUBSET S : Cardinality(s) \in Nat
    BY FS_Subset, FS_CardinalityType
  <2> QED BY <2>1 DEF Small
<1>3. \A s \in Small(S, n) : next[s] = it[s]
  BY <1>1, <1>a, <1>2 DEF Adds
<1>4. \A s \in Small(S, n + 1) : s # {} => next[s \ {First(s)}] = it[s \ {First(s)}]
  BY <1>3, SmallStep
<1>5. \A s \in D : next[s] = IF s = {} THEN 0 ELSE f[First(s)] + next[s \ {First(s)}]
  BY <1>a, <1>4
<1>b. next = [s \in D |-> next[s]]
  BY <1>a
<1>6. Adds(next, f, Small(S, n + 1))
  BY <1>5, <1>b, Zenon DEF Adds
<1>7. QED
  BY <1>6

(* So there is one on all subsets: take a least n where there is none.     *)
LEMMA AddsExists ==
    ASSUME NEW S, IsFiniteSet(S), NEW f
    PROVE  \E it : Adds(it, f, SUBSET S)
<1> DEFINE Bad == {n \in Nat : ~ \E it : Adds(it, f, Small(S, n))}
<1>1. Bad = {}
  <2> SUFFICES ASSUME Bad # {} PROVE FALSE
    OBVIOUS
  <2>1. PICK n \in Bad : \A m \in Bad : n <= m
    BY Least
  <2>2. n # 0
    <3>1. \A s \in Small(S, 0) : s = {}
      BY FS_EmptySet, FS_Subset, FS_CardinalityType DEF Small
    <3>2. Adds([s \in Small(S, 0) |-> 0], f, Small(S, 0))
      BY <3>1 DEF Adds
    <3>3. QED
      BY <3>2
  <2>3. n - 1 \in Nat /\ n - 1 \notin Bad /\ n - 1 + 1 = n
    BY <2>1, <2>2
  <2>4. QED
    BY <2>1, <2>3, AddsExtends
<1>2. Cardinality(S) \in Nat /\ Small(S, Cardinality(S)) = SUBSET S
  BY FS_CardinalityType, FS_Subset DEF Small
<1>3. \E it : Adds(it, f, Small(S, Cardinality(S)))
  BY <1>1, <1>2
<1>4. QED
  BY <1>2, <1>3

(* Induction on the subsets of a finite set, with a set in the place of a  *)
(* predicate.                                                              *)
LEMMA SubsetInduction ==
    ASSUME NEW S, IsFiniteSet(S), NEW Good, {} \in Good,
           \A T \in Good, x \in S : T \subseteq S /\ x \notin T => T \cup {x} \in Good
    PROVE  S \in Good
<1> DEFINE Bad == {n \in Nat : \E T \in SUBSET S : T \notin Good /\ Cardinality(T) = n}
<1> SUFFICES ASSUME S \notin Good PROVE FALSE
  OBVIOUS
<1>1. Cardinality(S) \in Bad
  BY FS_CardinalityType
<1>2. PICK n \in Bad : \A m \in Bad : n <= m
  <2> Bad \subseteq Nat /\ Bad # {}
    BY <1>1
  <2> HIDE DEF Bad
  <2> QED BY Least
<1>3. PICK T \in SUBSET S : T \notin Good /\ Cardinality(T) = n
  OBVIOUS
<1>4. PICK x \in T : TRUE
  BY <1>3
<1>5. IsFiniteSet(T) /\ Cardinality(T \ {x}) = n - 1
  BY <1>3, FS_Subset, FS_RemoveElement
<1>6. Cardinality(T \ {x}) \in Nat /\ n \in Nat /\ T \ {x} \in SUBSET S
  BY <1>5, FS_RemoveElement, FS_CardinalityType
<1>7. T \ {x} \in Good
  <2>1. n - 1 \notin Bad
    BY <1>2, <1>5, <1>6
  <2>2. QED
    BY <2>1, <1>5, <1>6
<1>8. (T \ {x}) \cup {x} = T /\ x \in S /\ x \notin T \ {x}
  OBVIOUS
<1>9. QED
  BY <1>3, <1>6, <1>7, <1>8

(* Two recursions agree on the sets where their terms do.                  *)
LEMMA AddsAgree ==
    ASSUME NEW S, NEW T, NEW f, NEW g, NEW it, NEW jt,
           Adds(it, f, SUBSET S), Adds(jt, g, SUBSET T),
           NEW U, U \subseteq S, U \subseteq T, IsFiniteSet(U), \A x \in U : f[x] = g[x]
    PROVE  it[U] = jt[U]
<1> DEFINE Good == {n \in Nat : \A V \in SUBSET U : Cardinality(V) <= n => it[V] = jt[V]}
           Bad == Nat \ Good
<1>1. Bad = {}
  <2> SUFFICES ASSUME Bad # {} PROVE FALSE
    OBVIOUS
  <2>1. PICK n \in Bad : \A m \in Bad : n <= m
    <3> Bad \subseteq Nat
      OBVIOUS
    <3> HIDE DEF Bad
    <3> QED BY Least
  <2>2. PICK V \in SUBSET U : Cardinality(V) <= n /\ it[V] # jt[V]
    BY <2>1
  <2>3. V # {}
    BY <2>2 DEF Adds
  <2>4. IsFiniteSet(V) /\ Cardinality(V) \in Nat /\ First(V) \in V
    BY <2>3, FS_Subset, FS_CardinalityType DEF First
  <2>5. /\ Cardinality(V \ {First(V)}) = Cardinality(V) - 1
        /\ Cardinality(V \ {First(V)}) \in Nat
    BY <2>4, FS_RemoveElement, FS_CardinalityType
  <2>6. n \in Nat /\ n - 1 \in Nat /\ n - 1 \in Good
    BY <2>1, <2>2, <2>4, <2>5
  <2>7. it[V \ {First(V)}] = jt[V \ {First(V)}]
    <3> Cardinality(V \ {First(V)}) <= n - 1 /\ V \ {First(V)} \in SUBSET U
      BY <2>2, <2>4, <2>5, <2>6
    <3> QED BY <2>6
  <2>8. /\ it[V] = f[First(V)] + it[V \ {First(V)}]
        /\ jt[V] = g[First(V)] + jt[V \ {First(V)}]
    BY <2>3 DEF Adds
  <2>9. QED
    BY <2>2, <2>4, <2>7, <2>8
<1>2. Cardinality(U) \in Good
  BY <1>1, FS_CardinalityType
<1>3. Cardinality(U) \in Nat
  BY FS_CardinalityType
<1>4. QED
  BY <1>2, <1>3

(* The CHOOSE has a witness, so a sum is what the recursion computes.      *)
LEMMA SumDefined ==
    ASSUME NEW f, NEW S, IsFiniteSet(S)
    PROVE  \E it : Adds(it, f, SUBSET S) /\ SumFunctionOnSet(f, S) = it[S]
BY AddsExists, SumIsFold

(* An empty sum.                                                           *)
LEMMA SumEmpty ==
    ASSUME NEW f
    PROVE  SumFunctionOnSet(f, {}) = 0
<1>1. PICK it : Adds(it, f, SUBSET {}) /\ SumFunctionOnSet(f, {}) = it[{}]
  BY SumDefined, FS_EmptySet
<1>2. QED
  BY <1>1 DEF Adds

(* A sum depends on its terms.                                             *)
LEMMA SumSame ==
    ASSUME NEW S, IsFiniteSet(S), NEW f, NEW g, \A x \in S : f[x] = g[x]
    PROVE  SumFunctionOnSet(f, S) = SumFunctionOnSet(g, S)
<1>1. PICK it : Adds(it, f, SUBSET S) /\ SumFunctionOnSet(f, S) = it[S]
  BY SumDefined
<1>2. PICK jt : Adds(jt, g, SUBSET S) /\ SumFunctionOnSet(g, S) = jt[S]
  BY SumDefined
<1>3. QED
  BY <1>1, <1>2, AddsAgree

(* The first member may be taken out of a sum ...                          *)
LEMMA SumFirst ==
    ASSUME NEW S, IsFiniteSet(S), S # {}, NEW f
    PROVE  SumFunctionOnSet(f, S) = f[First(S)] + SumFunctionOnSet(f, S \ {First(S)})
<1>1. PICK it : Adds(it, f, SUBSET S) /\ SumFunctionOnSet(f, S) = it[S]
  BY SumDefined
<1>2. IsFiniteSet(S \ {First(S)})
  BY FS_RemoveElement
<1>3. PICK jt : Adds(jt, f, SUBSET (S \ {First(S)}))
               /\ SumFunctionOnSet(f, S \ {First(S)}) = jt[S \ {First(S)}]
  BY <1>2, SumDefined
<1>4. it[S \ {First(S)}] = jt[S \ {First(S)}]
  <2>1. S \ {First(S)} \subseteq S
    OBVIOUS
  <2> DEFINE U == S \ {First(S)}
  <2>2. U \subseteq S /\ U \subseteq U /\ IsFiniteSet(U) /\ Adds(jt, f, SUBSET U)
    BY <1>2, <1>3
  <2>3. \A x \in U : f[x] = f[x]
    OBVIOUS
  <2> HIDE DEF U
  <2>4. it[U] = jt[U]
    BY <1>1, <2>2, <2>3, AddsAgree, SMTT(60)
  <2>5. QED
    BY <2>4 DEF U
<1>5. it[S] = f[First(S)] + it[S \ {First(S)}]
  BY <1>1 DEF Adds
<1>6. QED
  BY <1>1, <1>3, <1>4, <1>5

(* A sum of integers is an integer.                                        *)
LEMMA SumType ==
    ASSUME NEW S, IsFiniteSet(S), NEW f, \A x \in S : f[x] \in Int
    PROVE  SumFunctionOnSet(f, S) \in Int
<1> DEFINE Bad == {n \in Nat : \E T \in SUBSET S : Cardinality(T) = n /\ SumFunctionOnSet(f, T) \notin Int}
<1> SUFFICES ASSUME SumFunctionOnSet(f, S) \notin Int PROVE FALSE
  OBVIOUS
<1>1. Cardinality(S) \in Bad
  BY FS_CardinalityType
<1>2. PICK n \in Bad : \A m \in Bad : n <= m
  <2> Bad \subseteq Nat /\ Bad # {}
    BY <1>1
  <2> HIDE DEF Bad
  <2> QED BY Least
<1>3. PICK T \in SUBSET S : Cardinality(T) = n /\ SumFunctionOnSet(f, T) \notin Int
  OBVIOUS
<1>4. T # {} /\ IsFiniteSet(T) /\ First(T) \in T
  <2>1. T # {}
    BY <1>3, SumEmpty
  <2>2. QED
    BY <2>1, FS_Subset DEF First
<1>5. /\ Cardinality(T \ {First(T)}) = n - 1
      /\ Cardinality(T \ {First(T)}) \in Nat
      /\ T \ {First(T)} \in SUBSET S
  BY <1>3, <1>4, FS_RemoveElement, FS_CardinalityType
<1>6. SumFunctionOnSet(f, T \ {First(T)}) \in Int
  <2>1. n - 1 \notin Bad
    BY <1>2, <1>5
  <2>2. QED
    BY <2>1, <1>5
<1>7. SumFunctionOnSet(f, T) = f[First(T)] + SumFunctionOnSet(f, T \ {First(T)})
  BY <1>4, SumFirst
<1>8. f[First(T)] \in Int
  BY <1>4
<1>9. QED
  BY <1>3, <1>6, <1>7, <1>8

(* ... and then any member may.                                            *)
LEMMA SumRemove ==
    ASSUME NEW S, IsFiniteSet(S), NEW f, \A x \in S : f[x] \in Int, NEW y \in S
    PROVE  SumFunctionOnSet(f, S) = f[y] + SumFunctionOnSet(f, S \ {y})
<1> DEFINE Peels(T) == \A x \in T :
               SumFunctionOnSet(f, T) = f[x] + SumFunctionOnSet(f, T \ {x})
           Bad == {n \in Nat : \E T \in SUBSET S : Cardinality(T) = n /\ ~Peels(T)}
<1> SUFFICES ASSUME ~Peels(S) PROVE FALSE
  OBVIOUS
<1>1. Cardinality(S) \in Bad
  BY FS_CardinalityType
<1>2. PICK n \in Bad : \A m \in Bad : n <= m
  <2> Bad \subseteq Nat /\ Bad # {}
    BY <1>1
  <2> HIDE DEF Bad
  <2> QED BY Least
<1>3. PICK T \in SUBSET S : Cardinality(T) = n /\ ~Peels(T)
  OBVIOUS
<1>4. PICK x \in T : SumFunctionOnSet(f, T) # f[x] + SumFunctionOnSet(f, T \ {x})
  BY <1>3
<1> DEFINE c == First(T)
<1>5. IsFiniteSet(T) /\ c \in T /\ n \in Nat
  BY <1>3, <1>4, FS_Subset DEF First
<1>6. SumFunctionOnSet(f, T) = f[c] + SumFunctionOnSet(f, T \ {c})
  BY <1>5, SumFirst
<1> HIDE DEF c
<1>7. c # x
  BY <1>4, <1>6
<1>8. \A z \in T : Peels(T \ {z})
  <2> SUFFICES ASSUME NEW z \in T PROVE Peels(T \ {z})
    OBVIOUS
  <2>1. /\ Cardinality(T \ {z}) = n - 1
        /\ Cardinality(T \ {z}) \in Nat
        /\ T \ {z} \in SUBSET S
    BY <1>3, <1>5, FS_RemoveElement, FS_CardinalityType
  <2>2. n - 1 \notin Bad
    BY <1>2, <2>1
  <2> HIDE DEF Peels
  <2>3. QED
    BY <2>1, <2>2
<1>9. SumFunctionOnSet(f, T \ {c}) = f[x] + SumFunctionOnSet(f, (T \ {c}) \ {x})
  <2>1. x \in T \ {c} /\ Peels(T \ {c})
    BY <1>5, <1>7, <1>8
  <2>2. QED
    BY <2>1
<1>10. SumFunctionOnSet(f, T \ {x}) = f[c] + SumFunctionOnSet(f, (T \ {x}) \ {c})
  <2>1. c \in T \ {x} /\ Peels(T \ {x})
    BY <1>5, <1>7, <1>8
  <2>2. QED
    BY <2>1
<1>11. (T \ {c}) \ {x} = (T \ {x}) \ {c}
  OBVIOUS
<1>12. f[c] \in Int /\ f[x] \in Int /\ SumFunctionOnSet(f, (T \ {x}) \ {c}) \in Int
  <2>1. IsFiniteSet((T \ {x}) \ {c}) /\ \A z \in (T \ {x}) \ {c} : f[z] \in Int
    BY <1>5, FS_RemoveElement
  <2>2. QED
    BY <2>1, <1>5, SumType
<1>13. SumFunctionOnSet(f, (T \ {c}) \ {x}) = SumFunctionOnSet(f, (T \ {x}) \ {c})
  BY <1>11, Zenon
<1>14. SumFunctionOnSet(f, T) = f[c] + (f[x] + SumFunctionOnSet(f, (T \ {x}) \ {c}))
  BY <1>6, <1>9, <1>13, Zenon
<1>15. f[x] + SumFunctionOnSet(f, T \ {x}) = f[x] + (f[c] + SumFunctionOnSet(f, (T \ {x}) \ {c}))
  BY <1>10, Zenon
<1>16. f[c] + (f[x] + SumFunctionOnSet(f, (T \ {x}) \ {c}))
           = f[x] + (f[c] + SumFunctionOnSet(f, (T \ {x}) \ {c}))
  BY <1>12
<1>17. QED
  BY <1>4, <1>14, <1>15, <1>16, Zenon

(* One more term.                                                          *)
LEMMA SumAdd ==
    ASSUME NEW S, IsFiniteSet(S), NEW y, y \notin S, NEW f, \A x \in S \cup {y} : f[x] \in Int
    PROVE  SumFunctionOnSet(f, S \cup {y}) = f[y] + SumFunctionOnSet(f, S)
<1> DEFINE T == S \cup {y}
<1>1. IsFiniteSet(T) /\ y \in T /\ T \ {y} = S /\ \A x \in T : f[x] \in Int
  BY FS_AddElement
<1> HIDE DEF T
<1>2. SumFunctionOnSet(f, T) = f[y] + SumFunctionOnSet(f, T \ {y})
  BY <1>1, SumRemove
<1>3. QED
  BY <1>1, <1>2 DEF T

(* Term by term, sums add up.                                             *)
LEMMA SumPlus ==
    ASSUME NEW S, IsFiniteSet(S), NEW f, NEW g, NEW h,
           \A x \in S : f[x] \in Int /\ g[x] \in Int /\ h[x] = f[x] + g[x]
    PROVE  SumFunctionOnSet(h, S) = SumFunctionOnSet(f, S) + SumFunctionOnSet(g, S)
<1> DEFINE Good == {T \in SUBSET S :
               SumFunctionOnSet(h, T) = SumFunctionOnSet(f, T) + SumFunctionOnSet(g, T)}
<1>1. {} \in Good
  BY SumEmpty
<1>2. \A T \in Good, x \in S : T \subseteq S /\ x \notin T => T \cup {x} \in Good
  <2> SUFFICES ASSUME NEW T \in SUBSET S, NEW x \in S, x \notin T,
                      SumFunctionOnSet(h, T) = SumFunctionOnSet(f, T) + SumFunctionOnSet(g, T)
               PROVE  T \cup {x} \in Good
    OBVIOUS
  <2>1. IsFiniteSet(T) /\ \A z \in T \cup {x} : f[z] \in Int /\ g[z] \in Int /\ h[z] \in Int
    BY FS_Subset
  <2>2. /\ SumFunctionOnSet(f, T) \in Int /\ SumFunctionOnSet(g, T) \in Int
        /\ SumFunctionOnSet(f, T \cup {x}) = f[x] + SumFunctionOnSet(f, T)
        /\ SumFunctionOnSet(g, T \cup {x}) = g[x] + SumFunctionOnSet(g, T)
        /\ SumFunctionOnSet(h, T \cup {x}) = h[x] + SumFunctionOnSet(h, T)
    BY <2>1, SumAdd, SumType
  <2>3. SumFunctionOnSet(h, T \cup {x}) = SumFunctionOnSet(f, T \cup {x}) + SumFunctionOnSet(g, T \cup {x})
    BY <2>1, <2>2
  <2>4. QED
    BY <2>3
<1>3. S \in Good
  <2> HIDE DEF Good
  <2> QED BY <1>1, <1>2, SubsetInduction
<1>4. QED
  BY <1>3

(* A sum over two disjoint sets.                                           *)
LEMMA SumDisjoint ==
    ASSUME NEW S, IsFiniteSet(S), NEW T, IsFiniteSet(T), S \cap T = {},
           NEW f, \A x \in S \cup T : f[x] \in Int
    PROVE  SumFunctionOnSet(f, S \cup T) = SumFunctionOnSet(f, S) + SumFunctionOnSet(f, T)
<1> DEFINE Good == {U \in SUBSET T :
               SumFunctionOnSet(f, S \cup U) = SumFunctionOnSet(f, S) + SumFunctionOnSet(f, U)}
<1>0. SumFunctionOnSet(f, S) \in Int
  BY SumType
<1>1. {} \in Good
  BY <1>0, SumEmpty
<1>2. \A U \in Good, x \in T : U \subseteq T /\ x \notin U => U \cup {x} \in Good
  <2> SUFFICES ASSUME NEW U \in SUBSET T, NEW x \in T, x \notin U,
                      SumFunctionOnSet(f, S \cup U) = SumFunctionOnSet(f, S) + SumFunctionOnSet(f, U)
               PROVE  U \cup {x} \in Good
    OBVIOUS
  <2>1. IsFiniteSet(U) /\ IsFiniteSet(S \cup U) /\ x \notin S \cup U /\ f[x] \in Int
    BY FS_Subset, FS_Union
  <2>2. SumFunctionOnSet(f, U) \in Int /\ SumFunctionOnSet(f, U \cup {x}) = f[x] + SumFunctionOnSet(f, U)
    BY <2>1, SumAdd, SumType
  <2>3. SumFunctionOnSet(f, (S \cup U) \cup {x}) = f[x] + SumFunctionOnSet(f, S \cup U)
    BY <2>1, SumAdd
  <2>4. (S \cup U) \cup {x} = S \cup (U \cup {x})
    OBVIOUS
  <2>a. SumFunctionOnSet(f, S \cup (U \cup {x})) = f[x] + SumFunctionOnSet(f, S \cup U)
    BY <2>3, <2>4, Zenon
  <2>5. SumFunctionOnSet(f, S \cup (U \cup {x})) = SumFunctionOnSet(f, S) + SumFunctionOnSet(f, U \cup {x})
    BY <1>0, <2>1, <2>2, <2>a
  <2>6. QED
    BY <2>5
<1>3. T \in Good
  <2> HIDE DEF Good
  <2> QED BY <1>1, <1>2, SubsetInduction
<1>4. QED
  BY <1>3

(* A sum of larger terms is larger.                                        *)
LEMMA SumMonotone ==
    ASSUME NEW S, IsFiniteSet(S), NEW f, NEW g,
           \A x \in S : f[x] \in Int /\ g[x] \in Int /\ f[x] <= g[x]
    PROVE  SumFunctionOnSet(f, S) <= SumFunctionOnSet(g, S)
<1> DEFINE Good == {T \in SUBSET S : SumFunctionOnSet(f, T) <= SumFunctionOnSet(g, T)}
<1>1. {} \in Good
  BY SumEmpty
<1>2. \A T \in Good, x \in S : T \subseteq S /\ x \notin T => T \cup {x} \in Good
  <2> SUFFICES ASSUME NEW T \in SUBSET S, NEW x \in S, x \notin T,
                      SumFunctionOnSet(f, T) <= SumFunctionOnSet(g, T)
               PROVE  T \cup {x} \in Good
    OBVIOUS
  <2>1. IsFiniteSet(T) /\ \A z \in T \cup {x} : f[z] \in Int /\ g[z] \in Int
    BY FS_Subset
  <2>2. /\ SumFunctionOnSet(f, T) \in Int /\ SumFunctionOnSet(g, T) \in Int
        /\ SumFunctionOnSet(f, T \cup {x}) = f[x] + SumFunctionOnSet(f, T)
        /\ SumFunctionOnSet(g, T \cup {x}) = g[x] + SumFunctionOnSet(g, T)
    BY <2>1, SumAdd, SumType
  <2>3. SumFunctionOnSet(f, T \cup {x}) <= SumFunctionOnSet(g, T \cup {x})
    BY <2>1, <2>2
  <2>4. QED
    BY <2>3
<1>3. S \in Good
  <2> HIDE DEF Good
  <2> QED BY <1>1, <1>2, SubsetInduction
<1>4. QED
  BY <1>3

(* A sum of equal terms is a product.                                      *)
LEMMA SumConstant ==
    ASSUME NEW S, IsFiniteSet(S), NEW f, NEW c \in Int, \A x \in S : f[x] = c
    PROVE  SumFunctionOnSet(f, S) = c * Cardinality(S)
<1> DEFINE Good == {T \in SUBSET S : SumFunctionOnSet(f, T) = c * Cardinality(T)}
<1>1. {} \in Good
  BY SumEmpty, FS_EmptySet
<1>2. \A T \in Good, x \in S : T \subseteq S /\ x \notin T => T \cup {x} \in Good
  <2> SUFFICES ASSUME NEW T \in SUBSET S, NEW x \in S, x \notin T,
                      SumFunctionOnSet(f, T) = c * Cardinality(T)
               PROVE  T \cup {x} \in Good
    OBVIOUS
  <2>1. IsFiniteSet(T) /\ \A z \in T \cup {x} : f[z] \in Int
    BY FS_Subset
  <2>2. SumFunctionOnSet(f, T \cup {x}) = f[x] + SumFunctionOnSet(f, T)
    BY <2>1, SumAdd
  <2>3. Cardinality(T) \in Nat /\ Cardinality(T \cup {x}) = Cardinality(T) + 1
    BY <2>1, FS_CardinalityType, FS_AddElement
  <2>4. \A n \in Nat : c + c * n = c * (n + 1)
    OBVIOUS
  <2>5. SumFunctionOnSet(f, T \cup {x}) = c * Cardinality(T \cup {x})
    BY <2>2, <2>3, <2>4
  <2>6. QED
    BY <2>5
<1>3. S \in Good
  <2> HIDE DEF Good
  <2> QED BY <1>1, <1>2, SubsetInduction
<1>4. QED
  BY <1>3

(* A sum over the image of an injection.                                   *)
LEMMA SumReindex ==
    ASSUME NEW S, IsFiniteSet(S), NEW at,
           \A x, y \in S : at[x] = at[y] => x = y,
           NEW f, NEW g, \A x \in S : f[x] \in Int /\ g[at[x]] = f[x]
    PROVE  /\ IsFiniteSet({at[x] : x \in S})
           /\ Cardinality({at[x] : x \in S}) = Cardinality(S)
           /\ SumFunctionOnSet(g, {at[x] : x \in S}) = SumFunctionOnSet(f, S)
<1> DEFINE Good == {T \in SUBSET S :
               /\ IsFiniteSet({at[x] : x \in T})
               /\ Cardinality({at[x] : x \in T}) = Cardinality(T)
               /\ SumFunctionOnSet(g, {at[x] : x \in T}) = SumFunctionOnSet(f, T)}
<1>1. {} \in Good
  <2>1. {at[x] : x \in {}} = {}
    OBVIOUS
  <2>2. SumFunctionOnSet(g, {at[x] : x \in {}}) = SumFunctionOnSet(f, {})
    <3>1. SumFunctionOnSet(g, {}) = SumFunctionOnSet(f, {})
      BY SumEmpty
    <3>2. QED
      BY <3>1, <2>1, Zenon
  <2>3. QED
    BY <2>1, <2>2, FS_EmptySet
<1>2. \A T \in Good, y \in S : T \subseteq S /\ y \notin T => T \cup {y} \in Good
  <2> SUFFICES ASSUME NEW T \in SUBSET S, NEW y \in S, y \notin T,
                      IsFiniteSet({at[x] : x \in T}),
                      Cardinality({at[x] : x \in T}) = Cardinality(T),
                      SumFunctionOnSet(g, {at[x] : x \in T}) = SumFunctionOnSet(f, T)
               PROVE  T \cup {y} \in Good
    OBVIOUS
  <2> DEFINE A == {at[x] : x \in T}
  <2>1. {at[x] : x \in T \cup {y}} = A \cup {at[y]} /\ at[y] \notin A
    OBVIOUS
  <2>2. IsFiniteSet(T) /\ \A z \in T \cup {y} : f[z] \in Int
    BY FS_Subset
  <2>3. \A b \in A \cup {at[y]} : g[b] \in Int
    OBVIOUS
  <2>4. /\ IsFiniteSet(A \cup {at[y]})
        /\ Cardinality(A \cup {at[y]}) = Cardinality(A) + 1
        /\ Cardinality(T \cup {y}) = Cardinality(T) + 1
    BY <2>1, <2>2, FS_AddElement
  <2>5. SumFunctionOnSet(f, T \cup {y}) = f[y] + SumFunctionOnSet(f, T)
    BY <2>2, SumAdd
  <2>6. SumFunctionOnSet(g, A \cup {at[y]}) = g[at[y]] + SumFunctionOnSet(g, A)
    <3> HIDE DEF A
    <3> QED BY <2>1, <2>3, SumAdd, IsFiniteSet(A) DEF A
  <2>7. g[at[y]] = f[y]
    OBVIOUS
  <2>8. SumFunctionOnSet(g, A \cup {at[y]}) = SumFunctionOnSet(f, T \cup {y})
    BY <2>5, <2>6, <2>7
  <2>9. SumFunctionOnSet(g, {at[x] : x \in T \cup {y}}) = SumFunctionOnSet(f, T \cup {y})
    BY <2>8, <2>1, Zenon
  <2>a. Cardinality({at[x] : x \in T \cup {y}}) = Cardinality(T \cup {y})
    BY <2>1, <2>4
  <2>b. IsFiniteSet({at[x] : x \in T \cup {y}})
    BY <2>1, <2>4
  <2>10. QED
    BY <2>9, <2>a, <2>b
<1>3. S \in Good
  <2> HIDE DEF Good
  <2> QED BY <1>1, <1>2, SubsetInduction
<1>4. QED
  BY <1>3

(* Sums of terms that are close are close.                                 *)
LEMMA SumClose ==
    ASSUME NEW S, IsFiniteSet(S), NEW f, NEW g, NEW c \in Nat,
           \A x \in S : f[x] \in Int /\ g[x] \in Int /\ 2 * (f[x] - g[x]) \in (-c)..c
    PROVE  2 * (SumFunctionOnSet(f, S) - SumFunctionOnSet(g, S))
               \in (-(c * Cardinality(S)))..(c * Cardinality(S))
<1> DEFINE Good == {T \in SUBSET S :
               2 * (SumFunctionOnSet(f, T) - SumFunctionOnSet(g, T))
                   \in (-(c * Cardinality(T)))..(c * Cardinality(T))}
<1>1. {} \in Good
  BY SumEmpty, FS_EmptySet
<1>2. \A T \in Good, x \in S : T \subseteq S /\ x \notin T => T \cup {x} \in Good
  <2> SUFFICES ASSUME NEW T \in SUBSET S, NEW x \in S, x \notin T,
                      2 * (SumFunctionOnSet(f, T) - SumFunctionOnSet(g, T))
                          \in (-(c * Cardinality(T)))..(c * Cardinality(T))
               PROVE  T \cup {x} \in Good
    OBVIOUS
  <2>1. IsFiniteSet(T) /\ \A z \in T \cup {x} : f[z] \in Int /\ g[z] \in Int
    BY FS_Subset
  <2>2. /\ SumFunctionOnSet(f, T \cup {x}) = f[x] + SumFunctionOnSet(f, T)
        /\ SumFunctionOnSet(g, T \cup {x}) = g[x] + SumFunctionOnSet(g, T)
        /\ SumFunctionOnSet(f, T) \in Int
        /\ SumFunctionOnSet(g, T) \in Int
    BY <2>1, SumAdd, SumType
  <2>3. Cardinality(T) \in Nat /\ Cardinality(T \cup {x}) = Cardinality(T) + 1
    BY <2>1, FS_CardinalityType, FS_AddElement
  <2>4. \A n \in Nat : c * n \in Int /\ c * (n + 1) = c * n + c
    OBVIOUS
  <2>5. /\ c * Cardinality(T \cup {x}) = c * Cardinality(T) + c
        /\ c * Cardinality(T) \in Int
    BY <2>3, <2>4
  <2>6. PICK d : d = c * Cardinality(T)
    OBVIOUS
  <2>7. 2 * (SumFunctionOnSet(f, T \cup {x}) - SumFunctionOnSet(g, T \cup {x}))
            \in (-(d + c))..(d + c)
    BY <2>1, <2>2, <2>5, <2>6
  <2>8. QED
    BY <2>5, <2>6, <2>7
<1>3. S \in Good
  <2> HIDE DEF Good
  <2> QED BY <1>1, <1>2, SubsetInduction
<1>4. QED
  BY <1>3

(* What \div means, as bounds.                                             *)
LEMMA Quotient ==
    ASSUME NEW n \in Nat, NEW d \in Nat \ {0}
    PROVE  /\ n \div d \in Nat
           /\ d * (n \div d) <= n
           /\ n < d * (n \div d) + d
OBVIOUS

-----------------------------------------------------------------------------
(* Totals of sets of rows.                                                 *)

Amounted(R) == \A r \in R : r.amount \in Int

AmountsOf(R) == [r \in R |-> r.amount]

(* The total of rows as a sum over a set that may be larger.               *)
LEMMA TotalIs ==
    ASSUME NEW R, NEW S, IsFiniteSet(S), R \subseteq S
    PROVE  Total(R) = SumFunctionOnSet(AmountsOf(S), R)
<1>1. IsFiniteSet(R)
  BY FS_Subset
<1>2. \A r \in R : AmountsOf(R)[r] = AmountsOf(S)[r]
  BY DEF AmountsOf
<1>3. SumFunctionOnSet(AmountsOf(R), R) = SumFunctionOnSet(AmountsOf(S), R)
  BY <1>1, <1>2, SumSame
<1>4. DOMAIN AmountsOf(R) = R
  BY DEF AmountsOf
<1>5. Total(R) = SumFunctionOnSet(AmountsOf(R), DOMAIN AmountsOf(R))
  BY DEF Total, SumFunction, AmountsOf
<1>6. QED
  BY <1>3, <1>4, <1>5, Zenon

(* The total of rows with integer amounts.                                 *)
LEMMA TotalType ==
    ASSUME NEW R, IsFiniteSet(R), Amounted(R)
    PROVE  Total(R) \in Int
<1>1. \A r \in R : AmountsOf(R)[r] \in Int
  BY DEF AmountsOf, Amounted
<1>2. QED
  BY <1>1, TotalIs, SumType

LEMMA TotalEmpty == Total({}) = 0
BY TotalIs, SumEmpty, FS_EmptySet

(* The total of two tables that have no row in common.                     *)
LEMMA TotalDisjoint ==
    ASSUME NEW R, NEW S, IsFiniteSet(R), IsFiniteSet(S), R \cap S = {},
           Amounted(R), Amounted(S)
    PROVE  Total(R \cup S) = Total(R) + Total(S)
<1> DEFINE U == R \cup S
<1>1. IsFiniteSet(U)
  BY FS_Union
<1>2. \A r \in R \cup S : AmountsOf(U)[r] \in Int
  BY DEF AmountsOf, Amounted
<1>3. SumFunctionOnSet(AmountsOf(U), R \cup S)
        = SumFunctionOnSet(AmountsOf(U), R) + SumFunctionOnSet(AmountsOf(U), S)
  <2> HIDE DEF U
  <2> QED BY <1>2, SumDisjoint
<1>4. /\ Total(R) = SumFunctionOnSet(AmountsOf(U), R)
      /\ Total(S) = SumFunctionOnSet(AmountsOf(U), S)
      /\ Total(R \cup S) = SumFunctionOnSet(AmountsOf(U), R \cup S)
  <2>1. R \subseteq U /\ S \subseteq U /\ R \cup S \subseteq U
    OBVIOUS
  <2> HIDE DEF U
  <2>2. QED
    BY <1>1, <2>1, TotalIs
<1>5. QED
  BY <1>3, <1>4

-----------------------------------------------------------------------------
(* The rows of one batch are as many as it has splits, and add up to the   *)
(* same.                                                                   *)

RowOf(t, p, i) ==
    [txn |-> t, by |-> p, index |-> i, category |-> alloc[t][p][i].category,
     amount |-> alloc[t][p][i].amount]

RowsFrom(t, p) == {RowOf(t, p, i) : i \in DOMAIN alloc[t][p]}

(* The rows of a transaction, request by request.                          *)
LEMMA RowsAreOf ==
    ASSUME NEW t
    PROVE  RowsOf(t) = UNION {RowsFrom(t, p) : p \in Process}
BY DEF RowsOf, RowsFrom, RowOf

SplitAmounts(splits) == [i \in DOMAIN splits |-> splits[i].amount]

(* The sum of a list of splits, as a sum over an interval.                 *)
LEMMA SumIs ==
    ASSUME NEW n \in Nat, NEW splits, DOMAIN splits = 1..n
    PROVE  Sum(splits) = SumFunctionOnSet(SplitAmounts(splits), 1..n)
<1>1. DOMAIN SplitAmounts(splits) = 1..n
  BY DEF SplitAmounts
<1>2. Sum(splits) = SumFunctionOnSet(SplitAmounts(splits), DOMAIN SplitAmounts(splits))
  BY DEF Sum, SumFunction, SplitAmounts
<1>3. QED
  BY <1>1, <1>2, Zenon

(* The rows of a list of splits: as many, and with the same sum.           *)
LEMMA BatchOfRows ==
    ASSUME NEW t, NEW p, alloc[t][p] \in Seq(Row)
    PROVE  LET splits == alloc[t][p]
           IN  /\ IsFiniteSet(RowsFrom(t, p)) /\ Amounted(RowsFrom(t, p))
               /\ Cardinality(RowsFrom(t, p)) = Len(splits)
               /\ Total(RowsFrom(t, p)) = Sum(splits)
<1> DEFINE splits == alloc[t][p]
           n == Len(splits)
           at == [i \in 1..n |-> RowOf(t, p, i)]
<1>a. n \in Nat /\ DOMAIN splits = 1..n /\ \A i \in 1..n : splits[i] \in Row
  OBVIOUS
<1>1. n \in Nat /\ DOMAIN splits = 1..n /\ \A i \in 1..n : splits[i].amount \in Int
  BY <1>a DEF Row
<1>2. RowsFrom(t, p) = {at[i] : i \in 1..n}
  BY <1>1 DEF RowsFrom
<1>3. \A i, j \in 1..n : at[i] = at[j] => i = j
  BY DEF RowOf
<1>4. \A i \in 1..n : /\ SplitAmounts(splits)[i] \in Int
                      /\ AmountsOf(RowsFrom(t, p))[at[i]] = SplitAmounts(splits)[i]
  BY <1>1, <1>2 DEF SplitAmounts, AmountsOf, RowOf
<1>5. Amounted(RowsFrom(t, p))
  BY <1>1 DEF Amounted, RowsFrom, RowOf
<1>6. IsFiniteSet(1..n) /\ Cardinality(1..n) = n
  BY <1>1, FS_Interval
<1> HIDE DEF at
<1>7. /\ IsFiniteSet({at[i] : i \in 1..n})
      /\ Cardinality({at[i] : i \in 1..n}) = Cardinality(1..n)
      /\ SumFunctionOnSet(AmountsOf(RowsFrom(t, p)), {at[i] : i \in 1..n})
           = SumFunctionOnSet(SplitAmounts(splits), 1..n)
  <2> DEFINE S == 1..n
             f == SplitAmounts(splits)
             g == AmountsOf(RowsFrom(t, p))
  <2>1. /\ IsFiniteSet(S)
        /\ \A x, y \in S : at[x] = at[y] => x = y
        /\ \A x \in S : f[x] \in Int /\ g[at[x]] = f[x]
    BY <1>3, <1>4, <1>6
  <2> HIDE DEF S, f, g
  <2>2. /\ IsFiniteSet({at[i] : i \in S})
        /\ Cardinality({at[i] : i \in S}) = Cardinality(S)
        /\ SumFunctionOnSet(g, {at[i] : i \in S}) = SumFunctionOnSet(f, S)
    BY <2>1, SumReindex
  <2>3. QED
    BY <2>2 DEF S, f, g
<1>8. IsFiniteSet(RowsFrom(t, p)) /\ Cardinality(RowsFrom(t, p)) = n
  BY <1>2, <1>6, <1>7
<1>9. Total(RowsFrom(t, p)) = SumFunctionOnSet(AmountsOf(RowsFrom(t, p)), RowsFrom(t, p))
  BY <1>8, TotalIs
<1>10. Sum(splits) = SumFunctionOnSet(SplitAmounts(splits), 1..n)
  <2> HIDE DEF n, splits
  <2> QED BY <1>1, SumIs
<1>11. Total(RowsFrom(t, p)) = Sum(splits)
  BY <1>2, <1>7, <1>9, <1>10, Zenon
<1>12. QED
  BY <1>5, <1>8, <1>11

-----------------------------------------------------------------------------
(* Rounding.                                                               *)

(* Rounding moves an amount by half a cent at most.                        *)
LEMMA RoundedClose ==
    ASSUME NEW a \in Int
    PROVE  Rounded(a) \in Int /\ 2 * (Rounded(a) - a) \in (-Cent)..Cent
<1> DEFINE cents(b) == (2 * b + Cent) \div (2 * Cent)
<1>1. Cent \in Nat \ {0}
  BY SpendingAssumption
<1>2. ASSUME NEW b \in Nat
      PROVE  /\ Cent * cents(b) \in Int
             /\ 2 * (Cent * cents(b) - b) \in (-Cent)..Cent
  <2>1. 2 * b + Cent \in Nat /\ 2 * Cent \in Nat \ {0}
    BY <1>1
  <2>2. /\ cents(b) \in Nat
        /\ (2 * Cent) * cents(b) <= 2 * b + Cent
        /\ 2 * b + Cent < (2 * Cent) * cents(b) + 2 * Cent
    BY <2>1, Quotient
  <2> HIDE DEF cents
  <2>3. PICK c \in Int : c = Cent * cents(b)
    BY <1>1, <2>2
  <2>4. (2 * Cent) * cents(b) = 2 * c
    BY <1>1, <2>2, <2>3
  <2>5. QED
    BY <1>1, <2>2, <2>3, <2>4
<1>3. Rounded(a) = IF a < 0 THEN -(Cent * cents(-a)) ELSE Cent * cents(a)
  BY DEF Rounded
<1> HIDE DEF cents
<1>4. CASE a < 0
  <2>1. -a \in Nat
    BY <1>4
  <2>2. PICK c \in Int : c = Cent * cents(-a) /\ 2 * (c - (-a)) \in (-Cent)..Cent
    BY <2>1, <1>2
  <2>3. Rounded(a) = -c
    BY <1>3, <1>4, <2>2
  <2>4. QED
    BY <2>2, <2>3, <1>1
<1>5. CASE ~(a < 0)
  BY <1>1, <1>2, <1>3, <1>5
<1>6. QED
  BY <1>4, <1>5

(* Whole cents stay as they are.                                           *)
LEMMA RoundedExact ==
    ASSUME NEW a \in Int, a % Cent = 0
    PROVE  Rounded(a) = a
<1> DEFINE cents(b) == (2 * b + Cent) \div (2 * Cent)
<1>1. Cent \in Nat \ {0}
  BY SpendingAssumption
<1>2. PICK q \in Int : a = Cent * q
  BY <1>1
<1>3. ASSUME NEW b \in Nat, NEW k \in Nat, b = Cent * k
      PROVE  Cent * cents(b) = b
  <2>1. 2 * b + Cent \in Nat /\ 2 * Cent \in Nat \ {0}
    BY <1>1
  <2>2. /\ cents(b) \in Nat
        /\ (2 * Cent) * cents(b) <= 2 * b + Cent
        /\ 2 * b + Cent < (2 * Cent) * cents(b) + 2 * Cent
    BY <2>1, Quotient
  <2>3. PICK c \in Nat : c = cents(b)
    BY <2>2
  <2> HIDE DEF cents
  <2>4. 2 * (Cent * c) <= 2 * (Cent * k) + Cent /\ 2 * (Cent * k) < 2 * (Cent * c) + Cent
    BY <1>1, <1>3, <2>2, <2>3
  <2>5. ~(c >= k + 1)
    <3>1. c >= k + 1 => Cent * c >= Cent * k + Cent
      BY <1>1
    <3>2. Cent * c \in Nat /\ Cent * k \in Nat
      BY <1>1
    <3>3. QED
      BY <1>1, <2>4, <3>1, <3>2
  <2>6. ~(k >= c + 1)
    <3>1. k >= c + 1 => Cent * k >= Cent * c + Cent
      BY <1>1
    <3>2. Cent * c \in Nat /\ Cent * k \in Nat
      BY <1>1
    <3>3. QED
      BY <1>1, <2>4, <3>1, <3>2
  <2>7. QED
    BY <1>3, <2>3, <2>5, <2>6
<1>4. Rounded(a) = IF a < 0 THEN -(Cent * cents(-a)) ELSE Cent * cents(a)
  BY DEF Rounded
<1> HIDE DEF cents
<1>5. CASE a < 0
  <2>1. -a \in Nat /\ -q \in Nat /\ -a = Cent * (-q)
    BY <1>1, <1>2, <1>5
  <2>2. Cent * cents(-a) = -a
    BY <1>3, <2>1
  <2>3. QED
    BY <1>4, <1>5, <2>2
<1>6. CASE ~(a < 0)
  <2>1. a \in Nat /\ q \in Nat
    BY <1>1, <1>2, <1>6
  <2>2. QED
    BY <1>2, <1>3, <1>4, <1>6, <2>1
<1>7. QED
  BY <1>5, <1>6

(* So a list of splits in whole cents is stored as it is, ...              *)
LEMMA StoredExact ==
    ASSUME NEW splits \in Seq(Row), \A i \in DOMAIN splits : splits[i].amount % Cent = 0
    PROVE  Sum(Stored(splits)) = Sum(splits)
<1> DEFINE n == Len(splits)
<1>1. n \in Nat /\ DOMAIN splits = 1..n /\ DOMAIN Stored(splits) = 1..n
  BY DEF Stored
<1>2. \A i \in 1..n : SplitAmounts(Stored(splits))[i] = SplitAmounts(splits)[i]
  <2> TAKE i \in 1..n
  <2>1. splits[i] \in Row /\ splits[i].amount % Cent = 0
    BY <1>1
  <2>2. Rounded(splits[i].amount) = splits[i].amount
    BY <2>1, RoundedExact DEF Row
  <2>3. Stored(splits)[i].amount = Rounded(splits[i].amount)
    BY <1>1, <2>1 DEF Stored, Row
  <2>4. QED
    BY <1>1, <2>2, <2>3 DEF SplitAmounts
<1> HIDE DEF n
<1>3. IsFiniteSet(1..n)
  BY <1>1, FS_Interval
<1>4. SumFunctionOnSet(SplitAmounts(Stored(splits)), 1..n)
        = SumFunctionOnSet(SplitAmounts(splits), 1..n)
  BY <1>2, <1>3, SumSame
<1>5. /\ Sum(splits) = SumFunctionOnSet(SplitAmounts(splits), 1..n)
      /\ Sum(Stored(splits)) = SumFunctionOnSet(SplitAmounts(Stored(splits)), 1..n)
  BY <1>1, SumIs
<1>6. QED
  BY <1>4, <1>5

Close(a, b, c) == 2 * (a - b) \in (-c)..c

(* ... and any list is off by at most half a cent a row.                   *)
LEMMA StoredClose ==
    ASSUME NEW splits \in Seq(Row)
    PROVE  /\ Stored(splits) \in Seq(Row)
           /\ Len(Stored(splits)) = Len(splits)
           /\ Close(Sum(Stored(splits)), Sum(splits), Cent * Len(splits))
<1> DEFINE n == Len(splits)
<1>1. n \in Nat /\ DOMAIN splits = 1..n /\ \A i \in 1..n : splits[i] \in Row
  OBVIOUS
<1>2. ASSUME NEW i \in 1..n
      PROVE  /\ [splits[i] EXCEPT !.amount = Rounded(@)] \in Row
             /\ Stored(splits)[i] = [splits[i] EXCEPT !.amount = Rounded(@)]
             /\ Stored(splits)[i].amount = Rounded(splits[i].amount)
  BY <1>1, RoundedClose DEF Row, Stored
<1>3. Stored(splits) \in [1..n -> Row]
  BY <1>1, <1>2 DEF Stored
<1>4. Stored(splits) \in Seq(Row) /\ Len(Stored(splits)) = n
  BY <1>1, <1>3
<1>5. IsFiniteSet(1..n) /\ Cardinality(1..n) = n
  <2>1. n \in Nat
    BY <1>1
  <2> HIDE DEF n
  <2>2. QED
    BY <2>1, FS_Interval
<1>6. Sum(splits) = SumFunctionOnSet(SplitAmounts(splits), 1..n)
  <2> HIDE DEF n
  <2> QED BY <1>1, SumIs
<1>7. Sum(Stored(splits)) = SumFunctionOnSet(SplitAmounts(Stored(splits)), 1..n)
  <2>1. DOMAIN Stored(splits) = 1..n
    BY <1>3
  <2> HIDE DEF n
  <2> QED BY <1>1, <2>1, SumIs
<1>8. \A i \in 1..n :
          /\ SplitAmounts(splits)[i] \in Int
          /\ SplitAmounts(Stored(splits))[i] \in Int
          /\ 2 * (SplitAmounts(Stored(splits))[i] - SplitAmounts(splits)[i]) \in (-Cent)..Cent
  <2> TAKE i \in 1..n
  <2>1. SplitAmounts(splits)[i] = splits[i].amount /\ splits[i].amount \in Int
    BY <1>1 DEF SplitAmounts, Row
  <2>2. SplitAmounts(Stored(splits))[i] = Rounded(splits[i].amount)
    BY <1>2, <1>3 DEF SplitAmounts
  <2>3. QED
    BY <2>1, <2>2, RoundedClose
<1>9. Cent \in Nat
  BY SpendingAssumption
<1>10. 2 * (SumFunctionOnSet(SplitAmounts(Stored(splits)), 1..n)
              - SumFunctionOnSet(SplitAmounts(splits), 1..n))
          \in (-(Cent * Cardinality(1..n)))..(Cent * Cardinality(1..n))
  <2> HIDE DEF n
  <2> QED BY <1>5, <1>8, <1>9, SumClose
<1>11. Close(Sum(Stored(splits)), Sum(splits), Cent * n)
  <2> HIDE DEF n
  <2> QED BY <1>5, <1>6, <1>7, <1>10, Zenon DEF Close
<1>12. QED
  BY <1>4, <1>11

-----------------------------------------------------------------------------
(* The inductive invariant behind AllocationsAddUp: what a request is to   *)
(* write is what a user asked for and was checked against the amount; a    *)
(* batch of rows is off it by no more than rounding, and not at all if     *)
(* there was nothing to round.                                             *)

AllocRows == \A t \in Txn, p \in Process : alloc[t][p] \in Seq(Row)

BatchesClose ==
    \A t \in Txn :
        /\ IsFiniteSet(Batches(t))
        /\ \A p \in Batches(t) :
              Close(Sum(alloc[t][p]), Amount[t], Cent * Len(alloc[t][p]))

BatchesExact ==
    \A t \in Txn : InCents(t) => \A p \in Batches(t) : Sum(alloc[t][p]) = Amount[t]

RequestValid ==
    \A p \in Process : proc[p].pc = "split" =>
        \A t \in proc[p].txns :
            Valid(t, request[p].rows) /\ request[p].rows \in Allocation[t]

AInv == AllocRows /\ BatchesClose /\ BatchesExact /\ RequestValid

(* Batch by batch, the rows of a transaction add up to a multiple of its   *)
(* amount, but for rounding.                                               *)
LEMMA BatchesAddUp ==
    ASSUME AllocRows, BatchesClose, NEW t \in Txn
    PROVE  /\ IsFiniteSet(RowsOf(t)) /\ Amounted(RowsOf(t))
           /\ Close(Total(RowsOf(t)), Cardinality(Batches(t)) * Amount[t],
                    Cent * Cardinality(RowsOf(t)))
<1> DEFINE B == Batches(t)
           R(X) == UNION {RowsFrom(t, p) : p \in X}
           AddsUp(X) == /\ IsFiniteSet(R(X)) /\ Amounted(R(X))
                       /\ Close(Total(R(X)), Cardinality(X) * Amount[t],
                                Cent * Cardinality(R(X)))
           Good == {X \in SUBSET B : AddsUp(X)}
<1>0. Amount[t] \in Int /\ Cent \in Nat
  BY SpendingAssumption
<1>1. {} \in Good
  <2>1. R({}) = {}
    OBVIOUS
  <2>2. IsFiniteSet({}) /\ Amounted({}) /\ Cardinality({}) = 0 /\ Total({}) = 0
    BY FS_EmptySet, TotalEmpty DEF Amounted
  <2>3. Close(Total({}), Cardinality({}) * Amount[t], Cent * Cardinality({}))
    BY <1>0, <2>2 DEF Close
  <2>4. AddsUp({})
    BY <2>1, <2>2, <2>3, Zenon
  <2>5. QED
    BY <2>4
<1>2. \A X \in Good, q \in B : X \subseteq B /\ q \notin X => X \cup {q} \in Good
  <2> SUFFICES ASSUME NEW X \in SUBSET B, NEW q \in B, q \notin X, AddsUp(X)
               PROVE  AddsUp(X \cup {q})
    OBVIOUS
  <2> DEFINE S == RowsFrom(t, q)
  <2>1. R(X \cup {q}) = R(X) \cup S
    OBVIOUS
  <2>2. R(X) \cap S = {}
    BY DEF RowsFrom, RowOf
  <2>3. /\ q \in Process /\ alloc[t][q] \in Seq(Row)
        /\ Close(Sum(alloc[t][q]), Amount[t], Cent * Len(alloc[t][q]))
    BY DEF AllocRows, BatchesClose, Batches
  <2>4. /\ IsFiniteSet(S) /\ Amounted(S)
        /\ Cardinality(S) = Len(alloc[t][q]) /\ Total(S) = Sum(alloc[t][q])
    BY <2>3, BatchOfRows
  <2>5. Cardinality(X) \in Nat /\ Cardinality(X \cup {q}) = Cardinality(X) + 1
    <3>1. IsFiniteSet(X)
      BY FS_Subset DEF BatchesClose
    <3>2. QED
      BY <3>1, FS_CardinalityType, FS_AddElement
  <2>6. IsFiniteSet(R(X)) /\ Amounted(R(X))
    OBVIOUS
  <2> DEFINE P == R(X)
  <2>7. /\ IsFiniteSet(P \cup S) /\ Amounted(P \cup S)
        /\ Cardinality(P) \in Nat /\ Cardinality(S) \in Nat
        /\ Cardinality(P \cup S) = Cardinality(P) + Cardinality(S)
        /\ Total(P) \in Int /\ Total(S) \in Int
        /\ Total(P \cup S) = Total(P) + Total(S)
    <3>1. IsFiniteSet(P) /\ Amounted(P) /\ P \cap S = {}
      BY <2>2, <2>6
    <3> HIDE DEF P, S
    <3>2. Cardinality(P \cap S) = 0
      BY <3>1, FS_EmptySet
    <3>3. /\ IsFiniteSet(P \cup S)
          /\ Cardinality(P \cup S) = Cardinality(P) + Cardinality(S) - Cardinality(P \cap S)
      BY <2>4, <3>1, FS_Union
    <3>4. Cardinality(P) \in Nat /\ Cardinality(S) \in Nat
      BY <2>4, <3>1, FS_CardinalityType
    <3>5. Total(P) \in Int /\ Total(S) \in Int /\ Total(P \cup S) = Total(P) + Total(S)
      BY <2>4, <3>1, TotalType, TotalDisjoint
    <3>6. Amounted(P \cup S)
      BY <2>4, <3>1 DEF Amounted
    <3>7. QED
      BY <3>2, <3>3, <3>4, <3>5, <3>6
  <2>8. Close(Total(P \cup S), Cardinality(X \cup {q}) * Amount[t],
              Cent * Cardinality(P \cup S))
    <3>1. Close(Total(P), Cardinality(X) * Amount[t], Cent * Cardinality(P))
      OBVIOUS
    <3> HIDE DEF P, S
    <3>2. Close(Total(S), Amount[t], Cent * Cardinality(S))
      BY <2>3, <2>4
    <3>3. PICK a \in Int : a = Amount[t]
      BY <1>0
    <3>4. PICK ka \in Int : ka = Cardinality(X) * a
      BY <2>5, <3>3
    <3>5. Cardinality(X \cup {q}) * a = ka + a
      BY <2>5, <3>4
    <3>6. PICK d \in Int, e \in Int : d = Cent * Cardinality(P) /\ e = Cent * Cardinality(S)
      BY <1>0, <2>7
    <3>7. Cent * Cardinality(P \cup S) = d + e
      BY <1>0, <2>7, <3>6
    <3>8. Close(Total(P) + Total(S), ka + a, d + e)
      BY <2>7, <3>1, <3>2, <3>3, <3>4, <3>6 DEF Close
    <3>9. QED
      BY <2>7, <3>3, <3>5, <3>7, <3>8
  <2>9. QED
    BY <2>1, <2>7, <2>8
<1>3. IsFiniteSet(B)
  BY DEF BatchesClose
<1>4. B \in Good
  <2> HIDE DEF Good, B
  <2> QED BY <1>1, <1>2, <1>3, SubsetInduction
<1>5. R(B) = RowsOf(t)
  <2>1. \A p \in Process \ B : alloc[t][p] = << >>
    BY DEF Batches
  <2>2. \A p \in Process \ B : RowsFrom(t, p) = {}
    BY <2>1 DEF RowsFrom
  <2>3. B \subseteq Process
    BY DEF Batches
  <2> HIDE DEF B
  <2>4. QED
    BY <2>2, <2>3, RowsAreOf
<1>6. AddsUp(B)
  BY <1>4
<1> HIDE DEF R
<1>7. QED
  BY <1>5, <1>6

(* The rows of a transaction that one request left are a batch.            *)
LEMMA OneBatchOfRows ==
    ASSUME OneBatch, AllocRows, NEW t \in split \ Crossed
    PROVE  \E p \in Batches(t) : /\ Total(RowsOf(t)) = Sum(alloc[t][p])
                                 /\ Cardinality(RowsOf(t)) = Len(alloc[t][p])
<1>1. t \in Txn /\ Batches(t) # {} /\ ~Several(Batches(t))
  BY DEF OneBatch
<1>2. PICK p : p \in Batches(t)
  BY <1>1
<1>3. p \in Process /\ alloc[t][p] \in Seq(Row)
  BY <1>1, <1>2 DEF AllocRows, Batches
<1>4. \A q \in Process \ {p} : alloc[t][q] = << >>
  BY <1>1, <1>2 DEF Batches, Several
<1>5. \A q \in Process \ {p} : RowsFrom(t, q) = {}
  BY <1>4 DEF RowsFrom
<1>6. RowsOf(t) = RowsFrom(t, p)
  BY <1>3, <1>5, RowsAreOf
<1>7. QED
  BY <1>2, <1>3, <1>6, BatchOfRows

(* The invariant says of each batch what AllocationsAddUp says of the rows.*)
LEMMA AInvAddsUp == OneBatch /\ AInv => AllocationsAddUp
<1> SUFFICES ASSUME OneBatch, AInv, NEW t \in split \ Crossed, InCents(t)
             PROVE  Total(RowsOf(t)) = Amount[t]
  BY DEF AllocationsAddUp
<1>1. t \in Txn
  BY DEF OneBatch
<1>2. QED
  BY <1>1, OneBatchOfRows DEF AInv, BatchesExact

WithinRounding ==
    \A t \in split \ Crossed :
        Close(Total(RowsOf(t)), Amount[t], Cent * Cardinality(RowsOf(t)))

(* ... and of fractions of a cent what rounding allows.                    *)
LEMMA AInvRounds == OneBatch /\ AInv => WithinRounding
<1> SUFFICES ASSUME OneBatch, AInv, NEW t \in split \ Crossed
             PROVE  Close(Total(RowsOf(t)), Amount[t], Cent * Cardinality(RowsOf(t)))
  BY DEF WithinRounding
<1>1. t \in Txn
  BY DEF OneBatch
<1>2. QED
  BY <1>1, OneBatchOfRows DEF AInv, BatchesClose

LEMMA InitAInv == SpendingInit => AInv
<1> SUFFICES ASSUME SpendingInit
             PROVE  AInv
  OBVIOUS
<1>1. /\ alloc = [t \in Txn |-> [p \in Process |-> << >>]]
      /\ \A p \in Process : proc[p].pc = "idle"
  BY DEF SpendingInit, Init, Idle
<1>2. << >> \in Seq(Row)
  OBVIOUS
<1>3. \A t \in Txn : Batches(t) = {}
  BY <1>1 DEF Batches
<1>4. QED
  BY <1>1, <1>2, <1>3, FS_EmptySet
  DEF AInv, AllocRows, BatchesClose, BatchesExact, RequestValid

(* Steps that leave the rows alone, and requests that remain splits.       *)
LEMMA QuietAInv ==
    ASSUME AInv, alloc' = alloc,
           \A q \in Process : proc'[q].pc = "split" =>
               proc'[q] = proc[q] /\ request'[q].rows = request[q].rows
    PROVE  AInv'
<1>1. AllocRows'
  BY DEF AInv, AllocRows
<1>2. \A t \in Txn : Batches(t)' = Batches(t)
  BY DEF Batches
<1>3. BatchesClose' /\ BatchesExact'
  BY <1>2 DEF AInv, BatchesClose, BatchesExact, InCents
<1>4. RequestValid'
  BY DEF AInv, RequestValid
<1>5. QED
  BY <1>1, <1>3, <1>4 DEF AInv

(* A request is checked against the amount before it is kept.              *)
LEMMA SelectAInv ==
    ASSUME AInv, SInv, TypeOK, NEW p \in Process, NEW t \in Txn,
           NEW splits \in Allocation[t], SplitSelect(p, t, splits)
    PROVE  AInv'
<1>1. /\ alloc' = alloc
      /\ \A q \in Process \ {p} : proc'[q] = proc[q] /\ request'[q] = request[q]
      /\ proc'[p].txns = {t} /\ request'[p].rows = splits
  BY DEF SplitSelect, Split, TypeOK, SInv, RequestShape, NoRequest, Idle
<1>2. \A u \in Txn : Batches(u)' = Batches(u)
  BY <1>1 DEF Batches
<1>3. AllocRows' /\ BatchesClose' /\ BatchesExact'
  BY <1>1, <1>2 DEF AInv, AllocRows, BatchesClose, BatchesExact, InCents
<1>4. RequestValid'
  BY <1>1 DEF AInv, RequestValid, SplitSelect, Valid
<1>5. QED
  BY <1>3, <1>4 DEF AInv

(* What is stored was valid before it was rounded.                         *)
LEMMA StoreAInv ==
    ASSUME AInv, SInv, TypeOK, NEW p \in Process, SplitStore(p)
    PROVE  AInv'
<1> DEFINE rows == Stored(request[p].rows)
<1>1. proc[p].pc = "split" /\ proc' = [proc EXCEPT ![p] = Idle]
  BY DEF SplitStore, SplitCommit, Finish
<1>2. Idle.pc = "idle" /\ proc'[p].pc = "idle" /\ \A q \in Process \ {p} : proc'[q] = proc[q]
  BY <1>1 DEF TypeOK, Idle
<1>3. proc[p].txns \subseteq Txn
  BY DEF TypeOK, Proc
<1>4. request[p].rows \in Seq(Row) /\ Len(request[p].rows) >= 2
  BY <1>1 DEF SInv, RequestShape
<1>5. /\ rows \in Seq(Row) /\ Len(rows) = Len(request[p].rows)
      /\ Close(Sum(rows), Sum(request[p].rows), Cent * Len(rows))
      /\ rows # << >>
  BY <1>4, StoredClose, StoredRows
<1>6. ASSUME NEW t \in proc[p].txns
      PROVE  /\ Close(Sum(rows), Amount[t], Cent * Len(rows))
             /\ InCents(t) => Sum(rows) = Amount[t]
  <2>1. Sum(request[p].rows) = Amount[t] /\ request[p].rows \in Allocation[t]
    BY <1>1 DEF AInv, RequestValid, Valid
  <2>2. InCents(t) => Sum(rows) = Sum(request[p].rows)
    BY <1>4, <2>1, StoredExact DEF InCents
  <2>3. QED
    BY <1>5, <2>1, <2>2
<1>7. alloc' = [t \in Txn |->
         IF t \notin proc[p].txns THEN alloc[t]
         ELSE [q \in Process |->
                 IF q = p THEN rows
                 ELSE IF q \in request[p].seen THEN << >> ELSE alloc[t][q]]]
  BY DEF SplitStore
<1> HIDE DEF rows
<1>8. \A t \in Txn, q \in Process : alloc'[t][q] \in {alloc[t][q], << >>, rows}
  BY <1>7
<1>9. AllocRows'
  <2>1. << >> \in Seq(Row)
    OBVIOUS
  <2>2. QED
    BY <2>1, <1>5, <1>8 DEF AInv, AllocRows
<1>10. \A t \in Txn : Batches(t)' \subseteq Batches(t) \cup {p}
  BY <1>7 DEF Batches
<1>11. ASSUME NEW t \in Txn
       PROVE  /\ IsFiniteSet(Batches(t)')
              /\ \A q \in Batches(t)' :
                    /\ Close(Sum(alloc'[t][q]), Amount[t], Cent * Len(alloc'[t][q]))
                    /\ InCents(t) => Sum(alloc'[t][q]) = Amount[t]
  <2>1. IsFiniteSet(Batches(t)')
    <3>1. IsFiniteSet(Batches(t) \cup {p})
      BY FS_AddElement DEF AInv, BatchesClose
    <3>2. QED
      BY <3>1, <1>10, FS_Subset
  <2>2. ASSUME NEW q \in Batches(t)'
        PROVE  /\ Close(Sum(alloc'[t][q]), Amount[t], Cent * Len(alloc'[t][q]))
               /\ InCents(t) => Sum(alloc'[t][q]) = Amount[t]
    <3>1. q \in Process /\ alloc'[t][q] # << >>
      BY DEF Batches
    <3>2. CASE t \notin proc[p].txns \/ q # p
      <4>1. alloc'[t][q] = alloc[t][q]
        BY <3>1, <3>2, <1>7
      <4>2. q \in Batches(t)
        BY <3>1, <4>1 DEF Batches
      <4>3. QED
        BY <4>1, <4>2 DEF AInv, BatchesClose, BatchesExact
    <3>3. CASE t \in proc[p].txns /\ q = p
      <4>1. alloc'[t][q] = rows
        BY <3>3, <1>7
      <4>2. QED
        BY <3>3, <4>1, <1>6
    <3>4. QED
      BY <3>2, <3>3
  <2>3. QED
    BY <2>1, <2>2
<1>12. RequestValid'
  <2> SUFFICES ASSUME NEW q \in Process, proc'[q].pc = "split", NEW t \in proc'[q].txns
               PROVE  Valid(t, request'[q].rows) /\ request'[q].rows \in Allocation[t]
    BY DEF RequestValid, Valid, Sum
  <2>1. q # p /\ proc'[q] = proc[q]
    BY <1>2
  <2>2. request[q] \in [rows : Seq(Row), seen : SUBSET Process, deleted : BOOLEAN]
    BY DEF SInv, RequestShape
  <2>3. request'[q].rows = request[q].rows
    BY <2>1, <2>2 DEF SplitStore
  <2>4. QED
    BY <2>1, <2>3 DEF AInv, RequestValid
<1>13. BatchesClose' /\ BatchesExact'
  BY <1>11 DEF BatchesClose, BatchesExact, InCents
<1>14. QED
  BY <1>9, <1>12, <1>13 DEF AInv

(* A removal leaves no batch.                                              *)
LEMMA RemoveAInv ==
    ASSUME AInv, SInv, NEW t \in Txn, Remove(t)
    PROVE  AInv'
<1>1. /\ alloc' = [alloc EXCEPT ![t] = [p \in Process |-> << >>]]
      /\ UNCHANGED <<proc, request>>
  BY DEF Remove, Unsplit
<1>2. /\ \A p \in Process : alloc'[t][p] = << >>
      /\ \A u \in Txn \ {t} : alloc'[u] = alloc[u]
  BY <1>1 DEF SInv, AllocShape
<1>3. Batches(t)' = {} /\ \A u \in Txn \ {t} : Batches(u)' = Batches(u)
  BY <1>2 DEF Batches
<1>4. AllocRows'
  <2>1. << >> \in Seq(Row)
    OBVIOUS
  <2>2. QED
    BY <1>2, <2>1 DEF AInv, AllocRows
<1>5. BatchesClose' /\ BatchesExact'
  BY <1>2, <1>3, FS_EmptySet DEF AInv, BatchesClose, BatchesExact, InCents
<1>6. RequestValid'
  BY <1>1 DEF AInv, RequestValid
<1>7. QED
  BY <1>4, <1>5, <1>6 DEF AInv

LEMMA NextAInv == AInv /\ SInv /\ TypeOK /\ [SpendingNext]_spendingVars => AInv'
<1> SUFFICES ASSUME AInv, SInv, TypeOK, [SpendingNext]_spendingVars
             PROVE  AInv'
  OBVIOUS
<1>1. CASE UNCHANGED spendingVars
  BY <1>1, QuietAInv DEF spendingVars, vars
<1>2. CASE SpendingNext
  <2>2. ASSUME NEW p \in Process, Work(p), UNCHANGED <<alloc, request, view>>
        PROVE  AInv'
    BY <2>2, WorkKeepsSplits, QuietAInv
  <2>3. ASSUME NEW p \in Process, NEW t \in Txn, NEW splits \in Allocation[t],
               SplitSelect(p, t, splits)
        PROVE  AInv'
    BY <2>3, SelectAInv
  <2>4. ASSUME NEW p \in Process, SplitDelete(p)
        PROVE  AInv'
    <3>1. \A q \in Process : request'[q].rows = request[q].rows
      <4> TAKE q \in Process
      <4>1. request[q] \in [rows : Seq(Row), seen : SUBSET Process, deleted : BOOLEAN]
        BY DEF SInv, RequestShape
      <4>2. QED
        BY <4>1, <2>4 DEF SplitDelete, SInv, RequestShape
    <3>2. UNCHANGED <<alloc, proc>>
      BY <2>4 DEF SplitDelete, vars
    <3>3. QED
      BY <3>1, <3>2, QuietAInv
  <2>5. ASSUME NEW p \in Process, SplitStore(p)
        PROVE  AInv'
    BY <2>5, StoreAInv
  <2>6. ASSUME NEW t \in Txn, Remove(t)
        PROVE  AInv'
    BY <2>6, RemoveAInv
  <2>7. ASSUME NEW period \in Period, ViewPlain(period)
        PROVE  AInv'
    BY <2>7, QuietAInv DEF ViewPlain, vars
  <2>8. ASSUME ViewSplits
        PROVE  AInv'
    BY <2>8, QuietAInv DEF ViewSplits, vars
  <2>9. QED
    BY <1>2, <2>2, <2>3, <2>4, <2>5, <2>6, <2>7, <2>8 DEF SpendingNext
<1>3. QED
  BY <1>1, <1>2

(* The splits of a transaction sum exactly to its amount, after any splits *)
(* and removals, for any amounts and any lists of splits in whole cents,   *)
(* unless two requests had its merchant in hand at once                    *)
(* (transaction_service.py:131-153).                                       *)
THEOREM AllocationsSum == SpendingSpec => []AllocationsAddUp
<1>1. SpendingSpec => [](TypeOK /\ SInv)
  BY InitSInv, NextSInv, CategorizationHolds, PTL DEF SpendingSpec
<1>2. SInv => OneBatch
  BY DEF SInv
<1>3. QED
  BY <1>1, <1>2, InitAInv, NextAInv, AInvAddsUp, PTL DEF SpendingSpec

(* What is asked for in fractions of a cent is checked before the columns  *)
(* round it, so the splits may be off the amount, but by no more than half *)
(* a cent a row (transaction_service.py:131-148 with the Numeric(14, 2)    *)
(* columns of models/transaction_split.py).                                *)
THEOREM OffByRounding == SpendingSpec => []WithinRounding
<1>1. SpendingSpec => [](TypeOK /\ SInv)
  BY InitSInv, NextSInv, CategorizationHolds, PTL DEF SpendingSpec
<1>2. SInv => OneBatch
  BY DEF SInv
<1>3. QED
  BY <1>1, <1>2, InitAInv, NextAInv, AInvRounds, PTL DEF SpendingSpec

-----------------------------------------------------------------------------
(* The queries.                                                            *)

(* The image of a finite set is finite, and no larger.                     *)
LEMMA ImageFinite ==
    ASSUME NEW S, IsFiniteSet(S), NEW at
    PROVE  LET T == {at[x] : x \in S} IN IsFiniteSet(T) /\ Cardinality(T) <= Cardinality(S)
<1> DEFINE T == {at[x] : x \in S}
           f == [x \in S |-> at[x]]
<1>1. f \in Surjection(S, T)
  BY DEF Surjection
<1> HIDE DEF f
<1>2. QED
  BY <1>1, FS_Surjection

(* A sum over more than the terms that are not zero.                       *)
LEMMA SumOverMore ==
    ASSUME NEW S, IsFiniteSet(S), NEW T \in SUBSET S, NEW f,
           \A x \in T : f[x] \in Int, \A x \in S \ T : f[x] = 0
    PROVE  SumFunctionOnSet(f, S) = SumFunctionOnSet(f, T)
<1> DEFINE U == S \ T
<1>1. /\ IsFiniteSet(T) /\ IsFiniteSet(U) /\ T \cap U = {} /\ T \cup U = S
      /\ (\A x \in T \cup U : f[x] \in Int) /\ (\A x \in U : f[x] = 0)
  BY FS_Subset, FS_Difference
<1> HIDE DEF U
<1>2. SumFunctionOnSet(f, T \cup U) = SumFunctionOnSet(f, T) + SumFunctionOnSet(f, U)
  BY <1>1, SumDisjoint
<1>3. SumFunctionOnSet(f, U) = 0 * Cardinality(U) /\ Cardinality(U) \in Nat
  BY <1>1, SumConstant, FS_CardinalityType
<1>4. SumFunctionOnSet(f, T) \in Int
  BY <1>1, SumType
<1>5. SumFunctionOnSet(f, T \cup U) = SumFunctionOnSet(f, T)
  BY <1>2, <1>3, <1>4
<1>6. QED
  BY <1>1, <1>5, Zenon

(* A sum of naturals is a natural.                                         *)
LEMMA SumNatural ==
    ASSUME NEW S, IsFiniteSet(S), NEW f, \A x \in S : f[x] \in Nat
    PROVE  SumFunctionOnSet(f, S) \in Nat
<1> DEFINE zero == [x \in S |-> 0]
<1>1. \A x \in S : zero[x] = 0 /\ zero[x] \in Int /\ f[x] \in Int /\ zero[x] <= f[x]
  OBVIOUS
<1> HIDE DEF zero
<1>2. SumFunctionOnSet(zero, S) <= SumFunctionOnSet(f, S)
  BY <1>1, SumMonotone
<1>3. SumFunctionOnSet(zero, S) = 0 * Cardinality(S) /\ Cardinality(S) \in Nat
  BY <1>1, SumConstant, FS_CardinalityType
<1>4. SumFunctionOnSet(f, S) \in Int
  BY <1>1, SumType
<1>5. QED
  BY <1>2, <1>3, <1>4

Negative(R) == \A r \in R : r.amount \in Int /\ r.amount < 0

(* What negative rows spend is a natural.                                  *)
LEMMA SpendNatural ==
    ASSUME NEW R, IsFiniteSet(R), Negative(R)
    PROVE  Amounted(R) /\ Spend(R) \in Nat
<1> DEFINE f == [r \in R |-> -r.amount]
           zero == [r \in R |-> 0]
<1>1. Amounted(R)
  BY DEF Amounted, Negative
<1>2. \A r \in R : /\ f[r] \in Nat /\ f[r] \in Int /\ zero[r] = 0 /\ zero[r] \in Int
                   /\ AmountsOf(R)[r] \in Int
                   /\ zero[r] = f[r] + AmountsOf(R)[r]
  BY DEF Negative, AmountsOf
<1> HIDE DEF f, zero
<1>3. SumFunctionOnSet(zero, R) = SumFunctionOnSet(f, R) + SumFunctionOnSet(AmountsOf(R), R)
  BY <1>2, SumPlus
<1>4. SumFunctionOnSet(zero, R) = 0 * Cardinality(R) /\ Cardinality(R) \in Nat
  BY <1>2, SumConstant, FS_CardinalityType
<1>5. SumFunctionOnSet(f, R) \in Nat
  BY <1>2, SumNatural
<1>6. Total(R) = SumFunctionOnSet(AmountsOf(R), R) /\ Total(R) \in Int
  BY <1>1, TotalIs, TotalType
<1>7. QED
  BY <1>1, <1>3, <1>4, <1>5, <1>6 DEF Spend

(* GroupSpend, with the key as a function.                                 *)
Groups(R, key) == [k \in {key[r] : r \in R} |-> Spend({r \in R : key[r] = k})]

(* A key without a group counts for nothing.                               *)
LEMMA GroupAt ==
    ASSUME NEW R, NEW key, NEW k
    PROVE  At(Groups(R, key), k) = Spend({r \in R : key[r] = k})
<1> DEFINE G == {r \in R : key[r] = k}
<1>1. CASE G = {}
  <2>1. k \notin DOMAIN Groups(R, key)
    BY <1>1 DEF Groups
  <2>2. Total(G) = 0
    BY <1>1, TotalEmpty, Zenon
  <2>3. Spend(G) = 0
    <3>1. Total(G) \in Int
      BY <2>2
    <3>2. Spend(G) = 0 - Total(G)
      <4> HIDE DEF G
      <4> QED BY <3>1 DEF Spend
    <3>3. QED
      BY <2>2, <3>2
  <2>4. At(Groups(R, key), k) = 0
    BY <2>1, Zenon DEF At
  <2>5. QED
    BY <2>3, <2>4
<1>2. CASE G # {}
  BY <1>2 DEF At, Groups
<1>3. QED
  BY <1>1, <1>2

(* The groups add up to the whole.                                         *)
LEMMA GroupsAddUp ==
    ASSUME NEW R, IsFiniteSet(R), Amounted(R), NEW key
    PROVE  LET g == Groups(R, key)
           IN  /\ IsFiniteSet(DOMAIN g) /\ Cardinality(DOMAIN g) <= Cardinality(R)
               /\ \A k \in DOMAIN g : g[k] \in Int
               /\ SumFunctionOnSet(g, DOMAIN g) = Spend(R)
<1> DEFINE g == Groups(R, key)
           D == {key[r] : r \in R}
           Of(X) == {r \in R : key[r] \in X}
           Good == {X \in SUBSET D : SumFunctionOnSet(g, X) = Spend(Of(X))}
<1>1. DOMAIN g = D /\ \A k \in D : g[k] = Spend(Of({k}))
  BY DEF Groups
<1>2. IsFiniteSet(D) /\ Cardinality(D) <= Cardinality(R)
  BY ImageFinite
<1>3. ASSUME NEW X
      PROVE  IsFiniteSet(Of(X)) /\ Amounted(Of(X)) /\ Total(Of(X)) \in Int
  <2>1. IsFiniteSet(Of(X)) /\ Amounted(Of(X))
    BY FS_Subset DEF Amounted
  <2>2. QED
    BY <2>1, TotalType
<1>4. \A k \in D : g[k] \in Int
  <2> TAKE k \in D
  <2>1. g[k] = Spend(Of({k}))
    BY <1>1
  <2>2. Total(Of({k})) \in Int
    BY <1>3
  <2> HIDE DEF Of, g
  <2>3. QED
    BY <2>1, <2>2 DEF Spend
<1>5. {} \in Good
  <2>1. Of({}) = {}
    OBVIOUS
  <2>2. Total(Of({})) = 0
    BY <2>1, TotalEmpty, Zenon
  <2>3. QED
    BY <2>2, SumEmpty DEF Spend
<1>6. \A X \in Good, k \in D : X \subseteq D /\ k \notin X => X \cup {k} \in Good
  <2> SUFFICES ASSUME NEW X \in SUBSET D, NEW k \in D, k \notin X,
                      SumFunctionOnSet(g, X) = Spend(Of(X))
               PROVE  SumFunctionOnSet(g, X \cup {k}) = Spend(Of(X \cup {k}))
    OBVIOUS
  <2>1. Of(X \cup {k}) = Of(X) \cup Of({k}) /\ Of(X) \cap Of({k}) = {}
    OBVIOUS
  <2>2. Total(Of(X) \cup Of({k})) = Total(Of(X)) + Total(Of({k}))
    <3> HIDE DEF Of
    <3> QED BY <1>3, <2>1, TotalDisjoint
  <2>3. Total(Of(X \cup {k})) = Total(Of(X)) + Total(Of({k}))
    BY <2>1, <2>2, Zenon
  <2>4. IsFiniteSet(X) /\ \A x \in X \cup {k} : g[x] \in Int
    BY <1>2, <1>4, FS_Subset
  <2>5. SumFunctionOnSet(g, X \cup {k}) = g[k] + SumFunctionOnSet(g, X)
    <3> HIDE DEF g
    <3> QED BY <2>4, SumAdd
  <2>6. g[k] = Spend(Of({k}))
    BY <1>1
  <2> HIDE DEF Of, g
  <2>7. QED
    BY <1>3, <2>3, <2>5, <2>6 DEF Spend
<1>7. D \in Good
  <2> HIDE DEF Good, D
  <2> QED BY <1>2, <1>5, <1>6, SubsetInduction
<1>8. Of(D) = R
  OBVIOUS
<1>9. SumFunctionOnSet(g, D) = Spend(Of(D))
  BY <1>7
<1>10. SumFunctionOnSet(g, D) = Spend(R)
  BY <1>8, <1>9, Zenon
<1> HIDE DEF D, g
<1>11. SumFunctionOnSet(g, DOMAIN g) = Spend(R)
  BY <1>1, <1>10, Zenon
<1>12. QED
  BY <1>1, <1>2, <1>4, <1>11 DEF g

(* The groups of negative rows are naturals.                               *)
LEMMA GroupsNatural ==
    ASSUME NEW R, IsFiniteSet(R), Negative(R), NEW key
    PROVE  \A k \in DOMAIN Groups(R, key) : Groups(R, key)[k] \in Nat
<1> TAKE k \in DOMAIN Groups(R, key)
<1>1. Groups(R, key)[k] = Spend({r \in R : key[r] = k})
  BY DEF Groups
<1>2. IsFiniteSet({r \in R : key[r] = k}) /\ Negative({r \in R : key[r] = k})
  BY FS_Subset DEF Negative
<1>3. QED
  BY <1>1, <1>2, SpendNatural

-----------------------------------------------------------------------------
(* The first rows of an ordered result.                                    *)

(* A finite set has a member whose value is largest.                       *)
LEMMA Largest ==
    ASSUME NEW D, IsFiniteSet(D), D # {}, NEW f, \A k \in D : f[k] \in Int
    PROVE  \E k \in D : \A l \in D : f[k] >= f[l]
<1> DEFINE Good == {X \in SUBSET D : X = {} \/ \E k \in X : \A l \in X : f[k] >= f[l]}
<1>1. {} \in Good
  OBVIOUS
<1>2. \A X \in Good, y \in D : X \subseteq D /\ y \notin X => X \cup {y} \in Good
  <2> SUFFICES ASSUME NEW X \in SUBSET D, NEW y \in D,
                      X = {} \/ \E k \in X : \A l \in X : f[k] >= f[l]
               PROVE  \E k \in X \cup {y} : \A l \in X \cup {y} : f[k] >= f[l]
    OBVIOUS
  <2>1. CASE X = {}
    BY <2>1
  <2>2. CASE X # {}
    <3>1. PICK k \in X : \A l \in X : f[k] >= f[l]
      BY <2>2
    <3>2. CASE f[k] >= f[y]
      BY <3>1, <3>2
    <3>3. CASE ~(f[k] >= f[y])
      <4>1. \A l \in X : f[y] >= f[l]
        BY <3>1, <3>3
      <4>2. QED
        BY <4>1
    <3>4. QED
      BY <3>2, <3>3
  <2>3. QED
    BY <2>1, <2>2
<1>3. D \in Good
  <2> HIDE DEF Good
  <2> QED BY <1>1, <1>2, SubsetInduction
<1>4. QED
  BY <1>3

IsTop(K, D, f, n) ==
    K \subseteq D /\ Cardinality(K) = n /\ \A k \in K, l \in D \ K : f[k] >= f[l]

(* There is a set of n members none of the others exceeds ...              *)
LEMMA TopExists ==
    ASSUME NEW D, IsFiniteSet(D), NEW f, \A k \in D : f[k] \in Int,
           NEW n \in Nat, n <= Cardinality(D)
    PROVE  \E K \in SUBSET D : IsTop(K, D, f, n)
<1> DEFINE Bad == {i \in Nat : i <= Cardinality(D) /\ ~ \E K \in SUBSET D : IsTop(K, D, f, i)}
<1>1. Bad = {}
  <2> SUFFICES ASSUME Bad # {} PROVE FALSE
    OBVIOUS
  <2>1. PICK i \in Bad : \A j \in Bad : i <= j
    <3> Bad \subseteq Nat
      OBVIOUS
    <3> HIDE DEF Bad
    <3> QED BY Least
  <2>2. Cardinality(D) \in Nat
    BY FS_CardinalityType
  <2>3. i # 0
    <3>1. IsTop({}, D, f, 0)
      BY FS_EmptySet DEF IsTop
    <3>2. QED
      BY <2>1, <3>1
  <2>4. i - 1 \in Nat /\ i - 1 \notin Bad /\ i - 1 < Cardinality(D)
    BY <2>1, <2>2, <2>3
  <2>5. PICK K \in SUBSET D : IsTop(K, D, f, i - 1)
    BY <2>2, <2>4
  <2>6. IsFiniteSet(K) /\ IsFiniteSet(D \ K) /\ D \ K # {}
    <3>1. IsFiniteSet(K) /\ IsFiniteSet(D \ K)
      BY FS_Subset, FS_Difference
    <3>2. K # D
      BY <2>4, <2>5 DEF IsTop
    <3>3. QED
      BY <3>1, <3>2
  <2>7. PICK k \in D \ K : \A l \in D \ K : f[k] >= f[l]
    BY <2>6, Largest
  <2>8. Cardinality(K \cup {k}) = i
    <3>1. Cardinality(K) = i - 1 /\ k \notin K /\ i \in Nat
      BY <2>1, <2>5 DEF IsTop
    <3>2. Cardinality(K \cup {k}) = Cardinality(K) + 1
      BY <2>6, <3>1, FS_AddElement
    <3>3. QED
      BY <3>1, <3>2
  <2>9. IsTop(K \cup {k}, D, f, i)
    BY <2>5, <2>7, <2>8 DEF IsTop
  <2>10. QED
    BY <2>1, <2>9
<1>2. QED
  BY <1>1

(* ... so TopOf returns keys of the result, and all of them if n allows.   *)
LEMMA TopOfTop ==
    ASSUME NEW totals, IsFiniteSet(DOMAIN totals),
           \A k \in DOMAIN totals : totals[k] \in Int, NEW n \in Nat
    PROVE  /\ TopOf(totals, n) \subseteq DOMAIN totals
           /\ n >= Cardinality(DOMAIN totals) => TopOf(totals, n) = DOMAIN totals
<1> DEFINE D == DOMAIN totals
           size == IF n < Cardinality(D) THEN n ELSE Cardinality(D)
<1>1. Cardinality(D) \in Nat
  BY FS_CardinalityType
<1>2. size \in Nat /\ size <= Cardinality(D)
  BY <1>1
<1> HIDE DEF size
<1>3. \E K \in SUBSET D : IsTop(K, D, totals, size)
  BY <1>2, TopExists
<1>4. TopOf(totals, n) = CHOOSE K \in SUBSET D :
            /\ Cardinality(K) = size
            /\ \A k \in K, l \in D \ K : totals[k] >= totals[l]
  BY DEF TopOf, size
<1>5. /\ TopOf(totals, n) \in SUBSET D
      /\ Cardinality(TopOf(totals, n)) = size
  BY <1>3, <1>4 DEF IsTop
<1>6. ASSUME n >= Cardinality(D)
      PROVE  TopOf(totals, n) = D
  <2>1. size = Cardinality(D)
    BY <1>1, <1>6 DEF size
  <2>2. QED
    BY <1>5, <2>1, FS_Subset
<1>7. QED
  BY <1>5, <1>6

-----------------------------------------------------------------------------
(* The templates, over any table.                                          *)

(* SumFunction sums over the domain.                                       *)
LEMMA SumFunctionIs ==
    ASSUME NEW f
    PROVE  SumFunction(f) = SumFunctionOnSet(f, DOMAIN f)
BY DEF SumFunction, SumFunctionOnSet

(* The rows that the filters leave are finitely many and negative.         *)
LEMMA FiltersSpend ==
    ASSUME NEW T, IsFiniteSet(T), Amounted(T), NEW p, NEW c
    PROVE  LET R == SpendFilters(T, p, c)
           IN  /\ R \subseteq T /\ IsFiniteSet(R) /\ Negative(R)
               /\ Amounted(R) /\ Spend(R) \in Nat
<1> DEFINE R == SpendFilters(T, p, c)
<1>1. R \subseteq T /\ Negative(R)
  BY DEF SpendFilters, Negative, Amounted
<1>2. IsFiniteSet(R)
  <2> HIDE DEF R
  <2> QED BY <1>1, FS_Subset
<1> HIDE DEF R
<1>3. Amounted(R) /\ Spend(R) \in Nat
  BY <1>1, <1>2, SpendNatural
<1>4. QED
  BY <1>1, <1>2, <1>3 DEF R

(* ByCategory, with the key as a function.                                 *)
LEMMA CategoryGroups ==
    ASSUME NEW R
    PROVE  ByCategory(R) = Groups(R, [r \in R |-> r.category])
<1> DEFINE key == [r \in R |-> r.category]
<1>1. \A r \in R : key[r] = r.category
  OBVIOUS
<1>2. {key[r] : r \in R} = {r.category : r \in R}
  BY <1>1
<1>3. \A k : {r \in R : key[r] = k} = {r \in R : r.category = k}
  BY <1>1
<1> HIDE DEF key
<1>4. Groups(R, key) = [k \in {r.category : r \in R} |-> Spend({r \in R : r.category = k})]
  BY <1>2, <1>3 DEF Groups
<1>5. QED
  BY <1>4 DEF ByCategory, GroupSpend, key

(* The rows of a breakdown add up to the total.                            *)
LEMMA BreakdownAddsUp ==
    ASSUME NEW T, IsFiniteSet(T), Amounted(T), NEW q
    PROVE  SumFunction(RunByCategory(T, q)) = TotalSpend(T, q)
<1> DEFINE R == SpendFilters(T, q.period, q.category)
           key == [r \in R |-> r.category]
           g == Groups(R, key)
<1>1. IsFiniteSet(R) /\ Amounted(R)
  BY FiltersSpend
<1>2. RunByCategory(T, q) = g
  BY CategoryGroups DEF RunByCategory
<1>3. TotalSpend(T, q) = Spend(R)
  BY DEF TotalSpend
<1> HIDE DEF R, key
<1>4. SumFunctionOnSet(g, DOMAIN g) = Spend(R)
  BY <1>1, GroupsAddUp
<1> HIDE DEF g
<1>5. SumFunction(RunByCategory(T, q)) = SumFunctionOnSet(g, DOMAIN g)
  BY <1>2, SumFunctionIs, Zenon
<1>6. QED
  BY <1>3, <1>4, <1>5

(* Of one category, a breakdown has the row of that category at most.      *)
LEMMA BreakdownOfOne ==
    ASSUME NEW T, NEW q, q.category # AnyCategory
    PROVE  RunByCategory(T, q) \in {<< >>, [d \in {q.category} |-> TotalSpend(T, q)]}
<1> DEFINE R == SpendFilters(T, q.period, q.category)
<1>1. \A r \in R : r.category = q.category
  BY DEF SpendFilters
<1>2. RunByCategory(T, q) = [k \in {r.category : r \in R} |-> Spend({r \in R : r.category = k})]
  BY DEF RunByCategory, ByCategory, GroupSpend
<1>3. TotalSpend(T, q) = Spend(R)
  BY DEF TotalSpend
<1> HIDE DEF R
<1>4. CASE R = {}
  <2>1. {r.category : r \in R} = {}
    BY <1>4
  <2>2. RunByCategory(T, q) = [k \in {} |-> Spend({r \in R : r.category = k})]
    BY <1>2, <2>1, Zenon
  <2>3. [k \in {} |-> Spend({r \in R : r.category = k})] = << >>
    OBVIOUS
  <2>4. QED
    BY <2>2, <2>3
<1>5. CASE R # {}
  <2>1. {r.category : r \in R} = {q.category}
    BY <1>1, <1>5
  <2>2. {r \in R : r.category = q.category} = R
    BY <1>1
  <2>3. Spend({r \in R : r.category = q.category}) = TotalSpend(T, q)
    BY <1>3, <2>2, Zenon
  <2>4. RunByCategory(T, q) = [k \in {q.category} |-> Spend({r \in R : r.category = k})]
    BY <1>2, <2>1, Zenon
  <2>5. RunByCategory(T, q) = [k \in {q.category} |-> TotalSpend(T, q)]
    BY <2>3, <2>4
  <2>6. QED
    BY <2>5
<1>6. QED
  BY <1>4, <1>5

(* Some of the groups are not more than all of them.                       *)
LEMMA PartOfGroups ==
    ASSUME NEW R, IsFiniteSet(R), Negative(R), NEW key, NEW n \in Nat
    PROVE  LET totals == Groups(R, key)
               top == [k \in TopOf(totals, n) |-> totals[k]]
           IN  /\ SumFunction(top) <= Spend(R)
               /\ n >= Cardinality(R) => SumFunction(top) = Spend(R)
<1> DEFINE totals == Groups(R, key)
           D == DOMAIN totals
           K == TopOf(totals, n)
           top == [k \in K |-> totals[k]]
<1>1. Amounted(R) /\ Spend(R) \in Nat
  BY SpendNatural
<1>2. /\ IsFiniteSet(D) /\ Cardinality(D) <= Cardinality(R)
      /\ SumFunctionOnSet(totals, D) = Spend(R)
  BY <1>1, GroupsAddUp
<1>3. \A k \in D : totals[k] \in Nat /\ totals[k] \in Int
  BY GroupsNatural
<1> HIDE DEF totals
<1>4. K \subseteq D /\ (n >= Cardinality(D) => K = D)
  BY <1>2, <1>3, TopOfTop
<1> HIDE DEF K, D
<1>5. DOMAIN top = K /\ \A k \in K : top[k] = totals[k]
  OBVIOUS
<1>6. SumFunction(top) = SumFunctionOnSet(top, K)
  <2>1. SumFunction(top) = SumFunctionOnSet(top, DOMAIN top)
    BY SumFunctionIs
  <2>2. QED
    BY <1>5, <2>1, Zenon
<1>7. IsFiniteSet(K)
  BY <1>2, <1>4, FS_Subset
<1>8. SumFunctionOnSet(top, K) = SumFunctionOnSet(totals, K)
  <2> HIDE DEF top
  <2> QED BY <1>5, <1>7, SumSame
<1>9. SumFunctionOnSet(totals, K) <= SumFunctionOnSet(totals, D)
  <2> DEFINE U == D \ K
  <2>1. /\ IsFiniteSet(U) /\ K \cap U = {} /\ K \cup U = D
        /\ \A k \in K \cup U : totals[k] \in Int
        /\ \A k \in U : totals[k] \in Nat
    BY <1>2, <1>3, <1>4, FS_Difference
  <2> HIDE DEF U
  <2>2. SumFunctionOnSet(totals, K \cup U) = SumFunctionOnSet(totals, K) + SumFunctionOnSet(totals, U)
    BY <1>7, <2>1, SumDisjoint
  <2>3. SumFunctionOnSet(totals, U) \in Nat /\ SumFunctionOnSet(totals, K) \in Int
    <3>1. \A k \in K : totals[k] \in Int
      BY <2>1
    <3>2. QED
      BY <1>7, <2>1, <3>1, SumNatural, SumType
  <2>4. SumFunctionOnSet(totals, K) <= SumFunctionOnSet(totals, K \cup U)
    BY <2>2, <2>3
  <2>5. QED
    BY <2>1, <2>4, Zenon
<1>10. SumFunction(top) <= Spend(R)
  BY <1>2, <1>6, <1>8, <1>9
<1>11. ASSUME n >= Cardinality(R)
       PROVE  SumFunction(top) = Spend(R)
  <2>1. Cardinality(R) \in Nat /\ Cardinality(D) \in Nat
    BY <1>2, FS_CardinalityType
  <2>2. K = D
    BY <1>2, <1>4, <1>11, <2>1
  <2>3. SumFunctionOnSet(totals, K) = SumFunctionOnSet(totals, D)
    BY <2>2, Zenon
  <2>4. QED
    BY <1>2, <1>6, <1>8, <2>3
<1>12. QED
  BY <1>10, <1>11 DEF totals, K

(* The top merchants are part of the total.                                *)
LEMMA TopMerchantsWithin ==
    ASSUME NEW T, IsFiniteSet(T), Amounted(T), NEW q, q.limit \in Nat
    PROVE  SumFunction(RunTopMerchants(T, q)) <= TotalSpend(T, q)
<1> DEFINE F == SpendFilters(T, q.period, q.category)
           R == {r \in F : r.merchant # NoMerchant}
           N == {r \in F : r.merchant = NoMerchant}
           key == [r \in R |-> r.merchant]
           totals == Groups(R, key)
           top == [k \in TopOf(totals, q.limit) |-> totals[k]]
<1>1. IsFiniteSet(F) /\ Negative(F)
  BY FiltersSpend
<1>2. GroupSpend(R, LAMBDA r : r.merchant) = totals
  <2>1. \A r \in R : key[r] = r.merchant
    OBVIOUS
  <2>2. {key[r] : r \in R} = {r.merchant : r \in R}
    BY <2>1
  <2>3. \A k : {r \in R : key[r] = k} = {r \in R : r.merchant = k}
    BY <2>1
  <2> HIDE DEF key, R
  <2>4. totals = [k \in {r.merchant : r \in R} |-> Spend({r \in R : r.merchant = k})]
    BY <2>2, <2>3 DEF Groups
  <2>5. QED
    BY <2>4 DEF GroupSpend
<1>3. RunTopMerchants(T, q) = top
  BY <1>2 DEF RunTopMerchants
<1>4. TotalSpend(T, q) = Spend(F)
  BY DEF TotalSpend
<1>5. /\ IsFiniteSet(R) /\ IsFiniteSet(N) /\ R \cap N = {} /\ R \cup N = F
      /\ Negative(R) /\ Negative(N)
  <2> HIDE DEF F
  <2> QED BY <1>1, FS_Subset DEF Negative
<1> HIDE DEF F, R, N, key
<1>6. SumFunction(top) <= Spend(R)
  BY <1>5, PartOfGroups
<1> HIDE DEF top
<1>7. Spend(R) \in Nat /\ Spend(N) \in Nat /\ Amounted(R) /\ Amounted(N)
  BY <1>5, SpendNatural
<1>8. Total(R \cup N) = Total(R) + Total(N) /\ Total(R) \in Int /\ Total(N) \in Int
  BY <1>5, <1>7, TotalDisjoint, TotalType
<1>9. Total(F) = Total(R) + Total(N)
  BY <1>5, <1>8, Zenon
<1>10. Spend(R) <= Spend(F)
  BY <1>7, <1>8, <1>9 DEF Spend
<1>11. SumFunction(top) <= Spend(F)
  <2>1. SumFunction(top) \in Int
    <3>1. IsFiniteSet(DOMAIN totals) /\ \A k \in DOMAIN totals : totals[k] \in Int
      BY <1>5, <1>7, GroupsAddUp
    <3>2. TopOf(totals, q.limit) \subseteq DOMAIN totals
      <4> HIDE DEF totals
      <4> QED BY <3>1, TopOfTop
    <3>3. IsFiniteSet(DOMAIN top) /\ \A k \in DOMAIN top : top[k] \in Int
      <4> HIDE DEF totals
      <4> QED BY <3>1, <3>2, FS_Subset DEF top
    <3>4. QED
      BY <3>3, SumFunctionIs, SumType
  <2>2. Spend(R) \in Int /\ Spend(F) \in Int
    BY <1>7, <1>8, <1>9 DEF Spend
  <2>3. QED
    BY <1>6, <1>10, <2>1, <2>2
<1>12. QED
  BY <1>3, <1>4, <1>11

(* All of the largest transactions are the total.                          *)
LEMMA LargestIsAll ==
    ASSUME NEW T, IsFiniteSet(T), Amounted(T), NEW q, q.limit = Cardinality(T)
    PROVE  SumFunction(RunLargest(T, q)) = TotalSpend(T, q)
<1> DEFINE R == SpendFilters(T, q.period, q.category)
           key == [r \in R |-> r.txn]
           totals == Groups(R, key)
           top == [k \in TopOf(totals, q.limit) |-> totals[k]]
<1>1. IsFiniteSet(R) /\ Negative(R) /\ R \subseteq T
  BY FiltersSpend
<1>2. GroupSpend(R, LAMBDA r : r.txn) = totals
  <2>1. \A r \in R : key[r] = r.txn
    OBVIOUS
  <2>2. {key[r] : r \in R} = {r.txn : r \in R}
    BY <2>1
  <2>3. \A k : {r \in R : key[r] = k} = {r \in R : r.txn = k}
    BY <2>1
  <2> HIDE DEF key, R
  <2>4. totals = [k \in {r.txn : r \in R} |-> Spend({r \in R : r.txn = k})]
    BY <2>2, <2>3 DEF Groups
  <2>5. QED
    BY <2>4 DEF GroupSpend
<1>3. RunLargest(T, q) = top
  BY <1>2 DEF RunLargest
<1>4. TotalSpend(T, q) = Spend(R)
  BY DEF TotalSpend
<1> HIDE DEF R, key
<1>5. q.limit \in Nat /\ q.limit >= Cardinality(R)
  BY <1>1, FS_CardinalityType, FS_Subset
<1>6. SumFunction(top) = Spend(R)
  BY <1>1, <1>5, PartOfGroups
<1>7. QED
  BY <1>3, <1>4, <1>6

-----------------------------------------------------------------------------
(* Months.                                                                 *)

(* Multiplication by a positive number keeps the order.                    *)
LEMMA Scales ==
    ASSUME NEW d \in Nat \ {0}, NEW x \in Int, NEW y \in Int, d * x < d * y
    PROVE  x < y
OBVIOUS

(* A day from the first of last month to today is in the window of months. *)
LEMMA InTheWindow ==
    ASSUME NEW day \in Nat, FirstDay(2) <= day, day <= Today
    PROVE  Month(day) \in Trailing(2)
<1> DEFINE d == MonthDays
           a == Month(day)
           b == Month(Today)
<1>1. d \in Nat \ {0} /\ Today \in Nat
  BY QueriesAssumption
<1>2. a \in Nat /\ d * a <= day /\ day < d * a + d
  BY <1>1, Quotient DEF Month
<1>3. b \in Nat /\ d * b <= Today /\ Today < d * b + d
  BY <1>1, Quotient DEF Month
<1>4. FirstDay(2) = (b + 1 - 2) * d /\ Trailing(2) = (b + 1 - 2)..b
  BY DEF FirstDay, Trailing
<1> HIDE DEF a, b, d
<1>5. d * (b - 1) <= day
  BY <1>1, <1>3, <1>4
<1>6. d * a < d * (b + 1)
  BY <1>1, <1>2, <1>3
<1>7. d * (b - 1) < d * (a + 1)
  BY <1>1, <1>2, <1>3, <1>5
<1>8. a < b + 1 /\ b - 1 < a + 1
  BY <1>1, <1>2, <1>3, <1>6, <1>7, Scales
<1>9. QED
  BY <1>2, <1>3, <1>4, <1>8 DEF a

(* The months of a trend are all the months its rows are of.               *)
LEMMA TrendAddsUp ==
    ASSUME NEW T, IsFiniteSet(T), Amounted(T), \A r \in T : r.date \in Nat,
           NEW q, q.limit = 2
    PROVE  SumFunction(RunTrend(T, q))
               = Spend(SpendFilters(T, Days(FirstDay(2), Today), q.category))
<1> DEFINE R == SpendFilters(T, Days(FirstDay(2), Today), q.category)
           key == [r \in R |-> Month(r.date)]
           totals == Groups(R, key)
           D == DOMAIN totals
           W == Trailing(2)
           trend == [m \in W |-> At(totals, m)]
<1>1. IsFiniteSet(R) /\ Negative(R) /\ Amounted(R) /\ R \subseteq T
  BY FiltersSpend
<1>2. \A r \in R : key[r] = Month(r.date) /\ Month(r.date) \in W
  <2> TAKE r \in R
  <2>1. r.date \in Nat /\ FirstDay(2) <= r.date /\ r.date <= Today
    BY DEF SpendFilters, In, Days
  <2>2. QED
    BY <2>1, InTheWindow
<1>3. GroupSpend(R, LAMBDA r : Month(r.date)) = totals
  <2>1. {key[r] : r \in R} = {Month(r.date) : r \in R}
    BY <1>2
  <2>2. \A k : {r \in R : key[r] = k} = {r \in R : Month(r.date) = k}
    BY <1>2
  <2> HIDE DEF key, R
  <2>3. totals = [k \in {Month(r.date) : r \in R} |-> Spend({r \in R : Month(r.date) = k})]
    BY <2>1, <2>2 DEF Groups
  <2>4. QED
    BY <2>3 DEF GroupSpend
<1>4. RunTrend(T, q) = trend
  BY <1>3 DEF RunTrend
<1> HIDE DEF R
<1>5. D \subseteq W
  <2>1. D = {key[r] : r \in R}
    BY DEF Groups
  <2> HIDE DEF key, totals, W
  <2> QED BY <1>2, <2>1
<1> HIDE DEF key
<1>6. /\ IsFiniteSet(D) /\ \A k \in D : totals[k] \in Int
      /\ SumFunctionOnSet(totals, D) = Spend(R)
  BY <1>1, GroupsAddUp
<1> HIDE DEF totals, D
<1>7. DOMAIN trend = W /\ \A m \in W : trend[m] = At(totals, m)
  OBVIOUS
<1>8. IsFiniteSet(W)
  <2>1. Month(Today) \in Int
    BY QueriesAssumption, Quotient DEF Month
  <2>2. QED
    BY <2>1, FS_Interval DEF Trailing
<1>9. \A m \in D : trend[m] = totals[m] /\ trend[m] \in Int
  BY <1>5, <1>6, <1>7 DEF At, D
<1>10. \A m \in W \ D : trend[m] = 0
  BY <1>7 DEF At, D
<1>11. SumFunction(trend) = SumFunctionOnSet(trend, W)
  <2>1. SumFunction(trend) = SumFunctionOnSet(trend, DOMAIN trend)
    BY SumFunctionIs
  <2>2. QED
    BY <1>7, <2>1, Zenon
<1> HIDE DEF trend, W
<1>12. SumFunctionOnSet(trend, W) = SumFunctionOnSet(trend, D)
  BY <1>5, <1>8, <1>9, <1>10, SumOverMore
<1>13. SumFunctionOnSet(trend, D) = SumFunctionOnSet(totals, D)
  BY <1>6, <1>9, SumSame
<1>14. SumFunction(RunTrend(T, q)) = Spend(R)
  BY <1>4, <1>6, <1>11, <1>12, <1>13
<1>15. QED
  BY <1>14 DEF R

(* Without splits, and without dates after today, the trend of the         *)
(* dashboard has the rows of the template's.                               *)
LEMMA TrendsAgree ==
    ASSUME NEW T, IsFiniteSet(T), Amounted(T), \A r \in T : r.date \in Nat /\ r.date <= Today,
           NEW q, q.limit = 2, q.category = AnyCategory
    PROVE  RunTrend(T, q) = SpendingTrend(T, {}, 2)
<1> DEFINE R == SpendFilters(T, Days(FirstDay(2), Today), q.category)
           since == {r \in T : r.date >= FirstDay(2)}
           dates == {FirstDay(2)} \cup {r.date : r \in T}
           ever == Days(FirstDay(2), Max(dates))
           plain == GroupSpend(PlainRows(since, {}, ever), LAMBDA r : Month(r.date))
           DateOf(s) == (CHOOSE r \in since : r.txn = s.txn).date
           splits == GroupSpend(SplitRows(since, {}, ever), LAMBDA s : Month(DateOf(s)))
           W == Trailing(2)
           totals == GroupSpend(R, LAMBDA r : Month(r.date))
<1>1. FirstDay(2) \in Int /\ Month(Today) \in Int
  BY QueriesAssumption, Quotient DEF FirstDay, Month
<1>2. IsFiniteSet(dates) /\ dates # {} /\ \A x \in dates : x \in Int
  <2> DEFINE at == [r \in T |-> r.date]
  <2>1. IsFiniteSet({at[r] : r \in T})
    BY ImageFinite
  <2>2. {r.date : r \in T} = {at[r] : r \in T}
    OBVIOUS
  <2>3. IsFiniteSet({r.date : r \in T})
    BY <2>1, <2>2, Zenon
  <2>4. IsFiniteSet({r.date : r \in T} \cup {FirstDay(2)})
    BY <2>3, FS_AddElement
  <2>5. dates = {r.date : r \in T} \cup {FirstDay(2)}
    OBVIOUS
  <2>6. IsFiniteSet(dates)
    BY <2>4, <2>5, Zenon
  <2>7. QED
    BY <1>1, <2>6
<1>3. \A x \in dates : Max(dates) >= x
  <2> HIDE DEF dates
  <2> DEFINE f == [x \in dates |-> x]
  <2>1. \A x \in dates : f[x] \in Int
    BY <1>2
  <2>2. \E x \in dates : \A y \in dates : f[x] >= f[y]
    <3> HIDE DEF f
    <3> QED BY <1>2, <2>1, Largest
  <2>3. \E x \in dates : \A y \in dates : x >= y
    BY <2>2
  <2>4. QED
    BY <2>3 DEF Max
<1>4. \A r \in T : r.date <= Max(dates) /\ r.date <= Today
  <2> TAKE r \in T
  <2>1. r.date \in dates
    OBVIOUS
  <2>2. Max(dates) >= r.date
    BY <1>3, <2>1
  <2>3. QED
    BY <2>2
<1> HIDE DEF dates
<1>5. PlainRows(since, {}, ever) = R
  BY <1>1, <1>4 DEF PlainRows, SplitIds, SpendFilters, In, Days
<1>6. SplitRows(since, {}, ever) = {}
  BY DEF SplitRows
<1>7. plain = totals
  BY <1>5, Zenon
<1>8. DOMAIN splits = {}
  BY <1>6 DEF GroupSpend
<1> HIDE DEF splits
<1>9. \A m : At(splits, m) = 0
  BY <1>8 DEF At
<1>10. SpendingTrend(T, {}, 2) = [m \in W |-> At(plain, m) + At(splits, m)]
  BY DEF SpendingTrend, splits, dates
<1>11. RunTrend(T, q) = [m \in W |-> At(totals, m)]
  BY DEF RunTrend
<1>12. \A m : At(totals, m) \in Int
  <2>1. IsFiniteSet(R) /\ Negative(R)
    BY FiltersSpend
  <2>2. DOMAIN totals = {Month(r.date) : r \in R}
    BY DEF GroupSpend
  <2>3. \A k \in DOMAIN totals : totals[k] = Spend({r \in R : Month(r.date) = k})
    BY DEF GroupSpend
  <2> HIDE DEF R, totals
  <2>4. ASSUME NEW k \in DOMAIN totals
        PROVE  totals[k] \in Int
    <3> DEFINE S == {r \in R : Month(r.date) = k}
    <3>1. IsFiniteSet(S) /\ Negative(S)
      BY <2>1, FS_Subset DEF Negative
    <3> HIDE DEF S
    <3>2. Spend(S) \in Nat
      BY <3>1, SpendNatural
    <3>3. totals[k] = Spend(S)
      BY <2>3, <2>4 DEF S
    <3>4. QED
      BY <3>2, <3>3
  <2>5. QED
    BY <2>4 DEF At
<1> HIDE DEF plain, totals, W
<1>13. \A m : At(plain, m) + At(splits, m) = At(totals, m)
  BY <1>7, <1>9, <1>12
<1>14. QED
  BY <1>10, <1>11, <1>13

-----------------------------------------------------------------------------
(* The inductive invariant behind AnswersAgree: there are finitely many    *)
(* transactions to add up.                                                 *)

StoredFinite == IsFiniteSet(stored)

(* There is no transaction at first.                                       *)
LEMMA InitStoredFinite == SpendingInit => StoredFinite
BY FS_EmptySet DEF SpendingInit, Init, StoredFinite

(* Only an upload adds transactions, those of one file.                    *)
LEMMA NextStoredFinite == StoredFinite /\ [SpendingNext]_spendingVars => StoredFinite'
<1> SUFFICES ASSUME StoredFinite, [SpendingNext]_spendingVars
             PROVE  StoredFinite'
  OBVIOUS
<1>1. ASSUME NEW p \in Process, NEW s \in Statement, Upload(p, s)
      PROVE  StoredFinite'
  <2> DEFINE T == {t \in Txn : StatementOf[t] = s}
  <2>1. IsFiniteSet(T) /\ stored' = stored \cup T
    BY <1>1, SpendingAssumption DEF Upload
  <2> HIDE DEF T
  <2>2. IsFiniteSet(stored \cup T)
    BY <2>1, FS_Union DEF StoredFinite
  <2>3. QED
    BY <2>1, <2>2 DEF StoredFinite
<1>2. CASE stored' = stored
  BY <1>2 DEF StoredFinite
<1>3. [Next]_vars
  BY StepRefines DEF spendingVars
<1>4. ASSUME NEW p \in Process, Work(p)
      PROVE  StoredFinite'
  <2>1. CASE \E s \in Statement : Upload(p, s)
    BY <2>1, <1>1
  <2>2. CASE Tier2Matcher(p) \/ Tier2Load(p) \/ Tier2Commit(p)
    BY <2>2, <1>2 DEF Tier2Matcher, Tier2Load, Tier2Commit
  <2>3. CASE Tier3Select(p) \/ Tier3Nothing(p) \/ Tier3Commit(p)
    BY <2>3, <1>2 DEF Tier3Select, Tier3Nothing, Tier3Commit
  <2>4. CASE \/ PromoteGroups(p) \/ PromoteCommit(p) \/ PromoteFail(p)
             \/ \E m \in Merchant : PromoteDecisions(p, m) \/ PromoteEntry(p, m)
    BY <2>4, <1>2 DEF PromoteGroups, PromoteCommit, PromoteFail, PromoteDecisions, PromoteEntry
  <2>5. CASE \/ \E t \in Txn, c \in Category : Recategorize(p, t, c)
             \/ RecategorizeOnly(p) \/ RecategorizeLookup(p)
             \/ RecategorizeCommit(p) \/ RecategorizeFail(p)
    BY <2>5, <1>2
    DEF Recategorize, RecategorizeOnly, RecategorizeLookup, RecategorizeCommit,
        RecategorizeFail
  <2>6. QED
    BY <1>4, <2>1, <2>2, <2>3, <2>4, <2>5 DEF Work
<1>5. QED
  BY <1>2, <1>3, <1>4 DEF Next, vars, Split, SplitCommit, Unsplit

-----------------------------------------------------------------------------
(* Tables of transactions.                                                 *)

(* The transactions s, with categories k and merchants m.                  *)
Table(s, k, m) ==
    {[txn |-> t, category |-> k[t], amount |-> Amount[t], date |-> Date[t],
      merchant |-> m[t]] : t \in s}

(* What the queries read is a table.                                       *)
LEMMA TransactionsTable ==
    Transactions =
        Table(stored, [t \in stored |-> cell[t].category],
              [t \in stored |-> IF Named(t) THEN NormalizedMerchant(t) ELSE NoMerchant])
<1> DEFINE k == [t \in stored |-> cell[t].category]
           m == [t \in stored |-> IF Named(t) THEN NormalizedMerchant(t) ELSE NoMerchant]
<1>1. \A t \in stored :
        /\ k[t] = cell[t].category
        /\ m[t] = (IF Named(t) THEN NormalizedMerchant(t) ELSE NoMerchant)
  OBVIOUS
<1> HIDE DEF k, m
<1>2. Transactions = Table(stored, k, m)
  BY <1>1 DEF Transactions, Table
<1>3. QED
  BY <1>2 DEF k, m

(* A table has one row per transaction, with its amount and date.          *)
LEMMA TableOK ==
    ASSUME NEW s \in SUBSET Txn, IsFiniteSet(s), NEW k, NEW m
    PROVE  LET T == Table(s, k, m)
           IN  /\ IsFiniteSet(T) /\ Amounted(T)
               /\ \A r \in T : r.txn \in s /\ r.amount = Amount[r.txn]
                               /\ r.category = k[r.txn]
                               /\ r.date = Date[r.txn] /\ r.date \in Nat
               /\ \A r1, r2 \in T : r1.txn = r2.txn => r1 = r2
               /\ \A t \in s : \E r \in T : r.txn = t
<1> DEFINE T == Table(s, k, m)
           at == [t \in s |-> [txn |-> t, category |-> k[t], amount |-> Amount[t],
                               date |-> Date[t], merchant |-> m[t]]]
<1>1. IsFiniteSet({at[t] : t \in s})
  BY ImageFinite
<1>2. T = {at[t] : t \in s}
  BY DEF Table
<1>3. IsFiniteSet(T)
  BY <1>1, <1>2, Zenon
<1>4. \A t \in s : Amount[t] \in Int /\ Date[t] \in Nat
  BY SpendingAssumption
<1>5. \A r \in T : \E t \in s : r = [txn |-> t, category |-> k[t], amount |-> Amount[t],
                                     date |-> Date[t], merchant |-> m[t]]
  BY DEF Table
<1>6. \A t \in s : [txn |-> t, category |-> k[t], amount |-> Amount[t],
                    date |-> Date[t], merchant |-> m[t]] \in T
  BY DEF Table
<1> HIDE DEF T, at
<1>7. \A r \in T : r.txn \in s /\ r.amount = Amount[r.txn] /\ r.amount \in Int
                   /\ r.category = k[r.txn]
                   /\ r.date = Date[r.txn] /\ r.date \in Nat
  BY <1>4, <1>5
<1>8. \A r1, r2 \in T : r1.txn = r2.txn => r1 = r2
  BY <1>5
<1>9. \A t \in s : \E r \in T : r.txn = t
  BY <1>6
<1>10. QED
  BY <1>3, <1>7, <1>8, <1>9 DEF Amounted, T

-----------------------------------------------------------------------------
(* The answers.                                                            *)

(* The template decides which query answers.                               *)
LEMMA AnswerIs ==
    ASSUME NEW T, NEW q
    PROVE  /\ q.template = "total_spend_in_period" => Answer(T, q) = [total |-> TotalSpend(T, q)]
           /\ q.template = "spend_by_category_in_period" => Answer(T, q) = RunByCategory(T, q)
           /\ q.template = "top_merchants_in_period" => Answer(T, q) = RunTopMerchants(T, q)
           /\ q.template = "compare_spend_between_periods" => Answer(T, q) = RunCompare(T, q)
           /\ q.template = "monthly_spend_trend" => Answer(T, q) = RunTrend(T, q)
           /\ q.template = "largest_transactions" => Answer(T, q) = RunLargest(T, q)
BY DEF Answer

(* AnswersAgree follows: each conjunct is the lemma of its template.       *)
LEMMA AnswersFitTogether ==
    ASSUME TypeOK, OneBatch, StoredFinite
    PROVE  AnswersAgree
<1> SUFFICES ASSUME view.open, NEW c \in Category \cup {AnyCategory}
             PROVE  LET T == Transactions
                        q(template, p, n) ==
                            [template |-> template, confident |-> TRUE, period |-> p,
                             other |-> Days(0, Today), category |-> c, limit |-> n]
                        Told(template, n) == Answer(T, q(template, view.period, n))
                        total == Told("total_spend_in_period", 1).total
                        parts == Told("spend_by_category_in_period", 1)
                        two   == Told("compare_spend_between_periods", 1)
                        trend == Told("monthly_spend_trend", 2)
                    IN  /\ SumFunction(parts) = total
                        /\ c # AnyCategory => parts \in {<< >>, [d \in {c} |-> total]}
                        /\ SumFunction(Told("top_merchants_in_period", 1)) <= total
                        /\ SumFunction(Told("largest_transactions", Cardinality(T))) = total
                        /\ two.change = two.b - total
                        /\ SumFunction(trend) = TotalSpend(T, q("", Days(FirstDay(2), Today), 2))
                        /\ c = AnyCategory /\ split = {} /\ (\A t \in stored : Date[t] <= Today) =>
                              trend = SpendingTrend(T, Splits, 2)
  BY DEF AnswersAgree
<1> DEFINE T == Transactions
           q(template, p, n) ==
               [template |-> template, confident |-> TRUE, period |-> p,
                other |-> Days(0, Today), category |-> c, limit |-> n]
           F == Spend(SpendFilters(T, view.period, c))
<1>1. /\ IsFiniteSet(T) /\ Amounted(T)
      /\ \A r \in T : r.txn \in stored /\ r.date = Date[r.txn] /\ r.date \in Nat
  <2>1. stored \in SUBSET Txn /\ IsFiniteSet(stored)
    BY DEF TypeOK, StoredFinite
  <2> HIDE DEF T
  <2>2. PICK k, m : T = Table(stored, k, m)
    BY TransactionsTable DEF T
  <2>3. QED
    BY <2>1, <2>2, TableOK
<1> HIDE DEF T
<1>2. ASSUME NEW template, NEW n
      PROVE  TotalSpend(T, q(template, view.period, n)) = F
  BY DEF TotalSpend
<1>3. Answer(T, q("total_spend_in_period", view.period, 1)).total = F
  BY <1>2, AnswerIs
<1>4. /\ SumFunction(Answer(T, q("spend_by_category_in_period", view.period, 1))) = F
      /\ c # AnyCategory =>
            Answer(T, q("spend_by_category_in_period", view.period, 1))
                \in {<< >>, [d \in {c} |-> F]}
  <2> DEFINE q1 == q("spend_by_category_in_period", view.period, 1)
  <2>1. q1.category = c /\ Answer(T, q1) = RunByCategory(T, q1) /\ TotalSpend(T, q1) = F
    BY <1>2, AnswerIs
  <2> HIDE DEF q1, F
  <2>2. SumFunction(RunByCategory(T, q1)) = F
    BY <1>1, <2>1, BreakdownAddsUp
  <2>3. c # AnyCategory => RunByCategory(T, q1) \in {<< >>, [d \in {c} |-> F]}
    <3> SUFFICES ASSUME c # AnyCategory
                 PROVE  RunByCategory(T, q1) \in {<< >>, [d \in {c} |-> F]}
      OBVIOUS
    <3>1. RunByCategory(T, q1) \in {<< >>, [d \in {q1.category} |-> TotalSpend(T, q1)]}
      BY <2>1, BreakdownOfOne
    <3>2. QED
      BY <2>1, <3>1, Zenon
  <2>4. SumFunction(Answer(T, q1)) = F
    BY <2>1, <2>2, Zenon
  <2>5. QED
    BY <2>1, <2>3, <2>4 DEF q1
<1>5. SumFunction(Answer(T, q("top_merchants_in_period", view.period, 1))) <= F
  <2> DEFINE q1 == q("top_merchants_in_period", view.period, 1)
  <2>1. q1.limit \in Nat /\ Answer(T, q1) = RunTopMerchants(T, q1) /\ TotalSpend(T, q1) = F
    BY <1>2, AnswerIs
  <2> HIDE DEF q1, F
  <2>2. SumFunction(RunTopMerchants(T, q1)) <= F
    BY <1>1, <2>1, TopMerchantsWithin
  <2>3. QED
    BY <2>1, <2>2 DEF q1
<1>6. SumFunction(Answer(T, q("largest_transactions", view.period, Cardinality(T)))) = F
  <2> DEFINE q1 == q("largest_transactions", view.period, Cardinality(T))
  <2>1. q1.limit = Cardinality(T) /\ Answer(T, q1) = RunLargest(T, q1) /\ TotalSpend(T, q1) = F
    BY <1>2, AnswerIs
  <2> HIDE DEF q1, F
  <2>2. SumFunction(RunLargest(T, q1)) = F
    BY <1>1, <2>1, LargestIsAll
  <2>3. QED
    BY <2>1, <2>2 DEF q1
<1>7. LET two == Answer(T, q("compare_spend_between_periods", view.period, 1))
      IN  two.change = two.b - F
  <2> DEFINE q1 == q("compare_spend_between_periods", view.period, 1)
  <2>1. Answer(T, q1) = RunCompare(T, q1) /\ q1.period = view.period /\ q1.category = c
    BY AnswerIs
  <2> HIDE DEF q1
  <2>2. RunCompare(T, q1).change = RunCompare(T, q1).b - F
    BY <2>1 DEF RunCompare
  <2>3. QED
    BY <2>1, <2>2 DEF q1
<1>8. /\ SumFunction(Answer(T, q("monthly_spend_trend", view.period, 2)))
            = TotalSpend(T, q("", Days(FirstDay(2), Today), 2))
      /\ c = AnyCategory /\ split = {} /\ (\A t \in stored : Date[t] <= Today) =>
            Answer(T, q("monthly_spend_trend", view.period, 2)) = SpendingTrend(T, Splits, 2)
  <2> DEFINE q1 == q("monthly_spend_trend", view.period, 2)
             G == Spend(SpendFilters(T, Days(FirstDay(2), Today), c))
  <2>1. Answer(T, q1) = RunTrend(T, q1) /\ q1.limit = 2 /\ q1.category = c
    BY AnswerIs
  <2>2. TotalSpend(T, q("", Days(FirstDay(2), Today), 2)) = G
    BY DEF TotalSpend
  <2> HIDE DEF q1
  <2>3. SumFunction(RunTrend(T, q1)) = G
    BY <1>1, <2>1, TrendAddsUp
  <2> HIDE DEF G
  <2>4. SumFunction(Answer(T, q1)) = G
    BY <2>1, <2>3, Zenon
  <2>5. ASSUME c = AnyCategory, split = {}, \A t \in stored : Date[t] <= Today
        PROVE  Answer(T, q1) = SpendingTrend(T, Splits, 2)
    <3>1. Splits = {}
      <4>1. \A t \in Txn, p \in Process : alloc[t][p] = << >>
        BY <2>5 DEF OneBatch, Batches
      <4>2. \A t \in Txn : RowsOf(t) = {}
        BY <4>1 DEF RowsOf
      <4>3. QED
        BY <4>2 DEF Splits
    <3>2. \A r \in T : r.date \in Nat /\ r.date <= Today
      BY <1>1, <2>5
    <3>3. RunTrend(T, q1) = SpendingTrend(T, {}, 2)
      BY <1>1, <2>1, <2>5, <3>2, TrendsAgree
    <3>4. QED
      BY <2>1, <3>1, <3>3
  <2>6. QED
    BY <2>2, <2>4, <2>5 DEF q1
<1> HIDE DEF F
<1>9. QED
  BY <1>3, <1>4, <1>5, <1>6, <1>7, <1>8 DEF T

(* Whatever the table holds, the answers about a period fit together, and  *)
(* without splits the trend is the dashboard's (templates.py:147-322).     *)
THEOREM AnswersFit == SpendingSpec => []AnswersAgree
<1>1. SpendingSpec => [](TypeOK /\ SInv)
  BY InitSInv, NextSInv, CategorizationHolds, PTL DEF SpendingSpec
<1>2. SpendingSpec => []StoredFinite
  BY InitStoredFinite, NextStoredFinite, PTL DEF SpendingSpec
<1>3. SInv => OneBatch
  BY DEF SInv
<1>4. QED
  BY <1>1, <1>2, <1>3, AnswersFitTogether, PTL

(* The total of one row.                                                   *)
LEMMA TotalOne ==
    ASSUME NEW r, r.amount \in Int
    PROVE  Total({r}) = r.amount
<1> DEFINE f == AmountsOf({r})
<1>1. IsFiniteSet({}) /\ IsFiniteSet({r}) /\ {} \cup {r} = {r} /\ r \notin {}
  BY FS_EmptySet, FS_Singleton
<1>2. \A x \in {} \cup {r} : f[x] \in Int
  BY DEF AmountsOf
<1>3. f[r] = r.amount
  BY DEF AmountsOf
<1>4. Total({r}) = SumFunctionOnSet(f, {r})
  BY <1>1, TotalIs
<1> HIDE DEF f
<1>5. SumFunctionOnSet(f, {} \cup {r}) = f[r] + SumFunctionOnSet(f, {})
  BY <1>1, <1>2, SumAdd
<1>6. SumFunctionOnSet(f, {r}) = f[r] + 0
  BY <1>1, <1>5, SumEmpty, Zenon
<1>7. QED
  BY <1>3, <1>4, <1>6

(* The rows of split transactions.                                         *)
LEMMA SplitsOfTransactions ==
    ASSUME TypeOK, OneBatch, AllocRows, BatchesClose, StoredFinite
    PROVE  /\ IsFiniteSet(Splits) /\ Amounted(Splits)
           /\ \A s \in Splits : s.txn \in split
           /\ \A t \in Txn : /\ RowsOf(t) = {s \in Splits : s.txn = t}
                             /\ IsFiniteSet(RowsOf(t)) /\ Amounted(RowsOf(t))
           /\ SplitIds(Splits) = split
<1>1. \A t \in Txn : IsFiniteSet(RowsOf(t)) /\ Amounted(RowsOf(t))
  BY BatchesAddUp
<1>2. \A t \in Txn : \A s \in RowsOf(t) : s.txn = t
  BY DEF RowsOf
<1>3. \A t \in Txn : RowsOf(t) = {s \in Splits : s.txn = t}
  BY <1>2 DEF Splits
<1>4. ASSUME NEW t \in Txn
      PROVE  RowsOf(t) # {} <=> t \in split
  <2>1. RowsOf(t) # {} => t \in split
    <3> SUFFICES ASSUME NEW r \in RowsOf(t)
                 PROVE  t \in split
      OBVIOUS
    <3>1. PICK p \in Process : \E i \in DOMAIN alloc[t][p] : TRUE
      BY DEF RowsOf
    <3>2. alloc[t][p] # << >>
      BY <3>1
    <3>3. QED
      BY <3>2 DEF OneBatch, Batches
  <2>2. t \in split => RowsOf(t) # {}
    <3> SUFFICES ASSUME t \in split
                 PROVE  RowsOf(t) # {}
      OBVIOUS
    <3>1. PICK p \in Process : alloc[t][p] # << >>
      BY DEF OneBatch, Batches
    <3>2. alloc[t][p] \in Seq(Row)
      BY DEF AllocRows
    <3>3. 1 \in DOMAIN alloc[t][p]
      BY <3>1, <3>2
    <3>4. RowsFrom(t, p) # {}
      BY <3>3 DEF RowsFrom
    <3>5. QED
      BY <3>4, RowsAreOf
  <2>3. QED
    BY <2>1, <2>2
<1>5. \A s \in Splits : s.txn \in split /\ s \in RowsOf(s.txn) /\ s.txn \in Txn
  BY <1>2, <1>4 DEF Splits
<1>6. split \subseteq Txn /\ IsFiniteSet(split)
  BY FS_Subset DEF TypeOK, StoredFinite
<1>7. IsFiniteSet(Splits)
  <2> DEFINE at == [t \in split |-> RowsOf(t)]
             X == {at[t] : t \in split}
  <2>1. IsFiniteSet(X)
    BY <1>6, ImageFinite
  <2>2. \A x \in X : IsFiniteSet(x)
    BY <1>1, <1>6
  <2>3. Splits = UNION X
    BY <1>5, <1>6 DEF Splits
  <2> HIDE DEF X
  <2>4. IsFiniteSet(UNION X)
    BY <2>1, <2>2, FS_UNION
  <2>5. QED
    BY <2>3, <2>4
<1>8. Amounted(Splits)
  BY <1>1, <1>5 DEF Amounted
<1>9. SplitIds(Splits) = split
  <2>1. \A t \in split : \E s \in Splits : s.txn = t
    BY <1>2, <1>4, <1>6 DEF Splits
  <2>2. QED
    BY <1>5, <2>1 DEF SplitIds
<1>10. QED
  BY <1>1, <1>3, <1>5, <1>7, <1>8, <1>9

(* What the rows of a split transaction count for where they are exact.    *)
LEMMA ExactRows ==
    ASSUME NEW t \in Txn, IsFiniteSet(RowsOf(t)), Amounted(RowsOf(t)), Exact(t)
    PROVE  LET N == {r \in RowsOf(t) : r.amount < 0}
           IN  IF Amount[t] < 0 THEN Total(N) = Amount[t] ELSE N = {}
<1> DEFINE R == RowsOf(t)
           N == {r \in R : r.amount < 0}
           f == AmountsOf(R)
<1>1. /\ IsFiniteSet(R) /\ Amounted(R) /\ Total(R) = Amount[t]
      /\ \A r \in R : (r.amount < 0 => Amount[t] < 0) /\ (r.amount > 0 => Amount[t] > 0)
  BY DEF Exact
<1>2. Amount[t] \in Int
  BY SpendingAssumption
<1> HIDE DEF R
<1>3. CASE ~(Amount[t] < 0)
  BY <1>1, <1>3 DEF R
<1>4. CASE Amount[t] < 0
  <2>1. N \subseteq R /\ \A r \in R \ N : r.amount = 0
    BY <1>1, <1>2, <1>4 DEF Amounted
  <2>2. (\A r \in N : f[r] \in Int) /\ (\A r \in R \ N : f[r] = 0)
    BY <1>1, <2>1 DEF AmountsOf, Amounted
  <2>3. Total(R) = SumFunctionOnSet(f, R) /\ Total(N) = SumFunctionOnSet(f, N)
    BY <1>1, <2>1, TotalIs
  <2> HIDE DEF f, N
  <2>4. SumFunctionOnSet(f, R) = SumFunctionOnSet(f, N)
    BY <1>1, <2>1, <2>2, SumOverMore
  <2>5. Total(N) = Amount[t]
    BY <1>1, <2>3, <2>4
  <2>6. QED
    BY <1>4, <2>5 DEF N, R
<1>5. QED
  BY <1>3, <1>4

(* Of exact splits, those that are spending in a period add up to what     *)
(* their transactions would count for.                                     *)
LEMMA SplitsForTransactions ==
    ASSUME TypeOK, OneBatch, AllocRows, BatchesClose, StoredFinite,
           \A t \in split : Exact(t),
           NEW s0 \in SUBSET Txn, IsFiniteSet(s0), split \subseteq s0, NEW k0, NEW m0, NEW p
    PROVE  Spend(SplitRows(Transactions, Splits, p))
               = Spend({r \in SpendFilters(Table(s0, k0, m0), p, AnyCategory) : r.txn \in split})
<1> DEFINE T == Transactions
           T0 == Table(s0, k0, m0)
           F == SpendFilters(T0, p, AnyCategory)
           Q == {r \in F : r.txn \in split}
           R == SplitRows(T, Splits, p)
           U == {t \in split : Amount[t] < 0 /\ p.start <= Date[t] /\ Date[t] <= p.end}
<1>1. /\ IsFiniteSet(Splits) /\ Amounted(Splits) /\ \A s \in Splits : s.txn \in split
      /\ \A t \in Txn : /\ RowsOf(t) = {s \in Splits : s.txn = t}
                        /\ IsFiniteSet(RowsOf(t)) /\ Amounted(RowsOf(t))
  BY SplitsOfTransactions
<1>2. /\ \A r \in T : r.txn \in stored /\ r.date = Date[r.txn]
      /\ \A t \in stored : \E r \in T : r.txn = t
  <2>1. stored \in SUBSET Txn /\ IsFiniteSet(stored)
    BY DEF TypeOK, StoredFinite
  <2> HIDE DEF T
  <2>2. PICK k, m : T = Table(stored, k, m)
    BY TransactionsTable DEF T
  <2>3. QED
    BY <2>1, <2>2, TableOK
<1>3. /\ IsFiniteSet(T0) /\ Amounted(T0)
      /\ \A r \in T0 : r.txn \in s0 /\ r.amount = Amount[r.txn] /\ r.date = Date[r.txn]
      /\ \A r1, r2 \in T0 : r1.txn = r2.txn => r1 = r2
      /\ \A t \in s0 : \E r \in T0 : r.txn = t
  BY TableOK
<1>4. split \subseteq Txn /\ split \subseteq stored /\ IsFiniteSet(split)
  BY FS_Subset DEF TypeOK, StoredFinite
<1>5. /\ R \subseteq Splits
      /\ \A s \in Splits : s \in R <=> s.amount < 0 /\ p.start <= Date[s.txn] /\ Date[s.txn] <= p.end
  BY <1>1, <1>2, <1>4 DEF SplitRows, In
<1>6. F \subseteq T0 /\ IsFiniteSet(F)
  BY <1>3, FiltersSpend
<1>7. Q \subseteq F /\ Q \subseteq T0 /\ \A r \in T0 : r \in Q <=> r.txn \in U
  BY <1>3, <1>6 DEF SpendFilters, In
<1> HIDE DEF T, T0, F, Q, R
<1>8. IsFiniteSet(Q) /\ Amounted(Q)
  BY <1>3, <1>6, <1>7, FS_Subset DEF Amounted
<1>9. IsFiniteSet(R) /\ Amounted(R)
  BY <1>1, <1>5, FS_Subset DEF Amounted
<1>10. U \subseteq split /\ IsFiniteSet(U)
  BY <1>4, FS_Subset
<1> DEFINE qkey == [r \in Q |-> r.txn]
           rkey == [s \in R |-> s.txn]
           qg == Groups(Q, qkey)
           rg == Groups(R, rkey)
           h == [t \in U |-> -Amount[t]]
<1>11. ASSUME NEW t \in U
       PROVE  At(qg, t) = -Amount[t] /\ At(rg, t) = -Amount[t]
  <2>0. t \in Txn /\ t \in split /\ t \in s0 /\ Amount[t] \in Int /\ Amount[t] < 0
    BY <1>4, SpendingAssumption
  <2>1. PICK r \in Q : r.txn = t /\ {x \in Q : qkey[x] = t} = {r}
    <3>1. PICK r \in T0 : r.txn = t
      BY <1>3, <2>0
    <3>2. r \in Q /\ \A x \in Q : qkey[x] = t <=> x = r
      BY <1>3, <1>7, <3>1
    <3>3. QED
      BY <3>1, <3>2
  <2>2. r.amount = Amount[t]
    BY <1>3, <1>7, <2>1
  <2>3. At(qg, t) = Spend({x \in Q : qkey[x] = t})
    BY GroupAt
  <2>4. Spend({r}) = -Amount[t]
    BY <2>0, <2>2, TotalOne DEF Spend
  <2>5. At(qg, t) = -Amount[t]
    BY <2>1, <2>3, <2>4, Zenon
  <2> DEFINE N == {x \in RowsOf(t) : x.amount < 0}
  <2>6. {x \in R : rkey[x] = t} = N
    BY <1>1, <1>5, <2>0
  <2>7. Total(N) = Amount[t]
    BY <1>1, <2>0, ExactRows
  <2>8. At(rg, t) = Spend({x \in R : rkey[x] = t})
    BY GroupAt
  <2> HIDE DEF N
  <2>9. At(rg, t) = Spend(N)
    BY <2>6, <2>8, Zenon
  <2>10. QED
    BY <2>5, <2>7, <2>9 DEF Spend
<1>12. DOMAIN qg \subseteq U
  BY <1>7 DEF Groups
<1>13. DOMAIN rg \subseteq U
  <2> SUFFICES ASSUME NEW s \in R
               PROVE  s.txn \in U
    BY DEF Groups
  <2>1. s \in Splits /\ s.txn \in split /\ s.txn \in Txn /\ s.amount < 0 /\ s \in RowsOf(s.txn)
    BY <1>1, <1>4, <1>5
  <2>2. Amount[s.txn] < 0
    BY <2>1 DEF Exact
  <2>3. QED
    BY <1>5, <2>1, <2>2
<1>14. /\ IsFiniteSet(DOMAIN qg) /\ \A t \in DOMAIN qg : qg[t] \in Int
       /\ SumFunctionOnSet(qg, DOMAIN qg) = Spend(Q)
  BY <1>8, GroupsAddUp
<1>15. /\ IsFiniteSet(DOMAIN rg) /\ \A t \in DOMAIN rg : rg[t] \in Int
       /\ SumFunctionOnSet(rg, DOMAIN rg) = Spend(R)
  BY <1>9, GroupsAddUp
<1>16. \A t \in U : h[t] \in Int /\ h[t] = -Amount[t]
  BY <1>4, <1>10, SpendingAssumption
<1>17. ASSUME NEW g, DOMAIN g \subseteq U, \A t \in U : At(g, t) = h[t]
       PROVE  SumFunctionOnSet(g, DOMAIN g) = SumFunctionOnSet(h, U)
  <2>1. \A t \in DOMAIN g : g[t] = h[t] /\ h[t] \in Int
    BY <1>16, <1>17 DEF At
  <2>2. \A t \in U \ DOMAIN g : h[t] = 0
    BY <1>17 DEF At
  <2>3. IsFiniteSet(DOMAIN g)
    BY <1>10, <1>17, FS_Subset
  <2> HIDE DEF U, h
  <2>4. SumFunctionOnSet(h, U) = SumFunctionOnSet(h, DOMAIN g)
    BY <1>10, <1>17, <2>1, <2>2, SumOverMore
  <2>5. SumFunctionOnSet(g, DOMAIN g) = SumFunctionOnSet(h, DOMAIN g)
    BY <2>1, <2>3, SumSame
  <2>6. QED
    BY <2>4, <2>5
<1>18. (\A t \in U : At(qg, t) = h[t]) /\ (\A t \in U : At(rg, t) = h[t])
  BY <1>11, <1>16
<1> HIDE DEF qg, rg, h, U
<1>19. Spend(R) = Spend(Q)
  BY <1>12, <1>13, <1>14, <1>15, <1>17, <1>18
<1>20. QED
  BY <1>19 DEF R, Q, T, T0, F

-----------------------------------------------------------------------------
(* The inductive invariant behind DashboardAgrees: there is a table that   *)
(* the first SELECT of the view saw, and the splits it excluded are still  *)
(* those of now.                                                           *)

ViewShape ==
    view = [open |-> view.open, period |-> view.period, plain |-> view.plain,
            moved |-> view.moved, answer |-> view.answer, exact |-> view.exact]

Saw(s0, k0, m0) ==
    /\ s0 \in SUBSET Txn /\ IsFiniteSet(s0) /\ split \subseteq s0
    /\ view.plain = ByCategory(PlainRows(Table(s0, k0, m0), Splits, view.period))
    /\ view.answer = ByCategory(SpendFilters(Table(s0, k0, m0), view.period, AnyCategory))
    /\ \A t \in split : Exact(t) /\ k0[t] = NoCategory

VInv ==
    /\ ViewShape
    /\ view.open /\ ~view.moved /\ view.exact => \E s0, k0, m0 : Saw(s0, k0, m0)

(* A grouping adds up to the same over more keys than it has groups.       *)
LEMMA AtOverMore ==
    ASSUME NEW W, IsFiniteSet(W), NEW g, DOMAIN g \subseteq W, \A c \in DOMAIN g : g[c] \in Int
    PROVE  SumFunctionOnSet([c \in W |-> At(g, c)], W) = SumFunctionOnSet(g, DOMAIN g)
<1> DEFINE D == DOMAIN g
           a == [c \in W |-> At(g, c)]
<1>1. IsFiniteSet(D) /\ D \subseteq W
  BY FS_Subset
<1>2. \A c \in D : a[c] = g[c] /\ a[c] \in Int
  BY DEF At
<1>3. \A c \in W \ D : a[c] = 0
  BY DEF At
<1> HIDE DEF D, a
<1>4. SumFunctionOnSet(a, W) = SumFunctionOnSet(a, D)
  BY <1>1, <1>2, <1>3, SumOverMore
<1>5. SumFunctionOnSet(a, D) = SumFunctionOnSet(g, D)
  BY <1>1, <1>2, SumSame
<1>6. QED
  BY <1>4, <1>5 DEF a, D

(* Two groupings side by side add up to both.                              *)
LEMMA ShownAddsUp ==
    ASSUME NEW g, IsFiniteSet(DOMAIN g), \A c \in DOMAIN g : g[c] \in Int,
           NEW h, IsFiniteSet(DOMAIN h), \A c \in DOMAIN h : h[c] \in Int
    PROVE  SumFunction(SpendingByCategory(g, h))
               = SumFunctionOnSet(g, DOMAIN g) + SumFunctionOnSet(h, DOMAIN h)
<1> DEFINE W == DOMAIN g \cup DOMAIN h
           a == [c \in W |-> At(g, c)]
           b == [c \in W |-> At(h, c)]
           both == [c \in W |-> At(g, c) + At(h, c)]
<1>1. IsFiniteSet(W)
  BY FS_Union
<1>2. \A c \in W : a[c] \in Int /\ b[c] \in Int /\ both[c] = a[c] + b[c]
  BY DEF At
<1>3. /\ SumFunctionOnSet(a, W) = SumFunctionOnSet(g, DOMAIN g)
      /\ SumFunctionOnSet(b, W) = SumFunctionOnSet(h, DOMAIN h)
  <2>1. DOMAIN g \subseteq W /\ DOMAIN h \subseteq W
    OBVIOUS
  <2> HIDE DEF W
  <2> QED BY <1>1, <2>1, AtOverMore
<1>4. SumFunction(SpendingByCategory(g, h)) = SumFunctionOnSet(both, W)
  <2>1. DOMAIN both = W /\ SpendingByCategory(g, h) = both
    BY DEF SpendingByCategory
  <2> HIDE DEF both, W
  <2>2. SumFunction(both) = SumFunctionOnSet(both, DOMAIN both)
    BY SumFunctionIs
  <2>3. QED
    BY <2>1, <2>2, Zenon
<1> HIDE DEF W, a, b, both
<1>5. SumFunctionOnSet(both, W) = SumFunctionOnSet(a, W) + SumFunctionOnSet(b, W)
  BY <1>1, <1>2, SumPlus
<1>6. QED
  BY <1>3, <1>4, <1>5

(* The categories of negative rows.                                        *)
LEMMA CategoriesOf ==
    ASSUME NEW R, IsFiniteSet(R), Negative(R)
    PROVE  LET g == ByCategory(R)
           IN  /\ IsFiniteSet(DOMAIN g) /\ \A c \in DOMAIN g : g[c] \in Int
               /\ SumFunctionOnSet(g, DOMAIN g) = Spend(R)
               /\ \A c : /\ At(g, c) = Spend({r \in R : r.category = c})
                         /\ At(g, c) \in Nat
<1> DEFINE key == [r \in R |-> r.category]
           g == Groups(R, key)
<1>1. ByCategory(R) = g
  BY CategoryGroups
<1>2. Amounted(R)
  BY SpendNatural
<1>3. /\ IsFiniteSet(DOMAIN g) /\ \A c \in DOMAIN g : g[c] \in Int
      /\ SumFunctionOnSet(g, DOMAIN g) = Spend(R)
  <2> HIDE DEF key
  <2> QED BY <1>2, GroupsAddUp
<1>4. \A c \in DOMAIN g : g[c] \in Nat
  <2> HIDE DEF key
  <2> QED BY GroupsNatural
<1>5. ASSUME NEW c
      PROVE  At(g, c) = Spend({r \in R : r.category = c}) /\ At(g, c) \in Nat
  <2>1. {r \in R : key[r] = c} = {r \in R : r.category = c}
    OBVIOUS
  <2> HIDE DEF key
  <2>2. At(g, c) = Spend({r \in R : key[r] = c})
    BY GroupAt
  <2> HIDE DEF g
  <2>3. At(g, c) = Spend({r \in R : r.category = c})
    BY <2>1, <2>2, Zenon
  <2>4. At(g, c) \in Nat
    BY <1>4 DEF At
  <2>5. QED
    BY <2>3, <2>4
<1> HIDE DEF g
<1>6. QED
  BY <1>1, <1>3, <1>5

(* What the view is about to show agrees with what the templates would     *)
(* have answered at its first SELECT.                                      *)
LEMMA ShownAgrees ==
    ASSUME TypeOK, OneBatch, AllocRows, BatchesClose, StoredFinite, VInv,
           view.open, ~view.moved, view.exact
    PROVE  /\ SumFunction(Shown) = SumFunction(view.answer)
           /\ \A c \in Category : At(view.answer, c) <= At(Shown, c)
<1>1. PICK s0, k0, m0 : Saw(s0, k0, m0)
  BY DEF VInv
<1> DEFINE T0 == Table(s0, k0, m0)
           P == PlainRows(T0, Splits, view.period)
           F == SpendFilters(T0, view.period, AnyCategory)
           Q == {r \in F : r.txn \in split}
           R == SplitRows(Transactions, Splits, view.period)
           g == view.plain
           h == ByCategory(R)
<1>2. /\ s0 \in SUBSET Txn /\ IsFiniteSet(s0) /\ split \subseteq s0
      /\ g = ByCategory(P) /\ view.answer = ByCategory(F)
      /\ \A t \in split : Exact(t) /\ k0[t] = NoCategory
  BY <1>1 DEF Saw
<1>3. IsFiniteSet(T0) /\ Amounted(T0) /\ \A r \in T0 : r.category = k0[r.txn]
  BY <1>2, TableOK
<1>4. /\ IsFiniteSet(Splits) /\ Amounted(Splits) /\ SplitIds(Splits) = split
  BY SplitsOfTransactions
<1>5. Spend(R) = Spend(Q)
  BY <1>2, SplitsForTransactions
<1>6. IsFiniteSet(R) /\ Negative(R)
  <2>1. R \subseteq Splits /\ Negative(R)
    BY <1>4 DEF SplitRows, Negative, Amounted
  <2> HIDE DEF R
  <2>2. QED
    BY <1>4, <2>1, FS_Subset
<1>7. F \subseteq T0 /\ IsFiniteSet(F) /\ Negative(F)
  BY <1>3, FiltersSpend
<1>8. P \cup Q = F /\ P \cap Q = {} /\ \A r \in F : r \in P <=> r.txn \notin split
  BY <1>4 DEF PlainRows, SpendFilters
<1>9. Shown = SpendingByCategory(g, h)
  BY DEF Shown
<1> HIDE DEF T0, P, F, R
<1>10. IsFiniteSet(P) /\ IsFiniteSet(Q) /\ Negative(P) /\ Negative(Q)
  BY <1>7, <1>8, FS_Subset DEF Negative
<1> HIDE DEF Q
<1>11. /\ IsFiniteSet(DOMAIN g) /\ \A c \in DOMAIN g : g[c] \in Int
       /\ SumFunctionOnSet(g, DOMAIN g) = Spend(P)
       /\ \A c : At(g, c) = Spend({r \in P : r.category = c}) /\ At(g, c) \in Nat
  BY <1>2, <1>10, CategoriesOf
<1>12. /\ IsFiniteSet(DOMAIN h) /\ \A c \in DOMAIN h : h[c] \in Int
       /\ SumFunctionOnSet(h, DOMAIN h) = Spend(R)
       /\ \A c : At(h, c) \in Nat
  BY <1>6, CategoriesOf
<1>13. /\ SumFunctionOnSet(view.answer, DOMAIN view.answer) = Spend(F)
       /\ \A c : At(view.answer, c) = Spend({r \in F : r.category = c})
  BY <1>2, <1>7, CategoriesOf
<1> HIDE DEF g, h
<1>14. SumFunction(Shown) = SumFunction(view.answer)
  <2>1. SumFunction(SpendingByCategory(g, h)) = Spend(P) + Spend(R)
    BY <1>11, <1>12, ShownAddsUp
  <2>2. SumFunction(view.answer) = Spend(F)
    BY <1>13, SumFunctionIs
  <2>3. Amounted(P) /\ Amounted(Q)
    BY <1>10, SpendNatural
  <2>4. Total(P \cup Q) = Total(P) + Total(Q) /\ Total(P) \in Int /\ Total(Q) \in Int
    BY <1>8, <1>10, <2>3, TotalDisjoint, TotalType
  <2>5. Total(F) = Total(P) + Total(Q)
    BY <1>8, <2>4, Zenon
  <2>6. Spend(F) = Spend(P) + Spend(Q)
    BY <2>4, <2>5 DEF Spend
  <2>7. SumFunction(Shown) = Spend(P) + Spend(R)
    BY <1>9, <2>1, Zenon
  <2>8. QED
    BY <1>5, <2>2, <2>6, <2>7
<1>15. ASSUME NEW c \in Category
       PROVE  At(view.answer, c) <= At(Shown, c)
  <2>1. \A r \in F : r.category = c => r.txn \notin split
    BY <1>2, <1>3, <1>7, CategorizationAssumption
  <2>2. {r \in F : r.category = c} = {r \in P : r.category = c}
    BY <1>8, <2>1
  <2>3. At(view.answer, c) = At(g, c)
    BY <1>11, <1>13, <2>2, Zenon
  <2>4. At(g, c) \in Nat /\ At(h, c) \in Nat
    BY <1>11, <1>12
  <2>5. CASE c \in DOMAIN g \cup DOMAIN h
    <3>1. At(Shown, c) = At(g, c) + At(h, c)
      BY <1>9, <2>5 DEF SpendingByCategory, At
    <3>2. QED
      BY <2>3, <2>4, <3>1
  <2>6. CASE c \notin DOMAIN g \cup DOMAIN h
    <3>1. At(Shown, c) = 0 /\ At(g, c) = 0
      BY <1>9, <2>6 DEF SpendingByCategory, At
    <3>2. QED
      BY <2>3, <3>1
  <2>7. QED
    BY <2>5, <2>6
<1>16. QED
  BY <1>14, <1>15

-----------------------------------------------------------------------------

(* No view is open at first.                                               *)
LEMMA InitVInv == SpendingInit => VInv
BY DEF SpendingInit, Closed, VInv, ViewShape

(* A step that leaves the splits and the view alone leaves what it saw.    *)
LEMMA QuietVInv ==
    ASSUME VInv, view' = view, split' = split, alloc' = alloc
    PROVE  VInv'
<1>1. Splits' = Splits /\ \A t : Exact(t) <=> Exact(t)'
  BY DEF Splits, RowsOf, Exact
<1>2. ASSUME NEW s0, NEW k0, NEW m0, Saw(s0, k0, m0)
      PROVE  Saw(s0, k0, m0)'
  BY <1>1, <1>2 DEF Saw, Table
<1>3. QED
  BY <1>2 DEF VInv, ViewShape

(* A split that comes or goes marks the view.                              *)
LEMMA MovedVInv ==
    ASSUME VInv, Moved
    PROVE  VInv'
<1>1. view' = [open |-> view.open, period |-> view.period, plain |-> view.plain,
               moved |-> view.open, answer |-> view.answer, exact |-> view.exact]
  BY DEF VInv, ViewShape, Moved
<1>2. view'.open = view.open /\ view'.moved = view.open
  BY <1>1
<1>3. ViewShape'
  BY <1>1 DEF ViewShape
<1>4. QED
  BY <1>2, <1>3 DEF VInv

(* A view that opens sees the table and the splits of now.                 *)
LEMMA ViewPlainVInv ==
    ASSUME TypeOK, OneBatch, AllocRows, BatchesClose, StoredFinite,
           NEW period \in Period, ViewPlain(period)
    PROVE  VInv'
<1> DEFINE plain == ByCategory(PlainRows(Transactions, Splits, period))
           answer == ByCategory(SpendFilters(Transactions, period, AnyCategory))
           exact == \A t \in split : Exact(t) /\ cell[t].category = NoCategory
<1>1. /\ view' = [open |-> TRUE, period |-> period, moved |-> FALSE, plain |-> plain,
                  answer |-> answer, exact |-> exact]
      /\ UNCHANGED <<stored, cell, split, alloc>>
  BY DEF ViewPlain, vars
<1> DEFINE k == [t \in stored |-> cell[t].category]
           m == [t \in stored |-> IF Named(t) THEN NormalizedMerchant(t) ELSE NoMerchant]
<1>2. Transactions = Table(stored, k, m)
  BY TransactionsTable
<1>3. Splits' = Splits /\ \A t : Exact(t) <=> Exact(t)'
  BY <1>1 DEF Splits, RowsOf, Exact
<1>4. stored \in SUBSET Txn /\ IsFiniteSet(stored) /\ split \subseteq stored
  BY DEF TypeOK, StoredFinite
<1>5. \A t \in split : k[t] = cell[t].category
  BY <1>4
<1> HIDE DEF k, m
<1>6. plain = ByCategory(PlainRows(Table(stored, k, m), Splits, period))
  BY <1>2, Zenon
<1>7. answer = ByCategory(SpendFilters(Table(stored, k, m), period, AnyCategory))
  BY <1>2, Zenon
<1> HIDE DEF plain, answer
<1>8. ViewShape'
  BY <1>1 DEF ViewShape
<1>9. ASSUME exact
      PROVE  \E s0, k0, m0 : Saw(s0, k0, m0)'
  <2>1. view'.plain = plain /\ view'.answer = answer /\ view'.period = period
    BY <1>1
  <2>2. view'.plain = ByCategory(PlainRows(Table(stored, k, m), Splits', view'.period))
    BY <1>3, <1>6, <2>1
  <2>3. view'.answer = ByCategory(SpendFilters(Table(stored, k, m), view'.period, AnyCategory))
    BY <1>7, <2>1
  <2>4. PICK s0, k0, m0 : s0 = stored /\ k0 = k /\ m0 = m
    OBVIOUS
  <2>5. Saw(s0, k0, m0)'
    BY <1>1, <1>3, <1>4, <1>5, <1>9, <2>2, <2>3, <2>4 DEF Saw, Table
  <2>6. QED
    BY <2>5
<1>10. view'.exact => exact
  BY <1>1
<1>11. QED
  BY <1>8, <1>9, <1>10 DEF VInv

(* Step by step.                                                           *)
LEMMA NextVInv ==
    ASSUME TypeOK, OneBatch, AllocRows, BatchesClose, StoredFinite, VInv,
           [SpendingNext]_spendingVars
    PROVE  VInv'
<1>1. CASE UNCHANGED spendingVars
  BY <1>1, QuietVInv DEF spendingVars, vars
<1>2. CASE SpendingNext
  <2>1. ASSUME NEW p \in Process, Work(p), UNCHANGED <<alloc, request, view>>
        PROVE  VInv'
    BY <2>1, WorkKeepsSplits, QuietVInv
  <2>2. ASSUME NEW p \in Process, NEW t \in Txn, NEW splits \in Allocation[t],
               SplitSelect(p, t, splits)
        PROVE  VInv'
    BY <2>2, QuietVInv DEF SplitSelect, Split
  <2>3. ASSUME NEW p \in Process, SplitDelete(p)
        PROVE  VInv'
    BY <2>3, QuietVInv DEF SplitDelete, vars
  <2>4. ASSUME NEW p \in Process, SplitStore(p)
        PROVE  VInv'
    BY <2>4, MovedVInv DEF SplitStore
  <2>5. ASSUME NEW t \in Txn, Remove(t)
        PROVE  VInv'
    BY <2>5, MovedVInv DEF Remove
  <2>6. ASSUME NEW period \in Period, ViewPlain(period)
        PROVE  VInv'
    BY <2>6, ViewPlainVInv
  <2>7. ASSUME ViewSplits
        PROVE  VInv'
    BY <2>7 DEF ViewSplits, Closed, VInv, ViewShape
  <2>8. QED
    BY <1>2, <2>1, <2>2, <2>3, <2>4, <2>5, <2>6, <2>7 DEF SpendingNext
<1>3. QED
  BY <1>1, <1>2

(* The view and the templates agree, for any transactions, splits, amounts *)
(* and periods, and whatever else is uploaded or categorized between the   *)
(* view's two SELECTs (transaction_service.py:200-227).                    *)
THEOREM ViewAgrees == SpendingSpec => DashboardAgrees
<1> DEFINE Base == TypeOK /\ OneBatch /\ AllocRows /\ BatchesClose /\ StoredFinite
           Agrees == view.open /\ ~view.moved /\ view.exact =>
                        /\ SumFunction(Shown) = SumFunction(view.answer)
                        /\ \A c \in Category : At(view.answer, c) <= At(Shown, c)
<1>1. SpendingSpec => [](TypeOK /\ SInv)
  BY InitSInv, NextSInv, CategorizationHolds, PTL DEF SpendingSpec
<1>2. SpendingSpec => []AInv
  BY <1>1, InitAInv, NextAInv, PTL DEF SpendingSpec
<1>3. SpendingSpec => []StoredFinite
  BY InitStoredFinite, NextStoredFinite, PTL DEF SpendingSpec
<1>4. TypeOK /\ SInv /\ AInv /\ StoredFinite => Base
  BY DEF SInv, AInv
<1>5. Base /\ VInv /\ [SpendingNext]_spendingVars => VInv'
  BY NextVInv
<1>6. Base /\ VInv => Agrees
  BY ShownAgrees
<1> HIDE DEF Base
<1>7. SpendingSpec => [](Base /\ VInv)
  BY <1>1, <1>2, <1>3, <1>4, <1>5, InitVInv, PTL DEF SpendingSpec
<1>8. Agrees => [view.open /\ ~view'.open /\ ~view.moved /\ view.exact =>
                    /\ SumFunction(Shown) = SumFunction(view.answer)
                    /\ \A c \in Category : At(view.answer, c) <= At(Shown, c)]_view
  OBVIOUS
<1> HIDE DEF Agrees
<1>9. QED
  BY <1>6, <1>7, <1>8, PTL DEF DashboardAgrees

-----------------------------------------------------------------------------
(* The inductive invariant behind CorrectionsKept: what a request has read *)
(* of a transaction or a merchant that it alone has in hand is what the    *)
(* tables hold; and a merchant that qualifies for promotion has no lookup  *)
(* row, and a job that will promote it.                                    *)

(* What a request knows of a transaction in its hands, ...                 *)
Loads(r, t) ==
    t \in r.txns /\ r.pc \in {"apply", "ask", "recategorize", "upsert", "split"} =>
        r.loaded[t] = cell[t]

(* ... and of a merchant.                                                  *)
Knows(r, m) ==
    /\ r.pc \in {"match", "apply", "tier3", "ask", "upsert"} =>
          \A t \in r.txns : MerchantOf[t] = m => r.known[m] = lookup[m]
    /\ r.pc \in {"tier2", "match", "apply", "tier3", "ask"} =>
          \A t \in r.txns : MerchantOf[t] = m => t \notin undone
    /\ m \in Promoting(r) => lookup[m] = NoEntry
    /\ r.rows[m] # {} => r.rows[m] = Unpromoted(m)

Shaped(r) ==
    r.pc \notin {"decisions", "entry"} => r.groups = {} /\ \A m \in Merchant : r.rows[m] = {}

Corrected(m) ==
    \A t \in Txn :
        MerchantOf[t] = m /\ HasMerchant(t) /\ cell[t].method = "manual_user_correction" =>
            lookup[m].match_type = "user_correction"

KInv ==
    /\ \A p \in Process : Shaped(proc[p])
    /\ \A t \in Txn \ Crossed :
          CategoryHasMethod(t) /\ \A p \in Process : Loads(proc[p], t)
    /\ \A m \in Merchant \ contested :
          /\ Corrected(m)
          /\ \A p \in Process : Knows(proc[p], m)
          /\ m \in Qualifying => \E p \in Process : m \in Promoting(proc[p])
          /\ ~Several({p \in Process : m \in InHand(proc[p])})

(* A merchant that qualifies has decisions that are not promoted.          *)
LEMMA NoneQualify ==
    ASSUME NEW m \in Qualifying
    PROVE  m \in Merchant /\ Unpromoted(m) # {}
<1>1. m \in Merchant /\ Cardinality({log[m][i].category : i \in Unpromoted(m)}) = 1
  BY DEF Qualifying
<1>2. CASE Unpromoted(m) = {}
  <2>1. {log[m][i].category : i \in Unpromoted(m)} = {}
    BY <1>2
  <2>2. Cardinality({}) = 0
    BY FS_EmptySet
  <2>3. QED
    BY <1>1, <2>1, <2>2
<1>3. QED
  BY <1>1, <1>2

LEMMA InitKInv == SpendingInit => KInv
<1> SUFFICES ASSUME SpendingInit
             PROVE  KInv
  OBVIOUS
<1>1. /\ \A t \in Txn : cell[t] = Unresolved
      /\ \A m \in Merchant : log[m] = << >>
      /\ \A p \in Process : proc[p] = Idle
  BY DEF SpendingInit, Init
<1>2. /\ Idle.pc = "idle" /\ Idle.txns = {} /\ Idle.groups = {}
      /\ \A m \in Merchant : Idle.rows[m] = {}
  BY DEF Idle
<1>3. \A m \in Merchant : Unpromoted(m) = {}
  BY <1>1 DEF Unpromoted
<1>4. Qualifying = {}
  BY <1>3, NoneQualify
<1>5. Promoting(Idle) = {} /\ InHand(Idle) = {}
  BY <1>2 DEF Promoting, InHand
<1>6. \A t \in Txn : CategoryHasMethod(t) /\ Loads(Idle, t)
  BY <1>1, <1>2 DEF CategoryHasMethod, Unresolved, Loads
<1>7. \A m \in Merchant : Corrected(m) /\ Knows(Idle, m)
  BY <1>1, <1>2, <1>5 DEF Corrected, Knows, Unresolved
<1>8. Shaped(Idle)
  BY <1>2 DEF Shaped
<1>9. QED
  BY <1>1, <1>4, <1>5, <1>6, <1>7, <1>8 DEF KInv, Several

(* A step of p keeps KInv if it writes only what p has in hand, and leaves *)
(* p with what it should know: of a transaction or merchant that p alone   *)
(* had in hand, the others know nothing that could become stale.           *)
LEMMA OthersKnow ==
    ASSUME IInv, KInv, OneHolder, Meet, NEW p \in Process, NEW r,
           proc' = [proc EXCEPT ![p] = r], Shaped(r),
           \A t \in Txn : cell'[t] # cell[t] => t \in proc[p].txns,
           \A t \in Txn : t \in undone' => t \in undone \/ t \in proc[p].txns,
           \A t \in Txn \ Crossed : CategoryHasMethod(t)' /\ Loads(r, t)',
           \A m \in Merchant : \/ m \in InHand(proc[p])
                               \/ lookup'[m] = lookup[m] /\ Unpromoted(m)' = Unpromoted(m),
           \A m \in Merchant \ contested : Corrected(m)' /\ Knows(r, m)',
           \A m \in Merchant \ (contested \cup Dropped) : m \in Qualifying' =>
              m \in Promoting(r)' \/ (m \in Qualifying /\ m \notin Promoting(proc[p]))
    PROVE  KInv'
<1>1. /\ Crossed \subseteq Crossed' /\ contested \subseteq contested' /\ Dropped \subseteq contested'
      /\ \A m \in Merchant \ contested' :
            ~Several({q \in Process : m \in InHand(proc[q])})'
  BY MeetHolds
<1>2. proc'[p] = r /\ \A q \in Process \ {p} : proc'[q] = proc[q]
  BY DEF IInv, TypeOK
<1>3. \A q \in Process : Shaped(proc[q])'
  BY <1>2 DEF KInv, Shaped
<1>4. ASSUME NEW t \in Txn, t \notin Crossed', NEW q \in Process
      PROVE  Loads(proc[q], t)'
  <2>1. CASE q = p
    BY <1>1, <1>2, <1>4, <2>1 DEF Loads
  <2>2. CASE q # p
    <3>1. t \notin Crossed /\ Loads(proc[q], t)
      BY <1>1, <1>4 DEF KInv
    <3>2. t \in proc[q].txns => cell'[t] = cell[t]
      BY <2>2, <3>1 DEF OneHolder, Several
    <3>3. QED
      BY <1>2, <2>2, <3>1, <3>2 DEF Loads
  <2>3. QED
    BY <2>1, <2>2
<1>5. ASSUME NEW m \in Merchant, m \notin contested', NEW q \in Process \ {p}
      PROVE  Knows(proc[q], m)'
  <2>1. m \notin contested /\ m \notin Dropped /\ Knows(proc[q], m)
    BY <1>1, <1>5 DEF KInv
  <2>2. m \in InHand(proc[q]) =>
           m \notin InHand(proc[p]) /\ lookup'[m] = lookup[m] /\ Unpromoted(m)' = Unpromoted(m)
    BY <2>1 DEF KInv, Several
  <2>3. \A t \in proc[q].txns : MerchantOf[t] = m =>
           /\ m \in InHand(proc[q]) /\ t \in Txn
           /\ t \in undone' => t \in undone
    <3>1. ASSUME NEW t \in proc[q].txns, MerchantOf[t] = m
          PROVE  m \in InHand(proc[q]) /\ t \in Txn
      BY <3>1 DEF InHand, IInv, TypeOK, Proc
    <3>2. ASSUME NEW t \in proc[q].txns, MerchantOf[t] = m
          PROVE  t \notin proc[p].txns
      BY <2>2, <3>1, <3>2 DEF InHand
    <3>3. QED
      BY <3>1, <3>2
  <2>4. proc[q].rows[m] # {} => m \in InHand(proc[q])
    BY DEF KInv, Shaped, InHand, Promoting
  <2>5. ASSUME m \in Promoting(proc[q])'
        PROVE  lookup'[m] = NoEntry
    <3>1. CASE m \in Promoting(r)'
      BY <2>1, <3>1 DEF Knows
    <3>2. CASE m \notin Promoting(r)'
      <4>1. m \in Promoting(proc[q])
        BY <1>2, <2>1, <2>5, <3>2 DEF Promoting
      <4>2. QED
        BY <2>1, <2>2, <4>1 DEF Knows, InHand
    <3>3. QED
      BY <3>1, <3>2
  <2>6. QED
    BY <1>2, <2>1, <2>2, <2>3, <2>4, <2>5 DEF Knows
<1>6. ASSUME NEW m \in Merchant, m \notin contested', m \in Qualifying'
      PROVE  \E q \in Process : m \in Promoting(proc[q])'
  <2>1. m \notin contested /\ m \notin Dropped
    BY <1>1, <1>6
  <2>2. CASE m \in Promoting(r)'
    BY <1>2, <2>2 DEF Promoting
  <2>3. CASE m \in Qualifying /\ m \notin Promoting(proc[p])
    <3>1. PICK q \in Process : m \in Promoting(proc[q])
      BY <2>1, <2>3 DEF KInv
    <3>2. q # p /\ proc'[q] = proc[q]
      BY <1>2, <2>3, <3>1
    <3>3. m \in Promoting(proc[q])'
      BY <1>6, <3>1, <3>2 DEF Promoting
    <3>4. QED
      BY <3>3
  <2>4. QED
    BY <1>6, <2>1, <2>2, <2>3
<1>7. ASSUME NEW m \in Merchant, m \notin contested'
      PROVE  /\ Corrected(m)'
             /\ \A q \in Process : Knows(proc[q], m)'
  <2>1. Corrected(m)' /\ Knows(r, m)'
    BY <1>1, <1>7
  <2>2. Knows(proc[p], m)'
    BY <1>2, <2>1 DEF Knows, Promoting
  <2>3. QED
    BY <1>5, <1>7, <2>1, <2>2
<1>8. QED
  BY <1>1, <1>3, <1>4, <1>6, <1>7 DEF KInv

(* A step that only reads.                                                 *)
LEMMA Reads ==
    ASSUME IInv, KInv, OneHolder, Meet, NEW p \in Process, NEW r,
           proc' = [proc EXCEPT ![p] = r], UNCHANGED <<cell, lookup, log, undone>>,
           Shaped(r),
           \A t \in Txn \ Crossed : Loads(r, t),
           \A m \in Merchant \ contested : Knows(r, m),
           \A m \in Merchant : m \in Promoting(proc[p]) => m \in Promoting(r) \/ m \in Dropped
    PROVE  KInv'
<1>1. Qualifying' = Qualifying /\ \A m \in Merchant : Unpromoted(m)' = Unpromoted(m)
  BY DEF Qualifying, Unpromoted
<1>2. Promoting(r)' = Promoting(r)
  BY <1>1 DEF Promoting
<1>3. \A t \in Txn \ Crossed : CategoryHasMethod(t)' /\ Loads(r, t)'
  BY DEF KInv, CategoryHasMethod, Loads
<1>4. \A m \in Merchant \ contested : Corrected(m)' /\ Knows(r, m)'
  BY <1>1, <1>2 DEF KInv, Corrected, Knows
<1>5. \A m \in Merchant : m \in Qualifying' =>
         \/ m \in Dropped \/ m \in Promoting(r)'
         \/ m \in Qualifying /\ m \notin Promoting(proc[p])
  BY <1>1, <1>2
<1>6. QED
  BY <1>1, <1>3, <1>4, <1>5, OthersKnow

(* A request that has ended.                                               *)
LEMMA NothingInHand ==
    /\ Shaped(Idle) /\ Promoting(Idle) = {} /\ Promoting(Idle)' = {}
    /\ \A t \in Txn : Loads(Idle, t) /\ Loads(Idle, t)'
    /\ \A m \in Merchant : Knows(Idle, m) /\ Knows(Idle, m)'
<1>1. /\ Idle.pc = "idle" /\ Idle.txns = {} /\ Idle.groups = {}
      /\ \A m \in Merchant : Idle.rows[m] = {}
  BY DEF Idle
<1>2. Shaped(Idle) /\ Promoting(Idle) = {} /\ Promoting(Idle)' = {}
  BY <1>1 DEF Shaped, Promoting
<1>3. \A t \in Txn : Loads(Idle, t) /\ Loads(Idle, t)'
  BY <1>1 DEF Loads
<1>4. \A m \in Merchant : Knows(Idle, m) /\ Knows(Idle, m)'
  BY <1>1, <1>2 DEF Knows
<1>5. QED
  BY <1>2, <1>3, <1>4

(* A request that ends without having written anything.                    *)
LEMMA Ends ==
    ASSUME IInv, KInv, OneHolder, Meet, NEW p \in Process, Finish(p),
           UNCHANGED <<cell, lookup, log, undone>>,
           Promoting(proc[p]) \subseteq Dropped
    PROVE  KInv'
BY NothingInHand, Reads DEF Finish

(* A request that is not a promotion job promotes nothing.                 *)
LEMMA NothingToPromote ==
    ASSUME NEW r, Shaped(r), r.pc \notin {"groups", "decisions", "entry"}
    PROVE  Promoting(r) = {}
BY DEF Shaped, Promoting

(* An UPDATE of a row that is as it was loaded leaves what was meant.      *)
LEMMA WriteCurrent ==
    ASSUME NEW now, NEW new, NEW D, now = [c \in D |-> now[c]], new = [c \in D |-> new[c]]
    PROVE  Write(now, now, new) = new
<1>1. DOMAIN now = D
  OBVIOUS
<1>2. Write(now, now, new) = [c \in D |-> IF new[c] = now[c] THEN now[c] ELSE new[c]]
  BY <1>1 DEF Write
<1>3. \A c \in D : (IF new[c] = now[c] THEN now[c] ELSE new[c]) = new[c]
  OBVIOUS
<1>4. QED
  BY <1>2, <1>3

(* ... for a column of transactions,                                       *)
LEMMA WriteCurrentCell ==
    ASSUME NEW now \in Cell, NEW new \in Cell
    PROVE  Write(now, now, new) = new
<1>1. now = [c \in {"category", "method"} |-> now[c]]
  BY DEF Cell
<1>2. new = [c \in {"category", "method"} |-> new[c]]
  BY DEF Cell
<1>3. QED
  BY <1>1, <1>2, WriteCurrent

(* ... and for a row of the lookup.                                        *)
LEMMA WriteCurrentEntry ==
    ASSUME NEW now \in Entry, NEW new \in Entry
    PROVE  Write(now, now, new) = new
<1>1. now = [c \in {"category", "match_type"} |-> now[c]]
  BY DEF Entry
<1>2. new = [c \in {"category", "match_type"} |-> new[c]]
  BY DEF Entry
<1>3. QED
  BY <1>1, <1>2, WriteCurrent

-----------------------------------------------------------------------------
(* Uploads.                                                                *)

(* A request goes on with what it has.                                     *)
LEMMA SameKnows ==
    ASSUME KInv, NEW p \in Process, NEW m \in Merchant \ contested, NEW r,
           proc[p].pc \in {"match", "apply", "tier3"}, r.pc \in {"apply", "tier3", "ask"},
           r.txns \subseteq proc[p].txns, r.known = proc[p].known,
           Shaped(r), Promoting(r) = {}
    PROVE  Knows(r, m)
<1>1. Knows(proc[p], m)
  BY DEF KInv
<1>2. \A t \in r.txns : MerchantOf[t] = m => r.known[m] = lookup[m] /\ t \notin undone
  BY <1>1 DEF Knows
<1>3. r.rows[m] = {}
  BY DEF Shaped
<1>4. QED
  BY <1>2, <1>3 DEF Knows

LEMMA UploadKnows ==
    ASSUME IInv, KInv, OneHolder, Meet, NEW p \in Process, NEW s \in Statement, Upload(p, s)
    PROVE  KInv'
<1>1. PICK T \in SUBSET Txn :
         /\ proc[p].pc = "idle"
         /\ T \cap stored = {}
         /\ proc' = [proc EXCEPT ![p].pc = "tier2", ![p].txns = T]
         /\ UNCHANGED <<cell, lookup, log, undone>>
  BY DEF Upload
<1>2. PICK r : r = [proc[p] EXCEPT !.pc = "tier2", !.txns = T]
  OBVIOUS
<1>3. r.pc = "tier2" /\ r.txns = T /\ r.groups = proc[p].groups /\ r.rows = proc[p].rows
  BY <1>2, Mine DEF Proc
<1>4. proc' = [proc EXCEPT ![p] = r]
  BY <1>1, <1>2 DEF IInv, TypeOK
<1>5. T \cap undone = {}
  BY <1>1 DEF IInv, TypeOK
<1>6. Shaped(r) /\ Shaped(proc[p])
  BY <1>1, <1>3 DEF KInv, Shaped
<1>7. Promoting(r) = {} /\ Promoting(proc[p]) = {}
  BY <1>1, <1>3, <1>6, NothingToPromote
<1>8. \A t \in Txn : Loads(r, t)
  BY <1>3 DEF Loads
<1>9. \A m \in Merchant : Knows(r, m)
  BY <1>3, <1>5, <1>6, <1>7 DEF Knows, Shaped
<1>10. QED
  BY <1>1, <1>4, <1>6, <1>7, <1>8, <1>9, Reads

LEMMA Tier2MatcherKnows ==
    ASSUME IInv, KInv, OneHolder, Meet, NEW p \in Process, Tier2Matcher(p)
    PROVE  KInv'
<1>1. PICK r : r = [proc[p] EXCEPT !.pc = "match", !.known = lookup]
  OBVIOUS
<1>2. /\ r.pc = "match" /\ r.txns = proc[p].txns /\ r.known = lookup
      /\ r.groups = proc[p].groups /\ r.rows = proc[p].rows
  BY <1>1, Mine DEF Proc
<1>3. proc[p].pc = "tier2" /\ proc' = [proc EXCEPT ![p] = r]
  BY <1>1 DEF Tier2Matcher, IInv, TypeOK
<1>4. Shaped(r) /\ Shaped(proc[p])
  BY <1>2, <1>3 DEF KInv, Shaped
<1>5. Promoting(r) = {} /\ Promoting(proc[p]) = {}
  BY <1>2, <1>3, <1>4, NothingToPromote
<1>6. \A t \in Txn : Loads(r, t)
  BY <1>2 DEF Loads
<1>7. ASSUME NEW m \in Merchant \ contested
      PROVE  Knows(r, m)
  <2>1. Knows(proc[p], m)
    BY DEF KInv
  <2>2. r.rows[m] = {}
    BY <1>2, <1>4 DEF Shaped
  <2>3. \A t \in r.txns : MerchantOf[t] = m => t \notin undone
    BY <1>2, <1>3, <2>1 DEF Knows
  <2>4. QED
    BY <1>2, <1>5, <2>2, <2>3 DEF Knows
<1>8. QED
  BY <1>3, <1>4, <1>5, <1>6, <1>7, Reads DEF Tier2Matcher

LEMMA Tier2LoadKnows ==
    ASSUME IInv, KInv, OneHolder, Meet, NEW p \in Process, Tier2Load(p)
    PROVE  KInv'
<1>1. PICK L : L = Rows(proc[p].txns)
  OBVIOUS
<1>2. \A t \in proc[p].txns : L[t] = cell[t]
  BY <1>1, Mine, RowsType
<1>3. PICK r : r = [proc[p] EXCEPT !.pc = "apply", !.loaded = L]
  OBVIOUS
<1>4. /\ r.pc = "apply" /\ r.txns = proc[p].txns /\ r.known = proc[p].known /\ r.loaded = L
      /\ r.groups = proc[p].groups /\ r.rows = proc[p].rows
  BY <1>3, Mine DEF Proc
<1>5. proc[p].pc = "match" /\ proc' = [proc EXCEPT ![p] = r]
  BY <1>1, <1>3 DEF Tier2Load, IInv, TypeOK
<1>6. Shaped(r) /\ Shaped(proc[p])
  BY <1>4, <1>5 DEF KInv, Shaped
<1>7. Promoting(r) = {} /\ Promoting(proc[p]) = {}
  BY <1>4, <1>5, <1>6, NothingToPromote
<1>8. \A t \in Txn : Loads(r, t)
  BY <1>2, <1>4 DEF Loads
<1>9. \A m \in Merchant \ contested : Knows(r, m)
  BY <1>4, <1>5, <1>6, <1>7, SameKnows
<1>10. QED
  BY <1>5, <1>6, <1>7, <1>8, <1>9, Reads DEF Tier2Load

(* No transaction becomes a correction: what the merchants were taught     *)
(* stays in order while the lookup does.                                   *)
LEMMA StillCorrected ==
    ASSUME NEW m, Corrected(m), lookup' = lookup,
           \A t \in Txn : cell'[t].method = "manual_user_correction" =>
               cell[t].method = "manual_user_correction"
    PROVE  Corrected(m)'
BY DEF Corrected

(* A request writes a category with the method of its tier.                *)
LEMMA WritesBoth ==
    ASSUME IInv, KInv, NEW p \in Process, proc[p].pc \in {"apply", "ask"},
           NEW t \in proc[p].txns, NEW c \in Category, NEW method \in {"rule", "llm"},
           cell'[t] = Write(cell[t], proc[p].loaded[t], [category |-> c, method |-> method])
    PROVE  /\ t \notin Crossed => CategoryHasMethod(t)'
           /\ cell'[t].method = "manual_user_correction" =>
                 cell[t].method = "manual_user_correction"
<1>1. PICK new : new = [category |-> c, method |-> method]
  OBVIOUS
<1>2. new \in Cell /\ new.category # NoCategory /\ new.method \in {"rule", "llm"}
  BY <1>1, CategorizationAssumption DEF Cell, Value, Method
<1>3. t \in Txn /\ cell[t] \in Cell /\ proc[p].loaded[t] \in Cell
  BY Mine DEF Proc, TablesOK
<1>4. cell'[t] = Write(cell[t], proc[p].loaded[t], new)
  BY <1>1
<1>5. ASSUME t \notin Crossed
      PROVE  CategoryHasMethod(t)'
  <2>1. proc[p].loaded[t] = cell[t]
    BY <1>3, <1>5 DEF KInv, Loads
  <2>2. cell'[t] = new
    BY <1>2, <1>3, <1>4, <2>1, WriteCurrentCell
  <2>3. QED
    BY <1>2, <2>2 DEF CategoryHasMethod
<1>6. cell'[t].method \in {cell[t].method, new.method}
  BY <1>2, <1>3, <1>4, WriteCell
<1>7. QED
  BY <1>2, <1>5, <1>6

LEMMA Tier2CommitKnows ==
    ASSUME IInv, KInv, OneHolder, Meet, NEW p \in Process, Tier2Commit(p)
    PROVE  KInv'
<1>1. PICK outcome \in [Merchant -> Value] :
         cell' = [t \in Txn |->
              IF t \in proc[p].txns /\ outcome[MerchantOf[t]] # NoCategory
              THEN Write(cell[t], proc[p].loaded[t],
                         [category |-> outcome[MerchantOf[t]], method |-> "rule"])
              ELSE cell[t]]
  BY DEF Tier2Commit
<1>2. proc[p].pc = "apply" /\ UNCHANGED <<lookup, log, undone>>
  BY DEF Tier2Commit
<1>3. PICK r : r = [proc[p] EXCEPT !.pc = "tier3", !.loaded = Idle.loaded]
  OBVIOUS
<1>4. /\ r.pc = "tier3" /\ r.txns = proc[p].txns /\ r.known = proc[p].known
      /\ r.groups = proc[p].groups /\ r.rows = proc[p].rows
  BY <1>3, Mine DEF Proc
<1>5. proc' = [proc EXCEPT ![p] = r]
  BY <1>3 DEF Tier2Commit, IInv, TypeOK
<1>6. Qualifying' = Qualifying /\ \A m \in Merchant : Unpromoted(m)' = Unpromoted(m)
  BY <1>2 DEF Qualifying, Unpromoted
<1>7. Shaped(r) /\ Shaped(proc[p])
  BY <1>2, <1>4 DEF KInv, Shaped
<1>8. Promoting(r) = {} /\ Promoting(r)' = {} /\ Promoting(proc[p]) = {}
  <2>1. Promoting(r) = {} /\ Promoting(proc[p]) = {}
    BY <1>2, <1>4, <1>7, NothingToPromote
  <2>2. QED
    BY <1>6, <2>1 DEF Promoting
<1>9. ASSUME NEW t \in Txn
      PROVE  \/ cell'[t] = cell[t]
             \/ /\ t \in proc[p].txns
                /\ t \notin Crossed => CategoryHasMethod(t)'
                /\ cell'[t].method = "manual_user_correction" =>
                      cell[t].method = "manual_user_correction"
  <2>1. CASE t \in proc[p].txns /\ outcome[MerchantOf[t]] # NoCategory
    <3>1. PICK c \in Category : c = outcome[MerchantOf[t]]
      BY <2>1, CategorizationAssumption DEF Value
    <3>2. cell'[t] = Write(cell[t], proc[p].loaded[t], [category |-> c, method |-> "rule"])
      BY <1>1, <2>1, <3>1
    <3>3. QED
      BY <1>2, <2>1, <3>2, WritesBoth
  <2>2. CASE ~(t \in proc[p].txns /\ outcome[MerchantOf[t]] # NoCategory)
    BY <1>1, <2>2
  <2>3. QED
    BY <2>1, <2>2
<1>10. ASSUME NEW t \in Txn, t \notin Crossed
       PROVE  CategoryHasMethod(t)' /\ Loads(r, t)'
  BY <1>4, <1>9, <1>10 DEF KInv, CategoryHasMethod, Loads
<1>11. ASSUME NEW m \in Merchant, m \notin contested
       PROVE  Corrected(m)' /\ Knows(r, m)'
  <2>1. Corrected(m)'
    BY <1>2, <1>9, <1>11, StillCorrected DEF KInv
  <2>2. Knows(r, m)
    BY <1>2, <1>4, <1>7, <1>8, <1>11, SameKnows
  <2>3. Knows(r, m)'
    BY <1>2, <1>6, <1>8, <2>2 DEF Knows
  <2>4. QED
    BY <2>1, <2>3
<1>12. QED
  BY <1>2, <1>5, <1>6, <1>7, <1>8, <1>9, <1>10, <1>11, OthersKnow

LEMMA Tier3SelectKnows ==
    ASSUME IInv, KInv, OneHolder, Meet, NEW p \in Process, Tier3Select(p)
    PROVE  KInv'
<1>1. PICK T \in SUBSET proc[p].txns : T = StillUnresolved(p)
  BY DEF StillUnresolved
<1>2. PICK L : L = Rows(T)
  OBVIOUS
<1>3. \A t \in T : L[t] = cell[t]
  BY <1>1, <1>2, Mine, RowsType
<1>4. PICK r : r = [proc[p] EXCEPT !.pc = "ask", !.txns = T, !.loaded = L]
  OBVIOUS
<1>5. /\ r.pc = "ask" /\ r.txns = T /\ r.known = proc[p].known /\ r.loaded = L
      /\ r.groups = proc[p].groups /\ r.rows = proc[p].rows
  BY <1>4, Mine DEF Proc
<1>6. proc[p].pc = "tier3" /\ proc' = [proc EXCEPT ![p] = r]
  BY <1>1, <1>2, <1>4 DEF Tier3Select, IInv, TypeOK
<1>7. Shaped(r) /\ Shaped(proc[p])
  BY <1>5, <1>6 DEF KInv, Shaped
<1>8. Promoting(r) = {} /\ Promoting(proc[p]) = {}
  BY <1>5, <1>6, <1>7, NothingToPromote
<1>9. \A t \in Txn : Loads(r, t)
  BY <1>3, <1>5 DEF Loads
<1>10. \A m \in Merchant \ contested : Knows(r, m)
  BY <1>1, <1>5, <1>6, <1>7, <1>8, SameKnows
<1>11. QED
  BY <1>6, <1>7, <1>8, <1>9, <1>10, Reads DEF Tier3Select

(* Decisions are logged for merchants that have no lookup row.             *)
LEMMA Tier3CommitKnows ==
    ASSUME IInv, KInv, OneHolder, Meet, NEW p \in Process, Tier3Commit(p)
    PROVE  KInv'
<1> DEFINE Asked == {MerchantOf[t] : t \in proc[p].txns}
<1>1. PICK answer \in [Asked -> Answers] :
         /\ cell' = [t \in Txn |->
              IF t \in proc[p].txns /\ answer[MerchantOf[t]] # << >>
              THEN LET a == answer[MerchantOf[t]]
                   IN  Write(cell[t], proc[p].loaded[t],
                             [category |-> a[Len(a)], method |-> "llm"])
              ELSE cell[t]]
         /\ log' = [m \in Merchant |->
              IF m \in DOMAIN answer THEN log[m] \o Logged(answer[m]) ELSE log[m]]
  BY DEF Tier3Commit
<1>2. proc[p].pc = "ask" /\ UNCHANGED <<lookup, undone>>
  BY DEF Tier3Commit
<1>3. PICK r : r = [Idle EXCEPT !.pc = "groups"]
  OBVIOUS
<1>4. /\ r.pc = "groups" /\ r.txns = {} /\ r.groups = {}
      /\ \A m \in Merchant : r.rows[m] = {}
  BY <1>3 DEF Idle
<1>5. proc' = [proc EXCEPT ![p] = r]
  BY <1>3 DEF Tier3Commit
<1>6. Shaped(r)
  BY <1>4 DEF Shaped
<1>7. Promoting(r)' = Qualifying'
  BY <1>4 DEF Promoting
<1>8. ASSUME NEW m \in Merchant, m \notin Asked
      PROVE  /\ Unpromoted(m)' = Unpromoted(m)
             /\ m \in Qualifying' <=> m \in Qualifying
  <2>1. log'[m] = log[m]
    BY <1>1, <1>8
  <2>2. Unpromoted(m)' = Unpromoted(m)
    BY <2>1 DEF Unpromoted
  <2>3. {log'[m][i].category : i \in Unpromoted(m)'} = {log[m][i].category : i \in Unpromoted(m)}
    BY <2>1, <2>2
  <2>4. QED
    BY <2>2, <2>3 DEF Qualifying
<1>9. ASSUME NEW m \in Merchant, m \notin contested, m \in Qualifying'
      PROVE  lookup'[m] = NoEntry
  <2>1. CASE m \in Asked
    <3>1. PICK t \in proc[p].txns : MerchantOf[t] = m
      BY <2>1
    <3>2. proc[p].known[m] = lookup[m] /\ t \notin undone
      BY <1>2, <1>9, <3>1 DEF KInv, Knows
    <3>3. proc[p].known[m] # NoEntry => t \in undone
      BY <1>2, <3>1, Mine DEF Fits
    <3>4. QED
      BY <1>2, <3>2, <3>3
  <2>2. CASE m \notin Asked
    <3>1. m \in Qualifying
      BY <1>8, <1>9, <2>2
    <3>2. \E q \in Process : m \in Promoting(proc[q])
      BY <1>9, <3>1 DEF KInv
    <3>3. QED
      BY <1>2, <1>9, <3>2 DEF KInv, Knows
  <2>3. QED
    BY <2>1, <2>2
<1>10. ASSUME NEW t \in Txn
       PROVE  \/ cell'[t] = cell[t]
              \/ /\ t \in proc[p].txns
                 /\ t \notin Crossed => CategoryHasMethod(t)'
                 /\ cell'[t].method = "manual_user_correction" =>
                       cell[t].method = "manual_user_correction"
  <2>1. CASE t \in proc[p].txns /\ answer[MerchantOf[t]] # << >>
    <3>1. PICK a \in Answers : a = answer[MerchantOf[t]]
      BY <2>1
    <3>2. PICK c : c = a[Len(a)]
      OBVIOUS
    <3>3. c \in Category
      BY <2>1, <3>1, <3>2 DEF Answers
    <3>4. cell'[t] = Write(cell[t], proc[p].loaded[t], [category |-> c, method |-> "llm"])
      BY <1>1, <2>1, <3>1, <3>2
    <3>5. QED
      BY <1>2, <2>1, <3>3, <3>4, WritesBoth
  <2>2. CASE ~(t \in proc[p].txns /\ answer[MerchantOf[t]] # << >>)
    BY <1>1, <2>2
  <2>3. QED
    BY <2>1, <2>2
<1>11. ASSUME NEW t \in Txn, t \notin Crossed
       PROVE  CategoryHasMethod(t)' /\ Loads(r, t)'
  BY <1>4, <1>10, <1>11 DEF KInv, CategoryHasMethod, Loads
<1>12. ASSUME NEW m \in Merchant, m \notin contested
       PROVE  Corrected(m)' /\ Knows(r, m)'
  <2>1. Corrected(m)'
    BY <1>2, <1>10, <1>12, StillCorrected DEF KInv
  <2>2. Knows(r, m)'
    BY <1>4, <1>7, <1>9, <1>12 DEF Knows
  <2>3. QED
    BY <2>1, <2>2
<1>13. \A m \in Merchant : m \in Asked => m \in InHand(proc[p])
  BY DEF InHand
<1> HIDE DEF Asked
<1>14. QED
  BY <1>2, <1>5, <1>6, <1>7, <1>8, <1>10, <1>11, <1>12, <1>13, OthersKnow

-----------------------------------------------------------------------------
(* The promotion job.                                                      *)

LEMMA PromoteGroupsKnows ==
    ASSUME IInv, KInv, OneHolder, Meet, NEW p \in Process, PromoteGroups(p)
    PROVE  KInv'
<1>1. PICK G : G = Qualifying
  OBVIOUS
<1>2. PICK r : r = [Idle EXCEPT !.pc = "decisions", !.groups = G]
  OBVIOUS
<1>3. /\ r.pc = "decisions" /\ r.txns = {} /\ r.groups = G
      /\ \A m \in Merchant : r.rows[m] = {}
  BY <1>2 DEF Idle
<1>4. /\ proc[p].pc \in {"idle", "groups"} /\ proc' = [proc EXCEPT ![p] = r]
      /\ UNCHANGED <<cell, lookup, log, undone>>
  BY <1>1, <1>2 DEF PromoteGroups
<1>5. Shaped(r) /\ Shaped(proc[p])
  BY <1>3 DEF KInv, Shaped
<1>6. Promoting(r) = G
  BY <1>3 DEF Promoting
<1>7. \A t \in Txn : Loads(r, t)
  BY <1>3 DEF Loads
<1>8. ASSUME NEW m \in Merchant \ contested
      PROVE  Knows(r, m)
  <2>1. ASSUME m \in G
        PROVE  lookup[m] = NoEntry
    <3>1. PICK q \in Process : m \in Promoting(proc[q])
      BY <1>1, <2>1 DEF KInv
    <3>2. QED
      BY <3>1 DEF KInv, Knows
  <2>2. QED
    BY <1>3, <1>6, <2>1 DEF Knows
<1>9. \A m \in Promoting(proc[p]) : m \in Promoting(r)
  <2>1. CASE proc[p].pc = "idle"
    BY <1>5, <2>1, NothingToPromote
  <2>2. CASE proc[p].pc = "groups"
    BY <1>1, <1>6, <2>2 DEF Promoting
  <2>3. QED
    BY <1>4, <2>1, <2>2
<1>10. QED
  BY <1>4, <1>5, <1>7, <1>8, <1>9, Reads

LEMMA PromoteDecisionsKnows ==
    ASSUME IInv, KInv, OneHolder, Meet, NEW p \in Process, NEW m \in Merchant,
           PromoteDecisions(p, m)
    PROVE  KInv'
<1>1. PICK first \in Unpromoted(m) :
         proc' = [proc EXCEPT ![p].pc = "entry",
                              ![p].rows[m] = Unpromoted(m),
                              ![p].category[m] = log[m][first].category]
  BY DEF PromoteDecisions
<1>2. PICK x \in Proc : x = proc[p] /\ x.pc = "decisions" /\ m \in x.groups
  BY Mine DEF PromoteDecisions
<1>3. PICK U : U = Unpromoted(m)
  OBVIOUS
<1>4. PICK R : R = [x.rows EXCEPT ![m] = U]
  OBVIOUS
<1>5. PICK C : C = [x.category EXCEPT ![m] = log[m][first].category]
  OBVIOUS
<1>6. PICK r : r = [x EXCEPT !.pc = "entry", !.rows = R, !.category = C]
  OBVIOUS
<1>7. r.pc = "entry" /\ r.txns = x.txns /\ r.groups = x.groups /\ r.rows = R
  BY <1>6 DEF Proc
<1>8. proc' = [proc EXCEPT ![p] = r]
  BY <1>1, <1>2, <1>3, <1>4, <1>5, <1>6 DEF IInv, TypeOK, Proc
<1>9. \A n \in Merchant : R[n] = IF n = m THEN U ELSE x.rows[n]
  BY <1>4 DEF Proc
<1>10. Promoting(r) = Promoting(x)
  BY <1>2, <1>7, <1>9 DEF Promoting
<1>11. Shaped(r)
  BY <1>7 DEF Shaped
<1>12. \A t \in Txn : Loads(r, t)
  BY <1>7 DEF Loads
<1>13. ASSUME NEW n \in Merchant \ contested
       PROVE  Knows(r, n)
  <2>1. Knows(x, n)
    BY <1>2 DEF KInv
  <2>2. r.rows[n] # {} => r.rows[n] = Unpromoted(n)
    BY <1>3, <1>7, <1>9, <2>1 DEF Knows
  <2>3. n \in Promoting(r) => lookup[n] = NoEntry
    BY <1>10, <2>1 DEF Knows
  <2>4. QED
    BY <1>7, <2>2, <2>3 DEF Knows
<1>14. QED
  BY <1>2, <1>8, <1>10, <1>11, <1>12, <1>13, Reads DEF PromoteDecisions

LEMMA PromoteEntryKnows ==
    ASSUME IInv, KInv, OneHolder, Meet, NEW p \in Process, NEW m \in Merchant,
           PromoteEntry(p, m)
    PROVE  KInv'
<1>1. PICK x \in Proc : x = proc[p] /\ x.pc = "entry" /\ m \in x.groups /\ x.rows[m] # {}
  BY Mine DEF PromoteEntry
<1>2. PICK K : K = [x.known EXCEPT ![m] = lookup[m]]
  OBVIOUS
<1>3. PICK G : G = x.groups \ {m}
  OBVIOUS
<1>4. PICK r : r = [x EXCEPT !.pc = "decisions", !.groups = G, !.known = K]
  OBVIOUS
<1>5. r.pc = "decisions" /\ r.txns = x.txns /\ r.groups = G /\ r.rows = x.rows
  BY <1>4 DEF Proc
<1>6. proc' = [proc EXCEPT ![p] = r]
  BY <1>1, <1>2, <1>3, <1>4 DEF PromoteEntry, IInv, TypeOK, Proc
<1>7. Promoting(r) = Promoting(x)
  BY <1>1, <1>3, <1>5 DEF Promoting
<1>8. Shaped(r)
  BY <1>5 DEF Shaped
<1>9. \A t \in Txn : Loads(r, t)
  BY <1>5 DEF Loads
<1>10. ASSUME NEW n \in Merchant \ contested
       PROVE  Knows(r, n)
  <2>1. Knows(x, n)
    BY <1>1 DEF KInv
  <2>2. QED
    BY <1>5, <1>7, <2>1 DEF Knows
<1>11. QED
  BY <1>1, <1>6, <1>7, <1>8, <1>9, <1>10, Reads DEF PromoteEntry

(* A merchant whose decisions were all promoted qualifies no more.         *)
LEMMA AllPromoted ==
    ASSUME IInv, NEW p \in Process, PromoteCommit(p), NEW m \in Merchant
    PROVE  /\ proc[p].rows[m] = Unpromoted(m) => Unpromoted(m)' = {}
           /\ proc[p].rows[m] = {} => /\ Unpromoted(m)' = Unpromoted(m)
                                      /\ m \notin Qualifying => m \notin Qualifying'
<1>1. PICK l \in Seq(Decision) : l = log[m]
  BY Mine DEF TablesOK
<1>2. PICK R : R = proc[p].rows[m]
  OBVIOUS
<1>3. PICK n : n = [i \in DOMAIN l |-> [l[i] EXCEPT !.promoted = @ \/ i \in R]]
  OBVIOUS
<1>4. log'[m] = n
  BY <1>1, <1>2, <1>3 DEF PromoteCommit
<1>5. DOMAIN n = DOMAIN l
  BY <1>3
<1>6. ASSUME NEW i \in DOMAIN l
      PROVE  /\ n[i].promoted <=> l[i].promoted \/ i \in R
             /\ n[i].category = l[i].category
  <2>1. l[i] \in Decision
    OBVIOUS
  <2>2. QED
    BY <1>3, <2>1, Zenon DEF Decision
<1>7. Unpromoted(m)' = {i \in DOMAIN l : ~n[i].promoted}
  BY <1>4, <1>5 DEF Unpromoted
<1>8. Unpromoted(m) = {i \in DOMAIN l : ~l[i].promoted}
  BY <1>1 DEF Unpromoted
<1>9. Unpromoted(m)' = Unpromoted(m) \ R
  BY <1>6, <1>7, <1>8
<1>10. CASE R = {}
  <2>1. Unpromoted(m)' = Unpromoted(m)
    BY <1>9, <1>10
  <2>2. \A i \in Unpromoted(m) : log'[m][i].category = log[m][i].category
    BY <1>1, <1>4, <1>6, <1>8
  <2>3. {log'[m][i].category : i \in Unpromoted(m)'} = {log[m][i].category : i \in Unpromoted(m)}
    BY <2>1, <2>2
  <2>4. m \notin Qualifying => m \notin Qualifying'
    BY <2>1, <2>3 DEF Qualifying
  <2>5. QED
    BY <1>2, <2>1, <2>4, <1>10
<1>11. CASE R # {}
  BY <1>2, <1>9, <1>11
<1>12. QED
  BY <1>10, <1>11

LEMMA PromoteCommitKnows ==
    ASSUME IInv, KInv, OneHolder, Meet, NEW p \in Process, PromoteCommit(p)
    PROVE  KInv'
<1>1. PICK x \in Proc : x = proc[p] /\ x.pc = "decisions" /\ x.groups = {}
  BY Mine DEF PromoteCommit
<1>2. /\ UNCHANGED <<cell, undone>>
      /\ lookup' = [m \in Merchant |->
            IF x.rows[m] # {}
            THEN Upsert(m, x.known[m], x.category[m], "llm_promotion")
            ELSE lookup[m]]
      /\ proc' = [proc EXCEPT ![p] = Idle]
  BY <1>1 DEF PromoteCommit, Promoted, Finish
<1>3. \A m \in Merchant : m \in Promoting(x) <=> x.rows[m] # {}
  BY <1>1 DEF Promoting
<1>4. ASSUME NEW m \in Merchant
      PROVE  \/ m \in InHand(proc[p])
             \/ lookup'[m] = lookup[m] /\ Unpromoted(m)' = Unpromoted(m)
  <2>1. CASE x.rows[m] = {}
    BY <1>1, <1>2, <2>1, AllPromoted
  <2>2. CASE x.rows[m] # {}
    BY <1>1, <1>3, <2>2 DEF InHand
  <2>3. QED
    BY <2>1, <2>2
<1>6. ASSUME NEW m \in Merchant \ contested
      PROVE  Corrected(m)'
  <2>1. Corrected(m) /\ Knows(x, m)
    BY <1>1 DEF KInv
  <2>2. lookup'[m] # lookup[m] => lookup[m] = NoEntry
    BY <1>2, <1>3, <2>1 DEF Knows
  <2>3. NoEntry.match_type # "user_correction"
    BY DEF NoEntry
  <2>4. QED
    BY <1>2, <2>1, <2>2, <2>3 DEF Corrected
<1>7. ASSUME NEW m \in Merchant \ contested, m \in Qualifying'
      PROVE  m \in Qualifying /\ m \notin Promoting(proc[p])
  <2>1. Knows(x, m)
    BY <1>1 DEF KInv
  <2>2. Unpromoted(m)' # {}
    <3>1. Cardinality({log'[m][i].category : i \in Unpromoted(m)'}) = 1
      BY <1>7 DEF Qualifying
    <3>2. CASE Unpromoted(m)' = {}
      <4>1. {log'[m][i].category : i \in Unpromoted(m)'} = {}
        BY <3>2
      <4>2. Cardinality({}) = 0
        BY FS_EmptySet
      <4>3. QED
        BY <3>1, <4>1, <4>2
    <3>3. QED
      BY <3>2
  <2>3. x.rows[m] = {}
    BY <1>1, <2>1, <2>2, AllPromoted DEF Knows
  <2>4. QED
    BY <1>1, <1>3, <1>7, <2>3, AllPromoted
<1>8. Shaped(Idle) /\ Promoting(Idle)' = {}
  BY NothingInHand
<1>9. /\ \A t \in Txn \ Crossed : CategoryHasMethod(t)' /\ Loads(Idle, t)'
      /\ \A m \in Merchant : Knows(Idle, m)'
  BY <1>2, NothingInHand DEF KInv, CategoryHasMethod
<1>10. QED
  BY <1>2, <1>4, <1>6, <1>7, <1>8, <1>9, OthersKnow

(* The job dies: what it leaves is contested from now on.                  *)
LEMMA PromoteFailKnows ==
    ASSUME IInv, KInv, OneHolder, Meet, NEW p \in Process, PromoteFail(p)
    PROVE  KInv'
<1>1. Promoting(proc[p]) \subseteq Dropped
  BY DEF Dropped
<1>2. QED
  BY <1>1, Ends DEF PromoteFail

-----------------------------------------------------------------------------
(* What the user does.                                                     *)

LEMMA RecategorizeKnows ==
    ASSUME IInv, KInv, OneHolder, Meet, NEW p \in Process, NEW t \in Txn, NEW c \in Category,
           Recategorize(p, t, c)
    PROVE  KInv'
<1>1. PICK L : L = Rows({t})
  OBVIOUS
<1>2. L[t] = cell[t]
  BY <1>1, Mine, RowsType
<1>3. PICK C : C = [Idle.category EXCEPT ![MerchantOf[t]] = c]
  OBVIOUS
<1>4. PICK r : r = [Idle EXCEPT !.pc = "recategorize", !.txns = {t}, !.loaded = L,
                                !.category = C]
  OBVIOUS
<1>5. /\ r.pc = "recategorize" /\ r.txns = {t} /\ r.loaded = L
      /\ r.groups = {} /\ \A m \in Merchant : r.rows[m] = {}
  BY <1>4 DEF Idle
<1>6. proc[p].pc = "idle" /\ proc' = [proc EXCEPT ![p] = r]
  BY <1>1, <1>3, <1>4, IdleFits DEF Recategorize, Proc
<1>7. Shaped(r) /\ Shaped(proc[p])
  BY <1>5 DEF KInv, Shaped
<1>8. Promoting(r) = {} /\ Promoting(proc[p]) = {}
  BY <1>5, <1>6, <1>7, NothingToPromote
<1>9. \A u \in Txn : Loads(r, u)
  BY <1>2, <1>5 DEF Loads
<1>10. \A m \in Merchant : Knows(r, m)
  BY <1>5, <1>8 DEF Knows
<1>11. QED
  BY <1>6, <1>7, <1>8, <1>9, <1>10, Reads DEF Recategorize

LEMMA RecategorizeOnlyKnows ==
    ASSUME IInv, KInv, OneHolder, Meet, NEW p \in Process, RecategorizeOnly(p)
    PROVE  KInv'
<1>1. PICK x \in Proc : x = proc[p] /\ Fits(x) /\ x.pc = "recategorize"
  BY Mine DEF RecategorizeOnly
<1>2. PICK t \in x.txns :
         /\ ~HasMerchant(t)
         /\ cell' = [cell EXCEPT ![t] =
              Write(@, x.loaded[t], [category |-> x.category[MerchantOf[t]],
                                     method |-> "manual_user_correction"])]
  BY <1>1 DEF RecategorizeOnly
<1>3. PICK c \in Category : c = x.category[MerchantOf[t]]
  BY <1>1, <1>2 DEF Fits
<1>4. t \in Txn /\ cell[t] \in Cell /\ (t \notin Crossed => x.loaded[t] = cell[t])
  BY <1>1, <1>2, Mine DEF KInv, Loads, Proc, TablesOK
<1>5. UNCHANGED <<lookup, log, undone>> /\ proc' = [proc EXCEPT ![p] = Idle]
  BY DEF RecategorizeOnly, Finish
<1>6. /\ \A u \in Txn : u # t => cell'[u] = cell[u]
      /\ cell'[t] = Write(cell[t], x.loaded[t],
                          [category |-> c, method |-> "manual_user_correction"])
  BY <1>2, <1>3, <1>4, Mine DEF TablesOK
<1>7. ASSUME t \notin Crossed
      PROVE  CategoryHasMethod(t)'
  <2>1. PICK new : new = [category |-> c, method |-> "manual_user_correction"]
    OBVIOUS
  <2>2. new \in Cell /\ new.category # NoCategory /\ new.method # "null"
    BY <2>1, CategorizationAssumption DEF Cell, Value, Method
  <2>3. cell'[t] = new
    BY <1>4, <1>6, <1>7, <2>1, <2>2, WriteCurrentCell
  <2>4. QED
    BY <2>2, <2>3 DEF CategoryHasMethod
<1>8. ASSUME NEW u \in Txn \ Crossed
      PROVE  CategoryHasMethod(u)'
  BY <1>6, <1>7 DEF KInv, CategoryHasMethod
<1>9. ASSUME NEW n \in Merchant \ contested
      PROVE  Corrected(n)'
  <2>1. \A u \in Txn : HasMerchant(u) => cell'[u] = cell[u]
    BY <1>2, <1>6
  <2>2. QED
    BY <1>5, <2>1 DEF KInv, Corrected, HasMerchant
<1>10. Qualifying' = Qualifying /\ \A n \in Merchant : Unpromoted(n)' = Unpromoted(n)
  BY <1>5 DEF Qualifying, Unpromoted
<1>11. Promoting(proc[p]) = {}
  <2>1. Shaped(proc[p])
    BY DEF KInv
  <2>2. QED
    BY <1>1, <2>1, NothingToPromote
<1>12. QED
  BY <1>1, <1>2, <1>5, <1>6, <1>8, <1>9, <1>10, <1>11, NothingInHand, OthersKnow

LEMMA RecategorizeLookupKnows ==
    ASSUME IInv, KInv, OneHolder, Meet, NEW p \in Process, RecategorizeLookup(p)
    PROVE  KInv'
<1>1. PICK K : K = [m \in Merchant |-> IF \E t \in proc[p].txns : m = MerchantOf[t]
                                       THEN lookup[m] ELSE NoEntry]
  OBVIOUS
<1>2. \A t \in proc[p].txns : K[MerchantOf[t]] = lookup[MerchantOf[t]]
  BY <1>1, Mine, CategorizationAssumption
<1>3. PICK r : r = [proc[p] EXCEPT !.pc = "upsert", !.known = K]
  OBVIOUS
<1>4. /\ r.pc = "upsert" /\ r.txns = proc[p].txns /\ r.loaded = proc[p].loaded /\ r.known = K
      /\ r.groups = proc[p].groups /\ r.rows = proc[p].rows
  BY <1>3, Mine DEF Proc
<1>5. proc[p].pc = "recategorize" /\ proc' = [proc EXCEPT ![p] = r]
  BY <1>1, <1>3 DEF RecategorizeLookup, IInv, TypeOK
<1>6. Shaped(r) /\ Shaped(proc[p])
  BY <1>4, <1>5 DEF KInv, Shaped
<1>7. Promoting(r) = {} /\ Promoting(proc[p]) = {}
  BY <1>4, <1>5, <1>6, NothingToPromote
<1>8. \A t \in Txn \ Crossed : Loads(r, t)
  BY <1>4, <1>5 DEF KInv, Loads
<1>9. ASSUME NEW m \in Merchant
      PROVE  Knows(r, m)
  <2>1. r.rows[m] = {}
    BY <1>4, <1>6 DEF Shaped
  <2>2. QED
    BY <1>2, <1>4, <1>7, <2>1 DEF Knows
<1>10. QED
  BY <1>5, <1>6, <1>7, <1>8, <1>9, Reads DEF RecategorizeLookup

LEMMA RecategorizeCommitKnows ==
    ASSUME IInv, KInv, OneHolder, Meet, NEW p \in Process, RecategorizeCommit(p)
    PROVE  KInv'
<1>1. PICK x \in Proc : x = proc[p] /\ Fits(x) /\ x.pc = "upsert"
  BY Mine DEF RecategorizeCommit
<1>2. PICK t \in x.txns :
         /\ cell' = [cell EXCEPT ![t] =
              Write(@, x.loaded[t], [category |-> x.category[MerchantOf[t]],
                                     method |-> "manual_user_correction"])]
         /\ lookup' = [lookup EXCEPT ![MerchantOf[t]] =
              Upsert(MerchantOf[t], x.known[MerchantOf[t]], x.category[MerchantOf[t]],
                     "user_correction")]
  BY <1>1 DEF RecategorizeCommit
<1>3. PICK m \in Merchant : m = MerchantOf[t]
  BY <1>2, CategorizationAssumption DEF Proc
<1>4. PICK c \in Category : c = x.category[m]
  BY <1>1, <1>2, <1>3 DEF Fits
<1>5. /\ t \in Txn /\ cell[t] \in Cell /\ lookup[m] \in Entry
      /\ t \notin Crossed => x.loaded[t] = cell[t]
      /\ m \notin contested => x.known[m] = lookup[m]
  BY <1>1, <1>2, <1>3, Mine DEF KInv, Loads, Knows, Proc, TablesOK, Lookup
<1>6. UNCHANGED <<log, undone>> /\ proc' = [proc EXCEPT ![p] = Idle]
  BY DEF RecategorizeCommit, Finish
<1>7. /\ \A u \in Txn : u # t => cell'[u] = cell[u]
      /\ cell'[t] = Write(cell[t], x.loaded[t], [category |-> c, method |-> "manual_user_correction"])
      /\ \A n \in Merchant : n # m => lookup'[n] = lookup[n]
      /\ lookup'[m] = Upsert(m, x.known[m], c, "user_correction")
  BY <1>2, <1>3, <1>4, <1>5, Mine DEF TablesOK, Lookup
<1>8. ASSUME t \notin Crossed
      PROVE  CategoryHasMethod(t)'
  <2>1. PICK new : new = [category |-> c, method |-> "manual_user_correction"]
    OBVIOUS
  <2>2. new \in Cell /\ new.category # NoCategory /\ new.method # "null"
    BY <2>1, CategorizationAssumption DEF Cell, Value, Method
  <2>3. cell'[t] = new
    BY <1>5, <1>7, <1>8, <2>1, <2>2, WriteCurrentCell
  <2>4. QED
    BY <2>2, <2>3 DEF CategoryHasMethod
<1>9. ASSUME m \notin contested
      PROVE  lookup'[m].match_type = "user_correction"
  <2>1. PICK e : e = [category |-> c, match_type |-> "user_correction"]
    OBVIOUS
  <2>2. e \in Entry /\ e.match_type = "user_correction"
    BY <2>1 DEF Entry, Value, Origin
  <2>3. lookup'[m] = e
    BY <1>5, <1>7, <1>9, <2>1, <2>2, WriteCurrentEntry DEF Upsert
  <2>4. QED
    BY <2>2, <2>3
<1>10. ASSUME NEW u \in Txn \ Crossed
       PROVE  CategoryHasMethod(u)'
  BY <1>7, <1>8 DEF KInv, CategoryHasMethod
<1>11. ASSUME NEW n \in Merchant \ contested
       PROVE  Corrected(n)'
  <2>1. CASE n = m
    BY <1>9, <2>1 DEF Corrected
  <2>2. CASE n # m
    <3>1. \A u \in Txn : MerchantOf[u] = n => cell'[u] = cell[u]
      BY <1>3, <1>7, <2>2
    <3>2. Corrected(n) /\ lookup'[n] = lookup[n]
      BY <1>7, <2>2 DEF KInv
    <3>3. QED
      BY <3>1, <3>2 DEF Corrected
  <2>3. QED
    BY <2>1, <2>2
<1>12. Qualifying' = Qualifying /\ \A n \in Merchant : Unpromoted(n)' = Unpromoted(n)
  BY <1>6 DEF Qualifying, Unpromoted
<1>13. m \in InHand(proc[p]) /\ Promoting(proc[p]) = {}
  <2>1. Shaped(proc[p])
    BY DEF KInv
  <2>2. Promoting(proc[p]) = {}
    BY <1>1, <2>1, NothingToPromote
  <2>3. QED
    BY <1>1, <1>2, <1>3, <2>2 DEF InHand
<1>14. QED
  BY <1>1, <1>2, <1>6, <1>7, <1>10, <1>11, <1>12, <1>13, NothingInHand, OthersKnow

LEMMA SplitKnows ==
    ASSUME IInv, KInv, OneHolder, Meet, NEW p \in Process, NEW t \in Txn, Split(p, t)
    PROVE  KInv'
<1>1. PICK L : L = Rows({t})
  OBVIOUS
<1>2. L[t] = cell[t]
  BY <1>1, Mine, RowsType
<1>3. PICK r : r = [Idle EXCEPT !.pc = "split", !.txns = {t}, !.loaded = L]
  OBVIOUS
<1>4. /\ r.pc = "split" /\ r.txns = {t} /\ r.loaded = L
      /\ r.groups = {} /\ \A m \in Merchant : r.rows[m] = {}
  BY <1>3 DEF Idle
<1>5. proc[p].pc = "idle" /\ proc' = [proc EXCEPT ![p] = r]
  BY <1>1, <1>3 DEF Split
<1>6. Shaped(r) /\ Shaped(proc[p])
  BY <1>4 DEF KInv, Shaped
<1>7. Promoting(r) = {} /\ Promoting(proc[p]) = {}
  BY <1>4, <1>5, <1>6, NothingToPromote
<1>8. \A u \in Txn : Loads(r, u)
  BY <1>2, <1>4 DEF Loads
<1>9. \A m \in Merchant : Knows(r, m)
  BY <1>4, <1>7 DEF Knows
<1>10. QED
  BY <1>5, <1>6, <1>7, <1>8, <1>9, Reads DEF Split

LEMMA SplitCommitKnows ==
    ASSUME IInv, KInv, OneHolder, Meet, NEW p \in Process, SplitCommit(p)
    PROVE  KInv'
<1>1. PICK x \in Proc : x = proc[p] /\ x.pc = "split"
  BY Mine DEF SplitCommit
<1>2. /\ UNCHANGED <<lookup, log>> /\ undone' = undone \cup x.txns
      /\ proc' = [proc EXCEPT ![p] = Idle]
      /\ cell' = [t \in Txn |->
            IF t \in x.txns THEN Write(cell[t], x.loaded[t], Unresolved) ELSE cell[t]]
  BY <1>1 DEF SplitCommit, Finish
<1>3. Unresolved \in Cell /\ Unresolved.category = NoCategory /\ Unresolved.method = "null"
  BY DEF Unresolved, Cell, Value, Method
<1>4. ASSUME NEW t \in Txn, t \notin Crossed
      PROVE  CategoryHasMethod(t)'
  <2>1. CASE t \in x.txns
    <3>1. x.loaded[t] = cell[t] /\ cell[t] \in Cell
      BY <1>1, <1>4, <2>1, Mine DEF KInv, Loads, TablesOK
    <3>2. cell'[t] = Unresolved
      BY <1>2, <1>3, <2>1, <3>1, WriteCurrentCell
    <3>3. QED
      BY <1>3, <3>2 DEF CategoryHasMethod
  <2>2. CASE t \notin x.txns
    BY <1>2, <1>4, <2>2 DEF KInv, CategoryHasMethod
  <2>3. QED
    BY <2>1, <2>2
<1>5. ASSUME NEW t \in Txn, cell'[t].method = "manual_user_correction"
      PROVE  cell[t].method = "manual_user_correction"
  <2>1. CASE t \in x.txns
    <3>1. cell[t] \in Cell /\ x.loaded[t] \in Cell
      BY <1>1, Mine DEF Proc, TablesOK
    <3>2. cell'[t].method \in {cell[t].method, Unresolved.method}
      BY <1>2, <1>3, <2>1, <3>1, WriteCell
    <3>3. QED
      BY <1>3, <1>5, <3>2
  <2>2. CASE t \notin x.txns
    BY <1>2, <1>5, <2>2
  <2>3. QED
    BY <2>1, <2>2
<1>6. \A m \in Merchant \ contested : Corrected(m)'
  BY <1>2, <1>5, StillCorrected DEF KInv
<1>7. Qualifying' = Qualifying /\ \A m \in Merchant : Unpromoted(m)' = Unpromoted(m)
  BY <1>2 DEF Qualifying, Unpromoted
<1>8. Promoting(proc[p]) = {}
  <2>1. Shaped(proc[p])
    BY DEF KInv
  <2>2. QED
    BY <1>1, <2>1, NothingToPromote
<1>9. QED
  BY <1>1, <1>2, <1>4, <1>6, <1>7, <1>8, NothingInHand, OthersKnow

-----------------------------------------------------------------------------

LEMMA WorkKnows ==
    ASSUME IInv, KInv, OneHolder, Meet, NEW p \in Process, Work(p)
    PROVE  KInv'
<1>1. ASSUME NEW s \in Statement, Upload(p, s)
      PROVE  KInv'
  BY <1>1, UploadKnows
<1>2. ASSUME Tier2Matcher(p) \/ Tier2Load(p) \/ Tier2Commit(p) \/ Tier3Select(p)
               \/ Tier3Commit(p)
      PROVE  KInv'
  BY <1>2, Tier2MatcherKnows, Tier2LoadKnows, Tier2CommitKnows, Tier3SelectKnows,
     Tier3CommitKnows
<1>3. ASSUME Tier3Nothing(p) \/ RecategorizeFail(p)
      PROVE  KInv'
  <2>1. Shaped(proc[p]) /\ proc[p].pc \in {"tier3", "upsert"}
    BY <1>3 DEF KInv, Tier3Nothing, RecategorizeFail
  <2>2. Promoting(proc[p]) = {}
    BY <2>1, NothingToPromote
  <2>3. QED
    BY <1>3, <2>2, Ends DEF Tier3Nothing, RecategorizeFail
<1>4. ASSUME PromoteGroups(p) \/ PromoteCommit(p) \/ PromoteFail(p)
      PROVE  KInv'
  BY <1>4, PromoteGroupsKnows, PromoteCommitKnows, PromoteFailKnows
<1>5. ASSUME NEW m \in Merchant, PromoteDecisions(p, m) \/ PromoteEntry(p, m)
      PROVE  KInv'
  BY <1>5, PromoteDecisionsKnows, PromoteEntryKnows
<1>6. ASSUME NEW t \in Txn, NEW c \in Category, Recategorize(p, t, c)
      PROVE  KInv'
  BY <1>6, RecategorizeKnows
<1>7. ASSUME RecategorizeOnly(p) \/ RecategorizeLookup(p) \/ RecategorizeCommit(p)
      PROVE  KInv'
  BY <1>7, RecategorizeOnlyKnows, RecategorizeLookupKnows, RecategorizeCommitKnows
<1>8. QED
  BY <1>1, <1>2, <1>3, <1>4, <1>5, <1>6, <1>7 DEF Work

(* Steps that leave the tables and requests alone.                         *)
LEMMA QuietKInv ==
    ASSUME KInv, UNCHANGED <<cell, lookup, log, undone, proc>>,
           Crossed \subseteq Crossed', contested \subseteq contested'
    PROVE  KInv'
<1>1. Qualifying' = Qualifying /\ \A m \in Merchant : Unpromoted(m)' = Unpromoted(m)
  BY DEF Qualifying, Unpromoted
<1>2. \A p \in Process : /\ Promoting(proc[p])' = Promoting(proc[p])
                         /\ InHand(proc[p])' = InHand(proc[p])
  BY <1>1 DEF Promoting, InHand
<1>3. \A p \in Process : Shaped(proc[p])'
  BY DEF KInv, Shaped
<1>4. \A t \in Txn \ Crossed' :
         CategoryHasMethod(t)' /\ \A p \in Process : Loads(proc[p], t)'
  BY DEF KInv, CategoryHasMethod, Loads
<1>5. ASSUME NEW m \in Merchant \ contested'
      PROVE  /\ Corrected(m)'
             /\ \A p \in Process : Knows(proc[p], m)'
             /\ m \in Qualifying' => \E p \in Process : m \in Promoting(proc[p])'
             /\ ~Several({p \in Process : m \in InHand(proc[p])})'
  <2>1. /\ Corrected(m)
        /\ \A p \in Process : Knows(proc[p], m)
        /\ m \in Qualifying => \E p \in Process : m \in Promoting(proc[p])
        /\ ~Several({p \in Process : m \in InHand(proc[p])})
    BY DEF KInv
  <2>2. Corrected(m)'
    BY <2>1 DEF Corrected
  <2>3. \A p \in Process : Knows(proc[p], m)'
    BY <1>1, <1>2, <2>1 DEF Knows
  <2>4. ~Several({p \in Process : m \in InHand(proc[p])})'
    BY <1>2, <2>1 DEF Several
  <2>5. QED
    BY <1>1, <1>2, <2>1, <2>2, <2>3, <2>4
<1>6. QED
  BY <1>3, <1>4, <1>5 DEF KInv

(* Step by step.                                                           *)
LEMMA NextKInv ==
    IInv /\ SInv /\ KInv /\ [SpendingNext]_spendingVars => KInv'
<1> SUFFICES ASSUME IInv, SInv, KInv, [SpendingNext]_spendingVars
             PROVE  KInv'
  OBVIOUS
<1>1. CASE UNCHANGED spendingVars
  BY <1>1, QuietKInv DEF spendingVars, vars, Crossed
<1>2. CASE SpendingNext
  <2>1. OneHolder /\ Meet
    BY <1>2 DEF SInv, SpendingNext
  <2>2. Crossed \subseteq Crossed' /\ contested \subseteq contested'
    BY <2>1, MeetHolds
  <2>3. ASSUME NEW p \in Process, Work(p)
        PROVE  KInv'
    BY <2>1, <2>3, WorkKnows
  <2>4. ASSUME NEW p \in Process, NEW t \in Txn, NEW splits \in Allocation[t],
               SplitSelect(p, t, splits)
        PROVE  KInv'
    BY <2>1, <2>4, SplitKnows DEF SplitSelect
  <2>5. ASSUME NEW p \in Process, SplitStore(p)
        PROVE  KInv'
    BY <2>1, <2>5, SplitCommitKnows DEF SplitStore
  <2>6. ASSUME NEW t \in Txn, Remove(t)
        PROVE  KInv'
    BY <2>2, <2>6, QuietKInv DEF Remove, Unsplit
  <2>7. ASSUME UNCHANGED vars
        PROVE  KInv'
    BY <2>2, <2>7, QuietKInv DEF vars
  <2>8. QED
    BY <1>2, <2>3, <2>4, <2>5, <2>6, <2>7
    DEF SpendingNext, SplitDelete, ViewPlain, ViewSplits
<1>3. QED
  BY <1>1, <1>2

(* What the user decides is kept: neither the tiers nor the promotion job  *)
(* take a correction away, or what it taught if the transaction has a      *)
(* merchant, while one request at a time has the transaction and its       *)
(* merchant in hand, whatever other requests do meanwhile, for any         *)
(* threshold, merchants and categories (service.py:84-107, promotion.py:   *)
(* 55).                                                                    *)
THEOREM DecisionsKept == SpendingSpec => []CorrectionsKept
<1>1. SpendingSpec => []IInv
  BY ImplementsCategorization, Invariance, PTL
<1>2. IInv => TypeOK
  BY DEF IInv
<1>3. SpendingSpec => []SInv
  BY <1>1, <1>2, InitSInv, NextSInv, PTL DEF SpendingSpec
<1>4. KInv => CorrectionsKept
  BY CategorizationAssumption DEF KInv, Corrected, CorrectionsKept, Crossed
<1>5. QED
  BY <1>1, <1>3, <1>4, InitKInv, NextKInv, PTL DEF SpendingSpec
=============================================================================
