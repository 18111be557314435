------------------------ MODULE CategorizationProofs ------------------------
(***************************************************************************)
(* Theorems about Categorization, for any sets of transactions, merchants, *)
(* categories and overlapping requests, and any threshold.                 *)
(***************************************************************************)
EXTENDS Categorization, FiniteSetTheorems, TLAPS

(* The decisions of a merchant that count as promoted.                     *)
Done(m) == DOMAIN log[m] \ Unpromoted(m)

Resolved(t) == cell[t].method # "null" \/ t \in undone

(* What a request in flight has read stays true enough for what it does    *)
(* with it, whatever the others commit in between.                         *)
Fits(r) ==
    /\ r.txns \subseteq stored
    /\ \A m \in Merchant : r.known[m] # NoEntry =>
          r.known[m].category \in Category /\ lookup[m] # NoEntry
    /\ r.pc \in {"recategorize", "upsert"} =>
          \A t \in r.txns : r.category[MerchantOf[t]] \in Category
    /\ r.pc \in {"ask", "upsert"} => \A t \in r.txns : HasMerchant(t)
    /\ r.pc = "apply" =>
          \A t \in r.txns : r.loaded[t].method # "null" => Resolved(t)
    /\ r.pc = "tier3" =>
          \A t \in r.txns : r.known[MerchantOf[t]] # NoEntry => Resolved(t)
    /\ r.pc = "ask" =>
          \A t \in r.txns : r.known[MerchantOf[t]] # NoEntry => t \in undone
    /\ r.pc \in {"decisions", "entry"} =>
          /\ \A m \in r.groups : Len(log[m]) >= Threshold
          /\ \A m \in Merchant : r.rows[m] # {} =>
                /\ r.category[m] \in Category
                /\ r.rows[m] \subseteq DOMAIN log[m]
                /\ Cardinality(Done(m) \cup r.rows[m]) >= Threshold

AllFit == \A p \in Process : Fits(proc[p])

(* Every lookup row names a category.                                      *)
RowsNameCategory ==
    \A m \in Merchant : lookup[m] # NoEntry => lookup[m].category \in Category

(* Types of the tables, without the requests.                              *)
TablesOK ==
    /\ stored \subseteq Txn
    /\ cell \in [Txn -> Cell]
    /\ split \subseteq stored
    /\ undone \subseteq stored
    /\ lookup \in Lookup
    /\ \A m \in Merchant : log[m] \in Seq(Decision) /\ Len(log[m]) <= MaxLog

Tables == TablesOK /\ RowsNameCategory /\ TaughtTogether /\ PromotedByThreshold

IInv == TypeOK /\ Tables /\ AllFit

(* What every step guarantees to the requests it does not belong to.       *)
Grows ==
    /\ stored \subseteq stored'
    /\ \A t \in Txn : Resolved(t) => Resolved(t)'
    /\ undone \subseteq undone'
    /\ \A m \in Merchant :
          /\ lookup[m] # NoEntry => lookup'[m] # NoEntry
          /\ Len(log[m]) <= Len(log'[m])
          /\ Done(m) \subseteq Done(m)'

-----------------------------------------------------------------------------

LEMMA IdleFits == Idle \in Proc /\ Fits(Idle)
<1>1. Unresolved \in Cell
  BY DEF Unresolved, Cell, Value, Method
<1>2. NoEntry \in Entry
  BY DEF NoEntry, Entry, Value, Origin
<1>3. Idle \in Proc
  BY <1>1, <1>2 DEF Idle, Proc, PC, Lookup, Value
<1>4. QED
  BY <1>3 DEF Idle, Fits

LEMMA InitIInv == Init => IInv
<1> SUFFICES ASSUME Init
             PROVE  IInv
  OBVIOUS
<1>1. Unresolved \in Cell /\ Unresolved.method = "null"
  BY DEF Unresolved, Cell, Value, Method
<1>2. \A m \in Merchant : /\ lookup[m] \in Entry
                          /\ lookup[m] # NoEntry => lookup[m].category \in Category
  BY DEF Init, NoEntry, Entry, Value, Origin
<1>3. lookup \in Lookup
  BY <1>2 DEF Init, Lookup
<1>4. \A m \in Merchant : log[m] = << >> /\ log[m] \in Seq(Decision)
                          /\ Len(log[m]) = 0 /\ DOMAIN log[m] = {}
  BY DEF Init
<1>5. TablesOK
  BY <1>1, <1>3, <1>4, CategorizationAssumption DEF Init, TablesOK
<1>6. TypeOK
  BY <1>5, IdleFits DEF Init, TypeOK, TablesOK
<1>7. \A m \in Merchant : Unpromoted(m) = {}
  BY <1>4 DEF Unpromoted
<1>8. TaughtTogether
  BY <1>1, <1>4, <1>7, CategorizationAssumption DEF Init, TaughtTogether
<1>9. PromotedByThreshold
  BY <1>4 DEF PromotedByThreshold
<1>10. AllFit
  BY IdleFits DEF Init, AllFit
<1>11. QED
  BY <1>2, <1>5, <1>6, <1>8, <1>9, <1>10 DEF IInv, Tables, RowsNameCategory

-----------------------------------------------------------------------------
(* Rows, decisions and the operators that change them.                     *)

LEMMA Bounded ==
    ASSUME NEW s \in Seq(Decision), Len(s) <= MaxLog
    PROVE  /\ DOMAIN s = 1..Len(s)
           /\ Len(s) \in Nat
           /\ IsFiniteSet(DOMAIN s)
           /\ Cardinality(DOMAIN s) = Len(s)
           /\ DOMAIN s \subseteq 1..MaxLog
<1>1. DOMAIN s = 1..Len(s) /\ Len(s) \in Nat /\ MaxLog \in Nat
  BY CategorizationAssumption
<1>2. PICK n \in Nat : n = Len(s)
  BY <1>1
<1>3. IsFiniteSet(1..n) /\ Cardinality(1..n) = IF 1 > n THEN 0 ELSE n - 1 + 1
  BY FS_Interval, 1 \in Int, n \in Int
<1>4. Cardinality(1..n) = n
  BY <1>3
<1>5. QED
  BY <1>1, <1>2, <1>3, <1>4

LEMMA LogFinite ==
    ASSUME TablesOK, NEW m \in Merchant
    PROVE  /\ DOMAIN log[m] = 1..Len(log[m])
           /\ Len(log[m]) \in Nat
           /\ IsFiniteSet(DOMAIN log[m])
           /\ Cardinality(DOMAIN log[m]) = Len(log[m])
           /\ DOMAIN log[m] \subseteq 1..MaxLog
BY Bounded DEF TablesOK

(* Some of the decisions of a merchant.                                    *)
LEMMA SubsetCount ==
    ASSUME TablesOK, NEW m \in Merchant, NEW S \in SUBSET DOMAIN log[m]
    PROVE  Cardinality(S) \in Nat /\ Cardinality(S) <= Len(log[m])
<1>1. IsFiniteSet(DOMAIN log[m]) /\ Cardinality(DOMAIN log[m]) = Len(log[m])
  BY LogFinite
<1>2. IsFiniteSet(S) /\ Cardinality(S) <= Cardinality(DOMAIN log[m])
  BY <1>1, FS_Subset
<1>3. QED
  BY <1>1, <1>2, FS_CardinalityType

(* Write keeps the type of a row and sets a column it is given to change.  *)
LEMMA WriteCell ==
    ASSUME NEW now \in Cell, NEW old \in Cell, NEW new \in Cell
    PROVE  /\ Write(now, old, new) \in Cell
           /\ Write(now, old, new).method =
                 IF new.method = old.method THEN now.method ELSE new.method
<1>1. DOMAIN now = {"category", "method"}
  BY DEF Cell
<1>2. Write(now, old, new) \in Cell
  BY <1>1 DEF Write, Cell
<1>3. QED
  BY <1>1, <1>2 DEF Write

LEMMA UpsertEntry ==
    ASSUME Tables, NEW m \in Merchant, NEW old \in Entry, NEW c \in Category,
           NEW type \in Origin \ {"none"}, old # NoEntry => lookup[m] # NoEntry
    PROVE  LET e == Upsert(m, old, c, type)
           IN  e \in Entry /\ e.category \in Category /\ e # NoEntry
<1> DEFINE new == [category |-> c, match_type |-> type]
<1>1. NoEntry.category \notin Category
  BY CategorizationAssumption DEF NoEntry
<1>2. new \in Entry /\ new.category \in Category
  BY DEF Entry, Value
<1>3. CASE old = NoEntry
  BY <1>1, <1>2, <1>3 DEF Upsert
<1>4. CASE old # NoEntry
  <2>1. lookup[m] \in Entry /\ lookup[m].category \in Category
    BY <1>4 DEF Tables, TablesOK, RowsNameCategory, Lookup
  <2>2. DOMAIN lookup[m] = {"category", "match_type"}
    BY <2>1 DEF Entry
  <2>3. Write(lookup[m], old, new) \in Entry
    BY <1>2, <2>1, <2>2 DEF Write, Entry
  <2>4. Write(lookup[m], old, new).category \in Category
    BY <1>2, <2>1, <2>2 DEF Write
  <2>5. Upsert(m, old, c, type) = Write(lookup[m], old, new)
    BY <1>4 DEF Upsert
  <2>6. QED
    BY <1>1, <2>3, <2>4, <2>5
<1>5. QED
  BY <1>3, <1>4

-----------------------------------------------------------------------------
(* Rely and guarantee.                                                     *)

(* A request that fits keeps fitting while the tables only grow.           *)
LEMMA Survives ==
    ASSUME Tables, Tables', Grows, NEW r \in Proc, Fits(r)
    PROVE  Fits(r)'
<1>1. r.txns \subseteq Txn
  BY DEF Proc
<1>2. r.txns \subseteq stored'
  BY DEF Fits, Grows
<1>3. \A m \in Merchant : r.known[m] # NoEntry =>
         r.known[m].category \in Category /\ lookup'[m] # NoEntry
  BY DEF Fits, Grows
<1>4. /\ r.pc \in {"recategorize", "upsert"} =>
            \A t \in r.txns : r.category[MerchantOf[t]] \in Category
      /\ r.pc \in {"ask", "upsert"} => \A t \in r.txns : HasMerchant(t)
  BY DEF Fits
<1>5. r.pc = "apply" => \A t \in r.txns : r.loaded[t].method # "null" => Resolved(t)'
  BY <1>1 DEF Fits, Grows
<1>6. r.pc = "tier3" => \A t \in r.txns : r.known[MerchantOf[t]] # NoEntry => Resolved(t)'
  BY <1>1 DEF Fits, Grows
<1>7. r.pc = "ask" => \A t \in r.txns : r.known[MerchantOf[t]] # NoEntry => t \in undone'
  BY DEF Fits, Grows
<1>8. ASSUME r.pc \in {"decisions", "entry"}
      PROVE  /\ \A m \in r.groups : Len(log'[m]) >= Threshold
             /\ \A m \in Merchant : r.rows[m] # {} =>
                   /\ r.category[m] \in Category
                   /\ r.rows[m] \subseteq DOMAIN log'[m]
                   /\ Cardinality(Done(m)' \cup r.rows[m]) >= Threshold
  <2>1. ASSUME NEW m \in r.groups
        PROVE  Len(log'[m]) >= Threshold
    <3>1. m \in Merchant
      BY DEF Proc
    <3>2. Len(log[m]) >= Threshold /\ Len(log[m]) <= Len(log'[m])
      BY <1>8, <3>1 DEF Fits, Grows
    <3>3. Len(log[m]) \in Nat /\ Len(log'[m]) \in Nat /\ Threshold \in Nat
      BY <3>1, CategorizationAssumption DEF Tables, TablesOK
    <3>4. QED
      BY <3>2, <3>3
  <2>2. ASSUME NEW m \in Merchant, r.rows[m] # {}
        PROVE  /\ r.category[m] \in Category
               /\ r.rows[m] \subseteq DOMAIN log'[m]
               /\ Cardinality(Done(m)' \cup r.rows[m]) >= Threshold
    <3>1. /\ r.category[m] \in Category
          /\ r.rows[m] \subseteq DOMAIN log[m]
          /\ Cardinality(Done(m) \cup r.rows[m]) >= Threshold
      BY <1>8, <2>2 DEF Fits
    <3>2. DOMAIN log[m] = 1..Len(log[m]) /\ Len(log[m]) \in Nat
      BY LogFinite DEF Tables
    <3>3. /\ DOMAIN log'[m] = 1..Len(log'[m]) /\ Len(log'[m]) \in Nat
          /\ IsFiniteSet(DOMAIN log'[m])
      BY Bounded DEF Tables, TablesOK
    <3>4. r.rows[m] \subseteq DOMAIN log'[m]
      BY <3>1, <3>2, <3>3 DEF Grows
    <3>5. IsFiniteSet(Done(m)' \cup r.rows[m])
      <4>1. Done(m)' \cup r.rows[m] \subseteq DOMAIN log'[m]
        BY <3>4 DEF Done
      <4>2. QED
        BY <3>3, <4>1, FS_Subset
    <3>6. Done(m) \cup r.rows[m] \subseteq Done(m)' \cup r.rows[m]
      BY DEF Grows
    <3>7. /\ IsFiniteSet(Done(m) \cup r.rows[m])
          /\ Cardinality(Done(m) \cup r.rows[m]) <= Cardinality(Done(m)' \cup r.rows[m])
      BY <3>5, <3>6, FS_Subset
    <3>8. QED
      BY <3>1, <3>4, <3>5, <3>7, FS_CardinalityType, CategorizationAssumption
  <2>3. QED
    BY <2>1, <2>2
<1>9. QED
  BY <1>2, <1>3, <1>4, <1>5, <1>6, <1>7, <1>8 DEF Fits

(* A step of p that leaves the tables in order and fits in itself.         *)
LEMMA Rely ==
    ASSUME IInv, Tables', Grows, NEW p \in Process, NEW r \in Proc,
           proc' = [proc EXCEPT ![p] = r], Fits(r)'
    PROVE  IInv'
<1>1. \A q \in Process : proc[q] \in Proc /\ Fits(proc[q])
  BY DEF IInv, TypeOK, AllFit
<1>2. Tables
  BY DEF IInv
<1>3. ASSUME NEW q \in Process
      PROVE  Fits(proc[q])'
  <2>1. CASE q = p
    BY <2>1 DEF IInv, TypeOK
  <2>2. CASE q # p
    <3>1. PICK x \in Proc : x = proc[q] /\ Fits(x)
      BY <1>1
    <3>2. Fits(x)' /\ proc'[q] = x
      BY <1>2, <2>2, <3>1, Survives DEF IInv, TypeOK
    <3>3. QED
      BY <3>2
  <2>3. QED
    BY <2>1, <2>2
<1>4. AllFit'
  BY <1>3 DEF AllFit
<1>5. TypeOK'
  BY DEF IInv, TypeOK, Tables, TablesOK
<1>6. QED
  BY <1>4, <1>5 DEF IInv

(* A step that reads, or gives up.                                         *)
LEMMA Quiet ==
    ASSUME IInv, NEW p \in Process, NEW r \in Proc, proc' = [proc EXCEPT ![p] = r],
           UNCHANGED <<stored, cell, split, lookup, log, undone>>, Fits(r)
    PROVE  IInv'
<1>1. Tables'
  BY DEF IInv, Tables, TablesOK, RowsNameCategory, TaughtTogether, PromotedByThreshold,
     Unpromoted
<1>2. \A m \in Merchant : Done(m)' = Done(m) /\ Len(log[m]) <= Len(log'[m])
  BY DEF Done, Unpromoted, IInv, Tables, TablesOK
<1>3. Grows
  BY <1>2 DEF Grows, Resolved
<1>4. Fits(r)'
  BY <1>2 DEF Fits, Resolved
<1>5. QED
  BY <1>1, <1>3, <1>4, Rely

LEMMA QuietFinish ==
    ASSUME IInv, NEW p \in Process, Finish(p),
           UNCHANGED <<stored, cell, split, lookup, log, undone>>
    PROVE  IInv'
BY IdleFits, Quiet DEF Finish

(* What is known of the request that takes the step.                       *)
LEMMA Mine ==
    ASSUME IInv, NEW p \in Process
    PROVE  /\ proc[p] \in Proc /\ Fits(proc[p])
           /\ proc[p].txns \subseteq Txn /\ proc[p].txns \subseteq stored
           /\ TablesOK /\ Tables
BY DEF IInv, TypeOK, AllFit, Tables, Proc, Fits

LEMMA RowsType ==
    ASSUME TablesOK, NEW T \in SUBSET Txn
    PROVE  /\ Rows(T) \in [Txn -> Cell]
           /\ \A t \in T : Rows(T)[t] = cell[t]
<1>1. Unresolved \in Cell
  BY DEF Unresolved, Cell, Value, Method
<1>2. QED
  BY <1>1 DEF Rows, TablesOK

(* Transactions keep or gain a method; what is newly corrected has no      *)
(* merchant.                                                               *)
LEMMA TablesByCell ==
    ASSUME Tables, cell' \in [Txn -> Cell],
           UNCHANGED <<stored, split, lookup, log, undone>>,
           \A t \in Txn : cell'[t].method = "manual_user_correction" =>
               cell[t].method = "manual_user_correction" \/ ~HasMerchant(t)
    PROVE  Tables'
BY DEF Tables, TablesOK, RowsNameCategory, TaughtTogether, PromotedByThreshold, Unpromoted

LEMMA GrowsByCell ==
    ASSUME Tables, UNCHANGED <<stored, lookup, log>>, undone \subseteq undone',
           \A t \in Txn : Resolved(t) => Resolved(t)'
    PROVE  Grows
<1>1. \A m \in Merchant : Done(m)' = Done(m) /\ Len(log[m]) <= Len(log'[m])
  BY DEF Done, Unpromoted, Tables, TablesOK
<1>2. QED
  BY <1>1 DEF Grows

-----------------------------------------------------------------------------
(* Tier 1 and Tier 2.                                                      *)

LEMMA UploadStep ==
    ASSUME IInv, NEW p \in Process, NEW s \in Statement, Upload(p, s)
    PROVE  IInv'
<1>1. PICK T \in SUBSET Txn :
         /\ stored' = stored \cup T
         /\ proc' = [proc EXCEPT ![p].pc = "tier2", ![p].txns = T]
         /\ UNCHANGED <<cell, split, lookup, log, undone>>
  BY DEF Upload
<1>2. PICK r : r = [proc[p] EXCEPT !.pc = "tier2", !.txns = T]
  OBVIOUS
<1>3. r \in Proc /\ r.pc = "tier2" /\ r.txns = T /\ r.known = proc[p].known
  BY <1>2, Mine DEF Proc, PC
<1>4. proc' = [proc EXCEPT ![p] = r]
  BY <1>1, <1>2 DEF IInv, TypeOK
<1>5. Tables'
  BY <1>1 DEF IInv, Tables, TablesOK, RowsNameCategory, TaughtTogether,
     PromotedByThreshold, Unpromoted
<1>6. \A m \in Merchant : Done(m)' = Done(m) /\ Len(log[m]) <= Len(log'[m])
  BY <1>1 DEF Done, Unpromoted, IInv, Tables, TablesOK
<1>7. Grows
  BY <1>1, <1>6 DEF Grows, Resolved
<1>8. Fits(r)'
  BY <1>1, <1>3, Mine DEF Fits
<1>9. QED
  BY <1>3, <1>4, <1>5, <1>7, <1>8, Rely

LEMMA Tier2MatcherStep ==
    ASSUME IInv, NEW p \in Process, Tier2Matcher(p)
    PROVE  IInv'
<1>1. PICK r : r = [proc[p] EXCEPT !.pc = "match", !.known = lookup]
  OBVIOUS
<1>2. r \in Proc /\ r.pc = "match" /\ r.txns = proc[p].txns /\ r.known = lookup
  BY <1>1, Mine DEF Proc, PC, TablesOK
<1>3. proc' = [proc EXCEPT ![p] = r]
  BY <1>1 DEF Tier2Matcher, IInv, TypeOK
<1>4. Fits(r)
  BY <1>2, Mine DEF Fits, Tables, RowsNameCategory
<1>5. QED
  BY <1>2, <1>3, <1>4, Quiet DEF Tier2Matcher

LEMMA Tier2LoadStep ==
    ASSUME IInv, NEW p \in Process, Tier2Load(p)
    PROVE  IInv'
<1>1. PICK L : L = Rows(proc[p].txns)
  OBVIOUS
<1>2. L \in [Txn -> Cell] /\ \A t \in proc[p].txns : L[t] = cell[t]
  BY <1>1, Mine, RowsType
<1>3. PICK r : r = [proc[p] EXCEPT !.pc = "apply", !.loaded = L]
  OBVIOUS
<1>4. r \in Proc /\ r.pc = "apply" /\ r.txns = proc[p].txns /\ r.known = proc[p].known
      /\ r.loaded = L
  BY <1>2, <1>3, Mine DEF Proc, PC
<1>5. proc' = [proc EXCEPT ![p] = r]
  BY <1>1, <1>3 DEF Tier2Load, IInv, TypeOK
<1>6. Fits(r)
  BY <1>2, <1>4, Mine DEF Fits, Resolved
<1>7. QED
  BY <1>4, <1>5, <1>6, Quiet DEF Tier2Load

(* A match is written over what was unresolved when it was loaded.         *)
LEMMA Tier2CommitStep ==
    ASSUME IInv, NEW p \in Process, Tier2Commit(p)
    PROVE  IInv'
<1>1. PICK outcome \in [Merchant -> Value] :
         /\ \A m \in Merchant : outcome[m] \in Outcomes(proc[p].known, m)
         /\ cell' = [t \in Txn |->
              IF t \in proc[p].txns /\ outcome[MerchantOf[t]] # NoCategory
              THEN Write(cell[t], proc[p].loaded[t],
                         [category |-> outcome[MerchantOf[t]], method |-> "rule"])
              ELSE cell[t]]
  BY DEF Tier2Commit
<1>2. /\ proc[p].pc = "apply"
      /\ UNCHANGED <<stored, split, lookup, log, undone>>
  BY DEF Tier2Commit
<1>3. PICK r : r = [proc[p] EXCEPT !.pc = "tier3", !.loaded = Idle.loaded]
  OBVIOUS
<1>4. Idle.loaded \in [Txn -> Cell]
  BY IdleFits DEF Proc
<1>5. r \in Proc /\ r.pc = "tier3" /\ r.txns = proc[p].txns /\ r.known = proc[p].known
  BY <1>3, <1>4, Mine DEF Proc, PC
<1>6. proc' = [proc EXCEPT ![p] = r]
  BY <1>3 DEF Tier2Commit, IInv, TypeOK
<1>7. ASSUME NEW t \in Txn
      PROVE  /\ cell'[t] \in Cell
             /\ cell'[t].method = "manual_user_correction" =>
                   cell[t].method = "manual_user_correction"
             /\ Resolved(t) => Resolved(t)'
             /\ t \in proc[p].txns /\ outcome[MerchantOf[t]] # NoCategory => Resolved(t)'
  <2>1. cell[t] \in Cell /\ proc[p].loaded[t] \in Cell /\ outcome[MerchantOf[t]] \in Value
    BY <1>1, Mine, CategorizationAssumption DEF TablesOK, Proc
  <2>2. PICK new : new = [category |-> outcome[MerchantOf[t]], method |-> "rule"]
    OBVIOUS
  <2>3. new \in Cell /\ new.method = "rule"
    BY <2>1, <2>2 DEF Cell, Method
  <2>4. CASE t \in proc[p].txns /\ outcome[MerchantOf[t]] # NoCategory
    <3>1. cell'[t] = Write(cell[t], proc[p].loaded[t], new)
      BY <1>1, <2>2, <2>4
    <3>2. /\ cell'[t] \in Cell
          /\ cell'[t].method = IF "rule" = proc[p].loaded[t].method
                               THEN cell[t].method ELSE "rule"
      BY <2>1, <2>3, <3>1, WriteCell
    <3>3. proc[p].loaded[t].method # "null" => Resolved(t)
      BY <1>2, <2>4, Mine DEF Fits
    <3>4. QED
      BY <1>2, <3>2, <3>3 DEF Resolved
  <2>5. CASE ~(t \in proc[p].txns /\ outcome[MerchantOf[t]] # NoCategory)
    <3>1. cell'[t] = cell[t]
      BY <1>1, <2>5
    <3>2. QED
      BY <1>2, <2>1, <2>5, <3>1 DEF Resolved
  <2>6. QED
    BY <2>4, <2>5
<1>8. cell' \in [Txn -> Cell]
  <2>1. cell' = [t \in Txn |-> cell'[t]]
    BY <1>1
  <2>2. QED
    BY <1>7, <2>1
<1>9. Tables'
  BY <1>2, <1>7, <1>8, Mine, TablesByCell
<1>10. Grows
  BY <1>2, <1>7, Mine, GrowsByCell
<1>11. Fits(r)'
  <2>1. ASSUME NEW t \in r.txns, r.known[MerchantOf[t]] # NoEntry
        PROVE  Resolved(t)'
    <3>1. t \in Txn /\ MerchantOf[t] \in Merchant /\ t \in proc[p].txns
      BY <1>5, Mine, CategorizationAssumption
    <3>2. MerchantOf[t] # Empty
      BY <1>5, <2>1, <3>1, Mine DEF Fits, Tables, TaughtTogether
    <3>3. outcome[MerchantOf[t]] = r.known[MerchantOf[t]].category
      BY <1>1, <1>5, <2>1, <3>1, <3>2 DEF Outcomes
    <3>4. r.known[MerchantOf[t]].category \in Category
      BY <1>5, <2>1, <3>1, Mine DEF Fits
    <3>5. QED
      BY <1>7, <3>1, <3>3, <3>4, CategorizationAssumption
  <2>2. QED
    BY <1>2, <1>5, <2>1, Mine DEF Fits
<1>12. QED
  BY <1>5, <1>6, <1>9, <1>10, <1>11, Rely

-----------------------------------------------------------------------------
(* Tier 3.                                                                 *)

LEMMA Tier3SelectStep ==
    ASSUME IInv, NEW p \in Process, Tier3Select(p)
    PROVE  IInv'
<1>1. PICK T : T = StillUnresolved(p)
  OBVIOUS
<1>2. T \subseteq proc[p].txns /\ \A t \in T : cell[t].method = "null" /\ HasMerchant(t)
  BY <1>1 DEF StillUnresolved
<1>3. PICK L : L = Rows(T)
  OBVIOUS
<1>4. L \in [Txn -> Cell]
  BY <1>2, <1>3, Mine, RowsType
<1>5. PICK r : r = [proc[p] EXCEPT !.pc = "ask", !.txns = T, !.loaded = L]
  OBVIOUS
<1>6. r \in Proc /\ r.pc = "ask" /\ r.txns = T /\ r.known = proc[p].known
  BY <1>2, <1>4, <1>5, Mine DEF Proc, PC
<1>7. proc' = [proc EXCEPT ![p] = r]
  BY <1>1, <1>3, <1>5 DEF Tier3Select, IInv, TypeOK
<1>8. Fits(r)
  BY <1>2, <1>6, Mine DEF Fits, Resolved, Tier3Select
<1>9. QED
  BY <1>6, <1>7, <1>8, Quiet DEF Tier3Select

(* The decisions that a step appends are not promoted.                     *)
LEMMA LogAppends ==
    ASSUME TablesOK, NEW m \in Merchant, NEW a \in Seq(Category),
           Len(log[m]) + Len(a) <= MaxLog, log'[m] = log[m] \o Logged(a)
    PROVE  /\ log'[m] \in Seq(Decision) /\ Len(log'[m]) <= MaxLog
           /\ Len(log[m]) <= Len(log'[m])
           /\ Done(m)' = Done(m)
<1>1. PICK b : b = Logged(a)
  OBVIOUS
<1>2. b \in Seq(Decision) /\ Len(b) = Len(a) /\ \A i \in 1..Len(b) : ~b[i].promoted
  <2>1. DOMAIN a = 1..Len(a) /\ Len(a) \in Nat
    OBVIOUS
  <2>2. b = [i \in 1..Len(a) |-> [category |-> a[i], promoted |-> FALSE]]
    BY <1>1, <2>1 DEF Logged
  <2>3. \A i \in 1..Len(a) : [category |-> a[i], promoted |-> FALSE] \in Decision
    BY DEF Decision
  <2>4. b \in Seq(Decision) /\ Len(b) = Len(a)
    BY <2>1, <2>2, <2>3
  <2>5. QED
    BY <2>2, <2>4
<1>3. PICK l \in Seq(Decision) : l = log[m]
  BY DEF TablesOK
<1>4. /\ log'[m] = l \o b /\ l \o b \in Seq(Decision) /\ Len(l \o b) = Len(l) + Len(b)
      /\ DOMAIN (l \o b) = 1..(Len(l) + Len(b)) /\ DOMAIN l = 1..Len(l)
      /\ Len(l) \in Nat /\ Len(b) \in Nat
  <2>1. log'[m] = l \o b
    BY <1>1, <1>3
  <2>2. b \in Seq(Decision)
    BY <1>2
  <2>3. l \o b \in Seq(Decision) /\ Len(l \o b) = Len(l) + Len(b)
    BY <2>2
  <2>4. \A x \in Seq(Decision) : Len(x) \in Nat /\ DOMAIN x = 1..Len(x)
    OBVIOUS
  <2>5. /\ Len(l) \in Nat /\ DOMAIN l = 1..Len(l) /\ Len(b) \in Nat
        /\ DOMAIN (l \o b) = 1..(Len(l) + Len(b))
    BY <2>2, <2>3, <2>4, Zenon
  <2>6. QED
    BY <2>1, <2>3, <2>5, Zenon
<1>5. \A i \in 1..(Len(l) + Len(b)) :
         (l \o b)[i] = IF i <= Len(l) THEN l[i] ELSE b[i - Len(l)]
  BY <1>2, <1>3
<1>6. Done(m)' = {i \in DOMAIN (l \o b) : (l \o b)[i].promoted}
  BY <1>4 DEF Done, Unpromoted
<1>7. Done(m) = {i \in DOMAIN l : l[i].promoted}
  BY <1>3 DEF Done, Unpromoted
<1>8. \A i \in DOMAIN (l \o b) : (l \o b)[i].promoted <=> i \in DOMAIN l /\ l[i].promoted
  <2>1. SUFFICES ASSUME NEW i \in 1..(Len(l) + Len(b))
                 PROVE  (l \o b)[i].promoted <=> i \in 1..Len(l) /\ l[i].promoted
    BY <1>4
  <2>2. CASE i <= Len(l)
    BY <1>4, <1>5, <2>2
  <2>3. CASE ~(i <= Len(l))
    <3>1. i - Len(l) \in 1..Len(b) /\ i \notin 1..Len(l)
      BY <1>4, <2>3
    <3>2. QED
      BY <1>2, <1>5, <2>3, <3>1
  <2>4. QED
    BY <2>2, <2>3
<1>9. DOMAIN l \subseteq DOMAIN (l \o b)
  BY <1>4
<1>10. Done(m)' = Done(m)
  BY <1>6, <1>7, <1>8, <1>9
<1>11. QED
  BY <1>2, <1>3, <1>4, <1>10, CategorizationAssumption

LEMMA Tier3CommitStep ==
    ASSUME IInv, NEW p \in Process, Tier3Commit(p)
    PROVE  IInv'
<1> DEFINE Asked == {MerchantOf[t] : t \in proc[p].txns}
<1>1. PICK answer \in [Asked -> Answers] :
         /\ \A m \in DOMAIN answer : Len(log[m]) + Len(answer[m]) <= MaxLog
         /\ cell' = [t \in Txn |->
              IF t \in proc[p].txns /\ answer[MerchantOf[t]] # << >>
              THEN LET a == answer[MerchantOf[t]]
                   IN  Write(cell[t], proc[p].loaded[t],
                             [category |-> a[Len(a)], method |-> "llm"])
              ELSE cell[t]]
         /\ log' = [m \in Merchant |->
              IF m \in DOMAIN answer THEN log[m] \o Logged(answer[m]) ELSE log[m]]
  BY DEF Tier3Commit
<1>2. UNCHANGED <<stored, split, lookup, undone>>
  BY DEF Tier3Commit
<1>3. \A a \in Answers : a \in Seq(Category) /\ (a # << >> => a[Len(a)] \in Category)
  <2>1. ASSUME NEW c \in Category
        PROVE  <<c>> \in Seq(Category) /\ Len(<<c>>) = 1 /\ <<c>>[1] = c
    OBVIOUS
  <2>2. ASSUME NEW c \in Category, NEW d \in Category
        PROVE  <<c, d>> \in Seq(Category) /\ Len(<<c, d>>) = 2 /\ <<c, d>>[2] = d
    OBVIOUS
  <2>3. << >> \in Seq(Category)
    OBVIOUS
  <2>4. SUFFICES ASSUME NEW a \in Answers
                 PROVE  a \in Seq(Category) /\ (a # << >> => a[Len(a)] \in Category)
    OBVIOUS
  <2>5. CASE a = << >>
    BY <2>3, <2>5
  <2>6. CASE a \in {<<c>> : c \in Category}
    <3>1. PICK c \in Category : a = <<c>>
      BY <2>6
    <3>2. QED
      BY <2>1, <3>1
  <2>7. CASE a \in {<<c, d>> : c, d \in Category}
    <3>1. PICK c \in Category, d \in Category : a = <<c, d>>
      BY <2>7
    <3>2. QED
      BY <2>2, <3>1
  <2>8. QED
    BY <2>5, <2>6, <2>7 DEF Answers
<1>4. ASSUME NEW t \in Txn
      PROVE  /\ cell'[t] \in Cell
             /\ cell'[t].method = "manual_user_correction" =>
                   cell[t].method = "manual_user_correction"
             /\ cell[t].method # "null" => cell'[t].method # "null"
  <2>1. cell[t] \in Cell /\ proc[p].loaded[t] \in Cell
    BY Mine DEF TablesOK, Proc
  <2>2. CASE t \in proc[p].txns /\ answer[MerchantOf[t]] # << >>
    <3>1. PICK a : a = answer[MerchantOf[t]]
      OBVIOUS
    <3>2. a \in Answers /\ a # << >>
      BY <1>1, <2>2, <3>1
    <3>3. PICK new : new = [category |-> a[Len(a)], method |-> "llm"]
      OBVIOUS
    <3>4. new \in Cell /\ new.method = "llm"
      BY <1>3, <3>2, <3>3 DEF Cell, Method, Value
    <3>5. cell'[t] = Write(cell[t], proc[p].loaded[t], new)
      BY <1>1, <2>2, <3>1, <3>3
    <3>6. QED
      BY <2>1, <3>4, <3>5, WriteCell
  <2>3. CASE ~(t \in proc[p].txns /\ answer[MerchantOf[t]] # << >>)
    BY <1>1, <2>1, <2>3
  <2>4. QED
    BY <2>2, <2>3
<1>5. ASSUME NEW m \in Merchant
      PROVE  /\ log'[m] \in Seq(Decision) /\ Len(log'[m]) <= MaxLog
             /\ Len(log[m]) <= Len(log'[m])
             /\ Done(m)' = Done(m)
  <2>1. CASE m \in DOMAIN answer
    BY <1>1, <1>3, <2>1, Mine, LogAppends
  <2>2. CASE m \notin DOMAIN answer
    <3>1. log'[m] = log[m]
      BY <1>1, <2>2
    <3>2. QED
      BY <3>1, Mine DEF TablesOK, Done, Unpromoted
  <2>3. QED
    BY <2>1, <2>2
<1>6. cell' \in [Txn -> Cell]
  <2>1. cell' = [t \in Txn |-> cell'[t]]
    BY <1>1
  <2>2. QED
    BY <1>4, <2>1
<1>7. TablesOK'
  BY <1>2, <1>5, <1>6, Mine DEF TablesOK
<1>8. RowsNameCategory'
  BY <1>2, Mine DEF Tables, RowsNameCategory
<1>9. TaughtTogether' /\ PromotedByThreshold'
  <2>1. \A m \in Merchant : Unpromoted(m) \subseteq DOMAIN log[m]
    BY DEF Unpromoted
  <2>2. \A m \in Merchant : Unpromoted(m)' \subseteq DOMAIN log'[m]
    BY DEF Unpromoted
  <2>3. \A m \in Merchant : DOMAIN log'[m] \ Unpromoted(m)' = DOMAIN log[m] \ Unpromoted(m)
    BY <1>5 DEF Done
  <2>4. TaughtTogether /\ PromotedByThreshold
    BY Mine DEF Tables
  <2>5. \A t \in Txn : cell'[t].method = "manual_user_correction" /\ HasMerchant(t) =>
                          lookup'[MerchantOf[t]] # NoEntry
    BY <1>2, <1>4, <2>4 DEF TaughtTogether
  <2>a. lookup'[Empty] = NoEntry /\ log'[Empty] = << >>
    <3>1. Empty \notin DOMAIN answer
      BY <1>1, Mine DEF Tier3Commit, Fits, HasMerchant
    <3>2. log'[Empty] = log[Empty]
      BY <1>1, <3>1, CategorizationAssumption
    <3>3. QED
      BY <1>2, <2>4, <3>2 DEF TaughtTogether
  <2>6. ASSUME NEW m \in Merchant, Unpromoted(m)' # DOMAIN log'[m]
        PROVE  lookup'[m] # NoEntry
    BY <1>2, <2>1, <2>2, <2>3, <2>4, <2>6 DEF TaughtTogether
  <2>7. PromotedByThreshold'
    BY <2>3, <2>4 DEF PromotedByThreshold
  <2>8. QED
    BY <2>5, <2>6, <2>7, <2>a DEF TaughtTogether
<1>10. Grows
  BY <1>2, <1>4, <1>5 DEF Grows, Resolved
<1>11. PICK r : r = [Idle EXCEPT !.pc = "groups"]
  OBVIOUS
<1>12. r \in Proc /\ proc' = [proc EXCEPT ![p] = r] /\ Fits(r)'
  BY <1>11, IdleFits DEF Tier3Commit, Fits, Proc, PC, Idle
<1>13. QED
  BY <1>7, <1>8, <1>9, <1>10, <1>12, Rely DEF Tables

-----------------------------------------------------------------------------
(* The promotion job.                                                      *)

LEMMA PromoteGroupsStep ==
    ASSUME IInv, NEW p \in Process, PromoteGroups(p)
    PROVE  IInv'
<1>1. PICK G : G = Qualifying
  OBVIOUS
<1>2. G \subseteq Merchant
  BY <1>1 DEF Qualifying
<1>3. PICK r : r = [Idle EXCEPT !.pc = "decisions", !.groups = G]
  OBVIOUS
<1>4. r \in Proc /\ r.pc = "decisions" /\ r.groups = G /\ r.txns = {}
      /\ r.known = Idle.known /\ r.rows = Idle.rows
  BY <1>2, <1>3, IdleFits DEF Proc, PC, Idle
<1>5. proc' = [proc EXCEPT ![p] = r]
  BY <1>1, <1>3 DEF PromoteGroups
<1>6. ASSUME NEW m \in G
      PROVE  Len(log[m]) >= Threshold
  <2>1. m \in Merchant /\ Cardinality(Unpromoted(m)) >= Threshold
    BY <1>1 DEF Qualifying
  <2>2. Unpromoted(m) \in SUBSET DOMAIN log[m]
    BY DEF Unpromoted
  <2>3. /\ Cardinality(Unpromoted(m)) \in Nat
        /\ Cardinality(Unpromoted(m)) <= Len(log[m]) /\ Len(log[m]) \in Nat
    BY <2>1, <2>2, Mine, SubsetCount, LogFinite
  <2>4. QED
    BY <2>1, <2>3, CategorizationAssumption
<1>7. Fits(r)
  BY <1>4, <1>6 DEF Fits, Idle
<1>8. QED
  BY <1>4, <1>5, <1>7, Quiet DEF PromoteGroups

(* What it is about to promote and what counts as promoted already are all *)
(* the decisions there are of the merchant.                                *)
LEMMA PromoteDecisionsStep ==
    ASSUME IInv, NEW p \in Process, NEW m \in Merchant, PromoteDecisions(p, m)
    PROVE  IInv'
<1>1. PICK first \in Unpromoted(m) :
         proc' = [proc EXCEPT ![p].pc = "entry",
                              ![p].rows[m] = Unpromoted(m),
                              ![p].category[m] = log[m][first].category]
  BY DEF PromoteDecisions
<1>2. PICK U : U = Unpromoted(m)
  OBVIOUS
<1>3. PICK c : c = log[m][first].category
  OBVIOUS
<1>4. /\ DOMAIN log[m] \subseteq 1..MaxLog /\ Cardinality(DOMAIN log[m]) = Len(log[m])
      /\ DOMAIN log[m] = 1..Len(log[m])
  BY Mine, LogFinite
<1>5. U \subseteq DOMAIN log[m] /\ first \in DOMAIN log[m]
  BY <1>2 DEF Unpromoted
<1>6. c \in Category
  <2>1. log[m] \in Seq(Decision)
    BY Mine DEF TablesOK
  <2>2. log[m][first] \in Decision
    BY <1>4, <1>5, <2>1
  <2>3. QED
    BY <1>3, <2>2 DEF Decision
<1>7. PICK x \in Proc : x = proc[p]
  BY Mine
<1>8. PICK R : R = [x.rows EXCEPT ![m] = U]
  OBVIOUS
<1>9. PICK C : C = [x.category EXCEPT ![m] = c]
  OBVIOUS
<1>10. PICK r : r = [x EXCEPT !.pc = "entry", !.rows = R, !.category = C]
  OBVIOUS
<1>11. R \in [Merchant -> SUBSET (1..MaxLog)] /\ C \in [Merchant -> Value]
  BY <1>4, <1>5, <1>6, <1>8, <1>9 DEF Proc, Value
<1>12. r \in Proc /\ r.pc = "entry" /\ r.groups = x.groups /\ r.rows = R
       /\ r.category = C /\ r.txns = x.txns /\ r.known = x.known
  BY <1>10, <1>11 DEF Proc, PC
<1>13. proc' = [proc EXCEPT ![p] = r]
  BY <1>1, <1>2, <1>3, <1>7, <1>8, <1>9, <1>10 DEF IInv, TypeOK, Proc
<1>14. \A n \in Merchant : /\ R[n] = IF n = m THEN U ELSE x.rows[n]
                           /\ C[n] = IF n = m THEN c ELSE x.category[n]
  BY <1>8, <1>9 DEF Proc
<1>15. Fits(x) /\ x.pc = "decisions" /\ m \in x.groups
  BY <1>7, Mine DEF PromoteDecisions
<1>16. Cardinality(Done(m) \cup U) >= Threshold
  <2>1. Done(m) \cup U = DOMAIN log[m]
    BY <1>2, <1>5 DEF Done
  <2>2. Len(log[m]) >= Threshold
    BY <1>15 DEF Fits
  <2>3. QED
    BY <1>4, <2>1, <2>2
<1>17. Fits(r)
  BY <1>5, <1>6, <1>12, <1>14, <1>15, <1>16 DEF Fits
<1>18. QED
  BY <1>12, <1>13, <1>17, Quiet DEF PromoteDecisions

LEMMA PromoteEntryStep ==
    ASSUME IInv, NEW p \in Process, NEW m \in Merchant, PromoteEntry(p, m)
    PROVE  IInv'
<1>1. PICK x \in Proc : x = proc[p]
  BY Mine
<1>2. PICK K : K = [x.known EXCEPT ![m] = lookup[m]]
  OBVIOUS
<1>3. K \in Lookup /\ \A n \in Merchant : K[n] = IF n = m THEN lookup[m] ELSE x.known[n]
  BY <1>2, Mine DEF Proc, TablesOK, Lookup
<1>4. PICK r : r = [x EXCEPT !.pc = "decisions", !.groups = @ \ {m}, !.known = K]
  OBVIOUS
<1>5. r \in Proc /\ r.pc = "decisions" /\ r.groups = x.groups \ {m} /\ r.rows = x.rows
      /\ r.category = x.category /\ r.txns = x.txns /\ r.known = K
  BY <1>3, <1>4 DEF Proc, PC
<1>6. proc' = [proc EXCEPT ![p] = r]
  BY <1>1, <1>2, <1>4 DEF IInv, TypeOK, Proc, PromoteEntry
<1>7. Fits(x) /\ x.pc = "entry"
  BY <1>1, Mine DEF PromoteEntry
<1>8. Fits(r)
  BY <1>3, <1>5, <1>7, Mine DEF Fits, Tables, RowsNameCategory
<1>9. QED
  BY <1>5, <1>6, <1>8, Quiet DEF PromoteEntry

LEMMA PromoteCommitStep ==
    ASSUME IInv, NEW p \in Process, PromoteCommit(p)
    PROVE  IInv'
<1>1. PICK x \in Proc : x = proc[p] /\ Fits(x) /\ x.pc = "decisions"
  BY Mine DEF PromoteCommit
<1>2. /\ UNCHANGED <<stored, cell, split, undone>>
      /\ lookup' = [m \in Merchant |->
            IF x.rows[m] # {}
            THEN Upsert(m, x.known[m], x.category[m], "llm_promotion")
            ELSE lookup[m]]
      /\ log' = [m \in Merchant |->
            [i \in DOMAIN log[m] |->
               [log[m][i] EXCEPT !.promoted = @ \/ i \in x.rows[m]]]]
  BY <1>1 DEF PromoteCommit, Promoted
<1>3. ASSUME NEW m \in Merchant
      PROVE  /\ lookup'[m] \in Entry
             /\ lookup'[m] # NoEntry => lookup'[m].category \in Category
             /\ lookup[m] # NoEntry \/ x.rows[m] # {} => lookup'[m] # NoEntry
  <2>1. CASE x.rows[m] # {}
    <3>1. x.category[m] \in Category /\ (x.known[m] # NoEntry => lookup[m] # NoEntry)
      BY <1>1, <2>1 DEF Fits
    <3>2. PICK old \in Entry : old = x.known[m]
      BY DEF Proc, Lookup
    <3>3. lookup'[m] = Upsert(m, old, x.category[m], "llm_promotion")
      BY <1>2, <2>1, <3>2
    <3>4. "llm_promotion" \in Origin \ {"none"}
      BY DEF Origin
    <3>5. QED
      BY <2>1, <3>1, <3>2, <3>3, <3>4, Mine, UpsertEntry
  <2>2. CASE x.rows[m] = {}
    <3>1. lookup'[m] = lookup[m]
      BY <1>2, <2>2
    <3>2. QED
      BY <2>2, <3>1, Mine DEF Tables, TablesOK, RowsNameCategory, Lookup
  <2>3. QED
    BY <2>1, <2>2
<1>4. ASSUME NEW m \in Merchant
      PROVE  /\ log'[m] \in Seq(Decision) /\ Len(log'[m]) = Len(log[m])
             /\ DOMAIN log'[m] = DOMAIN log[m]
             /\ Done(m)' = Done(m) \cup (x.rows[m] \cap DOMAIN log[m])
  <2>1. PICK l \in Seq(Decision) : l = log[m]
    BY Mine DEF TablesOK
  <2>2. DOMAIN l = 1..Len(l) /\ Len(l) \in Nat /\ \A i \in 1..Len(l) : l[i] \in Decision
    OBVIOUS
  <2>3. PICK n : n = [i \in 1..Len(l) |-> [l[i] EXCEPT !.promoted = @ \/ i \in x.rows[m]]]
    OBVIOUS
  <2>4. ASSUME NEW i \in 1..Len(l)
        PROVE  n[i] \in Decision /\ (n[i].promoted <=> l[i].promoted \/ i \in x.rows[m])
    BY <2>2, <2>3, Zenon DEF Decision
  <2>5. n \in Seq(Decision) /\ Len(n) = Len(l) /\ DOMAIN n = 1..Len(l)
    <3>1. DOMAIN n = 1..Len(l) /\ n = [i \in 1..Len(l) |-> n[i]]
      BY <2>3, Zenon
    <3>2. n \in [1..Len(l) -> Decision]
      BY <2>4, <3>1
    <3>3. QED
      BY <2>2, <3>2
  <2>6. log'[m] = n
    BY <1>2, <2>1, <2>2, <2>3
  <2>7. Done(m)' = {i \in 1..Len(l) : n[i].promoted}
    BY <2>5, <2>6 DEF Done, Unpromoted
  <2>8. Done(m) = {i \in 1..Len(l) : l[i].promoted}
    BY <2>1, <2>2 DEF Done, Unpromoted
  <2>9. QED
    BY <2>1, <2>2, <2>4, <2>5, <2>6, <2>7, <2>8
<1>5. TablesOK'
  <2>1. lookup' \in Lookup
    <3>1. lookup' = [m \in Merchant |-> lookup'[m]]
      BY <1>2
    <3>2. QED
      BY <1>3, <3>1 DEF Lookup
  <2>2. QED
    BY <1>2, <1>4, <2>1, Mine DEF TablesOK
<1>6. RowsNameCategory'
  BY <1>3 DEF RowsNameCategory
<1>7. TaughtTogether'
  <2>1. TaughtTogether
    BY Mine DEF Tables
  <2>2. \A t \in Txn : cell'[t].method = "manual_user_correction" /\ HasMerchant(t) =>
                          lookup'[MerchantOf[t]] # NoEntry
    BY <1>2, <1>3, <2>1, CategorizationAssumption DEF TaughtTogether
  <2>a. lookup'[Empty] = NoEntry /\ log'[Empty] = << >>
    <3>1. lookup[Empty] = NoEntry /\ log[Empty] = << >> /\ Empty \in Merchant
      BY <2>1, CategorizationAssumption DEF TaughtTogether
    <3>2. DOMAIN log[Empty] = {} /\ log[Empty] \in Seq(Decision)
      BY <3>1
    <3>3. x.rows[Empty] = {}
      BY <1>1, <3>1, <3>2 DEF Fits
    <3>4. lookup'[Empty] = NoEntry
      BY <1>2, <3>1, <3>3
    <3>5. log'[Empty] \in Seq(Decision) /\ Len(log'[Empty]) = 0
      BY <1>4, <3>1
    <3>6. QED
      BY <3>4, <3>5
  <2>3. ASSUME NEW m \in Merchant, Unpromoted(m)' # DOMAIN log'[m]
        PROVE  lookup'[m] # NoEntry
    <3>1. Done(m)' # {}
      BY <2>3 DEF Done, Unpromoted
    <3>2. Done(m) # {} \/ x.rows[m] # {}
      BY <1>4, <3>1
    <3>3. Done(m) # {} => lookup[m] # NoEntry
      BY <2>1 DEF TaughtTogether, Done
    <3>4. QED
      BY <1>3, <3>2, <3>3
  <2>4. QED
    BY <2>2, <2>a, <2>3 DEF TaughtTogether
<1>8. PromotedByThreshold'
  <2>1. ASSUME NEW m \in Merchant, Done(m)' # {}
        PROVE  Cardinality(Done(m)') >= Threshold
    <3>1. CASE x.rows[m] = {}
      <4>1. Done(m)' = Done(m)
        BY <1>4, <3>1
      <4>2. QED
        BY <2>1, <4>1, Mine DEF Tables, PromotedByThreshold, Done
    <3>2. CASE x.rows[m] # {}
      <4>1. x.rows[m] \subseteq DOMAIN log[m] /\ Cardinality(Done(m) \cup x.rows[m]) >= Threshold
        BY <1>1, <3>2 DEF Fits
      <4>2. Done(m)' = Done(m) \cup x.rows[m]
        BY <1>4, <4>1
      <4>3. QED
        BY <4>1, <4>2
    <3>3. QED
      BY <3>1, <3>2
  <2>2. QED
    BY <2>1 DEF PromotedByThreshold, Done
<1>9. Grows
  <2>1. \A m \in Merchant : Len(log[m]) <= Len(log'[m]) /\ Done(m) \subseteq Done(m)'
    BY <1>4, Mine, LogFinite
  <2>2. QED
    BY <1>2, <1>3, <2>1 DEF Grows, Resolved
<1>10. proc' = [proc EXCEPT ![p] = Idle]
  BY DEF PromoteCommit, Finish
<1>11. Fits(Idle)'
  BY DEF Fits, Idle
<1>12. QED
  BY <1>5, <1>6, <1>7, <1>8, <1>9, <1>10, <1>11, IdleFits, Rely DEF Tables

-----------------------------------------------------------------------------
(* What the user does.                                                     *)

LEMMA RecategorizeStep ==
    ASSUME IInv, NEW p \in Process, NEW t \in Txn, NEW c \in Category, Recategorize(p, t, c)
    PROVE  IInv'
<1>1. MerchantOf[t] \in Merchant
  BY CategorizationAssumption
<1>2. PICK L : L = Rows({t})
  OBVIOUS
<1>3. L \in [Txn -> Cell]
  BY <1>2, Mine, RowsType
<1>4. PICK C : C = [Idle.category EXCEPT ![MerchantOf[t]] = c]
  OBVIOUS
<1>5. C \in [Merchant -> Value] /\ C[MerchantOf[t]] = c
  BY <1>1, <1>4, IdleFits DEF Proc, Value
<1>6. PICK r : r = [Idle EXCEPT !.pc = "recategorize", !.txns = {t}, !.loaded = L,
                                !.category = C]
  OBVIOUS
<1>7. r \in Proc /\ r.pc = "recategorize" /\ r.txns = {t} /\ r.category = C
      /\ r.known = Idle.known
  BY <1>3, <1>5, <1>6, IdleFits DEF Proc, PC
<1>8. proc' = [proc EXCEPT ![p] = r]
  BY <1>2, <1>4, <1>6, IdleFits DEF Recategorize, Proc
<1>9. Fits(r)
  BY <1>5, <1>7, IdleFits DEF Recategorize, Fits
<1>10. QED
  BY <1>7, <1>8, <1>9, Quiet DEF Recategorize

(* A correction that teaches nothing.                                      *)
LEMMA RecategorizeOnlyStep ==
    ASSUME IInv, NEW p \in Process, RecategorizeOnly(p)
    PROVE  IInv'
<1>1. PICK x \in Proc : x = proc[p] /\ Fits(x) /\ x.pc = "recategorize"
  BY Mine DEF RecategorizeOnly
<1>2. PICK t \in x.txns :
         /\ ~HasMerchant(t)
         /\ cell' = [cell EXCEPT ![t] =
              Write(@, x.loaded[t], [category |-> x.category[MerchantOf[t]],
                                     method |-> "manual_user_correction"])]
  BY <1>1 DEF RecategorizeOnly
<1>3. t \in Txn /\ x.category[MerchantOf[t]] \in Category
  BY <1>1 DEF Proc, Fits
<1>4. UNCHANGED <<stored, split, lookup, log, undone>> /\ proc' = [proc EXCEPT ![p] = Idle]
  BY DEF RecategorizeOnly, Finish
<1>5. PICK new : new = [category |-> x.category[MerchantOf[t]],
                        method |-> "manual_user_correction"]
  OBVIOUS
<1>6. new \in Cell /\ new.method = "manual_user_correction"
  BY <1>3, <1>5 DEF Cell, Value, Method
<1>7. PICK row : row = Write(cell[t], x.loaded[t], new)
  OBVIOUS
<1>8. /\ row \in Cell
      /\ row.method = IF "manual_user_correction" = x.loaded[t].method
                      THEN cell[t].method ELSE "manual_user_correction"
  <2>1. cell[t] \in Cell /\ x.loaded[t] \in Cell
    BY <1>3, Mine DEF TablesOK, Proc
  <2>2. QED
    BY <1>6, <1>7, <2>1, WriteCell
<1>9. cell' = [cell EXCEPT ![t] = row]
  BY <1>2, <1>5, <1>7
<1>10. cell' \in [Txn -> Cell] /\ \A u \in Txn : cell'[u] = IF u = t THEN row ELSE cell[u]
  BY <1>3, <1>8, <1>9, Mine DEF TablesOK
<1>11. Tables'
  BY <1>2, <1>4, <1>10, Mine, TablesByCell
<1>12. Grows
  <2>1. \A u \in Txn : Resolved(u) => Resolved(u)'
    BY <1>4, <1>8, <1>10 DEF Resolved
  <2>2. QED
    BY <1>4, <2>1, Mine, GrowsByCell
<1>13. Fits(Idle)'
  BY DEF Fits, Idle
<1>14. QED
  BY <1>4, <1>11, <1>12, <1>13, IdleFits, Rely

LEMMA RecategorizeLookupStep ==
    ASSUME IInv, NEW p \in Process, RecategorizeLookup(p)
    PROVE  IInv'
<1>1. PICK K : K = [m \in Merchant |-> IF \E t \in proc[p].txns : m = MerchantOf[t]
                                       THEN lookup[m] ELSE NoEntry]
  OBVIOUS
<1>2. NoEntry \in Entry
  BY DEF NoEntry, Entry, Value, Origin
<1>3. K \in Lookup /\ \A m \in Merchant : K[m] = lookup[m] \/ K[m] = NoEntry
  BY <1>1, <1>2, Mine DEF TablesOK, Lookup
<1>4. PICK r : r = [proc[p] EXCEPT !.pc = "upsert", !.known = K]
  OBVIOUS
<1>5. r \in Proc /\ r.pc = "upsert" /\ r.txns = proc[p].txns
      /\ r.category = proc[p].category /\ r.known = K
  BY <1>3, <1>4, Mine DEF Proc, PC
<1>6. proc' = [proc EXCEPT ![p] = r]
  BY <1>1, <1>4 DEF RecategorizeLookup, IInv, TypeOK
<1>7. Fits(r)
  BY <1>3, <1>5, Mine DEF RecategorizeLookup, Fits, Tables, RowsNameCategory
<1>8. QED
  BY <1>5, <1>6, <1>7, Quiet DEF RecategorizeLookup

(* The correction and the lookup row that teaches it, in one commit.       *)
LEMMA RecategorizeCommitStep ==
    ASSUME IInv, NEW p \in Process, RecategorizeCommit(p)
    PROVE  IInv'
<1>1. PICK x \in Proc : x = proc[p] /\ Fits(x) /\ x.pc = "upsert"
  BY Mine DEF RecategorizeCommit
<1>2. PICK t \in x.txns :
         /\ cell' = [cell EXCEPT ![t] =
              Write(@, x.loaded[t], [category |-> x.category[MerchantOf[t]],
                                     method |-> "manual_user_correction"])]
         /\ lookup' = [lookup EXCEPT ![MerchantOf[t]] =
              Upsert(MerchantOf[t], x.known[MerchantOf[t]], x.category[MerchantOf[t]],
                     "user_correction")]
  BY <1>1 DEF RecategorizeCommit
<1>3. PICK m \in Merchant : m = MerchantOf[t]
  BY <1>2, CategorizationAssumption DEF Proc
<1>4. t \in Txn /\ x.category[m] \in Category
  BY <1>1, <1>3 DEF Proc, Fits
<1>5. UNCHANGED <<stored, split, log, undone>> /\ proc' = [proc EXCEPT ![p] = Idle]
  BY DEF RecategorizeCommit, Finish
<1>6. PICK e : e = Upsert(m, x.known[m], x.category[m], "user_correction")
  OBVIOUS
<1>7. e \in Entry /\ e.category \in Category /\ e # NoEntry
  <2>1. x.known[m] \in Entry /\ (x.known[m] # NoEntry => lookup[m] # NoEntry)
    BY <1>1 DEF Proc, Lookup, Fits
  <2>2. "user_correction" \in Origin \ {"none"}
    BY DEF Origin
  <2>3. QED
    BY <1>4, <1>6, <2>1, <2>2, Mine, UpsertEntry
<1>8. lookup' = [lookup EXCEPT ![m] = e]
  BY <1>2, <1>3, <1>6
<1>9. lookup' \in Lookup /\ \A n \in Merchant : lookup'[n] = IF n = m THEN e ELSE lookup[n]
  BY <1>7, <1>8, Mine DEF TablesOK, Lookup
<1>10. PICK new : new = [category |-> x.category[m], method |-> "manual_user_correction"]
  OBVIOUS
<1>11. new \in Cell /\ new.method = "manual_user_correction"
  BY <1>4, <1>10 DEF Cell, Value, Method
<1>12. PICK row : row = Write(cell[t], x.loaded[t], new)
  OBVIOUS
<1>13. /\ row \in Cell
       /\ row.method = IF "manual_user_correction" = x.loaded[t].method
                       THEN cell[t].method ELSE "manual_user_correction"
  <2>1. cell[t] \in Cell /\ x.loaded[t] \in Cell
    BY <1>4, Mine DEF TablesOK, Proc
  <2>2. QED
    BY <1>11, <1>12, <2>1, WriteCell
<1>14. cell' = [cell EXCEPT ![t] = row]
  BY <1>2, <1>3, <1>10, <1>12
<1>15. cell' \in [Txn -> Cell] /\ \A u \in Txn : cell'[u] = IF u = t THEN row ELSE cell[u]
  BY <1>4, <1>13, <1>14, Mine DEF TablesOK
<1>16. TablesOK' /\ RowsNameCategory'
  BY <1>5, <1>7, <1>9, <1>15, Mine DEF Tables, TablesOK, RowsNameCategory
<1>17. TaughtTogether'
  <2>1. TaughtTogether
    BY Mine DEF Tables
  <2>2. \A n \in Merchant : lookup[n] # NoEntry => lookup'[n] # NoEntry
    BY <1>7, <1>9
  <2>3. \A u \in Txn : cell'[u].method = "manual_user_correction" /\ HasMerchant(u) =>
                          lookup'[MerchantOf[u]] # NoEntry
    BY <1>3, <1>7, <1>9, <1>15, <2>1, <2>2, CategorizationAssumption DEF TaughtTogether
  <2>4. lookup'[Empty] = lookup[Empty]
    BY <1>1, <1>2, <1>3, <1>9, CategorizationAssumption DEF Fits, HasMerchant
  <2>5. QED
    BY <1>5, <2>1, <2>2, <2>3, <2>4 DEF TaughtTogether, Unpromoted
<1>18. PromotedByThreshold'
  BY <1>5, Mine DEF Tables, PromotedByThreshold, Unpromoted
<1>19. Grows
  <2>1. \A u \in Txn : cell[u].method # "null" => cell'[u].method # "null"
    BY <1>13, <1>15
  <2>2. \A n \in Merchant : Done(n)' = Done(n) /\ Len(log[n]) <= Len(log'[n])
    BY <1>5, Mine DEF Done, Unpromoted, TablesOK
  <2>3. QED
    BY <1>5, <1>7, <1>9, <2>1, <2>2 DEF Grows, Resolved
<1>20. Fits(Idle)'
  BY DEF Fits, Idle
<1>21. QED
  BY <1>5, <1>16, <1>17, <1>18, <1>19, <1>20, IdleFits, Rely DEF Tables

LEMMA SplitStep ==
    ASSUME IInv, NEW p \in Process, NEW t \in Txn, Split(p, t)
    PROVE  IInv'
<1>1. PICK L : L = Rows({t})
  OBVIOUS
<1>2. L \in [Txn -> Cell]
  BY <1>1, Mine, RowsType
<1>3. PICK r : r = [Idle EXCEPT !.pc = "split", !.txns = {t}, !.loaded = L]
  OBVIOUS
<1>4. r \in Proc /\ r.pc = "split" /\ r.txns = {t} /\ r.known = Idle.known
  BY <1>2, <1>3, IdleFits DEF Proc, PC
<1>5. proc' = [proc EXCEPT ![p] = r]
  BY <1>1, <1>3 DEF Split
<1>6. Fits(r)
  BY <1>4, IdleFits DEF Split, Fits
<1>7. QED
  BY <1>4, <1>5, <1>6, Quiet DEF Split

LEMMA SplitCommitStep ==
    ASSUME IInv, NEW p \in Process, SplitCommit(p)
    PROVE  IInv'
<1>1. PICK x \in Proc : x = proc[p] /\ Fits(x) /\ x.txns \subseteq stored
  BY Mine
<1>2. /\ split' = split \cup x.txns /\ undone' = undone \cup x.txns
      /\ UNCHANGED <<stored, lookup, log>> /\ proc' = [proc EXCEPT ![p] = Idle]
      /\ cell' = [t \in Txn |->
            IF t \in x.txns THEN Write(cell[t], x.loaded[t], Unresolved) ELSE cell[t]]
  BY <1>1 DEF SplitCommit, Finish
<1>3. Unresolved \in Cell /\ Unresolved.method = "null"
  BY DEF Unresolved, Cell, Value, Method
<1>4. ASSUME NEW t \in Txn
      PROVE  /\ cell'[t] \in Cell
             /\ cell'[t].method = "manual_user_correction" =>
                   cell[t].method = "manual_user_correction"
             /\ Resolved(t) => Resolved(t)'
  <2>1. cell[t] \in Cell /\ x.loaded[t] \in Cell
    BY Mine DEF TablesOK, Proc
  <2>2. CASE t \in x.txns
    <3>1. cell'[t] = Write(cell[t], x.loaded[t], Unresolved) /\ t \in undone'
      BY <1>2, <2>2
    <3>2. QED
      BY <1>3, <2>1, <3>1, WriteCell DEF Resolved
  <2>3. CASE t \notin x.txns
    <3>1. cell'[t] = cell[t] /\ undone \subseteq undone'
      BY <1>2, <2>3
    <3>2. QED
      BY <2>1, <3>1 DEF Resolved
  <2>4. QED
    BY <2>2, <2>3
<1>5. cell' \in [Txn -> Cell]
  <2>1. cell' = [t \in Txn |-> cell'[t]]
    BY <1>2
  <2>2. QED
    BY <1>4, <2>1
<1>6. TablesOK'
  BY <1>1, <1>2, <1>5, Mine DEF TablesOK
<1>7. (RowsNameCategory /\ TaughtTogether /\ PromotedByThreshold)'
  BY <1>2, <1>4, Mine DEF Tables, RowsNameCategory, TaughtTogether, PromotedByThreshold,
     Unpromoted
<1>8. Grows
  BY <1>2, <1>4, Mine, GrowsByCell
<1>9. Fits(Idle)'
  BY DEF Fits, Idle
<1>10. QED
  BY <1>2, <1>6, <1>7, <1>8, <1>9, IdleFits, Rely DEF Tables

LEMMA NobodyMoves ==
    ASSUME IInv, UNCHANGED <<stored, cell, lookup, log, undone, proc>>, split' \subseteq split
    PROVE  IInv'
<1>1. TypeOK'
  BY DEF IInv, TypeOK
<1>2. TablesOK' /\ RowsNameCategory'
  BY DEF IInv, Tables, TablesOK, RowsNameCategory
<1>3. TaughtTogether' /\ PromotedByThreshold'
  BY DEF IInv, Tables, TaughtTogether, PromotedByThreshold, Unpromoted
<1>4. ASSUME NEW q \in Process
      PROVE  Fits(proc[q])'
  <2>1. Fits(proc[q])
    BY DEF IInv, AllFit
  <2>2. \A m \in Merchant : Done(m)' = Done(m)
    BY DEF Done, Unpromoted
  <2>3. \A t \in Txn : Resolved(t)' <=> Resolved(t)
    BY DEF Resolved
  <2>4. proc[q].txns \subseteq Txn
    BY Mine
  <2>5. QED
    BY <2>1, <2>2, <2>3, <2>4 DEF Fits
<1>5. QED
  BY <1>1, <1>2, <1>3, <1>4 DEF IInv, Tables, AllFit

LEMMA UnsplitStep ==
    ASSUME IInv, NEW t \in Txn, Unsplit(t)
    PROVE  IInv'
<1>1. UNCHANGED <<stored, cell, lookup, log, undone, proc>> /\ split' \subseteq split
  BY DEF Unsplit
<1>2. QED
  BY <1>1, NobodyMoves

LEMMA NextIInv == IInv /\ [Next]_vars => IInv'
<1> SUFFICES ASSUME IInv, [Next]_vars
             PROVE  IInv'
  OBVIOUS
<1>1. ASSUME NEW p \in Process, Tier3Nothing(p) \/ PromoteFail(p) \/ RecategorizeFail(p)
      PROVE  IInv'
  BY <1>1, QuietFinish DEF Tier3Nothing, PromoteFail, RecategorizeFail
<1>2. ASSUME NEW p \in Process, NEW s \in Statement, Upload(p, s)
      PROVE  IInv'
  BY <1>2, UploadStep
<1>3. ASSUME NEW p \in Process,
             Tier2Matcher(p) \/ Tier2Load(p) \/ Tier2Commit(p) \/ Tier3Select(p)
               \/ Tier3Commit(p)
      PROVE  IInv'
  BY <1>3, Tier2MatcherStep, Tier2LoadStep, Tier2CommitStep, Tier3SelectStep, Tier3CommitStep
<1>4. ASSUME NEW p \in Process, PromoteGroups(p) \/ PromoteCommit(p)
      PROVE  IInv'
  BY <1>4, PromoteGroupsStep, PromoteCommitStep
<1>5. ASSUME NEW p \in Process, NEW m \in Merchant, PromoteDecisions(p, m) \/ PromoteEntry(p, m)
      PROVE  IInv'
  BY <1>5, PromoteDecisionsStep, PromoteEntryStep
<1>6. ASSUME NEW p \in Process, NEW t \in Txn, NEW c \in Category, Recategorize(p, t, c)
      PROVE  IInv'
  BY <1>6, RecategorizeStep
<1>7. ASSUME NEW p \in Process,
             RecategorizeOnly(p) \/ RecategorizeLookup(p) \/ RecategorizeCommit(p)
      PROVE  IInv'
  BY <1>7, RecategorizeOnlyStep, RecategorizeLookupStep, RecategorizeCommitStep
<1>8. ASSUME NEW p \in Process, NEW t \in Txn, Split(p, t)
      PROVE  IInv'
  BY <1>8, SplitStep
<1>9. ASSUME NEW p \in Process, SplitCommit(p)
      PROVE  IInv'
  BY <1>9, SplitCommitStep
<1>10. ASSUME NEW t \in Txn, Unsplit(t)
       PROVE  IInv'
  BY <1>10, UnsplitStep
<1>11. CASE UNCHANGED vars
  BY <1>11, NobodyMoves DEF vars
<1>12. QED
  BY <1>1, <1>2, <1>3, <1>4, <1>5, <1>6, <1>7, <1>8, <1>9, <1>10, <1>11 DEF Next, Work

THEOREM Invariance == Spec => []IInv
BY InitIInv, NextIInv, PTL DEF Spec

-----------------------------------------------------------------------------
(* Every table row and every request keeps its type.                       *)
THEOREM TypeCorrect == Spec => []TypeOK
<1>1. IInv => TypeOK
  BY DEF IInv
<1>2. QED
  BY <1>1, Invariance, PTL

(* The LLM is asked about a merchant that the upload's own matcher knew    *)
(* only if a split has cleared that transaction's category in between      *)
(* (service.py:70-74, tier3.py:32-41).                                     *)
THEOREM LearntIsUsed == Spec => []ClosedLoop
<1>1. IInv => ClosedLoop
  BY DEF IInv, AllFit, Fits, ClosedLoop
<1>2. QED
  BY <1>1, Invariance, PTL

(* A correction of a transaction that has a merchant, and a promotion, are *)
(* never on record without the lookup row that they teach; of a            *)
(* transaction without a merchant nothing is ever decided or taught        *)
(* (service.py:84-107, tier3.py:43-51, promotion.py:52-74).                *)
THEOREM TaughtWithTheTaught == Spec => []TaughtTogether
<1>1. IInv => TaughtTogether
  BY DEF IInv, Tables
<1>2. QED
  BY <1>1, Invariance, PTL

(* No merchant has fewer promoted decisions than the threshold, but none   *)
(* at all, however many jobs overlap (promotion.py:28-47).                 *)
THEOREM ByThreshold == Spec => []PromotedByThreshold
<1>1. IInv => PromotedByThreshold
  BY DEF IInv, Tables
<1>2. QED
  BY <1>1, Invariance, PTL

=============================================================================
