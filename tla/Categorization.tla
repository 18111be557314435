--------------------------- MODULE Categorization ---------------------------
(***************************************************************************)
(* How transactions get a category: the merchant lookup (Tier 2), the LLM  *)
(* fallback (Tier 3), the promotion job, manual corrections and splits     *)
(* (services/categorization/{service,tier3,promotion}.py and               *)
(* services/transaction_service.py).                                       *)
(*                                                                         *)
(* Each request has a database session of its own, at READ COMMITTED.  A   *)
(* step is a SELECT or a commit; what the request read before is in its    *)
(* process record.  The ORM writes back only the columns whose value it    *)
(* changed since it loaded the row (operator Write); an UPDATE that it     *)
(* flushes early locks the row and is seen by nobody until the commit, so  *)
(* the model has it take effect there.                                     *)
(*                                                                         *)
(* A merchant is a cleaned merchant string.  Cleaning may leave nothing of *)
(* what a statement says (a bare reference number): such transactions have *)
(* merchant Empty, which is never matched, asked about or taught.          *)
(*                                                                         *)
(* A transaction has splits here or it has none: their amounts are in      *)
(* Spending.                                                               *)
(***************************************************************************)
EXTENDS Naturals, Sequences, FiniteSets

CONSTANTS Txn, Merchant, Category,
          Statement,
          StatementOf,   \* StatementOf[t]: the statement that holds t
          MerchantOf,    \* MerchantOf[t]: clean_merchant_string(raw_merchant)
          Empty,         \* the cleaned string with nothing in it
          Process,       \* requests that can be in flight together
          NoCategory,    \* NULL
          Threshold,     \* settings.llm_promotion_min_occurrences
          MaxLog         \* bound: rows of llm_decision_log per merchant

ASSUME CategorizationAssumption ==
    /\ StatementOf \in [Txn -> Statement]
    /\ MerchantOf \in [Txn -> Merchant]
    /\ Empty \in Merchant
    /\ NoCategory \notin Category
    /\ Threshold \in Nat \ {0}
    /\ MaxLog \in Nat

VARIABLES stored,   \* rows of table transactions
          cell,     \* their columns category and categorization_method
          split,    \* transactions with rows in transaction_splits
          lookup,   \* table merchant_lookup, by raw_pattern
          log,      \* table llm_decision_log, per merchant in order of insertion
          undone,   \* history: transactions whose category a split cleared
          proc      \* proc[p]: progress of request p

vars == <<stored, cell, split, lookup, log, undone, proc>>

Value == Category \cup {NoCategory}

(* "rule" stands for rule_exact and rule_fuzzy.                            *)
Method == {"null", "rule", "llm", "manual_user_correction"}

Cell == [category : Value, method : Method]

Unresolved == [category |-> NoCategory, method |-> "null"]

Origin == {"none", "seed", "user_correction", "llm_promotion"}

Entry == [category : Value, match_type : Origin]

NoEntry == [category |-> NoCategory, match_type |-> "none"]

Lookup == [Merchant -> Entry]

Decision == [category : Category, promoted : BOOLEAN]

PC == {"idle", "tier2", "match", "apply", "tier3", "ask", "groups", "decisions",
       "entry", "recategorize", "upsert", "split"}

(* txns: the transactions the request works on; loaded: their columns as   *)
(* last selected; known: lookup rows as last selected; category: what the  *)
(* user or the promotion chose; groups: merchants yet to be promoted;      *)
(* rows: the decisions selected of each merchant to promote.               *)
Proc == [pc : PC, txns : SUBSET Txn, loaded : [Txn -> Cell], known : Lookup,
         category : [Merchant -> Value], groups : SUBSET Merchant,
         rows : [Merchant -> SUBSET (1..MaxLog)]]

Idle == [pc |-> "idle", txns |-> {}, loaded |-> [t \in Txn |-> Unresolved],
         known |-> [m \in Merchant |-> NoEntry],
         category |-> [m \in Merchant |-> NoCategory], groups |-> {},
         rows |-> [m \in Merchant |-> {}]]

(* The seeds have a pattern.                                               *)
Init ==
    /\ stored = {}
    /\ cell = [t \in Txn |-> Unresolved]
    /\ split = {}
    /\ lookup \in [Merchant -> {NoEntry} \cup
                      [category : Category, match_type : {"seed"}]]
    /\ lookup[Empty] = NoEntry
    /\ log = [m \in Merchant |-> << >>]
    /\ undone = {}
    /\ proc = [p \in Process |-> Idle]

-----------------------------------------------------------------------------

(* "if cleaned:"                                                           *)
HasMerchant(t) == MerchantOf[t] # Empty

Finish(p) == proc' = [proc EXCEPT ![p] = Idle]

(* An UPDATE by the unit of work: of the row "now" in the table, it sets   *)
(* the columns in which "new" differs from the row as it was loaded.       *)
Write(now, old, new) ==
    [c \in DOMAIN now |-> IF new[c] = old[c] THEN now[c] ELSE new[c]]

(* A SELECT of the transactions T.                                         *)
Rows(T) == [t \in Txn |-> IF t \in T THEN cell[t] ELSE Unresolved]

(* The state of merchant_lookup after an upsert of m.  old is the row the  *)
(* SELECT found, so an INSERT may hit the unique index on raw_pattern.     *)
Upsert(m, old, c, type) ==
    LET new == [category |-> c, match_type |-> type]
    IN  IF old = NoEntry THEN new ELSE Write(lookup[m], old, new)

Duplicate(m, old) == old = NoEntry /\ lookup[m] # NoEntry

-----------------------------------------------------------------------------
(* Upload: Tier 1 has committed the transactions of a statement.  Tier 2   *)
(* reads the lookup, then the transactions, and commits its matches.       *)

Upload(p, s) ==
    LET T == {t \in Txn : StatementOf[t] = s}
    IN  /\ proc[p].pc = "idle"
        /\ T \cap stored = {}
        /\ stored' = stored \cup T
        /\ proc' = [proc EXCEPT ![p].pc = "tier2", ![p].txns = T]
        /\ UNCHANGED <<cell, split, lookup, log, undone>>

Tier2Matcher(p) ==
    /\ proc[p].pc = "tier2"
    /\ proc' = [proc EXCEPT ![p].pc = "match", ![p].known = lookup]
    /\ UNCHANGED <<stored, cell, split, lookup, log, undone>>

Tier2Load(p) ==
    /\ proc[p].pc = "match"
    /\ proc' = [proc EXCEPT ![p].pc = "apply", ![p].loaded = Rows(proc[p].txns)]
    /\ UNCHANGED <<stored, cell, split, lookup, log, undone>>

(* Mutation: rows that came from the promotion job are not matched.        *)
OutcomesUnpromoted(known, m) ==
    IF known[m].match_type \in {"seed", "user_correction"}
    THEN {known[m].category}
    ELSE {NoCategory}

(* What the fuzzy score may put close enough to a merchant, or nothing.    *)
Similar(known, m) ==
    {NoCategory} \cup {known[n].category : n \in {n \in Merchant : m # Empty}}

(* MerchantMatcher.match: the merchant's own row if there is one, else a   *)
(* similar one.                                                            *)
Outcomes(known, m) ==
    IF m # Empty /\ known[m] # NoEntry
    THEN {known[m].category}
    ELSE Similar(known, m)

Tier2Commit(p) ==
    /\ proc[p].pc = "apply"
    /\ \E outcome \in [Merchant -> Value] :
        /\ \A m \in Merchant : outcome[m] \in Outcomes(proc[p].known, m)
        /\ cell' = [t \in Txn |->
             IF t \in proc[p].txns /\ outcome[MerchantOf[t]] # NoCategory
             THEN Write(cell[t], proc[p].loaded[t],
                        [category |-> outcome[MerchantOf[t]], method |-> "rule"])
             ELSE cell[t]]
    /\ proc' = [proc EXCEPT ![p].pc = "tier3", ![p].loaded = Idle.loaded]
    /\ UNCHANGED <<stored, split, lookup, log, undone>>

-----------------------------------------------------------------------------
(* Tier 3: select what is unresolved, ask the LLM (the request waits for   *)
(* the answer, batch after batch), commit the answers.                     *)

(* Mutation: a transaction is asked about whether it has a merchant or not.*)
StillUnresolvedEmpty(p) == {t \in proc[p].txns : cell[t].method = "null"}

StillUnresolved(p) ==
    {t \in proc[p].txns : cell[t].method = "null" /\ HasMerchant(t)}

Tier3Select(p) ==
    /\ proc[p].pc = "tier3"
    /\ StillUnresolved(p) # {}
    /\ proc' = [proc EXCEPT ![p].pc = "ask",
                            ![p].txns = StillUnresolved(p),
                            ![p].loaded = Rows(StillUnresolved(p))]
    /\ UNCHANGED <<stored, cell, split, lookup, log, undone>>

(* Nothing left to ask about, or no API key: not even the promotion job    *)
(* runs.                                                                   *)
Tier3Nothing(p) ==
    /\ proc[p].pc = "tier3"
    /\ Finish(p)
    /\ UNCHANGED <<stored, cell, split, lookup, log, undone>>

(* What the model says about a merchant: nothing (also when the call of    *)
(* its batch failed), a category, or two if it lists the merchant twice.   *)
Answers ==
    {<< >>} \cup {<<c>> : c \in Category} \cup {<<c, d>> : c, d \in Category}

Logged(a) == [i \in DOMAIN a |-> [category |-> a[i], promoted |-> FALSE]]

Tier3Commit(p) ==
    /\ proc[p].pc = "ask"
    /\ \E answer \in [{MerchantOf[t] : t \in proc[p].txns} -> Answers] :
        /\ \A m \in DOMAIN answer : Len(log[m]) + Len(answer[m]) <= MaxLog
        /\ cell' = [t \in Txn |->
             IF t \in proc[p].txns /\ answer[MerchantOf[t]] # << >>
             THEN LET a == answer[MerchantOf[t]]
                  IN  Write(cell[t], proc[p].loaded[t],
                            [category |-> a[Len(a)], method |-> "llm"])
             ELSE cell[t]]
        /\ log' = [m \in Merchant |->
             IF m \in DOMAIN answer THEN log[m] \o Logged(answer[m]) ELSE log[m]]
    /\ proc' = [proc EXCEPT ![p] = [Idle EXCEPT !.pc = "groups"]]
    /\ UNCHANGED <<stored, split, lookup, undone>>

-----------------------------------------------------------------------------
(* The promotion job, at the end of Tier 3 and behind an endpoint of its   *)
(* own.  It selects the merchants that qualify; for each of them its       *)
(* decisions and its lookup row; and commits everything at the end.        *)

(* Mutation: the filter on column promoted is forgotten.                   *)
UnpromotedOrNot(m) == DOMAIN log[m]

Unpromoted(m) == {i \in DOMAIN log[m] : ~log[m][i].promoted}

(* Mutation: the threshold is passed one decision too early.               *)
QualifyingEarly ==
    {m \in Merchant :
        /\ Cardinality(Unpromoted(m)) + 1 >= Threshold
        /\ Cardinality({log[m][i].category : i \in Unpromoted(m)}) = 1}

Qualifying ==
    {m \in Merchant :
        /\ Cardinality(Unpromoted(m)) >= Threshold
        /\ Cardinality({log[m][i].category : i \in Unpromoted(m)}) = 1}

PromoteGroups(p) ==
    /\ proc[p].pc \in {"idle", "groups"}
    /\ proc' = [proc EXCEPT ![p] =
                [Idle EXCEPT !.pc = "decisions", !.groups = Qualifying]]
    /\ UNCHANGED <<stored, cell, split, lookup, log, undone>>

(* decisions[0] of a SELECT without ORDER BY is any of the rows.           *)
PromoteDecisions(p, m) ==
    /\ proc[p].pc = "decisions"
    /\ m \in proc[p].groups
    /\ \E first \in Unpromoted(m) :
        proc' = [proc EXCEPT ![p].pc = "entry",
                             ![p].rows[m] = Unpromoted(m),
                             ![p].category[m] = log[m][first].category]
    /\ UNCHANGED <<stored, cell, split, lookup, log, undone>>

PromoteEntry(p, m) ==
    /\ proc[p].pc = "entry"
    /\ m \in proc[p].groups
    /\ proc[p].rows[m] # {}
    /\ proc' = [proc EXCEPT ![p].pc = "decisions",
                            ![p].groups = @ \ {m},
                            ![p].known[m] = lookup[m]]
    /\ UNCHANGED <<stored, cell, split, lookup, log, undone>>

Promoted(p) == {m \in Merchant : proc[p].rows[m] # {}}

PromoteCommit(p) ==
    /\ proc[p].pc = "decisions"
    /\ proc[p].groups = {}
    /\ \A m \in Promoted(p) : ~Duplicate(m, proc[p].known[m])
    /\ lookup' = [m \in Merchant |->
         IF m \in Promoted(p)
         THEN Upsert(m, proc[p].known[m], proc[p].category[m], "llm_promotion")
         ELSE lookup[m]]
    /\ log' = [m \in Merchant |->
         [i \in DOMAIN log[m] |->
            [log[m][i] EXCEPT !.promoted = @ \/ i \in proc[p].rows[m]]]]
    /\ Finish(p)
    /\ UNCHANGED <<stored, cell, split, undone>>

(* The job dies: another one has promoted the decisions since the groups   *)
(* were selected (decisions[0] of an empty list), or inserted the row.     *)
PromoteFail(p) ==
    /\ proc[p].pc = "decisions"
    /\ \/ \E m \in proc[p].groups : Unpromoted(m) = {}
       \/ /\ proc[p].groups = {}
          /\ \E m \in Promoted(p) : Duplicate(m, proc[p].known[m])
    /\ Finish(p)
    /\ UNCHANGED <<stored, cell, split, lookup, log, undone>>

-----------------------------------------------------------------------------
(* What the user does to one transaction.                                  *)

(* recategorize_transaction: select the row, select the lookup row of its  *)
(* merchant if it has one, write both in one commit.                       *)
Recategorize(p, t, c) ==
    /\ proc[p].pc = "idle"
    /\ t \in stored
    /\ proc' = [proc EXCEPT ![p] =
                [Idle EXCEPT !.pc = "recategorize", !.txns = {t}, !.loaded = Rows({t}),
                             !.category[MerchantOf[t]] = c]]
    /\ UNCHANGED <<stored, cell, split, lookup, log, undone>>

(* Nothing to teach: the transaction alone is written.                     *)
RecategorizeOnly(p) ==
    /\ proc[p].pc = "recategorize"
    /\ \E t \in proc[p].txns :
        /\ ~HasMerchant(t)
        /\ cell' = [cell EXCEPT ![t] =
             Write(@, proc[p].loaded[t], [category |-> proc[p].category[MerchantOf[t]],
                                          method |-> "manual_user_correction"])]
    /\ Finish(p)
    /\ UNCHANGED <<stored, split, lookup, log, undone>>

RecategorizeLookup(p) ==
    /\ proc[p].pc = "recategorize"
    /\ \A t \in proc[p].txns : HasMerchant(t)
    /\ proc' = [proc EXCEPT ![p].pc = "upsert", ![p].known =
                [m \in Merchant |-> IF \E t \in proc[p].txns : m = MerchantOf[t]
                                    THEN lookup[m] ELSE NoEntry]]
    /\ UNCHANGED <<stored, cell, split, lookup, log, undone>>

(* Mutation: the lookup row gets the constant meant for transactions.      *)
RecategorizeCommitMethod(p) ==
    /\ proc[p].pc = "upsert"
    /\ \E t \in proc[p].txns :
        LET m == MerchantOf[t]
            c == proc[p].category[m]
        IN  /\ ~Duplicate(m, proc[p].known[m])
            /\ cell' = [cell EXCEPT ![t] =
                 Write(@, proc[p].loaded[t],
                       [category |-> c, method |-> "manual_user_correction"])]
            /\ lookup' = [lookup EXCEPT ![m] =
                 Upsert(m, proc[p].known[m], c, "manual_user_correction")]
    /\ Finish(p)
    /\ UNCHANGED <<stored, split, log, undone>>

(* Mutation: a merchant without a lookup row is not taught.                *)
RecategorizeCommitUntaught(p) ==
    /\ proc[p].pc = "upsert"
    /\ \E t \in proc[p].txns :
        LET m == MerchantOf[t]
            c == proc[p].category[m]
        IN  /\ cell' = [cell EXCEPT ![t] =
                 Write(@, proc[p].loaded[t],
                       [category |-> c, method |-> "manual_user_correction"])]
            /\ lookup' = [lookup EXCEPT ![m] =
                 IF proc[p].known[m] = NoEntry THEN @
                 ELSE Upsert(m, proc[p].known[m], c, "user_correction")]
    /\ Finish(p)
    /\ UNCHANGED <<stored, split, log, undone>>

RecategorizeCommit(p) ==
    /\ proc[p].pc = "upsert"
    /\ \E t \in proc[p].txns :
        LET m == MerchantOf[t]
            c == proc[p].category[m]
        IN  /\ ~Duplicate(m, proc[p].known[m])
            /\ cell' = [cell EXCEPT ![t] =
                 Write(@, proc[p].loaded[t],
                       [category |-> c, method |-> "manual_user_correction"])]
            /\ lookup' = [lookup EXCEPT ![m] =
                 Upsert(m, proc[p].known[m], c, "user_correction")]
    /\ Finish(p)
    /\ UNCHANGED <<stored, split, log, undone>>

(* Lost the race to insert the lookup row: the correction is rolled back.  *)
RecategorizeFail(p) ==
    /\ proc[p].pc = "upsert"
    /\ \E t \in proc[p].txns : Duplicate(MerchantOf[t], proc[p].known[MerchantOf[t]])
    /\ Finish(p)
    /\ UNCHANGED <<stored, cell, split, lookup, log, undone>>

(* split_transaction: select the row, then replace its allocations and     *)
(* clear its category in one commit.                                       *)
Split(p, t) ==
    /\ proc[p].pc = "idle"
    /\ t \in stored
    /\ proc' = [proc EXCEPT ![p] =
                [Idle EXCEPT !.pc = "split", !.txns = {t}, !.loaded = Rows({t})]]
    /\ UNCHANGED <<stored, cell, split, lookup, log, undone>>

SplitCommit(p) ==
    /\ proc[p].pc = "split"
    /\ split' = split \cup proc[p].txns
    /\ undone' = undone \cup proc[p].txns
    /\ cell' = [t \in Txn |->
         IF t \in proc[p].txns THEN Write(cell[t], proc[p].loaded[t], Unresolved)
                               ELSE cell[t]]
    /\ Finish(p)
    /\ UNCHANGED <<stored, lookup, log>>

(* unsplit_transaction uses nothing it read: one step.                     *)
Unsplit(t) ==
    /\ t \in split
    /\ split' = split \ {t}
    /\ UNCHANGED <<stored, cell, lookup, log, undone, proc>>

(* Every request but splitting.                                            *)
Work(p) ==
    \/ \E s \in Statement : Upload(p, s)
    \/ Tier2Matcher(p) \/ Tier2Load(p) \/ Tier2Commit(p)
    \/ Tier3Select(p) \/ Tier3Nothing(p) \/ Tier3Commit(p)
    \/ PromoteGroups(p) \/ PromoteCommit(p) \/ PromoteFail(p)
    \/ \E m \in Merchant : PromoteDecisions(p, m) \/ PromoteEntry(p, m)
    \/ \E t \in Txn, c \in Category : Recategorize(p, t, c)
    \/ RecategorizeOnly(p)
    \/ RecategorizeLookup(p) \/ RecategorizeCommit(p) \/ RecategorizeFail(p)

Next ==
    \/ \E p \in Process :
        \/ Work(p)
        \/ \E t \in Txn : Split(p, t)
        \/ SplitCommit(p)
    \/ \E t \in Txn : Unsplit(t)

Spec == Init /\ [][Next]_vars

-----------------------------------------------------------------------------
(* Types.  The two constants for "corrected by the user" are different     *)
(* words, one for transactions and one for lookup rows (constants.py).     *)
TypeOK ==
    /\ stored \subseteq Txn
    /\ cell \in [Txn -> Cell]
    /\ split \subseteq stored
    /\ undone \subseteq stored
    /\ lookup \in Lookup
    /\ \A m \in Merchant : log[m] \in Seq(Decision) /\ Len(log[m]) <= MaxLog
    /\ proc \in [Process -> Proc]

(* The closed loop: the LLM is never asked about a merchant that had a     *)
(* lookup row when this upload built its matcher, whether the row was a    *)
(* seed, a correction or a promotion, unless a split cleared the category  *)
(* in between (service.py:70-74, tier3.py:32-41).                          *)
ClosedLoop ==
    \A p \in Process : proc[p].pc = "ask" =>
        \A t \in proc[p].txns :
            proc[p].known[MerchantOf[t]] = NoEntry \/ t \in undone

(* A correction and what it teaches are one commit: while a transaction    *)
(* counts as corrected, its merchant is in the lookup if it has one; the   *)
(* same for the decisions of a merchant that count as promoted.  Nothing   *)
(* is ever decided about, or taught for, a transaction without a merchant  *)
(* (service.py:84-107, tier3.py:43-51, promotion.py:52-74).                *)
TaughtTogether ==
    /\ \A t \in Txn : cell[t].method = "manual_user_correction" /\ HasMerchant(t) =>
            lookup[MerchantOf[t]] # NoEntry
    /\ \A m \in Merchant : Unpromoted(m) # DOMAIN log[m] => lookup[m] # NoEntry
    /\ lookup[Empty] = NoEntry /\ log[Empty] = << >>

(* Decisions are promoted by the threshold or not at all, also when two    *)
(* jobs run at once, one of which counted decisions that the other has     *)
(* promoted by the time it reads them (promotion.py:28-47).                *)
PromotedByThreshold ==
    \A m \in Merchant :
        LET promoted == DOMAIN log[m] \ Unpromoted(m)
        IN  promoted # {} => Cardinality(promoted) >= Threshold

(* A transaction has a category exactly if it has a method, which is what  *)
(* marks it resolved (tier3.py:37).  Requests that work on it at the same  *)
(* time can break this: each writes only the columns it changed.           *)
CategoryHasMethod(t) == cell[t].category = NoCategory <=> cell[t].method = "null"

=============================================================================
