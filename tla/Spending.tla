------------------------------ MODULE Spending ------------------------------
(***************************************************************************)
(* The allocations of split transactions, with their amounts, and what the *)
(* spending view and the answers show of them while requests overlap       *)
(* (services/transaction_service.py, composed with Categorization and      *)
(* Queries).                                                               *)
(*                                                                         *)
(* split_transaction takes three steps here: SELECT of the transaction,    *)
(* DELETE of the splits it has, commit of the new ones.  A DELETE removes  *)
(* the rows that were committed when it ran; what another split commits    *)
(* after that stays.                                                       *)
(*                                                                         *)
(* Amounts are integers in fractions of a cent.  A request is checked as   *)
(* it comes; the columns are Numeric(14, 2) and round to whole cents.      *)
(***************************************************************************)
EXTENDS Categorization, Queries

CONSTANTS RawMerchant, \* RawMerchant[t]: column raw_merchant
          Amount,     \* Amount[t]: column amount, a whole number of cents
          Date,       \* Date[t]: column date
          Cent,       \* the fractions that make a cent
          Allocation, \* Allocation[t]: the lists of splits a user may ask for
          Period      \* the periods a view or a question may be about

(* A file has finitely many transactions.                                  *)
ASSUME SpendingAssumption ==
    /\ \A s \in Statement : IsFiniteSet({t \in Txn : StatementOf[t] = s})
    /\ Amount \in [Txn -> Int]
    /\ Date \in [Txn -> Nat]
    /\ Cent \in Nat \ {0}
    /\ \A t \in Txn :
          Allocation[t] \subseteq Seq([category : Category, amount : Int])

VARIABLES alloc,      \* alloc[t][p]: rows of t in transaction_splits that the
                      \* last split of request slot p inserted
          request,    \* what a split in progress will write
          view,       \* the spending view between its two SELECTs
          contested   \* history: merchants that two requests had in hand at once,
                      \* or a promotion job that died

spendingVars == <<vars, alloc, request, view, contested>>

NoRequest == [rows |-> << >>, seen |-> {}, deleted |-> FALSE]

(* moved: history, a split came or went since the first SELECT; answer:    *)
(* what the templates would have answered at the first SELECT; exact: no   *)
(* split then was off its transaction's amount.                            *)
Closed == [open |-> FALSE, period |-> Days(0, 0), plain |-> << >>, moved |-> FALSE,
           answer |-> << >>, exact |-> FALSE]

Busy == {p \in Process : proc[p].pc # "idle"}

Several(S) == \E p, q \in S : p # q

SpendingInit ==
    /\ Init
    /\ alloc = [t \in Txn |-> [p \in Process |-> << >>]]
    /\ request = [p \in Process |-> NoRequest]
    /\ view = Closed
    /\ contested = {}

-----------------------------------------------------------------------------
(* The tables, as the queries see them.  normalized_merchant is set by the *)
(* commit of Tier 2: "cleaned or raw_merchant".  (It takes the name of the *)
(* lookup row of a match instead, and a correction that overtakes Tier 2   *)
(* sets it early: left out, since the queries only group by it.)           *)

Named(t) ==
    \A p \in Process : t \in proc[p].txns => proc[p].pc \notin {"tier2", "match", "apply"}

NormalizedMerchant(t) == IF HasMerchant(t) THEN MerchantOf[t] ELSE RawMerchant[t]

Transactions ==
    {[txn |-> t, category |-> cell[t].category, amount |-> Amount[t], date |-> Date[t],
      merchant |-> IF Named(t) THEN NormalizedMerchant(t) ELSE NoMerchant] : t \in stored}

RowsOf(t) ==
    UNION {{[txn |-> t, by |-> p, index |-> i, category |-> alloc[t][p][i].category,
             amount |-> alloc[t][p][i].amount] : i \in DOMAIN alloc[t][p]} : p \in Process}

Splits == UNION {RowsOf(t) : t \in Txn}

-----------------------------------------------------------------------------
(* split_transaction and unsplit_transaction.                              *)

Sum(splits) == SumFunction([i \in DOMAIN splits |-> splits[i].amount])

Valid(t, splits) == Len(splits) >= 2 /\ Sum(splits) = Amount[t]

(* To whole cents, half a cent away from zero.                             *)
Rounded(a) ==
    LET cents(b) == (2 * b + Cent) \div (2 * Cent)
    IN  IF a < 0 THEN -(Cent * cents(-a)) ELSE Cent * cents(a)

Stored(splits) == [i \in DOMAIN splits |-> [splits[i] EXCEPT !.amount = Rounded(@)]]

SplitSelect(p, t, splits) ==
    /\ Split(p, t)
    /\ Valid(t, splits)
    /\ request' = [request EXCEPT ![p] = [NoRequest EXCEPT !.rows = splits]]
    /\ UNCHANGED <<alloc, view>>

(* Mutation: the rows of an earlier split are left where they are.         *)
SplitDeleteNothing(p) ==
    /\ proc[p].pc = "split"
    /\ ~request[p].deleted
    /\ request' = [request EXCEPT ![p].deleted = TRUE]
    /\ UNCHANGED <<vars, alloc, view>>

SplitDelete(p) ==
    /\ proc[p].pc = "split"
    /\ ~request[p].deleted
    /\ request' = [request EXCEPT
         ![p].deleted = TRUE,
         ![p].seen = {q \in Process : \E t \in proc[p].txns : alloc[t][q] # << >>}]
    /\ UNCHANGED <<vars, alloc, view>>

Moved == view' = [view EXCEPT !.moved = view.open]

SplitStore(p) ==
    /\ SplitCommit(p)
    /\ request[p].deleted
    /\ alloc' = [t \in Txn |->
         IF t \notin proc[p].txns THEN alloc[t]
         ELSE [q \in Process |->
                 IF q = p THEN Stored(request[p].rows)
                 ELSE IF q \in request[p].seen THEN << >> ELSE alloc[t][q]]]
    /\ request' = [q \in Process |->
         IF q = p THEN NoRequest
         ELSE IF proc[q].txns = proc[p].txns
              THEN [request[q] EXCEPT !.seen = @ \ {p}] ELSE request[q]]
    /\ Moved

Remove(t) ==
    /\ Unsplit(t)
    /\ alloc' = [alloc EXCEPT ![t] = [p \in Process |-> << >>]]
    /\ UNCHANGED request
    /\ Moved

-----------------------------------------------------------------------------
(* get_spending_by_category: one SELECT over the transactions without      *)
(* splits, then one over the splits, each of what is committed by then.    *)

Batches(t) == {p \in Process : alloc[t][p] # << >>}

(* The splits of t add up to its amount, and keep its sign.                *)
Exact(t) ==
    /\ Total(RowsOf(t)) = Amount[t]
    /\ \A r \in RowsOf(t) : /\ r.amount < 0 => Amount[t] < 0
                            /\ r.amount > 0 => Amount[t] > 0

(* Mutation: the transactions that have splits are counted as well.        *)
ViewPlainAll(period) ==
    /\ ~view.open
    /\ view' = [open |-> TRUE, period |-> period, moved |-> FALSE,
                plain |-> ByCategory(PlainRows(Transactions, {}, period)),
                answer |-> ByCategory(SpendFilters(Transactions, period, AnyCategory)),
                exact |-> \A t \in split : Exact(t) /\ cell[t].category = NoCategory]
    /\ UNCHANGED <<vars, alloc, request>>

ViewPlain(period) ==
    /\ ~view.open
    /\ view' = [open |-> TRUE, period |-> period, moved |-> FALSE,
                plain |-> ByCategory(PlainRows(Transactions, Splits, period)),
                answer |-> ByCategory(SpendFilters(Transactions, period, AnyCategory)),
                exact |-> \A t \in split : Exact(t) /\ cell[t].category = NoCategory]
    /\ UNCHANGED <<vars, alloc, request>>

Shown ==
    SpendingByCategory(view.plain,
                       ByCategory(SplitRows(Transactions, Splits, view.period)))

ViewSplits ==
    /\ view.open
    /\ view' = Closed
    /\ UNCHANGED <<vars, alloc, request>>

-----------------------------------------------------------------------------
(* The history: which merchants two requests had in hand at once.          *)

(* The merchants that a promotion job is going to teach, ...               *)
Promoting(r) ==
    IF r.pc = "groups" THEN Qualifying ELSE r.groups \cup {m \in Merchant : r.rows[m] # {}}

(* ... and all that matter to a request.                                   *)
InHand(r) == {MerchantOf[t] : t \in r.txns} \cup Promoting(r)

(* What a job that dies in this step was going to teach.                   *)
Dropped == UNION {Promoting(proc[p]) : p \in {q \in Process : PromoteFail(q)}}

Meet ==
    contested' = contested \cup Dropped \cup
        {m \in Merchant : Several({p \in Process : m \in InHand(proc[p])'})}

(* A view counts as one of the requests in flight.                         *)
SpendingNext ==
    /\ \/ /\ \E p \in Process : Work(p)
          /\ UNCHANGED <<alloc, request, view>>
       \/ \E p \in Process, t \in Txn :
            \E splits \in Allocation[t] : SplitSelect(p, t, splits)
       \/ \E p \in Process : SplitDelete(p) \/ SplitStore(p)
       \/ \E t \in Txn : Remove(t)
       \/ \E period \in Period : ViewPlain(period)
       \/ ViewSplits
    /\ Cardinality(Busy') + (IF view'.open THEN 1 ELSE 0) <= Cardinality(Process)
    /\ Meet

SpendingSpec == SpendingInit /\ [][SpendingNext]_spendingVars

-----------------------------------------------------------------------------
Crossed == {t \in Txn : MerchantOf[t] \in contested}

(* A transaction has a category exactly if it has a method, which is what  *)
(* marks it resolved (tier3.py:37), and a correction stays what the        *)
(* merchant was taught, if there is one, whatever the tiers and the        *)
(* promotion job do meanwhile (service.py:84-107, promotion.py:55), unless *)
(* two requests had this merchant in hand at once: each writes only the    *)
(* columns it changed, from a row it read before.  Or unless a job that    *)
(* had it died: it leaves decisions that a later job promotes over the     *)
(* correction.                                                             *)
CorrectionsKept ==
    \A t \in Txn \ Crossed :
        /\ CategoryHasMethod(t)
        /\ cell[t].method = "manual_user_correction" /\ HasMerchant(t) =>
              lookup[MerchantOf[t]].match_type = "user_correction"

(* There are rows exactly for the transactions that count as split, and    *)
(* they come from one request, unless two had its merchant in hand at once.*)
OneBatch ==
    /\ split = {t \in Txn : Batches(t) # {}}
    /\ \A t \in Txn \ Crossed : ~Several(Batches(t))

(* Every allocation a user asks of t is in whole cents.                    *)
InCents(t) ==
    \A splits \in Allocation[t] :
        \A i \in DOMAIN splits : splits[i].amount % Cent = 0

(* The splits of a transaction sum exactly to its amount, however it has   *)
(* been split, split again and unsplit (transaction_service.py:121-176),   *)
(* if they were asked for in whole cents and no two requests had its       *)
(* merchant in hand at once.                                               *)
AllocationsAddUp ==
    /\ OneBatch
    /\ \A t \in split \ Crossed : InCents(t) => Total(RowsOf(t)) = Amount[t]

(* "Split amounts must sum exactly to the parent's amount (validated at    *)
(* write time in the service, not by a DB constraint)"                     *)
(* (IMPLEMENTATION.md:396-398; the same in transaction_service.py:121-123  *)
(* and models/transaction_split.py:14-15).  Violated: two requests that    *)
(* split a transaction at once leave the rows of both.                     *)
SplitsSumUp ==
    \A t \in split : Total(RowsOf(t)) = Amount[t]

(* The spending view and the templates agree on the total of a period, and *)
(* the view gives no category less than the templates do, if no split came *)
(* or went between the view's two SELECTs, the splits are exact and their  *)
(* transactions have no category of their own (transaction_service.py:     *)
(* 200-227 against templates.py:107-131).                                  *)
DashboardAgrees ==
    [][view.open /\ ~view'.open /\ ~view.moved /\ view.exact =>
        /\ SumFunction(Shown) = SumFunction(view.answer)
        /\ \A c \in Category : At(view.answer, c) <= At(Shown, c)]_view

(* What the templates answer about the period of an open view fits         *)
(* together, whatever has been categorized or split by then: the rows of a *)
(* breakdown add up to the total, a category's row is that category's      *)
(* total, the months of a trend are its window, a comparison is of two     *)
(* totals; and while nothing is split or dated after today, the trend is   *)
(* that of the dashboard (templates.py:147-322).                           *)
AnswersAgree ==
    view.open => \A c \in Category \cup {AnyCategory} :
        LET T == Transactions
            q(template, p, n) == [template |-> template, confident |-> TRUE, period |-> p,
                                  other |-> Days(0, Today), category |-> c, limit |-> n]
            Told(template, n) == Answer(T, q(template, view.period, n))
            total == Told("total_spend_in_period", 1).total
            parts == Told("spend_by_category_in_period", 1)
            two   == Told("compare_spend_between_periods", 1)
            trend == Told("monthly_spend_trend", 2)
        IN  Answered(q("compare_spend_between_periods", view.period, 1)) =>
            /\ SumFunction(parts) = total
            /\ c # AnyCategory => parts \in {<< >>, [d \in {c} |-> total]}
            /\ SumFunction(Told("top_merchants_in_period", 1)) <= total
            /\ SumFunction(Told("largest_transactions", Cardinality(T))) = total
            /\ two.change = two.b - total
            /\ SumFunction(trend) = TotalSpend(T, q("", Days(FirstDay(2), Today), 2))
            /\ c = AnyCategory /\ split = {} /\ (\A t \in stored : Date[t] <= Today) =>
                  trend = SpendingTrend(T, Splits, 2)

=============================================================================
