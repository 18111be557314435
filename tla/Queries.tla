------------------------------ MODULE Queries ------------------------------
(***************************************************************************)
(* The queries over a user's transactions: the spending views of the       *)
(* dashboard (services/transaction_service.py) and the templates behind    *)
(* "ask your finances" (services/text_to_sql/{templates,service}.py).      *)
(*                                                                         *)
(* A table is a set of records.  T: rows of transactions, all of one user, *)
(* with fields txn, category, amount, date and merchant; category and      *)
(* merchant (normalized_merchant) may be NULL, which the results call      *)
(* "uncategorized".  S: rows of transaction_splits, with fields txn,       *)
(* category and amount.  Months have equal lengths here: the code only     *)
(* compares dates, truncates them to the month, and steps from one first   *)
(* of the month to another.                                                *)
(*                                                                         *)
(* The dashboard counts the splits of a transaction instead of its own     *)
(* category; the templates know nothing of splits.                         *)
(***************************************************************************)
EXTENDS Integers, Sequences, FiniteSetsExt

CONSTANTS NoMerchant,     \* NULL
          AnyCategory,    \* no filter on the category
          MonthDays,      \* days of a month
          Today

ASSUME QueriesAssumption == MonthDays \in Nat \ {0} /\ Today \in Nat

Month(day) == day \div MonthDays

(* The days from one to the other, both included.                          *)
Days(first, last) == [start |-> first, end |-> last]

In(r, p) == p.start <= r.date /\ r.date <= p.end

Total(R) == SumFunction([r \in R |-> r.amount])

(* abs(SUM(amount)) of rows that are all negative.                         *)
Spend(R) == -Total(R)

(* GROUP BY a key of the rows.                                             *)
GroupSpend(R, Key(_)) ==
    [k \in {Key(r) : r \in R} |-> Spend({r \in R : Key(r) = k})]

(* ORDER BY SUM(amount) LIMIT n: of equal sums, any may be left out.       *)
TopOf(totals, n) ==
    LET size == IF n < Cardinality(DOMAIN totals) THEN n ELSE Cardinality(DOMAIN totals)
    IN  CHOOSE K \in SUBSET DOMAIN totals :
            /\ Cardinality(K) = size
            /\ \A k \in K, l \in DOMAIN totals \ K : totals[k] >= totals[l]

At(totals, k) == IF k \in DOMAIN totals THEN totals[k] ELSE 0

(* The trailing months, ending with that of today.                         *)
Trailing(months) == (Month(Today) + 1 - months)..Month(Today)

FirstDay(months) == (Month(Today) + 1 - months) * MonthDays

-----------------------------------------------------------------------------
(* The dashboard.  Each view of spending runs two SELECTs: one over the    *)
(* transactions without splits, one over the splits.                       *)

SplitIds(S) == {s.txn : s \in S}

PlainRows(T, S, p) ==
    {r \in T : In(r, p) /\ r.amount < 0 /\ r.txn \notin SplitIds(S)}

SplitRows(T, S, p) ==
    {s \in S : s.amount < 0 /\ \E r \in T : r.txn = s.txn /\ In(r, p)}

ByCategory(R) == GroupSpend(R, LAMBDA r : r.category)

SpendingByCategory(plain, splits) ==
    [c \in DOMAIN plain \cup DOMAIN splits |-> At(plain, c) + At(splits, c)]

(* The view that has no end: it adds up all rows from the first of its     *)
(* months on, and shows the months up to this one.                         *)
SpendingTrend(T, S, months) ==
    LET since == {r \in T : r.date >= FirstDay(months)}
        ever  == Days(FirstDay(months), Max({FirstDay(months)} \cup {r.date : r \in T}))
        DateOf(s) == (CHOOSE r \in since : r.txn = s.txn).date
        plain  == GroupSpend(PlainRows(since, S, ever), LAMBDA r : Month(r.date))
        splits == GroupSpend(SplitRows(since, S, ever), LAMBDA s : Month(DateOf(s)))
    IN  [m \in Trailing(months) |-> At(plain, m) + At(splits, m)]

-----------------------------------------------------------------------------
(* The templates, and what an answer carries: rows, here one function per  *)
(* template from what a row is about to its number.                        *)

SpendFilters(T, p, c) ==
    {r \in T : r.amount < 0 /\ In(r, p) /\ (c # AnyCategory => r.category = c)}

TotalSpend(T, q) == Spend(SpendFilters(T, q.period, q.category))

RunByCategory(T, q) ==
    ByCategory(SpendFilters(T, q.period, q.category))

RunTopMerchants(T, q) ==
    LET totals == GroupSpend({r \in SpendFilters(T, q.period, q.category) :
                                  r.merchant # NoMerchant},
                             LAMBDA r : r.merchant)
    IN  [m \in TopOf(totals, q.limit) |-> totals[m]]

RunCompare(T, q) ==
    LET a == Spend(SpendFilters(T, q.period, q.category))
        b == Spend(SpendFilters(T, q.other, q.category))
    IN  [a |-> a, b |-> b, change |-> b - a]

(* Mutation: the window starts a month late.                               *)
RunTrendShort(T, q) ==
    LET totals == GroupSpend(
            SpendFilters(T, Days(FirstDay(q.limit) + MonthDays, Today), q.category),
            LAMBDA r : Month(r.date))
    IN  [m \in Trailing(q.limit) |-> At(totals, m)]

RunTrend(T, q) ==
    LET totals == GroupSpend(
            SpendFilters(T, Days(FirstDay(q.limit), Today), q.category),
            LAMBDA r : Month(r.date))
    IN  [m \in Trailing(q.limit) |-> At(totals, m)]

RunLargest(T, q) ==
    LET totals == GroupSpend(SpendFilters(T, q.period, q.category), LAMBDA r : r.txn)
    IN  [t \in TopOf(totals, q.limit) |-> totals[t]]

-----------------------------------------------------------------------------
(* answer_question.  A selection is what the language model returns: a     *)
(* template, whether its confidence reaches the minimum, and parameters    *)
(* that the template's model may refuse.                                   *)

Template == {"total_spend_in_period", "spend_by_category_in_period",
             "top_merchants_in_period", "compare_spend_between_periods",
             "monthly_spend_trend", "largest_transactions"}

Ordered(p) == p.start <= p.end

(* limit is the number of rows, or of months of a trend.                   *)
Accepts(q) ==
    /\ q.template # "monthly_spend_trend" => Ordered(q.period)
    /\ q.template = "compare_spend_between_periods" => Ordered(q.other)
    /\ q.template \in {"top_merchants_in_period", "largest_transactions"} =>
            q.limit \in 1..50
    /\ q.template = "monthly_spend_trend" => q.limit \in 1..24

Answered(q) == q.template \in Template /\ q.confident /\ Accepts(q)

Answer(T, q) ==
    CASE q.template = "total_spend_in_period"         -> [total |-> TotalSpend(T, q)]
      [] q.template = "spend_by_category_in_period"   -> RunByCategory(T, q)
      [] q.template = "top_merchants_in_period"       -> RunTopMerchants(T, q)
      [] q.template = "compare_spend_between_periods" -> RunCompare(T, q)
      [] q.template = "monthly_spend_trend"           -> RunTrend(T, q)
      [] q.template = "largest_transactions"          -> RunLargest(T, q)

=============================================================================
