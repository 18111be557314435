--------------------------- MODULE SignConvention ---------------------------
(***************************************************************************)
(* Which way the money went: services/parsing/sign_convention.py, called   *)
(* by both row parsers.  Banks print amounts in several conventions; the   *)
(* result is signed, positive for money that came in.                      *)
(*                                                                         *)
(* A row is what parse_amount made of its cells: a number, or None where   *)
(* there is no cell or nothing to read.  Rows are indexed by their place   *)
(* in the file; day[i] is the parsed date of row i.                        *)
(***************************************************************************)
EXTENDS Integers

CONSTANTS None,
          Tolerance   \* BALANCE_DELTA_TOLERANCE, in the unit of the amounts

ASSUME SignAssumption == None \notin Int /\ Tolerance \in Nat

Magnitude(x) == IF x < 0 THEN -x ELSE x

OrZero(x) == IF x = None THEN 0 ELSE x

(* Rows whose amount cell can be read.                                     *)
Amounted(rows) == {i \in DOMAIN rows : rows[i].amount # None}

Moving(rows) ==
    {i \in DOMAIN rows : OrZero(rows[i].debit) # 0 \/ OrZero(rows[i].credit) # 0}

(* The first convention that applies, in the order of resolve_signs.       *)
Convention(roles, rows) ==
    IF {"debit", "credit"} \subseteq roles THEN "separate_debit_credit_columns"
    ELSE IF \E i \in Amounted(rows) : rows[i].amount < 0 THEN "debit_negative_single_column"
    ELSE IF "sign_indicator" \in roles THEN "single_column_sign_indicator"
    ELSE IF "balance" \in roles THEN "single_column_balance_inferred"
    ELSE "single_column_assume_debit"

-----------------------------------------------------------------------------
(* Balances: in date order, then file order, the difference to the balance *)
(* before tells the sign if it matches the amount.                         *)

(* Mutation: rows are compared in file order.                              *)
BeforeInFile(i, j, day) == i < j

Before(i, j, day) == day[i] < day[j] \/ (day[i] = day[j] /\ i < j)

Chained(rows) == {i \in Amounted(rows) : rows[i].balance # None}

Earlier(i, rows, day) == {j \in Chained(rows) : Before(j, i, day)}

Delta(i, rows, day) ==
    LET earlier == Earlier(i, rows, day)
        last == CHOOSE j \in earlier : \A k \in earlier \ {j} : Before(k, j, day)
    IN  rows[i].balance - rows[last].balance

Inferred(rows, day) ==
    {i \in Chained(rows) :
        /\ Earlier(i, rows, day) # {}
        /\ Delta(i, rows, day) # 0
        /\ Magnitude(Magnitude(Delta(i, rows, day)) - Magnitude(rows[i].amount)) <= Tolerance}

-----------------------------------------------------------------------------
(* An indicator cell says "cr", "dr" or something else.                    *)
Unrecognized(rows) == {i \in Amounted(rows) : rows[i].indicator \notin {"cr", "dr"}}

InflowRows(convention, rows, day) ==
    CASE convention = "debit_negative_single_column" ->
            {i \in Amounted(rows) : rows[i].amount >= 0}
      [] convention = "single_column_sign_indicator" ->
            {i \in Amounted(rows) : rows[i].indicator = "cr"}
      [] convention = "single_column_balance_inferred" ->
            {i \in Inferred(rows, day) : Delta(i, rows, day) > 0}
      [] convention = "single_column_assume_debit" -> {}

(* Signed amounts by row; a row without one becomes a parse failure.       *)
Signed(convention, rows, day) ==
    IF convention = "separate_debit_credit_columns"
    THEN [i \in Moving(rows) |-> OrZero(rows[i].credit) - Magnitude(OrZero(rows[i].debit))]
    ELSE LET inflow == InflowRows(convention, rows, day)
         IN  [i \in Amounted(rows) |->
                IF i \in inflow THEN Magnitude(rows[i].amount) ELSE -Magnitude(rows[i].amount)]

(* What was assumed and not known is said in a warning.                    *)
Warned(convention, rows, day) ==
    \/ convention = "single_column_sign_indicator" /\ Unrecognized(rows) # {}
    \/ /\ convention = "single_column_balance_inferred"
       /\ Amounted(rows) \ Inferred(rows, day) # {}
    \/ convention = "single_column_assume_debit"

-----------------------------------------------------------------------------
(* Files whose rows are a ledger: each balance is the one before it plus   *)
(* what the bank meant.  Amounts are printed without a sign, the oldest    *)
(* row first or the newest row first.                                      *)

Printed(rows, meant, n) ==
    /\ DOMAIN rows = 1..n
    /\ \A i \in 1..n :
        /\ meant[i] \in Int \ {0}
        /\ rows[i].amount = Magnitude(meant[i])
        /\ rows[i].balance \in Int

OldestFirst(rows, meant, day, n) ==
    /\ Printed(rows, meant, n)
    /\ \A i \in 1..n : day[i] \in Int
    /\ \A i, j \in 1..n : i < j => day[i] <= day[j]
    /\ \A i \in 2..n : rows[i].balance = rows[i - 1].balance + meant[i]

NewestFirst(rows, meant, day, n) ==
    /\ Printed(rows, meant, n)
    /\ \A i \in 1..n : day[i] \in Int
    /\ \A i, j \in 1..n : i < j => day[i] > day[j]
    /\ \A i \in 1..(n - 1) : rows[i].balance = rows[i + 1].balance + meant[i]

(* Every row but the oldest has the sign that the bank meant.              *)
SignTold(signed, meant, n, oldest) ==
    \A i \in (1..n) \ {oldest} : i \in DOMAIN signed /\ signed[i] = meant[i]
=============================================================================
