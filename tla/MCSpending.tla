----------------------------- MODULE MCSpending -----------------------------
(* Values for TLC: two statements that share a merchant, so that what one  *)
(* teaches the other can use; the second one also holds a transaction with *)
(* no merchant.  A cent is two units.  t1 is a purchase of two cents a     *)
(* month ago, t2 a deposit of one cent dated in the month after today's,   *)
(* t3 a purchase of one cent today.                                        *)
EXTENDS Spending, TLC

CONSTANTS t1, t2, t3, s1, s2, m1, c1, r1

MCStatementOf == [t \in Txn |-> IF t = t1 THEN s1 ELSE s2]
MCMerchantOf == [t \in Txn |-> IF t = t3 THEN Empty ELSE m1]
MCRawMerchant == [t \in Txn |-> r1]

MCAmount == [t \in Txn |-> CASE t = t1 -> -4 [] t = t2 -> 2 [] t = t3 -> -2]
MCDate == [t \in Txn |-> CASE t = t1 -> 1 [] t = t2 -> 5 [] t = t3 -> 3]

Rows2(a, b) == <<[category |-> c1, amount |-> a], [category |-> c1, amount |-> b]>>

(* Of t1: in whole cents, one that is stored and two that are refused.     *)
MCAllocation ==
    [t \in Txn |->
       IF t = t1 THEN {Rows2(-2, -2), Rows2(-2, -6), SubSeq(Rows2(-4, 0), 1, 1)}
       ELSE {}]

Distance(a, b) == IF a < b THEN b - a ELSE a - b

(* Rounding picks the nearest whole cent, and of two the one further from  *)
(* zero.                                                                   *)
ASSUME RoundedIsNearest ==
    \A a \in -9..9, k \in -6..6 :
        LET r == Rounded(a)
            b == Cent * k
        IN  /\ r % Cent = 0
            /\ Distance(a, r) <= Distance(a, b)
            /\ Distance(a, r) = Distance(a, b) => Distance(b, 0) <= Distance(r, 0)

MCPeriod == {Days(0, 3)}

Symmetry == Permutations(Process)
=============================================================================
