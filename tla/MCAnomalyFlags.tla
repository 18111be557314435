--------------------------- MODULE MCAnomalyFlags ---------------------------
(* Values for TLC: every transaction is of the same merchant and category. *)
EXTENDS AnomalyFlags, TLC

CONSTANTS t1, t2, s1

MCSig == [t \in {t1, t2} |-> s1]

Symmetry == Permutations(Request) \cup Permutations(Txn)
=============================================================================
