----------------------------- MODULE MCSessions -----------------------------
(* Model of Sessions: users, families and requests are interchangeable.    *)
EXTENDS Sessions, TLC

Symmetry == Permutations(User) \cup Permutations(Family) \cup Permutations(Request)
=============================================================================
