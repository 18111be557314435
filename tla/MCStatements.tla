---------------------------- MODULE MCStatements ----------------------------
(* Values for TLC.  Symmetry is declared by the runs without liveness.     *)
EXTENDS Statements, TLC

Symmetry == Permutations(Process) \cup Permutations(Statement)
=============================================================================
