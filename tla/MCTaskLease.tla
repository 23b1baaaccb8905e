---------------------------- MODULE MCTaskLease ----------------------------
(* Constants and symmetry for the runs of TaskLease.                       *)
EXTENDS TaskLease, TLC

CONSTANTS t1, t2, w1, w2

\* Every handler registry knows every task type.
HandlesAll == [w \in Workers |-> Tasks]

\* w2 runs a profile whose registry lacks the type of t1.
HandlesPart == [w \in Workers |-> IF w = w2 THEN Tasks \ {t1} ELSE Tasks]

Symmetry == Permutations(Workers) \cup Permutations(Tasks)
=============================================================================
