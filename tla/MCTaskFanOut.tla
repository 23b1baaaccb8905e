---------------------------- MODULE MCTaskFanOut ----------------------------
(* Constants for the runs of TaskFanOut.                                   *)
EXTENDS TaskFanOut, TLC

AllRequests == RequestKinds
AllFaults == FaultKinds
Symmetry == Permutations(Aggregates)
=============================================================================
