----------------------------- MODULE MCSzdmJob -----------------------------
(* Constants for the runs of SzdmJob.                                      *)
EXTENDS SzdmJob, TLC

CONSTANTS i1, i2, i3

AllRequests == RequestKinds
AllFaults == FaultKinds
Symmetry == Permutations(Items)
=============================================================================
