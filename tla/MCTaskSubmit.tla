---------------------------- MODULE MCTaskSubmit ----------------------------
(* Constants for the runs of TaskSubmit: one schedule of every tick, one of *)
(* every second tick, whose first run may be asked for by hand.             *)
EXTENDS TaskSubmit, TLC

CONSTANTS s1, s2

Intervals == s1 :> 1 @@ s2 :> 2
FirstRuns == s1 :> 1 @@ s2 :> 1
HandRuns == {<<s2, 1>>}
=============================================================================
