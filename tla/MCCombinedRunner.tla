-------------------------- MODULE MCCombinedRunner --------------------------
(* CombinedRunner as it is: its only constant is a number.                 *)
EXTENDS CombinedRunner
=============================================================================
