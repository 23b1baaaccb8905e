-------------------------- MODULE MCPolymarketSync --------------------------
(* PolymarketSync as it is: a liveness property allows no symmetry.         *)
EXTENDS PolymarketSync
=============================================================================
