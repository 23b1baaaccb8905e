-------------------------- MODULE MCRuntimeConfig --------------------------
(* Symmetry for the run of RuntimeConfig: clients are interchangeable.      *)
EXTENDS RuntimeConfig, TLC

Symmetry == Permutations(Clients)
=============================================================================
