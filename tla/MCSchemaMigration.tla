------------------------- MODULE MCSchemaMigration -------------------------
(* Constants and symmetry for the runs of SchemaMigration.                 *)
EXTENDS SchemaMigration, TLC

CONSTANTS old, new1, new2

MCRunners == {old, new1, new2}
\* One process of the image that is being replaced, two of the new one.
MCImage == [r \in MCRunners |-> IF r = old THEN 2 ELSE 4]
MCDataOnly == {3}

Symmetry == Permutations({new1, new2})
=============================================================================
