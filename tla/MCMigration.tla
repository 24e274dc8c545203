---------------------------- MODULE MCMigration ----------------------------
(* MigrationRehearsal with its sources and layer ids interchangeable. *)
EXTENDS MigrationRehearsal, TLC

Symmetry == Permutations(Path) \cup Permutations(LayerId)
=============================================================================
