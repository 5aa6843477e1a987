-------------------------- MODULE MCMigrationMedia --------------------------
(* The instance of MigrationMedia for TLC: the workers are alike.           *)
EXTENDS MigrationMedia, TLC

WorkersAlike == Permutations(Workers)
=============================================================================
