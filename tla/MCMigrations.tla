---------------------------- MODULE MCMigrations ----------------------------
(* Instances of Migrations for TLC: processes are interchangeable.          *)
EXTENDS Migrations, TLC

ProcsSymmetry == Permutations(Procs)
=============================================================================
