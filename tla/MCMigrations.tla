---------------------------- MODULE MCMigrations ----------------------------
(* A rolling deployment: one process of the old release with two versions,    *)
(* one of the new release with three, and its migration job.                  *)
EXTENDS Migrations, TLC

CONSTANTS old, new, migrate

MCRelease == (old :> 2) @@ (new :> 3) @@ (migrate :> 3)
=============================================================================
