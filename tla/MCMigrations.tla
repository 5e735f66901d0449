---------------------------- MODULE MCMigrations ----------------------------
(* Migrations, run by the service and by a seed process.                   *)
EXTENDS Migrations
=============================================================================
