---------------------------- MODULE MCMigration ----------------------------
(* Migration on a small instance.                                          *)
EXTENDS Migration

CONSTANTS m1, m2, m3
=============================================================================
