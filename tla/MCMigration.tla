---------------------------- MODULE MCMigration ----------------------------
(***************************************************************************)
(* Three ids: a row, one deleted before the migration, one issued after.   *)
(***************************************************************************)
EXTENDS Migration

MCIds == 1 .. 3
MCOldColumns == {"id", "name"}
=============================================================================
