----------------------------- MODULE MCMigrate -----------------------------
(***************************************************************************)
(* Two managers, one of which the command takes over from.                 *)
(***************************************************************************)
EXTENDS MigrateProps
=============================================================================
