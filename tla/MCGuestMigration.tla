-------------------------- MODULE MCGuestMigration --------------------------
(***************************************************************************)
(* Finite instances of GuestMigration for TLC.                             *)
(***************************************************************************)
EXTENDS GuestMigration

CONSTANTS d1, d2, v1, v2
=============================================================================
