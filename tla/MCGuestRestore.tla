--------------------------- MODULE MCGuestRestore ---------------------------
(***************************************************************************)
(* Finite instances of GuestRestore for TLC: its constants are sets of     *)
(* strings, which the configurations give directly.                        *)
(***************************************************************************)
EXTENDS GuestRestore
=============================================================================
