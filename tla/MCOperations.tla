--------------------------- MODULE MCOperations ----------------------------
(***************************************************************************)
(* Finite instances of Operations for TLC: the configuration gives the     *)
(* constants directly.                                                     *)
(***************************************************************************)
EXTENDS Operations
=============================================================================
