-------------------------- MODULE MCScheduledTasks --------------------------
(***************************************************************************)
(* Finite instances of ScheduledTasks for TLC.                             *)
(***************************************************************************)
EXTENDS ScheduledTasks

CONSTANT t1
=============================================================================
