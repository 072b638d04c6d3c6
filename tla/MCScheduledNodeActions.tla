----------------------- MODULE MCScheduledNodeActions -----------------------
(***************************************************************************)
(* Finite instances of ScheduledNodeActions for TLC.                       *)
(***************************************************************************)
EXTENDS ScheduledNodeActions, TLC

CONSTANTS n1, n2

Symmetry == Permutations(Nodes)
=============================================================================
