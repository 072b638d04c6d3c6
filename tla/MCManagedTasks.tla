--------------------------- MODULE MCManagedTasks ---------------------------
(***************************************************************************)
(* Finite instances of ManagedTasks for TLC.                               *)
(***************************************************************************)
EXTENDS ManagedTasks, TLC

CONSTANTS n1, n2

Symmetry == Permutations(Nodes)
=============================================================================
