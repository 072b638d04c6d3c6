----------------------------- MODULE Selection -----------------------------
(***************************************************************************)
(* What a page promises that loads something about what is selected: the   *)
(* answer on the screen is about the selection, or there is none.          *)
(*                                                                         *)
(* Abstract: SchedulerEditor (the archives and snapshots of the guest that *)
(* is chosen) and NodeViews (the data of the node that is chosen) are      *)
(* shown to implement it.                                                  *)
(***************************************************************************)
CONSTANTS
  Things,     \* what can be selected
  None

VARIABLES
  selected,
  shown       \* the thing the answer on the screen is about

vars == <<selected, shown>>

Init == selected \in Things \cup {None} /\ shown = None

\* Something else, or nothing: its answer may be at hand, another's goes.
Select(x) == selected' = x /\ shown' \in {None, x}

\* The answer about the selection arrives.
Show == selected # None /\ shown' = selected /\ UNCHANGED selected

\* A failure, or a reason not to show anything.
Clear == shown' = None /\ UNCHANGED selected

Next == (\E x \in Things \cup {None} : Select(x)) \/ Show \/ Clear

Spec == Init /\ [][Next]_vars
=============================================================================
