---------------------------- MODULE MCFrontend ----------------------------
(***************************************************************************)
(* A finite instance of Frontend: two infrastructures, the second with two *)
(* nodes, one of them with the name of the node of the first.              *)
(***************************************************************************)
EXTENDS Frontend

MCInfra == [n1 |-> 1, m1 |-> 2, m2 |-> 2]
MCName == [n1 |-> "pve", m1 |-> "pve", m2 |-> "b"]
MCHome == [a |-> "n1", b |-> "m1"]
MCPlace == [b |-> "m1", c |-> "m2"]
MCDashboards == {{"n1", "m1", "m2"}, {"n1", "m2"}}

\* A task of each infrastructure.
MCOf == [t1 |-> 1, t2 |-> 2]
=============================================================================
