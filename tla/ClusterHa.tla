----------------------------- MODULE ClusterHa -----------------------------
(***************************************************************************)
(* The cluster page (pages/ClusterPage.tsx) and POST /cluster/ha-control   *)
(* (backend/app/main.py, ha_control.py): choose a cluster, arm or disarm   *)
(* its HA stack.                                                           *)
(*                                                                         *)
(* The page shows the last dashboard answer, which may lack a cluster (its *)
(* nodes did not answer, or the whole answer failed) or its HA state.  The *)
(* request names the cluster that is effective when it is confirmed, which *)
(* an answer that came after the question may have changed.                *)
(***************************************************************************)
EXTENDS Integers, FiniteSets

CONSTANTS
  Clusters,     \* cluster infrastructures, in the order of their names
  None

Modes == {"freeze", "ignore"}
HaActions == {"arm", "disarm"}

ClusterAssumption ==
  /\ Clusters \subseteq Nat /\ None \notin Clusters
  /\ None \notin Modes /\ None \notin HaActions

\* What the dashboard may say of the fencing of a cluster.
Seen == {"absent", "unknown", "armed", "disarmed"}

VARIABLES
  armed,        \* the clusters whose HA stack is armed
  seen,         \* the dashboard answer on the page
  cluster,      \* selectedInfrastructureId
  asked,        \* haConfirmAction, or None
  mode,         \* haResourceMode
  picked,       \* the user picked this mode in this dialog
  control       \* the POST in flight and the refetch after it, or None

vars == <<armed, seen, cluster, asked, mode, picked, control>>

TypeOK ==
  /\ armed \subseteq Clusters
  /\ seen \in [Clusters -> Seen]
  /\ cluster \in Clusters \cup {None}
  /\ asked \in HaActions \cup {None}
  /\ mode \in Modes /\ picked \in BOOLEAN
  /\ control \in [infra : Clusters, action : HaActions,
                  mode : Modes \cup {None}, picked : BOOLEAN,
                  done : BOOLEAN] \cup {None}

\* A choice remembered from an earlier visit is one made before an answer.
Init == /\ armed = Clusters
        /\ seen = [c \in Clusters |-> "absent"]
        /\ cluster = None
        /\ asked = None /\ mode = "freeze" /\ picked = FALSE
        /\ control = None

Listed == {c \in Clusters : seen[c] # "absent"}

\* effectiveInfrastructureId: the choice if it is listed, else the first.
Effective == IF cluster \in Listed THEN cluster
             ELSE IF Listed = {} THEN None
             ELSE CHOOSE c \in Listed : \A d \in Listed : c <= d

-----------------------------------------------------------------------------

\* A dashboard answer, the refetch after a success among them.
DashboardAnswer(s) ==
  /\ \A c \in Clusters :
       s[c] \in {"absent", "unknown",
                 IF c \in armed THEN "armed" ELSE "disarmed"}
  /\ seen' = s
  /\ control' = IF control # None /\ control.done THEN None ELSE control
  /\ UNCHANGED <<armed, cluster, asked, mode, picked>>

SelectInfrastructure(c) ==
  /\ asked = None /\ c \in Listed
  /\ cluster' = c
  /\ UNCHANGED <<armed, seen, asked, mode, picked, control>>

\* "Arm HA" or "Disarm HA", by what the page shows of the fencing.
Ask ==
  /\ asked = None /\ control = None /\ Effective # None
  /\ \/ seen[Effective] = "armed" /\ asked' = "disarm" /\ mode' = "freeze"
     \/ seen[Effective] = "disarmed" /\ asked' = "arm" /\ UNCHANGED mode
  /\ picked' = FALSE
  /\ UNCHANGED <<armed, seen, cluster, control>>

\* The dialog is on the screen as long as some cluster is listed.
Open == asked # None /\ Effective # None

PickMode(m) == /\ Open /\ asked = "disarm"
               /\ mode' = m /\ picked' = TRUE
               /\ UNCHANGED <<armed, seen, cluster, asked, control>>

Cancel == /\ Open /\ control = None
          /\ asked' = None
          /\ UNCHANGED <<armed, seen, cluster, mode, picked, control>>

\* runHaAction
Confirm ==
  /\ Open /\ control = None
  /\ control' = [infra |-> Effective, action |-> asked,
                 mode |-> IF asked = "disarm" THEN mode ELSE None,
                 picked |-> picked, done |-> FALSE]
  /\ UNCHANGED <<armed, seen, cluster, asked, mode, picked>>

\* The command on the first node of the cluster.
Commanded == IF control.action = "arm" THEN armed \cup {control.infra}
             ELSE armed \ {control.infra}

\* A success closes the dialog and asks for the dashboard; a failure, which
\* may come after the command had its effect, leaves the dialog open.
Answer ==
  /\ control # None /\ ~control.done
  /\ \/ /\ armed' = Commanded /\ asked' = None
        /\ control' = [control EXCEPT !.done = TRUE]
     \/ /\ armed' \in {armed, Commanded} /\ control' = None
        /\ UNCHANGED asked
  /\ UNCHANGED <<seen, cluster, mode, picked>>

\* Another operator, or the shell of a node.
ArmElsewhere(c) ==
  /\ armed' = (armed \cup {c}) \ (armed \cap {c})
  /\ UNCHANGED <<seen, cluster, asked, mode, picked, control>>

-----------------------------------------------------------------------------

Next == \/ Ask \/ Cancel \/ Confirm \/ Answer
        \/ \E s \in [Clusters -> Seen] : DashboardAnswer(s)
        \/ \E c \in Clusters : SelectInfrastructure(c) \/ ArmElsewhere(c)
        \/ \E m \in Modes : PickMode(m)

Spec == Init /\ [][Next]_vars

-----------------------------------------------------------------------------

\* Resources are dropped from HA ("ignore") only if the user picked that in
\* the very dialog that was confirmed, whatever was picked and cancelled
\* before; an arm carries no mode.
ModeAsPicked ==
  control # None => /\ control.mode = "ignore" => control.picked
                    /\ (control.mode = None) = (control.action = "arm")
=============================================================================
