---------------------------- MODULE NodeActions ----------------------------
(***************************************************************************)
(* Actions on Proxmox nodes, from the card of a node to the handler that   *)
(* starts the task: pages/NodesPage.tsx with components/NodeCard.tsx,      *)
(* NodeUpdatesModal.tsx, and the routes                                    *)
(* /node/action, /node/maintenance and /node/batch-action of app/main.py.  *)
(* DashboardPage.tsx shows the same cards without their buttons, so its    *)
(* hooks/useNodeActions.ts and NodeActionModal.tsx have nothing to do.     *)
(*                                                                         *)
(* The page works on the last dashboard answer (a poll every ten seconds), *)
(* other users change the cluster meanwhile.                               *)
(***************************************************************************)
EXTENDS Integers, FiniteSets, Sequences

CONSTANTS
  Nodes,      \* the nodes ProxPilot knows
  Home,       \* Home[n]: the infrastructure of node n
  Standalone, \* the infrastructures that are no cluster
  Actions,    \* the node actions looked at
  MaxPosts,   \* bound: requests posted by this page
  None

Infras == {Home[n] : n \in Nodes}
NodesOf(i) == {n \in Nodes : Home[n] = i}

NodeActionsAssumption ==
  /\ Standalone \subseteq Infras /\ None \notin Nodes /\ None \notin Infras
  /\ Actions \subseteq {"check-updates", "install-updates", "package-cleanup",
                        "reboot", "shutdown"}
  /\ MaxPosts \in Nat

BatchActions == Actions \cap {"check-updates", "install-updates",
                              "package-cleanup"}
Maintenance == {"enable", "disable"}

VARIABLES
  maint,     \* nodes in HA maintenance mode
  shown,     \* the dashboard's answer: its nodes, those in maintenance, offline
  selected,  \* the infrastructure chosen (and kept in localStorage)
  updates,   \* the node whose updates are on the screen
  confirm,   \* confirmState: the dialog's node, as listed when it was opened
  batch,     \* the batch dialog's action
  running,   \* actionRunning, batchStarting: the page waits for an answer
  requests   \* the requests posted, and how far the server is with each

vars == <<maint, shown, selected, updates, confirm, batch, running, requests>>
dialogs == <<updates, confirm, batch>>

Dialog == [node : Nodes, action : Actions \cup Maintenance, maint : BOOLEAN]
Request == [nodes : SUBSET Nodes, action : Actions \cup Maintenance,
            ack : BOOLEAN, told : SUBSET {"text", "alert"},
            found : BOOLEAN, at : {"sent", "found", "accepted", "refused"}]

TypeOK ==
  /\ maint \subseteq Nodes
  /\ shown \in [nodes : SUBSET Nodes, maint : SUBSET Nodes, down : SUBSET Nodes]
  /\ selected \in Infras \cup {None}
  /\ updates \in Nodes \cup {None}
  /\ confirm \in Dialog \cup {None}
  /\ batch \in BatchActions \cup {None}
  /\ running \in BOOLEAN
  /\ requests \in Seq(Request) /\ Len(requests) <= MaxPosts

\* A standalone node is never in maintenance mode.
CanMaintain == {n \in Nodes : Home[n] \notin Standalone}

Init == /\ maint = {} /\ shown = [nodes |-> Nodes, maint |-> {}, down |-> {}]
        /\ selected = None
        /\ updates = None /\ confirm = None /\ batch = None
        /\ running = FALSE /\ requests = <<>>

-----------------------------------------------------------------------------
\* The cluster and the dashboard.

\* Another user, or the task of a request, switches maintenance mode.
Switch(n) == /\ n \in CanMaintain
             /\ maint' = IF n \in maint THEN maint \ {n} ELSE maint \cup {n}
             /\ UNCHANGED <<shown, selected, updates, confirm, batch, running, requests>>

\* An answer of /dashboard. An infrastructure that is gone has no nodes in it,
\* the nodes of one that does not answer are listed as disconnected.
Refresh == /\ \E gone \in (SUBSET Infras) \ {Infras}, down \in SUBSET Nodes :
                LET there == {n \in Nodes : Home[n] \notin gone}
                IN shown' = [nodes |-> there, maint |-> maint \cap there,
                             down |-> down \cap there]
           /\ UNCHANGED <<maint, selected, updates, confirm, batch, running, requests>>

-----------------------------------------------------------------------------
\* The page.

\* effectiveInfrastructureId: a choice that is not listed falls back to the
\* first infrastructure.
Listed == {Home[n] : n \in shown.nodes}
Effective == IF selected \in Listed THEN selected
             ELSE CHOOSE i \in Listed : TRUE
OnPage == shown.nodes \cap NodesOf(Effective)

NoDialog == updates = None /\ confirm = None /\ batch = None

Select(i) == /\ NoDialog /\ i \in Listed
             /\ selected' = i
             /\ UNCHANGED <<maint, shown, updates, confirm, batch, running, requests>>

OpenUpdates(n) == /\ NoDialog /\ n \in OnPage
                  /\ updates' = n
                  /\ UNCHANGED <<maint, shown, selected, confirm, batch,
                                 running, requests>>

CloseUpdates == /\ updates # None /\ ~running
                /\ updates' = None
                /\ UNCHANGED <<maint, shown, selected, confirm, batch, running, requests>>

\* A button of the node's card. Maintenance can be switched only on a cluster.
AskOf(n, a) == [node |-> n, action |-> a, maint |-> n \in shown.maint]
Ask(n, a) ==
  /\ NoDialog /\ ~running /\ n \in OnPage \ shown.down
  /\ a \in Maintenance =>
       n \in CanMaintain /\ (a = "enable" <=> n \notin shown.maint)
  /\ confirm' = AskOf(n, a)
  /\ UNCHANGED <<maint, shown, selected, updates, batch, running, requests>>

\* A button of the updates dialog, which shows the node as it was listed then.
AskFromUpdates(a) ==
  /\ updates # None /\ ~running
  /\ a \in Actions \cap {"check-updates", "install-updates"}
  /\ confirm' = AskOf(updates, a) /\ updates' = None
  /\ UNCHANGED <<maint, shown, selected, batch, running, requests>>

AskBatch(a) == /\ NoDialog /\ a \in BatchActions /\ OnPage # {}
               /\ batch' = a
               /\ UNCHANGED <<maint, shown, selected, updates, confirm, running, requests>>

\* Cancel, Escape and a click outside do nothing while a request runs.
Close == /\ confirm # None \/ batch # None
         /\ ~running
         /\ confirm' = None /\ batch' = None
         /\ UNCHANGED <<maint, shown, selected, updates, running, requests>>

\* Mutant of Acknowledges: every shutdown does, whatever the dialog said.
AcknowledgesAlways(d) == d.action = "shutdown"

\* Where the dialog says that guests will not be moved: in its text for a node
\* of a cluster (getActionText), in the alert below for any node.
Warnings(d) == IF d.action # "shutdown" \/ d.maint THEN {}
               ELSE {"alert"} \cup (IF d.node \in CanMaintain THEN {"text"} ELSE {})

\* Confirm of a node's dialog. The request acknowledges a shutdown without
\* maintenance mode, on a node that stands alone too.
Acknowledges(d) == d.action = "shutdown" /\ ~d.maint
Post(r) == /\ ~running /\ Len(requests) < MaxPosts
           /\ running' = TRUE /\ requests' = Append(requests, r)
           /\ UNCHANGED <<maint, shown, selected, updates, confirm, batch>>

Confirm == /\ confirm # None
           /\ Post([nodes |-> {confirm.node}, action |-> confirm.action,
                    ack |-> Acknowledges(confirm), told |-> Warnings(confirm),
                    found |-> FALSE, at |-> "sent"])

\* Confirm of the batch dialog: the nodes the page lists at that moment.
RunBatch == /\ batch # None /\ OnPage # {}
            /\ Post([nodes |-> OnPage, action |-> batch, ack |-> FALSE,
                     told |-> {}, found |-> FALSE, at |-> "sent"])

-----------------------------------------------------------------------------
\* The handlers. They run on when the browser gave up after 30 seconds.

Step(i, at) == /\ requests' = [requests EXCEPT ![i].at = at]
               /\ UNCHANGED <<shown, selected, dialogs, running>>

\* A shutdown without acknowledgement asks Proxmox for the LRM states first.
NeedsCheck(r) == r.action = "shutdown" /\ ~r.ack
Check(i) ==
  /\ requests[i].at = "sent" /\ NeedsCheck(requests[i])
  /\ \/ /\ requests[i].nodes \subseteq maint
        /\ requests' = [requests EXCEPT ![i].at = "found", ![i].found = TRUE]
        /\ UNCHANGED <<shown, selected, dialogs, running>>
     \/ Step(i, "refused")
  /\ UNCHANGED maint

\* The task manager takes the task, or refuses it (node_action's 409).
Start(i) ==
  /\ requests[i].action \notin Maintenance
  /\ requests[i].at = IF NeedsCheck(requests[i]) THEN "found" ELSE "sent"
  /\ Step(i, "accepted") \/ Step(i, "refused")
  /\ UNCHANGED maint

\* /node/maintenance waits for the switch itself.
SetMaintenance(i) ==
  /\ requests[i].action \in Maintenance /\ requests[i].at = "sent"
  /\ \/ /\ maint' = IF requests[i].action = "enable"
                    THEN maint \cup requests[i].nodes
                    ELSE maint \ requests[i].nodes
        /\ Step(i, "accepted")
     \/ Step(i, "refused") /\ UNCHANGED maint

\* The answer, or its absence after 30 seconds at any stage. The dialog closes
\* in every case; a success waits for a dashboard answer first.
Answer ==
  /\ running
  /\ running' = FALSE
  /\ IF requests[Len(requests)].at = "accepted"
     THEN shown' = [shown EXCEPT !.maint = maint \cap shown.nodes]
     ELSE UNCHANGED shown
  /\ confirm' = None /\ batch' = None
  /\ UNCHANGED <<maint, selected, updates, requests>>

-----------------------------------------------------------------------------
Next == \/ \E n \in Nodes : Switch(n) \/ OpenUpdates(n)
        \/ Refresh \/ \E i \in Infras : Select(i)
        \/ \E n \in Nodes, a \in Actions \cup Maintenance : Ask(n, a)
        \/ \E a \in Actions : AskFromUpdates(a) \/ AskBatch(a)
        \/ CloseUpdates \/ Close \/ Confirm \/ RunBatch
        \/ \E i \in DOMAIN requests : Check(i) \/ Start(i) \/ SetMaintenance(i)
        \/ Answer

Spec == Init /\ [][Next]_vars

-----------------------------------------------------------------------------
\* The text of the dialog warned, where it should: a node that stands alone has
\* nowhere to move its guests.
Warned(r) == r.nodes \subseteq CanMaintain => "text" \in r.told

\* A node of a cluster is shut down without moving its guests only when the
\* user who asked for it was warned, or Proxmox reported it in maintenance mode
\* after the request: neither a listing that is old nor a switch by another
\* user while the dialog is open gets around the warning.
WarnedOrMaintained ==
  \A i \in DOMAIN requests :
    requests[i].action = "shutdown" /\ requests[i].at = "accepted"
      => Warned(requests[i]) \/ requests[i].found
=============================================================================
