----------------------------- MODULE NodeViews -----------------------------
(***************************************************************************)
(* The pages about one node: pages/HostDetailsPage.tsx, opened from a card *)
(* of NodesPage.tsx or DashboardPage.tsx, and pages/NetworkPage.tsx, with  *)
(* the navigation of App.tsx and hooks/useNetwork.ts, useHostDetails.ts,   *)
(* useUpdates.ts.  StoragePage, ReplicationsPage and BackupsPage choose    *)
(* their infrastructure as NetworkPage does.                               *)
(*                                                                         *)
(* A node has a name in its infrastructure; infrastructures may share      *)
(* names.  Answers of the queries are kept under their keys, so the answer *)
(* for a page that was left is simply there when its key is shown again.   *)
(***************************************************************************)
EXTENDS Integers, FiniteSets

CONSTANTS
  Nodes,
  Infra,    \* Infra[n]: the infrastructure of node n, a number
  Name,     \* Name[n]: its name there
  None

Infras == {Infra[n] : n \in Nodes}
Names == {Name[n] : n \in Nodes}

NodeViewsAssumption ==
  /\ None \notin Nodes /\ None \notin Infras /\ None \notin Names
  /\ Infras \subseteq Int
  /\ \A n, m \in Nodes : Infra[n] = Infra[m] /\ Name[n] = Name[m] => n = m

VARIABLES
  status,   \* status[n]: of the node in the last dashboard answer
  view,     \* App.activeNavigation
  host,     \* App.selectedNode
  choice,   \* NetworkPage.selectedInfrastructureId, and in localStorage
  name,     \* NetworkPage.selectedNode
  fetched,  \* fetched[k]: the node the answer under key k is about
  updates   \* the nodes in the last answer of /node-updates

vars == <<status, view, host, choice, name, fetched, updates>>
navigation == <<view, host, choice, name>>

\* Mutant of Key: the infrastructure is left out of it.
KeyNameOnly(n) == <<CHOOSE i \in Infras : TRUE, Name[n]>>

\* The key ['network', infrastructureId, node] (or 'host-details').
Key(n) == <<Infra[n], Name[n]>>
Keys == Infras \X Names

TypeOK == /\ status \in [Nodes -> {"online", "disconnected", "absent"}]
          /\ view \in {"Nodes", "Network", "other"}
          /\ host \in Nodes \cup {None}
          /\ choice \in Infras \cup {None} /\ name \in Names \cup {None}
          /\ fetched \in [Keys -> Nodes \cup {None}]
          /\ updates \subseteq Nodes

Init == /\ status = [n \in Nodes |-> "absent"]
        /\ view = "other" /\ host = None /\ choice = None /\ name = None
        /\ fetched = [k \in Keys |-> None] /\ updates = {}

-----------------------------------------------------------------------------

Listed == {n \in Nodes : status[n] # "absent"}
ListedInfras == {Infra[n] : n \in Listed}

\* effectiveInfrastructureId, infrastructureNodes, effectiveNode: a choice
\* that is not listed falls back to the first.
Effective == IF choice \in ListedInfras THEN choice
             ELSE CHOOSE i \in ListedInfras : TRUE
InfraNodes == {n \in Listed : Infra[n] = Effective}
EffectiveNode ==
  IF Listed = {} THEN None
  ELSE IF \E n \in InfraNodes : Name[n] = name
    THEN CHOOSE n \in InfraNodes : Name[n] = name
  ELSE CHOOSE n \in InfraNodes : TRUE

\* The node the page is about, and the node its data is about.
Chosen == CASE view = "Network" -> EffectiveNode
            [] view = "Nodes" -> host
            [] OTHER -> None
Shown == IF Chosen = None \/ status[Chosen] = "disconnected" THEN None
         ELSE fetched[Key(Chosen)]

\* "Available updates" of the host page: the first entry, by infrastructure,
\* whose node has the name.
ShownUpdates ==
  LET named == {n \in updates : Name[n] = Name[host]}
  IN  IF view # "Nodes" \/ host = None \/ Shown = None \/ named = {} THEN None
      ELSE CHOOSE n \in named : \A m \in named : Infra[n] <= Infra[m]

-----------------------------------------------------------------------------

DashboardAnswer(n, s) ==
  /\ status' = [status EXCEPT ![n] = s]
  /\ UNCHANGED <<navigation, fetched, updates>>

\* /node-updates lists what was checked since the process started.
UpdatesAnswer(ns) == /\ updates' = ns
                     /\ UNCHANGED <<status, navigation, fetched>>

\* The query of the page: none for a node that is disconnected.  An error is
\* shown in place of earlier data.
Fetch(ok) ==
  /\ Chosen # None /\ status[Chosen] # "disconnected"
  /\ fetched' = [fetched EXCEPT ![Key(Chosen)] = IF ok THEN Chosen ELSE None]
  /\ UNCHANGED <<status, navigation, updates>>

\* The menu: the network page forgets its node, "Nodes" the host.
Navigate(v) == /\ view' = v
               /\ host' = IF v = "Nodes" THEN None ELSE host
               /\ name' = IF v = view THEN name ELSE None
               /\ UNCHANGED <<status, choice, fetched, updates>>

\* onOpenNode of NodesPage and DashboardPage.
OpenNode(n) == /\ n \in Listed
               /\ view = "other" \/ (view = "Nodes" /\ host = None)
               /\ view' = "Nodes" /\ host' = n
               /\ UNCHANGED <<status, choice, name, fetched, updates>>

Back == /\ view = "Nodes" /\ host # None
        /\ host' = None
        /\ UNCHANGED <<status, view, choice, name, fetched, updates>>

\* Choosing an infrastructure also forgets the node.
SelectInfrastructure(i) ==
  /\ view = "Network" /\ i \in ListedInfras
  /\ choice' = i /\ name' = None
  /\ UNCHANGED <<status, view, host, fetched, updates>>

SelectNode(n) == /\ view = "Network" /\ n \in InfraNodes
                 /\ name' = Name[n]
                 /\ UNCHANGED <<status, view, host, choice, fetched, updates>>

-----------------------------------------------------------------------------
Next == \/ \E n \in Nodes :
             \/ OpenNode(n) \/ SelectNode(n)
             \/ \E s \in {"online", "disconnected", "absent"} :
                  DashboardAnswer(n, s)
        \/ \E ns \in SUBSET Nodes : UpdatesAnswer(ns)
        \/ \E ok \in BOOLEAN : Fetch(ok)
        \/ Back
        \/ \E v \in {"Nodes", "Network", "other"} : Navigate(v)
        \/ \E i \in Infras : SelectInfrastructure(i)

Spec == Init /\ [][Next]_vars

-----------------------------------------------------------------------------
\* The data of a node is shown on that node's page only, with late answers,
\* answers kept from earlier visits, and nodes of one name in several
\* infrastructures that appear, disconnect and disappear.
Loaded == INSTANCE Selection WITH
            Things <- Nodes, selected <- Chosen, shown <- Shown
FollowsSelection == Loaded!Spec

\* The host page shows the updates of its own node.
UpdatesOfNode == ShownUpdates \in {None, host}
=============================================================================
