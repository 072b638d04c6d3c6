----------------------- MODULE FrontendPages_proofs -----------------------
(***************************************************************************)
(* Proofs about the frontend, second part: the pages that show nodes,      *)
(* tasks and clusters.  What they show belongs to what is chosen, and what *)
(* they ask for is what the user was warned about or picked.               *)
(***************************************************************************)
EXTENDS Frontend_proofs, WellFoundedInduction

-----------------------------------------------------------------------------
\* Node actions.

\* Who is warned and what was found, at every stage of a request.
ActsInv ==
  /\ Acts!TypeOK
  /\ \A i \in DOMAIN requests :
       LET r == requests[i] IN r.action = "shutdown" =>
         /\ r.ack => Acts!Warned(r)
         /\ r.at = "found" => r.found
         /\ r.at = "accepted" => r.ack \/ r.found

\* At the start no request is in flight.
LEMMA ActsInvInit == Init => ActsInv
<1> SUFFICES ASSUME Acts!Init PROVE ActsInv
  BY DEF Init
<1>1. requests \in Seq(Acts!Request) /\ Len(requests) = 0
  BY DEF Acts!Init
<1>2. nodesShown \in [nodes : SUBSET ActionNodes, maint : SUBSET ActionNodes,
                      down : SUBSET ActionNodes]
  BY DEF Acts!Init
<1>3. Len(requests) <= MaxPosts
  BY <1>1, FrontendAssumption DEF Acts!NodeActionsAssumption
<1>4. Acts!TypeOK
  BY <1>1, <1>2, <1>3 DEF Acts!Init, Acts!TypeOK
<1>5. \A i \in DOMAIN requests : FALSE
  BY <1>1
<1> QED
  BY <1>4, <1>5 DEF ActsInv

\* A request is posted.
LEMMA PostKeepsInv ==
  ASSUME ActsInv, NEW r \in Acts!Request, Acts!Post(r), r.at = "sent",
         r.action = "shutdown" => (r.ack => Acts!Warned(r))
  PROVE  ActsInv'
<1>1. /\ requests' \in Seq(Acts!Request) /\ Len(requests') = Len(requests) + 1
      /\ Len(requests) < MaxPosts
      /\ \A i \in DOMAIN requests' : \/ i \in DOMAIN requests
                                        /\ requests'[i] = requests[i]
                                     \/ requests'[i] = r
  BY DEF ActsInv, Acts!TypeOK, Acts!Post
<1>2. Len(requests') <= MaxPosts
  BY <1>1, FrontendAssumption
     DEF Acts!NodeActionsAssumption, ActsInv, Acts!TypeOK
<1> QED
  BY <1>1, <1>2 DEF ActsInv, Acts!TypeOK, Acts!Post

\* A request goes on to the stage of r.
LEMMA StageKeepsInv ==
  ASSUME ActsInv, NEW i \in DOMAIN requests, NEW r \in Acts!Request,
         requests' = [requests EXCEPT ![i] = r], maint' \subseteq ActionNodes,
         UNCHANGED <<nodesShown, infra, updatesOf, confirm, batch, acting>>,
         r.action = "shutdown" => /\ r.ack => Acts!Warned(r)
                                  /\ r.at = "found" => r.found
                                  /\ r.at = "accepted" => r.ack \/ r.found
  PROVE  ActsInv'
<1>1. /\ requests' \in Seq(Acts!Request) /\ Len(requests') = Len(requests)
      /\ DOMAIN requests' = DOMAIN requests
      /\ \A j \in DOMAIN requests :
           requests'[j] = IF j = i THEN r ELSE requests[j]
  BY DEF ActsInv, Acts!TypeOK
<1> QED
  BY <1>1 DEF ActsInv, Acts!TypeOK

\* The handlers check, start an action or set maintenance without forgetting
\* who was warned.
LEMMA ActsServerStep ==
  ASSUME ActsInv, NEW i \in DOMAIN requests,
         Acts!Check(i) \/ Acts!Start(i) \/ Acts!SetMaintenance(i)
  PROVE  ActsInv'
<1> DEFINE r == requests[i]
<1>0. r \in Acts!Request /\ maint \subseteq ActionNodes
  BY DEF ActsInv, Acts!TypeOK
<1>1. /\ r \in Acts!Request /\ r.nodes \subseteq ActionNodes
      /\ maint \subseteq ActionNodes
      /\ r.action = "shutdown" => /\ r.ack => Acts!Warned(r)
                                  /\ r.at = "found" => r.found
                                  /\ r.at = "accepted" => r.ack \/ r.found
  BY <1>0 DEF ActsInv, Acts!Request
<1>2. PICK s \in Acts!Request :
        /\ requests' = [requests EXCEPT ![i] = s] /\ maint' \subseteq ActionNodes
        /\ UNCHANGED <<nodesShown, infra, updatesOf, confirm, batch, acting>>
        /\ s.action = "shutdown" => /\ s.ack => Acts!Warned(s)
                                    /\ s.at = "found" => s.found
                                    /\ s.at = "accepted" => s.ack \/ s.found
  <2> USE DEF Acts!Step, Acts!dialogs
  <2>1. CASE Acts!Check(i) /\ requests' = [requests EXCEPT ![i].at = "found",
                                                        ![i].found = TRUE]
    <3> DEFINE s == [r EXCEPT !.at = "found", !.found = TRUE]
    <3>1. s \in Acts!Request /\ requests' = [requests EXCEPT ![i] = s]
      BY <1>1, <2>1 DEF Acts!Request
    <3>2. s.ack = r.ack /\ s.told = r.told /\ s.nodes = r.nodes
          /\ s.action = r.action
          /\ s.found /\ s.at = "found"
      BY <1>1 DEF Acts!Request
    <3> HIDE DEF s
    <3> QED
      BY <1>1, <2>1, <3>1, <3>2 DEF Acts!Check, Acts!Warned
  <2>2. CASE Acts!Step(i, "refused") /\ maint' \subseteq ActionNodes
    <3> DEFINE s == [r EXCEPT !.at = "refused"]
    <3>1. s \in Acts!Request /\ requests' = [requests EXCEPT ![i] = s]
      BY <1>1, <2>2 DEF Acts!Request
    <3>2. s.ack = r.ack /\ s.told = r.told /\ s.nodes = r.nodes
          /\ s.action = r.action
          /\ s.found = r.found /\ s.at = "refused"
      BY <1>1 DEF Acts!Request
    <3> HIDE DEF s
    <3> QED
      BY <1>1, <2>2, <3>1, <3>2 DEF Acts!Warned
  <2>3. CASE /\ Acts!Step(i, "accepted") /\ maint' \subseteq ActionNodes
             /\ r.action = "shutdown" => r.ack \/ r.at = "found"
    <3> DEFINE s == [r EXCEPT !.at = "accepted"]
    <3>1. s \in Acts!Request /\ requests' = [requests EXCEPT ![i] = s]
      BY <1>1, <2>3 DEF Acts!Request
    <3>2. s.ack = r.ack /\ s.told = r.told /\ s.nodes = r.nodes
          /\ s.action = r.action
          /\ s.found = r.found /\ s.at = "accepted"
      BY <1>1 DEF Acts!Request
    <3> HIDE DEF s
    <3> QED
      BY <1>1, <2>3, <3>1, <3>2 DEF Acts!Warned
  <2> QED
    BY <1>1, <2>1, <2>2, <2>3
       DEF Acts!Check, Acts!Start, Acts!SetMaintenance, Acts!NeedsCheck,
           Acts!Maintenance
<1> QED
  BY <1>2, StageKeepsInv

\* The dialogs and the listing.
LEMMA ActsPageStep ==
  ASSUME ActsInv,
         \/ \E n \in ActionNodes : Acts!Switch(n) \/ Acts!OpenUpdates(n)
         \/ Acts!Refresh \/ \E i \in Acts!Infras : Acts!Select(i)
         \/ \E n \in ActionNodes, a \in NodeActionKinds \cup Acts!Maintenance :
              Acts!Ask(n, a)
         \/ \E a \in NodeActionKinds : Acts!AskFromUpdates(a) \/ Acts!AskBatch(a)
         \/ Acts!CloseUpdates \/ Acts!Close \/ Acts!Answer
  PROVE  ActsInv'
<1> DEFINE Shown == [nodes : SUBSET ActionNodes, maint : SUBSET ActionNodes,
                     down : SUBSET ActionNodes]
           Types == /\ maint' \subseteq ActionNodes /\ nodesShown' \in Shown
                    /\ infra' \in Acts!Infras \cup {None}
                    /\ updatesOf' \in ActionNodes \cup {None}
                    /\ confirm' \in Acts!Dialog \cup {None}
                    /\ batch' \in Acts!BatchActions \cup {None}
                    /\ acting' \in BOOLEAN
                    /\ UNCHANGED requests
<1>1. Types
  <2> USE DEF ActsInv, Acts!TypeOK
  <2>0. nodesShown \in Shown /\ nodesShown.nodes \subseteq ActionNodes
        /\ nodesShown.down \subseteq ActionNodes
    OBVIOUS
  <2>1. ASSUME NEW n \in ActionNodes, Acts!Switch(n) \/ Acts!OpenUpdates(n)
        PROVE  Types
    BY <2>1 DEF Acts!Switch, Acts!OpenUpdates, Acts!CanMaintain
  <2>2. CASE Acts!Refresh
    BY <2>2 DEF Acts!Refresh
  <2>3. ASSUME NEW i \in Acts!Infras, Acts!Select(i) PROVE Types
    BY <2>3 DEF Acts!Select
  <2>4. ASSUME NEW n \in ActionNodes,
               NEW a \in NodeActionKinds \cup Acts!Maintenance, Acts!Ask(n, a)
        PROVE  Types
    BY <2>4 DEF Acts!Ask, Acts!AskOf, Acts!Dialog
  <2>5. ASSUME NEW a \in NodeActionKinds, Acts!AskFromUpdates(a) PROVE Types
    BY <2>5 DEF Acts!AskFromUpdates, Acts!AskOf, Acts!Dialog
  <2>6. ASSUME NEW a \in NodeActionKinds, Acts!AskBatch(a) PROVE Types
    BY <2>6 DEF Acts!AskBatch
  <2>7. CASE Acts!CloseUpdates
    BY <2>7 DEF Acts!CloseUpdates
  <2>8. CASE Acts!Close
    BY <2>8 DEF Acts!Close
  <2>9. CASE Acts!Answer
    <3>1. nodesShown' \in Shown
      BY <2>0, <2>9 DEF Acts!Answer
    <3> QED
      BY <2>9, <3>1 DEF Acts!Answer
  <2> QED
    BY <2>1, <2>2, <2>3, <2>4, <2>5, <2>6, <2>7, <2>8, <2>9
<1> QED
  BY <1>1 DEF ActsInv, Acts!TypeOK

\* Every step of the nodes page and of its handlers keeps the invariant.
LEMMA ActsInvNext == ActsInv /\ [Acts!Next]_(Acts!vars) => ActsInv'
<1> SUFFICES ASSUME ActsInv, [Acts!Next]_(Acts!vars) PROVE ActsInv'
  OBVIOUS
<1>1. CASE Acts!Confirm
  <2> DEFINE r == [nodes |-> {confirm.node}, action |-> confirm.action,
                   ack |-> Acts!Acknowledges(confirm),
                   told |-> Acts!Warnings(confirm), found |-> FALSE, at |-> "sent"]
  <2>1. confirm \in Acts!Dialog
    BY <1>1 DEF Acts!Confirm, ActsInv, Acts!TypeOK
  <2>2. /\ confirm.node \in ActionNodes /\ confirm.maint \in BOOLEAN
        /\ confirm.action \in NodeActionKinds \cup Acts!Maintenance
        /\ Acts!Acknowledges(confirm) \in BOOLEAN
        /\ Acts!Warnings(confirm) \in SUBSET {"text", "alert"}
        /\ Acts!Acknowledges(confirm) /\ confirm.node \in Acts!CanMaintain
             => "text" \in Acts!Warnings(confirm)
    BY <2>1 DEF Acts!Dialog, Acts!Acknowledges, Acts!Warnings
  <2>3. r \in Acts!Request /\ r.at = "sent" /\ (r.ack => Acts!Warned(r))
    BY <2>2 DEF Acts!Request, Acts!Warned
  <2>4. Acts!Post(r)
    BY <1>1 DEF Acts!Confirm
  <2> HIDE DEF r
  <2> QED
    BY <2>3, <2>4, PostKeepsInv
<1>2. CASE Acts!RunBatch
  <2> DEFINE r == [nodes |-> Acts!OnPage, action |-> batch, ack |-> FALSE,
                   told |-> {}, found |-> FALSE, at |-> "sent"]
  <2>1. batch \in Acts!BatchActions /\ Acts!OnPage \subseteq ActionNodes
    BY <1>2 DEF Acts!RunBatch, ActsInv, Acts!TypeOK, Acts!OnPage
  <2>2. r \in Acts!Request /\ r.at = "sent" /\ ~r.ack
    BY <2>1 DEF Acts!Request, Acts!BatchActions
  <2>3. Acts!Post(r)
    BY <1>2 DEF Acts!RunBatch
  <2> HIDE DEF r
  <2> QED
    BY <2>2, <2>3, PostKeepsInv
<1>3. CASE UNCHANGED Acts!vars
  BY <1>3 DEF Acts!vars, ActsInv, Acts!TypeOK
<1> QED
  BY <1>1, <1>2, <1>3, ActsServerStep, ActsPageStep DEF Acts!Next

\* A node of a cluster is shut down only if the user was warned about its guests
\* or node_action itself found the node in maintenance: the page goes by an old
\* answer, but the handler looks again (main.py:7237).
THEOREM WarnedOrMaintainedAlways == Spec => []WarnedOrMaintained
<1>1. ActsInv => WarnedOrMaintained
  BY DEF ActsInv, WarnedOrMaintained, Acts!WarnedOrMaintained
<1> QED
  BY <1>1, ActsInvInit, ActsInvNext, PartsRefined, PTL DEF Spec, Acts!Spec

-----------------------------------------------------------------------------
\* The list of tasks.

\* As long as the user changed nothing, no filter is set and the choice is the
\* infrastructure of the task that was opened.
TaskPageInv ==
  /\ TaskPage!TypeOK
  /\ page = "Tasks" /\ opened # None /\ ~touched =>
       /\ filter = TaskPage!NoFilter
       /\ tasks[opened] # None /\ Of[opened] # None => tasksChoice = Of[opened]

\* At the start no task was opened.
LEMMA TaskPageInvInit == Init => TaskPageInv
<1> SUFFICES ASSUME TaskPage!Init PROVE TaskPageInv
  BY DEF Init
<1>1. TaskPage!NoFilter \in
        [state : (TaskPage!States \ {"partial"}) \cup {"all"},
         search : ManagedTasks \cup {None}]
  BY DEF TaskPage!NoFilter
<1> QED
  BY <1>1 DEF TaskPage!Init, TaskPageInv, TaskPage!TypeOK

\* What the effect leaves for task t and the list at hand.
LEMMA FollowSettles ==
  ASSUME TaskPageInv, NEW t \in ManagedTasks \cup {None},
         NEW l \in [ManagedTasks -> TaskPage!States \cup {None}],
         NEW c \in TaskInfras \cup {None},
         NEW f \in [state : (TaskPage!States \ {"partial"}) \cup {"all"},
                    search : ManagedTasks \cup {None}],
         TaskPage!Follow(t, l, c, f)
  PROVE  /\ kept' \in TaskInfras \cup {None}
         /\ tasksChoice' \in TaskInfras \cup {None}
         /\ filter' \in [state : (TaskPage!States \ {"partial"}) \cup {"all"},
                         search : ManagedTasks \cup {None}]
         /\ touched' \in BOOLEAN
         /\ t # None => /\ filter' = TaskPage!NoFilter
                        /\ l[t] # None /\ Of[t] # None => tasksChoice' = Of[t]
<1>1. t # None => Of[t] \in TaskInfras \cup {None}
  BY FrontendAssumption DEF TaskPage!TaskViewAssumption
<1>2. TaskPage!NoFilter \in
        [state : (TaskPage!States \ {"partial"}) \cup {"all"},
         search : ManagedTasks \cup {None}]
  BY DEF TaskPage!NoFilter
<1> QED
  BY <1>1, <1>2 DEF TaskPage!Follow, TaskPageInv, TaskPage!TypeOK

\* Every step of the page, of the panel and of the server keeps the invariant.
LEMMA TaskPageInvNext ==
  TaskPageInv /\ [TaskPage!Next]_(TaskPage!vars) => TaskPageInv'
<1> SUFFICES ASSUME TaskPageInv, [TaskPage!Next]_(TaskPage!vars)
             PROVE  TaskPageInv'
  OBVIOUS
<1> USE DEF TaskPageInv, TaskPage!TypeOK
<1>0. TaskPage!NoFilter \in
        [state : (TaskPage!States \ {"partial"}) \cup {"all"},
         search : ManagedTasks \cup {None}]
  BY DEF TaskPage!NoFilter
<1>1. ASSUME NEW t \in ManagedTasks, TaskPage!TasksAnswer(t)
      PROVE  TaskPageInv'
  <2>1. tasks' \in [ManagedTasks -> TaskPage!States \cup {None}]
    <3>1. TaskPage!Successors(tasks[t]) \subseteq TaskPage!States \cup {None}
      BY Zenon DEF TaskPage!Successors, TaskPage!States, TaskPage!Over
    <3> QED
      BY <1>1, <3>1 DEF TaskPage!TasksAnswer, TaskPage!Progress
  <2>2. CASE page = "Tasks"
    BY <1>1, <2>1, <2>2, FollowSettles DEF TaskPage!TasksAnswer
  <2>3. CASE page # "Tasks"
    BY <1>1, <2>1, <2>3 DEF TaskPage!TasksAnswer
  <2> QED
    BY <2>2, <2>3
<1>2. ASSUME NEW t \in ManagedTasks, TaskPage!OpenTask(t)
      PROVE  TaskPageInv'
  <2>1. CASE page # "Tasks"
    BY <1>0, <1>2, <2>1, FollowSettles DEF TaskPage!OpenTask, TaskPage!Mount
  <2>2. CASE page = "Tasks" /\ opened # t
    BY <1>2, <2>2, FollowSettles DEF TaskPage!OpenTask
  <2>3. CASE page = "Tasks" /\ opened = t
    BY <1>2, <2>3 DEF TaskPage!OpenTask
  <2> QED
    BY <2>1, <2>2, <2>3
<1>3. ASSUME NEW p \in {"Tasks", "other"}, TaskPage!Navigate(p)
      PROVE  TaskPageInv'
  <2>1. CASE p = "Tasks"
    BY <1>0, <1>3, <2>1, FollowSettles DEF TaskPage!Navigate, TaskPage!Mount
  <2>2. CASE p # "Tasks"
    BY <1>3, <2>2 DEF TaskPage!Navigate
  <2> QED
    BY <2>1, <2>2
<1>4. ASSUME NEW is \in SUBSET TaskInfras, TaskPage!DashboardAnswer(is)
      PROVE  TaskPageInv'
  BY <1>4 DEF TaskPage!DashboardAnswer
<1>5. ASSUME NEW i \in TaskInfras, TaskPage!SelectInfrastructure(i)
      PROVE  TaskPageInv'
  BY <1>5 DEF TaskPage!SelectInfrastructure
<1>6. ASSUME NEW f \in [state : (TaskPage!States \ {"partial"}) \cup {"all"},
                        search : ManagedTasks \cup {None}],
             TaskPage!SetFilter(f)
      PROVE  TaskPageInv'
  BY <1>6 DEF TaskPage!SetFilter
<1>7. ASSUME NEW w \in ManagedTasks \cup {None}, TaskPage!SetSearch(w)
      PROVE  TaskPageInv'
  BY <1>6, <1>7 DEF TaskPage!SetSearch
<1>8. ASSUME NEW s \in (TaskPage!States \ {"partial"}) \cup {"all"},
             TaskPage!SetState(s)
      PROVE  TaskPageInv'
  BY <1>6, <1>8 DEF TaskPage!SetState
<1>9. CASE UNCHANGED TaskPage!vars
  BY <1>9 DEF TaskPage!vars
<1> QED
  BY <1>0, <1>1, <1>2, <1>3, <1>4, <1>5, <1>6, <1>7, <1>8, <1>9
     DEF TaskPage!Next, TaskPage!Reset

\* A task that was opened from the panel is on the screen once it is listed and
\* its infrastructure known, whatever was chosen before.
THEOREM SelectedShownAlways == Spec => []SelectedShown
<1>1. TaskPageInv => SelectedShown
  <2> SUFFICES ASSUME TaskPageInv, page = "Tasks", opened # None, ~touched,
                      tasks[opened] # None, Of[opened] \in infras
               PROVE  opened \in TaskPage!Shown
    BY DEF SelectedShown, TaskPage!SelectedShown
  <2>1. opened \in ManagedTasks /\ Of[opened] # None
    BY FrontendAssumption
       DEF TaskPageInv, TaskPage!TypeOK, TaskPage!TaskViewAssumption
  <2>2. TaskPage!Effective = Of[opened]
    BY <2>1 DEF TaskPageInv, TaskPage!Effective
  <2>3. TaskPage!Passes(opened)
    BY <2>1 DEF TaskPageInv, TaskPage!Passes, TaskPage!NoFilter
  <2> QED
    BY <2>1, <2>2, <2>3 DEF TaskPage!Shown
<1> QED
  BY <1>1, TaskPageInvInit, TaskPageInvNext, PartsRefined, PTL
     DEF Spec, TaskPage!Spec

-----------------------------------------------------------------------------
\* The pages about one node.

\* An answer kept under a key is about the node of that key.
ViewsInv ==
  /\ Views!TypeOK
  /\ \A n \in Nodes : fetched[Views!Key(n)] \in {n, None}

\* A query's key says which node it is about: infrastructure and name together
\* do.
LEMMA KeysOfNodes ==
  /\ \A n \in Nodes : Views!Key(n) \in Views!Keys
  /\ \A n, m \in Nodes : Views!Key(n) = Views!Key(m) => n = m
  BY FrontendAssumption
     DEF Views!Key, Views!Keys, Views!Infras, Views!Names,
         Views!NodeViewsAssumption

\* What the page takes for the chosen node, by choice or as its fallback, is a
\* node.
LEMMA NodeChosen ==
  ASSUME ViewsInv
  PROVE  Views!Chosen \in Nodes \cup {None}
<1>1. Views!EffectiveNode \in Nodes \cup {None}
  <2>1. CASE Views!Listed = {}
    BY <2>1 DEF Views!EffectiveNode
  <2>2. CASE Views!Listed # {}
    <3>1. Views!Effective \in Views!ListedInfras
      BY <2>2 DEF Views!Effective, Views!ListedInfras
    <3>2. Views!InfraNodes # {} /\ Views!InfraNodes \subseteq Nodes
      BY <3>1 DEF Views!InfraNodes, Views!ListedInfras, Views!Listed
    <3> QED
      BY <2>2, <3>2 DEF Views!EffectiveNode
  <2> QED
    BY <2>1, <2>2
<1>2. CASE view = "Network"
  BY <1>1, <1>2 DEF Views!Chosen
<1>3. CASE view = "Nodes"
  BY <1>3 DEF Views!Chosen, ViewsInv, Views!TypeOK
<1>4. CASE view \notin {"Network", "Nodes"}
  BY <1>4, Zenon DEF Views!Chosen
<1> QED
  BY <1>2, <1>3, <1>4

\* What is shown is about the node that is chosen.
OwnData == /\ Views!Chosen \in Nodes \cup {None}
           /\ Views!Shown \in {None, Views!Chosen}

\* The page shows an answer only under the key of the node chosen, and a key is
\* one node's.
LEMMA NodeShown == ViewsInv => OwnData
  BY NodeChosen DEF ViewsInv, OwnData, Views!Shown

\* At the start no answer is kept.
LEMMA ViewsInvInit == Init => ViewsInv
  BY KeysOfNodes
     DEF Init, Views!Init, ViewsInv, Views!TypeOK

\* Every step of the pages and every answer keeps the invariant.
LEMMA ViewsInvNext == ViewsInv /\ [Views!Next]_(Views!vars) => ViewsInv'
<1> SUFFICES ASSUME ViewsInv, [Views!Next]_(Views!vars) PROVE ViewsInv'
  OBVIOUS
<1> USE DEF ViewsInv, Views!TypeOK, Views!navigation
<1>1. ASSUME NEW ok \in BOOLEAN, Views!Fetch(ok) PROVE ViewsInv'
  <2>1. Views!Chosen \in Nodes
    BY <1>1, NodeChosen DEF Views!Fetch
  <2> QED
    BY <1>1, <2>1, KeysOfNodes DEF Views!Fetch
<1>2. ASSUME NEW n \in Nodes,
             \/ Views!OpenNode(n) \/ Views!SelectNode(n)
             \/ \E s \in {"online", "disconnected", "absent"} :
                  Views!DashboardAnswer(n, s)
      PROVE  ViewsInv'
  BY <1>2 DEF Views!OpenNode, Views!SelectNode, Views!DashboardAnswer,
              Views!Names
<1>3. CASE \/ Views!Back
           \/ \E ns \in SUBSET Nodes : Views!UpdatesAnswer(ns)
           \/ \E v \in {"Nodes", "Network", "other"} : Views!Navigate(v)
           \/ \E i \in Views!Infras : Views!SelectInfrastructure(i)
  BY <1>3 DEF Views!Back, Views!UpdatesAnswer, Views!Navigate,
              Views!SelectInfrastructure
<1>4. CASE UNCHANGED Views!vars
  BY <1>4 DEF Views!vars
<1> QED
  BY <1>1, <1>2, <1>3, <1>4 DEF Views!Next

\* The pages about one node implement Selection.
THEOREM ViewsImplementSelection == Spec => Views!FollowsSelection
<1>1. Init => Views!Loaded!Init
  BY ViewsInvInit, NodeChosen, FrontendAssumption
     DEF Views!Loaded!Init, Init, Views!Init, Views!Shown, Views!Chosen
<1>2. OwnData' => [Views!Loaded!Next]_(Views!Loaded!vars)
  BY DEF OwnData, Views!Loaded!Next, Views!Loaded!Select
<1> QED
  BY <1>1, <1>2, NodeShown, ViewsInvInit, ViewsInvNext, PartsRefined, PTL
     DEF Spec, Views!Spec, Views!FollowsSelection, Views!Loaded!Spec

-----------------------------------------------------------------------------
\* The HA of a cluster.

\* A dialog that stands at "ignore" is one in which that was picked.
HaInv == /\ Ha!TypeOK
         /\ asked = "disarm" /\ mode = "ignore" => picked
         /\ Ha!ModeAsPicked

\* Among clusters there is a first one.
LEMMA FirstCluster ==
  ASSUME NEW S \in SUBSET HaClusters, S # {}
  PROVE  \E c \in S : \A d \in S : c <= d
<1>1. S \subseteq Nat
  BY FrontendAssumption DEF Ha!ClusterAssumption
<1>2. PICK c \in S : \A d \in S : ~(<<d, c>> \in OpToRel(<, Nat))
  BY <1>1, NatLessThanWellFounded, WFMin
<1>3. \A d \in S : ~(d < c)
  BY <1>1, <1>2 DEF OpToRel
<1> QED
  BY <1>1, <1>3

\* The cluster that the page falls back to is a cluster that is known.
LEMMA EffectiveCluster ==
  ASSUME Ha!Effective # None, cluster \in HaClusters \cup {None}
  PROVE  Ha!Effective \in HaClusters
<1>1. Ha!Listed \subseteq HaClusters
  BY DEF Ha!Listed
<1>2. CASE cluster \in Ha!Listed
  BY <1>1, <1>2 DEF Ha!Effective
<1>3. CASE cluster \notin Ha!Listed
  <2>1. Ha!Listed # {}
    BY <1>3 DEF Ha!Effective
  <2>2. \E c \in Ha!Listed : \A d \in Ha!Listed : c <= d
    BY <1>1, <2>1, FirstCluster
  <2> QED
    BY <1>1, <1>3, <2>1, <2>2 DEF Ha!Effective
<1> QED
  BY <1>2, <1>3

\* At the start no question is open.
LEMMA HaInvInit == Init => HaInv
<1> SUFFICES ASSUME Ha!Init PROVE HaInv
  BY DEF Init
<1> QED
  BY DEF Ha!Init, HaInv, Ha!TypeOK, Ha!ModeAsPicked, Ha!Modes, Ha!Seen

\* Every step of the cluster page and of HA control keeps the invariant.
LEMMA HaInvNext == HaInv /\ [Ha!Next]_(Ha!vars) => HaInv'
<1> SUFFICES ASSUME HaInv, [Ha!Next]_(Ha!vars) PROVE HaInv'
  OBVIOUS
<1> USE DEF HaInv, Ha!TypeOK, Ha!ModeAsPicked, Ha!Modes, Ha!HaActions
<1>1. CASE Ha!Ask
  BY <1>1 DEF Ha!Ask
<1>2. CASE Ha!Cancel
  BY <1>2, FrontendAssumption DEF Ha!Cancel, Ha!ClusterAssumption
<1>3. CASE Ha!Confirm
  <2>1. Ha!Effective \in HaClusters /\ asked \in {"arm", "disarm"}
    BY <1>3, EffectiveCluster DEF Ha!Confirm, Ha!Open
  <2> QED
    BY <1>3, <2>1, FrontendAssumption DEF Ha!Confirm, Ha!ClusterAssumption
<1>4. CASE Ha!Answer
  <2>1. control # None /\ control.infra \in HaClusters
    BY <1>4 DEF Ha!Answer
  <2>2. Ha!Commanded \subseteq HaClusters
    BY <2>1 DEF Ha!Commanded
  <2>3. CASE armed' = Ha!Commanded /\ asked' = None
             /\ control' = [control EXCEPT !.done = TRUE]
    <3>1. /\ control'.mode = control.mode /\ control'.picked = control.picked
          /\ control'.action = control.action
      BY <2>1, <2>3
    <3> QED
      BY <1>4, <2>1, <2>2, <2>3, <3>1, FrontendAssumption
         DEF Ha!Answer, Ha!ClusterAssumption
  <2>4. CASE armed' \in {armed, Ha!Commanded} /\ control' = None
             /\ UNCHANGED asked
    BY <1>4, <2>2, <2>4 DEF Ha!Answer
  <2> QED
    BY <1>4, <2>3, <2>4 DEF Ha!Answer
<1>5. ASSUME NEW s \in [HaClusters -> Ha!Seen], Ha!DashboardAnswer(s)
      PROVE  HaInv'
  BY <1>5 DEF Ha!DashboardAnswer
<1>6. ASSUME NEW c \in HaClusters,
             Ha!SelectInfrastructure(c) \/ Ha!ArmElsewhere(c)
      PROVE  HaInv'
  BY <1>6 DEF Ha!SelectInfrastructure, Ha!ArmElsewhere
<1>7. ASSUME NEW m \in Ha!Modes, Ha!PickMode(m) PROVE HaInv'
  BY <1>7 DEF Ha!PickMode
<1>8. CASE UNCHANGED Ha!vars
  BY <1>8 DEF Ha!vars
<1> QED
  BY <1>1, <1>2, <1>3, <1>4, <1>5, <1>6, <1>7, <1>8 DEF Ha!Next

\* Resources are dropped from HA only if that was picked in the dialog the user
\* confirmed, not in one cancelled before; an arm carries no mode.
THEOREM ModeAsPickedAlways == Spec => []Ha!ModeAsPicked
<1>1. HaInv => Ha!ModeAsPicked
  BY DEF HaInv
<1> QED
  BY <1>1, HaInvInit, HaInvNext, PartsRefined, PTL DEF Spec, Ha!Spec
=============================================================================
