------------------------------ MODULE Frontend ------------------------------
(***************************************************************************)
(* The pages of the web frontend (frontend/src) with what they ask of the  *)
(* server, one module per page.  App.tsx mounts one page at a time, pages  *)
(* share no React state, and an answer is one that any state of the server *)
(* could give: a behaviour of the frontend is, for each page, a behaviour  *)
(* of that page.  "part" says whose it is.  The dialogs of a guest and its *)
(* console are parts of Operations.                                        *)
(***************************************************************************)
EXTENDS Integers, FiniteSets, Sequences

CONSTANTS
  None,
  \* guests, nodes and infrastructures
  Guests,
  Nodes,
  Infra,            \* Infra[n]: the infrastructure of node n
  Name,             \* Name[n]: its name there
  Home,             \* Home[g]: the node guest g is on
  Dashboards,       \* the sets of online nodes a dashboard answer may name
  MaxStarts,        \* migrations started
  MaxPolls,         \* polls of a task in flight
  \* the scheduler
  ScheduledGuests,
  Place,            \* Place[g]: the node scheduled guest g is on
  ScheduledActions,
  Newest,           \* archives and snapshots of a guest
  Schedules,
  \* node actions and tasks
  ActionNodes,
  Standalone,       \* infrastructures that are no cluster
  NodeActionKinds,
  MaxPosts,         \* requests posted
  ManagedTasks,
  TaskInfras,
  Of,               \* Of[t]: the infrastructure of task t
  HaClusters,       \* clusters, for their HA
  \* settings, users and the audit log
  InfraIds,
  Endpoints,
  ClusterEndpoints, \* those of clusters
  Tokens,
  DisplayNames,
  Deletes,
  MaxCalls,         \* requests in flight
  Channels,
  Secrets,
  MaxRequests,      \* changes sent
  UserIds,
  Roles,
  Filters,
  PageSize,
  MaxLog            \* entries of the log

VARIABLES
  part,   \* the part whose behaviour this is
  \* the drawer of a guest
  guest, stopped, online, migration, details, detailCalls, track, polls, job,
  migrations, reports,
  \* the task scheduler page
  schedules, editor, lookups, saving, toggling,
  \* node actions
  maint, nodesShown, infra, updatesOf, confirm, batch, acting, requests,
  \* pages about one node
  status, view, host, choice, name, fetched, updates,
  \* the list of tasks
  tasks, infras, page, opened, kept, tasksChoice, filter, touched,
  \* infrastructures
  infrastructures, used, list, loads, adding, discovering, adds, rename,
  renaming, deletes, deletingId,
  \* notifications and LDAP
  settings, tab, settingsShown, typed, pending, calls,
  \* users and sessions
  users, gate, cookie, listed, userDialog, waiting,
  \* the HA of a cluster
  armed, seen, cluster, asked, mode, picked, control,
  \* the audit log
  log, query, total, auditDialog, request, deletion

drawerVars == <<guest, stopped, online, migration, details, detailCalls,
                track, polls, job, migrations, reports>>
schedulerVars == <<schedules, editor, lookups, saving, toggling>>
nodesVars == <<maint, nodesShown, infra, updatesOf, confirm, batch, acting,
               requests>>
viewsVars == <<status, view, host, choice, name, fetched, updates>>
tasksVars == <<tasks, infras, page, opened, kept, tasksChoice, filter, touched>>
infrastructuresVars == <<infrastructures, used, list, loads, adding,
                         discovering, adds, rename, renaming, deletes,
                         deletingId>>
settingsVars == <<settings, tab, settingsShown, typed, pending, calls>>
usersVars == <<users, gate, cookie, listed, userDialog, waiting>>
clusterVars == <<armed, seen, cluster, asked, mode, picked, control>>
auditVars == <<log, query, total, auditDialog, request, deletion>>
vars == <<part, drawerVars, schedulerVars, nodesVars, viewsVars, tasksVars,
          infrastructuresVars, settingsVars, usersVars, clusterVars, auditVars>>

Drawer == INSTANCE GuestDrawer WITH
  up <- online, form <- migration, task <- migrations
Editor == INSTANCE SchedulerEditor WITH
  Guests <- ScheduledGuests, Home <- Place, Actions <- ScheduledActions,
  Tasks <- Schedules, server <- schedules, form <- editor
Acts == INSTANCE NodeActions WITH
  Nodes <- ActionNodes, Home <- Infra, Actions <- NodeActionKinds,
  shown <- nodesShown, selected <- infra, updates <- updatesOf,
  running <- acting
Views == INSTANCE NodeViews
TaskPage == INSTANCE TaskView WITH
  Tasks <- ManagedTasks, Infras <- TaskInfras, selected <- opened,
  stored <- kept, choice <- tasksChoice
Card == INSTANCE InfrastructureSettings WITH
  Ids <- InfraIds, Clusters <- ClusterEndpoints, Names <- DisplayNames,
  server <- infrastructures, form <- adding, saving <- adds
Settings == INSTANCE SettingsForms WITH
  server <- settings, shown <- settingsShown
Users == INSTANCE Accounts WITH
  Ids <- UserIds, dialog <- userDialog
Ha == INSTANCE ClusterHa WITH
  Clusters <- HaClusters
Audit == INSTANCE AuditLog WITH
  dialog <- auditDialog

ASSUME FrontendAssumption ==
  /\ Drawer!DrawerAssumption /\ Editor!EditorAssumption
  /\ Acts!NodeActionsAssumption /\ Views!NodeViewsAssumption
  /\ TaskPage!TaskViewAssumption /\ Card!InfrastructureAssumption
  /\ Settings!SettingsAssumption /\ Users!AccountsAssumption
  /\ Ha!ClusterAssumption /\ Audit!AuditAssumption

Parts == {"drawer", "scheduler", "nodes", "views", "tasks", "infrastructures",
          "settings", "users", "cluster", "audit"}

\* The part keeps to its types; the others are as they began.
TypeOK == /\ part \in Parts
          /\ part = "drawer" => Drawer!TypeOK
          /\ part = "scheduler" => Editor!TypeOK
          /\ part = "nodes" => Acts!TypeOK
          /\ part = "views" => Views!TypeOK
          /\ part = "tasks" => TaskPage!TypeOK
          /\ part = "infrastructures" => Card!TypeOK
          /\ part = "settings" => Settings!TypeOK
          /\ part = "users" => Users!TypeOK
          /\ part = "cluster" => Ha!TypeOK
          /\ part = "audit" => Audit!TypeOK

Init == /\ part \in Parts
        /\ Drawer!Init /\ Editor!Init /\ Acts!Init /\ Views!Init
        /\ TaskPage!Init /\ Card!Init /\ Settings!Init /\ Users!Init
        /\ Ha!Init /\ Audit!Init

-----------------------------------------------------------------------------
\* One part at a time, the others as they are.

DrawerNext ==
  /\ part = "drawer" /\ Drawer!Next
  /\ UNCHANGED <<part, schedulerVars, nodesVars, viewsVars, tasksVars,
                 infrastructuresVars, settingsVars, usersVars, clusterVars,
                 auditVars>>
SchedulerNext ==
  /\ part = "scheduler" /\ Editor!Next
  /\ UNCHANGED <<part, drawerVars, nodesVars, viewsVars, tasksVars,
                 infrastructuresVars, settingsVars, usersVars, clusterVars,
                 auditVars>>
NodesNext ==
  /\ part = "nodes" /\ Acts!Next
  /\ UNCHANGED <<part, drawerVars, schedulerVars, viewsVars, tasksVars,
                 infrastructuresVars, settingsVars, usersVars, clusterVars,
                 auditVars>>
ViewsNext ==
  /\ part = "views" /\ Views!Next
  /\ UNCHANGED <<part, drawerVars, schedulerVars, nodesVars, tasksVars,
                 infrastructuresVars, settingsVars, usersVars, clusterVars,
                 auditVars>>
TasksNext ==
  /\ part = "tasks" /\ TaskPage!Next
  /\ UNCHANGED <<part, drawerVars, schedulerVars, nodesVars, viewsVars,
                 infrastructuresVars, settingsVars, usersVars, clusterVars,
                 auditVars>>
InfrastructuresNext ==
  /\ part = "infrastructures" /\ Card!Next
  /\ UNCHANGED <<part, drawerVars, schedulerVars, nodesVars, viewsVars,
                 tasksVars, settingsVars, usersVars, clusterVars, auditVars>>
SettingsNext ==
  /\ part = "settings" /\ Settings!Next
  /\ UNCHANGED <<part, drawerVars, schedulerVars, nodesVars, viewsVars,
                 tasksVars, infrastructuresVars, usersVars, clusterVars,
                 auditVars>>
UsersNext ==
  /\ part = "users" /\ Users!Next
  /\ UNCHANGED <<part, drawerVars, schedulerVars, nodesVars, viewsVars,
                 tasksVars, infrastructuresVars, settingsVars, clusterVars,
                 auditVars>>
ClusterNext ==
  /\ part = "cluster" /\ Ha!Next
  /\ UNCHANGED <<part, drawerVars, schedulerVars, nodesVars, viewsVars,
                 tasksVars, infrastructuresVars, settingsVars, usersVars,
                 auditVars>>
AuditNext ==
  /\ part = "audit" /\ Audit!Next
  /\ UNCHANGED <<part, drawerVars, schedulerVars, nodesVars, viewsVars,
                 tasksVars, infrastructuresVars, settingsVars, usersVars,
                 clusterVars>>

Next == \/ DrawerNext \/ SchedulerNext \/ NodesNext \/ ViewsNext
        \/ TasksNext \/ InfrastructuresNext \/ SettingsNext \/ UsersNext
        \/ ClusterNext \/ AuditNext

Spec == Init /\ [][Next]_vars

-----------------------------------------------------------------------------
\* What the parts promise, each in its own module.

\* What is sent is what was settled in the dialog: a migration as it was
\* checked (GuestDrawer), the mode of a disarm as it was picked (ClusterHa).
SentAsChecked == Drawer!SentAsChecked /\ Ha!ModeAsPicked

\* What becomes of a migration is shown once and truly (GuestDrawer).
OutcomeToldOnce == Drawer!OutcomeToldOnce

\* What is stored fits together: a task names nodes, guest, archive and target
\* of one infrastructure (SchedulerEditor), an infrastructure has the nodes
\* behind its endpoint and a name of its own (InfrastructureSettings).
StoredFits == Editor!StoredFits /\ Card!NodesOfEndpoint

\* No shutdown of a cluster's node around the warning about guests
\* (NodeActions).
WarnedOrMaintained == Acts!WarnedOrMaintained

\* Secrets change only by a save of their own form (SettingsForms).
SecretsKept == Settings!SecretsKept

\* An enabled administrator remains (Accounts).
AdminRemains == Users!AdminRemains

\* A deletion of the audit log leaves its entry (AuditLog).
DeletionRecorded == Audit!DeletionRecorded

\* A task opened from the panel is shown (TaskView).
SelectedShown == TaskPage!SelectedShown

\* What is loaded for a selection is shown for that selection only: the
\* dialog of the scheduler and the pages about one node implement Selection.
FollowsSelection == Editor!FollowsSelection /\ Views!FollowsSelection

\* The host page shows the updates of its own node (NodeViews).
UpdatesOfNode == Views!UpdatesOfNode
=============================================================================
