-------------------------- MODULE SchedulerEditor --------------------------
(***************************************************************************)
(* The task scheduler page (pages/TaskSchedulerPage.tsx and the queries    *)
(* and mutations of hooks/useScheduledTasks.ts): the list of tasks, the    *)
(* dialog that creates or edits one, and the requests behind both.         *)
(*                                                                         *)
(* A task of a guest action acts on a guest, and a "migrate" moves it to   *)
(* another node, a "restore" to an archive, perhaps onto another storage,  *)
(* a "rollback" to a snapshot; archives and snapshots are looked up while  *)
(* the dialog is open.  A node task acts on nodes.  An item is <<g, k>>,   *)
(* the k-th archive or snapshot of guest g, Newest the newest; a storage   *)
(* is named by the node it is local to.  The list always shows what is     *)
(* stored: a dialog opened from an old list is one that has been open for  *)
(* a while.                                                                *)
(***************************************************************************)
EXTENDS Integers, FiniteSets

CONSTANTS
  Nodes,
  Infra,        \* Infra[n]: the infrastructure of node n
  Guests,
  Home,         \* Home[g]: the node guest g is on
  Actions,      \* what a task may do
  Newest,       \* bound: archives and snapshots per guest
  Tasks,        \* the scheduled tasks there can be
  None

Infras == {Infra[n] : n \in Nodes}

EditorAssumption ==
  /\ None \notin Guests \cup Tasks \cup Nodes /\ None \notin Infras
  /\ \A g \in Guests : Home[g] \in Nodes
  /\ Newest \in Nat \ {0}

Items == Guests \X (1 .. Newest)
Lookups == {"restore", "rollback"}

\* actionIsNode, actionAllowsMultipleNodes
NodeTasks == {"check-updates", "reboot"}
Several == {"check-updates"}
GuestTasks == Actions \ NodeTasks

Task == [infra : Infras, action : Actions, guest : Guests \cup {None},
         nodes : SUBSET Nodes, item : Items \cup {None},
         storage : Nodes \cup {None}, target : Nodes \cup {None},
         enabled : BOOLEAN]

VARIABLES
  server,       \* server[t]: the task as stored, or None
  form,         \* the dialog
  lookups,      \* guests whose items are on their way and not cancelled
  saving,       \* createTask / updateTask: the request in flight, or None
  toggling      \* setEnabled: the request in flight, or None

vars == <<server, form, lookups, saving, toggling>>

Form == [open : BOOLEAN, editing : Tasks \cup {None},
         infra : Infras \cup {None}, action : Actions \cup {None},
         guest : Guests \cup {None}, nodes : SUBSET Nodes,
         item : Items \cup {None}, listed : Guests \cup {None},
         storage : Nodes \cup {None}, target : Nodes \cup {None},
         enabled : BOOLEAN]
Save == [id : Tasks \cup {None}, task : Task]

TypeOK == /\ server \in [Tasks -> Task \cup {None}]
          /\ form \in Form /\ lookups \subseteq Guests
          /\ saving \in Save \cup {None}
          /\ toggling \in [id : Tasks, enabled : BOOLEAN] \cup {None}

\* resetForm
Blank == [open |-> FALSE, editing |-> None, infra |-> None, action |-> None,
          guest |-> None, nodes |-> {}, item |-> None, listed |-> None,
          storage |-> None, target |-> None, enabled |-> TRUE]

\* What the dialog offers for an infrastructure: its nodes, its guests.
NodesOf(i) == {n \in Nodes : Infra[n] = i}
GuestsOf(i) == {g \in Guests : Infra[Home[g]] = i}
\* restoreTargetStorageOptions: storages the guest's node can reach.
StoragesOf(g) == IF g = None THEN {} ELSE {Home[g]}

Init == /\ server = [t \in Tasks |-> None]
        /\ form = Blank /\ lookups = {}
        /\ saving = None /\ toggling = None

-----------------------------------------------------------------------------
\* The dialog.  A change of action or guest runs the lookup effects: they
\* clear the list and the choice, cancel the request in flight and ask anew.

\* Mutant of Lookup: the request in flight is not cancelled.
LookupKeeps(f) ==
  IF f.action = form.action /\ f.guest = form.guest
    THEN form' = f /\ UNCHANGED lookups
  ELSE /\ form' = [f EXCEPT !.item = None, !.listed = None]
       /\ lookups' = lookups \cup (IF f.action \in Lookups /\ f.guest # None
                                   THEN {f.guest} ELSE {})

Lookup(f) ==
  IF f.action = form.action /\ f.guest = form.guest
    THEN form' = f /\ UNCHANGED lookups
  ELSE /\ form' = [f EXCEPT !.item = None, !.listed = None]
       /\ lookups' = IF f.action \in Lookups /\ f.guest # None THEN {f.guest}
                     ELSE {}

\* The first infrastructure is chosen for the user, if one is known by now.
OpenCreate(i) == /\ ~form.open
                 /\ Lookup([Blank EXCEPT !.open = TRUE, !.infra = i])
                 /\ UNCHANGED <<server, saving, toggling>>

\* The nodes of the payload, or else the node of the task.
StoredNodes(task) == IF task.guest = None THEN task.nodes
                     ELSE {Home[task.guest]}

\* Whatever the task's archive or snapshot is, the effects clear it.
OpenEdit(t) ==
  /\ ~form.open /\ server[t] # None
  /\ Lookup([open |-> TRUE, editing |-> t, infra |-> server[t].infra,
             action |-> server[t].action, guest |-> server[t].guest,
             nodes |-> StoredNodes(server[t]), item |-> server[t].item,
             listed |-> None, storage |-> server[t].storage,
             target |-> server[t].target, enabled |-> server[t].enabled])
  /\ UNCHANGED <<server, saving, toggling>>

\* Cancel or the cross: a save in flight goes on.
CloseEditor == /\ form.open
               /\ Lookup(Blank)
               /\ UNCHANGED <<server, saving, toggling>>

\* Another infrastructure clears what belongs to the old one, but for the
\* storage of a restore.
SelectInfrastructure(i) ==
  /\ form.open /\ i # form.infra
  /\ Lookup([form EXCEPT !.infra = i, !.nodes = {}, !.guest = None,
                         !.target = None])
  /\ UNCHANGED <<server, saving, toggling>>

\* Another action, also for a task being edited; None when deselected.
SelectAction(a) ==
  /\ form.open /\ form.infra # None /\ a # form.action
  /\ Lookup([form EXCEPT !.action = a, !.nodes = {}, !.guest = None,
                         !.item = None, !.storage = None, !.target = None])
  /\ UNCHANGED <<server, saving, toggling>>

\* Another guest: the target of a migration and the storage stay.
SelectGuest(g) == /\ form.open /\ form.action \in GuestTasks
                  /\ g \in (GuestsOf(form.infra) \cup {None}) \ {form.guest}
                  /\ Lookup([form EXCEPT !.guest = g])
                  /\ UNCHANGED <<server, saving, toggling>>

\* A choice among the items listed, never while they are loading.
SelectItem(i) ==
  /\ form.open /\ form.listed # None /\ lookups = {}
  /\ form.guest # None
  /\ i \in (({form.listed} \X (1 .. Newest)) \cup {None}) \ {form.item}
  /\ form' = [form EXCEPT !.item = i]
  /\ UNCHANGED <<server, lookups, saving, toggling>>

\* The nodes of a node task, one or several.
SelectNodes(ns) ==
  /\ form.open /\ form.action \in Actions \cap NodeTasks
  /\ ns \subseteq NodesOf(form.infra) /\ ns # form.nodes
  /\ form.action \in Several \/ Cardinality(ns) <= 1
  /\ form' = [form EXCEPT !.nodes = ns]
  /\ UNCHANGED <<server, lookups, saving, toggling>>

SelectStorage(n) ==
  /\ form.open /\ form.action = "restore" /\ form.guest # None
  /\ n \in (StoragesOf(form.guest) \cup {None}) \ {form.storage}
  /\ form' = [form EXCEPT !.storage = n]
  /\ UNCHANGED <<server, lookups, saving, toggling>>

\* The node of a migration, never the one the guest is on.
SelectTarget(n) ==
  /\ form.open /\ form.action = "migrate"
  /\ n # form.target
  /\ n \in (NodesOf(form.infra) \ StoragesOf(form.guest)) \cup {None}
  /\ form' = [form EXCEPT !.target = n]
  /\ UNCHANGED <<server, lookups, saving, toggling>>

\* The answer of a lookup.  The newest archive is chosen at once, a snapshot
\* is left to the user; a failure leaves nothing to choose from.
LookupAnswer(g, ok) ==
  /\ g \in lookups
  /\ lookups' = lookups \ {g}
  /\ form' = IF ~ok THEN [form EXCEPT !.listed = None, !.item = None]
             ELSE [form EXCEPT !.listed = g,
                     !.item = IF form.action = "restore" THEN <<g, Newest>>
                              ELSE @]
  /\ UNCHANGED <<server, saving, toggling>>

\* The task the form describes: each action sends what it needs.
Input ==
  LET only(a, x) == IF form.action = a THEN x ELSE None
      ofGuest == form.action \in GuestTasks
  IN  [infra |-> form.infra, action |-> form.action,
       guest |-> IF ofGuest THEN form.guest ELSE None,
       nodes |-> IF ofGuest THEN {} ELSE form.nodes,
       item |-> IF form.action \in Lookups THEN form.item ELSE None,
       storage |-> only("restore", form.storage),
       target |-> only("migrate", form.target), enabled |-> form.enabled]

\* What saveTask asks for before it sends anything.
Complete ==
  /\ form.action \in GuestTasks => form.guest # None
  /\ form.action \in NodeTasks =>
       /\ form.nodes # {}
       /\ form.action \in Several \/ Cardinality(form.nodes) = 1
  /\ form.action \in Lookups => form.item # None
  /\ form.action = "migrate" => form.target \notin {None, Home[form.guest]}

\* saveTask: the whole task is sent, its enabled flag as it was when the
\* dialog was opened.
SaveTask ==
  /\ form.open /\ saving = None
  /\ form.infra # None /\ form.action # None /\ Complete
  /\ saving' = [id |-> form.editing, task |-> Input]
  /\ UNCHANGED <<server, form, lookups, toggling>>

\* A POST makes a task, a PUT replaces one; a task deleted meanwhile is gone.
Stored == IF saving.id # None
            THEN IF server[saving.id] = None THEN {}
                 ELSE {[server EXCEPT ![saving.id] = saving.task]}
          ELSE {[server EXCEPT ![t] = saving.task] :
                  t \in {u \in Tasks : server[u] = None}}

\* Success closes and clears whatever dialog is open by now, a failure is
\* shown in it.
SaveAnswer ==
  /\ saving # None
  /\ saving' = None
  /\ \/ \E s \in Stored : server' = s /\ Lookup(Blank)
     \/ UNCHANGED <<server, form, lookups>>
  /\ UNCHANGED toggling

-----------------------------------------------------------------------------
\* The list.

\* A switch; one at a time, the others are disabled meanwhile.
Toggle(t) == /\ server[t] # None /\ toggling = None
             /\ toggling' = [id |-> t, enabled |-> ~server[t].enabled]
             /\ UNCHANGED <<server, form, lookups, saving>>

ToggleAnswer ==
  /\ toggling # None
  /\ toggling' = None
  /\ \/ /\ server[toggling.id] # None
        /\ server' = [server EXCEPT ![toggling.id].enabled = toggling.enabled]
     \/ UNCHANGED server
  /\ UNCHANGED <<form, lookups, saving>>

\* Confirmed and deleted, here or by someone else.
Delete(t) == /\ server[t] # None
             /\ server' = [server EXCEPT ![t] = None]
             /\ UNCHANGED <<form, lookups, saving, toggling>>

-----------------------------------------------------------------------------

EditorNext == \/ CloseEditor \/ SaveTask \/ SaveAnswer
              \/ \E i \in Infras \cup {None} : OpenCreate(i)
              \/ \E i \in Infras : SelectInfrastructure(i)
              \/ \E t \in Tasks : OpenEdit(t)
              \/ \E a \in Actions \cup {None} : SelectAction(a)
              \/ \E g \in Guests \cup {None} : SelectGuest(g)
              \/ \E i \in Items \cup {None} : SelectItem(i)
              \/ \E ns \in SUBSET Nodes : SelectNodes(ns)
              \/ \E n \in Nodes \cup {None} :
                   SelectStorage(n) \/ SelectTarget(n)
              \/ \E g \in Guests, ok \in BOOLEAN : LookupAnswer(g, ok)
ListNext == ToggleAnswer \/ \E t \in Tasks : Toggle(t) \/ Delete(t)

Next == EditorNext \/ ListNext

Spec == Init /\ [][Next]_vars

-----------------------------------------------------------------------------

\* What a task names belongs together: its guest and its nodes to its
\* infrastructure, its archive or snapshot to its guest, and a migration
\* leads to another node there.
Fits(task) ==
  /\ task.guest # None => Infra[Home[task.guest]] = task.infra
  /\ \A n \in task.nodes : Infra[n] = task.infra
  /\ task.action \in Lookups => task.item # None /\ task.item[1] = task.guest
  /\ task.action = "migrate" => /\ Infra[task.target] = task.infra
                                /\ task.target # Home[task.guest]

\* Every stored task fits, however choices, lookups, edits and saves overlap.
StoredFits == \A t \in Tasks : server[t] # None => Fits(server[t])

\* The archives and snapshots on offer are those of the guest chosen for an
\* action that needs them, whatever answers are late: the dialog implements
\* Selection.
Loaded == INSTANCE Selection WITH
            Things <- Guests, shown <- form.listed,
            selected <- IF form.action \in Lookups THEN form.guest ELSE None
FollowsSelection == Loaded!Spec
=============================================================================
