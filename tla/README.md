# A verification project for ProxPilot

ProxPilot is a web application for one or more Proxmox VE clusters: it shows
nodes and guests, updates nodes, moves, backs up and restores guests, and runs
such actions on a schedule. This directory holds TLA+ models of its backend and
of its web frontend, as far as their correctness depends on the order of events,
TLC configurations that check them, and proofs, checked by TLAPS, of all their
safety properties.

The models are translated from the Python sources under `src/backend/app` and the
TypeScript sources under `src/frontend/src`. Every definition's source lines are
in the `map` of `PROJECT.json`; the same file lists the components, the hazards
of the code at their lines, the runs, one mutant for each property of a passing
run, the findings and the theorems.

Run a model with `tlc -workers 2 -config Frontend.cfg MCFrontend` and a proof
with `tlapm ManagedTasks_proofs.tla`, both in this directory.

## 1. Inventory

### How the program runs

One Python process (uvicorn) runs one asyncio event loop. Route handlers
(`main.py`, `routes/console.py`), the scheduler's poll loop and every background
activity are coroutines on that loop, so they interleave at `await` only; a
handler without an `await` between reading and writing is one step. Three things
escape that rule:

* update checks, installations, package cleanups and power actions block on SSH
  and run in threads of asyncio's default executor (`asyncio.to_thread`);
  `TaskManager` and `UpdateCache` protect their dictionaries with locks;
* Proxmox goes on by itself: a job (UPID) started by a POST runs whether or not
  ProxPilot saw the answer or still polls, and so do the HA manager, scheduled
  backups and whoever works in the Proxmox interface;
* the process may stop anywhere. Docker restarts it (`docker-compose.yml`,
  `restart: unless-stopped`). The SQLite database survives; managed tasks,
  console tickets and the update cache live in memory and do not.

Each browser runs the React frontend on one thread. A handler runs up to its next
`await`, and React runs the effects of what it changed before the next event. What
is concurrent there are *answers*: a request stays in flight while the user edits
the form it was made from, opens another dialog, chooses another guest or leaves
the page, and its continuation then writes into whatever state the component has.
Queries of TanStack Query are kept under keys and refetched every few seconds, so
a page also works on lists that are out of date. Several browsers and the Proxmox
interface act on the same server.

### Components: the server and what it starts

**Task Scheduler** (`scheduler.py`, `scheduler_worker.py`, the routes at
`main.py:7395`). State: rows of `scheduled_tasks` (schedule, `enabled`,
`next_run`, `completed_at`, `last_result`) and `scheduled_task_runs`; a coroutine
per run. Operations: create, update, enable, disable, delete, Run now; poll and
claim; execute; record success or failure; notify and audit. Hard: polls, Run now,
edits and recording meet on one row; a run outlives the task it belongs to; a
failed audit write re-enters the failure path; a restart between claim and
recording. Correct when: a task has one execution at a time, occurrences are
executed at most once and skipped when missed, a due task is claimed, a run ends,
and a user's changes prevail.

**Task manager and node actions** (`tasks.py`). State: a table of managed tasks,
the set of nodes locked for an update action. Operations: reserve, create, start,
log, finish, partial, fail; the threads of update check, installation, cleanup
and power actions; batches that create a child task on each node. Hard: any task
that ends releases the lock of its node; refused, failed and successful members
of a batch; few executor threads. Correct when: update actions exclude each other
on a node, no lock leaks, a batch's verdict accounts for every node, final states
are final, every task ends.

**Scheduled node actions** (`scheduler_worker.py:850-1140` over `tasks.py`).
State: which run waits for which managed task, who reports what. Hard: two
timelines (run and task) that must tell one story; timeout against late end.

**Guest restore** (`tasks.py:2002-2560`). State: the coroutine with its flags
`restore_started` and `restore_completed`; in Proxmox the guest, its disks, its HA
resource, three jobs. Hard: every call may fail, or succeed unheard; HA manager
acts in parallel. Its HA resource is looked up as `vm:<vmid>` only. Correct when: a
half-restored guest is never started, an untouched one is brought back.

**Guest migration** (`main.py:4334-6719`, `tasks.py:2562-3500`). State: preflight
result, staging plan, cleanup error; in Proxmox the source's disks, its unused
entries and lock, moving jobs, the remote migration. Hard: hours of jobs, answers
that get lost, a cleanup of a dozen calls. Correct when: a success means that the
machine arrived and its source is tidy, and nobody else's volume is destroyed.

**Console** (`routes/console.py`, `ConsolePage.tsx`). State: one-time tickets, a
WebSocket on each side of the relay with two copying tasks, the page's RFB
object. Hard: either end goes first, at any stage; events of objects that were
replaced. Correct when: one end gone, the other is closed.

**Proxmox client** (`proxmox.py`). Operations: `request()` walks over the
endpoints of an infrastructure. Hard: a POST repeated after a timeout.

### Components: pages with their part of the server

**Users and sessions** (`users.py`, `auth.py`, `UsersPage.tsx`, `AuthGate.tsx`).
State: the table of users; a signed cookie with the role of the moment of sign-in;
the page's list and dialog. Hard: several administrators, stale lists, sessions that
outlive their role. Correct when: an enabled administrator remains.

**Audit log** (`audit.py`, `AuditLogPage.tsx`). State: entries; filter and page;
dialogs. Hard: the log's deletion and its own entry are two commits. Correct when:
a deletion that was reported has left its entry.

**Notification and LDAP settings** (`NotificationSettingsCard.tsx`,
`LdapSettingsCard.tsx` and their handlers). State: settings with secrets that never
come back to the browser; forms; requests that overlap. Correct when: a secret
changes only by a save of its own form that carries one, or by its deletion.

**Infrastructures** (`infrastructures.py`, `InfrastructureSettingsCard.tsx`). State:
endpoints with nodes, token and name; the form with a discovery made from it; the
list. Hard: fields stay editable while a discovery is on its way. Correct when:
what is stored has the nodes behind its endpoint.

**HA control** (`ha_control.py`, `ClusterPage.tsx`). State: armed or not; the
dashboard's idea of it; the dialog with its mode. Hard: a dialog whose cluster or
state changes under it; a mode left from a cancelled dialog.

**Nodes page and node actions** (`NodesPage.tsx`, the node routes). State: the last
dashboard answer, questions, requests. Hard: the warning before a shutdown goes by
an old answer. Correct when: no node of a cluster, whose guests could have been moved,
goes down without the warning.

**Guests page** (`GuestDetailsDrawer.tsx`). State: the guest, its details, the
migration form with its dependent fields, preflight, task and polls. Hard: all of
it can change under requests in flight. Correct when: what is sent is what was
checked, and an outcome is told once and truly.

**Backups and snapshots of a guest** (`GuestBackupButton.tsx`,
`SnapshotButton.tsx`, `BackupsPage.tsx`). State: a dialog with jobs and archives, a
restore dialog that wants RESTORE typed, a snapshot dialog closed to input until its task
ends. Correct when: the dialog becomes usable again.

**Task scheduler page** (`TaskSchedulerPage.tsx`, `useScheduledTasks.ts`). State:
the dialog with fields that depend on each other, lookups of archives and
snapshots, the stored tasks. Hard: lookups that arrive for a former choice. Correct
when: what is stored fits together.

**Host details and network pages** (`HostDetailsPage.tsx`, `NetworkPage.tsx`,
`App.tsx`). State: the chosen infrastructure and node, answers under keys. Hard:
node names shared by infrastructures; fallbacks. Correct when: what is on the screen
belongs to what is chosen.

**Tasks page and activity panel** (`TasksPage.tsx`, `ActivityPanel.tsx`). State: the
task opened last, a choice kept in the browser, filters. Hard: lists and dashboards
in any order. Correct when: a task that was opened is on the screen.

**Left out or nearly so**: storage and replications pages, regional settings, system
information, the reads behind dashboard and host page, schema migrations, key files,
LDAP sign-in, presentation, packaging. Section 7 says why.

### Interactions

```
 browser:  pages and dialogs --- forms, lists, queries under keys
   |   ^                                |  WebSocket
   v   | answers, in any order          v
 routes ----> Task Scheduler --starts, polls--> Task manager --SSH--> nodes
   |             |  ^                              ^            console relay
   |             |  +-- rows, runs (SQLite)        | activities:     |
   |             v                                 | restore,        |
   |       notifications, audit                    | migration, ...  |
   +-- users, settings, infrastructures, ----------+--API--> Proxmox jobs
       audit log (SQLite)
```

The scheduler knows the task manager through `get_task(id).state` alone. Restores,
migrations, guest actions, snapshots, backups and maintenance are activities: managed
tasks whose coroutine polls a Proxmox job. They reserve no node, but their end
passes through the same `finish` and `fail` as an update action's, which is where
they meet the node locks.

`App.tsx` mounts one page at a time. Pages share no React state but the selections
`App` holds (a task, a node) and what a few of them keep in `localStorage`; all else
goes through the server. A page must therefore cope with any answer that any state
of the server can give, and that is how each page is modelled.

## 2. Modules

| Module | Models | Depends on |
|---|---|---|
| `ScheduledTasks` | scheduler rows, runs, worker, restarts | - |
| `ScheduledTasks_proofs` | theorems about it | `ScheduledTasks` |
| `ManagedTasks` | task manager, node locks, threads, batches | - |
| `ManagedTasks_proofs` | theorems about it | `ManagedTasks` |
| `ScheduledNodeActions` | scheduler runs waiting for managed tasks | `ManagedTasks` |
| `ScheduledNodeActions_proofs` | theorems about it | `ScheduledNodeActions`, `ManagedTasks_proofs` |
| `GuestRestore` | one restore with Proxmox around it | - |
| `GuestMigration` | one migration with Proxmox around it | - |
| `GuestCopies` | backup, restore and snapshot dialogs of a guest | - |
| `Console` | tickets, relay and console page | - |
| `Operations` | the last four and `ManagedTasks` under one fairness | all of them |
| `Operations_proofs` | theorems about restores, types of the others | `Operations` |
| `OperationsMigration_proofs` | theorems about migrations | `Operations_proofs` |
| `GuestDrawer` | details and migration form of a guest | - |
| `SchedulerEditor` | the scheduler's dialog and what is stored | `Selection` |
| `NodeActions` | nodes page and the node routes | - |
| `NodeViews` | host and network page | `Selection` |
| `Selection` | abstract: an answer on the screen is about the selection | - |
| `TaskView` | tasks page and activity panel | - |
| `InfrastructureSettings` | the infrastructures card and its handlers | - |
| `SettingsForms` | settings with secrets | - |
| `Accounts` | users, sessions, sign-in, users page | - |
| `ClusterHa` | cluster page and HA control | - |
| `AuditLog` | audit page and the log | - |
| `Frontend` | the ten pages above as one specification | all of them |
| `Frontend_proofs` | theorems about users, log, settings, infrastructures | `Frontend` |
| `FrontendPages_proofs` | theorems about nodes, views, tasks, cluster | `Frontend_proofs` |
| `FrontendDialogs_proofs` | theorems about scheduler page and guest drawer | `FrontendPages_proofs` |
| `MC...` | instances for TLC: values, symmetry | one each |

Every module keeps mutated forms of some definitions next to the originals, under
a comment "Mutant of ...": nothing uses them; each is a plausible bug that one of
the properties must notice.

### ScheduledTasks

`row[t]` is the row of `scheduled_tasks`, `run[<<t, n>>]` the n-th run of `t`: its
row in `scheduled_task_runs` (`result`, `trigger`) joined with the coroutine that
executes it (`pc`) and the snapshot it took (`for` is the `next_run` it was claimed
with, `repeat` the interval, `rev` the number of edits before it). `holder` is the
run whose coroutine keeps the loop between two awaits: the code after
`await _execute_scheduled_task` commits the result in one transaction, then sends
a notification, then writes an audit event in another; `LoopFree` in the guard of
all other operations expresses that nothing else runs in between, while
`ProcessEnds` and `Tick` may. This is the reading of the code that makes a crash
between result and audit event, or an audit event that raises, visible.

| Action | Code |
|---|---|
| `CreateTask`, `UpdateTask`, `SetEnabled`, `DeleteTask` | `scheduler.py`, behind the routes |
| `StartManual` | `create_manual_run` with its check of running rows |
| `ClaimDueTasks` | `claim_due_tasks`: all due tasks in one transaction |
| `RecordSuccess`, `RecordFailure` | `_finish_run_success`, `_finish_run_failed`, and the manual forms |
| `ExecutionRaises` | any exception of the action or of recording its success |
| `FailureNotRecorded` | recording the failure raises: nobody catches it |
| `ReportRun`, `AuditRaises` | notification and audit event |
| `ProcessEnds`, `ProcessStarts` | shutdown or crash; `initialize_application` |

Time is an integer and an interval a positive number; `NextRun` is the closed form
of the loop that adds intervals until the result is after the present. A month as
an interval is left for the module `ScheduleCalc` of the plan. `Latest` is the last
representable time: a schedule that leaves it makes `Overflows` true and recording
raise. The clock is assumed not to run backwards.

### ManagedTasks

A node is a key (infrastructure, node name). `task[i]` is the i-th `ManagedTask`
with the place `pc` its thread or coroutine has reached; `items[i][n]` says what
became of node `n` in batch `i`; `locks` is `_node_update_locks`. `released` is a
history variable: the nodes whose lock fell to a task that had not taken it. Each
method of `TaskManager` holds its mutex and is one step. `Thread(i)` needs a free
executor thread to begin; batches and activities are coroutines and need none.
`Release` is the tail of `finish` and `fail`, which discard the lock of the task's
node for every kind of task (`tasks.py:1003`). Restores, migrations and guest
actions appear as kind "activity": created on a node, started, ended in any state.

### ScheduledNodeActions

Extends `ManagedTasks` with `source[i]`, the run that waits for task `i` and the
set of notifications sent about it. `ScheduleStarts` is `_execute_node_action`,
`Polls` and `TimesOut` are the two exits of `_wait_for_managed_task`; `TaskStep` is
any step of `ManagedTasks`, with the notification that the end of a task causes.
A timeout may happen at any moment, since the model has no clock.

### GuestRestore

`pc` walks through `_execute_guest_restore` call by call. `PutHaState` and `PostJob`
give each call that changes Proxmox three outcomes: it is answered; it is carried
out but the answer is lost (only for calls in `Lost`); it is not carried out. Both
latter raise. `AwaitJob` and `PollFails` are `_wait_proxmox_task`. The second half
of the module is Proxmox: jobs begin and end, jobs of one guest exclude each
other, the HA manager starts and stops the guest as its resource says, and a stop or a
start of a guest under HA may be handed to the HA manager (`HandOver`). That environment is
marked external in the map.

`guest_type`, chosen by `Init`, is a virtual machine or a container. `ha` is the state of the
guest's HA resource in Proxmox; `Resource` is what `guest_ha_resource` finds of it, which is
nothing for a container, since the code compares with `vm:<vmid>` (`proxmox.py:603`). All
steps of the coroutine go by `Resource`, and `PutHaState`, whose PUT has the same `vm:` in its
path, takes effect only on a resource that exists. `HaInSight == Resource = ha` says that
the guest is a virtual machine, or a container without a resource. What `NeverRunsHalfRestored` and
`RestoresStoppedGuest` say, and what `SuccessMeansRestored` says of the guest's state, is about these
guests only, because the code breaks it for a container under HA (section 6). `BringsBackGuest` speaks
of every guest; of a container under HA it asks that its resource is as it was unless the guest
was started again.

### GuestMigration

The record `my` is the coroutine: `run_remote_migration` up to the remote migration
(`phase = "before"`), then the part of `_monitor_proxmox_activity` that cleans up
(`phase = "cleanup"`). Both phases move disks and delete leftovers in almost the
same steps, so they share `MoveDisk`, `WaitMove`, `Verify`, `DeleteEntries` and
`CheckEntries`, and differ in `Before`. What differs in the code differs here: the
staging reads the configuration once before all disks, the cleanup before each.
An exception before the end of the remote migration fails the task; one after it
is noted in `trouble` (`migration_cleanup_error`) and makes a good result partial.
`source.unused` splits the unused entries of the configuration into those that moved
disks left and `theirs`, which belong to users. Jobs may end with warnings, which
the code takes for a failure. A scheduled backup may lock the source.

### Operations and Frontend

Both compose modules by `INSTANCE` and have a variable `part`, chosen by `Init`, that
says which of their modules a behaviour is about; the variables of the others keep
an initial value. This is no restriction: the modules share no variable, because
the program's parts share none (a restore and a migration are coroutines with their
own locals, pages hold their own React state, and each module lets its server do
whatever other users and pages could make it do). A behaviour of the whole, projected
on one part, is a behaviour of that part. It keeps the state spaces added up instead
of multiplied. Where parts do share state they are composed in full: managed tasks
and scheduler runs in `ScheduledNodeActions`, a page and its server within each of the
page modules.

`Operations` also states fairness, and so holds what must come to an end.

### GuestDrawer

`guest` is the copy of the guest the card handed over, `migration` (`form` in the
module) the form, `details` what was loaded, with `detailCalls` the loads in flight;
`track`, `polls` and `reports` are the task that is polled, the polls under way and the
notices shown. A handler and the effects React runs because of it are one action.
`PreflightAnswer` includes the confirmation of its warnings, since `window.confirm`
blocks the page. The calls of `loadDetails` are not cancelled when the drawer closes or shows
another guest: `DetailsAnswer` writes what a late one brings into the drawer, whichever
guest it then shows.

### SchedulerEditor

`form` is the dialog, `server` the stored tasks, `lookups` the requests for archives and
snapshots that were not cancelled by their effect's cleanup. Items and storages are
tied to the guest or node they belong to, so that the model can tell a task that
mixes them. The property `FollowsSelection` says that the dialog implements
`Selection`, with the chosen guest as selection and the guest whose items are listed
as what is shown.

### NodeActions, ClusterHa, TaskView, NodeViews

Each has the last dashboard answer (`shown`, `seen`, `infras`, `status`) beside what is
true, and lets an answer lag, lack nodes and fail. In `NodeActions` the handlers' own
checks are part of the step that serves a request. A dialog warns in two places, its text
(`getActionText`, for nodes of a cluster) and an alert below it (for every node): `Warnings`
gives those that were shown, a request remembers them as `told`, and `WarnedOrMaintained` asks for
the text, of a cluster's nodes only (section 6 has the disagreement between the two). In `NodeViews` the key of a query is
an operator of its own (`Key`), since what a page shows is decided by it; the page
implements `Selection` with the chosen node as selection.

### InfrastructureSettings, SettingsForms, Accounts, AuditLog

Each has the table or settings of the server, the form or dialog, and the requests in
flight. A handler that commits once is a step (`Serve`, `Submit`, ...). Two commit more than
once and have their stops in between: the LDAP settings, which are written one by one
(`Begun`), and the deletion of the audit log (`Clear`). Other users' requests appear as
`OtherRequest` and the like.

Names of infrastructures are values with one equality. The code has two: creating one compares
names without regard to case (`infrastructures.py:719`), renaming one compares them exactly
(`infrastructures.py:890`, where `COLLATE NOCASE` goes with the comparison of the `id`). Names that
differ in case only, which renaming admits, are different names to the model. `AuditLog` has the
entries of other users, but not their deletion of the log.

### GuestCopies and Console

`GuestCopies` joins the three dialogs of a guest's card: `restore` carries the archive the
confirmation was typed for, `snap` the polls of a snapshot task that may fail, never answer
or outlast the attempts. In `Console` each call `k` of `connectConsole` has its ticket, its
two sockets and its copying tasks (`pumps`); `Ready` is `FIRST_COMPLETED` followed by the
cancellation of the other task.

## 3. What is checked

Each property has a mutant of a mapped definition under which its run fails.

| Run | Expected | Shows |
|---|---|---|
| `schedule_faults` | pass | With stops at every commit, audit and database writes that raise and schedules that overflow: executions of a task exclude each other (`OneExecution`), no occurrence is executed twice (`ScheduleAdvances`), `last_result` is that of the latest recorded run (`LastResultIsLatest`), schedules lie in the future (`NoBacklog`), Run now leaves the schedule alone (`ManualRunFreezesSchedule`). |
| `schedule_quiet` | pass | Without faults: a due task is claimed, a run ends, a running row has its coroutine, failed runs lose no schedule. |
| `schedule_stop` | violation | A run executing at a stop says "running" for ever. |
| `schedule_edit` | violation | The end of a run overwrites what users saved meanwhile. |
| `tasks` | pass | Managed tasks with scheduler runs waiting for some of them: lock invariant, exclusion unless the lock was taken away, no leak, verdicts of batches, final states; a run's result is its task's final state and an action on one node is reported once. |
| `tasks_mutex` | violation | Another task's end admits a second update action. |
| `actions_timeout` | violation | A partly successful batch is awaited until the timeout. |
| `operations` | pass | Half-restored guests are not started, a restore begins on a guest that stays stopped, its success means restored (all three for virtual machines and for containers not under HA); untouched guests are brought back; success of a migration means moved; a migration's cleanup is complete or reported, volumes unused before are kept, hands off a migration at work; node tasks, restores and migrations end (`EveryTaskEnds`); the snapshot dialog becomes usable again; both ends of a console close. |
| `restore_lost` | violation | A lost answer of the restore itself starts the guest over it. |
| `migrate_detach` | violation | A disk detached meanwhile is deleted. |
| `pages` | pass | For all pages: what is sent is what was checked and picked (`SentAsChecked`); a migration's outcome is told once and truly (`OutcomeToldOnce`); what is stored fits together (`StoredFits`); no shutdown of a cluster's node around the warning (`WarnedOrMaintained`); an administrator remains (`AdminRemains`); a deletion of the log that was reported left its entry (`DeletionRecorded`); an opened task is shown (`SelectedShown`); secrets change by their own form only (`SecretsKept`); what is loaded belongs to what is chosen, as a refinement of `Selection` (`FollowsSelection`). |
| `host_updates` | violation | The host page shows the update status of another infrastructure's node. |

### Bounds, and why they are enough

* **Scheduler.** One task. Tasks share only the loop, and a second one could do
  no more than hold it for a while; the theorems of section 5 hold for any set of
  tasks. Three runs let a claim, a Run now and a late recording overlap with a
  further claim; the clock reaches 3, so that an interval of 1 or 2 is missed,
  met and passed; one edit suffices to change a schedule under a run. `Latest = 3`
  in `ScheduleFaults` is what makes overflow reachable; elsewhere it is out of
  reach. Run now is bounded by `MaxRuns` like any run, so `DueTaskIsClaimed` is
  stated up to the exhaustion of run numbers.
* **Task manager and scheduled actions.** Two nodes, two threads, four tasks in
  `tasks`: a batch over both nodes takes three numbers, which leaves one for a rival
  on either node. `Room` reserves the numbers of children still to be created, so
  a batch never waits for the bound. `tasks_mutex` needs one node only; three tasks and one
  thread are the hardest case where termination is the question (`operations`): a batch that
  held a thread while it waits for its children would wait for ever.
* **Restore and migration.** One guest, of either type and with any state of its HA resource, since two restores of one guest exclude
  each other in Proxmox. Two disks let the loops fail half-way; one volume unused
  from the start and one that a user detaches are the least that can be destroyed.
  Every call can fail at every place, without a budget. A lost answer is possible for
  the calls in `LostInRestore` and `LostInMigration`; `restore_lost` adds the one that breaks.
* **Dialogs and console** (`operations`). One job, two archives and one restore: a list
  can change between choice and confirmation. Two snapshot operations and one poll each
  (`Attempts`, 120 in the code) let a task outlast its polls and an old one end under a new
  one. Two calls of `connectConsole` (`MaxOpens`): the old object's events meet the new one.
* **Guests page.** Two guests on nodes of different infrastructures; three nodes, two of them
  with the same name; one start of a migration (`MaxStarts`) and two polls in flight (`MaxPolls`), the least
  that can overlap. The first start already meets a change of guest at each of its awaits.
* **Scheduler page.** Two guests on two nodes of one infrastructure, a third node in another,
  actions of each kind of dependent field, one archive each (`Newest`), one stored task. A rollback is left
  out of this instance: it is a restore without a storage, and the theorems about the dialog hold
  for any set of actions.
* **Nodes, cluster, views, tasks.** Two infrastructures, one of them no cluster; one POST of the page
  (`MaxPosts`), since it blocks its own dialog, with any step of other users around it; two
  clusters; two tasks, one of each infrastructure.
* **Settings, users, log.** Two infrastructures, endpoints and names, two requests in flight
  (`MaxCalls`) and one deletion; both channels and LDAP, one secret, two changes (`MaxRequests`), enough for one
  to be answered after the other; two users and two roles, where each can be the last administrator;
  three log entries (`MaxLog`) on pages of two.

`CHECK_DEADLOCK FALSE` stands in every configuration but `ScheduleFaults` and
`ScheduleStop`, where the process can always stop and start again. The other
instances may really stop: a restore, a migration or all tasks the bound admits have
ended, the requests a bound admits were made, or the scheduled task was deleted and the
bounded clock stands still. That nothing stops too early is what the liveness properties
say.

Symmetry over nodes is used in `Tasks` and `ActionsTimeout`, where all properties are
invariants or action properties; never with liveness.

## 4. Fairness

* The poll loop wakes every five seconds and survives exceptions of a poll
  (`scheduler_worker.py:2306-2342`): weak fairness of `ClaimDueTasks`.
* asyncio resumes ready coroutines, and an execution has a timeout on each of its
  waits: weak fairness of `Finishes(r)` and `Completes(r)`, and of the `Step` of a
  restore and a migration.
* The executor is a FIFO queue of a fixed number of threads: weak fairness of
  `Thread(i)`, whose guard needs a free thread.
* Docker restarts the process: weak fairness of `ProcessStarts`. Time passes.
* Proxmox jobs end: weak fairness of the actions that end them.
* A request of the browser is answered or fails, and the timer of a poll fires: weak fairness
  of these steps of the snapshot dialog (`GuestCopies!Fairness`).
* The relay's tasks are resumed when a socket has closed, and its `finally` runs: weak fairness
  of `Console!Fairness`.
* Nobody owes anything else: users, backups, the HA manager, failing reads and
  failing polls have no fairness. `Frontend` has none at all; its properties are safety.

One of these is a real assumption. `_run_streaming` gives `exec_command` a timeout,
but its loop over the channel (`tasks.py:1148`) asks `recv_ready` and never blocks,
so the timeout never applies and a remote command that hangs keeps its thread.
`EveryTaskEnds` therefore says: if remote commands end, tasks do. Likewise
`_monitor_proxmox_activity` and `_wait_proxmox_task` have no deadline, and the ends of
restores and migrations rest on jobs that end.

## 5. What is proved

Every safety invariant and every action property that a passing run checks is also a
theorem of the specification, for any sets of tasks, nodes, disks, users, infrastructures
or archives and any bounds. The proof modules assume nothing but the named assumptions on
constants, and, in the theorems named below, that a fault does not happen; each such
hypothesis has a run that shows what happens otherwise.

| Hypothesis | Theorems | Counterpart |
|---|---|---|
| `Calm`: no stop, no failing database, no overflowing schedule; audit writes may fail | `RunningMeansExecutingAlways`, `NotOrphanedAlways` | `schedule_stop` |
| `Kinds \subseteq UpdateKinds \cup BatchKinds`: nothing but updates and batches | `UpdateMutexOfUpdates` | `tasks_mutex` |
| `Kinds \cap BatchKinds = {}`: no batches | `TimeoutMeansUnfinishedOfTasks` | `actions_timeout` |
| `"restore" \notin LostInRestore`: the answer of the call that starts the restore is not lost | `NeverRunsHalfRestoredAlways`, `BringsBackGuestAlways`, `RestoresStoppedGuestAlways`, `SuccessMeansDoneAlways` | `restore_lost` |

The second and third turn a violation into its explanation: exclusion fails *only* through
a task that ends on a node without having locked it, and a run times out over an ended task
*only* if that is a batch. The first hypothesis holds in `schedule_quiet` and the last in
`operations`; the other two are systems without one kind of action.

The assumptions on constants state only what model values must satisfy to stand for what
they stand for: sets are of integers or finite where the code compares or counts, and
`None` is no element of a set it is the absence of (`AccountsAssumption`, `ClusterAssumption`,
`DrawerAssumption`). `OperationsAssumption` includes those of its parts.

**Scheduler** (`ScheduledTasks_proofs`). `SingleFlight` is inductive:
`TypeOK /\ Snapshots /\ OneExecution /\ LiveRuns /\ Numbering`.
`OneExecution` alone is not: a claim tests the rows, while exclusion is about
coroutines, so `LiveRuns` must tie them together (a live run says "running" unless it
holds the loop or its task was deleted); a new run must have a number nobody
uses (`Numbering`), also after a deletion, since ids are never reused; and `TypeOK`
needs `Snapshots`, for a recorded row gets its `next` by arithmetic on the time the
run was claimed for. The proof has a lemma per group of actions: user steps,
the claim, the coroutine's steps, the process. From it follow

* `TypeCorrect`, `OneExecutionAlways`: `Spec => []TypeOK`, `Spec => []OneExecution`;
* `NoBacklogAlways`, by `ScheduleChanges`, which says which steps can change
  `next` and to what, and `NextRunInFuture`, which is arithmetic of `\div`;
* `ManualRunFreezesScheduleAlways`: while a Run now execution is live, the claim's
  guard is false by `LiveRuns`, and any other run that could record is the same run
  by `OneExecution`.

Three further invariants extend it. They share the lemmas `UserEffect`, `ClaimEffect` and
`CoroutineEffect`, which say once what each group of actions does to a row and its runs
(`Keeps`, `Changes`, `Deletes`), so that none of the three goes through the actions again.

* `LatestInv` adds `Newest`: a live run is the newest of its task. Hence whoever records
  last has the highest number, and `LastResultIsLatestAlways` follows even with stops.
* `AdvanceInv` adds `ClaimedTimes`: a run was claimed for a time that has come, of a
  revision not above its row's, and, of the same revision, before the row's next. Without the
  last part `ScheduleAdvances` is not inductive, for nothing would order a new claim after
  the old ones. The case that matters is a run recorded as a success whose audit event
  raises: it is recorded again as failed, from the same snapshot.
* `CalmInv` adds, under `Calm`, that rows marked "running" have a coroutine that has not
  recorded yet (`Marked`), that a task never edited repeats as its runs do (`SameRepeat`), and that
  an empty schedule stands for a run that will fill it (`Awaited`).

**Task manager** (`ManagedTasks_proofs`). `LockInvariant` is inductive:
`TypeOK /\ Numbering /\ OnNodes /\ Working /\ LocksHeld /\ MutexUnlessReleased /\
NoLockLeak`. `MutexUnlessReleased` needs `LocksHeld` (an update action under way holds
its node's lock unless it was taken away), or a second reservation could succeed;
`Working` keeps an ended task from ending again and releasing a lock that is
no longer its own; `OnNodes` keeps update actions off the batch's pseudo node, whose
lock nobody takes. Lemmas `CreatedTask`, `CreateReserved`, `TaskEnds` and `QuietStep`
cover the four ways in which a step can touch the invariant. `BatchInv` adds what a verdict
rests on: a number not given out is no task (`Unborn`), a member's child exists and works on the
member's node (`Children`), batches have members (`Selected`) and no thread
(`Threadless`), so that only their own coroutine ends them. `ReservingInv` is
`LockInvariant` where every task on a node is an update: then `released` stays empty.

**Scheduler runs over managed tasks** (`ScheduledNodeActions_proofs`).
`ImplementsManagedTasks`, `SpecAll => Spec`, is a refinement with the identity as its mapping:
each step of the runs is a step of the task manager or leaves it alone. It carries all theorems above over.
`RunInv` adds to `BatchInv` that the tasks of runs are not the user's, unless they are batches
(`RunsOfScheduler`; `tasks.py:1702` makes batches manual), that each side reports its own
(`Reports`), and that a recorded result is the task's state (`Recorded`), which stays so because
ended tasks are final.

**Restore** (`Operations_proofs`). `NextOfParts` says that a step of `Operations` is, for
every part, a step of that part or a stutter. `RestoreInv` relates three parties: the
coroutine's place and flags (`FlagsInv`, `EndInv`, `RecoverInv`), what it remembers of the guest
(`SeenInv`), and Proxmox's jobs and disks (`DiskInv`, `JobsInv`). Its heart is `StopInv`: once the coroutine has
seen the guest stopped, nothing can start it -- no HA resource, or one whose state is stopped, and no start
job (`StaysStopped`). This needs `HaInSight`, and so do the three theorems that rest on it; `SeenInv` and
`JobsInv` hold for containers under HA too. `FlagsInv` contains `flags.started <=> job["restore"] # "none"`, which is exactly what a lost answer breaks.

**Migration** (`OperationsMigration_proofs`). `MigrationInv` follows the volumes: where each disk is, in
the plan, handled, or to do (`PlaceInv`); that the only entries left behind are those being deleted
(`LeftInv`); that a user's volumes are among the entries seen before a move (`VolumesInv`);
that a disk moves only while the coroutine waits for it, or after it gave up (`MoveInv`). `CleanupInv` and `RemoteInv`
tie this to the phases. There is one lemma per action. These need no hypothesis: any call may
fail or lose its answer. (`VolumesInv` is about volumes that were unused from the start; one that is
detached meanwhile is what `migrate_detach` shows to be lost.)

**Frontend** (`Frontend_proofs`, `FrontendPages_proofs`, `FrontendDialogs_proofs`). `PartsRefined`
says that a behaviour of the frontend is one of each page's own specification. Then, page by page:

* users: `AdminRemains` and a finite table are inductive, for a set with more than one element is not empty
  without one of them (`NotLastAdmin`);
* audit log: the entry of a deletion is there from its commit on, while it is still on its way to the page,
  and stays until it is the oldest (`AuditInv`);
* settings: a request carries a secret only as a save of its own form (`CallOK`), and a card waits for its own
  requests only (`PendingOK`); the second is what keeps late answers harmless;
* infrastructures: the save on its way has the nodes of its endpoint, which the form's effect and the discovery's
  answer establish together (`CardInv`);
* node actions, tasks page, cluster page: invariants about dialogs and requests at their stages;
* host page and scheduler's dialog implement `Selection`: initial states and every step are mapped. The first needs that a query's
  key determines the node (`KeysOfNodes`) and that what is kept under a key is about it (`ViewsInv`); the second that lookups
  in flight are about the guest that is chosen (`AboutGuest`), for an effect's cleanup cancels the others;
* guest drawer: the effects leave a form whose fields fit each other (`FormSettles`), so a payload taken from the form
  can be sent (`JobInv`); a poll is in flight only while its migration is followed and untold (`ToldInv`).

The inductive invariants were checked by TLC on small instances before they were proved.
`CHOOSE` for the first cluster needs well-founded induction on the natural numbers (`FirstCluster`).

Only model-checked:

* liveness: `DueTaskIsClaimed`, `RunEnds`, `EveryTaskEnds`, `SnapshotDialogFrees`, `BothEndsClose`.
  Their proofs would need `ENABLED` of the fair actions, which is out of the prover's reach;
* that what the violated properties say is indeed false of the code (`UserChangesSurviveRun`, `UserVolumesKept`,
  `UpdatesOfNode` and the four of the table): a counterexample is TLC's to find.

## 6. Where code and intent part

Shown by runs; `PROJECT.json` quotes the lines:

1. After a restart a run stays "running": its task is never claimed again and Run
   now is refused (`schedule_stop`).
2. The end of a run writes the schedule from its snapshot: a task switched off
   meanwhile is switched on again, an edited start is lost (`schedule_edit`).
3. Any task that ends on a node discards that node's update lock (`tasks_mutex`).
4. A run waiting for a batch that ended "partial" waits for its timeout
   (`actions_timeout`).
5. `restore_started` is set after the answer of the POST; if that is lost, the guest
   is started over a restore at work (`restore_lost`).
6. A disk detached by a user while a migration is staged is deleted as a leftover
   (`migrate_detach`).
7. The host page takes the first update status with the node's name, whatever its
   infrastructure (`host_updates`).

Part of the models' transitions, and left out of a property by a condition the property states, so that
dropping the condition shows it:

* **The HA resource of a container is never found** (`proxmox.py:603` and `:654` know `vm:` only, while
  `_execute_guest_restore` calls them for containers too). HA stays on and the HA manager may start the
  container while it is restored. Without `HaInSight`, TLC finds `NeverRunsHalfRestored` violated in seven states:
  a container is stopped and its resource says "started"; `ReadStatus`; `ReadResource` finds none; `StartRestore`;
  `RestoreRuns` writes; `RestoreRuns` fails half-way; `HaManager` starts the container. The first four of
  these states violate `RestoresStoppedGuest`. `SuccessMeansRestored` fails too: the container was to stay stopped and
  its resource still says "started". To see it, write `TRUE` for the body of `HaInSight` in `GuestRestore` and
  run `Operations.cfg` with one of the three properties.
* **Two warnings before a shutdown disagree about a node that stands alone.** `CHANGELOG.md:67-73` says that the
  warning is shown only for a node of a cluster that is not in maintenance mode; the dialog's text goes by that
  (`NodesPage.tsx:100-107`), the red alert below it is shown for a standalone node too
  (`NodesPage.tsx:1047-1058`). `Warnings` has both; what is right for a standalone node is open, so
  `WarnedOrMaintained` asks nothing there.

Met while modelling, part of the models' transitions but without a run of their own:

* a schedule that overflows `datetime` leaves its run "running";
* the audit event of a partial batch is rejected by `audit.py:63` and dropped;
* a scheduled batch carries source "manual" (`tasks.py:1702`) and is reported by the
  task and by the run, which is why `SingleReport` excludes batches;
* a staging that fails leaves the disks it had moved (`main.py:6495`);
* one failed poll fails a migration or restore whose job goes on (`tasks.py:3350`),
  without any cleanup;
* an exit status "WARNINGS" counts as a failure;
* details loaded for a guest are shown under another one opened meanwhile
  (`GuestDetailsDrawer.tsx:398-431`); what `SentAsChecked`
  states is that the *payload* is the one that was checked, not that the form was right;
* the cluster that is armed or disarmed is the effective one at the confirmation
  (`ClusterPage.tsx:339`), which a dashboard answer after the question may have changed;
* a restore storage chosen for one node is sent after another guest was chosen, though the
  field shows nothing (`TaskSchedulerPage.tsx:1087`), so `StoredFits` does not ask it to fit;
* an answer of one settings channel replaces the other's unsaved fields;
* a batch acts on the nodes listed when it is confirmed, not when it was asked for
  (`NodesPage.tsx:283`);
* a failed poll frees the snapshot dialog while its task runs (`SnapshotButton.tsx:122`);
* the count of enabled administrators (`main.py:1328`) includes LDAP accounts, which cannot
  sign in while LDAP is disabled (those accounts are not modelled).

Met outside the models: `request()` repeats a POST at the next endpoint
(`proxmox.py:180`);
an update check older than a reboot restores `reboot_required` (`tasks.py:1332`);
the drawer of a backup task asks for `/backup/task-log` without the
`infrastructure_id` that route requires (`BackupTaskDrawer.tsx:161`, `main.py:3847`), so its log never
loads; regional settings that fail to load leave "UTC" in a form that can be saved
(`SettingsPage.tsx:193`); a migration of the schema is not repeatable after a stop between its
`ALTER TABLE` and the new version (`database.py:583`); a key file is created before
it is written (`credentials.py:53`); a Discord message that fails keeps the
e-mail of the same event from being tried (`notifications.py:1049`).

## 7. What is not modelled

The components of `PROJECT.json` with status `not_modelled` give their reasons in
their notes, the others what they leave out. In short:

* reads for display (dashboard tiles, host figures, storage, replications, package lists):
  they show the last answer and keep nothing; pages that only choose an infrastructure do it
  as `NodeViews` has it;
* start, stop and reboot of a guest, regional settings, test messages, the drawer of a
  backup task: one request and one answer each, with nothing to relate;
* delivery of messages, cryptography, LDAP binds: library calls;
* schema migrations, key files and the endpoints' walk in the Proxmox client: small machines
  of their own with nobody else at work on them, left for later;
* the preflight of a migration on the server: the model takes its answer, any answer, in
  `GuestDrawer`, and the mode it gave in `GuestMigration`;
* within modelled components: form validation that depends on one field only, texts, log
  lines, the output of apt, details of SSH, calendar months, times of expiry.

Two pages at once in two tabs of one browser are two browsers to the models, except for the
cookie they share, which `Accounts` lets expire at any moment.

## 8. Plan

Done: the backend, the frontend with its handlers, the compositions, and theorems for every
safety property that a passing run checks.

Next, most important first.

* Theorems that explain the remaining violations: no volume is lost if no user detaches one; an
  edit survives a run unless it falls between claim and record; the host page shows the right
  node's updates where names are unique. Each needs its hypothesis as an operator of the model.
* Theorems with fewer hypotheses: `BringsBackGuest` probably holds without the one about the
  lost answer, if its premise is read off the job rather than the flag.
* Theorems about the abstract side: `GuestRestore` as an implementation of a restore that either happens
  wholly or leaves the guest alone.
* Modules: the walk over endpoints of the Proxmox client; start-up after a stop between two
  commits of a schema migration; the preflight as guards with what they read.

Runs: there are a dozen, so that all of it can be repeated within minutes. A new module joins
`Operations` or `Frontend` as one more part.
