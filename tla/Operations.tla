----------------------------- MODULE Operations -----------------------------
(***************************************************************************)
(* The operations that go on by themselves and must come to an end: the    *)
(* server's node tasks (ManagedTasks), its restore of a guest              *)
(* (GuestRestore) and its migration to another infrastructure              *)
(* (GuestMigration), the dialogs of a guest's backups and snapshots        *)
(* (GuestCopies) and its console (Console).                                *)
(*                                                                         *)
(* They share no state of the program: each restore and migration is a     *)
(* coroutine with variables of its own and no node lock, a dialog sees any *)
(* state the server may have.  "part" says which of them a behaviour is    *)
(* about.                                                                  *)
(***************************************************************************)
EXTENDS Integers, FiniteSets, Sequences

CONSTANTS
  None,
  Nodes, Batch, MaxTasks, Workers, Kinds,                     \* ManagedTasks
  HaStates, LostInRestore,                                    \* GuestRestore
  Disks, NoDisk, Theirs, Others, LostInMigration,             \* GuestMigration
  BackupJobs, Archives, MaxRestores, MaxSnapshots, Attempts,  \* GuestCopies
  MaxOpens                                                    \* Console

VARIABLES
  part,
  created, nodeTask, items, locks, released,
  pc, guest_type, task, wanted, seen, flags, guest, disk, ha, job, before,
  my, migrationTask, asked, source, move, remote, arrived,
  jobs, backup, restore, posts, starting, snap, snapTasks,
  status, ref, opens, ticket, socket, proxmox, pumps

managedVars == <<created, nodeTask, items, locks, released>>
restoreVars == <<pc, guest_type, task, wanted, seen, flags, guest, disk, ha,
                 job, before>>
migrationVars == <<my, migrationTask, asked, source, move, remote, arrived>>
copiesVars == <<jobs, backup, restore, posts, starting, snap, snapTasks>>
consoleVars == <<status, ref, opens, ticket, socket, proxmox, pumps>>
vars == <<part, managedVars, restoreVars, migrationVars, copiesVars,
          consoleVars>>

Managed == INSTANCE ManagedTasks WITH task <- nodeTask
Restore == INSTANCE GuestRestore WITH Lost <- LostInRestore
Migration == INSTANCE GuestMigration WITH
  Lost <- LostInMigration, task <- migrationTask
Copies == INSTANCE GuestCopies WITH
  Jobs <- BackupJobs, dialog <- backup, running <- starting, task <- snapTasks
Consoles == INSTANCE Console WITH up <- proxmox

ASSUME OperationsAssumption ==
  /\ Managed!BatchAssumption /\ Managed!MaxTasksAssumption
  /\ Managed!WorkersAssumption /\ Managed!KindsAssumption
  /\ Restore!RestoreAssumption /\ Migration!MigrationAssumption
  /\ Copies!CopiesAssumption /\ Consoles!ConsoleAssumption

Parts == {"managed", "restore", "migration", "copies", "console"}

\* Every part keeps to its types.
TypeOK == /\ part \in Parts
          /\ Managed!TypeOK /\ Restore!TypeOK /\ Migration!TypeOK
          /\ Copies!TypeOK /\ Consoles!TypeOK

\* The parts that are not looked at stay in one of their initial states.
Init == /\ part \in Parts
        /\ Managed!Init /\ Restore!Init /\ Migration!Init
        /\ Copies!Init /\ Consoles!Init
        /\ part # "restore" => /\ ~wanted /\ guest_type = "qemu"
                              /\ guest = "stopped" /\ ha = "none"
        /\ part # "migration" => /\ ~asked.delete /\ ~asked.staged
                                 /\ \A d \in Disks : asked.place[d] = "original"

-----------------------------------------------------------------------------

ManagedNext == /\ part = "managed" /\ Managed!Next
               /\ UNCHANGED <<part, restoreVars, migrationVars,
                              copiesVars, consoleVars>>
RestoreNext == /\ part = "restore" /\ Restore!Next
               /\ UNCHANGED <<part, managedVars, migrationVars,
                              copiesVars, consoleVars>>
MigrationNext == /\ part = "migration" /\ Migration!Next
                 /\ UNCHANGED <<part, managedVars, restoreVars,
                                copiesVars, consoleVars>>
CopiesNext == /\ part = "copies" /\ Copies!Next
              /\ UNCHANGED <<part, managedVars, restoreVars,
                             migrationVars, consoleVars>>
ConsoleNext == /\ part = "console" /\ Consoles!Next
               /\ UNCHANGED <<part, managedVars, restoreVars,
                              migrationVars, copiesVars>>

Next == ManagedNext \/ RestoreNext \/ MigrationNext \/ CopiesNext \/ ConsoleNext

\* A thread, and the coroutine of a restore or a migration, goes on when it
\* can, and jobs of Proxmox come to an end.  Nothing of a node task, a dialog
\* or a console is enabled until its user begins.
Fairness ==
  /\ Managed!Fairness
  /\ WF_restoreVars(part = "restore" /\ Restore!Step)
  /\ WF_restoreVars(part = "restore" /\ Restore!StopRuns)
  /\ WF_restoreVars(part = "restore" /\ Restore!StartRuns)
  /\ WF_restoreVars(part = "restore" /\ Restore!RestoreRuns)
  /\ WF_migrationVars(part = "migration" /\ Migration!Step)
  /\ WF_migrationVars(part = "migration" /\ Migration!Jobs)
  /\ Copies!Fairness /\ Consoles!Fairness

Spec == Init /\ [][Next]_vars /\ Fairness

-----------------------------------------------------------------------------
\* What the parts promise, each in its own module.

\* A guest whose disks are half restored never runs, unless it is a container
\* under HA (GuestRestore).
NeverRunsHalfRestored == Restore!NeverRunsHalfRestored

\* The restore job starts only on a guest that is and stays stopped, unless it
\* is a container under HA (GuestRestore).
RestoresStoppedGuest == Restore!RestoresStoppedGuest

\* A restore that did not begin leaves the guest as it was, or says that it
\* could not (GuestRestore).
BringsBackGuest == Restore!BringsBackGuest

\* A task that says success did what was asked for: the disks are restored and
\* the guest, if no container under HA, is in the wanted state, or it has moved
\* and its source is as the user chose (GuestRestore, GuestMigration).
SuccessMeansDone == /\ Restore!SuccessMeansRestored
                    /\ Migration!SuccessMeansMoved

\* The source of a migration is left tidy, or the task says it is not
\* (GuestMigration).
TidyOrTold == Migration!TidyOrTold

\* Volumes that were unused before a migration are kept (GuestMigration).
EarlierVolumesKept == Migration!EarlierVolumesKept

\* Nothing touches the source while the remote migration works on it
\* (GuestMigration).
HandsOff == Migration!HandsOff

\* Node tasks, restores and migrations come to an end, with few threads,
\* refused calls, polls that fail and lost answers (ManagedTasks,
\* GuestRestore, GuestMigration).
EveryTaskEnds == /\ Managed!TasksEnd
                 /\ part = "restore" => Restore!RestoreEnds
                 /\ part = "migration" => Migration!TaskEnds

\* The snapshot dialog always becomes usable again (GuestCopies).
SnapshotDialogFrees == Copies!SnapshotDialogFrees

\* One end of a console gone, the other is closed (Console).
BothEndsClose == Consoles!BothEndsClose
=============================================================================
