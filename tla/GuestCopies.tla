---------------------------- MODULE GuestCopies ----------------------------
(***************************************************************************)
(* Backups and snapshots of one guest: the dialogs behind the buttons of   *)
(* its card (components/GuestBackupButton.tsx, SnapshotButton.tsx) and the *)
(* "run job" buttons of pages/BackupsPage.tsx.                             *)
(*                                                                         *)
(* A list of archives is whatever the storages hold when it is loaded.     *)
(***************************************************************************)
EXTENDS Integers, FiniteSets, Sequences

CONSTANTS
  Jobs,         \* the backup jobs of the guest's infrastructure
  Archives,     \* the backup archives there can be
  MaxRestores,  \* bound: restores posted
  MaxSnapshots, \* bound: snapshot operations posted
  Attempts,     \* polls of a snapshot task before giving up (120 in the code)
  None

CopiesAssumption == /\ None \notin Jobs \cup Archives
                    /\ MaxRestores \in Nat /\ MaxSnapshots \in Nat
                    /\ Attempts \in Nat \ {0}

VARIABLES
  jobs,         \* enabled jobs, by the last dashboard answer
  dialog,       \* the backup dialog
  restore,      \* the restore dialog on top of it
  posts,        \* restores posted: the archive, and the one RESTORE was typed for
  running,      \* BackupsPage.runningJobId
  snap,         \* the snapshot dialog
  task          \* task[i]: the i-th snapshot task on Proxmox

vars == <<jobs, dialog, restore, posts, running, snap, task>>
backupVars == <<dialog, restore, posts>>

Posted == [archive : Archives, typed : Archives \cup {None}]

TypeOK ==
  /\ jobs \subseteq Jobs
  /\ dialog \in [open : BOOLEAN, job : Jobs \cup {None}, busy : BOOLEAN,
                 listed : SUBSET Archives]
  /\ restore \in [open : BOOLEAN, archive : Archives \cup {None},
                  typed : Archives \cup {None}, busy : BOOLEAN,
                  done : BOOLEAN]
  /\ posts \in Seq(Posted) /\ Len(posts) <= MaxRestores
  /\ running \in Jobs \cup {None}
  /\ snap \in [open : BOOLEAN, busy : BOOLEAN, upid : 0 .. MaxSnapshots,
               polls : 0 .. Attempts, told : {"nothing", "started", "done",
                                              "error"}]
  /\ task \in Seq({"posted", "running", "ok", "failed"})

Closed == [open |-> FALSE, archive |-> None, typed |-> None, busy |-> FALSE,
           done |-> FALSE]

Init == /\ jobs = Jobs
        /\ dialog = [open |-> FALSE, job |-> None, busy |-> FALSE, listed |-> {}]
        /\ restore = Closed /\ posts = <<>> /\ running = None
        /\ snap = [open |-> FALSE, busy |-> FALSE, upid |-> 0, polls |-> 0,
                   told |-> "nothing"]
        /\ task = <<>>

-----------------------------------------------------------------------------
\* GuestBackupButton: a backup of this guest.

\* The effect on the list of jobs: a choice that is gone is dropped, a single
\* job is chosen.
Chosen(d, js) ==
  IF ~d.open \/ d.job \in js THEN d
  ELSE [d EXCEPT !.job = IF Cardinality(js) = 1 THEN CHOOSE j \in js : TRUE
                         ELSE None]

OpenBackups == /\ ~dialog.open /\ ~snap.open
               /\ dialog' = Chosen([dialog EXCEPT !.open = TRUE], jobs)
               /\ UNCHANGED <<jobs, restore, posts, running, snap, task>>

CloseBackups == /\ dialog.open /\ ~restore.open
                /\ ~dialog.busy /\ ~restore.busy
                /\ dialog' = [dialog EXCEPT !.open = FALSE]
                /\ UNCHANGED <<jobs, restore, posts, running, snap, task>>

\* The dashboard brings other jobs.
JobsChange(js) == /\ jobs' = js
                  /\ dialog' = Chosen(dialog, js)
                  /\ UNCHANGED <<restore, posts, running, snap, task>>

SelectJob(j) == /\ dialog.open /\ ~dialog.busy /\ j \in jobs
                /\ dialog' = [dialog EXCEPT !.job = j]
                /\ UNCHANGED <<jobs, restore, posts, running, snap, task>>

\* loadArchives: on opening, by "Refresh", 2.5 s after a backup was started;
\* a failure empties the list.
LoadArchives(as) ==
  /\ dialog' = [dialog EXCEPT !.listed = as]
  /\ UNCHANGED <<jobs, restore, posts, running, snap, task>>

StartBackup == /\ dialog.open /\ ~restore.open /\ ~dialog.busy
               /\ dialog.job \in jobs
               /\ dialog' = [dialog EXCEPT !.busy = TRUE]
               /\ UNCHANGED <<jobs, restore, posts, running, snap, task>>

\* The backup was started or refused.
BackupAnswer == /\ dialog.busy
                /\ dialog' = [dialog EXCEPT !.busy = FALSE]
                /\ UNCHANGED <<jobs, restore, posts, running, snap, task>>

-----------------------------------------------------------------------------
\* GuestBackupButton: restoring this guest.

OpenRestore(a) ==
  /\ dialog.open /\ ~restore.open /\ ~dialog.busy /\ a \in dialog.listed
  /\ restore' = [Closed EXCEPT !.open = TRUE, !.archive = a]
  /\ UNCHANGED <<jobs, dialog, posts, running, snap, task>>

\* Typing RESTORE, or something else.
TypeConfirmation(right) ==
  /\ restore.open /\ ~restore.busy
  /\ restore' = [restore EXCEPT !.typed = IF right THEN restore.archive
                                          ELSE None]
  /\ UNCHANGED <<jobs, dialog, posts, running, snap, task>>

CloseRestore == /\ restore.open /\ ~restore.busy
                /\ restore' = Closed
                /\ UNCHANGED <<jobs, dialog, posts, running, snap, task>>

\* startRestore
StartRestore ==
  /\ restore.open /\ ~restore.busy /\ ~restore.done /\ restore.typed # None
  /\ Len(posts) < MaxRestores
  /\ posts' = Append(posts, [archive |-> restore.archive,
                             typed |-> restore.typed])
  /\ restore' = [restore EXCEPT !.busy = TRUE]
  /\ UNCHANGED <<jobs, dialog, running, snap, task>>

\* Started: the word has to be typed again, after a fresh opening.  Failed, or
\* started with the answer lost: it still stands and the button works.
RestoreAnswer(ok) ==
  /\ restore.busy
  /\ restore' = IF ok THEN [restore EXCEPT !.busy = FALSE, !.done = TRUE,
                                           !.typed = None]
                ELSE [restore EXCEPT !.busy = FALSE]
  /\ UNCHANGED <<jobs, dialog, posts, running, snap, task>>

-----------------------------------------------------------------------------
\* BackupsPage: one job at a time is being started.

RunJob(j) == /\ j \in jobs /\ running = None
             /\ running' = j
             /\ UNCHANGED <<jobs, backupVars, snap, task>>

RunJobAnswer == /\ running # None
                /\ running' = None
                /\ UNCHANGED <<jobs, backupVars, snap, task>>

-----------------------------------------------------------------------------
\* SnapshotButton

OpenSnapshots == /\ ~snap.open /\ ~dialog.open
                 /\ snap' = [snap EXCEPT !.open = TRUE]
                 /\ UNCHANGED <<jobs, backupVars, running, task>>

CloseSnapshots == /\ snap.open /\ ~snap.busy
                  /\ snap' = [snap EXCEPT !.open = FALSE]
                  /\ UNCHANGED <<jobs, backupVars, running, task>>

\* runSnapshotRequest, for a creation, a deletion or a rollback: the buttons
\* of all three are off while one goes on.
SnapshotRequest ==
  /\ snap.open /\ ~snap.busy /\ Len(task) < MaxSnapshots
  /\ task' = Append(task, "posted")
  /\ snap' = [snap EXCEPT !.busy = TRUE, !.told = "nothing", !.upid = 0,
                          !.polls = 0]
  /\ UNCHANGED <<jobs, backupVars, running>>

\* The error ends what the dialog does, not what Proxmox does.
Fails == snap' = [snap EXCEPT !.busy = FALSE, !.told = "error"]

\* The answer of the POST: the task has begun or not, and the dialog learns
\* of it or not.
RequestAnswer(begun, told) ==
  /\ snap.busy /\ snap.upid = 0 /\ (told => begun)
  /\ task' = [task EXCEPT ![Len(task)] = IF begun THEN "running" ELSE "failed"]
  /\ IF told THEN snap' = [snap EXCEPT !.upid = Len(task), !.told = "started"]
     ELSE Fails
  /\ UNCHANGED <<jobs, backupVars, running>>

\* Proxmox ends a task, if it ever does.
SnapshotTaskEnds(i, how) == /\ task[i] = "running"
                            /\ task' = [task EXCEPT ![i] = how]
                            /\ UNCHANGED <<jobs, backupVars, running,
                                           snap>>

\* Mutant of WaitForTask: the attempts are counted but never used up.
WaitForTaskForever(error) ==
  /\ snap.busy /\ snap.upid # 0
  /\ \/ error /\ Fails
     \/ /\ ~error /\ task[snap.upid] = "running"
        /\ snap' = [snap EXCEPT !.polls = IF @ = Attempts THEN 0 ELSE @ + 1]
     \/ ~error /\ task[snap.upid] = "failed" /\ Fails
     \/ /\ ~error /\ task[snap.upid] = "ok"
        /\ snap' = [snap EXCEPT !.busy = FALSE, !.told = "done"]
  /\ UNCHANGED <<jobs, backupVars, running, task>>

\* waitForTask: one attempt, every 1.5 s.  One that fails ends the wait.
WaitForTask(error) ==
  /\ snap.busy /\ snap.upid # 0
  /\ \/ (error \/ snap.polls = Attempts) /\ Fails
     \/ /\ ~error /\ task[snap.upid] = "running" /\ snap.polls < Attempts
        /\ snap' = [snap EXCEPT !.polls = @ + 1]
     \/ ~error /\ task[snap.upid] = "failed" /\ Fails
     \/ /\ ~error /\ task[snap.upid] = "ok" /\ snap.polls < Attempts
        /\ snap' = [snap EXCEPT !.busy = FALSE, !.told = "done"]
  /\ UNCHANGED <<jobs, backupVars, running, task>>

-----------------------------------------------------------------------------

BackupNext == \/ OpenBackups \/ CloseBackups \/ StartBackup \/ BackupAnswer
              \/ \E js \in SUBSET Jobs : JobsChange(js)
              \/ \E j \in Jobs : SelectJob(j) \/ RunJob(j)
              \/ RunJobAnswer
              \/ \E as \in SUBSET Archives : LoadArchives(as)
RestoreNext == \/ CloseRestore \/ StartRestore
               \/ \E a \in Archives : OpenRestore(a)
               \/ \E b \in BOOLEAN : TypeConfirmation(b) \/ RestoreAnswer(b)
SnapshotNext ==
  \/ OpenSnapshots \/ CloseSnapshots \/ SnapshotRequest
  \/ \E begun, told \in BOOLEAN : RequestAnswer(begun, told)
  \/ \E i \in DOMAIN task, how \in {"ok", "failed"} : SnapshotTaskEnds(i, how)
  \/ \E error \in BOOLEAN : WaitForTask(error)

Next == BackupNext \/ RestoreNext \/ SnapshotNext

\* Every request is answered, if only by its timeout.
Fairness ==
  /\ WF_vars(\E begun, told \in BOOLEAN : RequestAnswer(begun, told))
  /\ WF_vars(\E error \in BOOLEAN : WaitForTask(error))

Spec == Init /\ [][Next]_vars /\ Fairness

-----------------------------------------------------------------------------

\* The snapshot dialog always becomes usable again, though a task may hang.
SnapshotDialogFrees == snap.busy ~> ~snap.busy
=============================================================================
