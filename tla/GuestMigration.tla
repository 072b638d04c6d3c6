--------------------------- MODULE GuestMigration ---------------------------
(***************************************************************************)
(* Moving a stopped virtual machine to another infrastructure:             *)
(* run_remote_migration of migrate_guest (main.py) and, once the remote    *)
(* migration is started, _monitor_proxmox_activity (tasks.py).             *)
(*                                                                         *)
(* In mode "staged" the disks are first moved to a staging storage.  The   *)
(* remote migration leaves the source virtual machine behind, locked; the  *)
(* cleanup unlocks it and moves its disks back.  Moving a disk may leave   *)
(* its old volume in the configuration as an "unused" entry, and deleting  *)
(* an unused entry destroys the volume.                                    *)
(*                                                                         *)
(* As in GuestRestore every call may raise, and one that changes something *)
(* may have been carried out all the same.                                 *)
(***************************************************************************)
EXTENDS Integers

CONSTANTS
  Disks,        \* the disks of the virtual machine
  NoDisk,       \* none of them
  Theirs,       \* volumes in unused entries before we began
  Others,       \* volumes in no plan of ours which a user may detach
  Lost          \* calls whose answer may get lost after they took effect

MigrationAssumption ==
  /\ NoDisk \notin Disks
  /\ Lost \subseteq {"move", "delete", "migrate", "unlock"}
  /\ Theirs \cap Others = {}

VARIABLES
  my,           \* the coroutine: a record, see My
  task,         \* state of the ManagedTask
  asked,        \* history: delete_source, the mode, the layout at the start
  source,       \* configuration of the source: a record, see Source
  move,         \* the latest job moving a disk
  remote,       \* the job of the remote migration
  arrived       \* the virtual machine is complete on the target

proxmox == <<source, move, remote, arrived>>
vars == <<my, task, asked, proxmox>>

Storage == {"original", "staging"}
Layout == [Disks -> Storage]

\* Unused entries: volumes their disks were moved away from, and others.
Entries == [left: SUBSET Disks, theirs: SUBSET (Theirs \cup Others)]
NoEntries == [left |-> {}, theirs |-> {}]
Without(entries, gone) == [left |-> entries.left \ gone.left,
                           theirs |-> entries.theirs \ gone.theirs]

JobState == {"none", "active", "ok", "warnings", "failed"}
Move == [state: JobState, disk: Disks \cup {NoDisk}, to: Storage]
Source == [exists: BOOLEAN, lock: {"none", "migrate", "backup"},
           place: Layout, unused: Entries, attached: SUBSET Others]

\* phase: has the end of the remote migration been seen?  plan is
\* staging_restore_plan; todo: the disks the present loop has not handled;
\* keys: the unused entries found at first, then those to be deleted;
\* trouble: migration_cleanup_error is set.
My == [pc: {"read", "move", "wait", "verify", "delete", "check", "target",
            "migrate", "monitor", "source", "unlock", "unlocked", "conclude",
            "done"},
       phase: {"before", "cleanup"}, plan: SUBSET Disks, todo: SUBSET Disks,
       disk: Disks \cup {NoDisk}, keys: Entries, exit: JobState,
       trouble: BOOLEAN]

TypeOK == /\ my \in My
          /\ task \in {"running", "success", "partial", "error"}
          /\ asked \in [delete: BOOLEAN, staged: BOOLEAN, place: Layout]
          /\ source \in Source
          /\ move \in Move
          /\ remote \in JobState \cup {"created"}
          /\ arrived \in BOOLEAN

Init ==
  /\ asked \in [delete: BOOLEAN, staged: BOOLEAN, place: Layout]
  /\ asked.staged => \E d \in Disks : asked.place[d] = "original"
  /\ my = [pc |-> IF asked.staged THEN "read" ELSE "target",
           phase |-> "before", plan |-> {}, todo |-> {}, disk |-> NoDisk,
           keys |-> NoEntries, exit |-> "none", trouble |-> FALSE]
  /\ task = "running"
  /\ source = [exists |-> TRUE, lock |-> "none", place |-> asked.place,
               unused |-> [left |-> {}, theirs |-> Theirs],
               attached |-> Others]
  /\ move = [state |-> "none", disk |-> NoDisk, to |-> "original"]
  /\ remote = "none"
  /\ arrived = FALSE

-----------------------------------------------------------------------------
(* Calls and loops.                                                        *)

Before == my.phase = "before"

GoTo(next) == my' = next /\ UNCHANGED <<task, asked>>
At(pc) == [my EXCEPT !.pc = pc]

\* An exception fails the task, unless the cleanup has begun: it notes it.
Raise == IF Before
         THEN my' = At("done") /\ task' = "error" /\ UNCHANGED asked
         ELSE GoTo([my EXCEPT !.pc = "conclude", !.trouble = TRUE])

\* Any read or poll raises, and so do the timeouts of the moves.
ReadFails == /\ my.pc \in {"read", "wait", "verify", "check", "target",
                           "monitor", "source", "unlocked"}
             /\ Raise
             /\ UNCHANGED proxmox

\* A call that has this effect: it is answered, its answer is lost, or it
\* has no effect.
Calls(effect, none, call, next) == \/ effect /\ GoTo(next)
                                   \/ effect /\ call \in Lost /\ Raise
                                   \/ none /\ Raise

\* The loop goes on with these disks left.
Loop(left) ==
  [my EXCEPT !.todo = left,
             !.pc = IF left = {} THEN IF Before THEN "verify" ELSE "conclude"
                                 ELSE IF Before THEN "move" ELSE "read"]

-----------------------------------------------------------------------------
(* Moving disks to the staging storage, and back.                          *)

\* Mutant of ReadBeforeStaging: unused entries are not looked at.
ReadOnlyDisks ==
  LET plan == {d \in Disks : source.place[d] # "staging"}
  IN /\ my.pc = "read" /\ Before
     /\ GoTo([Loop(plan) EXCEPT !.plan = plan])
     /\ UNCHANGED proxmox

\* The plan: every disk that is not on the staging storage already.
ReadBeforeStaging ==
  LET plan == {d \in Disks : source.place[d] # "staging"}
  IN /\ my.pc = "read" /\ Before
     /\ GoTo([Loop(plan) EXCEPT !.plan = plan, !.keys = source.unused])
     /\ UNCHANGED proxmox

\* The cleanup looks at the configuration before each disk of the plan.
ReadBeforeRestore ==
  /\ my.pc = "read" /\ ~Before /\ source.exists
  /\ \E d \in my.todo :
       IF source.place[d] = "original"
       THEN GoTo(Loop(my.todo \ {d}))
       ELSE GoTo([At("move") EXCEPT !.disk = d, !.keys = source.unused])
  /\ UNCHANGED proxmox

\* move_qemu_disk, with delete.
MoveDisk ==
  /\ my.pc = "move"
  /\ \E d \in IF Before THEN my.todo ELSE {my.disk} :
       Calls(move' = [state |-> "active", disk |-> d,
                      to |-> IF Before THEN "staging" ELSE "original"],
             move' = move, "move", [At("wait") EXCEPT !.disk = d])
  /\ UNCHANGED <<source, remote, arrived>>

\* Only "OK" counts as success.
WaitMove ==
  /\ my.pc = "wait"
  /\ \/ move.state = "ok" /\ GoTo(IF Before THEN Loop(my.todo \ {my.disk})
                                            ELSE At("verify"))
     \/ move.state \in {"warnings", "failed"} /\ Raise
  /\ UNCHANGED proxmox

InPlace == IF Before THEN \A d \in my.plan : source.place[d] = "staging"
                     ELSE source.place[my.disk] = "original"

\* After the staging, or after one disk moved back.
Tidied == IF Before THEN At("target") ELSE Loop(my.todo \ {my.disk})

\* Entries that appeared since the configuration was read are to be deleted.
Verify ==
  LET new == Without(source.unused, my.keys)
  IN /\ my.pc = "verify" /\ source.exists
     /\ IF InPlace
        THEN GoTo(IF new = NoEntries THEN Tidied
                  ELSE [At("delete") EXCEPT !.keys = new])
        ELSE Raise
     /\ UNCHANGED proxmox

DeleteEntries ==
  /\ my.pc = "delete"
  /\ Calls(source' = [source EXCEPT !.unused = Without(@, my.keys)],
           UNCHANGED source, "delete", At("check"))
  /\ UNCHANGED <<move, remote, arrived>>

CheckEntries ==
  /\ my.pc = "check" /\ source.exists
  /\ IF Without(my.keys, source.unused) = my.keys THEN GoTo(Tidied) ELSE Raise
  /\ UNCHANGED proxmox

-----------------------------------------------------------------------------
(* The remote migration, and the cleanup after it.                         *)

\* Dashboard, fingerprint and address of the target node.
ReadTarget == /\ my.pc = "target"
              /\ GoTo(At("migrate"))
              /\ UNCHANGED proxmox

StartMigration ==
  /\ my.pc = "migrate"
  /\ Calls(remote' = "created", UNCHANGED remote, "migrate", At("monitor"))
  /\ UNCHANGED <<source, move, arrived>>

\* Mutant of SourceShouldExist: only a successful migration is cleaned up.
SourceShouldExistIfOK(exit) == exit = "ok" /\ ~asked.delete

\* source_should_exist.
SourceShouldExist(exit) == ~(exit = "ok" /\ asked.delete)

\* Mutant of PollMigration: the cleanup does not wait for the job.
PollMigrationOnce ==
  /\ my.pc = "monitor"
  /\ remote # "created"
  /\ GoTo([my EXCEPT !.exit = remote, !.phase = "cleanup",
                     !.pc = IF SourceShouldExist(remote) THEN "source"
                                                         ELSE "conclude"])
  /\ UNCHANGED proxmox

\* A poll finds the job ended.  The loop has no timeout.
PollMigration ==
  /\ my.pc = "monitor"
  /\ remote \in {"ok", "warnings", "failed"}
  /\ GoTo([my EXCEPT !.exit = remote, !.phase = "cleanup",
                     !.pc = IF SourceShouldExist(remote) THEN "source"
                                                         ELSE "conclude"])
  /\ UNCHANGED proxmox

\* A lock that is not the migration's raises.
ReadSource ==
  /\ my.pc = "source"
  /\ \/ source.exists /\ source.lock = "migrate" /\ GoTo(At("unlock"))
     \/ source.exists /\ source.lock = "none" /\ GoTo(Loop(my.plan))
     \/ (source.exists => source.lock = "backup") /\ Raise
  /\ UNCHANGED proxmox

\* "qm unlock", over SSH.
Unlock ==
  /\ my.pc = "unlock"
  /\ Calls(source' = [source EXCEPT !.lock = "none"], UNCHANGED source,
           "unlock", At("unlocked"))
  /\ UNCHANGED <<move, remote, arrived>>

ReadUnlocked ==
  /\ my.pc = "unlocked" /\ source.exists
  /\ IF source.lock = "none" THEN GoTo(Loop(my.plan)) ELSE Raise
  /\ UNCHANGED proxmox

End(state) == /\ my.pc = "conclude"
              /\ my' = At("done")
              /\ task' = state
              /\ UNCHANGED <<asked, proxmox>>

\* finish, partial or fail.
Conclude == End(IF my.exit # "ok" THEN "error"
                ELSE IF my.trouble THEN "partial" ELSE "success")

-----------------------------------------------------------------------------
(* Proxmox and its other users.                                            *)

MoveEnds(state) == move' = [move EXCEPT !.state = state]

\* A disk is moved; its old volume could be removed, or it could not.
MoveRuns ==
  /\ move.state = "active"
  /\ \/ /\ source.exists /\ source.lock = "none"
        /\ \E removed \in BOOLEAN, state \in {"ok", "warnings"} :
             /\ source' = [source EXCEPT
                  !.place[move.disk] = move.to,
                  !.unused.left = IF removed THEN @ ELSE @ \cup {move.disk}]
             /\ MoveEnds(state)
     \/ UNCHANGED source /\ MoveEnds("failed")
  /\ UNCHANGED <<my, task, asked, remote, arrived>>

\* The source is locked before it is copied.
MigrationBegins ==
  /\ remote = "created"
  /\ \/ /\ source.lock = "none"
        /\ remote' = "active"
        /\ source' = [source EXCEPT !.lock = "migrate"]
     \/ remote' = "failed" /\ UNCHANGED source
  /\ UNCHANGED <<my, task, asked, move, arrived>>

\* The source is deleted if that was asked for; otherwise its lock remains.
\* A migration that fails may leave the lock too.
MigrationEnds ==
  /\ remote = "active"
  /\ \/ /\ remote' \in {"ok", "warnings"}
        /\ arrived' = TRUE
        /\ source' = IF asked.delete
                     THEN [source EXCEPT !.exists = FALSE, !.lock = "none",
                                         !.unused = NoEntries]
                     ELSE source
     \/ /\ remote' = "failed"
        /\ arrived' = FALSE
        /\ \E lock \in {"none", "migrate"} :
             source' = [source EXCEPT !.lock = lock]
  /\ UNCHANGED <<my, task, asked, move>>

\* A backup of the source, scheduled in Proxmox, locks it for a while.
BackupBegins == /\ source.exists /\ source.lock = "none"
                /\ source' = [source EXCEPT !.lock = "backup"]
                /\ UNCHANGED <<my, task, asked, move, remote, arrived>>

BackupEnds == /\ source.lock = "backup"
              /\ source' = [source EXCEPT !.lock = "none"]
              /\ UNCHANGED <<my, task, asked, move, remote, arrived>>

\* A user detaches a disk, for instance one that was on the staging storage
\* from the start: it becomes an unused entry.
Detach ==
  /\ source.exists /\ source.lock = "none"
  /\ move.state # "active"
  /\ \E v \in source.attached :
       source' = [source EXCEPT !.attached = @ \ {v},
                                !.unused.theirs = @ \cup {v}]
  /\ UNCHANGED <<my, task, asked, move, remote, arrived>>

-----------------------------------------------------------------------------

Step == \/ ReadBeforeStaging \/ ReadBeforeRestore
        \/ MoveDisk \/ WaitMove \/ Verify \/ DeleteEntries \/ CheckEntries
        \/ ReadTarget \/ StartMigration \/ PollMigration
        \/ ReadSource \/ Unlock \/ ReadUnlocked \/ Conclude

Jobs == MoveRuns \/ MigrationBegins \/ MigrationEnds

Next == Step \/ ReadFails \/ Jobs \/ BackupBegins \/ BackupEnds \/ Detach

Spec == Init /\ [][Next]_vars

\* The coroutine goes on when it can and jobs come to an end.  Reads need not
\* fail, and backups owe nothing.
Fairness == WF_vars(Step) /\ WF_vars(Jobs)
FairSpec == Spec /\ Fairness

-----------------------------------------------------------------------------
(* What a migration promises.                                              *)

\* No lock of the migration, no disk away from its storage, no volume of a
\* move left: the source is as it was.
SourceTidy == /\ source.lock # "migrate"
              /\ source.place = asked.place
              /\ source.unused.left = {}

\* A success: the machine arrived, and its source is gone or as it was.
SuccessMeansMoved ==
  task = "success" => /\ arrived
                      /\ IF asked.delete THEN ~source.exists ELSE SourceTidy

\* Once the end of the remote migration was seen, good or bad, the source is
\* cleaned up, or the task's result says that it was not.
TidyOrTold ==
  my.pc = "done" /\ my.phase = "cleanup" /\ source.exists =>
    SourceTidy \/ my.trouble

\* A step that leaves these volumes of users in the unused entries they are
\* in, as long as there is a machine.
Keeps(volumes) ==
  source'.exists => source.unused.theirs \cap volumes \subseteq source'.unused.theirs

\* No volume which was unused before the migration began is deleted, although
\* the cleanup deletes by comparing what it saw at two times.
EarlierVolumesKept == [][Keeps(Theirs)]_vars

\* "automatic cleanup of temporary staging-storage entries and source migration
\* locks": no unused volume at all is deleted but those our moves left.
UserVolumesKept == [][Keeps(Theirs \cup Others)]_vars

\* The job of the remote migration has not ended.
MigrationWorks == remote \in {"created", "active"}

\* While the remote migration works on the source, the source keeps its lock
\* and no disk of it is moved, whichever answers were lost.
HandsOff ==
  [][MigrationWorks /\ UNCHANGED remote =>
       /\ source.lock = "migrate" => source'.lock = "migrate"
       /\ move'.state = "active" => move.state = "active"]_vars

\* Every migration task ends, however its jobs do.
TaskEnds == <>(task # "running")
=============================================================================
