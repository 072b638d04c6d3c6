---------------------- MODULE OperationsMigration_proofs ----------------------
(***************************************************************************)
(* Proofs about the operations that go on by themselves, second part: what *)
(* a migration to another infrastructure promises, for any disks, volumes  *)
(* and users, whichever calls fail or lose their answers.                  *)
(***************************************************************************)
EXTENDS Operations_proofs

\* Where the coroutine may be: it moves disks, or cleans up.
Moving == {"move", "wait", "verify", "delete", "check"}
\* Where it looks at the source's lock and takes it off.
Unlocking == {"source", "unlock", "unlocked"}

\* The phases of the coroutine, and what it knows of the remote migration.
PhaseInv ==
  /\ migrationTask = "running" <=> my.pc # "done"
  /\ Migration!Before =>
       /\ my.pc \in {"read", "target", "migrate", "monitor", "done"}
                      \cup Moving
       /\ my.pc \notin {"monitor", "done"} => remote = "none"
       /\ my.pc = "done" => migrationTask = "error"
       /\ ~my.trouble
  /\ ~Migration!Before =>
       /\ my.pc \notin {"target", "migrate", "monitor"}
       /\ remote \in {"ok", "warnings", "failed"} /\ my.exit = remote
  /\ my.trouble => my.pc \in {"conclude", "done"}
  /\ my.pc = "monitor" => remote # "none"
  /\ migrationTask = "success" =>
       my.exit = "ok" /\ ~my.trouble /\ ~Migration!Before

\* The machine is at its target once the remote migration ended well, and the
\* source is gone only then.
RemoteInv ==
  /\ remote \in {"ok", "warnings"} =>
       arrived /\ (asked.delete => ~source.exists)
  /\ ~source.exists => remote \in {"ok", "warnings"}

\* The volumes of users are among those seen before a move, so they are never
\* among those to be deleted.
VolumesInv ==
  /\ source.exists => Theirs \subseteq source.unused.theirs
  /\ my.pc \in {"move", "wait", "verify"} => Theirs \subseteq my.keys.theirs
  /\ my.pc \in {"delete", "check"} => Theirs \cap my.keys.theirs = {}

\* A disk is moved only while the coroutine waits for it, or when it gave up.
MoveInv ==
  /\ move.state = "active" =>
       /\ move.disk \in my.plan
       /\ my.pc = "wait" \/ my.trouble \/ (Migration!Before /\ my.pc = "done")
  /\ my.pc = "wait" => move.disk = my.disk /\ my.disk \in my.todo
  /\ my.pc \in Moving /\ ~Migration!Before => my.disk \in my.todo
  /\ my.todo \subseteq my.plan
  /\ my.pc = "read" /\ Migration!Before => my.plan = {} /\ move.state = "none"

\* Disks of no plan are where they were; those of the plan that the cleanup
\* has handled are back.
PlaceInv ==
  /\ \A d \in my.plan : asked.place[d] = "original"
  /\ \A d \in Disks \ my.plan : source.place[d] = asked.place[d]
  /\ ~Migration!Before /\ my.pc \in Moving \cup {"read"} =>
       \A d \in my.plan \ my.todo : source.place[d] = "original"
  /\ ~Migration!Before /\ my.pc \in {"delete", "check"} =>
       source.place[my.disk] = "original"

\* Between two moves no volume of a move is left.
LeftInv ==
  /\ my.pc \in {"read", "target", "migrate", "monitor"} \cup Unlocking =>
       source.unused.left = {}
  /\ my.pc = "move" /\ ~Migration!Before => source.unused.left = {}
  /\ my.pc \in {"move", "wait", "verify"} => my.keys.left = {}
  /\ my.pc \in {"delete", "check"} => source.unused.left \subseteq my.keys.left

\* While the cleanup goes on without trouble, the source is unlocked; at its
\* end the source is tidy, or gone as it was asked.
CleanupInv ==
  /\ my.pc \in Unlocking => ~(my.exit = "ok" /\ asked.delete)
  /\ ~Migration!Before /\ my.pc \in Moving \cup {"read"} =>
       source.lock # "migrate" /\ ~(my.exit = "ok" /\ asked.delete)
  /\ ~Migration!Before /\ my.pc \in {"conclude", "done"} /\ ~my.trouble =>
       IF my.exit = "ok" /\ asked.delete THEN ~source.exists
       ELSE Migration!SourceTidy

\* The inductive invariant of a migration: what the coroutine knows agrees with
\* what Proxmox holds.
MigrationInv ==
  /\ Migration!TypeOK /\ PhaseInv /\ RemoteInv /\ VolumesInv /\ MoveInv
  /\ PlaceInv /\ LeftInv /\ CleanupInv

\* It holds before the first call, for any source.
LEMMA MigrationInvInit == Init => MigrationInv
<1> SUFFICES ASSUME Migration!Init PROVE MigrationInv
  BY DEF Init
<1>1. my \in Migration!My /\ my.plan = {} /\ my.todo = {} /\ ~my.trouble
      /\ my.phase = "before" /\ my.pc \in {"read", "target"}
  BY DEF Migration!Init, Migration!My, Migration!NoEntries, Migration!Entries,
         Migration!JobState
<1>2. source \in Migration!Source /\ source.exists /\ source.place = asked.place
      /\ source.unused.left = {} /\ source.unused.theirs = Theirs
  BY DEF Migration!Init, Migration!Source, Migration!Entries, Migration!Layout
<1>3. move \in Migration!Move /\ move.state = "none" /\ remote = "none"
  BY DEF Migration!Init, Migration!Move, Migration!JobState, Migration!Storage
<1>4. Migration!TypeOK
  BY <1>1, <1>2, <1>3
     DEF Migration!Init, Migration!TypeOK, Migration!JobState
<1> QED
  BY <1>1, <1>2, <1>3, <1>4
     DEF Migration!Init, MigrationInv, PhaseInv, RemoteInv, VolumesInv,
         MoveInv, PlaceInv, LeftInv, CleanupInv, Moving, Unlocking,
         Migration!Before

-----------------------------------------------------------------------------
\* What the coroutine remembers after a step.

\* Every place of the coroutine.
Pcs == {"read", "target", "migrate", "monitor", "source", "unlock",
        "unlocked", "conclude", "done"} \cup Moving

\* What a step leaves in the coroutine's record.
Now(pc1, plan, todo, d, keys) ==
  /\ my' \in Migration!My
  /\ my'.pc = pc1 /\ my'.plan = plan /\ my'.todo = todo
  /\ my'.disk = d /\ my'.keys = keys
  /\ my'.phase = my.phase /\ my'.exit = my.exit /\ my'.trouble = my.trouble

\* Going to place p changes the place and nothing else.
LEMMA AtNow ==
  ASSUME my \in Migration!My, NEW p \in Pcs,
         NEW d \in Disks \cup {NoDisk}, NEW keys \in Migration!Entries
  PROVE  /\ my' = Migration!At(p)
            => Now(p, my.plan, my.todo, my.disk, my.keys)
         /\ my' = [Migration!At(p) EXCEPT !.disk = d]
            => Now(p, my.plan, my.todo, d, my.keys)
         /\ my' = [Migration!At(p) EXCEPT !.keys = keys]
            => Now(p, my.plan, my.todo, my.disk, keys)
         /\ my' = [Migration!At(p) EXCEPT !.disk = d, !.keys = keys]
            => Now(p, my.plan, my.todo, d, keys)
  BY DEF Migration!At, Migration!My, Now, Pcs, Moving

\* Where the loop over the disks goes with those that are left.
LoopPc(left) == IF left = {}
                THEN IF Migration!Before THEN "verify" ELSE "conclude"
                ELSE IF Migration!Before THEN "move" ELSE "read"

\* Beginning or continuing the loop changes the disks to do and nothing else.
LEMMA LoopNow ==
  ASSUME my \in Migration!My, NEW left \in SUBSET Disks,
         NEW keys \in Migration!Entries
  PROVE  /\ my' = Migration!Loop(left)
            => Now(LoopPc(left), my.plan, left, my.disk, my.keys)
         /\ my' = [Migration!Loop(left) EXCEPT !.plan = left, !.keys = keys]
            => Now(LoopPc(left), left, left, my.disk, keys)
<1> DEFINE p == LoopPc(left)
<1>1. p \in Pcs
  BY DEF LoopPc, Pcs, Moving
<1> HIDE DEF p
<1> DEFINE m == [my EXCEPT !.todo = left, !.pc = p]
<1>2. Migration!Loop(left) = m
  BY DEF Migration!Loop, LoopPc, p
<1>3. /\ m \in Migration!My /\ m.pc = p /\ m.plan = my.plan /\ m.todo = left
      /\ m.disk = my.disk /\ m.keys = my.keys /\ m.phase = my.phase
      /\ m.exit = my.exit /\ m.trouble = my.trouble
  BY <1>1 DEF Migration!My, Pcs, Moving
<1> HIDE DEF m
<1>4. my' = m => Now(p, my.plan, left, my.disk, my.keys)
  BY <1>3 DEF Now
<1>5. my' = [m EXCEPT !.plan = left, !.keys = keys]
        => Now(p, left, left, my.disk, keys)
  BY <1>3 DEF Migration!My, Now
<1> QED
  BY <1>2, <1>4, <1>5 DEF p

\* An exception leaves nothing to be kept but the volumes of users, and that
\* disks of no plan are where they were.
LEMMA RaiseKeeps ==
  ASSUME MigrationInv, my.pc \notin {"conclude", "done"}, Migration!Raise,
         source' \in Migration!Source, move' \in Migration!Move,
         source'.exists = source.exists, source'.place = source.place,
         source'.exists => Theirs \subseteq source'.unused.theirs,
         move'.state = "active" => move'.disk \in my.plan,
         \/ remote' = remote
         \/ remote' = "created" /\ remote = "none" /\ Migration!Before,
         arrived' = arrived
  PROVE  MigrationInv'
<1>0. Migration!TypeOK
  BY DEF MigrationInv
<1>1. CASE Migration!Before
  <2>1. my' = Migration!At("done") /\ migrationTask' = "error" /\ asked' = asked
    BY <1>1 DEF Migration!Raise
  <2>2. Now("done", my.plan, my.todo, my.disk, my.keys)
    BY <1>0, <2>1, AtNow DEF Migration!TypeOK, Pcs, Migration!My
  <2> QED
    BY <1>0, <1>1, <2>1, <2>2
       DEF MigrationInv, Migration!TypeOK, PhaseInv, RemoteInv, VolumesInv,
           MoveInv, PlaceInv, LeftInv, CleanupInv, Moving, Unlocking,
           Migration!Before, Now, Migration!JobState
<1>2. CASE ~Migration!Before
  <2>1. /\ my' = [my EXCEPT !.pc = "conclude", !.trouble = TRUE]
        /\ migrationTask' = migrationTask /\ asked' = asked
    BY <1>2 DEF Migration!Raise, Migration!GoTo
  <2>2. /\ my' \in Migration!My /\ my'.pc = "conclude" /\ my'.trouble
        /\ my'.plan = my.plan /\ my'.todo = my.todo /\ my'.phase = my.phase
        /\ my'.exit = my.exit
    BY <1>0, <2>1 DEF Migration!TypeOK, Migration!My
  <2> QED
    BY <1>0, <1>2, <2>1, <2>2
       DEF MigrationInv, Migration!TypeOK, PhaseInv, RemoteInv, VolumesInv,
           MoveInv, PlaceInv, LeftInv, CleanupInv, Moving, Unlocking,
           Migration!Before
<1> QED
  BY <1>1, <1>2

\* A step of the coroutine that calls nothing.
LEMMA RaiseUnchanged ==
  ASSUME MigrationInv, my.pc \notin {"conclude", "done"}, Migration!Raise,
         UNCHANGED Migration!proxmox
  PROVE  MigrationInv'
<1>1. UNCHANGED <<source, move, remote, arrived>>
  BY DEF Migration!proxmox
<1>2. /\ source \in Migration!Source /\ move \in Migration!Move
      /\ source.exists => Theirs \subseteq source.unused.theirs
      /\ move.state = "active" => move.disk \in my.plan
  BY DEF MigrationInv, Migration!TypeOK, VolumesInv, MoveInv
<1> QED
  BY <1>1, <1>2, RaiseKeeps

-----------------------------------------------------------------------------
\* The steps of the coroutine.

\* The cleanup is done when every disk of the plan is back.
LEMMA TidyWhenBack ==
  ASSUME MigrationInv, source.lock # "migrate", source.unused.left = {},
         \A d \in my.plan : source.place[d] = "original"
  PROVE  Migration!SourceTidy
<1>1. source.place \in Migration!Layout /\ asked.place \in Migration!Layout
  BY DEF MigrationInv, Migration!TypeOK, Migration!Source
<1>2. \A d \in Disks : source.place[d] = asked.place[d]
  BY DEF MigrationInv, PlaceInv
<1> QED
  BY <1>1, <1>2 DEF Migration!SourceTidy, Migration!Layout

\* Reading the configuration: before the staging once for all disks, in the
\* cleanup before each one.
LEMMA ReadStep ==
  ASSUME MigrationInv,
         \/ Migration!ReadBeforeStaging \/ Migration!ReadBeforeRestore
         \/ Migration!ReadTarget
  PROVE  MigrationInv'
<1>0. /\ my \in Migration!My /\ source \in Migration!Source
      /\ source.unused \in Migration!Entries
      /\ my.todo \subseteq Disks /\ my.plan \subseteq Disks
  BY DEF MigrationInv, Migration!TypeOK, Migration!Source, Migration!My
<1> USE DEF Migration!GoTo, Migration!proxmox, Migration!Before
<1>1. CASE Migration!ReadBeforeStaging
  <2> DEFINE plan == {d \in Disks : source.place[d] # "staging"}
  <2>1. /\ my.pc = "read" /\ Migration!Before
        /\ my' = [Migration!Loop(plan) EXCEPT !.plan = plan,
                                              !.keys = source.unused]
        /\ UNCHANGED <<migrationTask, asked, source, move, remote, arrived>>
    BY <1>1 DEF Migration!ReadBeforeStaging
  <2>2. plan \in SUBSET Disks
    OBVIOUS
  <2>3. Now(LoopPc(plan), plan, plan, my.disk, source.unused)
    BY <1>0, <2>1, <2>2, LoopNow
  <2>4. /\ LoopPc(plan) \in {"move", "verify"}
        /\ remote = "none" /\ source.exists /\ source.unused.left = {}
        /\ move.state = "none" /\ ~my.trouble
        /\ \A d \in Disks : source.place[d] = asked.place[d]
    BY <2>1 DEF MigrationInv, PhaseInv, RemoteInv, LeftInv, PlaceInv, MoveInv,
                LoopPc
  <2>5. \A d \in plan : asked.place[d] = "original"
    BY <1>0, <2>4 DEF Migration!Source, Migration!Layout, Migration!Storage
  <2> HIDE DEF plan
  <2> QED
    BY <1>0, <2>1, <2>2, <2>3, <2>4, <2>5
       DEF MigrationInv, Migration!TypeOK, PhaseInv, RemoteInv, VolumesInv,
           MoveInv, PlaceInv, LeftInv, CleanupInv, Moving, Unlocking, Now
<1>2. CASE Migration!ReadBeforeRestore
  <2>1. /\ my.pc = "read" /\ ~Migration!Before /\ source.exists
        /\ UNCHANGED <<migrationTask, asked, source, move, remote, arrived>>
    BY <1>2 DEF Migration!ReadBeforeRestore
  <2>2. PICK d \in my.todo :
          \/ /\ source.place[d] = "original"
             /\ my' = Migration!Loop(my.todo \ {d})
          \/ my' = [Migration!At("move") EXCEPT !.disk = d,
                                                !.keys = source.unused]
    BY <1>2 DEF Migration!ReadBeforeRestore
  <2>3. CASE /\ source.place[d] = "original"
             /\ my' = Migration!Loop(my.todo \ {d})
    <3> DEFINE left == my.todo \ {d}
    <3>1. left \in SUBSET Disks
      BY <1>0
    <3>2. Now(LoopPc(left), my.plan, left, my.disk, my.keys)
      BY <1>0, <2>3, <3>1, LoopNow
    <3>3. \/ left = {} /\ LoopPc(left) = "conclude"
          \/ left # {} /\ LoopPc(left) = "read"
      BY <2>1 DEF LoopPc
    <3>4. left \subseteq my.plan
          /\ \A e \in my.plan \ left : source.place[e] = "original"
      BY <2>1, <2>3 DEF MigrationInv, MoveInv, PlaceInv
    <3> HIDE DEF left
    <3>5. source.lock # "migrate" /\ source.unused.left = {}
      BY <2>1 DEF MigrationInv, CleanupInv, LeftInv
    <3>6. left = {} => Migration!SourceTidy
      BY <3>4, <3>5, TidyWhenBack
    <3>7. left = {} => Migration!SourceTidy'
      BY <2>1, <3>6 DEF Migration!SourceTidy
    <3> QED
      BY <1>0, <2>1, <3>2, <3>3, <3>4, <3>7
       DEF MigrationInv, Migration!TypeOK, PhaseInv, RemoteInv, VolumesInv,
           MoveInv, PlaceInv, LeftInv, CleanupInv, Moving, Unlocking, Now
  <2>4. CASE my' = [Migration!At("move") EXCEPT !.disk = d,
                                                !.keys = source.unused]
    <3>1. Now("move", my.plan, my.todo, d, source.unused)
      BY <1>0, <2>4, AtNow DEF Pcs, Moving
    <3> QED
      BY <1>0, <2>1, <3>1
       DEF MigrationInv, Migration!TypeOK, PhaseInv, RemoteInv, VolumesInv,
           MoveInv, PlaceInv, LeftInv, CleanupInv, Moving, Unlocking, Now
  <2> QED
    BY <2>2, <2>3, <2>4
<1>3. CASE Migration!ReadTarget
  <2>1. /\ my.pc = "target" /\ my' = Migration!At("migrate")
        /\ UNCHANGED <<migrationTask, asked, source, move, remote, arrived>>
    BY <1>3 DEF Migration!ReadTarget
  <2>2. Now("migrate", my.plan, my.todo, my.disk, my.keys)
    BY <1>0, <2>1, AtNow DEF Pcs, Moving, Migration!My
  <2> QED
    BY <1>0, <2>1, <2>2
       DEF MigrationInv, Migration!TypeOK, PhaseInv, RemoteInv, VolumesInv,
           MoveInv, PlaceInv, LeftInv, CleanupInv, Moving, Unlocking, Now
<1> QED
  BY <1>1, <1>2, <1>3

\* Asking for the move of a disk, answered, lost or refused.
LEMMA MoveDiskStep ==
  ASSUME MigrationInv, Migration!MoveDisk
  PROVE  MigrationInv'
<1>0. /\ my \in Migration!My /\ my.todo \subseteq my.plan
      /\ my.plan \subseteq Disks /\ my.keys \in Migration!Entries
      /\ source \in Migration!Source /\ move \in Migration!Move
  BY DEF MigrationInv, Migration!TypeOK, Migration!My, MoveInv
<1>1. /\ my.pc = "move" /\ UNCHANGED <<source, remote, arrived>>
  BY DEF Migration!MoveDisk
<1>2. PICK d \in IF Migration!Before THEN my.todo ELSE {my.disk} :
        Migration!Calls(move' = [state |-> "active", disk |-> d,
                                 to |-> IF Migration!Before THEN "staging"
                                        ELSE "original"],
                        move' = move, "move",
                        [Migration!At("wait") EXCEPT !.disk = d])
  BY Zenon DEF Migration!MoveDisk
<1>3. d \in my.todo /\ d \in Disks
  BY <1>0, <1>1, <1>2 DEF MigrationInv, MoveInv, Moving
<1> DEFINE m == [state |-> "active", disk |-> d,
                 to |-> IF Migration!Before THEN "staging" ELSE "original"]
<1>4. m \in Migration!Move /\ m.disk = d
  BY <1>3 DEF Migration!Move, Migration!JobState, Migration!Storage
<1>5. \/ /\ move' = m /\ my' = [Migration!At("wait") EXCEPT !.disk = d]
         /\ UNCHANGED <<migrationTask, asked>>
      \/ move' \in {m, move} /\ Migration!Raise
  BY <1>2 DEF Migration!Calls, Migration!GoTo
<1> HIDE DEF m
<1>6. CASE /\ move' = m /\ my' = [Migration!At("wait") EXCEPT !.disk = d]
           /\ UNCHANGED <<migrationTask, asked>>
  <2>1. Now("wait", my.plan, my.todo, d, my.keys)
    BY <1>0, <1>3, <1>6, AtNow DEF Pcs, Moving
  <2> QED
    BY <1>0, <1>1, <1>3, <1>4, <1>6, <2>1
       DEF MigrationInv, Migration!TypeOK, PhaseInv, RemoteInv, VolumesInv,
           MoveInv, PlaceInv, LeftInv, CleanupInv, Moving, Unlocking, Now,
           Migration!Before
<1>7. CASE move' \in {m, move} /\ Migration!Raise
  <2>1. /\ source.exists => Theirs \subseteq source.unused.theirs
        /\ move.state = "active" => move.disk \in my.plan
    BY DEF MigrationInv, VolumesInv, MoveInv
  <2> QED
    BY <1>0, <1>1, <1>3, <1>4, <1>7, <2>1, RaiseKeeps
<1> QED
  BY <1>5, <1>6, <1>7

\* A moving job ended, still runs, or cannot be polled.
LEMMA WaitMoveStep ==
  ASSUME MigrationInv, Migration!WaitMove
  PROVE  MigrationInv'
<1>0. /\ my \in Migration!My /\ my.todo \subseteq Disks
      /\ my.disk \in Disks \cup {NoDisk} /\ my.keys \in Migration!Entries
  BY DEF MigrationInv, Migration!TypeOK, Migration!My
<1>1. /\ my.pc = "wait" /\ UNCHANGED <<source, move, remote, arrived>>
  BY DEF Migration!WaitMove, Migration!proxmox
<1>2. \/ /\ move.state = "ok" /\ Migration!Before
         /\ my' = Migration!Loop(my.todo \ {my.disk})
         /\ UNCHANGED <<migrationTask, asked>>
      \/ /\ move.state = "ok" /\ ~Migration!Before
         /\ my' = Migration!At("verify")
         /\ UNCHANGED <<migrationTask, asked>>
      \/ Migration!Raise
  BY DEF Migration!WaitMove, Migration!GoTo
<1>3. CASE /\ move.state = "ok" /\ Migration!Before
           /\ my' = Migration!Loop(my.todo \ {my.disk})
           /\ UNCHANGED <<migrationTask, asked>>
  <2> DEFINE left == my.todo \ {my.disk}
  <2>1. Now(LoopPc(left), my.plan, left, my.disk, my.keys)
    BY <1>0, <1>3, LoopNow
  <2>2. left \subseteq my.todo /\ LoopPc(left) \in {"move", "verify"}
    BY <1>3 DEF LoopPc
  <2> HIDE DEF left
  <2> QED
    BY <1>0, <1>1, <1>3, <2>1, <2>2
       DEF MigrationInv, Migration!TypeOK, PhaseInv, RemoteInv, VolumesInv,
           MoveInv, PlaceInv, LeftInv, CleanupInv, Moving, Unlocking, Now,
           Migration!Before
<1>4. CASE /\ move.state = "ok" /\ ~Migration!Before
           /\ my' = Migration!At("verify")
           /\ UNCHANGED <<migrationTask, asked>>
  <2>1. Now("verify", my.plan, my.todo, my.disk, my.keys)
    BY <1>0, <1>4, AtNow DEF Pcs, Moving
  <2> QED
    BY <1>0, <1>1, <1>4, <2>1
       DEF MigrationInv, Migration!TypeOK, PhaseInv, RemoteInv, VolumesInv,
           MoveInv, PlaceInv, LeftInv, CleanupInv, Moving, Unlocking, Now,
           Migration!Before
<1>5. CASE Migration!Raise
  BY <1>1, <1>5, RaiseUnchanged DEF Migration!proxmox
<1> QED
  BY <1>2, <1>3, <1>4, <1>5

\* After a disk is moved back, or all are staged, nothing is left of it.
LEMMA TidiedStep ==
  ASSUME MigrationInv, my.pc \in {"verify", "check"},
         source.exists, source.unused.left = {},
         ~Migration!Before => source.place[my.disk] = "original",
         my' = Migration!Tidied,
         UNCHANGED <<migrationTask, asked, source, move, remote, arrived>>
  PROVE  MigrationInv'
<1>0. /\ my \in Migration!My /\ my.todo \subseteq Disks
      /\ my.disk \in Disks \cup {NoDisk} /\ my.keys \in Migration!Entries
      /\ my.plan \subseteq Disks /\ my.todo \subseteq my.plan
  BY DEF MigrationInv, Migration!TypeOK, Migration!My, MoveInv
<1>1. CASE Migration!Before
  <2>1. my' = Migration!At("target")
    BY <1>1 DEF Migration!Tidied
  <2>2. Now("target", my.plan, my.todo, my.disk, my.keys)
    BY <1>0, <2>1, AtNow DEF Pcs
  <2> QED
    BY <1>0, <1>1, <2>2
       DEF MigrationInv, Migration!TypeOK, PhaseInv, RemoteInv, VolumesInv,
           MoveInv, PlaceInv, LeftInv, CleanupInv, Moving, Unlocking, Now,
           Migration!Before
<1>2. CASE ~Migration!Before
  <2> DEFINE left == my.todo \ {my.disk}
  <2>1. my' = Migration!Loop(left)
    BY <1>2 DEF Migration!Tidied
  <2>2. Now(LoopPc(left), my.plan, left, my.disk, my.keys)
    BY <1>0, <2>1, LoopNow
  <2>3. \/ left = {} /\ LoopPc(left) = "conclude"
        \/ left # {} /\ LoopPc(left) = "read"
    BY <1>2 DEF LoopPc
  <2>4. /\ left \subseteq my.plan
        /\ \A e \in my.plan \ left : source.place[e] = "original"
    BY <1>0, <1>2 DEF MigrationInv, PlaceInv, Moving
  <2> HIDE DEF left
  <2>5. source.lock # "migrate" /\ ~(my.exit = "ok" /\ asked.delete)
    BY <1>2 DEF MigrationInv, CleanupInv, Moving
  <2>6. left = {} => Migration!SourceTidy
    BY <1>0, <2>4, <2>5, TidyWhenBack
  <2>7. left = {} => Migration!SourceTidy'
    BY <2>6 DEF Migration!SourceTidy
  <2> QED
    BY <1>0, <1>2, <2>2, <2>3, <2>4, <2>5, <2>7
       DEF MigrationInv, Migration!TypeOK, PhaseInv, RemoteInv, VolumesInv,
           MoveInv, PlaceInv, LeftInv, CleanupInv, Moving, Unlocking, Now,
           Migration!Before
<1> QED
  BY <1>1, <1>2

\* Looking which entries the moved disk has left behind.
LEMMA VerifyStep ==
  ASSUME MigrationInv, Migration!Verify
  PROVE  MigrationInv'
<1> DEFINE new == Migration!Without(source.unused, my.keys)
<1>0. /\ my \in Migration!My /\ source \in Migration!Source
      /\ source.unused \in Migration!Entries /\ my.keys \in Migration!Entries
      /\ my.keys.left = {} /\ my.disk \in Disks \cup {NoDisk}
      /\ Theirs \subseteq my.keys.theirs
  BY DEF MigrationInv, Migration!TypeOK, Migration!My, Migration!Source,
         LeftInv, VolumesInv, Migration!Verify
<1>1. /\ my.pc = "verify" /\ source.exists
      /\ UNCHANGED <<source, move, remote, arrived>>
  BY DEF Migration!Verify, Migration!proxmox
<1>2. /\ new \in Migration!Entries /\ new.left = source.unused.left
      /\ Theirs \cap new.theirs = {}
  BY <1>0 DEF Migration!Without, Migration!Entries
<1>3. \/ /\ Migration!InPlace /\ new = Migration!NoEntries
         /\ my' = Migration!Tidied /\ UNCHANGED <<migrationTask, asked>>
      \/ /\ Migration!InPlace
         /\ my' = [Migration!At("delete") EXCEPT !.keys = new]
         /\ UNCHANGED <<migrationTask, asked>>
      \/ Migration!Raise
  BY DEF Migration!Verify, Migration!GoTo
<1>4. Migration!InPlace /\ ~Migration!Before => source.place[my.disk] = "original"
  BY DEF Migration!InPlace
<1> HIDE DEF new
<1>5. CASE /\ Migration!InPlace /\ new = Migration!NoEntries
           /\ my' = Migration!Tidied /\ UNCHANGED <<migrationTask, asked>>
  <2>1. source.unused.left = {}
    BY <1>2, <1>5 DEF Migration!NoEntries
  <2> QED
    BY <1>1, <1>4, <1>5, <2>1, TidiedStep
<1>6. CASE /\ Migration!InPlace
           /\ my' = [Migration!At("delete") EXCEPT !.keys = new]
           /\ UNCHANGED <<migrationTask, asked>>
  <2>1. Now("delete", my.plan, my.todo, my.disk, new)
    BY <1>0, <1>2, <1>6, AtNow DEF Pcs, Moving
  <2> QED
    BY <1>0, <1>1, <1>2, <1>4, <1>6, <2>1
       DEF MigrationInv, Migration!TypeOK, PhaseInv, RemoteInv, VolumesInv,
           MoveInv, PlaceInv, LeftInv, CleanupInv, Moving, Unlocking, Now,
           Migration!Before
<1>7. CASE Migration!Raise
  BY <1>1, <1>7, RaiseUnchanged DEF Migration!proxmox
<1> QED
  BY <1>3, <1>5, <1>6, <1>7

\* Deleting the entries that a moved disk has left.
LEMMA DeleteStep ==
  ASSUME MigrationInv, Migration!DeleteEntries
  PROVE  MigrationInv'
<1> DEFINE u == Migration!Without(source.unused, my.keys)
           s == [source EXCEPT !.unused = u]
<1>0. /\ my \in Migration!My /\ source \in Migration!Source
      /\ source.unused \in Migration!Entries /\ my.keys \in Migration!Entries
      /\ my.disk \in Disks \cup {NoDisk} /\ move \in Migration!Move
      /\ Theirs \cap my.keys.theirs = {}
      /\ source.exists => Theirs \subseteq source.unused.theirs
      /\ source.unused.left \subseteq my.keys.left
      /\ move.state = "active" => move.disk \in my.plan
  BY DEF MigrationInv, Migration!TypeOK, Migration!My, Migration!Source,
         LeftInv, VolumesInv, MoveInv, Migration!DeleteEntries
<1>1. /\ my.pc = "delete" /\ UNCHANGED <<move, remote, arrived>>
  BY DEF Migration!DeleteEntries
<1>2. /\ u \in Migration!Entries /\ u.left = {}
      /\ source.exists => Theirs \subseteq u.theirs
  BY <1>0 DEF Migration!Without, Migration!Entries
<1> HIDE DEF u
<1>3. /\ s \in Migration!Source /\ s.unused = u /\ s.exists = source.exists
      /\ s.place = source.place /\ s.lock = source.lock
  BY <1>0, <1>2 DEF Migration!Source
<1>4. \/ /\ source' = s /\ my' = Migration!At("check")
         /\ UNCHANGED <<migrationTask, asked>>
      \/ source' \in {s, source} /\ Migration!Raise
  BY DEF Migration!DeleteEntries, Migration!Calls, Migration!GoTo, u
<1> HIDE DEF s
<1>5. CASE /\ source' = s /\ my' = Migration!At("check")
           /\ UNCHANGED <<migrationTask, asked>>
  <2>1. Now("check", my.plan, my.todo, my.disk, my.keys)
    BY <1>0, <1>5, AtNow DEF Pcs, Moving
  <2> QED
    BY <1>0, <1>1, <1>2, <1>3, <1>5, <2>1
       DEF MigrationInv, Migration!TypeOK, PhaseInv, RemoteInv, VolumesInv,
           MoveInv, PlaceInv, LeftInv, CleanupInv, Moving, Unlocking, Now,
           Migration!Before
<1>6. CASE source' \in {s, source} /\ Migration!Raise
  BY <1>0, <1>1, <1>2, <1>3, <1>6, RaiseKeeps
<1> QED
  BY <1>4, <1>5, <1>6

\* Looking whether the deleted entries are gone.
LEMMA CheckStep ==
  ASSUME MigrationInv, Migration!CheckEntries
  PROVE  MigrationInv'
<1>1. /\ my.pc = "check" /\ source.exists
      /\ UNCHANGED <<source, move, remote, arrived>>
  BY DEF Migration!CheckEntries, Migration!proxmox
<1>2. \/ /\ Migration!Without(my.keys, source.unused) = my.keys
         /\ my' = Migration!Tidied /\ UNCHANGED <<migrationTask, asked>>
      \/ Migration!Raise
  BY DEF Migration!CheckEntries, Migration!GoTo
<1>3. CASE /\ Migration!Without(my.keys, source.unused) = my.keys
           /\ my' = Migration!Tidied /\ UNCHANGED <<migrationTask, asked>>
  <2>1. source.unused.left \subseteq my.keys.left
        /\ (~Migration!Before => source.place[my.disk] = "original")
    BY <1>1 DEF MigrationInv, LeftInv, PlaceInv
  <2>2. my.keys.left = my.keys.left \ source.unused.left
    <3>1. Migration!Without(my.keys, source.unused).left
            = my.keys.left \ source.unused.left
      BY DEF Migration!Without
    <3> QED
      BY <1>3, <3>1
  <2>3. source.unused.left = {}
    BY <2>1, <2>2
  <2> QED
    BY <1>1, <1>3, <2>1, <2>3, TidiedStep
<1>4. CASE Migration!Raise
  BY <1>1, <1>4, RaiseUnchanged DEF Migration!proxmox
<1> QED
  BY <1>2, <1>3, <1>4

\* Asking for the remote migration, answered, lost or refused.
LEMMA StartStep ==
  ASSUME MigrationInv, Migration!StartMigration
  PROVE  MigrationInv'
<1>0. /\ my \in Migration!My /\ my.plan \subseteq Disks
      /\ my.disk \in Disks \cup {NoDisk} /\ my.keys \in Migration!Entries
      /\ source \in Migration!Source /\ move \in Migration!Move
      /\ source.exists => Theirs \subseteq source.unused.theirs
      /\ move.state = "active" => move.disk \in my.plan
  BY DEF MigrationInv, Migration!TypeOK, Migration!My, VolumesInv, MoveInv
<1>1. /\ my.pc = "migrate" /\ UNCHANGED <<source, move, arrived>>
  BY DEF Migration!StartMigration
<1>2. Migration!Before /\ remote = "none"
  BY <1>1 DEF MigrationInv, PhaseInv
<1>3. \/ /\ remote' = "created" /\ my' = Migration!At("monitor")
         /\ UNCHANGED <<migrationTask, asked>>
      \/ remote' \in {"created", remote} /\ Migration!Raise
  BY DEF Migration!StartMigration, Migration!Calls, Migration!GoTo
<1>4. CASE /\ remote' = "created" /\ my' = Migration!At("monitor")
           /\ UNCHANGED <<migrationTask, asked>>
  <2>1. Now("monitor", my.plan, my.todo, my.disk, my.keys)
    BY <1>0, <1>4, AtNow DEF Pcs
  <2> QED
    BY <1>0, <1>1, <1>2, <1>4, <2>1
       DEF MigrationInv, Migration!TypeOK, PhaseInv, RemoteInv, VolumesInv,
           MoveInv, PlaceInv, LeftInv, CleanupInv, Moving, Unlocking, Now,
           Migration!Before
<1>5. CASE remote' \in {"created", remote} /\ Migration!Raise
  BY <1>0, <1>1, <1>2, <1>5, RaiseKeeps
<1> QED
  BY <1>3, <1>4, <1>5

\* The remote migration ended, still runs, or cannot be polled.
LEMMA PollStep ==
  ASSUME MigrationInv, Migration!PollMigration
  PROVE  MigrationInv'
<1> DEFINE p == IF Migration!SourceShouldExist(remote) THEN "source"
                                                       ELSE "conclude"
           m == [my EXCEPT !.exit = remote, !.phase = "cleanup", !.pc = p]
<1>1. /\ my.pc = "monitor" /\ remote \in {"ok", "warnings", "failed"}
      /\ my' = m
      /\ UNCHANGED <<migrationTask, asked, source, move, remote, arrived>>
  BY DEF Migration!PollMigration, Migration!GoTo, Migration!proxmox
<1>2. my \in Migration!My
  BY DEF MigrationInv, Migration!TypeOK
<1>3. /\ p \in {"source", "conclude"}
      /\ p = "source" <=> ~(remote = "ok" /\ asked.delete)
  BY DEF Migration!SourceShouldExist
<1> HIDE DEF p
<1>4. /\ m \in Migration!My /\ m.pc = p /\ m.phase = "cleanup"
      /\ m.exit = remote /\ m.plan = my.plan /\ m.todo = my.todo
      /\ m.disk = my.disk /\ m.keys = my.keys /\ m.trouble = my.trouble
  BY <1>1, <1>2, <1>3 DEF Migration!My, Migration!JobState
<1> HIDE DEF m
<1>5. Migration!Before
  BY <1>1 DEF MigrationInv, PhaseInv
<1> QED
  BY <1>1, <1>3, <1>4, <1>5
     DEF MigrationInv, Migration!TypeOK, PhaseInv, RemoteInv, VolumesInv,
         MoveInv, PlaceInv, LeftInv, CleanupInv, Moving, Unlocking,
         Migration!Before

\* The cleanup begins once the source is known to be unlocked.
LEMMA LoopOverPlan ==
  ASSUME MigrationInv, my.pc \in {"source", "unlocked"},
         source.exists, source.lock = "none",
         my' = Migration!Loop(my.plan),
         UNCHANGED <<migrationTask, asked, source, move, remote, arrived>>
  PROVE  MigrationInv'
<1>0. /\ my \in Migration!My /\ my.plan \in SUBSET Disks
      /\ my.disk \in Disks \cup {NoDisk} /\ my.keys \in Migration!Entries
  BY DEF MigrationInv, Migration!TypeOK, Migration!My
<1>1. ~Migration!Before
  BY DEF MigrationInv, PhaseInv, Moving
<1>2. Now(LoopPc(my.plan), my.plan, my.plan, my.disk, my.keys)
  BY <1>0, LoopNow
<1>3. \/ my.plan = {} /\ LoopPc(my.plan) = "conclude"
      \/ my.plan # {} /\ LoopPc(my.plan) = "read"
  BY <1>1 DEF LoopPc
<1>4. source.unused.left = {} /\ ~(my.exit = "ok" /\ asked.delete)
  BY DEF MigrationInv, LeftInv, CleanupInv, Unlocking
<1>5. my.plan = {} => Migration!SourceTidy
  BY <1>4, TidyWhenBack
<1>6. my.plan = {} => Migration!SourceTidy'
  BY <1>5 DEF Migration!SourceTidy
<1> QED
  BY <1>0, <1>1, <1>2, <1>3, <1>4, <1>6
     DEF MigrationInv, Migration!TypeOK, PhaseInv, RemoteInv, VolumesInv,
         MoveInv, PlaceInv, LeftInv, CleanupInv, Moving, Unlocking, Now,
         Migration!Before

\* Reading the source after the remote migration, and after unlocking.
LEMMA ReadLockStep ==
  ASSUME MigrationInv, Migration!ReadSource \/ Migration!ReadUnlocked
  PROVE  MigrationInv'
<1>0. /\ my \in Migration!My
      /\ my.disk \in Disks \cup {NoDisk} /\ my.keys \in Migration!Entries
  BY DEF MigrationInv, Migration!TypeOK, Migration!My
<1>1. /\ my.pc \in {"source", "unlocked"}
      /\ UNCHANGED <<source, move, remote, arrived>>
  BY DEF Migration!ReadSource, Migration!ReadUnlocked, Migration!proxmox
<1>2. \/ /\ my.pc = "source" /\ my' = Migration!At("unlock")
         /\ UNCHANGED <<migrationTask, asked>>
      \/ /\ source.exists /\ source.lock = "none"
         /\ my' = Migration!Loop(my.plan)
         /\ UNCHANGED <<migrationTask, asked>>
      \/ Migration!Raise
  BY DEF Migration!ReadSource, Migration!ReadUnlocked, Migration!GoTo
<1>3. CASE /\ my.pc = "source" /\ my' = Migration!At("unlock")
           /\ UNCHANGED <<migrationTask, asked>>
  <2>1. Now("unlock", my.plan, my.todo, my.disk, my.keys)
    BY <1>0, <1>3, AtNow DEF Pcs
  <2> QED
    BY <1>0, <1>1, <1>3, <2>1
       DEF MigrationInv, Migration!TypeOK, PhaseInv, RemoteInv, VolumesInv,
           MoveInv, PlaceInv, LeftInv, CleanupInv, Moving, Unlocking, Now,
           Migration!Before
<1>4. CASE /\ source.exists /\ source.lock = "none"
           /\ my' = Migration!Loop(my.plan)
           /\ UNCHANGED <<migrationTask, asked>>
  BY <1>1, <1>4, LoopOverPlan
<1>5. CASE Migration!Raise
  BY <1>1, <1>5, RaiseUnchanged DEF Migration!proxmox
<1> QED
  BY <1>2, <1>3, <1>4, <1>5

\* Taking the lock off that a failed remote migration has left.
LEMMA UnlockStep ==
  ASSUME MigrationInv, Migration!Unlock
  PROVE  MigrationInv'
<1> DEFINE s == [source EXCEPT !.lock = "none"]
<1>0. /\ my \in Migration!My
      /\ my.disk \in Disks \cup {NoDisk} /\ my.keys \in Migration!Entries
      /\ source \in Migration!Source /\ move \in Migration!Move
      /\ source.exists => Theirs \subseteq source.unused.theirs
      /\ move.state = "active" => move.disk \in my.plan
  BY DEF MigrationInv, Migration!TypeOK, Migration!My, VolumesInv, MoveInv
<1>1. my.pc = "unlock" /\ UNCHANGED <<move, remote, arrived>>
  BY DEF Migration!Unlock
<1>2. /\ s \in Migration!Source /\ s.unused = source.unused
      /\ s.exists = source.exists /\ s.place = source.place
      /\ s.lock = "none"
  BY <1>0 DEF Migration!Source
<1>3. \/ /\ source' = s /\ my' = Migration!At("unlocked")
         /\ UNCHANGED <<migrationTask, asked>>
      \/ source' \in {s, source} /\ Migration!Raise
  BY DEF Migration!Unlock, Migration!Calls, Migration!GoTo
<1> HIDE DEF s
<1>4. CASE /\ source' = s /\ my' = Migration!At("unlocked")
           /\ UNCHANGED <<migrationTask, asked>>
  <2>1. Now("unlocked", my.plan, my.todo, my.disk, my.keys)
    BY <1>0, <1>4, AtNow DEF Pcs
  <2> QED
    BY <1>0, <1>1, <1>2, <1>4, <2>1
       DEF MigrationInv, Migration!TypeOK, PhaseInv, RemoteInv, VolumesInv,
           MoveInv, PlaceInv, LeftInv, CleanupInv, Moving, Unlocking, Now,
           Migration!Before
<1>5. CASE source' \in {s, source} /\ Migration!Raise
  BY <1>0, <1>1, <1>2, <1>5, RaiseKeeps
<1> QED
  BY <1>3, <1>4, <1>5

\* The verdict: success, partial if the cleanup met trouble, or failure.
LEMMA ConcludeStep ==
  ASSUME MigrationInv, Migration!Conclude
  PROVE  MigrationInv'
<1>0. /\ my \in Migration!My
      /\ my.disk \in Disks \cup {NoDisk} /\ my.keys \in Migration!Entries
  BY DEF MigrationInv, Migration!TypeOK, Migration!My
<1>1. /\ my.pc = "conclude" /\ my' = Migration!At("done")
      /\ migrationTask' = IF my.exit # "ok" THEN "error"
                          ELSE IF my.trouble THEN "partial" ELSE "success"
      /\ UNCHANGED <<asked, source, move, remote, arrived>>
  BY DEF Migration!Conclude, Migration!End, Migration!proxmox
<1>2. ~Migration!Before
  BY <1>1 DEF MigrationInv, PhaseInv, Moving
<1>3. Now("done", my.plan, my.todo, my.disk, my.keys)
  BY <1>0, <1>1, AtNow DEF Pcs
<1>4. Migration!SourceTidy => Migration!SourceTidy'
  BY <1>1 DEF Migration!SourceTidy
<1> QED
  BY <1>0, <1>1, <1>2, <1>3, <1>4
     DEF MigrationInv, Migration!TypeOK, PhaseInv, RemoteInv, VolumesInv,
         MoveInv, PlaceInv, LeftInv, CleanupInv, Moving, Unlocking, Now,
         Migration!Before

-----------------------------------------------------------------------------
\* The steps of Proxmox and its other users.

\* What a step of others that moves no disk must keep.
LEMMA OthersKeep ==
  ASSUME MigrationInv,
         UNCHANGED <<my, migrationTask, asked, move>>,
         source' \in Migration!Source, source'.place = source.place,
         source'.unused.left \subseteq source.unused.left,
         source'.exists => Theirs \subseteq source'.unused.theirs,
         source'.lock = "migrate" =>
           source.lock = "migrate" \/ Migration!Before,
         RemoteInv', arrived' \in BOOLEAN,
         ~source.exists => ~source'.exists,
         \/ remote' = remote
         \/ /\ remote \in {"created", "active"}
            /\ remote' \in {"active", "ok", "warnings", "failed"}
  PROVE  MigrationInv'
<1>1. Migration!Before' <=> Migration!Before
  BY DEF Migration!Before
<1>2. Migration!SourceTidy => source'.place = asked'.place /\ source'.unused.left = {}
                              /\ source.lock # "migrate"
  BY DEF Migration!SourceTidy
<1> QED
  BY <1>1, <1>2
     DEF MigrationInv, Migration!TypeOK, PhaseInv, VolumesInv,
         MoveInv, PlaceInv, LeftInv, CleanupInv, Moving, Unlocking,
         Migration!SourceTidy, Migration!JobState

\* A moving job goes on by itself.
LEMMA MoveRunsStep ==
  ASSUME MigrationInv, Migration!MoveRuns
  PROVE  MigrationInv'
<1>0. /\ my \in Migration!My /\ source \in Migration!Source
      /\ source.place \in Migration!Layout
      /\ source.unused \in Migration!Entries
      /\ move \in Migration!Move /\ move.to \in Migration!Storage
      /\ my.plan \subseteq Disks /\ my.todo \subseteq my.plan
  BY DEF MigrationInv, Migration!TypeOK, Migration!My, Migration!Source,
         Migration!Move, MoveInv
<1>1. /\ move.state = "active"
      /\ UNCHANGED <<my, migrationTask, asked, remote, arrived>>
  BY DEF Migration!MoveRuns
<1>2. /\ move.disk \in my.plan /\ move.disk \in Disks
      /\ my.pc = "wait" \/ my.trouble \/ (Migration!Before /\ my.pc = "done")
  BY <1>0, <1>1 DEF MigrationInv, MoveInv
<1>3. PICK state \in {"ok", "warnings", "failed"} :
        /\ move' = [move EXCEPT !.state = state]
        /\ \/ UNCHANGED source
           \/ \E removed \in BOOLEAN :
                source' = [source EXCEPT
                  !.place[move.disk] = move.to,
                  !.unused.left = IF removed THEN @ ELSE @ \cup {move.disk}]
  BY DEF Migration!MoveRuns, Migration!MoveEnds
<1>4. /\ move' \in Migration!Move /\ move'.state = state
      /\ move'.disk = move.disk
  BY <1>0, <1>3 DEF Migration!Move, Migration!JobState
<1>5. Migration!Before' <=> Migration!Before
  BY <1>1 DEF Migration!Before
<1>6. CASE UNCHANGED source
  BY <1>0, <1>1, <1>2, <1>4, <1>5, <1>6
     DEF MigrationInv, Migration!TypeOK, PhaseInv, RemoteInv, VolumesInv,
         MoveInv, PlaceInv, LeftInv, CleanupInv, Moving, Unlocking,
         Migration!SourceTidy
<1>7. ASSUME NEW removed \in BOOLEAN,
             source' = [source EXCEPT
               !.place[move.disk] = move.to,
               !.unused.left = IF removed THEN @ ELSE @ \cup {move.disk}]
      PROVE  MigrationInv'
  <2> DEFINE place == [source.place EXCEPT ![move.disk] = move.to]
             left == IF removed THEN source.unused.left
                     ELSE source.unused.left \cup {move.disk}
             u == [source.unused EXCEPT !.left = left]
             s == [source EXCEPT !.place = place, !.unused = u]
  <2>1. /\ place \in Migration!Layout
        /\ \A d \in Disks \ {move.disk} : place[d] = source.place[d]
    BY <1>0, <1>2 DEF Migration!Layout
  <2> HIDE DEF place
  <2>2. left \subseteq Disks
    BY <1>0, <1>2 DEF Migration!Entries
  <2>3. source' = s
    BY <1>0, <1>7 DEF Migration!Source, Migration!Entries, place
  <2> HIDE DEF left
  <2>4. u \in Migration!Entries /\ u.theirs = source.unused.theirs
    BY <1>0, <2>2 DEF Migration!Entries
  <2> HIDE DEF u
  <2>5. /\ s \in Migration!Source /\ s.place = place /\ s.unused = u
        /\ s.exists = source.exists /\ s.lock = source.lock
    BY <1>0, <2>1, <2>4 DEF Migration!Source
  <2> HIDE DEF s
  <2>6. /\ Migration!TypeOK' /\ PhaseInv' /\ RemoteInv' /\ VolumesInv'
        /\ MoveInv'
    BY <1>0, <1>1, <1>2, <1>4, <1>5, <2>3, <2>4, <2>5
       DEF MigrationInv, Migration!TypeOK, PhaseInv, RemoteInv, VolumesInv,
           MoveInv, Moving
  <2>7. /\ \A d \in Disks \ my.plan : source'.place[d] = source.place[d]
        /\ ~Migration!Before => my.pc \notin {"read", "move", "verify",
                                              "delete", "check"}
        /\ ~Migration!Before /\ my.pc = "wait" =>
             \A d \in my.plan \ my.todo : source'.place[d] = source.place[d]
    BY <1>0, <1>2, <2>1, <2>3, <2>5
       DEF MigrationInv, PhaseInv, MoveInv
  <2>8. PlaceInv'
    BY <1>0, <1>1, <1>5, <2>7 DEF MigrationInv, PlaceInv, Moving
  <2>9. my.pc \in {"wait", "conclude", "done"}
        /\ (my.pc \in {"conclude", "done"} /\ ~Migration!Before => my.trouble)
    BY <1>2 DEF MigrationInv, PhaseInv
  <2>10. LeftInv' /\ CleanupInv'
    BY <1>1, <1>5, <2>3, <2>5, <2>9
       DEF MigrationInv, LeftInv, CleanupInv, Moving, Unlocking
  <2> QED
    BY <2>6, <2>8, <2>10 DEF MigrationInv
<1> QED
  BY <1>3, <1>6, <1>7

\* The remote migration goes on by itself.
LEMMA RemoteStep ==
  ASSUME MigrationInv, Migration!MigrationBegins \/ Migration!MigrationEnds
  PROVE  MigrationInv'
<1>0. /\ source \in Migration!Source /\ source.unused \in Migration!Entries
      /\ source.exists => Theirs \subseteq source.unused.theirs
      /\ arrived \in BOOLEAN
  BY DEF MigrationInv, Migration!TypeOK, VolumesInv, Migration!Source
<1>1. /\ remote \in {"created", "active"}
      /\ UNCHANGED <<my, migrationTask, asked, move>>
  BY DEF Migration!MigrationBegins, Migration!MigrationEnds
<1>2. Migration!Before /\ source.exists
  BY <1>1 DEF MigrationInv, PhaseInv, RemoteInv
<1>3. \A lock \in {"none", "migrate"} :
        LET s == [source EXCEPT !.lock = lock]
        IN  /\ s \in Migration!Source /\ s.place = source.place
            /\ s.unused = source.unused /\ s.exists = source.exists
  BY <1>0 DEF Migration!Source
<1>4. CASE \/ Migration!MigrationBegins
           \/ Migration!MigrationEnds /\ remote' = "failed"
  <2>1. /\ remote' \in {"active", "failed"} /\ arrived' \in BOOLEAN
        /\ \/ UNCHANGED source
           \/ \E lock \in {"none", "migrate"} :
                source' = [source EXCEPT !.lock = lock]
    BY <1>0, <1>4
       DEF Migration!MigrationBegins, Migration!MigrationEnds
  <2>2. /\ source' \in Migration!Source /\ source'.place = source.place
        /\ source'.unused = source.unused /\ source'.exists = source.exists
    BY <1>0, <1>3, <2>1
  <2>3. RemoteInv'
    BY <1>2, <2>1, <2>2 DEF RemoteInv
  <2> QED
    BY <1>0, <1>1, <1>2, <2>1, <2>2, <2>3, OthersKeep
<1>5. CASE /\ Migration!MigrationEnds
           /\ remote' \in {"ok", "warnings"} /\ arrived' = TRUE
           /\ source' = IF asked.delete
                        THEN [source EXCEPT !.exists = FALSE, !.lock = "none",
                                            !.unused = Migration!NoEntries]
                        ELSE source
  <2>1. /\ source' \in Migration!Source /\ source'.place = source.place
        /\ source'.unused.left \subseteq source.unused.left
        /\ source'.exists => source'.unused = source.unused
        /\ asked.delete => ~source'.exists
    BY <1>0, <1>5
       DEF Migration!Source, Migration!NoEntries, Migration!Entries
  <2>2. RemoteInv'
    BY <1>1, <1>5, <2>1 DEF RemoteInv
  <2> QED
    BY <1>0, <1>1, <1>2, <1>5, <2>1, <2>2, OthersKeep
<1> QED
  BY <1>4, <1>5 DEF Migration!MigrationEnds

\* Scheduled backups lock the source, and users detach a disk.
LEMMA UsersStep ==
  ASSUME MigrationInv,
         \/ Migration!BackupBegins \/ Migration!BackupEnds \/ Migration!Detach
  PROVE  MigrationInv'
<1>0. /\ source \in Migration!Source /\ source.unused \in Migration!Entries
      /\ source.exists => Theirs \subseteq source.unused.theirs
      /\ arrived \in BOOLEAN /\ RemoteInv
  BY DEF MigrationInv, Migration!TypeOK, VolumesInv, Migration!Source
<1>1. UNCHANGED <<my, migrationTask, asked, move, remote, arrived>>
  BY DEF Migration!BackupBegins, Migration!BackupEnds, Migration!Detach
<1>2. /\ source' \in Migration!Source /\ source'.place = source.place
      /\ source'.unused.left = source.unused.left
      /\ source.unused.theirs \subseteq source'.unused.theirs
      /\ source'.exists = source.exists
      /\ source'.lock = "migrate" => source.lock = "migrate"
  <2>1. CASE Migration!BackupBegins
    BY <1>0, <2>1 DEF Migration!BackupBegins, Migration!Source
  <2>2. CASE Migration!BackupEnds
    BY <1>0, <2>2 DEF Migration!BackupEnds, Migration!Source
  <2>3. CASE Migration!Detach
    <3>1. PICK v \in source.attached :
            source' = [source EXCEPT !.attached = @ \ {v},
                                     !.unused.theirs = @ \cup {v}]
      BY <2>3 DEF Migration!Detach
    <3> DEFINE u == [source.unused EXCEPT !.theirs = @ \cup {v}]
    <3>2. v \in Others
      BY <1>0 DEF Migration!Source
    <3>3. /\ u \in Migration!Entries /\ u.left = source.unused.left
          /\ source.unused.theirs \subseteq u.theirs
      BY <1>0, <3>2 DEF Migration!Entries
    <3>4. source' = [source EXCEPT !.attached = @ \ {v}, !.unused = u]
      BY <1>0, <3>1 DEF Migration!Source, Migration!Entries
    <3> HIDE DEF u
    <3> QED
      BY <1>0, <3>3, <3>4 DEF Migration!Source
  <2> QED
    BY <2>1, <2>2, <2>3
<1>3. RemoteInv'
  BY <1>0, <1>1, <1>2 DEF RemoteInv
<1> QED
  BY <1>0, <1>1, <1>2, <1>3, OthersKeep

\* Every step of a migration keeps the invariant.
LEMMA MigrationInvNext ==
  MigrationInv /\ [Migration!Next]_(Migration!vars) => MigrationInv'
<1> SUFFICES ASSUME MigrationInv, [Migration!Next]_(Migration!vars)
             PROVE  MigrationInv'
  OBVIOUS
<1>1. CASE Migration!Step
  BY <1>1, ReadStep, MoveDiskStep, WaitMoveStep, VerifyStep, DeleteStep,
     CheckStep, StartStep, PollStep, ReadLockStep, UnlockStep, ConcludeStep
     DEF Migration!Step
<1>2. CASE Migration!ReadFails
  BY <1>2, RaiseUnchanged DEF Migration!ReadFails
<1>3. CASE Migration!Jobs
  BY <1>3, MoveRunsStep, RemoteStep DEF Migration!Jobs
<1>4. CASE Migration!BackupBegins \/ Migration!BackupEnds \/ Migration!Detach
  BY <1>4, UsersStep
<1>5. CASE UNCHANGED Migration!vars
  BY <1>5
     DEF Migration!vars, Migration!proxmox, MigrationInv, Migration!TypeOK,
         PhaseInv, RemoteInv, VolumesInv, MoveInv, PlaceInv, LeftInv,
         CleanupInv, Moving, Unlocking, Migration!SourceTidy, Migration!Before
<1> QED
  BY <1>1, <1>2, <1>3, <1>4, <1>5 DEF Migration!Next

-----------------------------------------------------------------------------
\* Once the end of the remote migration was seen, the source is cleaned up, or
\* the task's result says that it was not.
THEOREM TidyOrToldAlways == Spec => []TidyOrTold
<1>1. MigrationInv => TidyOrTold
  <2> SUFFICES ASSUME MigrationInv, my.pc = "done", ~Migration!Before,
                      source.exists, ~my.trouble
               PROVE  Migration!SourceTidy
    BY DEF TidyOrTold, Migration!TidyOrTold, Migration!Before, MigrationInv,
           Migration!TypeOK, Migration!My
  <2> QED
    BY DEF MigrationInv, CleanupInv
<1> QED
  BY <1>1, MigrationInvInit, MigrationInvNext, NextOfParts, PTL
     DEF Spec, PartSteps

\* The cleanup never deletes a volume that was unused before the migration
\* began, whatever it compares.
THEOREM EarlierVolumesKeptAlways == Spec => EarlierVolumesKept
<1>1. MigrationInv /\ MigrationInv' => Migration!Keeps(Theirs)
  BY DEF MigrationInv, VolumesInv, Migration!Keeps
<1>2. MigrationInv /\ MigrationInv'
        => [Migration!Keeps(Theirs)]_(Migration!vars)
  BY <1>1
<1> QED
  BY <1>2, MigrationInvInit, MigrationInvNext, NextOfParts, PTL
     DEF Spec, PartSteps, EarlierVolumesKept, Migration!EarlierVolumesKept

\* While the remote migration works on the source nobody takes its lock away
\* or begins to move a disk.
THEOREM HandsOffAlways == Spec => HandsOff
<1> DEFINE A == Migration!MigrationWorks /\ UNCHANGED remote =>
                  /\ source.lock = "migrate" => source'.lock = "migrate"
                  /\ move'.state = "active" => move.state = "active"
<1>1. MigrationInv /\ [Migration!Next]_(Migration!vars)
        => [A]_(Migration!vars)
  <2> SUFFICES ASSUME MigrationInv, Migration!Next,
                      remote \in {"created", "active"}, UNCHANGED remote
               PROVE  /\ source.lock = "migrate" => source'.lock = "migrate"
                      /\ move'.state = "active" => move.state = "active"
    BY DEF Migration!MigrationWorks
  <2>1. /\ my.pc \in {"monitor", "done"}
        /\ source \in Migration!Source /\ move \in Migration!Move
    BY DEF MigrationInv, PhaseInv, Migration!TypeOK, Moving
  <2>2. CASE Migration!Step \/ Migration!ReadFails
    <3>1. UNCHANGED <<source, move>>
      BY <2>1, <2>2
         DEF Migration!Step, Migration!ReadBeforeStaging,
             Migration!ReadBeforeRestore, Migration!MoveDisk,
             Migration!WaitMove, Migration!Verify, Migration!DeleteEntries,
             Migration!CheckEntries, Migration!ReadTarget,
             Migration!StartMigration, Migration!PollMigration,
             Migration!ReadSource, Migration!Unlock,
             Migration!ReadUnlocked, Migration!Conclude, Migration!End,
             Migration!ReadFails, Migration!proxmox
    <3> QED
      BY <3>1
  <2>3. CASE Migration!MoveRuns
    BY <2>1, <2>3
       DEF Migration!MoveRuns, Migration!MoveEnds, Migration!Source,
           Migration!Move
  <2>4. CASE Migration!MigrationBegins \/ Migration!MigrationEnds
    BY <2>4 DEF Migration!MigrationBegins, Migration!MigrationEnds
  <2>5. CASE \/ Migration!BackupBegins \/ Migration!BackupEnds
             \/ Migration!Detach
    BY <2>5 DEF Migration!BackupBegins, Migration!BackupEnds,
                Migration!Detach
  <2> QED
    BY <2>2, <2>3, <2>4, <2>5 DEF Migration!Next, Migration!Jobs
<1> QED
  BY <1>1, MigrationInvInit, MigrationInvNext, NextOfParts, PTL
     DEF Spec, PartSteps, HandsOff, Migration!HandsOff

\* A task that says success did what was asked for: the disks are restored and
\* the guest, if no container under HA, is as wanted, or the machine has moved and its source is gone or
\* as it was.
THEOREM SuccessMeansDoneAlways ==
  ASSUME "restore" \notin LostInRestore
  PROVE  Spec => []SuccessMeansDone
<1>1. RestoreInv => Restore!SuccessMeansRestored
  BY DEF RestoreInv, Restore!TypeOK, FlagsInv, DiskInv, JobsInv, EndInv,
         Restore!SuccessMeansRestored
<1>2. MigrationInv => Migration!SuccessMeansMoved
  BY DEF MigrationInv, PhaseInv, RemoteInv, CleanupInv,
         Migration!SuccessMeansMoved
<1>3. RestoreInv /\ MigrationInv => SuccessMeansDone
  BY <1>1, <1>2 DEF SuccessMeansDone
<1>4. RestoreInv /\ [Restore!Next]_(Restore!vars) => RestoreInv'
  BY RestoreInvNext
<1> QED
  BY <1>3, <1>4, RestoreInvInit, MigrationInvInit, MigrationInvNext,
     NextOfParts, PTL DEF Spec, PartSteps
\* Every part keeps to its types, for any constants.
THEOREM TypeCorrect == Spec => []TypeOK
<1> DEFINE Types == /\ part \in Parts /\ Managed!TypeOK /\ Restore!TypeOK
                    /\ MigrationInv /\ CopiesInv /\ Consoles!TypeOK
<1>1. Types => TypeOK
  BY DEF TypeOK, MigrationInv, CopiesInv
<1>2. Init => Types
  BY TypesInit, MigrationInvInit, CopiesInvInit
<1>3. Types /\ [Next]_vars => Types'
  BY NextOfParts, PartStays, ManagedType, RestoreType, MigrationInvNext,
     CopiesInvNext, ConsoleType DEF PartSteps
<1> QED
  BY <1>1, <1>2, <1>3, PTL DEF Spec
=============================================================================
