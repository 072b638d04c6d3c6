-------------------------- MODULE Operations_proofs --------------------------
(***************************************************************************)
(* Proofs about the operations that go on by themselves, first part: a     *)
(* behaviour of Operations is a behaviour of each part, and what a restore *)
(* promises holds whichever calls lose their answers, that of the restore  *)
(* itself excepted.                                                        *)
(***************************************************************************)
EXTENDS Operations, FiniteSetTheorems, TLAPS

\* A step of Operations is, for every part, a step of that part or leaves the
\* state of that part as it is.
PartSteps ==
  /\ [Managed!Next]_(Managed!vars)
  /\ [Restore!Next]_(Restore!vars)
  /\ [Migration!Next]_(Migration!vars)
  /\ [Copies!Next]_(Copies!vars)
  /\ [Consoles!Next]_(Consoles!vars)

\* The parts share no variable, so a step of one leaves the others alone.
LEMMA NextOfParts == [Next]_vars => PartSteps
<1> SUFFICES ASSUME [Next]_vars PROVE PartSteps
  OBVIOUS
<1> USE DEF vars, managedVars, restoreVars, migrationVars, copiesVars,
        consoleVars, Managed!vars, Restore!vars, Migration!vars,
        Migration!proxmox, Copies!vars, Consoles!vars
<1>1. CASE ManagedNext
  BY <1>1 DEF ManagedNext, PartSteps
<1>2. CASE RestoreNext
  BY <1>2 DEF RestoreNext, PartSteps
<1>3. CASE MigrationNext
  BY <1>3 DEF MigrationNext, PartSteps
<1>4. CASE CopiesNext
  BY <1>4 DEF CopiesNext, PartSteps
<1>5. CASE ConsoleNext
  BY <1>5 DEF ConsoleNext, PartSteps
<1>6. CASE UNCHANGED vars
  BY <1>6 DEF PartSteps
<1> QED
  BY <1>1, <1>2, <1>3, <1>4, <1>5, <1>6 DEF Next

-----------------------------------------------------------------------------
\* Restoring a guest.

\* The stages of _execute_guest_restore: before it changes anything, ...
Reading == {"status", "resource"}
\* ... while it stops the guest and asks for the restore, ...
Stopping == {"set_ha_stopped", "stop", "wait_stop", "wait_stopped", "restore"}
\* ... after the restore, ...
Completing == {"final_ha", "start", "wait_start", "finish"}
\* ... and when it brings the guest back after an exception.
Recovering == {"recover_ha", "recover_start", "wait_recover"}

\* The flags restore_started and restore_completed tell the truth about the
\* job. The first does only because the answer of its call is not lost.
FlagsInv ==
  /\ task = "running" <=> pc # "done"
  /\ flags.started <=> job["restore"] # "none"
  /\ flags.completed => flags.started /\ job["restore"] = "ok"
  /\ pc \in Reading \cup Stopping \cup Recovering => ~flags.started
  /\ pc = "wait_restore" => flags.started /\ ~flags.completed
  /\ pc \in Completing => flags.completed
  /\ task = "success" => flags.completed

\* The disks are as far as the job that writes them.
DiskInv ==
  /\ job["restore"] \in {"none"} => disk = "old"
  /\ job["restore"] = "active" => disk \in {"old", "writing"}
  /\ job["restore"] = "failed" => disk \in {"old", "partial"}
  /\ job["restore"] = "ok" => disk = "new"

\* What the coroutine remembers of guest and HA resource is what it found, and
\* it finds the resource of virtual machines only. Jobs may change the resource
\* of a guest that it did not find.
SeenInv ==
  /\ ha = "none" <=> before.ha = "none"
  /\ pc = "status" => ~seen.running
  /\ seen.ha # "none" => seen.ha = before.ha /\ guest_type = "qemu"
  /\ pc \in Stopping \cup Completing \cup {"wait_restore"} /\ seen.ha = "none"
     => before.ha = "none" \/ guest_type = "lxc"
  /\ pc \in Reading => ha = before.ha /\ seen.ha = "none"
  /\ seen.ha = "none" /\ job["stop"] # "ok" =>
       \/ ha = before.ha
       \/ ha = "started" /\ job["start"] = "ok"
  /\ seen.ha = "stopped" /\ ~flags.completed => ha = before.ha

\* Jobs that stop and start the guest are created at their stages only.
JobsInv ==
  /\ Restore!HaInSight =>
       /\ job["stop"] # "none" => ha = "none"
       /\ job["stop"] = "active" => guest = "running"
  /\ flags.started => job["stop"] # "active"
  /\ job["stop"] # "none" => seen.running /\ seen.ha = "none"
  /\ job["start"] # "none" =>
       /\ seen.ha = "none"
       /\ ~flags.started => pc \in {"wait_recover", "fail", "done"} /\ seen.running
       /\ flags.started =>
            /\ flags.completed /\ wanted
            /\ pc \in {"wait_start", "finish", "except", "fail", "done"}
  /\ before.ha = "none" =>
       /\ job["stop"] = "none" /\ job["start"] = "none" =>
            (guest = "running" <=> before.running)
       /\ job["start"] = "ok" => guest = "running" /\ job["stop"] # "active"
       /\ pc \in {"resource"} \cup Stopping => seen.running = before.running

\* From the moment the guest is found stopped nothing can start it: it has no
\* HA resource, or one whose state is stopped.
StaysStopped ==
  /\ pc \in {"stop", "wait_stop"} => ha = "none"
  /\ pc = "stop" => guest = "running"
  /\ pc \in {"wait_stopped", "restore"} => ha \in {"none", "stopped"}
  /\ pc = "restore" => guest = "stopped"
  /\ (flags.started /\ ~flags.completed) \/ pc \in {"final_ha", "start"}
     => guest = "stopped" /\ ha # "started"

\* The stages that come before the restore, and those in which the guest was
\* found stopped and must stay so.
StopInv ==
  /\ pc \in Reading \cup {"set_ha_stopped", "stop"} => job["stop"] = "none"
  /\ pc = "set_ha_stopped" => ha \notin {"none", "stopped"} /\ seen.ha = ha
  /\ pc \in {"stop", "wait_stop"} => seen.running /\ seen.ha = "none"
  /\ pc \in {"wait_stopped", "restore"} => job["stop"] \in {"none", "ok"}
  /\ (flags.started /\ ~flags.completed) \/ pc \in {"final_ha", "start"}
     => job["start"] = "none"
  /\ Restore!HaInSight => StaysStopped

\* What the last stages leave: the guest starts if that was asked for.
EndInv ==
  /\ pc \in {"start", "wait_start"} => wanted /\ seen.ha = "none"
  /\ pc = "final_ha" => seen.ha # "none"
  /\ Restore!HaInSight /\ (pc = "finish" \/ task = "success") =>
       IF wanted THEN \/ ha = "started"
                      \/ before.ha = "none" /\ job["start"] = "ok"
       ELSE guest = "stopped" /\ ha # "started" /\ job["start"] = "none"

\* What bringing the guest back leaves, and when it is tried.
RecoverInv ==
  /\ pc \notin {"fail", "done"} => flags.recovered = "none"
  /\ pc = "recover_ha" => seen.ha \notin {"none", "stopped"}
  /\ pc \in {"recover_start", "wait_recover"} => seen.ha = "none" /\ seen.running
  /\ pc \in {"fail", "done"} /\ ~flags.started =>
       /\ flags.recovered = "yes" =>
            \/ seen.ha # "none" /\ ha = seen.ha
            \/ seen.ha = "none" /\ job["start"] = "ok"
       /\ flags.recovered = "none" =>
            \/ seen.ha = "stopped"
            \/ seen.ha = "none" /\ ~seen.running

\* The inductive invariant of a restore.
RestoreInv == /\ Restore!TypeOK /\ FlagsInv /\ DiskInv /\ SeenInv
              /\ JobsInv /\ StopInv /\ EndInv /\ RecoverInv

\* It holds before the first call, for any guest.
LEMMA RestoreInvInit == Init => RestoreInv
<1> SUFFICES ASSUME Restore!Init PROVE RestoreInv
  BY DEF Init
<1> USE DEF Reading, Stopping, Completing, Recovering
<1> QED
  BY DEF Restore!Init, RestoreInv, Restore!TypeOK, FlagsInv, DiskInv, SeenInv,
         JobsInv, StopInv, StaysStopped, EndInv, RecoverInv, Restore!State,
         Restore!Ha, Restore!Jobs, Restore!HaInSight, Restore!Resource

\* It is kept by every call of the coroutine, answered, lost or refused, and by
\* whatever Proxmox does in between.
LEMMA RestoreInvNext ==
  ASSUME "restore" \notin LostInRestore
  PROVE  RestoreInv /\ [Restore!Next]_(Restore!vars) => RestoreInv'
<1> SUFFICES ASSUME RestoreInv, [Restore!Next]_(Restore!vars)
             PROVE  RestoreInv'
  OBVIOUS
<1> USE DEF RestoreInv, Restore!TypeOK, FlagsInv, DiskInv, SeenInv,
         JobsInv, StopInv, StaysStopped, EndInv, RecoverInv, Restore!State,
         Restore!Ha, Restore!Jobs, Restore!HaInSight, Restore!Resource, Reading, Stopping, Completing, Recovering,
         Restore!GoTo, Restore!Raise, Restore!PutHaState, Restore!PostJob,
         Restore!AwaitJob, Restore!proxmox, Restore!Coroutine, Restore!JobEnds
<1>1. CASE Restore!ReadStatus
  BY <1>1 DEF Restore!ReadStatus
<1>2. CASE Restore!ReadResource
  BY <1>2 DEF Restore!ReadResource, Restore!AfterReading
<1>3. CASE Restore!SetHaStopped
  BY <1>3 DEF Restore!SetHaStopped
<1>4. CASE Restore!StopGuest
  BY <1>4 DEF Restore!StopGuest
<1>5. CASE Restore!WaitStopJob
  BY <1>5 DEF Restore!WaitStopJob
<1>6. CASE Restore!WaitGuestStopped
  BY <1>6 DEF Restore!WaitGuestStopped
<1>7. CASE Restore!StartRestore
  <2> DEFINE f == [flags EXCEPT !.started = TRUE]
  <2>1. /\ f \in [started : BOOLEAN, completed : BOOLEAN,
                  recovered : {"none", "yes", "no"}]
        /\ f.started /\ f.completed = flags.completed
        /\ f.recovered = flags.recovered
    OBVIOUS
  <2>2. \/ /\ job' = [job EXCEPT !["restore"] = "active"]
           /\ pc' = "wait_restore" /\ flags' = f
        \/ job' = job /\ pc' = "except" /\ flags' = flags
    BY <1>7 DEF Restore!StartRestore
  <2>3. /\ pc = "restore"
        /\ UNCHANGED <<guest_type, task, wanted, seen, guest, disk, ha, before>>
    BY <1>7 DEF Restore!StartRestore
  <2> HIDE DEF f
  <2>4. CASE job' = job
    BY <2>1, <2>2, <2>3, <2>4
  <2>5. CASE job' = [job EXCEPT !["restore"] = "active"] /\ pc' = "wait_restore"
    <3>1. /\ job'["restore"] = "active" /\ job'["stop"] = job["stop"]
          /\ job'["start"] = job["start"]
          /\ job' \in [Restore!Jobs -> {"none", "active", "ok", "failed"}]
      BY <2>5
    <3>2. flags' = f /\ job["start"] = "none" /\ job["restore"] = "none"
      BY <2>1, <2>2, <2>3, <2>5
    <3>3. Restore!TypeOK' /\ FlagsInv' /\ DiskInv' /\ SeenInv'
      BY <2>1, <2>3, <2>5, <3>1, <3>2
    <3>4. JobsInv'
      BY <2>1, <2>3, <2>5, <3>1, <3>2
    <3>5. StopInv' /\ EndInv' /\ RecoverInv'
      BY <2>1, <2>3, <2>5, <3>1, <3>2
    <3> QED
      BY <3>3, <3>4, <3>5
  <2> QED
    BY <2>2, <2>4, <2>5
<1>8. CASE Restore!WaitRestore
  <2> DEFINE f == [flags EXCEPT !.started = TRUE, !.completed = TRUE]
  <2>1. /\ f \in [started : BOOLEAN, completed : BOOLEAN,
                  recovered : {"none", "yes", "no"}]
        /\ f.started /\ f.completed /\ f.recovered = flags.recovered
    OBVIOUS
  <2>2. \/ /\ job["restore"] = "ok" /\ flags' = f
           /\ pc' = IF seen.ha # "none" THEN "final_ha"
                    ELSE IF wanted THEN "start" ELSE "finish"
        \/ job["restore"] = "failed" /\ pc' = "except" /\ flags' = flags
    BY <1>8 DEF Restore!WaitRestore
  <2>3. /\ pc = "wait_restore"
        /\ UNCHANGED <<guest_type, task, wanted, seen, guest, disk, ha, before, job>>
    BY <1>8 DEF Restore!WaitRestore
  <2> HIDE DEF f
  <2> QED
    BY <2>1, <2>2, <2>3
<1>9. CASE Restore!SetFinalHaState
  BY <1>9 DEF Restore!SetFinalHaState
<1>10. CASE Restore!StartGuest
  <2>1. \/ /\ job' = [job EXCEPT !["start"] = "active"]
           /\ pc' \in {"wait_start", "except"}
        \/ job' = job /\ pc' = "except"
    BY <1>10 DEF Restore!StartGuest
  <2>2. /\ pc = "start"
        /\ UNCHANGED <<guest_type, task, wanted, seen, flags, guest, disk, ha, before>>
    BY <1>10 DEF Restore!StartGuest
  <2> QED
    BY <2>1, <2>2
<1>11. CASE Restore!WaitStartJob
  BY <1>11 DEF Restore!WaitStartJob
<1>12. CASE Restore!Finish
  BY <1>12 DEF Restore!Finish
<1>13. CASE Restore!HandleException
  BY <1>13 DEF Restore!HandleException, Restore!Recovery
<1>14. CASE Restore!RecoverHaState
  <2> DEFINE f == [flags EXCEPT !.recovered = "yes"]
             g == [flags EXCEPT !.recovered = "no"]
  <2>1. /\ f \in [started : BOOLEAN, completed : BOOLEAN,
                  recovered : {"none", "yes", "no"}]
        /\ f.started = flags.started /\ f.completed = flags.completed
        /\ f.recovered = "yes"
        /\ g \in [started : BOOLEAN, completed : BOOLEAN,
                  recovered : {"none", "yes", "no"}]
        /\ g.started = flags.started /\ g.completed = flags.completed
        /\ g.recovered = "no"
    OBVIOUS
  <2>2. \/ ha' = seen.ha /\ flags' = f
        \/ ha' \in {seen.ha, ha} /\ flags' = g
    BY <1>14 DEF Restore!RecoverHaState
  <2>3. /\ pc = "recover_ha" /\ pc' = "fail"
        /\ UNCHANGED <<guest_type, task, wanted, seen, guest, disk, job, before>>
    BY <1>14 DEF Restore!RecoverHaState
  <2> HIDE DEF f, g
  <2> QED
    BY <2>1, <2>2, <2>3
<1>15. CASE Restore!RecoverStart
  BY <1>15 DEF Restore!RecoverStart
<1>16. CASE Restore!WaitRecoverJob
  BY <1>16 DEF Restore!WaitRecoverJob
<1>17. CASE Restore!Fail
  BY <1>17 DEF Restore!Fail
<1>18. CASE Restore!PollFails
  BY <1>18 DEF Restore!PollFails
<1>19. CASE Restore!StopRuns
  BY <1>19 DEF Restore!StopRuns, Restore!HandOver
<1>20. CASE Restore!StartRuns
  BY <1>20 DEF Restore!StartRuns, Restore!HandOver
<1>21. CASE Restore!RestoreRuns
  BY <1>21 DEF Restore!RestoreRuns
<1>22. CASE Restore!HaManager
  BY <1>22 DEF Restore!HaManager
<1>23. CASE UNCHANGED Restore!vars
  BY <1>23 DEF Restore!vars
<1> QED
  BY <1>1, <1>2, <1>3, <1>4, <1>5, <1>6, <1>7, <1>8, <1>9, <1>10, <1>11, <1>12,
     <1>13, <1>14, <1>15, <1>16, <1>17, <1>18, <1>19, <1>20, <1>21, <1>22, <1>23
     DEF Restore!Next, Restore!Step, Restore!Proxmox

\* As long as the answer of the call that starts the restore is not lost, a
\* guest whose disks are half restored never runs, containers under HA excepted.
THEOREM NeverRunsHalfRestoredAlways ==
  ASSUME "restore" \notin LostInRestore
  PROVE  Spec => []NeverRunsHalfRestored
<1>1. RestoreInv /\ [Restore!Next]_(Restore!vars) => RestoreInv'
  BY RestoreInvNext
<1>2. RestoreInv => NeverRunsHalfRestored
  BY DEF RestoreInv, Restore!TypeOK, FlagsInv, DiskInv, StopInv, StaysStopped,
         Restore!Jobs,
         NeverRunsHalfRestored, Restore!NeverRunsHalfRestored
<1> QED
  BY <1>1, <1>2, RestoreInvInit, NextOfParts, PTL DEF Spec, PartSteps

\* A restore that failed before it began has left the guest as it was, brought
\* it back, or says that it could not.
THEOREM BringsBackGuestAlways ==
  ASSUME "restore" \notin LostInRestore
  PROVE  Spec => []BringsBackGuest
<1>1. RestoreInv /\ [Restore!Next]_(Restore!vars) => RestoreInv'
  BY RestoreInvNext
<1>2. RestoreInv => BringsBackGuest
  <2> SUFFICES ASSUME RestoreInv, task = "error", ~flags.started
               PROVE  Restore!BringsBackGuest
    BY DEF BringsBackGuest, Restore!BringsBackGuest
  <2> USE DEF RestoreInv, Restore!TypeOK, FlagsInv, SeenInv, JobsInv,
              RecoverInv, Restore!State
  <2>1. pc = "done"
    OBVIOUS
  <2>2. CASE flags.recovered = "no"
    BY <2>2 DEF Restore!BringsBackGuest
  <2>3. CASE flags.recovered = "yes"
    <3>1. IF before.ha = "none" THEN guest = "running"
          ELSE Restore!HaInSight => ha \in {before.ha, "started"}
      BY <2>1, <2>3
    <3> QED
      BY <2>3, <3>1 DEF Restore!BringsBackGuest
  <2>4. CASE flags.recovered = "none"
    <3>1. ha = before.ha
      BY <2>1, <2>4
    <3>2. before.running /\ before.ha = "none" => guest = "running"
      BY <2>1, <2>4
    <3> QED
      BY <2>4, <3>1, <3>2 DEF Restore!BringsBackGuest
  <2> QED
    BY <2>2, <2>3, <2>4
<1> QED
  BY <1>1, <1>2, RestoreInvInit, NextOfParts, PTL DEF Spec, PartSteps

\* The restore job is created only for a guest that is stopped and that
\* nothing is about to start, containers under HA excepted.
THEOREM RestoresStoppedGuestAlways ==
  ASSUME "restore" \notin LostInRestore
  PROVE  Spec => RestoresStoppedGuest
<1> DEFINE A == Restore!HaInSight
                /\ job["restore"] = "none" /\ job'["restore"] = "active" =>
                  guest = "stopped" /\ ha # "started" /\ job["start"] = "none"
<1>1. RestoreInv /\ [Restore!Next]_(Restore!vars) => RestoreInv'
  BY RestoreInvNext
<1>2. RestoreInv /\ [Restore!Next]_(Restore!vars) => [A]_(Restore!vars)
  <2> SUFFICES ASSUME RestoreInv, Restore!Next, Restore!HaInSight,
                      job["restore"] = "none", job'["restore"] = "active"
               PROVE  /\ guest = "stopped" /\ ha # "started"
                      /\ job["start"] = "none"
    BY DEF Restore!vars
  <2>1. job \in [Restore!Jobs -> {"none", "active", "ok", "failed"}]
    BY DEF RestoreInv, Restore!TypeOK
  <2>2. pc = "restore"
    BY <2>1
       DEF Restore!Next, Restore!Step, Restore!Proxmox, Restore!ReadStatus,
           Restore!ReadResource, Restore!SetHaStopped, Restore!StopGuest,
           Restore!WaitStopJob, Restore!WaitGuestStopped,
           Restore!StartRestore, Restore!WaitRestore,
           Restore!SetFinalHaState, Restore!StartGuest,
           Restore!WaitStartJob, Restore!Finish, Restore!HandleException,
           Restore!RecoverHaState, Restore!RecoverStart,
           Restore!WaitRecoverJob, Restore!Fail, Restore!PollFails,
           Restore!StopRuns, Restore!StartRuns, Restore!RestoreRuns,
           Restore!HaManager, Restore!HandOver, Restore!PutHaState, Restore!PostJob,
           Restore!AwaitJob, Restore!proxmox, Restore!JobEnds, Restore!Jobs
  <2> QED
    BY <2>2 DEF RestoreInv, FlagsInv, JobsInv, StopInv, StaysStopped, Stopping
<1> QED
  BY <1>1, <1>2, RestoreInvInit, NextOfParts, PTL
     DEF Spec, PartSteps, RestoresStoppedGuest, Restore!RestoresStoppedGuest

-----------------------------------------------------------------------------
\* The types of the parts, whichever answers get lost.

\* A number still free for a new task, and what the new task is.
LEMMA ManagedCreate ==
  ASSUME Managed!TypeOK,
         NEW kind \in Managed!UpdateKinds \cup Managed!PowerKinds
                        \cup Managed!BatchKinds \cup {"activity"},
         NEW node \in Nodes \cup {Batch}, NEW pc0 \in {"submitted", "monitor"},
         Managed!Create(kind, node, pc0)
  PROVE  /\ created + 1 \in Managed!Ids /\ created' \in 0 .. MaxTasks
         /\ nodeTask' \in [Managed!Ids -> Managed!Task]
<1> DEFINE new == [Managed!NoTask EXCEPT !.kind = kind, !.node = node,
                                         !.pc = pc0]
<1>1. /\ MaxTasks \in Nat /\ created \in 0 .. MaxTasks /\ created < MaxTasks
      /\ created' = created + 1
  BY OperationsAssumption
     DEF Managed!MaxTasksAssumption, Managed!TypeOK, Managed!Create
<1>2. new \in Managed!Task
  BY DEF Managed!NoTask, Managed!Task
<1>3. nodeTask' = [nodeTask EXCEPT ![created + 1] = new]
  BY DEF Managed!Create
<1> HIDE DEF new
<1> QED
  BY <1>1, <1>2, <1>3 DEF Managed!TypeOK, Managed!Ids

\* A task that goes on keeps to its type.
LEMMA ManagedGoesOn ==
  ASSUME Managed!TypeOK, NEW i \in Managed!Ids,
         NEW s \in {"queued", "running", "success", "partial", "error"},
         NEW p \in {"command", "check", "gather", "monitor", "done"},
         \/ nodeTask' = [nodeTask EXCEPT ![i].state = s, ![i].pc = p]
         \/ nodeTask' = [nodeTask EXCEPT ![i].state = s]
         \/ nodeTask' = [nodeTask EXCEPT ![i].pc = p]
  PROVE  nodeTask' \in [Managed!Ids -> Managed!Task]
<1>1. /\ nodeTask \in [Managed!Ids -> Managed!Task]
      /\ nodeTask[i] \in Managed!Task
  BY DEF Managed!TypeOK
<1>2. /\ [nodeTask[i] EXCEPT !.state = s, !.pc = p] \in Managed!Task
      /\ [nodeTask[i] EXCEPT !.state = s] \in Managed!Task
      /\ [nodeTask[i] EXCEPT !.pc = p] \in Managed!Task
  BY <1>1 DEF Managed!Task
<1> QED
  BY <1>1, <1>2

\* A task that ends: its type, and the locks.
LEMMA ManagedEnd ==
  ASSUME Managed!TypeOK, NEW i \in Managed!Ids,
         NEW state \in {"success", "partial", "error"}, Managed!End(i, state)
  PROVE  /\ nodeTask' \in [Managed!Ids -> Managed!Task]
         /\ locks' \subseteq Nodes /\ released' \subseteq Nodes
<1>1. nodeTask' \in [Managed!Ids -> Managed!Task]
  BY ManagedGoesOn DEF Managed!End
<1>2. locks' \subseteq Nodes /\ released' \subseteq Nodes
  BY DEF Managed!End, Managed!Release, Managed!TypeOK
<1> QED
  BY <1>1, <1>2

\* The types of managed tasks.
LEMMA ManagedType ==
  Managed!TypeOK /\ [Managed!Next]_(Managed!vars) => Managed!TypeOK'
<1> SUFFICES ASSUME Managed!TypeOK, [Managed!Next]_(Managed!vars)
             PROVE  Managed!TypeOK'
  OBVIOUS
<1>0. /\ Kinds \subseteq Managed!UpdateKinds \cup Managed!PowerKinds
                          \cup Managed!BatchKinds \cup {"activity"}
  BY OperationsAssumption DEF Managed!KindsAssumption
<1>1. CASE Managed!Start
  <2>1. /\ created' \in 0 .. MaxTasks /\ created + 1 \in Managed!Ids
        /\ nodeTask' \in [Managed!Ids -> Managed!Task]
    BY <1>0, <1>1, ManagedCreate
       DEF Managed!Start, Managed!StartUpdate, Managed!StartPower,
           Managed!StartActivity, Managed!StartBatch
  <2>2. locks' \subseteq Nodes /\ UNCHANGED released
    BY <1>1
       DEF Managed!Start, Managed!StartUpdate, Managed!StartPower,
           Managed!StartActivity, Managed!StartBatch, Managed!Reserve,
           Managed!TypeOK
  <2>3. items' \in [Managed!Ids -> [Nodes -> Managed!Item]]
    <3>1. items \in [Managed!Ids -> [Nodes -> Managed!Item]]
      BY DEF Managed!TypeOK
    <3>2. ASSUME NEW nodes,
                 items' = [items EXCEPT ![created + 1] =
                             [n \in Nodes |-> IF n \in nodes
                                              THEN Managed!Pending
                                              ELSE Managed!Unselected]]
          PROVE  items' \in [Managed!Ids -> [Nodes -> Managed!Item]]
      <4>1. [n \in Nodes |-> IF n \in nodes THEN Managed!Pending
                                            ELSE Managed!Unselected]
              \in [Nodes -> Managed!Item]
        BY DEF Managed!Item, Managed!Pending, Managed!Unselected
      <4> QED
        BY <2>1, <3>1, <3>2, <4>1
    <3> QED
      BY <1>1, <3>1, <3>2
         DEF Managed!Start, Managed!StartUpdate, Managed!StartPower,
             Managed!StartActivity, Managed!StartBatch
  <2> QED
    BY <2>1, <2>2, <2>3 DEF Managed!TypeOK
<1>2. ASSUME NEW i \in Managed!Ids, Managed!Thread(i)
      PROVE  Managed!TypeOK'
  <2>1. CASE Managed!ThreadStarts(i)
    <3>1. PICK p \in {"check", "command"} :
            nodeTask' = [nodeTask EXCEPT ![i].state = "running", ![i].pc = p]
      BY <2>1 DEF Managed!ThreadStarts
    <3>2. nodeTask' \in [Managed!Ids -> Managed!Task]
      BY <3>1, ManagedGoesOn
    <3> QED
      BY <2>1, <3>2 DEF Managed!ThreadStarts, Managed!TypeOK
  <2>2. CASE Managed!CommandSucceeds(i) \/ Managed!CommandFails(i)
    <3>1. /\ \/ /\ nodeTask' = [nodeTask EXCEPT ![i].pc = "check"]
                /\ UNCHANGED <<locks, released>>
             \/ Managed!End(i, "success") \/ Managed!End(i, "error")
          /\ UNCHANGED <<created, items>>
      BY <2>2 DEF Managed!CommandSucceeds, Managed!CommandFails
    <3>2. /\ nodeTask' \in [Managed!Ids -> Managed!Task]
          /\ locks' \subseteq Nodes /\ released' \subseteq Nodes
      BY <3>1, ManagedGoesOn, ManagedEnd DEF Managed!TypeOK
    <3> QED
      BY <3>1, <3>2 DEF Managed!TypeOK
  <2> QED
    BY <1>2, <2>1, <2>2 DEF Managed!Thread
<1>3. ASSUME NEW i \in Managed!Ids, Managed!Coroutine(i)
      PROVE  Managed!TypeOK'
  <2>1. CASE Managed!ActivityStarts(i) \/ Managed!BatchStarts(i)
    <3>1. /\ \/ nodeTask' = [nodeTask EXCEPT ![i].state = "running"]
             \/ nodeTask' = [nodeTask EXCEPT ![i].state = "running",
                                             ![i].pc = "gather"]
          /\ UNCHANGED <<created, items, locks, released>>
      BY <2>1 DEF Managed!ActivityStarts, Managed!BatchStarts
    <3>2. nodeTask' \in [Managed!Ids -> Managed!Task]
      BY <3>1, ManagedGoesOn
    <3> QED
      BY <3>1, <3>2 DEF Managed!TypeOK
  <2>2. CASE Managed!ActivityEnds(i) \/ Managed!BatchEnds(i)
    <3>1. /\ \E state \in {"success", "partial", "error"} :
               Managed!End(i, state)
          /\ UNCHANGED <<created, items>>
      BY <2>2 DEF Managed!ActivityEnds, Managed!BatchEnds, Managed!Verdict
    <3> QED
      BY <3>1, ManagedEnd DEF Managed!TypeOK
  <2>3. ASSUME NEW n \in Nodes, Managed!BatchHandles(i, n)
        PROVE  Managed!TypeOK'
    <3>1. CASE UNCHANGED created
      BY <2>3, <3>1
         DEF Managed!BatchHandles, Managed!TypeOK, Managed!Item,
             Managed!Refused, Managed!Create
    <3>2. CASE Managed!Reserve(n)
               /\ Managed!Create(Managed!ChildKind[nodeTask[i].kind], n,
                                 "submitted")
      <4>1. Managed!ChildKind[nodeTask[i].kind] \in Managed!UpdateKinds
        BY <2>3 DEF Managed!BatchHandles, Managed!ChildKind,
                    Managed!BatchKinds, Managed!UpdateKinds
      <4> HIDE DEF Managed!ChildKind
      <4>2. /\ created' \in 0 .. MaxTasks /\ created + 1 \in Managed!Ids
            /\ nodeTask' \in [Managed!Ids -> Managed!Task]
        BY <3>2, <4>1, ManagedCreate
      <4>3. /\ locks' = locks \cup {n} /\ UNCHANGED released
            /\ \E k \in {Managed!Refused, created + 1} :
                 items' = [items EXCEPT ![i][n] = k]
        BY <2>3, <3>2 DEF Managed!BatchHandles, Managed!Reserve
      <4>4. items' \in [Managed!Ids -> [Nodes -> Managed!Item]]
        BY <4>2, <4>3 DEF Managed!TypeOK, Managed!Item, Managed!Refused
      <4> QED
        BY <4>2, <4>3, <4>4 DEF Managed!TypeOK
    <3> QED
      BY <2>3, <3>1, <3>2 DEF Managed!BatchHandles
  <2> QED
    BY <1>3, <2>1, <2>2, <2>3 DEF Managed!Coroutine
<1>4. CASE UNCHANGED Managed!vars
  BY <1>4 DEF Managed!vars, Managed!TypeOK
<1> QED
  BY <1>1, <1>2, <1>3, <1>4 DEF Managed!Next

-----------------------------------------------------------------------------

\* The types of a restore, whichever answers get lost.
LEMMA RestoreType ==
  Restore!TypeOK /\ [Restore!Next]_(Restore!vars) => Restore!TypeOK'
<1> SUFFICES ASSUME Restore!TypeOK, [Restore!Next]_(Restore!vars)
             PROVE  Restore!TypeOK'
  OBVIOUS
<1> DEFINE Flags == [started : BOOLEAN, completed : BOOLEAN,
                     recovered : {"none", "yes", "no"}]
<1>1. /\ [flags EXCEPT !.started = TRUE] \in Flags
      /\ [flags EXCEPT !.started = TRUE, !.completed = TRUE] \in Flags
      /\ [flags EXCEPT !.recovered = "yes"] \in Flags
      /\ [flags EXCEPT !.recovered = "no"] \in Flags
  BY DEF Restore!TypeOK
<1> USE DEF Restore!TypeOK, Restore!State, Restore!Ha, Restore!Jobs,
            Restore!GoTo, Restore!proxmox, Restore!Coroutine
<1>2. Restore!Raise => /\ pc' \in {"fail", "except"} /\ flags' \in Flags
                       /\ UNCHANGED <<guest_type, task, wanted, seen>>
  BY <1>1 DEF Restore!Raise
<1>3. CASE Restore!ReadStatus \/ Restore!ReadResource
  BY <1>2, <1>3 DEF Restore!ReadStatus, Restore!ReadResource,
                    Restore!AfterReading, Restore!Resource
<1>4. CASE Restore!SetHaStopped \/ Restore!SetFinalHaState
           \/ Restore!RecoverHaState
  <2>1. /\ ha' \in {"started", "stopped", seen.ha, ha}
        /\ pc' \in {"wait_stopped", "finish", "fail", "except"}
        /\ flags' \in Flags
        /\ UNCHANGED <<guest_type, task, wanted, seen, guest, disk, job, before>>
    BY <1>1, <1>2, <1>4
       DEF Restore!SetHaStopped, Restore!SetFinalHaState,
           Restore!RecoverHaState, Restore!PutHaState
  <2> QED
    BY <2>1
<1>5. CASE \/ Restore!StopGuest \/ Restore!StartRestore
           \/ Restore!StartGuest \/ Restore!RecoverStart
  <2>1. /\ \/ UNCHANGED job
           \/ \E j \in {"stop", "restore", "start"} :
                job' = [job EXCEPT ![j] = "active"]
        /\ pc' \in {"wait_stop", "wait_restore", "wait_start", "wait_recover",
                    "fail", "except"}
        /\ flags' \in Flags
        /\ UNCHANGED <<guest_type, task, wanted, seen, guest, disk, ha, before>>
    BY <1>1, <1>2, <1>5
       DEF Restore!StopGuest, Restore!StartRestore, Restore!StartGuest,
           Restore!RecoverStart, Restore!PostJob
  <2> QED
    BY <2>1
<1>6. CASE \/ Restore!WaitStopJob \/ Restore!WaitGuestStopped
           \/ Restore!WaitRestore \/ Restore!WaitStartJob
           \/ Restore!WaitRecoverJob \/ Restore!PollFails
  <2>1. /\ pc' \in {"wait_stopped", "restore", "final_ha", "start", "finish",
                    "fail", "except"}
        /\ flags' \in Flags
        /\ UNCHANGED <<guest_type, task, wanted, seen, guest, disk, ha, job,
                       before>>
    BY <1>1, <1>2, <1>6
       DEF Restore!WaitStopJob, Restore!WaitGuestStopped, Restore!WaitRestore,
           Restore!WaitStartJob, Restore!WaitRecoverJob, Restore!PollFails,
           Restore!AwaitJob
  <2> QED
    BY <2>1
<1>7. CASE Restore!Finish \/ Restore!HandleException \/ Restore!Fail
  BY <1>7 DEF Restore!Finish, Restore!HandleException, Restore!Recovery,
              Restore!Fail
<1>8. CASE Restore!Proxmox
  BY <1>8 DEF Restore!Proxmox, Restore!StopRuns, Restore!StartRuns,
              Restore!RestoreRuns, Restore!HaManager, Restore!HandOver,
              Restore!JobEnds
<1>9. CASE UNCHANGED Restore!vars
  BY <1>9 DEF Restore!vars
<1> QED
  BY <1>3, <1>4, <1>5, <1>6, <1>7, <1>8, <1>9
     DEF Restore!Next, Restore!Step

-----------------------------------------------------------------------------

\* The types of the console.
LEMMA ConsoleType ==
  Consoles!TypeOK /\ [Consoles!Next]_(Consoles!vars) => Consoles!TypeOK'
<1> SUFFICES ASSUME Consoles!TypeOK, [Consoles!Next]_(Consoles!vars)
             PROVE  Consoles!TypeOK'
  OBVIOUS
<1> USE DEF Consoles!TypeOK, Consoles!Directions
<1>0. MaxOpens \in Nat \ {0}
  BY OperationsAssumption DEF Consoles!ConsoleAssumption
<1>1. /\ Consoles!Dropped \in
           [Consoles!Calls -> {"none", "opening", "open", "closed", "reported"}]
      /\ \A k \in Consoles!Calls : Consoles!CloseBrowser(k) => socket' \in
           [Consoles!Calls -> {"none", "opening", "open", "closed", "reported"}]
  BY DEF Consoles!Dropped, Consoles!CloseBrowser
<1>2. CASE Consoles!ConnectConsole
  BY <1>0, <1>1, <1>2 DEF Consoles!ConnectConsole, Consoles!Calls
<1>3. CASE Consoles!Disconnect
  BY <1>0, <1>1, <1>3 DEF Consoles!Disconnect
<1>4. ASSUME NEW k \in Consoles!Calls,
             \/ Consoles!TicketAnswer(k) \/ Consoles!ConnectEvent(k)
             \/ Consoles!DisconnectEvent(k) \/ Consoles!SecurityFailure(k)
      PROVE  Consoles!TypeOK'
  BY <1>0, <1>4
     DEF Consoles!TicketAnswer, Consoles!ConnectEvent,
         Consoles!DisconnectEvent, Consoles!SecurityFailure, Consoles!Calls
<1>5. ASSUME NEW k \in Consoles!Calls,
             \/ Consoles!Expire(k) \/ Consoles!Accept(k) \/ Consoles!Dial(k)
             \/ Consoles!Hangup(k) \/ Consoles!PumpEnds(k)
             \/ Consoles!RelayEnds(k)
      PROVE  Consoles!TypeOK'
  BY <1>1, <1>5
     DEF Consoles!Expire, Consoles!Accept, Consoles!Dial, Consoles!Hangup,
         Consoles!PumpEnds, Consoles!RelayEnds
<1>6. CASE UNCHANGED Consoles!vars
  BY <1>6 DEF Consoles!vars
<1> QED
  BY <1>2, <1>3, <1>4, <1>5, <1>6 DEF Consoles!Next

-----------------------------------------------------------------------------

\* The dialogs keep to their types: a restore dialog that is open is about an
\* archive, and a snapshot dialog that waits has posted a task.
CopiesInv ==
  /\ Copies!TypeOK
  /\ restore.open => restore.archive \in Archives
  /\ Len(snapTasks) <= MaxSnapshots
  /\ snap.upid <= Len(snapTasks)
  /\ snap.busy => Len(snapTasks) > 0

\* At the start the dialogs are closed.
LEMMA CopiesInvInit == Init => CopiesInv
<1> SUFFICES ASSUME Copies!Init PROVE CopiesInv
  BY DEF Init
<1> QED
  BY OperationsAssumption
     DEF Copies!CopiesAssumption, Copies!Init, CopiesInv, Copies!TypeOK,
         Copies!Closed, Copies!Posted

\* Every step of the dialogs and of their tasks keeps the types.
LEMMA CopiesInvNext ==
  CopiesInv /\ [Copies!Next]_(Copies!vars) => CopiesInv'
<1> SUFFICES ASSUME CopiesInv, [Copies!Next]_(Copies!vars)
             PROVE  CopiesInv'
  OBVIOUS
<1>0. MaxSnapshots \in Nat /\ MaxRestores \in Nat /\ Attempts \in Nat \ {0}
  BY OperationsAssumption DEF Copies!CopiesAssumption
<1> DEFINE Dialog == [open : BOOLEAN, job : BackupJobs \cup {None},
                      busy : BOOLEAN, listed : SUBSET Archives]
           RestoreDialog == [open : BOOLEAN, archive : Archives \cup {None},
                             typed : Archives \cup {None}, busy : BOOLEAN,
                             done : BOOLEAN]
<1>1. ASSUME Copies!BackupNext PROVE CopiesInv'
  <2>1. UNCHANGED <<restore, posts, snap, snapTasks>>
    BY <1>1
       DEF Copies!BackupNext, Copies!OpenBackups, Copies!CloseBackups,
           Copies!JobsChange, Copies!SelectJob, Copies!LoadArchives,
           Copies!StartBackup, Copies!BackupAnswer, Copies!RunJob,
           Copies!RunJobAnswer, Copies!backupVars
  <2>2. /\ jobs' \subseteq BackupJobs /\ starting' \in BackupJobs \cup {None}
    BY <1>1
       DEF Copies!BackupNext, Copies!OpenBackups, Copies!CloseBackups,
           Copies!JobsChange, Copies!SelectJob, Copies!LoadArchives,
           Copies!StartBackup, Copies!BackupAnswer, Copies!RunJob,
           Copies!RunJobAnswer, Copies!backupVars, CopiesInv, Copies!TypeOK
  <2>3. backup \in Dialog /\ jobs \subseteq BackupJobs
    BY DEF CopiesInv, Copies!TypeOK
  <2>4. ASSUME NEW d \in Dialog, NEW js \in SUBSET BackupJobs
        PROVE  Copies!Chosen(d, js) \in Dialog
    <3> DEFINE choice == IF Copies!Cardinality(js) = 1 THEN CHOOSE j \in js : TRUE
                         ELSE None
    <3>1. Copies!Cardinality(js) = 1 => js # {}
      <4>1. Copies!Cardinality({}) = Cardinality({})
        BY DEF Copies!Cardinality, Cardinality
      <4>2. Copies!Cardinality({}) = 0
        BY <4>1, FS_EmptySet
      <4> QED
        BY <4>2
    <3>2. choice \in BackupJobs \cup {None}
      BY <3>1
    <3>3. Copies!Chosen(d, js) = IF ~d.open \/ d.job \in js THEN d
                                 ELSE [d EXCEPT !.job = choice]
      BY DEF Copies!Chosen
    <3> HIDE DEF choice
    <3> QED
      BY <3>2, <3>3
  <2>5. CASE Copies!OpenBackups \/ \E js \in SUBSET BackupJobs : Copies!JobsChange(js)
    <3>1. [backup EXCEPT !.open = TRUE] \in Dialog
      BY <2>3
    <3>2. \/ backup' = Copies!Chosen([backup EXCEPT !.open = TRUE], jobs)
          \/ \E js \in SUBSET BackupJobs : backup' = Copies!Chosen(backup, js)
      BY <2>5 DEF Copies!OpenBackups, Copies!JobsChange
    <3>3. backup' \in Dialog
      BY <2>3, <2>4, <3>1, <3>2
    <3> QED
      BY <2>1, <2>2, <3>3 DEF CopiesInv, Copies!TypeOK
  <2>6. CASE \/ \E j \in BackupJobs : Copies!SelectJob(j) \/ Copies!RunJob(j)
             \/ Copies!RunJobAnswer \/ Copies!CloseBackups
             \/ Copies!StartBackup \/ Copies!BackupAnswer
             \/ \E as \in SUBSET Archives : Copies!LoadArchives(as)
    <3>1. backup' \in Dialog
      BY <2>3, <2>6
         DEF Copies!SelectJob, Copies!RunJob, Copies!RunJobAnswer,
             Copies!CloseBackups, Copies!StartBackup, Copies!BackupAnswer,
             Copies!LoadArchives, Copies!backupVars
    <3> QED
      BY <2>1, <2>2, <3>1 DEF CopiesInv, Copies!TypeOK
  <2> QED
    BY <1>1, <2>5, <2>6 DEF Copies!BackupNext
<1>2. ASSUME Copies!RestoreNext PROVE CopiesInv'
  <2> USE DEF Copies!RestoreNext, Copies!CloseRestore, Copies!StartRestore,
              Copies!OpenRestore, Copies!TypeConfirmation,
              Copies!RestoreAnswer
  <2>1. UNCHANGED <<jobs, backup, starting, snap, snapTasks>>
    BY <1>2
  <2>2. restore \in RestoreDialog /\ (restore.open => restore.archive \in Archives)
    BY DEF CopiesInv, Copies!TypeOK
  <2> DEFINE Fits(r) == r \in RestoreDialog /\ (r.open => r.archive \in Archives)
  <2>3. /\ Fits(Copies!Closed)
        /\ \A a \in Archives : Fits([Copies!Closed EXCEPT !.open = TRUE,
                                                          !.archive = a])
    BY DEF Copies!Closed
  <2>4. /\ restore.open => Fits([restore EXCEPT !.typed = restore.archive])
        /\ Fits([restore EXCEPT !.typed = None])
        /\ Fits([restore EXCEPT !.busy = TRUE])
        /\ Fits([restore EXCEPT !.busy = FALSE])
        /\ Fits([restore EXCEPT !.busy = FALSE, !.done = TRUE, !.typed = None])
    BY <2>2
  <2>5. \/ restore' = Copies!Closed
        \/ \E a \in Archives :
             restore' = [Copies!Closed EXCEPT !.open = TRUE, !.archive = a]
        \/ restore.open /\ restore' = [restore EXCEPT !.typed = restore.archive]
        \/ restore' = [restore EXCEPT !.typed = None]
        \/ restore' = [restore EXCEPT !.busy = TRUE]
        \/ restore' = [restore EXCEPT !.busy = FALSE]
        \/ restore' = [restore EXCEPT !.busy = FALSE, !.done = TRUE,
                                      !.typed = None]
    BY <1>2
  <2> HIDE DEF Fits
  <2>6. Fits(restore')
    BY <2>3, <2>4, <2>5
  <2> USE DEF Fits
  <2>7. \/ UNCHANGED posts
        \/ /\ restore.open /\ restore.typed # None /\ Len(posts) < MaxRestores
           /\ posts' = Append(posts, [archive |-> restore.archive,
                                      typed |-> restore.typed])
    BY <1>2
  <2>8. /\ posts \in Seq(Copies!Posted) /\ Len(posts) <= MaxRestores
    BY DEF CopiesInv, Copies!TypeOK
  <2>9. restore.open => [archive |-> restore.archive, typed |-> restore.typed]
                          \in Copies!Posted
    BY <2>2 DEF Copies!Posted
  <2>10. posts' \in Seq(Copies!Posted) /\ Len(posts') <= MaxRestores
    BY <1>0, <2>7, <2>8, <2>9
  <2> QED
    BY <2>1, <2>6, <2>10 DEF CopiesInv, Copies!TypeOK
<1>3. ASSUME Copies!SnapshotNext PROVE CopiesInv'
  <2>1. /\ UNCHANGED <<jobs, backup, restore, posts, starting>>
    BY <1>3
       DEF Copies!SnapshotNext, Copies!OpenSnapshots, Copies!CloseSnapshots,
           Copies!SnapshotRequest, Copies!RequestAnswer,
           Copies!SnapshotTaskEnds, Copies!WaitForTask, Copies!backupVars
  <2> DEFINE Upids == 0 .. MaxSnapshots
             Polls == 0 .. Attempts
             Snap == [open : BOOLEAN, busy : BOOLEAN, upid : Upids, polls : Polls,
                      told : {"nothing", "started", "done", "error"}]
             States == {"posted", "running", "ok", "failed"}
  <2>2. /\ snap \in Snap /\ snapTasks \in Seq(States)
        /\ Len(snapTasks) <= MaxSnapshots /\ Len(snapTasks) \in Nat
        /\ snap.upid <= Len(snapTasks)
        /\ snap.busy => Len(snapTasks) > 0
    BY DEF CopiesInv, Copies!TypeOK
  <2>20. /\ 0 \in Upids /\ Len(snapTasks) \in Upids /\ 0 \in Polls
         /\ snap.polls < Attempts => snap.polls + 1 \in Polls
    BY <1>0, <2>2
  <2>3. CASE \/ Copies!OpenSnapshots \/ Copies!CloseSnapshots
             \/ \E error \in BOOLEAN : Copies!WaitForTask(error)
    <3>1. snapTasks' = snapTasks
      BY <2>3 DEF Copies!OpenSnapshots, Copies!CloseSnapshots,
                  Copies!WaitForTask
    <3> DEFINE Fits(r) == r \in Snap /\ r.upid = snap.upid
                          /\ (r.busy => snap.busy)
    <3>2. /\ \A b \in BOOLEAN : Fits([snap EXCEPT !.open = b])
          /\ \A told \in {"done", "error"} :
               Fits([snap EXCEPT !.busy = FALSE, !.told = told])
          /\ snap.polls < Attempts =>
               Fits([snap EXCEPT !.polls = snap.polls + 1])
      <4> HIDE DEF Upids, Polls
      <4> QED
        BY <2>2, <2>20
    <3>3. \/ \E b \in BOOLEAN : snap' = [snap EXCEPT !.open = b]
          \/ \E told \in {"done", "error"} :
               snap' = [snap EXCEPT !.busy = FALSE, !.told = told]
          \/ /\ snap.polls < Attempts
             /\ snap' = [snap EXCEPT !.polls = snap.polls + 1]
      BY <2>3
         DEF Copies!OpenSnapshots, Copies!CloseSnapshots, Copies!WaitForTask,
             Copies!Fails
    <3> HIDE DEF Fits
    <3>4. Fits(snap')
      BY <3>2, <3>3
    <3> QED
      BY <2>1, <2>2, <3>1, <3>4 DEF CopiesInv, Copies!TypeOK, Fits
  <2>4. CASE Copies!SnapshotRequest
    <3>1. /\ snapTasks' = Append(snapTasks, "posted")
          /\ Len(snapTasks) < MaxSnapshots
          /\ snap' = [snap EXCEPT !.busy = TRUE, !.told = "nothing",
                                  !.upid = 0, !.polls = 0]
      BY <2>4 DEF Copies!SnapshotRequest
    <3>2. /\ snapTasks' \in Seq(States)
          /\ Len(snapTasks') = Len(snapTasks) + 1
      BY <2>2, <3>1
    <3> DEFINE s == [snap EXCEPT !.busy = TRUE, !.told = "nothing",
                                 !.upid = 0, !.polls = 0]
    <3>3. s \in Snap /\ s.upid = 0
      <4> HIDE DEF Upids, Polls
      <4>1. s \in Snap
        BY <2>2, <2>20
      <4>2. s.upid = 0
        BY <2>2
      <4> QED
        BY <4>1, <4>2
    <3> HIDE DEF s
    <3>4. snap' = s
      BY <3>1 DEF s
    <3> QED
      BY <1>0, <2>1, <2>2, <3>1, <3>2, <3>3, <3>4 DEF CopiesInv, Copies!TypeOK
  <2>5. ASSUME NEW begun \in BOOLEAN, NEW told \in BOOLEAN,
               Copies!RequestAnswer(begun, told)
        PROVE  CopiesInv'
    <3>1. /\ snapTasks' = [snapTasks EXCEPT ![Len(snapTasks)] =
                             IF begun THEN "running" ELSE "failed"]
          /\ snap.busy
          /\ \/ snap' = [snap EXCEPT !.upid = Len(snapTasks),
                                     !.told = "started"]
             \/ snap' = [snap EXCEPT !.busy = FALSE, !.told = "error"]
      BY <2>5 DEF Copies!RequestAnswer, Copies!Fails
    <3>2. /\ snapTasks' \in Seq(States)
          /\ Len(snapTasks') = Len(snapTasks)
      BY <2>2, <3>1
    <3> DEFINE s == [snap EXCEPT !.upid = Len(snapTasks), !.told = "started"]
               t == [snap EXCEPT !.busy = FALSE, !.told = "error"]
    <3>3. /\ s \in Snap /\ s.upid = Len(snapTasks)
          /\ t \in Snap /\ t.upid = snap.upid /\ ~t.busy
      <4> HIDE DEF Upids, Polls
      <4>1. s \in Snap /\ t \in Snap
        BY <2>2, <2>20
      <4>2. s.upid = Len(snapTasks) /\ t.upid = snap.upid /\ ~t.busy
        BY <2>2
      <4> QED
        BY <4>1, <4>2
    <3> HIDE DEF s, t
    <3>4. snap' = s \/ snap' = t
      BY <3>1 DEF s, t
    <3> QED
      BY <2>1, <2>2, <3>1, <3>2, <3>3, <3>4 DEF CopiesInv, Copies!TypeOK
  <2>6. ASSUME NEW i \in DOMAIN snapTasks, NEW how \in {"ok", "failed"},
               Copies!SnapshotTaskEnds(i, how)
        PROVE  CopiesInv'
    <3>1. /\ snapTasks' = [snapTasks EXCEPT ![i] = how] /\ UNCHANGED snap
      BY <2>6 DEF Copies!SnapshotTaskEnds
    <3>2. /\ snapTasks' \in Seq(States)
          /\ Len(snapTasks') = Len(snapTasks)
      BY <2>2, <3>1
    <3> QED
      BY <2>1, <2>2, <3>1, <3>2 DEF CopiesInv, Copies!TypeOK
  <2> QED
    BY <1>3, <2>3, <2>4, <2>5, <2>6 DEF Copies!SnapshotNext
<1>4. CASE UNCHANGED Copies!vars
  BY <1>4 DEF Copies!vars, CopiesInv, Copies!TypeOK
<1> QED
  BY <1>1, <1>2, <1>3, <1>4 DEF Copies!Next

\* The parts start with their types.
LEMMA TypesInit ==
  Init => /\ part \in Parts /\ Managed!TypeOK /\ Restore!TypeOK
          /\ Consoles!TypeOK
<1> SUFFICES ASSUME Init
             PROVE  /\ part \in Parts /\ Managed!TypeOK /\ Restore!TypeOK
                    /\ Consoles!TypeOK
  OBVIOUS
<1>1. part \in Parts
  BY DEF Init
<1>2. Managed!TypeOK
  BY OperationsAssumption
     DEF Managed!MaxTasksAssumption, Init, Managed!Init, Managed!TypeOK,
         Managed!NoTask, Managed!Task, Managed!Item, Managed!Unselected
<1>3. Restore!TypeOK
  BY RestoreInvInit DEF RestoreInv
<1>4. Consoles!TypeOK
  BY OperationsAssumption
     DEF Consoles!ConsoleAssumption, Init, Consoles!Init, Consoles!TypeOK
<1> QED
  BY <1>1, <1>2, <1>3, <1>4

\* No step changes which part a behaviour is about.
LEMMA PartStays == part \in Parts /\ [Next]_vars => (part \in Parts)'
  BY DEF vars, Next, ManagedNext, RestoreNext, MigrationNext, CopiesNext,
         ConsoleNext
=============================================================================
