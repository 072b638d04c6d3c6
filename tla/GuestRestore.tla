---------------------------- MODULE GuestRestore ----------------------------
(***************************************************************************)
(* Restoring a guest over itself: _execute_guest_restore of tasks.py, its  *)
(* calls of Proxmox, and what Proxmox, its jobs and its HA manager do      *)
(* meanwhile.                                                              *)
(*                                                                         *)
(* The coroutine stops the guest, starts the restore job, waits for it and *)
(* brings the guest to the wanted state; its except clause brings back the *)
(* previous state if the restore had not started.  Every call may raise.   *)
(* One that changes something may have been carried out all the same: the  *)
(* connection was lost before the answer came.                             *)
(*                                                                         *)
(* Guests are virtual machines and containers.  The coroutine looks for an *)
(* HA resource "vm:<vmid>" whatever the guest is, so that of a container,  *)
(* "ct:<vmid>", is none to it.                                             *)
(***************************************************************************)
EXTENDS Integers

CONSTANTS
  HaStates,     \* states an HA resource may be in when the restore starts
  Lost          \* calls whose answer may get lost after they took effect

RestoreAssumption ==
  /\ HaStates \subseteq {"started", "stopped", "ignored", "disabled"}
  /\ Lost \subseteq {"ha", "stop", "restore", "start"}

VARIABLES
  pc,           \* where the coroutine is
  guest_type,   \* virtual machine or container
  task,         \* state of the ManagedTask
  wanted,       \* start_after_restore
  seen,         \* original_running and original_ha_state
  flags,        \* restore_started, restore_completed and the recovery's flag
  guest,        \* the guest, as Proxmox sees it
  disk,         \* what its disks hold
  ha,           \* state of its HA resource; "none": not HA managed
  job,          \* job[j]: the Proxmox job of this call
  before        \* history: guest and HA state when the task was created

vars == <<pc, guest_type, task, wanted, seen, flags, guest, disk, ha, job,
          before>>

proxmox == <<guest, disk, ha, job, before>>

Jobs == {"stop", "restore", "start"}
Ha == HaStates \cup {"none", "started", "stopped"}
State == [running: BOOLEAN, ha: Ha]

TypeOK ==
  /\ pc \in {"status", "resource", "set_ha_stopped", "stop", "wait_stop",
             "wait_stopped", "restore", "wait_restore", "final_ha", "start",
             "wait_start", "finish", "except", "recover_ha", "recover_start",
             "wait_recover", "fail", "done"}
  /\ guest_type \in {"qemu", "lxc"}
  /\ task \in {"running", "success", "error"}
  /\ wanted \in BOOLEAN
  /\ seen \in State /\ before \in State
  /\ flags \in [started: BOOLEAN, completed: BOOLEAN,
                recovered: {"none", "yes", "no"}]
  /\ guest \in {"running", "stopped"}
  /\ disk \in {"old", "writing", "partial", "new"}
  /\ ha \in Ha
  /\ job \in [Jobs -> {"none", "active", "ok", "failed"}]

Init == /\ pc = "status"
        /\ guest_type \in {"qemu", "lxc"}
        /\ task = "running"
        /\ wanted \in BOOLEAN
        /\ seen = [running |-> FALSE, ha |-> "none"]
        /\ flags = [started |-> FALSE, completed |-> FALSE,
                    recovered |-> "none"]
        /\ guest \in {"running", "stopped"}
        /\ disk = "old"
        /\ ha \in HaStates \cup {"none"}
        /\ job = [j \in Jobs |-> "none"]
        /\ before = [running |-> guest = "running", ha |-> ha]

-----------------------------------------------------------------------------
(* Calls.                                                                  *)

\* guest_ha_resource: the state of the resource "vm:<vmid>", if there is one.
Resource == IF guest_type = "qemu" THEN ha ELSE "none"

GoTo(next) == pc' = next /\ UNCHANGED <<guest_type, task, wanted, seen>>

\* The call raises: inside the recovery its own except clause notes that,
\* anywhere else the except clause of the task takes over.
Raise == IF pc \in {"recover_ha", "recover_start", "wait_recover"}
         THEN GoTo("fail") /\ flags' = [flags EXCEPT !.recovered = "no"]
         ELSE GoTo("except") /\ UNCHANGED flags

\* set_guest_ha_state: the state of "vm:<vmid>" is what was asked for, or as
\* before; of a resource that does not exist none can be set.
PutHaState(state, next, newFlags) ==
  /\ \/ /\ Resource # "none"
        /\ ha' = state /\ GoTo(next) /\ flags' = newFlags
     \/ Resource # "none" /\ ha' = state /\ "ha" \in Lost /\ Raise
     \/ ha' = ha /\ Raise
  /\ UNCHANGED <<guest, disk, job, before>>

\* guest_action and restore_guest: Proxmox has a new job, or it has none.
PostJob(j, next, newFlags) ==
  /\ \/ job' = [job EXCEPT ![j] = "active"] /\ GoTo(next) /\ flags' = newFlags
     \/ job' = [job EXCEPT ![j] = "active"] /\ j \in Lost /\ Raise
     \/ job' = job /\ Raise
  /\ UNCHANGED <<guest, disk, ha, before>>

\* _wait_proxmox_task, which has no timeout: returns when the job ended well,
\* raises when it did not.
AwaitJob(j, next, newFlags) ==
  /\ \/ job[j] = "ok" /\ GoTo(next) /\ flags' = newFlags
     \/ job[j] = "failed" /\ Raise
  /\ UNCHANGED proxmox

\* A single failed poll of a job or of the guest's state raises.
PollFails == /\ pc \in {"wait_stop", "wait_stopped", "wait_restore",
                        "wait_start", "wait_recover"}
             /\ Raise
             /\ UNCHANGED proxmox

-----------------------------------------------------------------------------
(* The coroutine.                                                          *)

ReadStatus ==
  /\ pc = "status"
  /\ \/ /\ pc' = "resource"
        /\ seen' = [seen EXCEPT !.running = guest = "running"]
        /\ UNCHANGED <<guest_type, task, wanted, flags>>
     \/ Raise
  /\ UNCHANGED proxmox

\* Mutant of AfterReading: a resource that should be stopped is taken to be.
AfterReadingTrusting ==
  IF Resource = "stopped" THEN "restore"
  ELSE IF Resource # "none" THEN "set_ha_stopped"
  ELSE IF seen.running THEN "stop" ELSE "restore"

\* How the guest gets stopped.
AfterReading ==
  IF Resource = "stopped" THEN "wait_stopped"
  ELSE IF Resource # "none" THEN "set_ha_stopped"
  ELSE IF seen.running THEN "stop" ELSE "restore"

ReadResource ==
  /\ pc = "resource"
  /\ \/ /\ pc' = AfterReading
        /\ seen' = [seen EXCEPT !.ha = Resource]
        /\ UNCHANGED <<guest_type, task, wanted, flags>>
     \/ Raise
  /\ UNCHANGED proxmox

SetHaStopped == /\ pc = "set_ha_stopped"
                /\ PutHaState("stopped", "wait_stopped", flags)

StopGuest == pc = "stop" /\ PostJob("stop", "wait_stop", flags)

WaitStopJob == pc = "wait_stop" /\ AwaitJob("stop", "wait_stopped", flags)

\* Raises when the guest still runs after 180 seconds.
WaitGuestStopped ==
  /\ pc = "wait_stopped"
  /\ \/ guest = "stopped" /\ GoTo("restore") /\ UNCHANGED flags
     \/ guest = "running" /\ Raise
  /\ UNCHANGED proxmox

\* Mutant of StartRestore: restore_started is set with restore_completed.
StartRestoreUnnoted ==
  pc = "restore" /\ PostJob("restore", "wait_restore", flags)

StartRestore ==
  /\ pc = "restore"
  /\ PostJob("restore", "wait_restore", [flags EXCEPT !.started = TRUE])

WaitRestore ==
  /\ pc = "wait_restore"
  /\ AwaitJob("restore", IF seen.ha # "none" THEN "final_ha"
                         ELSE IF wanted THEN "start" ELSE "finish",
              [flags EXCEPT !.started = TRUE, !.completed = TRUE])

\* Mutant of SetFinalHaState: the previous state comes back.
SetFinalHaStatePrevious ==
  pc = "final_ha" /\ PutHaState(seen.ha, "finish", flags)

SetFinalHaState ==
  /\ pc = "final_ha"
  /\ PutHaState(IF wanted THEN "started" ELSE "stopped", "finish", flags)

StartGuest == pc = "start" /\ PostJob("start", "wait_start", flags)

WaitStartJob == pc = "wait_start" /\ AwaitJob("start", "finish", flags)

Finish == /\ pc = "finish"
          /\ pc' = "done" /\ task' = "success"
          /\ UNCHANGED <<guest_type, wanted, seen, flags, proxmox>>

\* Mutant of Recovery: only running guests are brought back.
RecoveryOfRunning ==
  IF flags.started \/ ~seen.running THEN "fail"
  ELSE IF seen.ha \notin {"none", "stopped"} THEN "recover_ha"
  ELSE IF seen.ha = "none" THEN "recover_start" ELSE "fail"

\* What the except clause does about the guest: nothing once the restore has
\* started.
Recovery ==
  IF flags.started THEN "fail"
  ELSE IF seen.ha \notin {"none", "stopped"} THEN "recover_ha"
  ELSE IF seen.ha = "none" /\ seen.running THEN "recover_start" ELSE "fail"

HandleException == pc = "except" /\ GoTo(Recovery) /\ UNCHANGED <<flags, proxmox>>

RecoverHaState ==
  /\ pc = "recover_ha"
  /\ PutHaState(seen.ha, "fail", [flags EXCEPT !.recovered = "yes"])

RecoverStart == pc = "recover_start" /\ PostJob("start", "wait_recover", flags)

WaitRecoverJob ==
  /\ pc = "wait_recover"
  /\ AwaitJob("start", "fail", [flags EXCEPT !.recovered = "yes"])

\* Mutant of Fail: a guest that could not be brought back makes it partial.
FailPartial ==
  /\ pc = "fail"
  /\ pc' = "done"
  /\ task' = IF flags.recovered = "no" THEN "partial" ELSE "error"
  /\ UNCHANGED <<guest_type, wanted, seen, flags, proxmox>>

Fail == /\ pc = "fail"
        /\ pc' = "done" /\ task' = "error"
        /\ UNCHANGED <<guest_type, wanted, seen, flags, proxmox>>

-----------------------------------------------------------------------------
(* Proxmox.  A job may fail for reasons of its own; one job at a time has  *)
(* the guest's lock.                                                       *)

Coroutine == <<pc, guest_type, task, wanted, seen, flags>>

JobEnds(j, result) == job' = [job EXCEPT ![j] = result]

\* Stopping or starting a guest under HA may also come down to a request to
\* the HA manager: the source relies on neither.
HandOver(j, state) ==
  /\ ha # "none"
  /\ ha' = state /\ UNCHANGED guest /\ JobEnds(j, "ok")

StopRuns ==
  /\ job["stop"] = "active"
  /\ \/ /\ disk # "writing"
        /\ guest' = "stopped" /\ UNCHANGED ha /\ JobEnds("stop", "ok")
     \/ HandOver("stop", "stopped")
     \/ UNCHANGED <<guest, ha>> /\ JobEnds("stop", "failed")
  /\ UNCHANGED <<disk, before, Coroutine>>

\* A guest that runs cannot be started.
StartRuns ==
  /\ job["start"] = "active"
  /\ \/ /\ disk # "writing" /\ guest = "stopped"
        /\ guest' = "running" /\ UNCHANGED ha /\ JobEnds("start", "ok")
     \/ HandOver("start", "started")
     \/ UNCHANGED <<guest, ha>> /\ JobEnds("start", "failed")
  /\ UNCHANGED <<disk, before, Coroutine>>

\* A guest that runs is not overwritten.
RestoreRuns ==
  /\ job["restore"] = "active"
  /\ \/ /\ disk # "writing" /\ guest = "stopped"
        /\ disk' = "writing" /\ UNCHANGED job
     \/ disk # "writing" /\ JobEnds("restore", "failed") /\ UNCHANGED disk
     \/ disk = "writing" /\ disk' = "new" /\ JobEnds("restore", "ok")
     \/ disk = "writing" /\ disk' = "partial" /\ JobEnds("restore", "failed")
  /\ UNCHANGED <<guest, ha, before, Coroutine>>

\* The HA manager makes the guest what its resource says.
HaManager ==
  /\ disk # "writing"
  /\ \/ ha = "started" /\ guest = "stopped" /\ guest' = "running"
     \/ ha = "stopped" /\ guest = "running" /\ guest' = "stopped"
  /\ UNCHANGED <<disk, ha, job, before, Coroutine>>

-----------------------------------------------------------------------------

Step == \/ ReadStatus \/ ReadResource
        \/ SetHaStopped \/ StopGuest \/ WaitStopJob \/ WaitGuestStopped
        \/ StartRestore \/ WaitRestore
        \/ SetFinalHaState \/ StartGuest \/ WaitStartJob \/ Finish
        \/ HandleException \/ RecoverHaState \/ RecoverStart \/ WaitRecoverJob
        \/ Fail

Proxmox == StopRuns \/ StartRuns \/ RestoreRuns \/ HaManager

Next == Step \/ PollFails \/ Proxmox

Spec == Init /\ [][Next]_vars

\* The coroutine goes on when it can and jobs come to an end.  Polls need not
\* fail, and the HA manager need not act.
Fairness == /\ WF_vars(Step)
            /\ WF_vars(StopRuns) /\ WF_vars(StartRuns) /\ WF_vars(RestoreRuns)
FairSpec == Spec /\ Fairness

-----------------------------------------------------------------------------
(* What a restore promises.                                                *)

\* The HA manager acts on the guest only by a resource that the coroutine
\* finds: a virtual machine, or a container that is not under HA.  A container
\* under HA is restored as if the HA manager were not there, and what it does
\* to the guest meanwhile is no part of the promises below.
HaInSight == Resource = ha

\* "Once the destructive restore has started, never automatically return the
\* guest to a running state when the restore itself did not complete
\* successfully."
NeverRunsHalfRestored ==
  HaInSight /\ guest = "running" => disk \in {"old", "new"}

\* The restore job is created only for a guest that is stopped and that no
\* earlier decision of the HA manager or pending job is about to start.
RestoresStoppedGuest ==
  [][/\ HaInSight
     /\ job["restore"] = "none"
     /\ job'["restore"] = "active"
     => guest = "stopped" /\ ha # "started" /\ job["start"] = "none"]_vars

\* A task that failed before the restore began leaves the guest as it found
\* it, brings it back, or says that it could not.  A container under HA was
\* brought back by starting it, which says nothing of its HA resource; so was
\* a machine whose resource was never read, which HA may keep started then.
BringsBackGuest ==
  task = "error" /\ ~flags.started =>
    CASE flags.recovered = "no" -> TRUE
      [] flags.recovered = "yes" ->
           IF before.ha = "none" THEN guest = "running"
           ELSE HaInSight => ha \in {before.ha, "started"}
      [] flags.recovered = "none" ->
           /\ ha = before.ha
           /\ before.running /\ before.ha = "none" => guest = "running"

\* A successful task means restored disks, and for good a guest in the state
\* that was asked for: running or about to be, or stopped with nothing left
\* to start it.  What a container under HA does then, the task does not know.
SuccessMeansRestored ==
  task = "success" =>
    /\ disk = "new"
    /\ HaInSight => IF wanted
                    THEN guest = "running" \/ ha = "started"
                    ELSE guest = "stopped" /\ ha # "started"

\* Every restore task ends, also when the guest refuses to stop, a poll
\* fails or an answer gets lost.
RestoreEnds == <>(task # "running")
=============================================================================
