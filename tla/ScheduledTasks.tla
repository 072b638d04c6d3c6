--------------------------- MODULE ScheduledTasks ---------------------------
(***************************************************************************)
(* The Task Scheduler: the rows of scheduled_tasks and scheduled_task_runs *)
(* (database.py), the API operations on them (scheduler.py), and the       *)
(* worker that claims, executes and records runs (scheduler_worker.py).    *)
(*                                                                         *)
(* One asyncio loop runs everything, so a handler is interrupted only at   *)
(* an await: what a coroutine does between two awaits holds the loop       *)
(* ("holder").  The process itself may end between any two commits.        *)
(*                                                                         *)
(* A run is the pair <<t, n>>, the n-th run of task t: it stands for the   *)
(* AUTOINCREMENT id of its row, which is never used twice.  A run's record *)
(* holds its row and, in "pc", "repeat" and "for", the coroutine executing *)
(* it with the snapshot of the task that was taken when it was started.    *)
(*                                                                         *)
(* Times are integers, intervals a number of time units.  What a scheduled *)
(* action does is left to ManagedTasks: here it returns or raises.         *)
(***************************************************************************)
EXTENDS Integers

CONSTANTS
  Tasks,        \* ids a row of scheduled_tasks may get (AUTOINCREMENT)
  NoTask,       \* no coroutine holds the loop
  NoTime,       \* SQL NULL in a column holding a time
  Intervals,    \* intervals a repeating task may have
  Starts,       \* values of start_at a user may enter, past ones included
  Latest,       \* the last time datetime can represent
  MaxTime,      \* bound: the clock stops here
  MaxRuns,      \* bound: runs per task
  MaxEdits,     \* bound: saves of the edit form per task
  Faults        \* faults this instance admits: "stop", "audit", "database"

ASSUME NoTimeAssumption == NoTime \notin Int
ASSUME NoTaskAssumption == NoTask \notin Tasks
ASSUME IntervalsAssumption == Intervals \subseteq Nat \ {0}
ASSUME StartsAssumption == Starts \subseteq Nat
ASSUME BoundsAssumption ==
  /\ Latest \in Nat /\ MaxTime \in Nat /\ MaxRuns \in Nat /\ MaxEdits \in Nat
  /\ MaxTime <= Latest
  /\ \A s \in Starts : s <= Latest

VARIABLES
  now,          \* the wall clock
  up,           \* the ProxPilot process is running
  row,          \* row[t]: the row of scheduled_tasks
  used,         \* used[t]: how many runs of t were started so far
  run,          \* run[<<t, n>>]: row and coroutine of a run
  holder        \* the run whose coroutine holds the loop, or NoRun

vars == <<now, up, row, used, run, holder>>

Time == Int
OneShot == 0    \* "repeat" of a task with repeat_enabled = 0
Runs == Tasks \X (1 .. MaxRuns)
NoRun == <<NoTask, 0>>

Row == [state: {"free", "saved", "deleted"}, enabled: BOOLEAN,
        repeat: Intervals \cup {OneShot}, next: Time \cup {NoTime},
        completed: BOOLEAN, last: {"none", "success", "failed"}, rev: Nat]

Run == [result: {"none", "running", "success", "failed", "deleted"},
        trigger: {"scheduled", "manual"}, for: Time \cup {NoTime},
        repeat: Intervals \cup {OneShot}, rev: Nat,
        pc: {"idle", "executing", "recorded", "raised", "reporting"}]

FreeRow == [state |-> "free", enabled |-> FALSE, repeat |-> OneShot,
            next |-> NoTime, completed |-> FALSE, last |-> "none", rev |-> 0]

FreeRun == [result |-> "none", trigger |-> "manual", for |-> NoTime,
            repeat |-> OneShot, rev |-> 0, pc |-> "idle"]

TypeOK == /\ now \in Time
          /\ up \in BOOLEAN
          /\ row \in [Tasks -> Row]
          /\ used \in [Tasks -> 0 .. MaxRuns]
          /\ run \in [Runs -> Run]
          /\ holder \in Runs \cup {NoRun}

Init == /\ now = 0
        /\ up = TRUE
        /\ row = [t \in Tasks |-> FreeRow]
        /\ used = [t \in Tasks |-> 0]
        /\ run = [r \in Runs |-> FreeRun]
        /\ holder = NoRun

-----------------------------------------------------------------------------
(* Helpers.                                                                *)

Saved(t) == row[t].state = "saved"

\* A request handler or a resumed coroutine can be given the loop.
LoopFree == up /\ holder = NoRun

\* The EXISTS subquery: some run row of t says "running".
HasRunningRow(t) ==
  \E r \in Runs : r[1] = t /\ run[r].result = "running"

\* Mutant of Due: the NOT EXISTS condition is missing.
DueWhileRunning(t) == /\ Saved(t)
                      /\ row[t].enabled
                      /\ row[t].next # NoTime /\ row[t].next <= now

\* Mutant of Due: only a time that is right now counts as due.
DueExactly(t) == /\ Saved(t)
                 /\ row[t].enabled
                 /\ row[t].next = now
                 /\ ~HasRunningRow(t)

\* WHERE clause of the poll.
Due(t) == /\ Saved(t)
          /\ row[t].enabled
          /\ row[t].next # NoTime /\ row[t].next <= now
          /\ ~HasRunningRow(t)

\* Mutant of NextRun: one interval is added, missed occurrences are replayed.
NextRunOnce(previous, interval) == previous + interval

\* Mutant of NextRun: the loop stops one addition early.
NextRunTooEarly(previous, interval) ==
  previous + interval * ((now - previous) \div interval)

\* calculate_next_run, repeated while the result is not after "now": the
\* first occurrence after the previous one and after the present.
NextRun(previous, interval) ==
  previous + interval * (((now - previous) \div interval) + 1)

\* The addition of an interval leaves the range of datetime and raises.
Overflows(r) == /\ run[r].trigger = "scheduled"
                /\ run[r].repeat # OneShot
                /\ NextRun(run[r].for, run[r].repeat) > Latest

\* The columns of scheduled_tasks that are the configured schedule.
Schedule(t) == <<row[t].enabled, row[t].next, row[t].completed>>

\* Mutant of AfterManual: the run leaves no trace in the task.
AfterManualUntraced(r, result) == row[r[1]]

\* Mutant of AfterManual: the run completes a one-time task.
AfterManualConsuming(r, result) ==
  [row[r[1]] EXCEPT !.last = result, !.completed = run[r].repeat = OneShot]

\* The row of a task after a manual run: the schedule is left alone.
AfterManual(r, result) == [row[r[1]] EXCEPT !.last = result]

\* Mutant of AfterScheduled: a failed run does not schedule the next one.
AfterScheduledLosingFailed(r, result) ==
  [row[r[1]] EXCEPT !.last = result,
                    !.next = IF result = "success" /\ run[r].repeat # OneShot
                             THEN NextRun(run[r].for, run[r].repeat)
                             ELSE NoTime]

\* The row of a task after a scheduled run: enabled, next_run and
\* completed_at are rewritten from the snapshot taken with the claim.
AfterScheduled(r, result) ==
  LET repeats == run[r].repeat # OneShot
  IN [row[r[1]] EXCEPT !.last = result,
                       !.enabled = repeats,
                       !.next = IF repeats
                                THEN NextRun(run[r].for, run[r].repeat)
                                ELSE NoTime,
                       !.completed = ~repeats]

\* The one transaction of _finish_run_*: both UPDATEs, which match no row
\* once the task was deleted (its runs go with it by cascade).
Record(r, result, pc) ==
  IF Saved(r[1])
  THEN /\ row' = [row EXCEPT ![r[1]] = IF run[r].trigger = "manual"
                                       THEN AfterManual(r, result)
                                       ELSE AfterScheduled(r, result)]
       /\ run' = [run EXCEPT ![r].result = result, ![r].pc = pc]
  ELSE /\ row' = row
       /\ run' = [run EXCEPT ![r].pc = pc]

-----------------------------------------------------------------------------
(* Operations of users: scheduler.py behind the /api/scheduler routes.     *)

CreateTask(t, repeat, start, enabled) ==
  /\ LoopFree
  /\ row[t].state = "free"
  /\ row' = [row EXCEPT ![t] = [FreeRow EXCEPT !.state = "saved",
                                               !.repeat = repeat,
                                               !.next = start,
                                               !.enabled = enabled]]
  /\ UNCHANGED <<now, up, used, run, holder>>

\* Saving the edit form replaces the schedule, also while a run executes.
UpdateTask(t, repeat, start, enabled) ==
  /\ LoopFree
  /\ Saved(t)
  /\ row[t].rev < MaxEdits
  /\ row' = [row EXCEPT ![t].repeat = repeat, ![t].next = start,
                        ![t].enabled = enabled, ![t].completed = FALSE,
                        ![t].rev = @ + 1]
  /\ UNCHANGED <<now, up, used, run, holder>>

\* The toggle touches nothing but "enabled": a completed one-time task that
\* is enabled again keeps next_run NULL.
SetEnabled(t, enabled) ==
  /\ LoopFree
  /\ Saved(t)
  /\ row[t].enabled # enabled
  /\ row' = [row EXCEPT ![t].enabled = enabled]
  /\ UNCHANGED <<now, up, used, run, holder>>

\* ON DELETE CASCADE removes the run rows; a coroutine goes on executing.
DeleteTask(t) ==
  /\ LoopFree
  /\ Saved(t)
  /\ row' = [row EXCEPT ![t] = [FreeRow EXCEPT !.state = "deleted"]]
  /\ run' = [r \in Runs |-> IF r[1] = t /\ run[r].result # "none"
                            THEN [run[r] EXCEPT !.result = "deleted"]
                            ELSE run[r]]
  /\ UNCHANGED <<now, up, used, holder>>

\* Mutant of StartManual: running executions are not looked for.
StartManualRegardless(t) ==
  /\ LoopFree
  /\ Saved(t)
  /\ used[t] < MaxRuns
  /\ used' = [used EXCEPT ![t] = @ + 1]
  /\ run' = [run EXCEPT ![<<t, used[t] + 1>>] =
               [result |-> "running", trigger |-> "manual", for |-> NoTime,
                repeat |-> row[t].repeat, rev |-> row[t].rev,
                pc |-> "executing"]]
  /\ UNCHANGED <<now, up, row, holder>>

\* "Run now": refused while a run row of the task says "running".
StartManual(t) ==
  /\ LoopFree
  /\ Saved(t)
  /\ ~HasRunningRow(t)
  /\ used[t] < MaxRuns
  /\ used' = [used EXCEPT ![t] = @ + 1]
  /\ run' = [run EXCEPT ![<<t, used[t] + 1>>] =
               [result |-> "running", trigger |-> "manual", for |-> NoTime,
                repeat |-> row[t].repeat, rev |-> row[t].rev,
                pc |-> "executing"]]
  /\ UNCHANGED <<now, up, row, holder>>

-----------------------------------------------------------------------------
(* The worker: scheduler_loop and the coroutines it creates.               *)

\* One poll claims every due task in one BEGIN IMMEDIATE transaction and
\* creates a coroutine for each, which keeps the task as it was read.
ClaimDueTasks ==
  LET due == {t \in Tasks : Due(t)}
      Claims(r) == r[1] \in due /\ r[2] = used[r[1]] + 1
  IN /\ LoopFree
     /\ due # {}
     /\ \A t \in due : used[t] < MaxRuns
     /\ row' = [t \in Tasks |-> IF t \in due
                                THEN [row[t] EXCEPT !.next = NoTime]
                                ELSE row[t]]
     /\ used' = [t \in Tasks |-> IF t \in due THEN used[t] + 1 ELSE used[t]]
     /\ run' = [r \in Runs |->
                  IF Claims(r)
                  THEN [result |-> "running", trigger |-> "scheduled",
                        for |-> row[r[1]].next, repeat |-> row[r[1]].repeat,
                        rev |-> row[r[1]].rev, pc |-> "executing"]
                  ELSE run[r]]
     /\ UNCHANGED <<now, up, holder>>

\* Mutant of RecordSuccess: a partly successful batch is recorded as such,
\* which the columns do not admit.
RecordPartial(r) ==
  /\ LoopFree
  /\ run[r].pc = "executing"
  /\ ~Overflows(r)
  /\ Record(r, "partial", "recorded")
  /\ holder' = r
  /\ UNCHANGED <<now, up, used>>

\* The action returned and the success was committed.
RecordSuccess(r) ==
  /\ LoopFree
  /\ run[r].pc = "executing"
  /\ ~Overflows(r)
  /\ Record(r, "success", "recorded")
  /\ holder' = r
  /\ UNCHANGED <<now, up, used>>

\* Mutant of ExecutionRaises: the exception is of a kind not caught.
ExecutionDies(r) ==
  /\ LoopFree
  /\ run[r].pc = "executing"
  /\ run' = [run EXCEPT ![r].pc = "idle"]
  /\ UNCHANGED <<now, up, row, used, holder>>

\* The action raised, or recording its success did: the except clause runs.
ExecutionRaises(r) ==
  /\ LoopFree
  /\ run[r].pc = "executing"
  /\ run' = [run EXCEPT ![r].pc = "raised"]
  /\ holder' = r
  /\ UNCHANGED <<now, up, row, used>>

\* Mutant of RecordFailure: nothing is written.
RecordFailureNot(r) ==
  /\ up
  /\ run[r].pc = "raised"
  /\ run' = [run EXCEPT ![r].pc = "reporting"]
  /\ UNCHANGED <<now, up, row, used, holder>>

\* _finish_run_failed, or the except clause of a manual execution.
RecordFailure(r) ==
  /\ up
  /\ run[r].pc = "raised"
  /\ ~Overflows(r)
  /\ Record(r, "failed", "reporting")
  /\ UNCHANGED <<now, up, used, holder>>

\* Recording the failure raises too: nothing catches that, the coroutine is
\* gone and the rows stay as they are.
FailureNotRecorded(r) ==
  /\ up
  /\ run[r].pc = "raised"
  /\ Overflows(r) \/ "database" \in Faults
  /\ run' = [run EXCEPT ![r].pc = "idle"]
  /\ holder' = NoRun
  /\ UNCHANGED <<now, up, row, used>>

\* Notification (whose errors are swallowed) and audit event end the run.
ReportRun(r) ==
  /\ up
  /\ run[r].pc \in {"recorded", "reporting"}
  /\ run' = [run EXCEPT ![r].pc = "idle"]
  /\ holder' = NoRun
  /\ UNCHANGED <<now, up, row, used>>

\* write_audit_event raises: inside the try block the except clause takes
\* over, inside the except clause nothing does.
AuditRaises(r) ==
  /\ up
  /\ "audit" \in Faults
  /\ \/ /\ run[r].pc = "recorded"
        /\ run' = [run EXCEPT ![r].pc = "raised"]
        /\ holder' = holder
     \/ /\ run[r].pc = "reporting"
        /\ run' = [run EXCEPT ![r].pc = "idle"]
        /\ holder' = NoRun
  /\ UNCHANGED <<now, up, row, used>>

-----------------------------------------------------------------------------
(* The process and the clock.                                              *)

\* A crash, or an ordinary stop: stop_scheduler_worker waits for the poll
\* loop alone, the coroutines of running tasks are cancelled with the loop.
ProcessEnds ==
  /\ "stop" \in Faults
  /\ up
  /\ up' = FALSE
  /\ run' = [r \in Runs |-> [run[r] EXCEPT !.pc = "idle"]]
  /\ holder' = NoRun
  /\ UNCHANGED <<now, row, used>>

\* initialize_application starts the worker and looks at no run.
ProcessStarts ==
  /\ ~up
  /\ up' = TRUE
  /\ UNCHANGED <<now, row, used, run, holder>>

Tick == /\ now < MaxTime
        /\ now' = now + 1
        /\ UNCHANGED <<up, row, used, run, holder>>

-----------------------------------------------------------------------------

UserSteps(t) ==
  \/ \E repeat \in Intervals \cup {OneShot}, start \in Starts, e \in BOOLEAN :
       CreateTask(t, repeat, start, e) \/ UpdateTask(t, repeat, start, e)
  \/ \E e \in BOOLEAN : SetEnabled(t, e)
  \/ DeleteTask(t)
  \/ StartManual(t)

Finishes(r) == \/ RecordSuccess(r) \/ ExecutionRaises(r)

Completes(r) == \/ RecordFailure(r) \/ FailureNotRecorded(r)
                \/ ReportRun(r) \/ AuditRaises(r)

Next == \/ \E t \in Tasks : UserSteps(t)
        \/ ClaimDueTasks
        \/ \E r \in Runs : Finishes(r) \/ Completes(r)
        \/ ProcessEnds
        \/ ProcessStarts
        \/ Tick

Spec == Init /\ [][Next]_vars

\* The loop polls every five seconds, every wait of an execution has a
\* timeout, a coroutine holding the loop runs to its next await, the
\* container restarts the process and time passes.  Users owe nothing.
Fairness == /\ WF_vars(ClaimDueTasks)
            /\ \A r \in Runs : WF_vars(Finishes(r)) /\ WF_vars(Completes(r))
            /\ WF_vars(ProcessStarts)
            /\ WF_vars(Tick)

FairSpec == Spec /\ Fairness

-----------------------------------------------------------------------------
(* What the scheduler promises.                                            *)

Live(r) == run[r].pc # "idle"
Recorded(r) == run[r].result \in {"success", "failed"}

\* A task is executed by one coroutine at a time, whatever polls, "Run now"
\* requests, deletions, failed writes and restarts happen around it; and
\* while it awaits its action, its run row says so unless it was deleted.
OneExecution ==
  /\ \A r, s \in Runs : Live(r) /\ Live(s) /\ r[1] = s[1] => r = s
  /\ \A r \in Runs : run[r].pc = "executing" /\ Saved(r[1]) =>
                       run[r].result = "running"

\* What OneExecution rests on.  A claim keeps the time it was for; a live
\* run says "running" unless it holds the loop or its task was deleted; it
\* has passed its await only if it holds the loop; numbers of runs that were
\* not started are free, and so is every number of an id not yet given.
Snapshots ==
  \A r \in Runs : run[r].trigger = "scheduled" => run[r].for \in Time

LiveRuns ==
  \A r \in Runs :
    /\ Live(r) /\ Saved(r[1]) => run[r].result = "running" \/ holder = r
    /\ Live(r) /\ run[r].pc # "executing" => holder = r

Numbering ==
  /\ \A r \in Runs : r[2] > used[r[1]] => run[r] = FreeRun
  /\ \A t \in Tasks : row[t].state = "free" => used[t] = 0

SingleFlight == /\ TypeOK /\ Snapshots
                /\ OneExecution /\ LiveRuns /\ Numbering

\* As long as nobody saves the task, its scheduled runs are for ever later
\* occurrences: none is executed twice, also when a run recorded as success
\* is recorded again as failed.
ScheduleAdvances ==
  \A t \in Tasks : \A n, m \in 1 .. MaxRuns :
    LET a == run[<<t, n>>]
        b == run[<<t, m>>]
    IN /\ n < m
       /\ a.trigger = "scheduled" /\ b.trigger = "scheduled"
       /\ a.rev = b.rev
       => a.for < b.for

\* last_result, shown in the task list, is the result of the latest recorded
\* run in the run table, be it scheduled or manual.
LastResultIsLatest ==
  \A t \in Tasks : Saved(t) =>
    \/ /\ row[t].last = "none"
       /\ \A n \in 1 .. MaxRuns : ~Recorded(<<t, n>>)
    \/ \E n \in 1 .. MaxRuns :
         /\ Recorded(<<t, n>>)
         /\ row[t].last = run[<<t, n>>].result
         /\ \A m \in (n + 1) .. MaxRuns : ~Recorded(<<t, m>>)

\* A schedule the worker sets lies in the future: occurrences missed while
\* the task ran, waited or the process was down are skipped, not replayed.
NoBacklog ==
  [][\A t \in Tasks :
       /\ row'[t].next # row[t].next
       /\ row'[t].next # NoTime
       /\ row'[t].rev = row[t].rev /\ row[t].state = "saved"
       => row'[t].next > now]_vars

\* From its start to its end a "Run now" execution leaves the schedule as
\* configured: no poll consumes an occurrence meanwhile and recording the
\* run does not touch it; only the user's own edits do.
ManualRunFreezesSchedule ==
  [][\A r \in Runs :
       /\ Saved(r[1]) /\ Saved(r[1])'
       /\ Live(r) /\ run[r].trigger = "manual"
       /\ row'[r[1]].rev = row[r[1]].rev
       => /\ row'[r[1]].next = row[r[1]].next
          /\ row'[r[1]].completed = row[r[1]].completed]_vars

\* A run row that says "running", the reason to refuse "Run now" with "This
\* scheduled task is already running." and to skip the task in a poll, stands
\* for a coroutine that executes it.
RunningMeansExecuting ==
  \A r \in Runs : run[r].result = "running" => Live(r)

\* A task that was never edited has no next execution only while a scheduled
\* run of it is under way or once it completed: failed runs lose nothing.
NotOrphaned ==
  \A t \in Tasks :
    /\ Saved(t) /\ row[t].rev = 0 /\ row[t].next = NoTime
    => \/ row[t].repeat = OneShot /\ row[t].completed
       \/ \E n \in 1 .. MaxRuns : /\ Live(<<t, n>>)
                                  /\ run[<<t, n>>].trigger = "scheduled"

\* A step that records the result of a run.
Recording(r) == run[r].result = "running" /\ Recorded(r)'

\* The end of a run leaves alone what users did to the schedule since the run
\* started: it enables no task, and no saved schedule is overwritten.
UserChangesSurviveRun ==
  [][\A r \in Runs : Recording(r) =>
       /\ row'[r[1]].enabled => row[r[1]].enabled
       /\ run[r].rev # row[r[1]].rev => Schedule(r[1])' = Schedule(r[1])]_vars

\* Every enabled task whose time has come is claimed, unless the user takes
\* that back, or the runs this instance can count are used up.
DueTaskIsClaimed ==
  \A t \in Tasks :
    (Saved(t) /\ row[t].enabled /\ row[t].next # NoTime /\ row[t].next <= now)
      ~> \/ ~Saved(t) \/ ~row[t].enabled
         \/ row[t].next = NoTime \/ row[t].next > now
         \/ used[t] = MaxRuns

\* Every run row leaves "running".
RunEnds == \A r \in Runs : run[r].result = "running"
                             ~> run[r].result # "running"
=============================================================================
