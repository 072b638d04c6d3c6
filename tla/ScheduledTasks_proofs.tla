----------------------- MODULE ScheduledTasks_proofs -----------------------
(***************************************************************************)
(* Proofs about ScheduledTasks, for any tasks, times, faults and bounds.   *)
(***************************************************************************)
EXTENDS ScheduledTasks, TLAPS

\* The components of a run, and the value no run has.
LEMMA RunPair ==
  ASSUME NEW r \in Runs
  PROVE  /\ r[1] \in Tasks /\ r[2] \in 1 .. MaxRuns
         /\ r = <<r[1], r[2]>>
         /\ r # NoRun
PROOF BY NoTaskAssumption DEF Runs, NoRun

\* The next run is a time, and it lies in the future.
LEMMA NextRunInFuture ==
  ASSUME NEW previous \in Int, NEW interval \in Nat \ {0}, now \in Int
  PROVE  /\ NextRun(previous, interval) \in Int
         /\ NextRun(previous, interval) > now
<1> DEFINE late == now - previous
           missed == late \div interval
<1>1. late \in Int
  OBVIOUS
<1>2. missed \in Int /\ late < interval * (missed + 1)
  BY <1>1
<1>3. interval * (missed + 1) \in Int
  BY <1>2
<1>4. NextRun(previous, interval) = previous + interval * (missed + 1)
  BY DEF NextRun
<1>5. QED
  BY <1>1, <1>2, <1>3, <1>4

\* Whatever the run and its snapshot, recording a result yields a row.
LEMMA RecordedRowType ==
  ASSUME TypeOK, Snapshots, NEW r \in Runs,
         NEW result \in {"success", "failed"}
  PROVE  /\ AfterManual(r, result) \in Row
         /\ run[r].trigger # "manual" => AfterScheduled(r, result) \in Row
<1>1. row[r[1]] \in Row /\ run[r] \in Run
  BY RunPair DEF TypeOK
<1>2. AfterManual(r, result) \in Row
  BY <1>1 DEF AfterManual, Row
<1>3. ASSUME run[r].trigger # "manual"
      PROVE  AfterScheduled(r, result) \in Row
  <2>1. run[r].for \in Int /\ now \in Int
    BY <1>1, <1>3 DEF Snapshots, Run, Time, TypeOK
  <2>2. run[r].repeat # OneShot =>
          NextRun(run[r].for, run[r].repeat) \in Int
    <3>1. run[r].repeat \in Intervals \cup {0}
      BY <1>1 DEF Run, OneShot
    <3>2. QED
      BY <2>1, <3>1, IntervalsAssumption, NextRunInFuture DEF OneShot
  <2>3. QED
    BY <1>1, <2>2 DEF AfterScheduled, Row, Time
<1>4. QED
  BY <1>2, <1>3

\* What recording a result does, seen from outside.
LEMMA RecordEffect ==
  ASSUME TypeOK, Snapshots, NEW r \in Runs,
         NEW result \in {"success", "failed"},
         NEW pc \in {"recorded", "reporting"},
         Record(r, result, pc)
  PROVE  /\ row' \in [Tasks -> Row]
         /\ run' \in [Runs -> Run]
         /\ \A t \in Tasks : row'[t].state = row[t].state
         /\ \A s \in Runs \ {r} : run'[s] = run[s]
         /\ run'[r].pc = pc
         /\ run'[r].for = run[r].for /\ run'[r].trigger = run[r].trigger
<1>1. r[1] \in Tasks /\ run[r] \in Run /\ row[r[1]] \in Row
  BY RunPair DEF TypeOK
<1>2. CASE Saved(r[1])
  <2> DEFINE new == IF run[r].trigger = "manual" THEN AfterManual(r, result)
                                                ELSE AfterScheduled(r, result)
  <2>1. /\ row' = [row EXCEPT ![r[1]] = new]
        /\ new \in Row
        /\ new.state = row[r[1]].state
    <3>1. row' = [row EXCEPT ![r[1]] = new]
      BY <1>2 DEF Record
    <3>2. new \in Row
      BY RecordedRowType
    <3>3. new.state = row[r[1]].state
      BY <1>1 DEF AfterManual, AfterScheduled, Row
    <3>4. QED
      BY <3>1, <3>2, <3>3
  <2> HIDE DEF new
  <2>2. run' = [run EXCEPT ![r].result = result, ![r].pc = pc]
    BY <1>2 DEF Record
  <2>3. QED
    BY <1>1, <2>1, <2>2 DEF TypeOK, Run
<1>3. CASE ~Saved(r[1])
  BY <1>1, <1>3 DEF Record, TypeOK, Run
<1>4. QED
  BY <1>2, <1>3

\* The invariant holds of an empty database and a process that has just
\* started.
LEMMA SingleFlightInit == Init => SingleFlight
<1>1. FreeRow \in Row /\ FreeRun \in Run
  BY DEF FreeRow, FreeRun, Row, Run, OneShot
<1>2. QED
  BY <1>1, BoundsAssumption
     DEF Init, SingleFlight, TypeOK, Snapshots, OneExecution, LiveRuns, Live,
         Numbering, Saved, FreeRow, FreeRun, Time

\* A run that is live and whose task has no running row is the one holding
\* the loop: while the loop is free, nothing else executes the task.
LEMMA NobodyExecutes ==
  ASSUME SingleFlight, LoopFree, NEW t \in Tasks, Saved(t), ~HasRunningRow(t)
  PROVE  \A r \in Runs : r[1] = t => ~Live(r)
BY RunPair DEF SingleFlight, LiveRuns, HasRunningRow, LoopFree

\* The routes keep the invariant: create, update, enable, disable, delete and
\* Run now, whose check of running rows is what admits one execution.
LEMMA UserStepSingleFlight ==
  ASSUME SingleFlight, NEW t \in Tasks, UserSteps(t)
  PROVE  SingleFlight'
<1> USE DEF SingleFlight
<1>0. /\ row[t] \in Row /\ FreeRow \in Row
      /\ FreeRun \in Run
  BY DEF TypeOK, FreeRow, FreeRun, Row, Run, OneShot
<1>1. ASSUME NEW repeat \in Intervals \cup {OneShot}, NEW start \in Starts,
             NEW e \in BOOLEAN, CreateTask(t, repeat, start, e)
      PROVE  SingleFlight'
  <2>1. TypeOK'
    <3> DEFINE new == [FreeRow EXCEPT !.state = "saved", !.repeat = repeat,
                                      !.next = start, !.enabled = e]
    <3>1. start \in Int
      BY StartsAssumption
    <3>2. new \in Row
      BY <1>0, <3>1 DEF Row, Time
    <3>3. row' = [row EXCEPT ![t] = new]
      BY <1>1 DEF CreateTask
    <3> HIDE DEF new
    <3>4. QED
      BY <1>1, <3>2, <3>3 DEF CreateTask, TypeOK
  <2>2. Snapshots' /\ Numbering'
    BY <1>0, <1>1 DEF CreateTask, TypeOK, Row, FreeRow, Snapshots, Numbering
  <2>3. \A r \in Runs : r[1] = t => run[r] = FreeRun
    BY <1>1, RunPair DEF CreateTask, Numbering, TypeOK
  <2>4. OneExecution' /\ LiveRuns'
    <3>1. \A r \in Runs : Live(r) => r[1] # t
      BY <2>3 DEF Live, FreeRun
    <3>2. \A u \in Tasks \ {t} : row'[u] = row[u]
      BY <1>1 DEF CreateTask, TypeOK
    <3>3. \A r \in Runs : Live(r)' <=> Live(r)
      BY <1>1 DEF CreateTask, Live
    <3>4. QED
      BY <1>1, <3>1, <3>2, <3>3, RunPair
         DEF CreateTask, OneExecution, LiveRuns, Live, Saved
  <2>5. QED
    BY <2>1, <2>2, <2>4
<1>2. ASSUME NEW repeat \in Intervals \cup {OneShot}, NEW start \in Starts,
             NEW e \in BOOLEAN, UpdateTask(t, repeat, start, e)
      PROVE  SingleFlight'
  <2>1. TypeOK'
    BY <1>0, <1>2, StartsAssumption DEF UpdateTask, TypeOK, Row, Time
  <2>2. \A u \in Tasks : row'[u].state = row[u].state
    BY <1>0, <1>2 DEF UpdateTask, TypeOK, Row
  <2>3. QED
    BY <1>2, <2>1, <2>2, RunPair
       DEF UpdateTask, Snapshots, OneExecution, LiveRuns, Live, Saved,
           Numbering
<1>3. ASSUME NEW e \in BOOLEAN, SetEnabled(t, e)
      PROVE  SingleFlight'
  <2>1. TypeOK'
    BY <1>0, <1>3 DEF SetEnabled, TypeOK, Row
  <2>2. \A u \in Tasks : row'[u].state = row[u].state
    BY <1>0, <1>3 DEF SetEnabled, TypeOK, Row
  <2>3. QED
    BY <1>3, <2>1, <2>2, RunPair
       DEF SetEnabled, Snapshots, OneExecution, LiveRuns, Live, Saved,
           Numbering
<1>4. CASE DeleteTask(t)
  <2>1. \A r \in Runs : /\ run'[r].pc = run[r].pc
                        /\ run'[r].trigger = run[r].trigger
                        /\ run'[r].for = run[r].for
                        /\ run'[r] \in Run
                        /\ run[r].result = "none" => run'[r] = run[r]
                        /\ r[1] # t => run'[r] = run[r]
    BY <1>4 DEF DeleteTask, TypeOK, Run
  <2>2. \A u \in Tasks : /\ row'[u] \in Row
                         /\ row'[u].state = "free" <=> row[u].state = "free"
                         /\ row'[u].state = "saved" <=>
                              row[u].state = "saved" /\ u # t
    BY <1>0, <1>4 DEF DeleteTask, TypeOK, Row, FreeRow, Saved
  <2>3. TypeOK' /\ Snapshots'
    BY <1>4, <2>1, <2>2 DEF DeleteTask, TypeOK, Snapshots
  <2>4. OneExecution' /\ LiveRuns'
    BY <1>4, <2>1, <2>2, RunPair
       DEF DeleteTask, OneExecution, LiveRuns, Live, Saved
  <2>5. Numbering'
    BY <1>4, <2>1, <2>2 DEF DeleteTask, Numbering, FreeRun
  <2>6. QED
    BY <2>3, <2>4, <2>5
<1>5. CASE StartManual(t)
  <2> DEFINE new == <<t, used[t] + 1>>
  <2>1. new \in Runs /\ used[t] \in Nat
    BY <1>5, BoundsAssumption DEF StartManual, Runs, TypeOK
  <2>2. /\ run'[new].result = "running" /\ run'[new].pc = "executing"
        /\ run'[new].trigger = "manual"
        /\ run'[new] \in Run
        /\ \A r \in Runs \ {new} : run'[r] = run[r]
    BY <1>0, <1>5, <2>1 DEF StartManual, TypeOK, Run, Row
  <2>3. \A r \in Runs : r[1] = t => ~Live(r)
    BY <1>5, NobodyExecutes DEF StartManual
  <2>4. TypeOK' /\ Snapshots'
    BY <1>5, <2>1, <2>2, BoundsAssumption DEF StartManual, TypeOK, Snapshots
  <2>5. OneExecution' /\ LiveRuns'
    BY <1>5, <2>1, <2>2, <2>3, RunPair
       DEF StartManual, OneExecution, LiveRuns, Live, Saved
  <2>6. Numbering'
    BY <1>0, <1>5, <2>1, <2>2, RunPair
       DEF StartManual, Numbering, TypeOK, Saved
  <2>7. QED
    BY <2>4, <2>5, <2>6
<1>6. QED
  BY <1>1, <1>2, <1>3, <1>4, <1>5 DEF UserSteps

\* claim_due_tasks keeps the invariant: it starts a run only of a task that has
\* no row marked running.
LEMMA ClaimSingleFlight ==
  ASSUME SingleFlight, ClaimDueTasks
  PROVE  SingleFlight'
<1> USE DEF SingleFlight
<1> DEFINE due == {t \in Tasks : Due(t)}
           Claims(r) == r[1] \in due /\ r[2] = used[r[1]] + 1
<1>1. \A t \in Tasks :
        /\ used[t] \in Nat
        /\ t \in due => /\ used'[t] = used[t] + 1
                        /\ row'[t] = [row[t] EXCEPT !.next = NoTime]
                        /\ Saved(t) /\ ~HasRunningRow(t)
                        /\ row[t].next \in Time
                        /\ used[t] < MaxRuns
        /\ t \notin due => used'[t] = used[t] /\ row'[t] = row[t]
  BY DEF ClaimDueTasks, TypeOK, Due, Row
<1>2. \A t \in Tasks : /\ row'[t] \in Row
                       /\ row'[t].state = row[t].state
  <2>1. \A t \in Tasks : row[t] \in Row
    BY DEF TypeOK
  <2>2. \A t \in Tasks : row'[t] = row[t]
                         \/ row'[t] = [row[t] EXCEPT !.next = NoTime]
    BY <1>1
  <2>3. \A old \in Row : LET new == [old EXCEPT !.next = NoTime]
                          IN new \in Row /\ new.state = old.state
    BY DEF Row
  <2>4. QED
    BY <2>1, <2>2, <2>3
<1>3. \A r \in Runs :
        /\ Claims(r) => /\ run'[r].result = "running"
                        /\ run'[r].pc = "executing"
                        /\ run'[r].for \in Time
                        /\ run'[r] \in Run
        /\ ~Claims(r) => run'[r] = run[r]
  BY <1>1, RunPair DEF ClaimDueTasks, TypeOK, Run, Row
<1>4. \A r \in Runs : r[1] \in due => ~Live(r)
  BY NobodyExecutes, <1>1, RunPair DEF ClaimDueTasks
<1> HIDE DEF due
<1>5. TypeOK' /\ Snapshots'
  <2>1. used' \in [Tasks -> 0 .. MaxRuns]
    BY <1>1, BoundsAssumption DEF ClaimDueTasks, TypeOK
  <2>2. row' \in [Tasks -> Row] /\ run' \in [Runs -> Run]
    BY <1>2, <1>3 DEF ClaimDueTasks, TypeOK
  <2>3. QED
    BY <1>3, <2>1, <2>2 DEF ClaimDueTasks, TypeOK, Snapshots
<1>6. OneExecution'
  <2>1. ASSUME NEW r \in Runs, NEW s \in Runs, Live(r)', Live(s)',
               r[1] = s[1]
        PROVE  r = s
    BY <1>3, <1>4, <2>1, RunPair DEF OneExecution, Live
  <2>2. QED
    BY <1>2, <1>3, <2>1, RunPair DEF OneExecution, Saved
<1>7. LiveRuns'
  <2>1. holder' = holder
    BY DEF ClaimDueTasks
  <2>2. ASSUME NEW r \in Runs, Live(r)'
        PROVE  /\ Saved(r[1])' => run'[r].result = "running" \/ holder' = r
               /\ run'[r].pc # "executing" => holder' = r
    BY <1>2, <1>3, <2>1, <2>2, RunPair DEF LiveRuns, Live, Saved
  <2>3. QED
    BY <2>2 DEF LiveRuns
<1>8. Numbering'
  <2>1. ASSUME NEW r \in Runs, r[2] > used'[r[1]]
        PROVE  run'[r] = FreeRun
    <3>1. r[2] > used[r[1]] /\ ~Claims(r)
      <4>1. /\ r[1] \in Tasks /\ r[2] \in Int
            /\ used[r[1]] \in Int
            /\ \/ used'[r[1]] = used[r[1]] + 1
               \/ used'[r[1]] = used[r[1]] /\ r[1] \notin due
        <5>1. r[1] \in Tasks /\ r[2] \in Int
          BY RunPair
        <5>2. \A t \in Tasks :
                /\ used[t] \in Int
                /\ \/ used'[t] = used[t] + 1
                   \/ used'[t] = used[t] /\ t \notin due
          BY DEF ClaimDueTasks, TypeOK, due
        <5>3. QED
          BY <5>1, <5>2
      <4> DEFINE k == r[2]
                 before == used[r[1]]
                 after == used'[r[1]]
      <4>2. k > before /\ ~(k = before + 1 /\ after = before + 1)
        <5>1. k \in Int /\ before \in Int /\ k > after
              /\ (after = before + 1 \/ after = before)
          BY <2>1, <4>1
        <5> HIDE DEF k, before, after
        <5>2. QED
          BY <5>1
      <4>3. QED
        BY <1>1, <4>1, <4>2
    <3>2. QED
      BY <1>3, <3>1 DEF Numbering
  <2>2. ASSUME NEW t \in Tasks, row'[t].state = "free"
        PROVE  used'[t] = 0
    BY <1>1, <1>2, <2>2 DEF Numbering, Saved
  <2>3. QED
    BY <2>1, <2>2 DEF Numbering
<1>9. QED
  BY <1>5, <1>6, <1>7, <1>8

\* A step of the coroutine of one run, seen from outside, keeps the parts of
\* the invariant that speak of several runs.
LEMMA CoroutineSingleFlight ==
  ASSUME SingleFlight, NEW r \in Runs, Live(r),
         \/ LoopFree
         \/ run[r].pc # "executing",
         row' \in [Tasks -> Row], run' \in [Runs -> Run],
         UNCHANGED <<now, up, used>>,
         \A t \in Tasks : row'[t].state = row[t].state,
         \A s \in Runs \ {r} : run'[s] = run[s],
         run'[r].for = run[r].for, run'[r].trigger = run[r].trigger,
         run'[r].pc # "executing",
         holder' = IF Live(r)' THEN r ELSE NoRun
  PROVE  SingleFlight'
<1> USE DEF SingleFlight
<1>1. TypeOK' /\ Snapshots'
  BY DEF TypeOK, Snapshots
<1>2. \A s \in Runs : Live(s)' => Live(s)
  BY DEF Live
<1>3. OneExecution'
  BY <1>2, RunPair DEF OneExecution, Saved
<1>4. LiveRuns'
  <2>1. \A s \in Runs \ {r} : holder # s
    BY RunPair DEF LiveRuns, LoopFree
  <2>2. ASSUME NEW s \in Runs, Live(s)'
        PROVE  /\ Saved(s[1])' => run'[s].result = "running" \/ holder' = s
               /\ run'[s].pc # "executing" => holder' = s
    <3>1. CASE s = r
      BY <2>2, <3>1
    <3>2. CASE s # r
      BY <2>1, <2>2, <3>2, <1>2, RunPair DEF LiveRuns, Saved, Live
    <3>3. QED
      BY <3>1, <3>2
  <2>3. QED
    BY <2>2 DEF LiveRuns
<1>5. Numbering'
  <2>1. ~(r[2] > used[r[1]])
    BY DEF Numbering, Live, FreeRun
  <2>2. QED
    BY <2>1 DEF Numbering
<1>6. QED
  BY <1>1, <1>3, <1>4, <1>5

\* A run's coroutine keeps the invariant, whether it records a result, fails
\* to, or reports.
LEMMA RunStepSingleFlight ==
  ASSUME SingleFlight, NEW r \in Runs, Finishes(r) \/ Completes(r)
  PROVE  SingleFlight'
<1> USE DEF SingleFlight
<1>0. run[r] \in Run
  BY DEF TypeOK
<1>1. CASE RecordSuccess(r)
  BY <1>1, RecordEffect, CoroutineSingleFlight DEF RecordSuccess, Live
<1>2. CASE RecordFailure(r)
  <2>1. holder = r
    BY <1>2 DEF RecordFailure, LiveRuns, Live
  <2>2. QED
    BY <1>2, <2>1, RecordEffect, CoroutineSingleFlight
       DEF RecordFailure, Live
<1>3. ASSUME NEW pc \in {"idle", "raised"},
             run' = [run EXCEPT ![r].pc = pc],
             Live(r), LoopFree \/ run[r].pc # "executing",
             UNCHANGED <<now, up, row, used>>,
             holder' = IF pc = "idle" THEN NoRun ELSE r
      PROVE  SingleFlight'
  <2>1. /\ run' \in [Runs -> Run]
        /\ \A s \in Runs \ {r} : run'[s] = run[s]
        /\ run'[r].pc = pc
        /\ run'[r].for = run[r].for /\ run'[r].trigger = run[r].trigger
    BY <1>0, <1>3 DEF TypeOK, Run
  <2>2. row' \in [Tasks -> Row] /\ \A t \in Tasks : row'[t].state = row[t].state
    BY <1>3 DEF TypeOK
  <2>3. holder' = IF Live(r)' THEN r ELSE NoRun
    BY <1>3, <2>1 DEF Live
  <2>4. QED
    BY <1>3, <2>1, <2>2, <2>3, CoroutineSingleFlight
<1>4. CASE ExecutionRaises(r)
  BY <1>3, <1>4 DEF ExecutionRaises, Live
<1>5. CASE FailureNotRecorded(r)
  BY <1>3, <1>5 DEF FailureNotRecorded, Live
<1>6. CASE ReportRun(r)
  BY <1>3, <1>6 DEF ReportRun, Live
<1>7. CASE AuditRaises(r)
  <2>1. holder = r
    BY <1>7 DEF AuditRaises, LiveRuns, Live
  <2>2. QED
    BY <1>3, <1>7, <2>1 DEF AuditRaises, Live
<1>8. QED
  BY <1>1, <1>2, <1>4, <1>5, <1>6, <1>7 DEF Finishes, Completes

\* Stops, restarts and the passing of time keep the invariant: a stop leaves
\* rows behind but no coroutine.
LEMMA ProcessStepSingleFlight ==
  ASSUME SingleFlight,
         ProcessEnds \/ ProcessStarts \/ Tick \/ UNCHANGED vars
  PROVE  SingleFlight'
<1> USE DEF SingleFlight
<1>1. CASE ProcessEnds
  <2>1. \A r \in Runs : /\ run'[r] \in Run
                        /\ run'[r].pc = "idle"
                        /\ run'[r].for = run[r].for
                        /\ run'[r].trigger = run[r].trigger
                        /\ run[r].pc = "idle" => run'[r] = run[r]
    BY <1>1 DEF ProcessEnds, TypeOK, Run
  <2>2. TypeOK' /\ Snapshots'
    BY <1>1, <2>1 DEF ProcessEnds, TypeOK, Snapshots
  <2>3. OneExecution' /\ LiveRuns'
    BY <2>1 DEF OneExecution, LiveRuns, Live
  <2>4. Numbering'
    BY <1>1, <2>1 DEF ProcessEnds, Numbering, FreeRun
  <2>5. QED
    BY <2>2, <2>3, <2>4
<1>2. CASE ProcessStarts \/ UNCHANGED vars
  BY <1>2 DEF ProcessStarts, vars, TypeOK, Snapshots, OneExecution, LiveRuns,
              Live, Saved, Numbering
<1>3. CASE Tick
  BY <1>3 DEF Tick, Time, TypeOK, Snapshots, OneExecution, LiveRuns,
              Live, Saved, Numbering
<1>4. QED
  BY <1>1, <1>2, <1>3

\* Every step keeps the one execution per task, and what it rests on.
LEMMA SingleFlightStep == SingleFlight /\ [Next]_vars => SingleFlight'
  BY UserStepSingleFlight, ClaimSingleFlight, RunStepSingleFlight,
     ProcessStepSingleFlight DEF Next

\* Types, the one execution per task, and what they rest on, hold in every
\* reachable state: for any number of tasks, any faults and any clock.
THEOREM SingleFlightAlways == Spec => []SingleFlight
  BY SingleFlightInit, SingleFlightStep, PTL DEF Spec

\* The state of the scheduler always has its type.
THEOREM TypeCorrect == Spec => []TypeOK
<1>1. SingleFlight => TypeOK
  BY DEF SingleFlight
<1>2. QED
  BY <1>1, SingleFlightAlways, PTL

\* No task is executed by two coroutines at a time (claim_due_tasks and
\* start_manual_scheduled_task exclude each other through the run table).
THEOREM OneExecutionAlways == Spec => []OneExecution
<1>1. SingleFlight => OneExecution
  BY DEF SingleFlight
<1>2. QED
  BY <1>1, SingleFlightAlways, PTL

-----------------------------------------------------------------------------
(* What a step may do to the schedules.                                    *)

\* The steps that change a schedule: a save or the deletion by the user, a
\* claim, which clears next_run, and the record of a run.
LEMMA ScheduleChanges ==
  ASSUME SingleFlight, [Next]_vars, NEW t \in Tasks, Saved(t)
  PROVE  \/ /\ row'[t].next = row[t].next
            /\ row'[t].completed = row[t].completed
         \/ row'[t].rev # row[t].rev
         \/ ~Saved(t)' /\ row'[t].next = NoTime
         \/ ClaimDueTasks /\ Due(t) /\ row'[t].next = NoTime
         \/ \E r \in Runs : /\ r[1] = t /\ Live(r)
                            /\ LoopFree \/ holder = r
                            /\ \/ Record(r, "success", "recorded")
                               \/ Record(r, "failed", "reporting")
<1>0. row[t] \in Row /\ row \in [Tasks -> Row]
  BY DEF SingleFlight, TypeOK
<1>1. ASSUME NEW u \in Tasks, UserSteps(u)
      PROVE  \/ row'[t].next = row[t].next
                /\ row'[t].completed = row[t].completed
             \/ row'[t].rev # row[t].rev
             \/ ~Saved(t)' /\ row'[t].next = NoTime
  <2>1. ASSUME NEW repeat \in Intervals \cup {OneShot}, NEW start \in Starts,
               NEW e \in BOOLEAN,
               CreateTask(u, repeat, start, e) \/ UpdateTask(u, repeat, start, e)
        PROVE  row'[t] = row[t] \/ row'[t].rev # row[t].rev
    <3>1. CASE CreateTask(u, repeat, start, e)
      BY <1>0, <3>1 DEF CreateTask, Saved
    <3>2. CASE UpdateTask(u, repeat, start, e)
      BY <1>0, <3>2 DEF UpdateTask, Row
    <3>3. QED
      BY <2>1, <3>1, <3>2
  <2>2. ASSUME NEW e \in BOOLEAN, SetEnabled(u, e)
        PROVE  row'[t].next = row[t].next
               /\ row'[t].completed = row[t].completed
    BY <1>0, <2>2 DEF SetEnabled, Row
  <2>3. CASE DeleteTask(u)
    BY <1>0, <2>3 DEF DeleteTask, Saved, FreeRow
  <2>4. CASE StartManual(u)
    BY <2>4 DEF StartManual
  <2>5. QED
    BY <1>1, <2>1, <2>2, <2>3, <2>4 DEF UserSteps
<1>2. CASE ClaimDueTasks
  BY <1>0, <1>2 DEF ClaimDueTasks, Row
<1>3. ASSUME NEW r \in Runs, NEW result \in {"success", "failed"},
             NEW pc \in {"recorded", "reporting"}, Record(r, result, pc)
      PROVE  row'[t] = row[t] \/ r[1] = t
  BY <1>0, <1>3, RunPair DEF Record
<1>4. ASSUME NEW r \in Runs, Finishes(r) \/ Completes(r)
      PROVE  \/ row' = row
             \/ RecordSuccess(r)
             \/ RecordFailure(r)
  BY <1>4 DEF Finishes, Completes, ExecutionRaises, FailureNotRecorded,
              ReportRun, AuditRaises
<1>5. ASSUME NEW r \in Runs, RecordSuccess(r)
      PROVE  Record(r, "success", "recorded") /\ Live(r) /\ LoopFree
  BY <1>5 DEF RecordSuccess, Live
<1>6. ASSUME NEW r \in Runs, RecordFailure(r)
      PROVE  Record(r, "failed", "reporting") /\ Live(r) /\ holder = r
  BY <1>6 DEF RecordFailure, Live, SingleFlight, LiveRuns
<1>7. CASE ProcessEnds \/ ProcessStarts \/ Tick \/ UNCHANGED vars
  BY <1>7 DEF ProcessEnds, ProcessStarts, Tick, vars
<1>8. ASSUME NEW r \in Runs, Finishes(r) \/ Completes(r)
      PROVE  \/ row'[t] = row[t]
             \/ /\ r[1] = t /\ Live(r)
                /\ LoopFree \/ holder = r
                /\ \/ Record(r, "success", "recorded")
                   \/ Record(r, "failed", "reporting")
  BY <1>3, <1>4, <1>5, <1>6, <1>8
<1>9. QED
  BY <1>1, <1>2, <1>7, <1>8 DEF Next

\* The worker never sets a next execution that is not in the future: a task
\* that was late skips what it missed (_finish_run_success / _failed).
THEOREM NoBacklogAlways == Spec => NoBacklog
<1>1. ASSUME SingleFlight, [Next]_vars, NEW t \in Tasks,
             row'[t].next # row[t].next, row'[t].next # NoTime,
             row'[t].rev = row[t].rev, row[t].state = "saved"
      PROVE  row'[t].next > now
  <2>1. PICK r \in Runs : /\ r[1] = t
                          /\ \/ Record(r, "success", "recorded")
                             \/ Record(r, "failed", "reporting")
    BY <1>1, ScheduleChanges DEF Saved
  <2>2. PICK result \in {"success", "failed"} :
          row'[t] = IF run[r].trigger = "manual" THEN AfterManual(r, result)
                                                 ELSE AfterScheduled(r, result)
    BY <1>1, <2>1 DEF Record, Saved, SingleFlight, TypeOK
  <2>3. row[t] \in Row /\ run[r] \in Run /\ now \in Int
    BY <1>1 DEF SingleFlight, TypeOK, Time
  <2>4. run[r].trigger # "manual"
    BY <1>1, <2>1, <2>2, <2>3 DEF AfterManual, Row
  <2>5. row'[t].next = NextRun(run[r].for, run[r].repeat)
        /\ run[r].repeat # OneShot
    BY <1>1, <2>1, <2>2, <2>3, <2>4 DEF AfterScheduled, Row
  <2>6. run[r].for \in Int /\ run[r].repeat \in Nat \ {0}
    BY <1>1, <2>3, <2>4, <2>5, IntervalsAssumption
       DEF SingleFlight, Snapshots, Time, Run
  <2>7. QED
    BY <2>3, <2>5, <2>6, NextRunInFuture
<1>2. SingleFlight /\ [Next]_vars =>
        [\A t \in Tasks :
           /\ row'[t].next # row[t].next
           /\ row'[t].next # NoTime
           /\ row'[t].rev = row[t].rev /\ row[t].state = "saved"
           => row'[t].next > now]_vars
  BY <1>1
<1>3. QED
  BY <1>2, SingleFlightAlways, PTL DEF Spec, NoBacklog

\* "Run now" executes a task without changing its schedule
\* (_execute_manual_scheduled_task, and no poll claims the task meanwhile).
THEOREM ManualRunFreezesScheduleAlways == Spec => ManualRunFreezesSchedule
<1>1. ASSUME SingleFlight, [Next]_vars, NEW r \in Runs,
             Saved(r[1]), Saved(r[1])', Live(r), run[r].trigger = "manual",
             row'[r[1]].rev = row[r[1]].rev
      PROVE  /\ row'[r[1]].next = row[r[1]].next
             /\ row'[r[1]].completed = row[r[1]].completed
  <2>0. /\ r[1] \in Tasks /\ row[r[1]] \in Row
        /\ row \in [Tasks -> Row]
    BY <1>1, RunPair DEF SingleFlight, TypeOK
  <2>1. CASE ClaimDueTasks /\ Due(r[1])
    BY <1>1, <2>0, <2>1, NobodyExecutes DEF ClaimDueTasks, Due
  <2>2. ASSUME NEW s \in Runs, s[1] = r[1], Live(s),
               \/ Record(s, "success", "recorded")
               \/ Record(s, "failed", "reporting")
        PROVE  /\ row'[r[1]].next = row[r[1]].next
               /\ row'[r[1]].completed = row[r[1]].completed
    <3>1. s = r
      BY <1>1, <2>2 DEF SingleFlight, OneExecution
    <3>2. PICK result \in {"success", "failed"} :
            row'[r[1]] = AfterManual(r, result)
      BY <1>1, <2>0, <2>2, <3>1 DEF Record
    <3>3. QED
      BY <2>0, <3>2 DEF AfterManual, Row
  <2>3. QED
    BY <1>1, <2>0, <2>1, <2>2, ScheduleChanges
<1>2. SingleFlight /\ [Next]_vars =>
        [\A r \in Runs :
           /\ Saved(r[1]) /\ Saved(r[1])'
           /\ Live(r) /\ run[r].trigger = "manual"
           /\ row'[r[1]].rev = row[r[1]].rev
           => /\ row'[r[1]].next = row[r[1]].next
              /\ row'[r[1]].completed = row[r[1]].completed]_vars
  BY <1>1
<1>3. QED
  BY <1>2, SingleFlightAlways, PTL DEF Spec, ManualRunFreezesSchedule
-----------------------------------------------------------------------------
(* What a step may do to one task and its runs.                            *)

\* The row and the runs of task t stay as they are, coroutines apart, which
\* come to no life; one that awaits its action, or failed, loses that only to
\* the end of the process, to a failure that could not be recorded, or to the
\* deletion of its task.
KeepsRun(r) ==
  /\ run'[r].result = run[r].result /\ run'[r].trigger = run[r].trigger
  /\ run'[r].for = run[r].for /\ run'[r].repeat = run[r].repeat
  /\ run'[r].rev = run[r].rev
  /\ Live(r)' => Live(r)
  /\ \/ run[r].pc \in {"executing", "raised"}
          => run'[r].pc \in {"executing", "raised"}
     \/ ProcessEnds \/ FailureNotRecorded(r) \/ ~Saved(r[1])

Keeps(t) == /\ row'[t] = row[t] /\ used'[t] = used[t]
            /\ \A r \in Runs : r[1] = t => KeepsRun(r)

\* A user creates, changes or deletes it.
Creates(t) == /\ row[t].state = "free" /\ used'[t] = used[t] /\ run' = run
              /\ row'[t].last = "none" /\ row'[t].rev = 0
              /\ row'[t].next \in Int

Changes(t) == /\ Saved(t) /\ Saved(t)' /\ used'[t] = used[t] /\ run' = run
              /\ row'[t].last = row[t].last
              /\ \/ row'[t].rev = row[t].rev + 1 /\ row'[t].next \in Int
                 \/ /\ row'[t].rev = row[t].rev
                    /\ row'[t].next = row[t].next
                    /\ row'[t].repeat = row[t].repeat
                    /\ row'[t].completed = row[t].completed

Deletes(t) == /\ ~Saved(t)' /\ used'[t] = used[t]
              /\ \A r \in Runs : r[1] = t =>
                   /\ run'[r].trigger = run[r].trigger
                   /\ run'[r].for = run[r].for /\ run'[r].rev = run[r].rev
                   /\ run'[r].result # "running"
                   /\ Live(r)' => Live(r)

\* A user or a poll starts its next run.
StartsRun(t, r) ==
  /\ r = <<t, used[t] + 1>> /\ r \in Runs
  /\ Saved(t) /\ Saved(t)' /\ used'[t] = used[t] + 1
  /\ \A s \in Runs : s[1] = t => ~Live(s)
  /\ \A s \in Runs : s[1] = t /\ s # r => run'[s] = run[s]
  /\ run'[r].result = "running" /\ run'[r].pc = "executing"
  /\ run'[r].rev = row[t].rev /\ run'[r].repeat = row[t].repeat
  /\ row'[t].last = row[t].last /\ row'[t].rev = row[t].rev
  /\ row'[t].repeat = row[t].repeat
  /\ \/ run'[r].trigger = "manual" /\ row'[t] = row[t]
     \/ /\ run'[r].trigger = "scheduled" /\ run'[r].for = row[t].next
        /\ row[t].next \in Int /\ row[t].next <= now
        /\ row'[t].next = NoTime

\* The live run r of it is recorded.
Records(t, r) ==
  /\ r[1] = t /\ Live(r) /\ Saved(t) /\ Saved(t)'
  /\ used'[t] = used[t] /\ now' = now
  /\ \E result \in {"success", "failed"} :
       /\ run'[r].result = result
       /\ row'[t] = IF run[r].trigger = "manual" THEN AfterManual(r, result)
                                                 ELSE AfterScheduled(r, result)
  /\ run'[r].trigger = run[r].trigger /\ run'[r].for = run[r].for
  /\ run'[r].repeat = run[r].repeat /\ run'[r].rev = run[r].rev
  /\ run'[r].pc \in {"recorded", "reporting"}
  /\ \A s \in Runs \ {r} : run'[s] = run[s]

\* The steps of the users.
LEMMA UserEffect ==
  ASSUME SingleFlight, NEW u \in Tasks, UserSteps(u), NEW t \in Tasks
  PROVE  \/ Keeps(t) \/ Creates(t) \/ Changes(t) \/ Deletes(t)
         \/ \E r \in Runs : StartsRun(t, r)
<1>0. /\ TypeOK /\ row \in [Tasks -> Row] /\ row[t] \in Row /\ row[u] \in Row
      /\ run \in [Runs -> Run] /\ used \in [Tasks -> 0 .. MaxRuns]
  BY DEF SingleFlight, TypeOK
<1>1. ASSUME run' = run, used' = used, row'[t] = row[t] PROVE Keeps(t)
  BY <1>1 DEF Keeps, KeepsRun, Live
<1>2. ASSUME NEW repeat \in Intervals \cup {OneShot}, NEW start \in Starts,
             NEW e \in BOOLEAN,
             CreateTask(u, repeat, start, e) \/ UpdateTask(u, repeat, start, e)
      PROVE  Keeps(t) \/ Creates(t) \/ Changes(t)
  <2>1. run' = run /\ used' = used /\ start \in Int
    BY <1>2, StartsAssumption DEF CreateTask, UpdateTask
  <2>2. CASE u # t
    BY <1>0, <1>1, <1>2, <2>1, <2>2 DEF CreateTask, UpdateTask
  <2>3. CASE u = t /\ CreateTask(u, repeat, start, e)
    BY <1>0, <2>1, <2>3 DEF CreateTask, Creates, FreeRow
  <2>4. CASE u = t /\ UpdateTask(u, repeat, start, e)
    BY <1>0, <2>1, <2>4 DEF UpdateTask, Changes, Row, Saved
  <2> QED
    BY <1>2, <2>2, <2>3, <2>4
<1>3. ASSUME NEW e \in BOOLEAN, SetEnabled(u, e)
      PROVE  Keeps(t) \/ Changes(t)
  BY <1>0, <1>1, <1>3 DEF SetEnabled, Changes, Row, Saved
<1>4. CASE DeleteTask(u)
  <2>1. used' = used /\ \A r \in Runs :
          /\ run'[r].trigger = run[r].trigger /\ run'[r].for = run[r].for
          /\ run'[r].pc = run[r].pc /\ run'[r].rev = run[r].rev
          /\ r[1] = u => run'[r].result # "running"
          /\ r[1] # u => run'[r] = run[r]
    BY <1>0, <1>4 DEF DeleteTask, Run
  <2>2. CASE u = t
    BY <1>0, <1>4, <2>1, <2>2 DEF DeleteTask, Deletes, Saved, Live, FreeRow
  <2>3. CASE u # t
    BY <1>0, <1>4, <2>1, <2>3 DEF DeleteTask, Keeps, KeepsRun, Live
  <2> QED
    BY <2>2, <2>3
<1>5. CASE StartManual(u)
  <2> DEFINE new == <<u, used[u] + 1>>
  <2>1. new \in Runs /\ row' = row
    BY <1>0, <1>5, BoundsAssumption DEF StartManual, Runs
  <2>2. /\ run'[new].result = "running" /\ run'[new].pc = "executing"
        /\ run'[new].trigger = "manual" /\ run'[new].rev = row[u].rev
        /\ run'[new].repeat = row[u].repeat
        /\ \A r \in Runs \ {new} : run'[r] = run[r]
    BY <1>0, <1>5, <2>1 DEF StartManual
  <2>3. CASE u = t
    <3>1. \A r \in Runs : r[1] = t => ~Live(r)
      BY <1>5, <2>3, NobodyExecutes DEF StartManual
    <3>2. Saved(t) /\ used'[t] = used[t] + 1
      BY <1>0, <1>5, <2>3 DEF StartManual
    <3>3. StartsRun(t, new)
      BY <2>1, <2>2, <2>3, <3>1, <3>2 DEF StartsRun, Saved
    <3> QED
      BY <2>1, <3>3
  <2>4. CASE u # t
    <3>1. \A r \in Runs : r[1] = t => run'[r] = run[r]
      BY <2>2, <2>4
    <3>2. used'[t] = used[t]
      BY <1>0, <1>5, <2>4 DEF StartManual
    <3> QED
      BY <2>1, <3>1, <3>2 DEF Keeps, KeepsRun, Live
  <2> QED
    BY <2>3, <2>4
<1> QED
  BY <1>2, <1>3, <1>4, <1>5 DEF UserSteps

\* A poll starts the next run of a due task and keeps the others.
LEMMA ClaimEffect ==
  ASSUME SingleFlight, ClaimDueTasks, NEW t \in Tasks
  PROVE  Keeps(t) \/ \E r \in Runs : StartsRun(t, r)
<1> DEFINE new == <<t, used[t] + 1>>
<1>0. /\ TypeOK /\ row[t] \in Row /\ used[t] \in Nat /\ now \in Int
      /\ row \in [Tasks -> Row] /\ run \in [Runs -> Run]
  BY DEF SingleFlight, TypeOK, Time
<1>1. CASE Due(t)
  <2>1. /\ used'[t] = used[t] + 1 /\ row'[t] = [row[t] EXCEPT !.next = NoTime]
        /\ Saved(t) /\ ~HasRunningRow(t) /\ LoopFree
        /\ row[t].next \in Int /\ row[t].next <= now
        /\ used[t] < MaxRuns
    BY <1>0, <1>1 DEF ClaimDueTasks, Due, Row, Time
  <2>2. new \in Runs
    BY <1>0, <2>1, BoundsAssumption DEF Runs
  <2>3. /\ run'[new].result = "running" /\ run'[new].pc = "executing"
        /\ run'[new].trigger = "scheduled" /\ run'[new].for = row[t].next
        /\ run'[new].rev = row[t].rev /\ run'[new].repeat = row[t].repeat
    BY <1>1, <2>2 DEF ClaimDueTasks
  <2>4. \A s \in Runs : s[1] = t /\ s # new => run'[s] = run[s]
    BY <1>1, <2>2, RunPair DEF ClaimDueTasks
  <2>5. \A s \in Runs : s[1] = t => ~Live(s)
    BY <2>1, NobodyExecutes
  <2>6. /\ Saved(t)' /\ row'[t].last = row[t].last /\ row'[t].rev = row[t].rev
        /\ row'[t].repeat = row[t].repeat /\ row'[t].next = NoTime
    BY <1>0, <2>1 DEF Saved, Row
  <2>7. StartsRun(t, new)
    BY <2>1, <2>2, <2>3, <2>4, <2>5, <2>6 DEF StartsRun
  <2> QED
    BY <2>2, <2>7
<1>2. CASE ~Due(t)
  <2>1. row'[t] = row[t] /\ used'[t] = used[t]
    BY <1>0, <1>2 DEF ClaimDueTasks
  <2>2. \A s \in Runs : s[1] = t => run'[s] = run[s]
    BY <1>2 DEF ClaimDueTasks
  <2> QED
    BY <2>1, <2>2 DEF Keeps, KeepsRun, Live
<1> QED
  BY <1>1, <1>2

\* A coroutine records its run in a saved task or keeps every task.
LEMMA CoroutineEffect ==
  ASSUME SingleFlight, NEW r \in Runs, Finishes(r) \/ Completes(r),
         NEW t \in Tasks
  PROVE  Keeps(t) \/ Records(t, r)
<1>0. /\ run \in [Runs -> Run] /\ run[r] \in Run /\ row \in [Tasks -> Row]
      /\ used' = used /\ now' = now /\ r[1] \in Tasks
  BY RunPair DEF SingleFlight, TypeOK, Finishes, Completes, RecordSuccess, ExecutionRaises,
         RecordFailure, FailureNotRecorded, ReportRun, AuditRaises
<1>1. ASSUME NEW result \in {"success", "failed"},
             NEW pc \in {"recorded", "reporting"}, Record(r, result, pc),
             Live(r)
      PROVE  Keeps(t) \/ Records(t, r)
  <2>1. CASE Saved(r[1])
    <3> DEFINE new == IF run[r].trigger = "manual" THEN AfterManual(r, result)
                                                  ELSE AfterScheduled(r, result)
    <3>1. /\ row' = [row EXCEPT ![r[1]] = new]
          /\ run' = [run EXCEPT ![r].result = result, ![r].pc = pc]
      BY <1>1, <2>1 DEF Record
    <3>2. /\ run'[r].result = result /\ run'[r].pc = pc
          /\ run'[r].trigger = run[r].trigger /\ run'[r].for = run[r].for
          /\ run'[r].repeat = run[r].repeat /\ run'[r].rev = run[r].rev
          /\ \A s \in Runs \ {r} : run'[s] = run[s]
      BY <1>0, <3>1 DEF Run
    <3>3. CASE t = r[1]
      <4>1. row'[t] = new /\ Saved(t)'
        BY <1>0, <2>1, <3>1, <3>3
           DEF Saved, AfterManual, AfterScheduled, Row
      <4> QED
        BY <1>0, <1>1, <2>1, <3>2, <3>3, <4>1 DEF Records
    <3>4. CASE t # r[1]
      <4> HIDE DEF new
      <4>1. row'[t] = row[t] /\ \A s \in Runs : s[1] = t => run'[s] = run[s]
        BY <1>0, <3>1, <3>2, <3>4
      <4> QED
        BY <1>0, <4>1 DEF Keeps, KeepsRun, Live
    <3> QED
      BY <3>3, <3>4
  <2>2. CASE ~Saved(r[1])
    <3>1. row' = row /\ run' = [run EXCEPT ![r].pc = pc]
      BY <1>1, <2>2 DEF Record
    <3>2. /\ run'[r].result = run[r].result /\ run'[r].trigger = run[r].trigger
          /\ run'[r].for = run[r].for /\ run'[r].repeat = run[r].repeat
          /\ run'[r].rev = run[r].rev
          /\ \A s \in Runs \ {r} : run'[s] = run[s]
      BY <1>0, <3>1 DEF Run
    <3>3. \A s \in Runs : KeepsRun(s)
      BY <1>1, <2>2, <3>2 DEF KeepsRun, Live
    <3> QED
      BY <1>0, <3>1, <3>3 DEF Keeps
  <2> QED
    BY <2>1, <2>2
<1>2. ASSUME NEW pc \in {"idle", "raised"}, run' = [run EXCEPT ![r].pc = pc],
             Live(r), row' = row,
             \/ pc = "raised"
             \/ FailureNotRecorded(r)
             \/ run[r].pc \notin {"executing", "raised"}
      PROVE  Keeps(t)
  <2>1. /\ run'[r].result = run[r].result /\ run'[r].trigger = run[r].trigger
        /\ run'[r].for = run[r].for /\ run'[r].repeat = run[r].repeat
        /\ run'[r].rev = run[r].rev /\ run'[r].pc = pc
        /\ \A s \in Runs \ {r} : run'[s] = run[s]
    BY <1>0, <1>2 DEF Run
  <2>2. \A s \in Runs : KeepsRun(s)
    BY <1>2, <2>1 DEF KeepsRun, Live
  <2> QED
    BY <1>0, <1>2, <2>2 DEF Keeps
<1>3. CASE RecordSuccess(r) \/ RecordFailure(r)
  BY <1>1, <1>3 DEF RecordSuccess, RecordFailure, Live
<1>4. CASE ExecutionRaises(r)
  BY <1>2, <1>4 DEF ExecutionRaises, Live
<1>5. CASE FailureNotRecorded(r)
  <2>1. /\ run' = [run EXCEPT ![r].pc = "idle"] /\ row' = row /\ Live(r)
    BY <1>5 DEF FailureNotRecorded, Live
  <2> QED
    BY <1>2, <1>5, <2>1
<1>6. CASE ReportRun(r)
  BY <1>2, <1>6 DEF ReportRun, Live
<1>7. CASE AuditRaises(r)
  BY <1>2, <1>7 DEF AuditRaises, Live
<1> QED
  BY <1>3, <1>4, <1>5, <1>6, <1>7 DEF Finishes, Completes

\* Every step of the scheduler, seen by one task.
LEMMA StepOfTask ==
  ASSUME SingleFlight, [Next]_vars, NEW t \in Tasks
  PROVE  /\ now \in Int /\ now' \in Int /\ now <= now'
         /\ \/ Keeps(t) \/ Creates(t) \/ Changes(t) \/ Deletes(t)
            \/ \E r \in Runs : StartsRun(t, r) \/ Records(t, r)
<1>1. now \in Int /\ now' \in Int /\ now <= now'
  <2>0. now \in Int
    BY DEF SingleFlight, TypeOK, Time
  <2>1. ASSUME NEW u \in Tasks, UserSteps(u) PROVE now' = now
    BY <2>1 DEF UserSteps, CreateTask, UpdateTask, SetEnabled, DeleteTask,
                StartManual
  <2>2. ASSUME NEW r \in Runs, Finishes(r) \/ Completes(r) PROVE now' = now
    BY <2>2 DEF Finishes, Completes, RecordSuccess, ExecutionRaises,
                RecordFailure, FailureNotRecorded, ReportRun, AuditRaises
  <2>3. ASSUME ClaimDueTasks \/ ProcessEnds \/ ProcessStarts \/ UNCHANGED vars
        PROVE  now' = now
    BY <2>3 DEF ClaimDueTasks, ProcessEnds, ProcessStarts, vars
  <2>4. ASSUME Tick PROVE now' = now + 1
    BY <2>4 DEF Tick
  <2>5. now' = now \/ now' = now + 1
    BY <2>1, <2>2, <2>3, <2>4 DEF Next
  <2> QED
    BY <2>0, <2>5
<1>2. CASE ProcessEnds
  <2>1. /\ row' = row /\ used' = used
        /\ \A r \in Runs : /\ run'[r].result = run[r].result
                           /\ run'[r].trigger = run[r].trigger
                           /\ run'[r].for = run[r].for
                           /\ run'[r].repeat = run[r].repeat
                           /\ run'[r].rev = run[r].rev
                           /\ run'[r].pc = "idle"
    BY <1>2 DEF ProcessEnds, SingleFlight, TypeOK, Run
  <2> QED
    BY <1>1, <1>2, <2>1 DEF Keeps, KeepsRun, Live
<1>3. CASE ProcessStarts \/ Tick \/ UNCHANGED vars
  BY <1>1, <1>3 DEF ProcessStarts, Tick, vars, Keeps, KeepsRun, Live
<1> QED
  BY <1>1, <1>2, <1>3, UserEffect, ClaimEffect, CoroutineEffect DEF Next

-----------------------------------------------------------------------------
(* The last result of a task.                                              *)

\* A live run is the newest of its task: none starts while one is live.
Newest == \A r \in Runs : Live(r) => r[2] = used[r[1]]

\* Inductive: last_result is that of the latest recorded run because new runs
\* have the highest number and one of them at most is live.
LatestInv == SingleFlight /\ Newest /\ LastResultIsLatest

\* What LastResultIsLatest says of one task.
LastOf(t) ==
  Saved(t) =>
    \/ /\ row[t].last = "none"
       /\ \A n \in 1 .. MaxRuns : ~Recorded(<<t, n>>)
    \/ \E n \in 1 .. MaxRuns :
         /\ Recorded(<<t, n>>)
         /\ row[t].last = run[<<t, n>>].result
         /\ \A m \in (n + 1) .. MaxRuns : ~Recorded(<<t, m>>)

\* It survives every step that leaves the result of the task and of its runs
\* alone, or adds a run that is not recorded.
LEMMA LastKept ==
  ASSUME NEW t \in Tasks, LastOf(t), MaxRuns \in Nat,
         Saved(t)' => Saved(t) /\ row'[t].last = row[t].last,
         \A n \in 1 .. MaxRuns :
           \/ run'[<<t, n>>].result = run[<<t, n>>].result
           \/ /\ run'[<<t, n>>].result = "running"
              /\ run[<<t, n>>].result = "none"
  PROVE  LastOf(t)'
<1>1. \A n \in 1 .. MaxRuns : Recorded(<<t, n>>)' <=> Recorded(<<t, n>>)
  BY DEF Recorded
<1>2. \A n \in 1 .. MaxRuns :
        Recorded(<<t, n>>) => run'[<<t, n>>].result = run[<<t, n>>].result
  BY DEF Recorded
<1>3. \A n \in 1 .. MaxRuns : \A m \in (n + 1) .. MaxRuns : m \in 1 .. MaxRuns
  OBVIOUS
<1> QED
  BY <1>1, <1>2, <1>3 DEF LastOf

\* Every step keeps the last result right.
LEMMA LatestStep == ASSUME LatestInv, [Next]_vars PROVE LatestInv'
<1>0. SingleFlight /\ SingleFlight' /\ MaxRuns \in Nat
      /\ \A t \in Tasks : used[t] \in Nat
  BY SingleFlightStep, BoundsAssumption DEF LatestInv, SingleFlight, TypeOK
<1>1. ASSUME NEW r \in Runs, Live(r)' PROVE r[2] = used'[r[1]]
  <2> DEFINE t == r[1]
  <2>0. t \in Tasks /\ (Live(r) => r[2] = used[t])
    BY RunPair DEF LatestInv, Newest
  <2>1. CASE Keeps(t)
    BY <1>1, <2>0, <2>1 DEF Keeps, KeepsRun
  <2>2. CASE Creates(t) \/ Changes(t)
    BY <1>1, <2>0, <2>2 DEF Creates, Changes, Live
  <2>3. CASE Deletes(t)
    BY <1>1, <2>0, <2>3 DEF Deletes
  <2>4. ASSUME NEW s \in Runs, StartsRun(t, s) PROVE r[2] = used'[t]
    <3>1. CASE r = s
      BY <2>4, <3>1 DEF StartsRun
    <3>2. CASE r # s
      BY <1>1, <2>4, <3>2 DEF StartsRun, Live
    <3> QED
      BY <3>1, <3>2
  <2>5. ASSUME NEW s \in Runs, Records(t, s) PROVE r[2] = used'[t]
    <3>1. CASE r = s
      BY <2>0, <2>5, <3>1 DEF Records
    <3>2. CASE r # s
      BY <1>1, <2>0, <2>5, <3>2 DEF Records, Live
    <3> QED
      BY <3>1, <3>2
  <2> QED
    BY <1>0, <2>0, <2>1, <2>2, <2>3, <2>4, <2>5, StepOfTask
<1>2. ASSUME NEW t \in Tasks PROVE LastOf(t)'
  <2>0. LastOf(t)
    BY DEF LatestInv, LastResultIsLatest, LastOf
  <2>p. \A n \in 1 .. MaxRuns : /\ <<t, n>> \in Runs
                                /\ <<t, n>>[1] = t /\ <<t, n>>[2] = n
    BY DEF Runs
  <2>1. CASE Keeps(t)
    BY <1>0, <2>0, <2>p, <2>1, LastKept DEF Keeps, KeepsRun, Saved
  <2>2. CASE Changes(t)
    BY <1>0, <2>0, <2>2, LastKept DEF Changes
  <2>3. CASE Creates(t)
    <3>1. \A n \in 1 .. MaxRuns : run[<<t, n>>] = FreeRun
      BY <1>0, <2>p, <2>3 DEF Creates, SingleFlight, Numbering
    <3> QED
      BY <2>3, <3>1 DEF Creates, LastOf, Recorded, FreeRun
  <2>4. CASE Deletes(t)
    BY <2>4 DEF Deletes, LastOf
  <2>5. ASSUME NEW s \in Runs, StartsRun(t, s) PROVE LastOf(t)'
    <3>1. run[s] = FreeRun /\ s[1] = t
      BY <1>0, <2>5 DEF StartsRun, SingleFlight, Numbering
    <3>2. \A n \in 1 .. MaxRuns : <<t, n>> # s =>
            run'[<<t, n>>] = run[<<t, n>>]
      BY <2>p, <2>5 DEF StartsRun
    <3> QED
      BY <1>0, <2>0, <2>5, <3>1, <3>2, LastKept DEF StartsRun, FreeRun
  <2>6. ASSUME NEW s \in Runs, Records(t, s) PROVE LastOf(t)'
    <3>1. /\ s[1] = t /\ s[2] = used[t] /\ s[2] \in 1 .. MaxRuns
          /\ s = <<t, s[2]>>
      BY <2>6, RunPair DEF Records, LatestInv, Newest
    <3>2. /\ row[t] \in Row /\ run'[s].result \in {"success", "failed"}
          /\ row'[t].last = run'[s].result
      BY <1>0, <2>6 DEF Records, AfterManual, AfterScheduled, SingleFlight,
                        TypeOK, Row
    <3>3. ASSUME NEW m \in (s[2] + 1) .. MaxRuns PROVE ~Recorded(<<t, m>>)'
      <4>1. m \in 1 .. MaxRuns /\ m > used[t] /\ <<t, m>> # s
        BY <3>1, <1>0
      <4>2. run[<<t, m>>] = FreeRun /\ run'[<<t, m>>] = run[<<t, m>>]
        BY <1>0, <2>6, <2>p, <4>1 DEF Records, SingleFlight, Numbering
      <4> QED
        BY <4>2 DEF Recorded, FreeRun
    <3> QED
      BY <3>1, <3>2, <3>3 DEF LastOf, Recorded
  <2> QED
    BY <1>0, <2>1, <2>2, <2>3, <2>4, <2>5, <2>6, StepOfTask
<1> QED
  BY <1>0, <1>1, <1>2 DEF LatestInv, Newest, LastResultIsLatest, LastOf

\* last_result is the result of the latest recorded run of the run table: no
\* older run is ever recorded after a newer one started, whatever failed.
THEOREM LastResultIsLatestAlways == Spec => []LastResultIsLatest
<1>1. Init => LatestInv
  BY SingleFlightInit
     DEF Init, LatestInv, Newest, Live, FreeRun, FreeRow, LastResultIsLatest,
         Saved
<1>2. LatestInv => LastResultIsLatest
  BY DEF LatestInv
<1> QED
  BY <1>1, <1>2, LatestStep, PTL DEF Spec

-----------------------------------------------------------------------------
(* The times the scheduled runs of a task are for.                         *)

\* A scheduled run is for a time that has come, of a revision the task has or
\* had, and, of its present revision, before the time it is to run next.
ClaimedTimes ==
  \A r \in Runs : run[r].trigger = "scheduled" =>
    /\ run[r].for <= now
    /\ Saved(r[1]) =>
         /\ run[r].rev <= row[r[1]].rev
         /\ run[r].rev = row[r[1]].rev /\ row[r[1]].next # NoTime
              => run[r].for < row[r[1]].next

\* Inductive: what a run was claimed for lies before the schedule that its task
\* has now.
AdvanceInv == SingleFlight /\ ClaimedTimes /\ ScheduleAdvances

\* The time a record leaves in a repeating task lies in the future.
LEMMA RecordedNext ==
  ASSUME SingleFlight, NEW t \in Tasks, NEW r \in Runs, Records(t, r)
  PROVE  /\ row'[t].rev = row[t].rev /\ row'[t].repeat = row[t].repeat
         /\ run[r].trigger = "manual" => /\ row'[t].next = row[t].next
                                         /\ row'[t].completed = row[t].completed
         /\ run[r].trigger = "scheduled" =>
              IF run[r].repeat = OneShot
              THEN row'[t].next = NoTime /\ row'[t].completed
              ELSE row'[t].next \in Int /\ row'[t].next > now
<1>1. row[t] \in Row /\ run[r] \in Run /\ now \in Int
  BY DEF SingleFlight, TypeOK, Time
<1>2. PICK result \in {"success", "failed"} :
        row'[t] = IF run[r].trigger = "manual" THEN AfterManual(r, result)
                                               ELSE AfterScheduled(r, result)
  BY DEF Records
<1>3. r[1] = t
  BY DEF Records
<1>4. CASE run[r].trigger = "manual"
  BY <1>1, <1>2, <1>3, <1>4 DEF AfterManual, Row
<1>5. CASE run[r].trigger = "scheduled"
  <2>1. run[r].for \in Int /\ run[r].repeat \in Intervals \cup {0}
    BY <1>1, <1>5 DEF SingleFlight, Snapshots, Time, Run, OneShot
  <2>2. run[r].repeat # OneShot =>
          /\ NextRun(run[r].for, run[r].repeat) \in Int
          /\ NextRun(run[r].for, run[r].repeat) > now
    BY <1>1, <2>1, IntervalsAssumption, NextRunInFuture DEF OneShot
  <2>3. row'[t] = AfterScheduled(r, result)
    BY <1>2, <1>5
  <2> HIDE DEF NextRun
  <2>4. /\ row'[t].rev = row[t].rev /\ row'[t].repeat = row[t].repeat
        /\ row'[t].completed = (run[r].repeat = OneShot)
        /\ row'[t].next = IF run[r].repeat # OneShot
                          THEN NextRun(run[r].for, run[r].repeat) ELSE NoTime
    BY <1>1, <1>3, <2>3 DEF AfterScheduled, Row
  <2> QED
    BY <1>5, <2>2, <2>4
<1> QED
  BY <1>1, <1>4, <1>5 DEF Run

\* Every step leaves the claimed times in order.
LEMMA AdvanceStep == ASSUME AdvanceInv, [Next]_vars PROVE AdvanceInv'
<1>0. /\ SingleFlight /\ SingleFlight' /\ MaxRuns \in Nat
      /\ \A t \in Tasks : used[t] \in Nat /\ row[t].rev \in Nat
      /\ \A r \in Runs : run[r].rev \in Nat
                         /\ (run[r].trigger = "scheduled" => run[r].for \in Int)
  BY SingleFlightStep, BoundsAssumption
     DEF AdvanceInv, SingleFlight, TypeOK, Snapshots, Time, Row, Run
<1>1. NoTime \notin Int
  BY NoTimeAssumption
<1>2. ASSUME NEW r \in Runs, run'[r].trigger = "scheduled"
      PROVE  /\ run'[r].for <= now'
             /\ Saved(r[1])' =>
                  /\ run'[r].rev <= row'[r[1]].rev
                  /\ run'[r].rev = row'[r[1]].rev /\ row'[r[1]].next # NoTime
                       => run'[r].for < row'[r[1]].next
  <2> DEFINE t == r[1]
  <2>0. /\ t \in Tasks
        /\ run[r].trigger = "scheduled" =>
             /\ run[r].for <= now
             /\ Saved(t) => /\ run[r].rev <= row[t].rev
                            /\ run[r].rev = row[t].rev /\ row[t].next # NoTime
                                 => run[r].for < row[t].next
    BY RunPair DEF AdvanceInv, ClaimedTimes
  <2>t. now \in Int /\ now' \in Int /\ now <= now'
    BY <1>0, <2>0, StepOfTask
  <2>1. CASE Keeps(t)
    BY <1>0, <1>2, <2>0, <2>t, <2>1 DEF Keeps, KeepsRun, Saved
  <2>2. CASE Creates(t)
    <3>1. run[r] = FreeRun
      BY <1>0, <2>2, RunPair DEF Creates, SingleFlight, Numbering
    <3> QED
      BY <1>2, <2>2, <3>1 DEF Creates, FreeRun
  <2>3. CASE Changes(t)
    BY <1>0, <1>2, <2>0, <2>t, <2>3 DEF Changes
  <2>4. CASE Deletes(t)
    BY <1>0, <1>2, <2>0, <2>t, <2>4 DEF Deletes
  <2>5. ASSUME NEW s \in Runs, StartsRun(t, s)
        PROVE  /\ run'[r].for <= now'
               /\ run'[r].rev <= row'[t].rev
               /\ run'[r].rev = row'[t].rev /\ row'[t].next # NoTime
                    => run'[r].for < row'[t].next
    <3>1. CASE r = s
      BY <1>0, <1>2, <2>0, <2>t, <2>5, <3>1 DEF StartsRun
    <3>2. CASE r # s
      BY <1>0, <1>2, <2>0, <2>t, <2>5, <3>2 DEF StartsRun
    <3> QED
      BY <3>1, <3>2
  <2>6. ASSUME NEW s \in Runs, Records(t, s)
        PROVE  /\ run'[r].for <= now'
               /\ run'[r].rev <= row'[t].rev
               /\ run'[r].rev = row'[t].rev /\ row'[t].next # NoTime
                    => run'[r].for < row'[t].next
    <3>1. /\ run'[r].for = run[r].for /\ run'[r].rev = run[r].rev
          /\ run[r].trigger = "scheduled" /\ Saved(t)
      BY <1>2, <2>6 DEF Records
    <3>2. /\ row'[t].rev = row[t].rev
          /\ \/ row'[t].next = row[t].next \/ row'[t].next = NoTime
             \/ row'[t].next \in Int /\ row'[t].next > now
      <4>1. run[s].trigger \in {"scheduled", "manual"}
        BY <1>0 DEF SingleFlight, TypeOK, Run
      <4> QED
        BY <1>0, <2>0, <2>6, <4>1, RecordedNext
    <3> QED
      BY <1>0, <2>0, <2>t, <3>1, <3>2
  <2> QED
    BY <1>0, <2>0, <2>1, <2>2, <2>3, <2>4, <2>5, <2>6, StepOfTask
<1>3. ASSUME NEW t \in Tasks, NEW n \in 1 .. MaxRuns, NEW m \in 1 .. MaxRuns,
             n < m,
             run'[<<t, n>>].trigger = "scheduled",
             run'[<<t, m>>].trigger = "scheduled",
             run'[<<t, n>>].rev = run'[<<t, m>>].rev
      PROVE  run'[<<t, n>>].for < run'[<<t, m>>].for
  <2> DEFINE a == <<t, n>>
             b == <<t, m>>
  <2>0. /\ a \in Runs /\ b \in Runs /\ a # b /\ a[1] = t /\ b[1] = t
        /\ a[2] = n /\ b[2] = m
    BY <1>3 DEF Runs
  <2>1. ASSUME run[a].trigger = "scheduled", run[b].trigger = "scheduled",
               run[a].rev = run[b].rev
        PROVE  run[a].for < run[b].for
    BY <1>3, <2>1 DEF AdvanceInv, ScheduleAdvances
  <2> HIDE DEF a, b
  <2>2. CASE Keeps(t) \/ Creates(t) \/ Changes(t) \/ Deletes(t)
    <3>1. \A r \in {a, b} : /\ run'[r].trigger = run[r].trigger
                            /\ run'[r].rev = run[r].rev
                            /\ run'[r].for = run[r].for
      BY <2>0, <2>2 DEF Keeps, KeepsRun, Creates, Changes, Deletes
    <3> QED
      BY <1>3, <2>1, <3>1 DEF a, b
  <2>3. ASSUME NEW s \in Runs, Records(t, s) PROVE run'[a].for < run'[b].for
    <3>1. \A r \in {a, b} : /\ run'[r].trigger = run[r].trigger
                            /\ run'[r].rev = run[r].rev
                            /\ run'[r].for = run[r].for
      BY <2>0, <2>3 DEF Records
    <3> QED
      BY <1>3, <2>1, <3>1 DEF a, b
  <2>4. ASSUME NEW s \in Runs, StartsRun(t, s) PROVE run'[a].for < run'[b].for
    <3>1. CASE a # s /\ b # s
      <4>1. run'[a] = run[a] /\ run'[b] = run[b]
        BY <2>0, <2>4, <3>1 DEF StartsRun
      <4> QED
        BY <1>3, <2>1, <4>1 DEF a, b
    <3>2. CASE a = s
      <4>1. n = used[t] + 1
        BY <2>0, <2>4, <3>2 DEF StartsRun
      <4>2. m > used[t] /\ b # s
        BY <1>0, <1>3, <2>0, <3>2, <4>1
      <4>3. run[b] = FreeRun /\ run'[b] = run[b]
        BY <1>0, <2>0, <2>4, <4>2 DEF SingleFlight, Numbering, StartsRun
      <4> QED
        BY <1>3, <4>3 DEF b, FreeRun
    <3>3. CASE b = s
      <4>1. a # s /\ run'[a] = run[a]
        BY <2>0, <2>4, <3>3 DEF StartsRun
      <4>2. /\ run'[b].for = row[t].next /\ run'[b].rev = row[t].rev
            /\ row[t].next \in Int /\ Saved(t)
        BY <1>3, <2>4, <3>3 DEF StartsRun, b
      <4>3. run[a].trigger = "scheduled" /\ run[a].rev = row[t].rev
        BY <1>3, <4>1, <4>2 DEF a, b
      <4>4. run[a].for < row[t].next
        BY <1>1, <2>0, <4>2, <4>3 DEF AdvanceInv, ClaimedTimes
      <4> QED
        BY <4>1, <4>2, <4>4
    <3> QED
      BY <3>1, <3>2, <3>3
  <2>5. \/ Keeps(t) \/ Creates(t) \/ Changes(t) \/ Deletes(t)
        \/ \E s \in Runs : StartsRun(t, s) \/ Records(t, s)
    BY <1>0, StepOfTask
  <2> QED
    BY <2>2, <2>3, <2>4, <2>5 DEF a, b
<1> QED
  BY <1>0, <1>2, <1>3 DEF AdvanceInv, ClaimedTimes, ScheduleAdvances

\* No occurrence of a schedule nobody saves anew is executed twice: its
\* scheduled runs are for ever later times, whatever is recorded twice, fails
\* or is lost in between.
THEOREM ScheduleAdvancesAlways == Spec => []ScheduleAdvances
<1>1. Init => AdvanceInv
  BY SingleFlightInit
     DEF Init, AdvanceInv, ClaimedTimes, FreeRun, ScheduleAdvances, Runs
<1>2. AdvanceInv => ScheduleAdvances
  BY DEF AdvanceInv
<1> QED
  BY <1>1, <1>2, AdvanceStep, PTL DEF Spec

-----------------------------------------------------------------------------
(* Without a stop of the process or a failing database, and with intervals *)
(* that stay in the range of datetime.                                     *)

\* Nothing ends an execution without its record.  The audit trail may fail.
Calm == /\ "stop" \notin Faults /\ "database" \notin Faults
        /\ \A i \in Intervals : MaxTime + i <= Latest

\* A row says "running" only while its task is saved and its coroutine awaits
\* the action or is about to record its failure.
Marked == \A r \in Runs : run[r].result = "running" =>
            Saved(r[1]) /\ run[r].pc \in {"executing", "raised"}

\* A scheduled run of a task never edited repeats as its task does.
SameRepeat == \A r \in Runs :
  run[r].trigger = "scheduled" /\ Saved(r[1]) /\ row[r[1]].rev = 0
    => run[r].repeat = row[r[1]].repeat

\* The run that stands for the missing next execution is not recorded yet, or
\* is about to be recorded again.
Awaited == \A t \in Tasks :
  Saved(t) /\ row[t].rev = 0 /\ row[t].next = NoTime =>
    \/ row[t].repeat = OneShot /\ row[t].completed
    \/ \E r \in Runs : /\ r[1] = t /\ run[r].trigger = "scheduled"
                       /\ run[r].pc \in {"executing", "raised"}

\* Inductive without stops, failing databases and overflowing schedules: a row
\* marked running is awaited by a coroutine, and will be recorded.
CalmInv == /\ AdvanceInv /\ now <= MaxTime
           /\ Marked /\ SameRepeat /\ Awaited

\* A record in calm weather stays in the range of datetime, so that a failure
\* is always recorded and no step loses a coroutine at work.
LEMMA CalmKeeps ==
  ASSUME Calm, CalmInv, NEW t \in Tasks, Keeps(t), NEW r \in Runs, r[1] = t,
         Saved(t), run[r].pc \in {"executing", "raised"}
  PROVE  run'[r].pc \in {"executing", "raised"}
<1>1. ~ProcessEnds
  BY DEF Calm, ProcessEnds
<1>2. ~Overflows(r)
  <2> SUFFICES ASSUME run[r].trigger = "scheduled", run[r].repeat # OneShot
               PROVE  ~(NextRun(run[r].for, run[r].repeat) > Latest)
    BY DEF Overflows
  <2> DEFINE p == run[r].for
             i == run[r].repeat
  <2>1. /\ p \in Int /\ i \in Intervals /\ i \in Nat \ {0} /\ now \in Int
        /\ MaxTime \in Nat /\ Latest \in Nat /\ now <= MaxTime
        /\ MaxTime + i <= Latest
    BY IntervalsAssumption, BoundsAssumption
       DEF CalmInv, Calm, AdvanceInv, SingleFlight, Snapshots, TypeOK, Run, Time, OneShot
  <2>2. NextRun(p, i) = p + i * (((now - p) \div i) + 1)
    BY DEF NextRun
  <2> HIDE DEF p, i
  <2>3. i * ((now - p) \div i) <= now - p /\ i * ((now - p) \div i) \in Int
    BY <2>1
  <2>4. i * (((now - p) \div i) + 1) = i * ((now - p) \div i) + i
    BY <2>1
  <2>5. NextRun(p, i) <= now + i /\ NextRun(p, i) \in Int
    BY <2>1, <2>2, <2>3, <2>4
  <2> QED
    BY <2>1, <2>5 DEF p, i
<1>3. ~FailureNotRecorded(r)
  BY <1>2 DEF Calm, FailureNotRecorded
<1> QED
  BY <1>1, <1>3 DEF Keeps, KeepsRun

\* Every step in calm weather keeps the rest of it.
LEMMA CalmStep == ASSUME Calm, CalmInv, [Next]_vars PROVE CalmInv'
<1>0. /\ AdvanceInv /\ AdvanceInv' /\ SingleFlight /\ now <= MaxTime
      /\ \A t \in Tasks : row[t] \in Row /\ row[t].rev \in Nat
      /\ \A r \in Runs : r[1] \in Tasks /\ run[r] \in Run
      /\ NoTime \notin Int
  BY AdvanceStep, RunPair, NoTimeAssumption
     DEF CalmInv, AdvanceInv, SingleFlight, TypeOK, Row
<1>s. \A t \in Tasks :
        \/ Keeps(t) \/ Creates(t) \/ Changes(t) \/ Deletes(t)
        \/ \E r \in Runs : StartsRun(t, r) \/ Records(t, r)
  BY <1>0, StepOfTask
<1>1. now' <= MaxTime
  <2>1. now' = now \/ Tick
    <3>1. ASSUME NEW u \in Tasks, UserSteps(u) PROVE now' = now
      BY <3>1 DEF UserSteps, CreateTask, UpdateTask, SetEnabled, DeleteTask,
                  StartManual
    <3>2. ASSUME NEW r \in Runs, Finishes(r) \/ Completes(r) PROVE now' = now
      BY <3>2 DEF Finishes, Completes, RecordSuccess, ExecutionRaises,
                  RecordFailure, FailureNotRecorded, ReportRun, AuditRaises
    <3>3. ASSUME \/ ClaimDueTasks \/ ProcessEnds \/ ProcessStarts
                 \/ UNCHANGED vars
          PROVE  now' = now
      BY <3>3 DEF ClaimDueTasks, ProcessEnds, ProcessStarts, vars
    <3> QED
      BY <3>1, <3>2, <3>3 DEF Next
  <2> QED
    BY <1>0, <2>1, BoundsAssumption DEF Tick, SingleFlight, TypeOK, Time
<1>2. ASSUME NEW r \in Runs, run'[r].result = "running"
      PROVE  Saved(r[1])' /\ run'[r].pc \in {"executing", "raised"}
  <2> DEFINE t == r[1]
  <2>0. /\ t \in Tasks /\ r[1] = t
        /\ run[r].result = "running" =>
             Saved(t) /\ run[r].pc \in {"executing", "raised"}
    BY <1>0 DEF CalmInv, Marked
  <2> HIDE DEF t
  <2>1. CASE Keeps(t)
    <3>1. run[r].result = "running" /\ row'[t] = row[t]
      BY <1>2, <2>0, <2>1 DEF Keeps, KeepsRun
    <3> QED
      BY <2>0, <2>1, <3>1, CalmKeeps DEF Saved
  <2>2. CASE Creates(t)
    <3>1. run[r] = FreeRun /\ run'[r] = run[r]
      BY <1>0, <2>0, <2>2, RunPair DEF Creates, SingleFlight, Numbering
    <3> QED
      BY <1>2, <3>1 DEF FreeRun
  <2>3. CASE Changes(t)
    BY <1>2, <2>0, <2>3 DEF Changes
  <2>4. CASE Deletes(t)
    BY <1>2, <2>0, <2>4 DEF Deletes
  <2>5. ASSUME NEW s \in Runs, StartsRun(t, s)
        PROVE  Saved(t)' /\ run'[r].pc \in {"executing", "raised"}
    BY <1>2, <2>0, <2>5 DEF StartsRun
  <2>6. ASSUME NEW s \in Runs, Records(t, s)
        PROVE  Saved(t)' /\ run'[r].pc \in {"executing", "raised"}
    BY <1>2, <2>0, <2>6 DEF Records
  <2> QED
    BY <1>s, <2>0, <2>1, <2>2, <2>3, <2>4, <2>5, <2>6
<1>3. ASSUME NEW r \in Runs, run'[r].trigger = "scheduled", Saved(r[1])',
             row'[r[1]].rev = 0
      PROVE  run'[r].repeat = row'[r[1]].repeat
  <2> DEFINE t == r[1]
  <2>0. /\ t \in Tasks /\ r[1] = t /\ row[t].rev \in Nat
        /\ run[r].trigger = "scheduled" /\ Saved(t) /\ row[t].rev = 0 =>
             run[r].repeat = row[t].repeat
    BY <1>0 DEF CalmInv, SameRepeat
  <2> HIDE DEF t
  <2>1. CASE Keeps(t)
    BY <1>3, <2>0, <2>1 DEF Keeps, KeepsRun, Saved
  <2>2. CASE Creates(t)
    <3>1. run[r] = FreeRun /\ run'[r] = run[r]
      BY <1>0, <2>0, <2>2, RunPair DEF Creates, SingleFlight, Numbering
    <3> QED
      BY <1>3, <3>1 DEF FreeRun
  <2>3. CASE Changes(t)
    BY <1>3, <2>0, <2>3 DEF Changes
  <2>4. CASE Deletes(t)
    BY <1>3, <2>0, <2>4 DEF Deletes
  <2>5. ASSUME NEW s \in Runs, StartsRun(t, s)
        PROVE  run'[r].repeat = row'[t].repeat
    BY <1>3, <2>0, <2>5 DEF StartsRun
  <2>6. ASSUME NEW s \in Runs, Records(t, s)
        PROVE  run'[r].repeat = row'[t].repeat
    <3>1. row'[t].rev = row[t].rev /\ row'[t].repeat = row[t].repeat
      BY <1>0, <2>0, <2>6, RecordedNext
    <3> QED
      BY <1>3, <2>0, <2>6, <3>1 DEF Records
  <2> QED
    BY <1>s, <2>0, <2>1, <2>2, <2>3, <2>4, <2>5, <2>6
<1>4. ASSUME NEW t \in Tasks, Saved(t)', row'[t].rev = 0, row'[t].next = NoTime
      PROVE  \/ row'[t].repeat = OneShot /\ row'[t].completed
             \/ \E r \in Runs : /\ r[1] = t /\ run'[r].trigger = "scheduled"
                                /\ run'[r].pc \in {"executing", "raised"}
  <2>0. /\ row[t].rev \in Nat
        /\ Saved(t) /\ row[t].rev = 0 /\ row[t].next = NoTime =>
             \/ row[t].repeat = OneShot /\ row[t].completed
             \/ \E r \in Runs : /\ r[1] = t /\ run[r].trigger = "scheduled"
                                /\ run[r].pc \in {"executing", "raised"}
    BY <1>0 DEF CalmInv, Awaited
  <2>1. CASE Keeps(t)
    <3>1. Saved(t) /\ row'[t] = row[t]
      BY <1>4, <2>1 DEF Keeps, Saved
    <3>2. ASSUME NEW r \in Runs, r[1] = t, run[r].trigger = "scheduled",
                 run[r].pc \in {"executing", "raised"}
          PROVE  /\ run'[r].trigger = "scheduled"
                 /\ run'[r].pc \in {"executing", "raised"}
      BY <2>1, <3>1, <3>2, CalmKeeps DEF Keeps, KeepsRun
    <3> QED
      BY <1>4, <2>0, <3>1, <3>2
  <2>2. CASE Creates(t)
    BY <1>0, <1>4, <2>2 DEF Creates
  <2>3. CASE Changes(t)
    BY <1>0, <1>4, <2>0, <2>3 DEF Changes
  <2>4. CASE Deletes(t)
    BY <1>4, <2>4 DEF Deletes
  <2>5. ASSUME NEW s \in Runs, StartsRun(t, s)
        PROVE  \/ row'[t].repeat = OneShot /\ row'[t].completed
               \/ \E r \in Runs : /\ r[1] = t /\ run'[r].trigger = "scheduled"
                                  /\ run'[r].pc \in {"executing", "raised"}
    <3>1. s[1] = t /\ run'[s].pc = "executing" /\ Saved(t)
      BY <2>5 DEF StartsRun
    <3>2. CASE run'[s].trigger = "scheduled"
      BY <3>1, <3>2
    <3>3. CASE row'[t] = row[t]
      <4>1. \A r \in Runs : r[1] = t =>
              run[r].pc \notin {"executing", "raised"}
        BY <2>5 DEF StartsRun, Live
      <4> QED
        BY <1>4, <2>0, <3>1, <3>3, <4>1
    <3> QED
      BY <2>5, <3>2, <3>3 DEF StartsRun
  <2>6. ASSUME NEW s \in Runs, Records(t, s)
        PROVE  row'[t].repeat = OneShot /\ row'[t].completed
    <3>1. /\ s[1] = t /\ Live(s) /\ Saved(t)
          /\ row'[t].rev = row[t].rev /\ row'[t].repeat = row[t].repeat
      BY <1>0, <2>6, RecordedNext DEF Records
    <3>2. CASE run[s].trigger = "scheduled"
      <4>1. run[s].repeat = row[t].repeat
        BY <1>4, <3>1, <3>2 DEF CalmInv, SameRepeat
      <4> QED
        BY <1>0, <1>4, <2>6, <3>1, <3>2, <4>1, RecordedNext
    <3>3. CASE run[s].trigger = "manual"
      <4>1. row'[t].next = row[t].next /\ row'[t].completed = row[t].completed
        BY <1>0, <2>6, <3>3, RecordedNext
      <4>2. \A r \in Runs : r[1] = t /\ run[r].pc \in {"executing", "raised"}
              => r = s
        BY <1>0, <3>1 DEF SingleFlight, OneExecution, Live
      <4> QED
        BY <1>4, <2>0, <3>1, <3>3, <4>1, <4>2
    <3> QED
      BY <1>0, <3>2, <3>3 DEF Run
  <2> QED
    BY <1>s, <2>1, <2>2, <2>3, <2>4, <2>5, <2>6
<1> QED
  BY <1>0, <1>1, <1>2, <1>3, <1>4 DEF CalmInv, Marked, SameRepeat, Awaited

\* It holds at the beginning, and for ever in calm weather.
LEMMA CalmInvAlways == ASSUME Calm PROVE Spec => []CalmInv
<1>1. Init => CalmInv
  BY SingleFlightInit, BoundsAssumption
     DEF Init, CalmInv, AdvanceInv, ClaimedTimes, ScheduleAdvances, Runs,
         Marked, SameRepeat, Awaited, Saved, FreeRun, FreeRow
<1>2. CalmInv /\ [Next]_vars => CalmInv'
  BY CalmStep
<1> QED
  BY <1>1, <1>2, PTL DEF Spec

\* Unless the process stops, the database fails or an interval leaves the
\* range of datetime, a run row that says "running" stands for a coroutine
\* that executes it: "Run now" is never refused, and a poll never skips the
\* task, because of a run that is gone.
THEOREM RunningMeansExecutingAlways ==
  ASSUME Calm PROVE Spec => []RunningMeansExecuting
<1>1. CalmInv => RunningMeansExecuting
  BY DEF CalmInv, Marked, RunningMeansExecuting, Live
<1> QED
  BY <1>1, CalmInvAlways, PTL

\* Under the same conditions no failed or interrupted run loses the schedule
\* of a task that was never edited.
THEOREM NotOrphanedAlways == ASSUME Calm PROVE Spec => []NotOrphaned
<1>1. ASSUME CalmInv PROVE NotOrphaned
  <2> SUFFICES ASSUME NEW t \in Tasks, Saved(t), row[t].rev = 0,
                      row[t].next = NoTime,
                      ~(row[t].repeat = OneShot /\ row[t].completed)
               PROVE  \E n \in 1 .. MaxRuns :
                        /\ Live(<<t, n>>)
                        /\ run[<<t, n>>].trigger = "scheduled"
    BY DEF NotOrphaned
  <2>1. PICK r \in Runs : /\ r[1] = t /\ run[r].trigger = "scheduled"
                          /\ run[r].pc \in {"executing", "raised"}
    BY <1>1 DEF CalmInv, Awaited
  <2> QED
    BY <2>1, RunPair DEF Live
<1> QED
  BY <1>1, CalmInvAlways, PTL
=============================================================================
