-------------------- MODULE ScheduledNodeActions_proofs --------------------
(***************************************************************************)
(* Proofs about scheduled node actions: next to users, the scheduler does  *)
(* nothing to the managed tasks that ManagedTasks does not allow, so all   *)
(* that is proved there carries over; and what a run records of its task,  *)
(* and reports of it, stays right.                                         *)
(***************************************************************************)
EXTENDS ScheduledNodeActions, ManagedTasks_proofs, FiniteSetTheorems

\* The scheduler starts a task or a batch the way a user does.
LEMMA ScheduleIsStart ==
  ASSUME NEW kind \in Kinds, NEW nodes \in SUBSET Nodes,
         ScheduleStarts(kind, nodes)
  PROVE  Start
<1>1. CASE /\ kind \in BatchKinds /\ Cardinality(nodes) > 1
           /\ StartBatch(kind, nodes)
  <2>1. nodes # {}
    BY <1>1, FS_EmptySet
  <2> QED
    BY <1>1, <2>1 DEF Start
<1>2. CASE \E n \in Nodes : /\ nodes = {n}
                            /\ \/ kind \in UpdateKinds /\ StartUpdate(kind, n)
                               \/ kind \in PowerKinds /\ StartPower(kind, n)
  BY <1>2 DEF Start
<1> QED
  BY <1>1, <1>2 DEF ScheduleStarts

\* A step of users, scheduler or tasks is a step of the managed tasks or leaves
\* them alone.
LEMMA ManagedStep == ASSUME [NextAll]_allVars PROVE [Next]_vars
<1>1. CASE UserStarts
  BY <1>1 DEF UserStarts, Next
<1>2. ASSUME NEW kind \in Kinds, NEW nodes \in SUBSET Nodes,
             ScheduleStarts(kind, nodes)
      PROVE  Next
  BY <1>2, ScheduleIsStart DEF Next
<1>3. CASE TaskStep
  BY <1>3 DEF TaskStep, Next
<1>4. ASSUME NEW i \in Ids, Polls(i) \/ TimesOut(i) PROVE UNCHANGED vars
  BY <1>4 DEF Polls, TimesOut, RunEnds
<1>5. CASE UNCHANGED allVars
  BY <1>5 DEF allVars
<1> QED
  BY <1>1, <1>2, <1>3, <1>4, <1>5 DEF NextAll

\* Users and scheduler together implement the task manager: whatever is proved
\* of ManagedTasks is true of them.
THEOREM ImplementsManagedTasks == SpecAll => Spec
<1>1. InitAll => Init
  BY DEF InitAll
<1> QED
  BY <1>1, ManagedStep, PTL DEF SpecAll, Spec

-----------------------------------------------------------------------------
(* Runs and reports.                                                       *)

\* A number not given out has no source, no run and no report.
Unused == \A i \in Ids : task[i].kind = "none" =>
            source[i] = "none" /\ run[i] = "none" /\ sent[i] = {}

\* A run of the scheduler waits for a task whose source is the scheduler,
\* batches excepted (tasks.py:1702 makes them manual).
RunsOfScheduler == \A i \in Ids :
  run[i] # "none" /\ task[i].kind \notin BatchKinds => source[i] # "manual"

\* The scheduler reports tasks it waited for, the task manager those that users
\* started.
Reports == \A i \in Ids : /\ "schedule" \in sent[i] => run[i] # "none"
                          /\ "task" \in sent[i] => source[i] = "manual"

\* A run was recorded with the final state of its task.
Recorded == \A i \in Ids : /\ run[i] = "success" => task[i].state = "success"
                           /\ run[i] = "failed" => task[i].state = "error"

\* Inductive: the invariant of the managed tasks and of the runs that wait for
\* them.
RunInv == /\ AllTypeOK /\ BatchInv
          /\ Unused /\ RunsOfScheduler /\ Reports /\ Recorded

\* It holds when nothing was started.
LEMMA RunInvInitially == ASSUME InitAll PROVE RunInv
<1>1. BatchInv
  BY BatchInitially DEF InitAll
<1>2. AllTypeOK
  BY <1>1 DEF InitAll, AllTypeOK, BatchInv, LockInvariant
<1> QED
  BY <1>1, <1>2 DEF InitAll, RunInv, Unused, RunsOfScheduler, Reports, Recorded

\* The source noted with a step: the new task's, where one was created.
LEMMA SourceStep ==
  ASSUME AllTypeOK, BatchInv, Next,
         NEW s \in {"manual", "scheduler", "batch"}, NewSource(s)
  PROVE  /\ source' \in [Ids -> {"none", "manual", "scheduler", "batch"}]
         /\ \A i \in Ids : task[i].kind # "none" => source'[i] = source[i]
         /\ \A i \in Ids : task'[i].kind = "none" => source'[i] = source[i]
         /\ \A i \in Ids : source'[i] \in {source[i], s}
<1>1. source' = [i \in Ids |-> IF i = created + 1 /\ created' = i
                               THEN s ELSE source[i]]
  BY DEF NewSource
<1>2. created \in Nat /\ source \in [Ids -> {"none", "manual", "scheduler", "batch"}]
  BY DEF AllTypeOK, TypeOK
<1>3. ASSUME NEW i \in Ids, i = created + 1, created' = i
      PROVE  task[i].kind = "none" /\ task'[i].kind # "none"
  BY <1>2, <1>3, TaskSteps
<1> QED
  BY <1>1, <1>2, <1>3

\* A step that creates tasks or moves them on, and starts no run of a user's
\* task, keeps what is known of runs and reports.
LEMMA RunStep ==
  ASSUME RunInv, Next, AllTypeOK',
         NEW s \in {"manual", "scheduler", "batch"}, NewSource(s),
         \A i \in Ids :
           \/ run'[i] = run[i]
           \/ /\ task[i].kind = "none" /\ task'[i].kind # "none"
              /\ run'[i] = "waiting"
              /\ task'[i].kind \in BatchKinds \/ s # "manual",
         \A i \in Ids :
           \/ sent'[i] = sent[i]
           \/ source[i] = "manual" /\ sent'[i] = sent[i] \cup {"task"}
  PROVE  RunInv'
<1>1. /\ BatchInv' /\ AllTypeOK
      /\ \A i \in Ids : /\ task[i].kind # "none" => source'[i] = source[i]
                        /\ task'[i].kind = "none" => source'[i] = source[i]
                        /\ source'[i] \in {source[i], s}
  BY BatchStep, SourceStep DEF RunInv
<1>2. \A i \in Ids : /\ task[i].kind # "none" => task'[i].kind = task[i].kind
                     /\ task'[i].kind = "none" => task[i].kind = "none"
                     /\ task[i].state \in {"success", "error"}
                          => task'[i].state = task[i].state
  BY TaskSteps DEF RunInv, Ended
<1>3. Unused'
  BY <1>1, <1>2 DEF RunInv, Unused
<1>4. RunsOfScheduler'
  <2> SUFFICES ASSUME NEW i \in Ids, run'[i] # "none",
                      task'[i].kind \notin BatchKinds
               PROVE  source'[i] # "manual"
    BY DEF RunsOfScheduler
  <2>1. CASE run'[i] = run[i]
    BY <1>1, <1>2, <2>1 DEF RunInv, Unused, RunsOfScheduler
  <2>2. CASE run'[i] # run[i]
    BY <1>1, <2>2 DEF RunInv, Unused
  <2> QED
    BY <2>1, <2>2
<1>5. Reports'
  BY <1>1 DEF RunInv, Reports, Unused
<1>6. Recorded'
  BY <1>2 DEF RunInv, Recorded
<1> QED
  BY <1>1, <1>3, <1>4, <1>5, <1>6 DEF RunInv

\* So does a run that ends with what its task ended with, or gives up.
LEMMA RunEndsKeeps ==
  ASSUME RunInv, NEW i \in Ids, NEW result \in {"success", "failed", "timeout"},
         RunEnds(i, result),
         result = "success" => task[i].state = "success",
         result = "failed" => task[i].state = "error"
  PROVE  RunInv'
<1>1. /\ UNCHANGED vars /\ source' = source /\ run[i] = "waiting"
      /\ AllTypeOK /\ BatchInv'
  BY BatchStep DEF RunEnds, RunInv
<1>2. /\ run'[i] = result /\ sent'[i] = sent[i] \cup {"schedule"}
      /\ \A j \in Ids \ {i} : run'[j] = run[j] /\ sent'[j] = sent[j]
  BY <1>1 DEF RunEnds, AllTypeOK
<1>3. AllTypeOK'
  <2>1. TypeOK'
    BY <1>1 DEF AllTypeOK, TypeOK, vars
  <2>2. sent[i] \cup {"schedule"} \in SUBSET {"task", "schedule"}
    BY <1>1 DEF AllTypeOK
  <2> QED
    BY <1>1, <2>1, <2>2 DEF RunEnds, AllTypeOK
<1>4. Unused' /\ RunsOfScheduler' /\ Reports' /\ Recorded'
  BY <1>1, <1>2 DEF RunInv, Unused, RunsOfScheduler, Reports, Recorded, vars
<1> QED
  BY <1>1, <1>3, <1>4 DEF RunInv

\* A step of users, scheduler, tasks or runs keeps all of it.
LEMMA RunInvStep == ASSUME RunInv, [NextAll]_allVars PROVE RunInv'
<1>0. /\ [Next]_vars /\ BatchInv /\ BatchInv' /\ AllTypeOK
      /\ TypeOK' /\ created \in Nat
  BY ManagedStep, BatchStep DEF RunInv, BatchInv, LockInvariant, TypeOK
<1>1. CASE UserStarts
  <2>1. Next /\ NewSource("manual") /\ UNCHANGED <<run, sent>>
    BY <1>1 DEF UserStarts, Next
  <2>2. AllTypeOK'
    BY <1>0, <2>1, SourceStep DEF AllTypeOK
  <2> QED
    BY <2>1, <2>2, RunStep
<1>2. ASSUME NEW kind \in Kinds, NEW nodes \in SUBSET Nodes,
             ScheduleStarts(kind, nodes)
      PROVE  RunInv'
  <2> DEFINE new == created + 1
             s == ScheduledSource(kind)
  <2>1. Next /\ NewSource(s) /\ sent' = sent
        /\ run' = [run EXCEPT ![new] = "waiting"]
    BY <1>2, ScheduleIsStart DEF Next, ScheduleStarts
  <2>2. s \in {"manual", "scheduler"} /\ (kind \notin BatchKinds => s # "manual")
    BY DEF ScheduledSource
  <2>3. \E node \in Nodes \cup {Batch} : Create(kind, node, "submitted")
    BY <1>2 DEF ScheduleStarts, StartBatch, StartUpdate, StartPower
  <2>4. kind \in UpdateKinds \cup PowerKinds \cup BatchKinds \cup {"activity"}
    BY KindsAssumption
  <2>5. /\ new \in Ids /\ task[new].kind = "none" /\ task'[new].kind = kind
    BY <1>0, <2>3, <2>4, CreatedTask DEF BatchInv
  <2>6. kind # "none"
    BY <2>4 DEF UpdateKinds, PowerKinds, BatchKinds
  <2> HIDE DEF s
  <2>7. AllTypeOK'
    BY <1>0, <2>1, <2>2, SourceStep DEF AllTypeOK
  <2>8. \A i \in Ids : \/ run'[i] = run[i]
                       \/ i = new /\ run'[i] = "waiting"
    BY <1>0, <2>1 DEF AllTypeOK
  <2> QED
    BY <2>1, <2>2, <2>5, <2>6, <2>7, <2>8, RunStep
<1>3. CASE TaskStep
  <2>1. /\ Next /\ NewSource("batch") /\ run' = run
        /\ sent' = [i \in Ids |-> IF source[i] = "manual" /\ ~Ended(i)
                                      /\ Ended(i)'
                                   THEN sent[i] \cup {"task"} ELSE sent[i]]
    BY <1>3 DEF TaskStep, Next
  <2>2. \A i \in Ids :
          \/ sent'[i] = sent[i]
          \/ source[i] = "manual" /\ sent'[i] = sent[i] \cup {"task"}
    BY <2>1
  <2>3. sent' \in [Ids -> SUBSET {"task", "schedule"}]
    BY <1>0, <2>1 DEF AllTypeOK
  <2>4. AllTypeOK'
    BY <1>0, <2>1, <2>3, SourceStep DEF AllTypeOK
  <2> QED
    BY <2>1, <2>2, <2>4, RunStep
<1>4. ASSUME NEW i \in Ids, Polls(i) \/ TimesOut(i) PROVE RunInv'
  BY <1>4, RunEndsKeeps DEF Polls, TimesOut
<1>5. CASE UNCHANGED allVars
  <2>1. AllTypeOK'
    BY <1>0, <1>5 DEF AllTypeOK, allVars
  <2> QED
    BY <1>0, <1>5, <2>1
       DEF allVars, vars, RunInv, Unused, RunsOfScheduler, Reports, Recorded
<1> QED
  BY <1>1, <1>2, <1>3, <1>4, <1>5 DEF NextAll

\* What is known of runs and reports holds in every state.
LEMMA RunInvAlways == SpecAll => []RunInv
  BY RunInvInitially, RunInvStep, PTL DEF SpecAll

-----------------------------------------------------------------------------

\* Tasks, sources, runs and reports have their types in every state.
THEOREM AllTypeCorrect == SpecAll => []AllTypeOK
<1>1. RunInv => AllTypeOK
  BY DEF RunInv
<1> QED
  BY <1>1, RunInvAlways, PTL

\* What a run recorded is and remains true of its task and, for a batch that
\* succeeded, of the task on every node: a poll copies a final state, nothing
\* changes one, and the verdict of a batch says what became of its nodes.
THEOREM RunTellsOutcomeAlways == SpecAll => []RunTellsOutcome
<1>1. ASSUME RunInv PROVE RunTellsOutcome
  <2> SUFFICES ASSUME NEW i \in Ids, run[i] = "success",
                      task[i].kind \in BatchKinds, NEW n \in Members(i)
               PROVE  /\ items[i][n] \in Ids
                      /\ task[items[i][n]].state = "success"
    BY <1>1 DEF RunTellsOutcome, RunInv, Recorded
  <2>1. task[i].state = "success" /\ Ended(i)
    BY <1>1 DEF RunInv, Recorded, Ended
  <2>2. Done(i) = Members(i)
    BY <1>1, <2>1 DEF RunInv, BatchInv, BatchVerdict
  <2> QED
    BY <2>2 DEF Done
<1> QED
  BY <1>1, RunInvAlways, PTL

\* A scheduled action on one node is reported once: the task manager is silent
\* about a task whose source is not "manual", and the scheduler about a task
\* no run waits for.
THEOREM SingleReportAlways == SpecAll => []SingleReport
<1>1. ASSUME RunInv PROVE SingleReport
  <2> SUFFICES ASSUME NEW i \in Ids, task[i].kind \notin BatchKinds
               PROVE  Cardinality(sent[i]) <= 1
    BY DEF SingleReport
  <2>1. sent[i] \subseteq {"task", "schedule"}
    BY <1>1 DEF RunInv, AllTypeOK
  <2>2. ~("task" \in sent[i] /\ "schedule" \in sent[i])
    BY <1>1 DEF RunInv, Reports, RunsOfScheduler
  <2>3. sent[i] = {} \/ sent[i] = {"task"} \/ sent[i] = {"schedule"}
    BY <2>1, <2>2
  <2>4. Cardinality({}) = 0 /\ Cardinality({"task"}) = 1
        /\ Cardinality({"schedule"}) = 1
    BY FS_EmptySet, FS_Singleton
  <2> QED
    BY <2>3, <2>4
<1> QED
  BY <1>1, RunInvAlways, PTL

-----------------------------------------------------------------------------
(* Runs of one task each.                                                  *)

\* Without batches only activities end with "partial", and no run waits for
\* one of those.
Singles == \A i \in Ids :
  /\ task[i].kind \notin BatchKinds
  /\ task[i].kind = "activity" => run[i] = "none"
  /\ task[i].state = "partial" => task[i].kind = "activity"

\* A step of the managed tasks keeps that, if what it gives a run is no
\* activity.
LEMMA SinglesStep ==
  ASSUME Kinds \cap BatchKinds = {}, RunInv, Singles, Next,
         \A i \in Ids : run'[i] = run[i] \/ task'[i].kind # "activity"
  PROVE  Singles'
<1>1. ASSUME NEW kind \in UpdateKinds \cup PowerKinds \cup {"activity"},
             NEW node \in Nodes \cup {Batch},
             NEW pc \in {"submitted", "monitor"}, Create(kind, node, pc)
      PROVE  Singles'
  <2> DEFINE new == created + 1
  <2>1. /\ new \in Ids /\ task'[new].kind = kind
        /\ task'[new].state = "queued" /\ task[new].kind = "none"
        /\ \A i \in Ids \ {new} : task'[i] = task[i]
        /\ kind \notin BatchKinds
    BY <1>1, CreatedTask
       DEF RunInv, BatchInv, UpdateKinds, PowerKinds, BatchKinds
  <2>2. run[new] = "none"
    BY <2>1 DEF RunInv, Unused
  <2> QED
    BY <2>1, <2>2 DEF Singles
<1>2. ASSUME NEW i \in Ids, OneTask(i),
             task'[i].state = "partial" => task[i].kind = "activity"
      PROVE  Singles'
  BY <1>2 DEF Singles, OneTask
<1>3. ASSUME NEW i \in Ids,
             \/ Thread(i) \/ ActivityStarts(i) \/ ActivityEnds(i)
      PROVE  /\ OneTask(i)
             /\ task'[i].state = "partial" => task[i].kind = "activity"
  <2>1. OneTask(i) /\ task \in [Ids -> Task] /\ task[i] \in Task
    BY <1>3, OneTaskStep DEF RunInv, BatchInv, LockInvariant, TypeOK
  <2>2. CASE ActivityStarts(i) \/ ActivityEnds(i)
    BY <2>1, <2>2 DEF ActivityStarts, ActivityEnds
  <2>3. CASE Thread(i)
    <3>1. PICK t \in {"running", "success", "error", task[i].state},
               p \in {"check", "command", "done"} :
            task' = [task EXCEPT ![i] = [task[i] EXCEPT !.state = t, !.pc = p]]
      <4>1. task' = [task EXCEPT ![i].pc = "check"] =>
              task' = [task EXCEPT ![i] = [task[i] EXCEPT
                         !.state = task[i].state, !.pc = "check"]]
        BY <2>1 DEF Task
      <4> QED
        BY <2>3, <4>1 DEF Thread, ThreadStarts, CommandSucceeds, CommandFails,
                          End
    <3>2. task'[i].state = t
      BY <2>1, <3>1 DEF Task
    <3>3. task[i].state # "partial"
      BY <2>1 DEF OneTask, Ended
    <3> QED
      BY <2>1, <3>1, <3>2, <3>3
  <2> QED
    BY <1>3, <2>1, <2>2, <2>3
<1>4. ASSUME NEW i \in Ids PROVE ~(BatchStarts(i) \/ BatchEnds(i))
  BY DEF Singles, BatchStarts, BatchEnds
<1>5. ASSUME NEW i \in Ids, NEW n \in Nodes PROVE ~BatchHandles(i, n)
  BY DEF Singles, BatchHandles
<1>6. CASE Start
  BY <1>1, <1>6 DEF Start, StartUpdate, StartPower, StartActivity
<1> QED
  BY <1>2, <1>3, <1>4, <1>5, <1>6 DEF Next, Coroutine

\* Without batches, no run is reported as timed out whose task ended: what
\* makes a run overlook the end of its task is that the state "partial", which
\* only batches and activities end with, is none it looks for.
THEOREM TimeoutMeansUnfinishedOfTasks ==
  ASSUME Kinds \cap BatchKinds = {}
  PROVE  SpecAll => TimeoutMeansUnfinished
<1>1. InitAll => Singles
  BY DEF InitAll, Init, NoTask, Singles, BatchKinds
<1>2. RunInv /\ Singles /\ [NextAll]_allVars => Singles'
  <2> SUFFICES ASSUME RunInv, Singles, [NextAll]_allVars PROVE Singles'
    OBVIOUS
  <2>1. CASE UserStarts \/ TaskStep
    <3>1. Next /\ run' = run
      BY <2>1 DEF UserStarts, TaskStep, Next
    <3> QED
      BY <3>1, SinglesStep
  <2>2. ASSUME NEW kind \in Kinds, NEW nodes \in SUBSET Nodes,
               ScheduleStarts(kind, nodes)
        PROVE  Singles'
    <3>1. Next /\ run' = [run EXCEPT ![created + 1] = "waiting"]
      BY <2>2, ScheduleIsStart DEF Next, ScheduleStarts
    <3>2. kind \in UpdateKinds \cup PowerKinds
          /\ \E n \in Nodes : Create(kind, n, "submitted")
      BY <2>2 DEF ScheduleStarts, StartUpdate, StartPower
    <3>3. created + 1 \in Ids /\ task'[created + 1].kind = kind
      BY <3>2, CreatedTask DEF RunInv, BatchInv
    <3>4. kind # "activity"
      BY <3>2 DEF UpdateKinds, PowerKinds
    <3>5. \A i \in Ids : run'[i] = run[i] \/ task'[i].kind # "activity"
      BY <3>1, <3>3, <3>4 DEF RunInv, AllTypeOK
    <3> QED
      BY <3>1, <3>5, SinglesStep
  <2>3. ASSUME NEW i \in Ids, Polls(i) \/ TimesOut(i) PROVE Singles'
    <3>1. /\ task' = task /\ run[i] = "waiting"
          /\ \A j \in Ids \ {i} : run'[j] = run[j]
      BY <2>3 DEF Polls, TimesOut, RunEnds, vars, RunInv, AllTypeOK
    <3> QED
      BY <3>1 DEF Singles
  <2>4. CASE UNCHANGED allVars
    BY <2>4 DEF allVars, vars, Singles
  <2> QED
    BY <2>1, <2>2, <2>3, <2>4 DEF NextAll
<1>3. RunInv /\ Singles /\ [NextAll]_allVars
        => [\A i \in Ids : run[i] = "waiting" /\ run'[i] = "timeout"
                             => ~Ended(i)]_allVars
  <2> SUFFICES ASSUME RunInv, Singles, NextAll, NEW i \in Ids,
                      run[i] = "waiting", run'[i] = "timeout"
               PROVE  ~Ended(i)
    OBVIOUS
  <2>1. ASSUME NEW j \in Ids, Polls(j) PROVE FALSE
    BY <2>1 DEF Polls, RunEnds, RunInv, AllTypeOK
  <2>2. ASSUME NEW j \in Ids, TimesOut(j) PROVE ~Ended(i)
    <3>1. i = j /\ task[i].state \notin {"success", "error"}
      BY <2>2 DEF TimesOut, RunEnds, RunInv, AllTypeOK
    <3> QED
      BY <3>1 DEF Singles, Ended
  <2>3. ASSUME UserStarts \/ TaskStep PROVE FALSE
    BY <2>3 DEF UserStarts, TaskStep
  <2>4. ASSUME NEW kind \in Kinds, NEW nodes \in SUBSET Nodes,
               ScheduleStarts(kind, nodes)
        PROVE  FALSE
    BY <2>4 DEF ScheduleStarts, RunInv, AllTypeOK
  <2> QED
    BY <2>1, <2>2, <2>3, <2>4 DEF NextAll
<1> QED
  BY <1>1, <1>2, <1>3, RunInvAlways, PTL DEF SpecAll, TimeoutMeansUnfinished
=============================================================================
