------------------------ MODULE ScheduledNodeActions ------------------------
(***************************************************************************)
(* Scheduled node actions: scheduler_worker.py starting the managed tasks  *)
(* of ManagedTasks and waiting for them, next to users who start their own.*)
(*                                                                         *)
(* _execute_node_action starts a managed task and polls its state every    *)
(* second until it is final or a timeout has passed; the thread or batch   *)
(* goes on in any case.  A node that is locked makes the start itself      *)
(* raise: ScheduledTasks has that as an execution that raises.             *)
(***************************************************************************)
EXTENDS ManagedTasks

VARIABLES
  source,       \* source[i]: ManagedTask.source
  run,          \* run[i]: the scheduled run that waits for task i
  sent          \* sent[i]: notifications sent about task i and its run

allVars == <<vars, source, run, sent>>

AllTypeOK == /\ TypeOK
             /\ source \in [Ids -> {"none", "manual", "scheduler", "batch"}]
             /\ run \in [Ids -> {"none", "waiting", "success", "failed",
                                 "timeout"}]
             /\ sent \in [Ids -> SUBSET {"task", "schedule"}]

InitAll == /\ Init
           /\ source = [i \in Ids |-> "none"]
           /\ run = [i \in Ids |-> "none"]
           /\ sent = [i \in Ids |-> {}]

\* The source of the task this step creates, if it creates one.
NewSource(s) == source' = [i \in Ids |-> IF i = created + 1 /\ created' = i
                                         THEN s ELSE source[i]]

UserStarts == /\ Start
              /\ NewSource("manual")
              /\ UNCHANGED <<run, sent>>

\* Mutant of ScheduledSource: the keyword argument is left at its default.
ScheduledSourceDefault(kind) == "manual"

\* Mutant of ScheduledSource: the trigger is passed on as the source.
ScheduledSourceTrigger(kind) == "scheduled"

\* start_node_batch_action has no source parameter and says "manual".
ScheduledSource(kind) == IF kind \in BatchKinds THEN "manual" ELSE "scheduler"

\* _execute_node_action: several nodes make a batch, one node a task.
ScheduleStarts(kind, nodes) ==
  /\ \/ kind \in BatchKinds /\ Cardinality(nodes) > 1 /\ StartBatch(kind, nodes)
     \/ \E n \in Nodes : /\ nodes = {n}
                         /\ \/ kind \in UpdateKinds /\ StartUpdate(kind, n)
                            \/ kind \in PowerKinds /\ StartPower(kind, n)
  /\ NewSource(ScheduledSource(kind))
  /\ run' = [run EXCEPT ![created + 1] = "waiting"]
  /\ UNCHANGED sent

\* A step of a task; one that ends it hands it to _send_task_notification,
\* which is silent about tasks of the scheduler and is not called for the
\* children of a batch.
TaskStep ==
  /\ \E i \in Ids : Thread(i) \/ Coroutine(i)
  /\ NewSource("batch")
  /\ sent' = [i \in Ids |-> IF source[i] = "manual" /\ ~Ended(i) /\ Ended(i)'
                            THEN sent[i] \cup {"task"} ELSE sent[i]]
  /\ UNCHANGED run

\* The run ends with this result and is reported.
RunEnds(i, result) ==
  /\ run[i] = "waiting"
  /\ run' = [run EXCEPT ![i] = result]
  /\ sent' = [sent EXCEPT ![i] = @ \cup {"schedule"}]
  /\ UNCHANGED <<vars, source>>

\* Mutant of Polls: whatever is final is a success.
PollsAnyFinalState(i) == Ended(i) /\ RunEnds(i, "success")

\* One poll finds a result.
Polls(i) == \/ task[i].state = "success" /\ RunEnds(i, "success")
            \/ task[i].state = "error" /\ RunEnds(i, "failed")

\* One poll finds none, and timeout_seconds have passed.
TimesOut(i) == /\ task[i].state \notin {"success", "error"}
               /\ RunEnds(i, "timeout")

NextAll == \/ UserStarts
           \/ \E kind \in Kinds, nodes \in SUBSET Nodes :
                ScheduleStarts(kind, nodes)
           \/ TaskStep
           \/ \E i \in Ids : Polls(i) \/ TimesOut(i)

SpecAll == InitAll /\ [][NextAll]_allVars

-----------------------------------------------------------------------------

\* What a run was told remains true of its task: a run is recorded as
\* success only if its task succeeded on every node, as failed only if it
\* failed, and no later step of the task makes that wrong.
RunTellsOutcome ==
  \A i \in Ids : /\ run[i] = "success" => task[i].state = "success"
                 /\ run[i] = "failed" => task[i].state = "error"
                 /\ run[i] = "success" /\ task[i].kind \in BatchKinds =>
                      \A n \in Members(i) :
                        items[i][n] \in Ids /\ task[items[i][n]].state = "success"

\* The scheduler's own summary replaces the notification of the task it
\* started: a scheduled action on one node is reported once, however its end
\* and the end of the wait fall together.
SingleReport ==
  \A i \in Ids : task[i].kind \notin BatchKinds => Cardinality(sent[i]) <= 1

\* A run fails with "Managed task timed out." only while its task goes on.
TimeoutMeansUnfinished ==
  [][\A i \in Ids : run[i] = "waiting" /\ run'[i] = "timeout"
                      => ~Ended(i)]_allVars
=============================================================================
