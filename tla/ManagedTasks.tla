---------------------------- MODULE ManagedTasks ----------------------------
(***************************************************************************)
(* The managed tasks of tasks.py: TaskManager with its node update locks,  *)
(* the threads of update checks, update installations, package cleanups    *)
(* and power actions, batches over several nodes, and the other activities *)
(* that create managed tasks on a node.                                    *)
(*                                                                         *)
(* A node stands for the key (infrastructure_id, node).  Every method of   *)
(* TaskManager runs under its lock and is one step; what a thread does     *)
(* between two such calls interleaves with everything else.  The result of *)
(* a task and the update cache it fills are left out.                      *)
(***************************************************************************)
EXTENDS Integers, FiniteSets

CONSTANTS
  Nodes,        \* keys (infrastructure, node)
  Batch,        \* the "node" of a batch's own task
  MaxTasks,     \* bound: managed tasks created
  Workers,      \* threads of asyncio's default executor
  Kinds         \* kinds of tasks users and schedules start here

UpdateKinds == {"update-check", "update-install", "package-cleanup"}
PowerKinds == {"reboot", "shutdown"}
BatchKinds == {"batch-update-check", "batch-update-install",
               "batch-package-cleanup"}

ASSUME BatchAssumption == Batch \notin Nodes
ASSUME MaxTasksAssumption == MaxTasks \in Nat
ASSUME WorkersAssumption == Workers \in Nat \ {0}
ASSUME KindsAssumption ==
  Kinds \subseteq UpdateKinds \cup PowerKinds \cup BatchKinds \cup {"activity"}

VARIABLES
  created,      \* number of tasks created: tasks 1 .. created exist
  task,         \* task[i]: the ManagedTask and the thread executing it
  items,        \* items[i][n]: node n in batch i, see Item
  locks,        \* TaskManager._node_update_locks
  released      \* history: nodes whose lock fell to a task without it

vars == <<created, task, items, locks, released>>

Ids == 1 .. MaxTasks

Task == [kind: {"none", "activity"} \cup UpdateKinds \cup PowerKinds
               \cup BatchKinds,
         node: Nodes \cup {Batch},
         state: {"queued", "running", "success", "partial", "error"},
         pc: {"none", "submitted", "command", "check", "gather",
              "monitor", "done"}]

\* A node of a batch is not selected, about to be handled, refused because
\* its lock was taken, or executed by the child task of that number.
Item == {-3, -2, -1} \cup Ids
Unselected == -3
Pending == -2
Refused == -1

NoTask == [kind |-> "none", node |-> Batch, state |-> "queued", pc |-> "none"]

TypeOK == /\ created \in 0 .. MaxTasks
          /\ task \in [Ids -> Task]
          /\ items \in [Ids -> [Nodes -> Item]]
          /\ locks \subseteq Nodes
          /\ released \subseteq Nodes

Init == /\ created = 0
        /\ task = [i \in Ids |-> NoTask]
        /\ items = [i \in Ids |-> [n \in Nodes |-> Unselected]]
        /\ locks = {}
        /\ released = {}

-----------------------------------------------------------------------------
(* TaskManager.                                                            *)

Ended(i) == task[i].state \in {"success", "partial", "error"}

\* An update action is under way from its reservation to its end.
UpdateActive(i) == task[i].kind \in UpdateKinds /\ ~Ended(i)

\* create: the next task, in state "queued".
Create(kind, node, pc) ==
  /\ created < MaxTasks
  /\ created' = created + 1
  /\ task' = [task EXCEPT ![created + 1] = [NoTask EXCEPT !.kind = kind,
                                                          !.node = node,
                                                          !.pc = pc]]

\* Mutant of Reserve: the test and the insertion are two calls.
ReserveUntested(n) == locks' = locks \cup {n}

\* reserve_update, when it returns True.
Reserve(n) == n \notin locks /\ locks' = locks \cup {n}

\* Mutant of Release: only the task that ended well frees its node.
ReleaseOnSuccess(i, state) ==
  /\ locks' = IF state = "success" THEN locks \ {task[i].node} ELSE locks
  /\ UNCHANGED released

\* Mutant of Release: a finished task frees every node.
ReleaseAll(i, state) == locks' = {} /\ UNCHANGED released

\* finish and fail discard the lock of the task's node, whatever the task
\* is; partial does not.
Release(i, state) ==
  IF state = "partial" THEN UNCHANGED <<locks, released>>
  ELSE /\ locks' = locks \ {task[i].node}
       /\ released' = IF task[i].kind \in UpdateKinds THEN released
                      ELSE released \cup ({task[i].node} \cap locks)

End(i, state) ==
  /\ task' = [task EXCEPT ![i].state = state, ![i].pc = "done"]
  /\ Release(i, state)

-----------------------------------------------------------------------------
(* Starting tasks: the routes and the scheduler worker.                    *)

\* Bound: the numbers left suffice for k tasks and the children still owed.
Room(k) == created + k + Cardinality({p \in Ids \X Nodes :
                                        items[p[1]][p[2]] = Pending})
           <= MaxTasks

\* start_update_check, start_update_install, start_package_cleanup.
StartUpdate(kind, n) ==
  /\ Room(1)
  /\ Reserve(n)
  /\ Create(kind, n, "submitted")
  /\ UNCHANGED <<items, released>>

\* start_power_action reserves nothing.
StartPower(kind, n) ==
  /\ Room(1)
  /\ Create(kind, n, "submitted")
  /\ UNCHANGED <<items, locks, released>>

\* Guest actions, maintenance, backups, snapshots, restores, migrations: a
\* coroutine and a managed task on the node, no reservation.
StartActivity(n) ==
  /\ Room(1)
  /\ Create("activity", n, "monitor")
  /\ UNCHANGED <<items, locks, released>>

\* start_node_batch_action
StartBatch(kind, nodes) ==
  /\ Room(1 + Cardinality(nodes))
  /\ Create(kind, Batch, "submitted")
  /\ items' = [items EXCEPT ![created + 1] =
                 [n \in Nodes |-> IF n \in nodes THEN Pending ELSE Unselected]]
  /\ UNCHANGED <<locks, released>>

-----------------------------------------------------------------------------
(* Threads.                                                                *)

\* Mutant of InThread: a batch waits for its children in a thread.
InThreadOrGathering(i) == task[i].pc \in {"command", "check", "gather"}

InThread(i) == task[i].pc \in {"command", "check"}

\* The executor gives a submitted function a thread; manager.start.
ThreadStarts(i) ==
  /\ task[i].kind \in UpdateKinds \cup PowerKinds
  /\ task[i].pc = "submitted"
  /\ Cardinality({j \in Ids : InThread(j)}) < Workers
  /\ task' = [task EXCEPT ![i].state = "running",
                          ![i].pc = IF task[i].kind = "update-check"
                                    THEN "check" ELSE "command"]
  /\ UNCHANGED <<created, items, locks, released>>

\* Code 0 from the remote command of an installation, whose thread goes on
\* with an update check; and from any other, which ends the task.
CommandSucceeds(i) ==
  /\ \/ /\ task[i].pc = "command" /\ task[i].kind = "update-install"
        /\ task' = [task EXCEPT ![i].pc = "check"]
        /\ UNCHANGED <<locks, released>>
     \/ /\ \/ task[i].pc = "command" /\ task[i].kind # "update-install"
           \/ task[i].pc = "check"
        /\ End(i, "success")
  /\ UNCHANGED <<created, items>>

\* Mutant of CommandFails: the thread goes on after manager.fail.
CommandFailsUnnoticed(i) ==
  /\ task[i].pc \in {"command", "check"}
  /\ task' = [task EXCEPT ![i].state = "error"]
  /\ Release(i, "error")
  /\ UNCHANGED <<created, items>>

\* A remote command exits with another code, or the connection is lost.
CommandFails(i) ==
  /\ task[i].pc \in {"command", "check"}
  /\ End(i, "error")
  /\ UNCHANGED <<created, items>>

-----------------------------------------------------------------------------
(* Coroutines: activities and batches.                                     *)

ActivityStarts(i) ==
  /\ task[i].kind = "activity"
  /\ task[i].state = "queued"
  /\ task' = [task EXCEPT ![i].state = "running"]
  /\ UNCHANGED <<created, items, locks, released>>

\* Also with "partial": a migration whose cleanup did not succeed.
ActivityEnds(i) ==
  /\ task[i].kind = "activity"
  /\ task[i].state = "running"
  /\ \E state \in {"success", "partial", "error"} : End(i, state)
  /\ UNCHANGED <<created, items>>

BatchStarts(i) ==
  /\ task[i].kind \in BatchKinds
  /\ task[i].pc = "submitted"
  /\ task' = [task EXCEPT ![i].state = "running", ![i].pc = "gather"]
  /\ UNCHANGED <<created, items, locks, released>>

\* kind_map, for the children of a batch.
ChildKind == [kind \in BatchKinds |->
  CASE kind = "batch-update-check"    -> "update-check"
    [] kind = "batch-update-install"  -> "update-install"
    [] kind = "batch-package-cleanup" -> "package-cleanup"]

\* execute_node up to its await: the node is refused, or reserved and given
\* a hidden child task.
BatchHandles(i, n) ==
  /\ task[i].kind \in BatchKinds
  /\ task[i].pc = "gather"
  /\ items[i][n] = Pending
  /\ \/ /\ n \in locks
        /\ items' = [items EXCEPT ![i][n] = Refused]
        /\ UNCHANGED <<created, task, locks>>
     \/ /\ Reserve(n)
        /\ Create(ChildKind[task[i].kind], n, "submitted")
        /\ items' = [items EXCEPT ![i][n] = created + 1]
  /\ UNCHANGED released

\* The nodes of a batch, those that were done, and those that were not.
Members(i) == {n \in Nodes : items[i][n] # Unselected}
Done(i) == {n \in Members(i) : /\ items[i][n] \in Ids
                               /\ task[items[i][n]].state = "success"}
Gathered(i) == \A n \in Members(i) : \/ items[i][n] = Refused
                                     \/ /\ items[i][n] \in Ids
                                        /\ Ended(items[i][n])

\* finish, partial or fail, by the count of failed and successful nodes.
Verdict(i) == IF Members(i) \ Done(i) = {} THEN "success"
              ELSE IF Done(i) # {} THEN "partial" ELSE "error"

\* Mutant of BatchEnds: the except clause, reached because the audit event of
\* a partial result is rejected, fails the task in any state.
BatchEndsFailing(i) ==
  /\ task[i].kind \in BatchKinds
  /\ task[i].pc = "gather"
  /\ Gathered(i)
  /\ End(i, IF Verdict(i) = "partial" THEN "error" ELSE Verdict(i))
  /\ UNCHANGED <<created, items>>

\* After the gather, without an await.
BatchEnds(i) ==
  /\ task[i].kind \in BatchKinds
  /\ task[i].pc = "gather"
  /\ Gathered(i)
  /\ End(i, Verdict(i))
  /\ UNCHANGED <<created, items>>

-----------------------------------------------------------------------------

Start == \/ \E n \in Nodes :
              \/ \E kind \in Kinds \cap UpdateKinds : StartUpdate(kind, n)
              \/ \E kind \in Kinds \cap PowerKinds : StartPower(kind, n)
              \/ "activity" \in Kinds /\ StartActivity(n)
         \/ \E kind \in Kinds \cap BatchKinds, nodes \in (SUBSET Nodes) \ {{}} :
              StartBatch(kind, nodes)

Thread(i) == ThreadStarts(i) \/ CommandSucceeds(i) \/ CommandFails(i)

Coroutine(i) == \/ ActivityStarts(i) \/ ActivityEnds(i)
                \/ BatchStarts(i) \/ BatchEnds(i)
                \/ \E n \in Nodes : BatchHandles(i, n)

Next == \/ Start
        \/ \E i \in Ids : Thread(i) \/ Coroutine(i)

Spec == Init /\ [][Next]_vars

\* Threads and coroutines are scheduled, and remote commands come to an end.
Fairness == \A i \in Ids : WF_vars(Thread(i)) /\ WF_vars(Coroutine(i))

FairSpec == Spec /\ Fairness

-----------------------------------------------------------------------------
(* What the task manager promises.                                         *)

\* "An update action is already running on this node.": two update actions
\* never work on one node at a time.
UpdateMutex ==
  \A i, j \in Ids : /\ UpdateActive(i) /\ UpdateActive(j)
                    /\ task[i].node = task[j].node
                    => i = j

\* Two update actions meet on a node only after some other task, a power
\* action or an activity, ended there and took the lock of a running update
\* action away.
MutexUnlessReleased ==
  \A i, j \in Ids : /\ UpdateActive(i) /\ UpdateActive(j)
                    /\ task[i].node = task[j].node
                    => i = j \/ task[i].node \in released

\* A locked node is locked by an update action that is under way, also after
\* a failed connection or a refused batch member: no node stays refused.
NoLockLeak == \A n \in locks : \E i \in Ids : /\ UpdateActive(i)
                                              /\ task[i].node = n

\* What the two rest on: where no lock was taken away, an update action under
\* way holds its node's; a number not yet given out is no task.
LocksHeld == \A i \in Ids :
  UpdateActive(i) => \/ task[i].node \in locks
                     \/ task[i].node \in released

Numbering == \A i \in Ids : i > created => task[i].kind = "none"

\* Update actions are created on nodes.
OnNodes == \A i \in Ids : task[i].kind \in UpdateKinds => task[i].node \in Nodes

\* A task whose thread or coroutine goes on has not ended.
Working == \A i \in Ids : task[i].pc # "done" => ~Ended(i)

LockInvariant == /\ TypeOK /\ Numbering /\ OnNodes /\ Working
                 /\ LocksHeld /\ MutexUnlessReleased /\ NoLockLeak

\* The state of an ended batch says, then and for ever, what came of its
\* nodes: each was refused or has a child task of its own that ended; all of
\* them succeeded, none did, or some did.
BatchVerdict ==
  \A i \in Ids : task[i].kind \in BatchKinds /\ Ended(i) =>
    /\ \A n \in Members(i) : \/ items[i][n] = Refused
                             \/ /\ items[i][n] \in Ids
                                /\ Ended(items[i][n])
                                /\ task[items[i][n]].node = n
    /\ task[i].state = "success" <=> Done(i) = Members(i)
    /\ task[i].state = "error" <=> Done(i) = {}

\* A state that ended a task is final: no later failure, in a notification or
\* an audit event, turns it into another, and no thread starts it again.
EndedIsFinal ==
  [][\A i \in Ids : Ended(i) => task'[i].state = task[i].state]_vars

\* Every task ends, however few threads the executor has: a batch does not
\* keep the threads its children wait for.
TasksEnd == \A i \in Ids : i <= created ~> Ended(i)
=============================================================================
