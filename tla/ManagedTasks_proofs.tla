------------------------ MODULE ManagedTasks_proofs ------------------------
(***************************************************************************)
(* Proofs about the node update locks of ManagedTasks and the verdicts of  *)
(* its batches, for any nodes, any number of tasks and of threads, and any *)
(* kinds of tasks.                                                         *)
(***************************************************************************)
EXTENDS ManagedTasks, TLAPS

\* A step that gives out no number, moves no lock and neither ends a task
\* nor makes it another task leaves the lock invariant alone.
LEMMA QuietStep ==
  ASSUME LockInvariant, TypeOK', Working', OnNodes',
         UNCHANGED <<created, locks, released>>,
         \A i \in Ids : /\ task'[i].kind = task[i].kind
                        /\ task'[i].node = task[i].node
                        /\ Ended(i)' <=> Ended(i)
  PROVE  LockInvariant'
<1>1. \A i \in Ids : UpdateActive(i)' <=> UpdateActive(i)
  BY DEF UpdateActive
<1>2. Numbering'
  BY DEF LockInvariant, Numbering
<1>3. LocksHeld' /\ MutexUnlessReleased' /\ NoLockLeak'
  BY <1>1 DEF LockInvariant, LocksHeld, MutexUnlessReleased, NoLockLeak
<1>4. QED
  BY <1>2, <1>3 DEF LockInvariant

\* What a new task is, and that it leaves the others as they were.
LEMMA CreatedTask ==
  ASSUME LockInvariant, NEW kind, NEW node, NEW pc, Create(kind, node, pc),
         pc \in {"submitted", "monitor"},
         kind \in UpdateKinds \cup PowerKinds \cup BatchKinds \cup {"activity"},
         node \in Nodes \cup {Batch}
  PROVE  /\ created + 1 \in Ids
         /\ created' \in 0 .. MaxTasks
         /\ task' \in [Ids -> Task]
         /\ task'[created + 1].kind = kind
         /\ task'[created + 1].node = node
         /\ task'[created + 1].pc = pc
         /\ task'[created + 1].state = "queued"
         /\ task[created + 1].kind = "none"
         /\ \A i \in Ids \ {created + 1} : task'[i] = task[i]
         /\ Numbering' /\ Working'
<1> DEFINE new == [NoTask EXCEPT !.kind = kind, !.node = node, !.pc = pc]
<1>1. /\ created \in Nat /\ created < MaxTasks /\ created' = created + 1
      /\ created + 1 \in Ids
  BY MaxTasksAssumption DEF LockInvariant, TypeOK, Create, Ids
<1>2. new \in Task /\ new.kind = kind /\ new.node = node
      /\ new.pc = pc /\ new.state = "queued"
  BY DEF NoTask, Task
<1>3. task' = [task EXCEPT ![created + 1] = new]
  BY DEF Create
<1>4. task \in [Ids -> Task]
  BY DEF LockInvariant, TypeOK
<1>5. task'[created + 1] = new /\ task' \in [Ids -> Task]
      /\ \A i \in Ids \ {created + 1} : task'[i] = task[i]
  BY <1>1, <1>2, <1>3, <1>4
<1>6. task'[created + 1].state = "queued"
  BY <1>2, <1>5
<1>7. Working'
  BY <1>5, <1>6 DEF LockInvariant, Working, Ended
<1>8. task[created + 1].kind = "none"
  BY <1>1 DEF LockInvariant, Numbering
<1>9. Numbering'
  BY <1>1, <1>5 DEF LockInvariant, Numbering, Ids
<1>10. created' \in 0 .. MaxTasks
  BY <1>1, MaxTasksAssumption
<1>11. QED
  BY <1>1, <1>2, <1>5, <1>6, <1>7, <1>8, <1>9, <1>10

\* A new task that is no update action needs no lock.
LEMMA CreateWithoutLock ==
  ASSUME LockInvariant, TypeOK',
         NEW kind \in PowerKinds \cup BatchKinds \cup {"activity"},
         NEW node \in Nodes \cup {Batch}, NEW pc \in {"submitted", "monitor"},
         kind \in PowerKinds => node \in Nodes,
         Create(kind, node, pc), UNCHANGED <<locks, released>>
  PROVE  LockInvariant'
<1> DEFINE new == created + 1
<1>1. /\ new \in Ids /\ task'[new].kind = kind /\ task[new].kind = "none"
      /\ task'[new].node = node /\ task'[new].pc = pc
      /\ \A i \in Ids \ {new} : task'[i] = task[i]
      /\ Numbering' /\ Working'
  BY CreatedTask
<1>2. kind \notin UpdateKinds /\ "none" \notin UpdateKinds
  BY DEF UpdateKinds, PowerKinds, BatchKinds
<1>3. \A i \in Ids : /\ UpdateActive(i)' <=> UpdateActive(i)
                     /\ task'[i].kind \in UpdateKinds => task'[i] = task[i]
  BY <1>1, <1>2 DEF UpdateActive, Ended
<1>4. OnNodes'
  <2>1. OnNodes /\ \A i \in Ids \ {new} : task'[i] = task[i]
    BY <1>1 DEF LockInvariant
  <2>2. QED
    BY <1>1, <1>2, <2>1 DEF OnNodes
<1>5. \A i \in Ids : UpdateActive(i)' => task'[i].node = task[i].node
  BY <1>3 DEF UpdateActive
<1>6. LocksHeld' /\ MutexUnlessReleased'
  BY <1>3, <1>5 DEF LockInvariant, LocksHeld, MutexUnlessReleased
<1>7. NoLockLeak'
  BY <1>3, <1>5 DEF LockInvariant, NoLockLeak
<1>8. QED
  BY <1>1, <1>4, <1>6, <1>7 DEF LockInvariant

\* An update action is created on a node it reserved.
LEMMA CreateReserved ==
  ASSUME LockInvariant, TypeOK',
         NEW kind \in UpdateKinds, NEW n \in Nodes,
         Reserve(n), Create(kind, n, "submitted"), UNCHANGED released
  PROVE  LockInvariant'
<1> DEFINE new == created + 1
<1>1. /\ new \in Ids /\ task'[new].kind = kind /\ task'[new].node = n
      /\ task'[new].state = "queued" /\ task[new].kind = "none"
      /\ \A i \in Ids \ {new} : task'[i] = task[i]
      /\ Numbering' /\ Working'
  BY CreatedTask
<1>2. n \notin locks /\ locks' = locks \cup {n}
  BY DEF Reserve
<1>3. \A i \in Ids : i = new => ~UpdateActive(i) /\ UpdateActive(i)'
  BY <1>1 DEF UpdateActive, UpdateKinds, Ended
<1>4. \A i \in Ids \ {new} : /\ UpdateActive(i)' <=> UpdateActive(i)
                             /\ task'[i].node = task[i].node
                             /\ task'[i].kind = task[i].kind
  BY <1>1 DEF UpdateActive, Ended
<1>5. OnNodes'
  BY <1>1 DEF LockInvariant, OnNodes
<1>6. LocksHeld'
  BY <1>1, <1>2, <1>4 DEF LockInvariant, LocksHeld
<1>7. \A i \in Ids \ {new} : UpdateActive(i) /\ task[i].node = n
                               => n \in released
  BY <1>2 DEF LockInvariant, LocksHeld
<1>8. MutexUnlessReleased'
  <2> SUFFICES ASSUME NEW i \in Ids, NEW j \in Ids, i # j,
                      UpdateActive(i)', UpdateActive(j)',
                      task'[i].node = task'[j].node
               PROVE  task'[i].node \in released
    BY DEF MutexUnlessReleased
  <2>1. CASE i = new
    BY <1>1, <1>4, <1>7, <2>1
  <2>2. CASE j = new
    BY <1>1, <1>4, <1>7, <2>2
  <2>3. CASE i # new /\ j # new
    BY <1>4, <2>3 DEF LockInvariant, MutexUnlessReleased
  <2>4. QED
    BY <2>1, <2>2, <2>3
<1>9. NoLockLeak'
  <2> SUFFICES ASSUME NEW m \in locks'
               PROVE  \E i \in Ids : UpdateActive(i)' /\ task'[i].node = m
    BY DEF NoLockLeak
  <2>1. CASE m = n
    BY <1>1, <1>3, <2>1
  <2>2. CASE m \in locks
    <3>1. PICK i \in Ids : UpdateActive(i) /\ task[i].node = m
      BY <2>2 DEF LockInvariant, NoLockLeak
    <3>2. i # new
      BY <1>3, <3>1
    <3>3. QED
      BY <1>4, <3>1, <3>2
  <2>3. QED
    BY <1>2, <2>1, <2>2
<1>10. QED
  BY <1>1, <1>5, <1>6, <1>8, <1>9 DEF LockInvariant

\* A task ends: its own lock falls, or one that is recorded as released.
LEMMA TaskEnds ==
  ASSUME LockInvariant, TypeOK', NEW i \in Ids, ~Ended(i),
         NEW state \in {"success", "partial", "error"},
         task[i].kind \in UpdateKinds => state # "partial",
         End(i, state), UNCHANGED created
  PROVE  LockInvariant'
<1> DEFINE node == task[i].node
<1>1. task \in [Ids -> Task] /\ locks \subseteq Nodes
  BY DEF LockInvariant, TypeOK
<1>2. /\ task'[i].kind = task[i].kind /\ task'[i].node = node
      /\ task'[i].state = state /\ task'[i].pc = "done"
      /\ \A j \in Ids \ {i} : task'[j] = task[j]
  BY <1>1 DEF End, Task
<1>3. ~UpdateActive(i)'
  BY <1>2 DEF UpdateActive, Ended
<1>4. \A j \in Ids \ {i} : /\ UpdateActive(j)' <=> UpdateActive(j)
                           /\ task'[j] = task[j]
  BY <1>2 DEF UpdateActive, Ended
<1>5. Numbering' /\ OnNodes' /\ Working'
  BY <1>2 DEF LockInvariant, Numbering, OnNodes, Working, Ended
<1>6. CASE state = "partial"
  <2>1. locks' = locks /\ released' = released
    BY <1>6 DEF End, Release
  <2>2. ~UpdateActive(i)
    BY <1>6 DEF UpdateActive
  <2>3. \A j \in Ids : UpdateActive(j) => j # i
    BY <2>2
  <2>4. LocksHeld' /\ MutexUnlessReleased' /\ NoLockLeak'
    BY <1>3, <1>4, <2>1, <2>3
    DEF LockInvariant, LocksHeld, MutexUnlessReleased, NoLockLeak
  <2>5. QED
    BY <1>5, <2>4 DEF LockInvariant
<1>7. CASE state # "partial"
  <2>1. /\ locks' = locks \ {node}
        /\ released \subseteq released'
        /\ task[i].kind \notin UpdateKinds /\ node \in locks
             => node \in released'
    BY <1>7 DEF End, Release
  <2>2. MutexUnlessReleased'
    BY <1>3, <1>4, <2>1 DEF LockInvariant, MutexUnlessReleased
  <2>3. LocksHeld'
    <3> SUFFICES ASSUME NEW j \in Ids, UpdateActive(j)'
                 PROVE  task'[j].node \in locks' \/ task'[j].node \in released'
      BY DEF LocksHeld
    <3>1. j # i /\ UpdateActive(j) /\ task'[j].node = task[j].node
      BY <1>3, <1>4
    <3>2. task[j].node \in locks \/ task[j].node \in released
      BY <3>1 DEF LockInvariant, LocksHeld
    <3>3. CASE task[i].kind \in UpdateKinds /\ task[j].node = node
      <4>1. UpdateActive(i)
        BY <3>3 DEF UpdateActive
      <4>2. QED
        BY <2>1, <3>1, <3>3, <4>1 DEF LockInvariant, MutexUnlessReleased
    <3>4. QED
      BY <2>1, <3>1, <3>2, <3>3
  <2>4. NoLockLeak'
    <3> SUFFICES ASSUME NEW n \in locks'
                 PROVE  \E j \in Ids : UpdateActive(j)' /\ task'[j].node = n
      BY DEF NoLockLeak
    <3>1. PICK j \in Ids : UpdateActive(j) /\ task[j].node = n
      BY <2>1 DEF LockInvariant, NoLockLeak
    <3>2. j # i
      BY <2>1, <3>1
    <3>3. QED
      BY <1>4, <3>1, <3>2
  <2>5. QED
    BY <1>5, <2>2, <2>3, <2>4 DEF LockInvariant
<1>8. QED
  BY <1>6, <1>7

-----------------------------------------------------------------------------
(* One lemma per group of actions.                                         *)

\* Ending a task keeps every type.
LEMMA EndType ==
  ASSUME TypeOK, NEW i \in Ids, NEW state \in {"success", "partial", "error"},
         End(i, state)
  PROVE  /\ task' \in [Ids -> Task]
         /\ locks' \subseteq Nodes /\ released' \subseteq Nodes
<1>1. [task[i] EXCEPT !.state = state, !.pc = "done"] \in Task
  BY DEF TypeOK, Task
<1>2. task' \in [Ids -> Task]
  BY <1>1 DEF TypeOK, End
<1>3. locks' \subseteq Nodes /\ released' \subseteq Nodes
  BY DEF TypeOK, End, Release
<1>4. QED
  BY <1>2, <1>3

\* Starting a task of any kind.
LEMMA StartKeepsLocks == ASSUME LockInvariant, Start PROVE LockInvariant'
<1>1. TypeOK
  BY DEF LockInvariant
<1>2. ASSUME NEW n \in Nodes, NEW kind \in UpdateKinds, StartUpdate(kind, n)
      PROVE  LockInvariant'
  <2>1. Reserve(n) /\ Create(kind, n, "submitted") /\ UNCHANGED released
    BY <1>2 DEF StartUpdate
  <2>2. TypeOK'
    BY <1>1, <1>2, <2>1, CreatedTask DEF TypeOK, StartUpdate, Reserve
  <2>3. QED
    BY <2>1, <2>2, CreateReserved
<1>3. ASSUME NEW n \in Nodes, NEW kind \in PowerKinds, StartPower(kind, n)
      PROVE  LockInvariant'
  <2>1. Create(kind, n, "submitted") /\ UNCHANGED <<locks, released>>
    BY <1>3 DEF StartPower
  <2>2. TypeOK'
    BY <1>1, <1>3, <2>1, CreatedTask DEF TypeOK, StartPower
  <2>3. QED
    BY <2>1, <2>2, CreateWithoutLock
<1>4. ASSUME NEW n \in Nodes, StartActivity(n) PROVE LockInvariant'
  <2>1. Create("activity", n, "monitor") /\ UNCHANGED <<locks, released>>
    BY <1>4 DEF StartActivity
  <2>2. TypeOK'
    BY <1>1, <1>4, <2>1, CreatedTask DEF TypeOK, StartActivity
  <2>3. QED
    BY <2>1, <2>2, CreateWithoutLock
<1>5. ASSUME NEW nodes \in SUBSET Nodes, NEW kind \in BatchKinds,
             StartBatch(kind, nodes)
      PROVE  LockInvariant'
  <2> DEFINE new == [n \in Nodes |-> IF n \in nodes THEN Pending
                                                    ELSE Unselected]
  <2>1. Create(kind, Batch, "submitted") /\ UNCHANGED <<locks, released>>
    BY <1>5 DEF StartBatch
  <2>2. items' \in [Ids -> [Nodes -> Item]]
    <3>1. new \in [Nodes -> Item]
      BY DEF Item, Pending, Unselected
    <3>2. items' = [items EXCEPT ![created + 1] = new]
      BY <1>5 DEF StartBatch
    <3>3. QED
      BY <1>1, <3>1, <3>2 DEF TypeOK
  <2>3. TypeOK'
    BY <1>1, <1>5, <2>1, <2>2, CreatedTask DEF TypeOK, StartBatch
  <2>4. QED
    BY <2>1, <2>3, CreateWithoutLock DEF BatchKinds, PowerKinds
<1>6. QED
  BY <1>2, <1>3, <1>4, <1>5 DEF Start

\* The steps of a thread.
LEMMA ThreadKeepsLocks ==
  ASSUME LockInvariant, NEW i \in Ids, Thread(i) PROVE LockInvariant'
<1> DEFINE node == task[i].node
<1>1. /\ TypeOK /\ task \in [Ids -> Task] /\ task[i] \in Task
      /\ \A j \in Ids : task[j].pc # "done" => ~Ended(j)
  BY DEF LockInvariant, TypeOK, Working
<1>3. CASE ThreadStarts(i)
  <2> DEFINE new == [task[i] EXCEPT
                       !.state = "running",
                       !.pc = IF task[i].kind = "update-check"
                              THEN "check" ELSE "command"]
  <2>1. /\ task' = [task EXCEPT ![i] = new] /\ new \in Task
        /\ new.kind = task[i].kind /\ new.node = task[i].node
        /\ new.state = "running" /\ ~Ended(i)
    BY <1>1, <1>3 DEF ThreadStarts, Task
  <2>2. TypeOK'
    BY <1>1, <1>3, <2>1 DEF TypeOK, ThreadStarts
  <2>3. \A j \in Ids : /\ task'[j].kind = task[j].kind
                       /\ task'[j].node = task[j].node
                       /\ Ended(j)' <=> Ended(j)
    BY <1>1, <2>1 DEF Ended
  <2>4. Working' /\ OnNodes'
    BY <1>1, <1>3, <2>1
    DEF LockInvariant, Working, OnNodes, Ended, ThreadStarts
  <2>5. QED
    BY <1>3, <2>2, <2>3, <2>4, QuietStep DEF ThreadStarts
<1>4. CASE /\ task[i].pc = "command"
           /\ task' = [task EXCEPT ![i] = [task[i] EXCEPT !.pc = "check"]]
           /\ UNCHANGED <<created, items, locks, released>>
  <2>1. [task[i] EXCEPT !.pc = "check"] \in Task
    BY <1>1 DEF Task
  <2>2. /\ task' \in [Ids -> Task]
        /\ \A j \in Ids : /\ task'[j].kind = task[j].kind
                          /\ task'[j].node = task[j].node
                          /\ task'[j].state = task[j].state
        /\ \A j \in Ids \ {i} : task'[j] = task[j]
    BY <1>1, <1>4, <2>1 DEF Task
  <2>3. TypeOK'
    BY <1>1, <1>4, <2>2 DEF TypeOK
  <2>4. ~Ended(i)
    BY <1>1, <1>4
  <2>5. Working' /\ OnNodes' /\ \A j \in Ids : Ended(j)' <=> Ended(j)
    BY <1>1, <2>2, <2>4 DEF LockInvariant, Working, OnNodes, Ended
  <2>6. QED
    BY <1>4, <2>2, <2>3, <2>5, QuietStep
<1>5. ASSUME NEW state \in {"success", "error"}, End(i, state),
             task[i].pc \in {"command", "check"}, UNCHANGED <<created, items>>
      PROVE  LockInvariant'
  <2>1. ~Ended(i)
    BY <1>1, <1>5
  <2>2. TypeOK'
    BY <1>1, <1>5, EndType DEF TypeOK
  <2>3. QED
    BY <1>5, <2>1, <2>2, TaskEnds
<1>6. CASE CommandSucceeds(i) \/ CommandFails(i)
  BY <1>4, <1>5, <1>6 DEF CommandSucceeds, CommandFails
<1>7. QED
  BY <1>3, <1>6 DEF Thread

\* The steps of a coroutine.
LEMMA CoroutineKeepsLocks ==
  ASSUME LockInvariant, NEW i \in Ids, Coroutine(i) PROVE LockInvariant'
<1>1. /\ TypeOK /\ task \in [Ids -> Task] /\ task[i] \in Task
      /\ \A j \in Ids : task[j].pc # "done" => ~Ended(j)
  BY DEF LockInvariant, TypeOK, Working
<1>2. CASE ActivityStarts(i) \/ BatchStarts(i)
  <2>1. PICK pc \in {task[i].pc, "gather"} :
          task' = [task EXCEPT ![i] = [task[i] EXCEPT !.state = "running",
                                                      !.pc = pc]]
    <3>1. CASE ActivityStarts(i)
      <4>1. [task[i] EXCEPT !.state = "running"]
              = [task[i] EXCEPT !.state = "running", !.pc = task[i].pc]
        BY <1>1 DEF Task
      <4>2. QED
        BY <3>1, <4>1 DEF ActivityStarts
    <3>2. CASE BatchStarts(i)
      BY <3>2 DEF BatchStarts
    <3>3. QED
      BY <1>2, <3>1, <3>2
  <2>2. [task[i] EXCEPT !.state = "running", !.pc = pc] \in Task
    BY <1>1, <2>1 DEF Task
  <2>3. /\ task' \in [Ids -> Task]
        /\ task'[i].state = "running" /\ task'[i].pc = pc
        /\ \A j \in Ids \ {i} : task'[j] = task[j]
        /\ \A j \in Ids : /\ task'[j].kind = task[j].kind
                          /\ task'[j].node = task[j].node
    BY <1>1, <2>1, <2>2 DEF Task
  <2>4. /\ ~Ended(i)
        /\ UNCHANGED <<created, items, locks, released>>
    BY <1>1, <1>2 DEF ActivityStarts, BatchStarts, Ended
  <2>5. TypeOK'
    BY <1>1, <2>3, <2>4 DEF TypeOK
  <2>6. \A j \in Ids : Ended(j)' <=> Ended(j)
    BY <2>3, <2>4 DEF Ended
  <2>7. Working'
    BY <1>1, <2>3, <2>4 DEF Working, Ended
  <2>8. OnNodes'
    BY <2>3 DEF LockInvariant, OnNodes
  <2>9. QED
    BY <2>3, <2>4, <2>5, <2>6, <2>7, <2>8, QuietStep
<1>3. CASE ActivityEnds(i)
  <2>1. PICK state \in {"success", "partial", "error"} : End(i, state)
    BY <1>3 DEF ActivityEnds
  <2>2. /\ ~Ended(i) /\ task[i].kind \notin UpdateKinds
        /\ UNCHANGED <<created, items>>
    BY <1>3 DEF ActivityEnds, Ended, UpdateKinds
  <2>3. TypeOK'
    BY <1>1, <2>1, <2>2, EndType DEF TypeOK
  <2>4. QED
    BY <2>1, <2>2, <2>3, TaskEnds
<1>4. CASE BatchEnds(i)
  <2>1. /\ Verdict(i) \in {"success", "partial", "error"}
        /\ End(i, Verdict(i))
    BY <1>4 DEF BatchEnds, Verdict
  <2>2. /\ ~Ended(i) /\ task[i].kind \notin UpdateKinds
        /\ UNCHANGED <<created, items>>
    BY <1>1, <1>4 DEF BatchEnds, UpdateKinds, BatchKinds
  <2>3. TypeOK'
    BY <1>1, <2>1, <2>2, EndType DEF TypeOK
  <2>4. QED
    BY <2>1, <2>2, <2>3, TaskEnds
<1>5. ASSUME NEW n \in Nodes, BatchHandles(i, n) PROVE LockInvariant'
  <2> DEFINE kind == ChildKind[task[i].kind]
  <2>1. kind \in UpdateKinds
    BY <1>5 DEF BatchHandles, BatchKinds, ChildKind, UpdateKinds
  <2>2. CASE UNCHANGED <<created, task, locks>>
             /\ items' = [items EXCEPT ![i][n] = Refused]
    <3>1. items' \in [Ids -> [Nodes -> Item]]
      BY <1>1, <2>2 DEF TypeOK, Item, Refused
    <3>2. TypeOK'
      BY <1>1, <1>5, <2>2, <3>1 DEF TypeOK, BatchHandles
    <3>3. QED
      BY <1>5, <2>2, <3>2, QuietStep
      DEF BatchHandles, LockInvariant, Working, OnNodes, Ended
  <2>3. CASE Reserve(n) /\ Create(kind, n, "submitted")
             /\ items' = [items EXCEPT ![i][n] = created + 1]
    <3>1. /\ created + 1 \in Ids /\ created' \in 0 .. MaxTasks
          /\ task' \in [Ids -> Task]
      BY <2>1, <2>3, CreatedTask
    <3>2. items' \in [Ids -> [Nodes -> Item]]
      BY <1>1, <2>3, <3>1 DEF TypeOK, Item
    <3>3. TypeOK'
      BY <1>1, <1>5, <2>3, <3>1, <3>2 DEF TypeOK, BatchHandles, Reserve
    <3>4. UNCHANGED released
      BY <1>5 DEF BatchHandles
    <3>5. QED
      BY <2>1, <2>3, <3>3, <3>4, CreateReserved
  <2>4. QED
    BY <1>5, <2>2, <2>3 DEF BatchHandles
<1>6. QED
  BY <1>2, <1>3, <1>4, <1>5 DEF Coroutine

-----------------------------------------------------------------------------
(* The theorems.                                                           *)

\* No lock is held at the beginning, and none is needed.
LEMMA LockInitially == Init => LockInvariant
<1> SUFFICES ASSUME Init PROVE LockInvariant
  OBVIOUS
<1>1. TypeOK
  BY MaxTasksAssumption
  DEF Init, TypeOK, NoTask, Task, Item, Unselected
<1>2. /\ Numbering /\ OnNodes /\ Working
      /\ \A i \in Ids : ~UpdateActive(i)
  BY DEF Init, NoTask, Numbering, OnNodes, Working, Ended, UpdateActive,
         UpdateKinds
<1>3. LocksHeld /\ MutexUnlessReleased /\ NoLockLeak
  BY <1>2 DEF Init, LocksHeld, MutexUnlessReleased, NoLockLeak
<1>4. QED
  BY <1>1, <1>2, <1>3 DEF LockInvariant

\* Every step keeps the locks those of update actions under way.
LEMMA LockStep == LockInvariant /\ [Next]_vars => LockInvariant'
<1> SUFFICES ASSUME LockInvariant, [Next]_vars PROVE LockInvariant'
  OBVIOUS
<1>1. CASE Start
  BY <1>1, StartKeepsLocks
<1>2. ASSUME NEW i \in Ids, Thread(i) \/ Coroutine(i) PROVE LockInvariant'
  BY <1>2, ThreadKeepsLocks, CoroutineKeepsLocks
<1>3. CASE UNCHANGED vars
  <2>1. TypeOK' /\ Working' /\ OnNodes'
    BY <1>3 DEF vars, LockInvariant, TypeOK, Working, OnNodes, Ended
  <2>2. QED
    BY <1>3, <2>1, QuietStep DEF vars, Ended
<1>4. QED
  BY <1>1, <1>2, <1>3 DEF Next

\* LockInvariant holds in every state: the locks are those of update actions
\* under way, whatever is started, refused, batched, lost or rebooted.
THEOREM LockInvariantAlways == Spec => []LockInvariant
  BY LockInitially, LockStep, PTL DEF Spec

\* On a node where no other task took a lock away, no two update actions are
\* ever under way together.
THEOREM MutexUnlessReleasedAlways == Spec => []MutexUnlessReleased
<1>1. LockInvariant => MutexUnlessReleased
  BY DEF LockInvariant
<1>2. QED
  BY <1>1, LockInvariantAlways, PTL

\* No node stays locked without an update action under way on it.
THEOREM NoLockLeakAlways == Spec => []NoLockLeak
<1>1. LockInvariant => NoLockLeak
  BY DEF LockInvariant
<1>2. QED
  BY <1>1, LockInvariantAlways, PTL

-----------------------------------------------------------------------------
(* Batches and their children.                                             *)

\* Numbers not given out are no tasks at all.
Unborn == \A i \in Ids : task[i].kind = "none" => task[i] = NoTask

\* A node's entry in a batch names a task that was created for that node.
Children == \A i \in Ids, n \in Nodes :
  items[i][n] \in Ids => /\ items[i][n] <= created
                         /\ task[items[i][n]].node = n

\* Batches are coroutines: only actions on one node wait in threads.
Threadless == \A i \in Ids :
  task[i].pc \in {"command", "check"} => task[i].kind \notin BatchKinds

\* A batch is about at least one node.
Selected == \A i \in Ids : task[i].kind \in BatchKinds => Members(i) # {}

\* Inductive: a batch ends with the verdict its members call for.
BatchInv == /\ LockInvariant /\ Unborn /\ Threadless /\ Children /\ Selected
            /\ BatchVerdict

\* A step of thread or coroutine i that changes its own task alone.
OneTask(i) ==
  /\ UNCHANGED <<created, items>>
  /\ task[i].kind # "none" /\ ~Ended(i)
  /\ \A j \in Ids \ {i} : task'[j] = task[j]
  /\ task'[i].kind = task[i].kind /\ task'[i].node = task[i].node

\* Every step of a thread or a coroutine is one of these, the handling of a
\* node by a batch excepted, and but for the end of a batch it ends none.
LEMMA OneTaskStep ==
  ASSUME LockInvariant, Unborn, Threadless, NEW i \in Ids,
         \/ Thread(i) \/ ActivityStarts(i) \/ ActivityEnds(i)
         \/ BatchStarts(i) \/ BatchEnds(i)
  PROVE  /\ OneTask(i)
         /\ task[i].kind \in BatchKinds /\ Ended(i)' =>
              BatchEnds(i) /\ task'[i].state = Verdict(i)
         /\ task'[i].pc \in {"command", "check"} => task[i].kind \notin BatchKinds
<1>1. /\ task \in [Ids -> Task] /\ task[i] \in Task
      /\ task[i].pc # "done" => ~Ended(i)
  BY DEF LockInvariant, TypeOK, Working
<1>2. /\ task[i].pc \in {"submitted", "command", "check", "gather", "monitor"}
         \/ task[i].kind = "activity"
      /\ UNCHANGED <<created, items>>
      /\ ~Ended(i)
  BY <1>1 DEF Thread, ThreadStarts, CommandSucceeds, CommandFails, ActivityStarts,
         ActivityEnds, BatchStarts, BatchEnds, Ended
<1>3. task[i].kind # "none"
  BY <1>2 DEF Unborn, NoTask
<1>4. PICK t \in {"running", "success", "partial", "error", task[i].state},
           p \in {task[i].pc, "check", "command", "gather", "done"} :
        /\ task' = [task EXCEPT ![i] = [task[i] EXCEPT !.state = t, !.pc = p]]
        /\ task[i].kind \in BatchKinds /\ t \in {"success", "partial", "error"} =>
             BatchEnds(i) /\ t = Verdict(i)
        /\ task[i].kind \in BatchKinds => p \in {"gather", "done"}
  <2> DEFINE Goes(t, p) ==
               task' = [task EXCEPT ![i] = [task[i] EXCEPT !.state = t, !.pc = p]]
  <2>1. CASE ThreadStarts(i)
    <3>1. task[i].kind \notin BatchKinds
      BY <2>1 DEF ThreadStarts, UpdateKinds, PowerKinds, BatchKinds
    <3>2. Goes("running", "check") \/ Goes("running", "command")
      BY <2>1 DEF ThreadStarts
    <3> QED
      BY <3>1, <3>2
  <2>2. CASE CommandSucceeds(i) \/ CommandFails(i)
    <3>1. task[i].kind \notin BatchKinds
      BY <2>2 DEF CommandSucceeds, CommandFails, Threadless
    <3>2. task' = [task EXCEPT ![i].pc = "check"] => Goes(task[i].state, "check")
      BY <1>1 DEF Task
    <3>3. Goes(task[i].state, "check") \/ Goes("success", "done") \/ Goes("error", "done")
      BY <2>2, <3>2 DEF CommandSucceeds, CommandFails, End
    <3> QED
      BY <3>1, <3>3
  <2>4. CASE ActivityStarts(i) \/ ActivityEnds(i)
    <3>1. task[i].kind \notin BatchKinds
      BY <2>4 DEF ActivityStarts, ActivityEnds, BatchKinds
    <3>2. task' = [task EXCEPT ![i].state = "running"] => Goes("running", task[i].pc)
      BY <1>1 DEF Task
    <3>3. \/ Goes("running", task[i].pc) \/ Goes("success", "done")
          \/ Goes("partial", "done") \/ Goes("error", "done")
      BY <2>4, <3>2 DEF ActivityStarts, ActivityEnds, End
    <3> QED
      BY <3>1, <3>3
  <2>3. CASE BatchStarts(i) \/ BatchEnds(i)
    BY <1>1, <2>3 DEF BatchStarts, BatchEnds, End, Verdict, Task
  <2> QED
    BY <2>1, <2>2, <2>3, <2>4 DEF Thread
<1>5. /\ \A j \in Ids \ {i} : task'[j] = task[j]
      /\ task'[i].kind = task[i].kind /\ task'[i].node = task[i].node
      /\ task'[i].state = t /\ task'[i].pc = p
  BY <1>1, <1>4 DEF Task
<1> QED
  BY <1>2, <1>3, <1>4, <1>5 DEF OneTask, Ended

\* Such a step keeps what is known of batches.
LEMMA OneTaskKeeps ==
  ASSUME BatchInv, LockInvariant', NEW i \in Ids, OneTask(i),
         task[i].kind \in BatchKinds /\ Ended(i)' =>
           BatchEnds(i) /\ task'[i].state = Verdict(i),
         task'[i].pc \in {"command", "check"} => task[i].kind \notin BatchKinds
  PROVE  BatchInv'
<1>1. Unborn' /\ Threadless'
  BY DEF BatchInv, OneTask, Unborn, Threadless
<1>2. Children'
  BY DEF BatchInv, OneTask, Children
<1>3. \A j \in Ids : Members(j)' = Members(j)
  BY DEF OneTask, Members
<1>4. Selected'
  BY <1>3 DEF BatchInv, OneTask, Selected
<1>5. ASSUME NEW j \in Ids, NEW n \in Nodes, items[j][n] \in Ids,
             Ended(items[j][n])
      PROVE  task'[items[j][n]] = task[items[j][n]]
  BY <1>5 DEF OneTask
<1>6. ASSUME NEW j \in Ids, Gathered(j) PROVE Done(j)' = Done(j)
  BY <1>3, <1>5, <1>6 DEF Done, Gathered, OneTask, Members, Refused, Ids
<1>7. ASSUME NEW j \in Ids, task'[j].kind \in BatchKinds, Ended(j)'
      PROVE  Gathered(j)
             /\ (task'[j].state = "success" <=> Done(j) = Members(j))
             /\ (task'[j].state = "error" <=> Done(j) = {})
  <2>1. CASE j = i
    <3>1. task[i].kind \in BatchKinds
      BY <1>7, <2>1 DEF OneTask
    <3>2. Gathered(i) /\ task'[i].state = Verdict(i) /\ Members(i) # {}
      BY <1>7, <2>1, <3>1 DEF BatchEnds, BatchInv, Selected
    <3>3. Done(i) \subseteq Members(i)
      BY DEF Done
    <3> QED
      BY <2>1, <3>2, <3>3 DEF Verdict
  <2>2. CASE j # i
    BY <1>7, <2>2 DEF OneTask, BatchInv, BatchVerdict, Gathered, Ended
  <2> QED
    BY <2>1, <2>2
<1>8. BatchVerdict'
  <2> SUFFICES ASSUME NEW j \in Ids, task'[j].kind \in BatchKinds, Ended(j)'
               PROVE  /\ \A n \in Members(j)' :
                           \/ items'[j][n] = Refused
                           \/ /\ items'[j][n] \in Ids
                              /\ Ended(items[j][n])'
                              /\ task'[items'[j][n]].node = n
                      /\ task'[j].state = "success" <=> Done(j)' = Members(j)'
                      /\ task'[j].state = "error" <=> Done(j)' = {}
    BY DEF BatchVerdict
  <2>1. Gathered(j)
    BY <1>7
  <2>2. ASSUME NEW n \in Members(j), items[j][n] # Refused
        PROVE  /\ items[j][n] \in Ids /\ Ended(items[j][n])'
               /\ task'[items[j][n]].node = n
    <3>1. n \in Nodes /\ items[j][n] \in Ids /\ Ended(items[j][n])
      BY <2>1, <2>2 DEF Gathered, Members
    <3>2. task'[items[j][n]] = task[items[j][n]]
      BY <1>5, <3>1
    <3>3. task[items[j][n]].node = n
      BY <3>1 DEF BatchInv, Children
    <3>4. items' = items
      BY DEF OneTask
    <3> QED
      BY <3>1, <3>2, <3>3, <3>4 DEF Ended
  <2> QED
    BY <1>3, <1>6, <1>7, <2>1, <2>2 DEF OneTask
<1> QED
  BY <1>1, <1>2, <1>4, <1>8 DEF BatchInv

\* Creating a task keeps it too: the new task is a child that a gathering batch
\* notes for its node, or no batch refers to it.
LEMMA CreateKeeps ==
  ASSUME BatchInv, LockInvariant',
         NEW kind \in UpdateKinds \cup PowerKinds \cup BatchKinds \cup {"activity"},
         NEW node \in Nodes \cup {Batch}, NEW pc \in {"submitted", "monitor"},
         Create(kind, node, pc),
         \A j \in Ids, n \in Nodes :
           \/ items'[j][n] = items[j][n]
           \/ /\ j # created + 1 /\ ~Ended(j)
              /\ items[j][n] # Unselected
              /\ items'[j][n] = created + 1 /\ node = n
           \/ j = created + 1 /\ items'[j][n] \notin Ids,
         kind \in BatchKinds => \E n \in Nodes : items'[created + 1][n] # Unselected
  PROVE  BatchInv'
<1> DEFINE new == created + 1
<1>1. /\ new \in Ids /\ created \in Nat /\ created' = new /\ new \notin {-3, -2, -1}
      /\ task'[new].kind = kind /\ task'[new].node = node
      /\ task'[new].pc = pc /\ task'[new].state = "queued"
      /\ task[new].kind = "none"
      /\ \A i \in Ids \ {new} : task'[i] = task[i]
  <2>1. LockInvariant /\ created \in Nat /\ created' = new
    BY DEF BatchInv, LockInvariant, TypeOK, Create
  <2>2. /\ new \in Ids
        /\ task'[new].kind = kind /\ task'[new].node = node
        /\ task'[new].pc = pc /\ task'[new].state = "queued"
        /\ task[new].kind = "none"
        /\ \A i \in Ids \ {new} : task'[i] = task[i]
    BY <2>1, CreatedTask
  <2>3. new \notin {-3, -2, -1}
    BY <2>1
  <2> QED
    BY <2>1, <2>2, <2>3
<1>2. Unborn' /\ Threadless'
  <2>1. kind # "none"
    BY DEF UpdateKinds, PowerKinds, BatchKinds
  <2> QED
    BY <1>1, <2>1 DEF BatchInv, Unborn, Threadless
<1>3. ASSUME NEW j \in Ids, NEW n \in Nodes, items[j][n] \in Ids
      PROVE  /\ items[j][n] # new /\ items[j][n] <= created
             /\ task'[items[j][n]] = task[items[j][n]]
             /\ task[items[j][n]].node = n
  BY <1>1, <1>3 DEF BatchInv, Children
<1>4. Children'
  <2> SUFFICES ASSUME NEW j \in Ids, NEW n \in Nodes, items'[j][n] \in Ids
               PROVE  items'[j][n] <= created' /\ task'[items'[j][n]].node = n
    BY DEF Children
  <2>1. CASE items'[j][n] = items[j][n]
    <3>1. /\ items[j][n] \in Ids /\ items[j][n] <= created
          /\ task'[items[j][n]].node = n
      BY <1>3, <2>1
    <3>2. items[j][n] <= created'
      BY <1>1, <3>1 DEF Ids
    <3> QED
      BY <2>1, <3>1, <3>2
  <2>2. CASE items'[j][n] = new /\ node = n
    BY <1>1, <2>2
  <2> QED
    BY <2>1, <2>2
<1>5. \A j \in Ids \ {new} : Members(j)' = Members(j)
  BY <1>1 DEF Members, Unselected
<1>6. Selected'
  <2> SUFFICES ASSUME NEW j \in Ids, task'[j].kind \in BatchKinds
               PROVE  Members(j)' # {}
    BY DEF Selected
  <2>1. CASE j = new
    BY <1>1, <2>1 DEF Members
  <2>2. CASE j # new
    BY <1>1, <1>5, <2>2 DEF BatchInv, Selected
  <2> QED
    BY <2>1, <2>2
<1>7. BatchVerdict'
  <2> SUFFICES ASSUME NEW j \in Ids, task'[j].kind \in BatchKinds, Ended(j)'
               PROVE  /\ \A n \in Members(j)' :
                           \/ items'[j][n] = Refused
                           \/ /\ items'[j][n] \in Ids
                              /\ Ended(items[j][n])'
                              /\ task'[items'[j][n]].node = n
                      /\ task'[j].state = "success" <=> Done(j)' = Members(j)'
                      /\ task'[j].state = "error" <=> Done(j)' = {}
    BY DEF BatchVerdict
  <2>1. j # new /\ task'[j] = task[j] /\ Ended(j)
    BY <1>1 DEF Ended
  <2>2. \A n \in Nodes : items'[j][n] = items[j][n]
    BY <2>1
  <2>3. Members(j)' = Members(j) /\ Members(j) \subseteq Nodes
    BY <1>5, <2>1 DEF Members
  <2>4. /\ \A n \in Members(j) : \/ items[j][n] = Refused
                                 \/ /\ items[j][n] \in Ids
                                    /\ Ended(items[j][n])
                                    /\ task[items[j][n]].node = n
        /\ task[j].state = "success" <=> Done(j) = Members(j)
        /\ task[j].state = "error" <=> Done(j) = {}
    BY <2>1 DEF BatchInv, BatchVerdict
  <2>5. Done(j)' = Done(j)
    BY <1>3, <2>2, <2>3 DEF Done, Ids
  <2>6. ASSUME NEW n \in Members(j), items[j][n] # Refused
        PROVE  /\ items'[j][n] \in Ids /\ Ended(items[j][n])'
               /\ task'[items'[j][n]].node = n
    <3>1. /\ n \in Nodes /\ items[j][n] \in Ids /\ Ended(items[j][n])
          /\ task[items[j][n]].node = n
      BY <2>3, <2>4, <2>6
    <3>2. task'[items[j][n]] = task[items[j][n]]
      BY <1>3, <3>1
    <3> QED
      BY <2>2, <3>1, <3>2 DEF Ended
  <2> QED
    BY <2>1, <2>2, <2>3, <2>4, <2>5, <2>6
<1> QED
  BY <1>2, <1>4, <1>6, <1>7 DEF BatchInv

\* Starting a task of any kind keeps what is known of batches.
LEMMA StartKeepsBatches ==
  ASSUME BatchInv, Start PROVE BatchInv'
<1>0. LockInvariant /\ LockInvariant'
  BY StartKeepsLocks DEF BatchInv
<1>1. ASSUME NEW n \in Nodes, NEW kind \in UpdateKinds, StartUpdate(kind, n)
      PROVE  BatchInv'
  BY <1>0, <1>1, CreateKeeps
     DEF StartUpdate, BatchKinds, UpdateKinds
<1>2. ASSUME NEW n \in Nodes, NEW kind \in PowerKinds, StartPower(kind, n)
      PROVE  BatchInv'
  BY <1>0, <1>2, CreateKeeps DEF StartPower, BatchKinds, PowerKinds
<1>3. ASSUME NEW n \in Nodes, StartActivity(n) PROVE BatchInv'
  BY <1>0, <1>3, CreateKeeps DEF StartActivity, BatchKinds
<1>4. ASSUME NEW nodes \in (SUBSET Nodes) \ {{}}, NEW kind \in BatchKinds,
             StartBatch(kind, nodes)
      PROVE  BatchInv'
  <2> DEFINE new == created + 1
             f == [n \in Nodes |-> IF n \in nodes THEN Pending ELSE Unselected]
  <2>1. Create(kind, Batch, "submitted") /\ items' = [items EXCEPT ![new] = f]
    BY <1>4 DEF StartBatch
  <2>2. /\ new \in Ids
        /\ \A n \in Nodes : f[n] \notin Ids
        /\ \E n \in Nodes : f[n] # Unselected
    <3>1. new \in Ids
      BY <1>0, <2>1, MaxTasksAssumption DEF LockInvariant, TypeOK, Create, Ids
    <3>2. /\ Pending \notin Ids /\ Unselected \notin Ids
          /\ Pending # Unselected
      BY DEF Ids, Pending, Unselected
    <3>3. PICK n \in nodes : n \in Nodes
      OBVIOUS
    <3> QED
      BY <3>1, <3>2, <3>3
  <2>3. items \in [Ids -> [Nodes -> Item]]
    BY <1>0 DEF LockInvariant, TypeOK
  <2> HIDE DEF f
  <2>4. items'[new] = f /\ \A j \in Ids \ {new} : items'[j] = items[j]
    BY <2>1, <2>2, <2>3
  <2> QED
    BY <1>0, <2>1, <2>2, <2>4, CreateKeeps
<1> QED
  BY <1>1, <1>2, <1>3, <1>4 DEF Start

\* A batch that handles a node notes the refusal, or the child it created.
LEMMA HandleKeepsBatches ==
  ASSUME BatchInv, LockInvariant', NEW i \in Ids, NEW n \in Nodes,
         BatchHandles(i, n)
  PROVE  BatchInv'
<1>1. /\ task[i].kind \in BatchKinds /\ task[i].pc = "gather"
      /\ items[i][n] = Pending /\ ~Ended(i)
      /\ items \in [Ids -> [Nodes -> Item]]
  BY DEF BatchHandles, BatchInv, LockInvariant, TypeOK, Working
<1>2. CASE UNCHANGED <<created, task>>
           /\ items' = [items EXCEPT ![i][n] = Refused]
  <2>1. \A j \in Ids, m \in Nodes :
          items'[j][m] = IF j = i /\ m = n THEN Refused ELSE items[j][m]
    BY <1>1, <1>2
  <2>2. Refused \notin Ids /\ Refused # Unselected /\ Pending # Unselected
    BY DEF Refused, Unselected, Pending, Ids
  <2>3. Unborn' /\ Threadless'
    BY <1>2 DEF BatchInv, Unborn, Threadless
  <2>4. Children'
    BY <1>2, <2>1, <2>2 DEF BatchInv, Children
  <2>5. \A j \in Ids : Members(j)' = Members(j)
    BY <1>1, <2>1, <2>2 DEF Members
  <2>6. Selected'
    BY <1>2, <2>5 DEF BatchInv, Selected
  <2>7. \A j \in Ids \ {i} : \A m \in Nodes : items'[j][m] = items[j][m]
    BY <2>1
  <2>8. \A j \in Ids \ {i} : Done(j)' = Done(j)
    BY <1>2, <2>5, <2>7 DEF Done, Members
  <2>9. \A j \in Ids : Ended(j)' <=> Ended(j)
    BY <1>2 DEF Ended
  <2>10. BatchVerdict'
    <3> SUFFICES ASSUME NEW j \in Ids, task'[j].kind \in BatchKinds, Ended(j)'
                 PROVE  /\ \A m \in Members(j)' :
                             \/ items'[j][m] = Refused
                             \/ /\ items'[j][m] \in Ids
                                /\ Ended(items[j][m])'
                                /\ task'[items'[j][m]].node = m
                        /\ task'[j].state = "success" <=> Done(j)' = Members(j)'
                        /\ task'[j].state = "error" <=> Done(j)' = {}
      BY DEF BatchVerdict
    <3>1. j # i /\ Ended(j) /\ task[j].kind \in BatchKinds
      BY <1>1, <1>2, <2>9
    <3>2. \A m \in Members(j) : items'[j][m] = items[j][m]
      BY <2>7, <3>1 DEF Members
    <3> QED
      BY <1>2, <2>5, <2>8, <3>1, <3>2 DEF BatchInv, BatchVerdict, Ended
  <2> QED
    BY <2>3, <2>4, <2>6, <2>10 DEF BatchInv
<1>3. CASE /\ Create(ChildKind[task[i].kind], n, "submitted")
           /\ items' = [items EXCEPT ![i][n] = created + 1]
  <2>1. ChildKind[task[i].kind] \in UpdateKinds
    BY <1>1 DEF ChildKind, BatchKinds, UpdateKinds
  <2>2. ChildKind[task[i].kind] \notin BatchKinds
    BY <2>1 DEF BatchKinds, UpdateKinds
  <2> HIDE DEF ChildKind
  <2>3. \A j \in Ids, m \in Nodes :
          items'[j][m] = IF j = i /\ m = n THEN created + 1 ELSE items[j][m]
    BY <1>1, <1>3
  <2>4. i # created + 1
    <3>1. task[created + 1].kind = "none"
      BY <1>3, <2>1, CreatedTask DEF BatchInv
    <3> QED
      BY <1>1, <3>1 DEF BatchKinds
  <2>5. Pending # Unselected
    BY DEF Pending, Unselected
  <2> QED
    BY <1>1, <1>3, <2>1, <2>2, <2>3, <2>4, <2>5, CreateKeeps
<1> QED
  BY <1>2, <1>3 DEF BatchHandles

-----------------------------------------------------------------------------

\* What is known of batches holds at the beginning.
LEMMA BatchInitially == Init => BatchInv
<1> SUFFICES ASSUME Init, LockInvariant PROVE BatchInv
  BY LockInitially
<1> QED
  BY DEF Init, NoTask, BatchInv, Unborn, Threadless, Children, Selected,
         BatchVerdict, BatchKinds, Unselected, Ids

\* Every step keeps what is known of batches.
LEMMA BatchStep == ASSUME BatchInv, [Next]_vars PROVE BatchInv'
<1>0. LockInvariant'
  BY LockStep DEF BatchInv
<1>1. CASE Start
  BY <1>1, StartKeepsBatches
<1>2. ASSUME NEW i \in Ids,
             \/ Thread(i) \/ ActivityStarts(i) \/ ActivityEnds(i)
             \/ BatchStarts(i) \/ BatchEnds(i)
      PROVE  BatchInv'
  BY <1>0, <1>2, OneTaskStep, OneTaskKeeps DEF BatchInv
<1>3. ASSUME NEW i \in Ids, NEW n \in Nodes, BatchHandles(i, n)
      PROVE  BatchInv'
  BY <1>0, <1>3, HandleKeepsBatches
<1>4. CASE UNCHANGED vars
  BY <1>0, <1>4
     DEF vars, BatchInv, Unborn, Threadless, Children, Selected, BatchVerdict,
         Members, Done, Ended
<1> QED
  BY <1>1, <1>2, <1>3, <1>4 DEF Next, Coroutine

\* A step either creates the next task, of some kind, or creates none; the
\* tasks there are keep their kind, and those that ended their state.
LEMMA TaskSteps ==
  ASSUME BatchInv, Next
  PROVE  /\ \/ /\ created' = created
               /\ \A j \in Ids : task'[j].kind = task[j].kind
            \/ /\ created' = created + 1 /\ created + 1 \in Ids
               /\ task[created + 1].kind = "none"
               /\ task'[created + 1].kind # "none"
               /\ \A j \in Ids \ {created + 1} : task'[j].kind = task[j].kind
         /\ \A j \in Ids : Ended(j) => task'[j].state = task[j].state
<1> DEFINE new == created + 1
<1>1. ASSUME NEW i \in Ids, OneTask(i)
      PROVE  /\ created' = created
             /\ \A j \in Ids : /\ task'[j].kind = task[j].kind
                               /\ Ended(j) => task'[j].state = task[j].state
  BY <1>1 DEF OneTask
<1>2. ASSUME NEW kind \in UpdateKinds \cup PowerKinds \cup BatchKinds
                            \cup {"activity"},
             NEW node \in Nodes \cup {Batch}, NEW pc \in {"submitted", "monitor"},
             Create(kind, node, pc)
      PROVE  /\ created' = new /\ new \in Ids
             /\ task[new].kind = "none" /\ task'[new].kind # "none"
             /\ \A j \in Ids \ {new} : task'[j].kind = task[j].kind
             /\ \A j \in Ids : Ended(j) => task'[j].state = task[j].state
  <2>1. /\ new \in Ids /\ task[new].kind = "none" /\ task'[new].kind = kind
        /\ \A j \in Ids \ {new} : task'[j] = task[j]
    BY <1>2, CreatedTask DEF BatchInv
  <2>2. ~Ended(new)
    BY <2>1 DEF BatchInv, Unborn, NoTask, Ended
  <2>3. kind # "none" /\ created' = new
    BY <1>2 DEF UpdateKinds, PowerKinds, BatchKinds, Create
  <2> QED
    BY <2>1, <2>2, <2>3
<1>3. CASE Start
  BY <1>2, <1>3
     DEF Start, StartUpdate, StartPower, StartActivity, StartBatch
<1>4. ASSUME NEW i \in Ids, NEW n \in Nodes, BatchHandles(i, n),
             UNCHANGED <<created, task>>
      PROVE  \A j \in Ids : task'[j] = task[j]
  BY <1>4
<1>5. ASSUME NEW i \in Ids, NEW n \in Nodes, BatchHandles(i, n),
             Create(ChildKind[task[i].kind], n, "submitted")
      PROVE  ChildKind[task[i].kind] \in UpdateKinds
  BY <1>5 DEF BatchHandles, ChildKind, BatchKinds, UpdateKinds
<1> QED
  BY <1>1, <1>2, <1>3, <1>4, <1>5, OneTaskStep
     DEF Next, Coroutine, BatchInv, BatchHandles

\* What is known of batches holds in every state.
LEMMA BatchInvAlways == Spec => []BatchInv
  BY BatchInitially, BatchStep, PTL DEF Spec

\* What an ended batch says of its nodes is and stays true.
THEOREM BatchVerdictAlways == Spec => []BatchVerdict
<1>1. BatchInv => BatchVerdict
  BY DEF BatchInv
<1> QED
  BY <1>1, BatchInvAlways, PTL

\* The state that ended a task is final.
THEOREM EndedIsFinalAlways == Spec => EndedIsFinal
<1> DEFINE Final == \A i \in Ids : Ended(i) => task'[i].state = task[i].state
<1>1. BatchInv /\ [Next]_vars => [Final]_vars
  BY TaskSteps
<1> QED
  BY <1>1, BatchInvAlways, PTL DEF Spec, EndedIsFinal

-----------------------------------------------------------------------------
(* Nodes on which nothing but update actions and batches is started.       *)

\* Then every task works on its own reservation or on no node, and no lock
\* ever falls to a task without it.
Reserving == \A i \in Ids : \/ task[i].kind \in UpdateKinds
                            \/ task[i].node = Batch

\* Inductive if nothing but updates and batches runs: nobody takes a lock away
\* from the task that holds it.
ReservingInv == LockInvariant /\ Reserving /\ released = {}

\* Ending such a task releases no lock of another.
LEMMA EndsReserving ==
  ASSUME ReservingInv, NEW i \in Ids,
         NEW state \in {"success", "partial", "error"}, End(i, state)
  PROVE  released' = {}
<1>1. Batch \notin locks
  BY BatchAssumption DEF ReservingInv, LockInvariant, TypeOK
<1> QED
  BY <1>1 DEF ReservingInv, Reserving, End, Release

\* Every step keeps it so, when users start nothing else.
LEMMA ReservingStep ==
  ASSUME Kinds \subseteq UpdateKinds \cup BatchKinds,
         BatchInv, ReservingInv, [Next]_vars
  PROVE  ReservingInv'
<1>1. LockInvariant'
  BY LockStep DEF ReservingInv
<1>2. ASSUME NEW kind \in UpdateKinds \cup BatchKinds,
             NEW node \in Nodes \cup {Batch}, Create(kind, node, "submitted"),
             kind \in UpdateKinds \/ node = Batch
      PROVE  Reserving'
  <2>1. /\ created + 1 \in Ids /\ task'[created + 1].kind = kind
        /\ task'[created + 1].node = node
        /\ \A i \in Ids \ {created + 1} : task'[i] = task[i]
    BY <1>2, CreatedTask DEF ReservingInv
  <2> QED
    BY <1>2, <2>1 DEF ReservingInv, Reserving
<1>3. CASE Start
  <2>1. \/ \E n \in Nodes, kind \in UpdateKinds : StartUpdate(kind, n)
        \/ \E kind \in BatchKinds, nodes \in (SUBSET Nodes) \ {{}} :
             StartBatch(kind, nodes)
    BY <1>3 DEF Start, UpdateKinds, PowerKinds, BatchKinds
  <2>2. Reserving' /\ released' = released
    BY <1>2, <2>1 DEF StartUpdate, StartBatch
  <2> QED
    BY <1>1, <2>2 DEF ReservingInv
<1>4. ASSUME NEW i \in Ids,
             \/ Thread(i) \/ ActivityStarts(i) \/ ActivityEnds(i)
             \/ BatchStarts(i) \/ BatchEnds(i)
      PROVE  ReservingInv'
  <2>1. OneTask(i)
    BY <1>4, OneTaskStep DEF BatchInv
  <2>2. Reserving'
    BY <2>1 DEF ReservingInv, Reserving, OneTask
  <2>3. \/ released' = released
        \/ \E state \in {"success", "partial", "error"} : End(i, state)
    BY <1>4 DEF Thread, ThreadStarts, CommandSucceeds, CommandFails,
                ActivityStarts, ActivityEnds, BatchStarts, BatchEnds, Verdict
  <2>4. released' = {}
    BY <2>3, EndsReserving DEF ReservingInv
  <2> QED
    BY <1>1, <2>2, <2>4 DEF ReservingInv
<1>5. ASSUME NEW i \in Ids, NEW n \in Nodes, BatchHandles(i, n)
      PROVE  ReservingInv'
  <2>1. released' = released /\ task[i].kind \in BatchKinds
    BY <1>5 DEF BatchHandles
  <2>2. ChildKind[task[i].kind] \in UpdateKinds
    BY <2>1 DEF ChildKind, BatchKinds, UpdateKinds
  <2> HIDE DEF ChildKind
  <2>3. Reserving'
    BY <1>2, <1>5, <2>2 DEF BatchHandles, ReservingInv, Reserving
  <2> QED
    BY <1>1, <2>1, <2>3 DEF ReservingInv
<1>6. CASE UNCHANGED vars
  BY <1>1, <1>6 DEF vars, ReservingInv, Reserving
<1> QED
  BY <1>3, <1>4, <1>5, <1>6 DEF Next, Coroutine

\* "An update action is already running on this node." is always in time
\* where only update actions and batches of them are started: what breaks the
\* promise is that a power action or another activity that ends on the node
\* discards the lock.
THEOREM UpdateMutexOfUpdates ==
  ASSUME Kinds \subseteq UpdateKinds \cup BatchKinds
  PROVE  Spec => []UpdateMutex
<1>1. Init => BatchInv /\ ReservingInv
  BY BatchInitially
     DEF BatchInv, ReservingInv, Reserving, Init, NoTask
<1>2. (BatchInv /\ ReservingInv) /\ [Next]_vars => (BatchInv /\ ReservingInv)'
  BY BatchStep, ReservingStep
<1>3. BatchInv /\ ReservingInv => UpdateMutex
  BY DEF ReservingInv, LockInvariant, MutexUnlessReleased, UpdateMutex
<1> QED
  BY <1>1, <1>2, <1>3, PTL DEF Spec
=============================================================================
