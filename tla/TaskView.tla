------------------------------ MODULE TaskView ------------------------------
(***************************************************************************)
(* The list of tasks (pages/TasksPage.tsx) and the panel beside every page *)
(* from which one of them is opened (components/ActivityPanel.tsx), with   *)
(* the navigation of App.tsx that holds the task opened last.              *)
(*                                                                         *)
(* Both show the answers of hooks/useTasks.ts and hooks/useDashboard.ts,   *)
(* asked for every few seconds.  The search and the type filter stand for  *)
(* a word that fits one task.                                              *)
(***************************************************************************)
EXTENDS Integers, FiniteSets

CONSTANTS
  Tasks,      \* the tasks there can be
  Infras,     \* the infrastructures
  Of,         \* Of[t]: the infrastructure of task t, None for a task without
  None

States == {"queued", "running", "success", "partial", "error"}
Over == {"success", "partial", "error"}

TaskViewAssumption == /\ None \notin Tasks /\ None \notin Infras
                      /\ Of \in [Tasks -> Infras \cup {None}]

VARIABLES
  tasks,      \* the last list of tasks: tasks[t] is a state, or None
  infras,     \* the infrastructures of the last dashboard answer
  page,       \* App.activeNavigation
  selected,   \* App.selectedTaskId
  stored,     \* the infrastructure kept in localStorage
  choice,     \* TasksPage.selectedInfrastructureId
  filter,     \* the filters of TasksPage
  touched     \* the user changed choice or filter since the effect ran

vars == <<tasks, infras, page, selected, stored, choice, filter, touched>>

TypeOK == /\ tasks \in [Tasks -> States \cup {None}]
          /\ infras \subseteq Infras
          /\ page \in {"Tasks", "other"}
          /\ selected \in Tasks \cup {None}
          /\ stored \in Infras \cup {None} /\ choice \in Infras \cup {None}
          /\ filter \in [state : (States \ {"partial"}) \cup {"all"},
                         search : Tasks \cup {None}]
          /\ touched \in BOOLEAN

NoFilter == [state |-> "all", search |-> None]

Init == /\ tasks = [t \in Tasks |-> None] /\ infras = {}
        /\ page = "other" /\ selected = None /\ stored = None
        /\ choice = None /\ filter = NoFilter /\ touched = FALSE

-----------------------------------------------------------------------------

\* effectiveInfrastructureId
Effective == IF choice \in infras THEN choice
             ELSE IF infras = {} THEN None ELSE CHOOSE i \in infras : TRUE

\* filteredTasks
Passes(t) == /\ filter.state \in {"all", tasks[t]}
             /\ filter.search \in {None, t}
Shown == {t \in Tasks : /\ tasks[t] # None /\ Effective # None
                        /\ Of[t] = Effective /\ Passes(t)}

\* Mutant of Follow: the filters stay.
FollowFiltered(t, list, c, f) ==
  LET there == t # None /\ list[t] # None /\ Of[t] # None
  IN  /\ filter' = f
      /\ choice' = IF there THEN Of[t] ELSE c
      /\ stored' = IF there THEN Of[t] ELSE stored
      /\ touched' = (t = None /\ touched)

\* The effect on the task opened and the list: filters are reset, and the
\* task's infrastructure is chosen if the task is listed and has one. c is the
\* choice and f the filter before.
Follow(t, list, c, f) ==
  LET there == t # None /\ list[t] # None /\ Of[t] # None
  IN  /\ filter' = IF t = None THEN f ELSE NoFilter
      /\ choice' = IF there THEN Of[t] ELSE c
      /\ stored' = IF there THEN Of[t] ELSE stored
      /\ touched' = (t = None /\ touched)

\* TasksPage appears: it takes its choice from localStorage.
Mount(t) == Follow(t, tasks, stored, NoFilter)

-----------------------------------------------------------------------------

\* A task is created, goes on, ends, or drops out of the history.
Successors(s) == CASE s = None -> {"queued"}
                   [] s = "queued" -> {"running", "error"}
                   [] s = "running" -> Over
                   [] OTHER -> {None}
Progress(t) == {[tasks EXCEPT ![t] = s] : s \in Successors(tasks[t])}

\* Another list: the effect runs for it as well.
TasksAnswer(t) ==
  /\ tasks' \in Progress(t)
  /\ IF page = "Tasks" THEN Follow(selected, tasks', choice, filter)
     ELSE UNCHANGED <<stored, choice, filter, touched>>
  /\ UNCHANGED <<infras, page, selected>>

DashboardAnswer(is) == /\ infras' = is
                       /\ UNCHANGED <<tasks, page, selected, stored, choice,
                                      filter, touched>>

\* A task of the panel.  On the page itself the effect runs only when it is
\* another task than the one opened before.
OpenTask(t) ==
  /\ tasks[t] # None
  /\ page' = "Tasks" /\ selected' = t
  /\ IF page # "Tasks" THEN Mount(t)
     ELSE IF selected # t THEN Follow(t, tasks, choice, filter)
     ELSE UNCHANGED <<stored, choice, filter, touched>>
  /\ UNCHANGED <<tasks, infras>>

\* The menu: the task opened last stays selected.
Navigate(p) == /\ p # page
               /\ page' = p
               /\ IF p = "Tasks" THEN Mount(selected)
                  ELSE UNCHANGED <<stored, choice, filter, touched>>
               /\ UNCHANGED <<tasks, infras, selected>>

SelectInfrastructure(i) ==
  /\ page = "Tasks" /\ i \in infras
  /\ choice' = i /\ stored' = i /\ touched' = TRUE
  /\ UNCHANGED <<tasks, infras, page, selected, filter>>

SetFilter(f) == /\ page = "Tasks" /\ f # filter
                /\ filter' = f /\ touched' = TRUE
                /\ UNCHANGED <<tasks, infras, page, selected, stored, choice>>

SetSearch(word) == SetFilter([filter EXCEPT !.search = word])
SetState(s) == SetFilter([filter EXCEPT !.state = s])
Reset == SetFilter(NoFilter)

-----------------------------------------------------------------------------
Next == \/ \E t \in Tasks : TasksAnswer(t) \/ OpenTask(t)
        \/ \E is \in SUBSET Infras : DashboardAnswer(is)
        \/ \E p \in {"Tasks", "other"} : Navigate(p)
        \/ \E i \in Infras : SelectInfrastructure(i)
        \/ \E word \in Tasks \cup {None} : SetSearch(word)
        \/ \E s \in (States \ {"partial"}) \cup {"all"} : SetState(s)
        \/ Reset

Spec == Init /\ [][Next]_vars

-----------------------------------------------------------------------------
\* A task opened from the panel is on the screen, whenever it is listed and its
\* infrastructure known, until the user chooses another infrastructure or
\* filter: lists and dashboards that arrive late, in any order, pages left and
\* entered again and filters left over do not hide it.
SelectedShown ==
  /\ page = "Tasks" /\ selected # None /\ ~touched
  /\ tasks[selected] # None /\ Of[selected] \in infras
  => selected \in Shown
=============================================================================
