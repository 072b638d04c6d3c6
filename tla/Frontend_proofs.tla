-------------------------- MODULE Frontend_proofs --------------------------
(***************************************************************************)
(* Proofs about the frontend, first part: a behaviour of the frontend is a *)
(* behaviour of each page, and what the pages of the administrator promise *)
(* -- users, settings, audit log and infrastructures -- holds for all      *)
(* accounts, secrets, logs and infrastructures.                            *)
(***************************************************************************)
EXTENDS Frontend, FiniteSetTheorems, TLAPS

\* A step of the frontend is, for every page, a step of that page or leaves
\* the state of that page as it is.
PartSteps ==
  /\ [Drawer!Next]_(Drawer!vars)
  /\ [Editor!Next]_(Editor!vars)
  /\ [Acts!Next]_(Acts!vars)
  /\ [Views!Next]_(Views!vars)
  /\ [TaskPage!Next]_(TaskPage!vars)
  /\ [Card!Next]_(Card!vars)
  /\ [Settings!Next]_(Settings!vars)
  /\ [Users!Next]_(Users!vars)
  /\ [Ha!Next]_(Ha!vars)
  /\ [Audit!Next]_(Audit!vars)

\* The parts share no variable, so a step of one leaves the others alone.
LEMMA NextOfParts == [Next]_vars => PartSteps
<1> SUFFICES ASSUME [Next]_vars PROVE PartSteps
  OBVIOUS
<1> USE DEF vars, drawerVars, schedulerVars, nodesVars, viewsVars, tasksVars,
        infrastructuresVars, settingsVars, usersVars, clusterVars, auditVars,
        Drawer!vars, Editor!vars, Acts!vars, Views!vars, TaskPage!vars,
        Card!vars, Settings!vars, Users!vars, Ha!vars, Audit!vars
<1>1. CASE DrawerNext
  BY <1>1 DEF DrawerNext, PartSteps
<1>2. CASE SchedulerNext
  BY <1>2 DEF SchedulerNext, PartSteps
<1>3. CASE NodesNext
  BY <1>3 DEF NodesNext, PartSteps
<1>4. CASE ViewsNext
  BY <1>4 DEF ViewsNext, PartSteps
<1>5. CASE TasksNext
  BY <1>5 DEF TasksNext, PartSteps
<1>6. CASE InfrastructuresNext
  BY <1>6 DEF InfrastructuresNext, PartSteps
<1>7. CASE SettingsNext
  BY <1>7 DEF SettingsNext, PartSteps
<1>8. CASE UsersNext
  BY <1>8 DEF UsersNext, PartSteps
<1>9. CASE ClusterNext
  BY <1>9 DEF ClusterNext, PartSteps
<1>10. CASE AuditNext
  BY <1>10 DEF AuditNext, PartSteps
<1>11. CASE UNCHANGED vars
  BY <1>11 DEF PartSteps
<1> QED
  BY <1>1, <1>2, <1>3, <1>4, <1>5, <1>6, <1>7, <1>8, <1>9, <1>10, <1>11 DEF Next

\* Whatever a page promises in its own module it promises in the frontend.
THEOREM PartsRefined ==
  Spec => /\ Drawer!Spec /\ Editor!Spec /\ Acts!Spec /\ Views!Spec
          /\ TaskPage!Spec /\ Card!Spec /\ Settings!Spec /\ Users!Spec
          /\ Ha!Spec /\ Audit!Spec
<1>1. Init => /\ Drawer!Init /\ Editor!Init /\ Acts!Init /\ Views!Init
              /\ TaskPage!Init /\ Card!Init /\ Settings!Init /\ Users!Init
              /\ Ha!Init /\ Audit!Init
  BY DEF Init
<1> QED
  BY <1>1, NextOfParts, PTL
     DEF Spec, PartSteps, Drawer!Spec, Editor!Spec, Acts!Spec, Views!Spec,
         TaskPage!Spec, Card!Spec, Settings!Spec, Users!Spec, Ha!Spec,
         Audit!Spec

-----------------------------------------------------------------------------
\* Inductive: with the table finite, the last administrator can be counted.
UsersInv == /\ Users!TypeOK
            /\ IsFiniteSet(Users!Admins(users))
            /\ AdminRemains

\* The cardinality that Accounts uses is the one of FiniteSets.
LEMMA UsersCardinality == \A S : Users!Cardinality(S) = Cardinality(S)
  BY DEF Users!Cardinality, Cardinality

\* The check of main.py:1334, a count of enabled administrators, says that
\* another one is left.
LEMMA NotLastAdmin ==
  ASSUME NEW t \in Users!Table, NEW i \in UserIds,
         IsFiniteSet(Users!Admins(t)), ~Users!LastAdmin(t)
  PROVE  Users!Admins(t) \ {i} # {}
<1> DEFINE A == Users!Admins(t)
<1> SUFFICES ASSUME A \ {i} = {} PROVE FALSE
  OBVIOUS
<1>1. A = {} \/ A = {i}
  OBVIOUS
<1>2. Cardinality(A) = 0 \/ Cardinality(A) = 1
  BY <1>1, FS_EmptySet, FS_Singleton
<1> QED
  BY <1>2, UsersCardinality DEF Users!LastAdmin

\* What a request may do to the table.
LEMMA EffectOnAccounts ==
  ASSUME NEW t \in Users!Table, NEW s \in [id : UserIds, role : Roles],
         NEW d \in Users!Dialog,
         IsFiniteSet(Users!Admins(t)), Users!Admins(t) # {}
  PROVE  LET u == Users!Effect(t, s, d)
         IN  /\ u \in Users!Table
             /\ IsFiniteSet(Users!Admins(u))
             /\ Users!Admins(u) # {}
<1> DEFINE u == Users!Effect(t, s, d)
<1>1. d.id \in UserIds /\ d.role \in Roles /\ d.enabled \in BOOLEAN
  BY DEF Users!Dialog
<1>2. \/ u = t
      \/ u = Users!Created(t, d.id, d.role)
      \/ u = Users!Updated(t, s, d.id, d.role, d.enabled)
      \/ u = Users!Deleted(t, s, d.id)
  BY Zenon DEF Users!Effect
<1>3. /\ u \in Users!Table
      /\ \A j \in UserIds \ {d.id} : u[j] = t[j]
      /\ Users!IsAdmin(t[d.id]) /\ Users!LastAdmin(t) => Users!IsAdmin(u[d.id])
  <2> USE <1>1 DEF Users!Table, Users!User, Users!IsAdmin
  <2>1. CASE u = t
    BY <2>1
  <2>2. CASE u = Users!Created(t, d.id, d.role)
    BY <2>2 DEF Users!Created
  <2>3. CASE u = Users!Updated(t, s, d.id, d.role, d.enabled)
    BY <2>3 DEF Users!Updated, Users!Removes
  <2>4. CASE u = Users!Deleted(t, s, d.id)
    BY <2>4 DEF Users!Deleted
  <2> QED
    BY <1>2, <2>1, <2>2, <2>3, <2>4
<1>4. Users!Admins(u) \subseteq Users!Admins(t) \cup {d.id}
  BY <1>3 DEF Users!Admins
<1>5. IsFiniteSet(Users!Admins(u))
  BY <1>4, FS_AddElement, FS_Subset
<1>6. Users!Admins(u) # {}
  <2>1. CASE Users!LastAdmin(t)
    BY <1>3, <2>1 DEF Users!Admins
  <2>2. CASE ~Users!LastAdmin(t)
    BY <1>1, <1>3, <2>2, NotLastAdmin DEF Users!Admins
  <2> QED
    BY <2>1, <2>2
<1> QED
  BY <1>3, <1>5, <1>6

\* At the start there is an enabled administrator.
LEMMA UsersInvInit == Init => UsersInv
<1> SUFFICES ASSUME Users!Init PROVE UsersInv
  BY DEF Init
<1> DEFINE first == CHOOSE i \in UserIds : TRUE
<1>1. first \in UserIds /\ "admin" \in Roles
  BY FrontendAssumption DEF Users!AccountsAssumption
<1>2. Users!TypeOK
  BY <1>1 DEF Users!Init, Users!TypeOK, Users!Table, Users!User, Users!Nobody
<1>3. Users!Admins(users) = {first}
  <2> HIDE DEF first
  <2>1. \A i \in UserIds :
          users[i] = IF i = first THEN [role |-> "admin", enabled |-> TRUE]
                     ELSE None
    BY <1>1 DEF Users!Init, Users!Nobody, first
  <2>2. Users!IsAdmin(users[first])
    <3>1. [role |-> "admin", enabled |-> TRUE]
             \in [role : Roles, enabled : BOOLEAN]
      BY <1>1
    <3>2. users[first] = [role |-> "admin", enabled |-> TRUE]
      BY <1>1, <2>1
    <3>3. users[first] # None
      BY <3>1, <3>2, FrontendAssumption DEF Users!AccountsAssumption
    <3> QED
      BY <3>2, <3>3 DEF Users!IsAdmin
  <2> QED
    BY <1>1, <2>1, <2>2 DEF Users!Admins, Users!IsAdmin
<1> QED
  BY <1>2, <1>3, FS_Singleton DEF UsersInv, AdminRemains, Users!AdminRemains

\* Every step of the users page and of its handlers keeps one.
LEMMA UsersInvNext == UsersInv /\ [Users!Next]_(Users!vars) => UsersInv'
<1> SUFFICES ASSUME UsersInv, [Users!Next]_(Users!vars) PROVE UsersInv'
  OBVIOUS
<1> USE DEF UsersInv, AdminRemains, Users!AdminRemains, Users!TypeOK
<1> DEFINE Rest == /\ gate' \in {"loading", "in", "out", "error"}
                   /\ cookie' \in [id : UserIds, role : Roles] \cup {None}
                   /\ listed' \in Users!Table
                   /\ userDialog' \in Users!Dialog \cup {None}
                   /\ waiting' \in BOOLEAN
<1>1. CASE Users!OtherRequest
  <2>1. PICK s \in [id : UserIds, role : {"admin"}], d \in Users!Dialog :
          users' = Users!Effect(users, s, d)
    BY <1>1 DEF Users!OtherRequest
  <2>2. s \in [id : UserIds, role : Roles]
    BY FrontendAssumption DEF Users!AccountsAssumption
  <2> QED
    BY <1>1, <2>1, <2>2, EffectOnAccounts DEF Users!OtherRequest
<1>2. CASE Users!Submit
  BY <1>2, EffectOnAccounts, FrontendAssumption
     DEF Users!Submit, Users!AccountsAssumption
<1>3. CASE UNCHANGED users /\ Rest
  BY <1>3
<1>4. ASSUME Users!Next, ~Users!OtherRequest, ~Users!Submit
      PROVE  UNCHANGED users /\ Rest
  <2>1. CASE Users!CheckSession \/ Users!TryAgain \/ Users!Expire
             \/ Users!Unauthorized \/ Users!Logout \/ Users!LoadUsers
             \/ Users!CloseDialog \/ Users!MutationAnswer
    BY <2>1 DEF Users!CheckSession, Users!TryAgain, Users!Expire,
         Users!Unauthorized, Users!Logout, Users!LoadUsers, Users!CloseDialog,
         Users!MutationAnswer, Users!Unmount, Users!Nobody, Users!Table
  <2>2. ASSUME NEW i \in UserIds,
               \/ Users!Login(i) \/ Users!OpenCreate(i) \/ Users!OpenEdit(i)
               \/ Users!OpenPassword(i) \/ Users!OpenDelete(i)
        PROVE  UNCHANGED users /\ Rest
    <3> USE DEF Users!Table, Users!User, Users!Dialog
    <3>1. CASE Users!Login(i)
      BY <3>1 DEF Users!Login
    <3>2. CASE Users!OpenCreate(i)
      BY <3>2 DEF Users!OpenCreate
    <3>3. CASE Users!OpenEdit(i)
      BY <3>3 DEF Users!OpenEdit
    <3>4. CASE Users!OpenPassword(i)
      BY <3>4 DEF Users!OpenPassword
    <3>5. CASE Users!OpenDelete(i)
      BY <3>5 DEF Users!OpenDelete
    <3> QED
      BY <2>2, <3>1, <3>2, <3>3, <3>4, <3>5
  <2> QED
    BY <1>4, <2>1, <2>2 DEF Users!Next
<1>5. CASE UNCHANGED Users!vars
  BY <1>5 DEF Users!vars
<1> QED
  BY <1>1, <1>2, <1>3, <1>4, <1>5

\* An enabled administrator remains, whatever administrators do at the same
\* time from lists that are out of date: users_update and users_delete count
\* and write without an await in between (main.py:1334, 1466).
THEOREM AdminRemainsAlways == Spec => []AdminRemains
<1>1. UsersInv => AdminRemains
  BY DEF UsersInv
<1> QED
  BY <1>1, UsersInvInit, UsersInvNext, PartsRefined, PTL DEF Spec, Users!Spec

-----------------------------------------------------------------------------
\* The audit log.

\* The log has an entry of its deletion.
Recorded == \E i \in DOMAIN log : log[i] = "clear"

\* Inductive: the entry is there when the deletion was told, and before that
\* once the handler has written it and not yet answered.
AuditInv == /\ Audit!TypeOK
            /\ deletion = "told" => Recorded
            /\ /\ request # None /\ Audit!At("clear", "done")
               /\ deletion = "untold"
               => Recorded

\* The entry of a deletion stays until it is itself the oldest one.
LEMMA RecordedStays ==
  ASSUME log \in Seq(Filters), Recorded,
         \/ \E e \in Filters : log' = Append(log, e)
         \/ log # <<>> /\ Head(log) # "clear" /\ log' = Tail(log)
  PROVE  Recorded'
<1>1. PICK i \in 1 .. Len(log) : log[i] = "clear"
  BY DEF Recorded
<1>2. CASE \E e \in Filters : log' = Append(log, e)
  <2>1. i \in DOMAIN log' /\ log'[i] = "clear"
    BY <1>1, <1>2
  <2> QED
    BY <2>1 DEF Recorded
<1>3. CASE log # <<>> /\ Head(log) # "clear" /\ log' = Tail(log)
  <2>1. i # 1
    BY <1>1, <1>3
  <2>2. i - 1 \in DOMAIN log' /\ log'[i - 1] = "clear"
    BY <1>1, <1>3, <2>1
  <2> QED
    BY <2>2 DEF Recorded
<1> QED
  BY <1>2, <1>3

\* The number of entries a filter matches is a number of the log's entries.
LEMMA AuditMatches ==
  ASSUME NEW f, log \in Seq(Filters), Len(log) <= MaxLog
  PROVE  Audit!Matches(f) \in 0 .. MaxLog
<1> DEFINE S == {i \in DOMAIN log : f \in {"all", log[i]}}
<1>1. S \subseteq 1 .. Len(log)
  OBVIOUS
<1>2. IsFiniteSet(1 .. Len(log)) /\ Cardinality(1 .. Len(log)) = Len(log)
  BY FS_Interval
<1>3. Cardinality(S) \in Nat /\ Cardinality(S) <= Len(log)
  BY <1>1, <1>2, FS_Subset, FS_CardinalityType
<1>4. Audit!Matches(f) = Cardinality(S)
  BY DEF Audit!Matches, Audit!Cardinality, Cardinality
<1> QED
  BY <1>3, <1>4, FrontendAssumption DEF Audit!AuditAssumption

\* There is a first page, also of an empty log.
LEMMA FirstPage == 1 \in Audit!Pages
  BY FrontendAssumption DEF Audit!AuditAssumption, Audit!Pages

\* Every step of the audit page and of its handlers keeps the invariant.
LEMMA AuditInvNext == AuditInv /\ [Audit!Next]_(Audit!vars) => AuditInv'
<1> SUFFICES ASSUME AuditInv, [Audit!Next]_(Audit!vars) PROVE AuditInv'
  OBVIOUS
<1> USE FrontendAssumption
    DEF AuditInv, Audit!TypeOK, Audit!At, Audit!AuditAssumption, Audit!Dialogs
<1>1. ASSUME NEW e \in Filters, Audit!Write(e) PROVE AuditInv'
  <2>1. log' \in Seq(Filters) /\ Len(log') = Len(log) + 1
    BY <1>1 DEF Audit!Write
  <2>2. Recorded => Recorded'
    BY <1>1, RecordedStays DEF Audit!Write
  <2> QED
    BY <1>1, <2>1, <2>2 DEF Audit!Write
<1>2. ASSUME NEW e \in Filters, Audit!Handle(e) PROVE AuditInv'
  <2>1. request' # [kind |-> "clear", at |-> "done"]
    BY <1>2 DEF Audit!Handle
  <2>2. /\ log' \in Seq(Filters) /\ Len(log') <= MaxLog
        /\ Recorded => Recorded'
    <3>1. CASE log' = log
      BY <3>1 DEF Recorded
    <3>2. CASE Len(log) < MaxLog /\ log' = Append(log, e)
      BY <3>2, RecordedStays
    <3> QED
      BY <1>2, <3>1, <3>2 DEF Audit!Handle
  <2> QED
    BY <1>2, <2>1, <2>2 DEF Audit!Handle
<1>3. CASE Audit!Purge
  <2>1. log' \in Seq(Filters) /\ Len(log') <= MaxLog
    BY <1>3 DEF Audit!Purge
  <2>2. deletion' # "none" => deletion' = deletion /\ (Recorded => Recorded')
    BY <1>3, RecordedStays DEF Audit!Purge
  <2> QED
    BY <1>3, <2>1, <2>2 DEF Audit!Purge
<1>4. CASE Audit!Clear
  <2>1. CASE log' = <<"clear">> /\ request' = [request EXCEPT !.at = "done"]
    <3>1. log' \in Seq(Filters) /\ Len(log') = 1 /\ log'[1] = "clear"
      BY <2>1
    <3>2. 1 \in DOMAIN log'
      BY <3>1
    <3>3. request' = [kind |-> "clear", at |-> "done"]
      BY <1>4, <2>1 DEF Audit!Clear
    <3>4. Audit!TypeOK'
      BY <1>4, <3>1, <3>3 DEF Audit!Clear
    <3> QED
      BY <3>1, <3>2, <3>4 DEF Recorded
  <2>2. CASE log' = <<>> /\ request' = [request EXCEPT !.at = "failed"]
    <3>1. log' \in Seq(Filters) /\ Len(log') = 0
      BY <2>2
    <3>2. request'.at = "failed"
      BY <1>4, <2>2 DEF Audit!Clear
    <3> QED
      BY <1>4, <2>2, <3>1, <3>2 DEF Audit!Clear
  <2> QED
    BY <1>4, <2>1, <2>2 DEF Audit!Clear
<1>5. CASE Audit!Fail
  <2>1. request'.at = "failed"
    BY <1>5 DEF Audit!Fail
  <2> QED
    BY <1>5, <2>1 DEF Audit!Fail, Recorded
<1>6. ASSUME NEW f \in Filters \cup {"all"}, Audit!SetFilter(f) PROVE AuditInv'
  BY <1>6, FirstPage DEF Audit!SetFilter, Recorded
<1>7. ASSUME NEW p \in Audit!Pages, Audit!SetPage(p) PROVE AuditInv'
  BY <1>7 DEF Audit!SetPage, Recorded
<1>8. CASE Audit!Load
  BY <1>8, AuditMatches DEF Audit!Load, Recorded
<1>9. CASE Audit!CloseDialog
  BY <1>9 DEF Audit!CloseDialog, Recorded
<1>10. CASE Audit!Submit
  BY <1>10 DEF Audit!Submit, Audit!Send, Recorded
<1>11. CASE Audit!ExportAudit
  BY <1>11 DEF Audit!ExportAudit, Audit!Send, Recorded
<1>12. CASE Audit!Answer
  BY <1>12, AuditMatches, FirstPage DEF Audit!Answer, Recorded
<1>13. ASSUME NEW d \in Audit!Dialogs, Audit!OpenDialog(d) PROVE AuditInv'
  BY <1>13 DEF Audit!OpenDialog, Recorded
<1>14. CASE UNCHANGED Audit!vars
  BY <1>14 DEF Audit!vars, Recorded
<1> QED
  BY <1>1, <1>2, <1>3, <1>4, <1>5, <1>6, <1>7, <1>8, <1>9, <1>10, <1>11,
     <1>12, <1>13, <1>14 DEF Audit!Next, Audit!ResetFilters

\* At the start nothing was deleted.
LEMMA AuditInvInit == Init => AuditInv
  BY FirstPage, FrontendAssumption
     DEF Init, Audit!Init, AuditInv, Audit!TypeOK, Audit!AuditAssumption

\* A deletion of the audit log that the page reports has left its own entry,
\* though deleting and recording are two commits.
THEOREM DeletionRecordedAlways == Spec => []DeletionRecorded
<1>1. AuditInv => DeletionRecorded
  BY DEF AuditInv, Recorded, DeletionRecorded, Audit!DeletionRecorded, Audit!Contains,
         Audit!TypeOK
<1> QED
  BY <1>1, AuditInvInit, AuditInvNext, PartsRefined, PTL DEF Spec, Audit!Spec

-----------------------------------------------------------------------------
\* Notification and LDAP settings.

\* A request carries a secret only if it is a save, and is about the card of
\* its form.
CallOK(c) == /\ c.old \in Settings!View(Settings!FormsOf(Settings!TabOf(c)))
             /\ c.at = "done" => c.answer \in
                  Settings!View(Settings!FormsOf(Settings!TabOf(c)))
             /\ c.form = "events" <=> c.kind = "events"
             /\ c.kind # "save" => c.secret = None
             /\ c.kind = "delete" => c.form # "ldap"

\* A card waits only for requests it sent itself.
PendingOK == \A f \in Settings!Forms \cup {"events"} : pending[f] # 0 =>
               /\ settingsShown \in Settings!View(Settings!FormsOf(tab))
               /\ pending[f] \in DOMAIN calls
               /\ calls[pending[f]].form = f
               /\ Settings!TabOf(calls[pending[f]]) = tab

\* Inductive: every request in flight and every card that waits is as its form
\* says.
SettingsInv == /\ Settings!TypeOK
               /\ \A i \in DOMAIN calls : CallOK(calls[i])
               /\ PendingOK

\* Which forms stand on which page.
LEMMA FormsOfTabs == /\ Settings!FormsOf("notifications") = Channels
                     /\ Settings!FormsOf("authentication") = {"ldap"}
                     /\ Settings!FormsOf("general") = {}
<1>1. /\ "notifications" # "authentication" /\ "general" # "notifications"
      /\ "general" # "authentication"
  OBVIOUS
<1> QED
  BY <1>1, Zenon DEF Settings!FormsOf

\* A form stands on one page only.
LEMMA TabOfForm ==
  ASSUME NEW t \in Settings!Tabs, NEW f \in Settings!FormsOf(t)
  PROVE  /\ f \in Settings!Forms
         /\ t = IF f = "ldap" THEN "authentication" ELSE "notifications"
  BY FormsOfTabs, FrontendAssumption
     DEF Settings!Tabs, Settings!Forms, Settings!SettingsAssumption

\* What the server answers fits the card that asked.
LEMMA ViewOfTab ==
  ASSUME NEW s \in [on : [Settings!Forms -> BOOLEAN],
                    secret : [Settings!Forms -> Secrets \cup {None}],
                    pref : [Settings!Forms -> BOOLEAN]],
         NEW t \in Settings!Tabs
  PROVE  Settings!ViewOf(s, t) \in Settings!View(Settings!FormsOf(t))
<1>1. Settings!FormsOf(t) \subseteq Settings!Forms
  BY TabOfForm
<1> QED
  BY <1>1 DEF Settings!ViewOf, Settings!View

\* What a request leaves stored, served to the end or broken off.
LEMMA AfterRequest ==
  ASSUME NEW c \in Settings!Call, CallOK(c),
         settings \in [on : [Settings!Forms -> BOOLEAN],
                       secret : [Settings!Forms -> Secrets \cup {None}],
                       pref : [Settings!Forms -> BOOLEAN]],
         NEW s, s = Settings!After(c) \/ s = Settings!Begun(c)
  PROVE  /\ s \in [on : [Settings!Forms -> BOOLEAN],
                   secret : [Settings!Forms -> Secrets \cup {None}],
                   pref : [Settings!Forms -> BOOLEAN]]
         /\ \A f \in Settings!Forms : s.secret[f] # settings.secret[f] =>
              /\ c.form = f
              /\ \/ c.kind = "delete" /\ s.secret[f] = None
                 \/ /\ c.kind = "save" /\ s.secret[f] # None
                    /\ s.secret[f] = c.secret
<1> USE DEF Settings!Call
<1>1. CASE s = Settings!Begun(c)
  BY <1>1 DEF Settings!Begun
<1>2. CASE s = Settings!After(c)
  <2>1. CASE c.kind \in {"toggle", "save"}
    <3>1. s = Settings!Update(c)
      BY <1>2, <2>1, Zenon DEF Settings!After
    <3>2. c.form \in Settings!Forms
      BY <2>1 DEF CallOK, Settings!Forms
    <3> QED
      BY <2>1, <3>1, <3>2 DEF Settings!Update, Settings!Stored, CallOK
  <2>2. CASE c.kind = "delete"
    <3>1. s = Settings!Removed(c)
      BY <1>2, <2>2 DEF Settings!After
    <3>2. c.form \in Settings!Forms
      BY <2>2 DEF CallOK, Settings!Forms
    <3> QED
      BY <2>2, <3>1, <3>2 DEF Settings!Removed
  <2>3. CASE c.kind = "events"
    <3>1. s = Settings!Events(c)
      BY <1>2, <2>3 DEF Settings!After
    <3>2. c.old \in Settings!View(Channels)
      BY <2>3, FormsOfTabs DEF CallOK, Settings!TabOf
    <3> QED
      BY <2>3, <3>1, <3>2 DEF Settings!Events, Settings!View, Settings!Forms
  <2> QED
    BY <2>1, <2>2, <2>3
<1> QED
  BY <1>1, <1>2

\* At the start nothing is in flight.
LEMMA SettingsInvInit == Init => SettingsInv
  BY FrontendAssumption, FormsOfTabs
     DEF Init, Settings!Init, SettingsInv, Settings!TypeOK, Settings!All,
         Settings!NothingTyped, Settings!NothingPending, Settings!Tabs,
         PendingOK, Settings!SettingsAssumption

\* A new request of the open card.
LEMMA RequestKeepsInv ==
  ASSUME SettingsInv, NEW f \in Settings!Forms \cup {"events"},
         NEW kind \in {"toggle", "save", "delete", "events"},
         NEW on \in BOOLEAN, NEW secret \in Secrets \cup {None},
         Settings!Request(f, kind, on, secret),
         settingsShown' \in Settings!View(Settings!FormsOf(tab)),
         f = "events" <=> kind = "events",
         kind # "save" => secret = None, kind = "delete" => f # "ldap",
         tab = IF f = "ldap" THEN "authentication" ELSE "notifications"
  PROVE  SettingsInv'
<1> DEFINE c == [form |-> f, kind |-> kind, on |-> on, secret |-> secret,
                 old |-> settingsShown', at |-> "sent", answer |-> None]
<1>1. c \in Settings!Call /\ CallOK(c) /\ Settings!TabOf(c) = tab
  <2>1. settingsShown' \in Settings!Views
    BY DEF Settings!Views, SettingsInv, Settings!TypeOK
  <2>2. Settings!TabOf(c) = tab
    BY DEF Settings!TabOf
  <2> QED
    BY <2>1, <2>2 DEF Settings!Call, CallOK
<1>2. /\ calls' = Append(calls, c) /\ Len(calls) < MaxRequests
      /\ pending' = [pending EXCEPT ![f] = Len(calls) + 1]
      /\ UNCHANGED <<settings, tab, typed>>
  BY DEF Settings!Request
<1> HIDE DEF c
<1>3. /\ calls' \in Seq(Settings!Call) /\ Len(calls') = Len(calls) + 1
      /\ \A i \in DOMAIN calls : i \in DOMAIN calls' /\ calls'[i] = calls[i]
      /\ Len(calls) + 1 \in DOMAIN calls' /\ calls'[Len(calls) + 1] = c
      /\ \A i \in DOMAIN calls' : i \in DOMAIN calls \/ i = Len(calls) + 1
  BY <1>1, <1>2 DEF SettingsInv, Settings!TypeOK
<1>4. \A i \in DOMAIN calls' : CallOK(calls'[i])
  BY <1>1, <1>3 DEF SettingsInv
<1>5. PendingOK'
  <2>1. c.form = f
    BY DEF c
  <2> QED
    BY <1>1, <1>2, <1>3, <2>1
       DEF SettingsInv, PendingOK, Settings!TypeOK, Settings!TabOf
<1>6. Settings!TypeOK'
  BY <1>2, <1>3, FrontendAssumption
     DEF SettingsInv, Settings!TypeOK, Settings!SettingsAssumption
<1> QED
  BY <1>4, <1>5, <1>6 DEF SettingsInv

\* The server serves a request, or breaks off.
LEMMA ServeKeepsInv ==
  ASSUME SettingsInv, NEW i \in DOMAIN calls, Settings!Serve(i)
  PROVE  SettingsInv'
<1> DEFINE c == calls[i]
<1>1. /\ c \in Settings!Call /\ CallOK(c) /\ c.at = "sent"
      /\ settings \in [on : [Settings!Forms -> BOOLEAN],
                       secret : [Settings!Forms -> Secrets \cup {None}],
                       pref : [Settings!Forms -> BOOLEAN]]
  BY DEF SettingsInv, Settings!TypeOK, Settings!Serve
<1>2. settings' \in {settings, Settings!After(c), Settings!Begun(c)}
  BY DEF Settings!Serve
<1>3. settings' \in [on : [Settings!Forms -> BOOLEAN],
                     secret : [Settings!Forms -> Secrets \cup {None}],
                     pref : [Settings!Forms -> BOOLEAN]]
  BY <1>1, <1>2, AfterRequest
<1>4. PICK d : /\ calls' = [calls EXCEPT ![i] = d]
               /\ d \in Settings!Call /\ CallOK(d)
               /\ d.form = c.form
  <2>1. Settings!TabOf(c) \in Settings!Tabs
    BY DEF Settings!TabOf, Settings!Tabs
  <2>2. Settings!ViewOf(settings', Settings!TabOf(c))
          \in Settings!View(Settings!FormsOf(Settings!TabOf(c)))
    BY <1>3, <2>1, ViewOfTab
  <2>3. Settings!ViewOf(settings', Settings!TabOf(c)) \in Settings!Views
    BY <2>1, <2>2 DEF Settings!Views
  <2>4. CASE calls' = [calls EXCEPT ![i].at = "failed"]
    <3> DEFINE d == [c EXCEPT !.at = "failed"]
    <3>1. d \in Settings!Call /\ CallOK(d) /\ d.form = c.form
      BY <1>1 DEF Settings!Call, CallOK, Settings!TabOf
    <3> QED
      BY <2>4, <3>1
  <2>5. CASE calls' = [calls EXCEPT ![i].at = "done", ![i].answer =
                         Settings!ViewOf(settings', Settings!TabOf(c))]
    <3> DEFINE v == Settings!ViewOf(settings', Settings!TabOf(c))
    <3> DEFINE d == [c EXCEPT !.at = "done", !.answer = v]
    <3> HIDE DEF v
    <3>1. d \in Settings!Call /\ d.form = c.form /\ d.answer = v
          /\ d.old = c.old /\ d.kind = c.kind /\ d.secret = c.secret
      BY <1>1, <2>3 DEF Settings!Call, v
    <3>2. CallOK(d)
      BY <1>1, <2>2, <3>1 DEF CallOK, Settings!TabOf, v
    <3>3. calls' = [calls EXCEPT ![i] = d]
      BY <2>5 DEF v
    <3> QED
      BY <3>1, <3>2, <3>3
  <2> QED
    BY <2>4, <2>5 DEF Settings!Serve
<1> HIDE DEF c
<1>5. /\ calls' \in Seq(Settings!Call) /\ Len(calls') = Len(calls)
      /\ DOMAIN calls' = DOMAIN calls
      /\ \A j \in DOMAIN calls : calls'[j] = IF j = i THEN d ELSE calls[j]
  BY <1>4 DEF SettingsInv, Settings!TypeOK
<1>6. PendingOK'
  BY <1>4, <1>5 DEF SettingsInv, PendingOK, Settings!Serve, Settings!TabOf, c
<1> QED
  BY <1>3, <1>4, <1>5, <1>6 DEF SettingsInv, Settings!TypeOK, Settings!Serve

\* An answer fits the card that is shown.
LEMMA AnswerKeepsInv ==
  ASSUME SettingsInv, NEW f \in Settings!Forms \cup {"events"},
         Settings!Answer(f)
  PROVE  SettingsInv'
<1> DEFINE c == calls[pending[f]]
           V == Settings!View(Settings!FormsOf(tab))
<1>1. /\ c \in Settings!Call /\ CallOK(c) /\ settingsShown \in V
      /\ c.old \in V /\ (c.at = "done" => c.answer \in V)
      /\ c.kind = "delete" => c.form # "ldap"
  BY DEF SettingsInv, PendingOK, CallOK, Settings!Answer, Settings!TypeOK
<1>2. /\ typed' \in [Settings!Forms -> Secrets \cup {None}]
      /\ pending' = [pending EXCEPT ![f] = 0]
      /\ UNCHANGED <<settings, tab, calls>>
  BY <1>1 DEF Settings!Answer, SettingsInv, Settings!TypeOK
<1>3. settingsShown' \in V
  <2>1. settingsShown' = IF c.at = "done" THEN Settings!Confirmed(c)
                         ELSE Settings!Restored(c)
    BY DEF Settings!Answer
  <2>2. CASE c.at = "done"
    BY <1>1, <2>1, <2>2 DEF Settings!Confirmed, Settings!View
  <2>3. CASE c.at # "done"
    <3>1. CASE c.kind = "toggle"
      <4>1. settingsShown' = [settingsShown EXCEPT !.on[c.form] = ~c.on]
        BY <2>1, <2>3, <3>1, Zenon DEF Settings!Restored
      <4> QED
        BY <1>1, <4>1 DEF Settings!View, Settings!Call
    <3>2. CASE c.kind = "events"
      <4>1. settingsShown' =
              [c.old EXCEPT !.pref[IF c.on THEN "email" ELSE "discord"] = ~@]
        BY <2>1, <2>3, <3>2, Zenon DEF Settings!Restored
      <4> QED
        BY <1>1, <4>1 DEF Settings!View
    <3>3. CASE c.kind \notin {"toggle", "events"}
      <4>1. settingsShown' = settingsShown
        BY <2>1, <2>3, <3>3, Zenon DEF Settings!Restored
      <4> QED
        BY <1>1, <4>1
    <3> QED
      BY <3>1, <3>2, <3>3
  <2> QED
    BY <2>2, <2>3
<1> QED
  BY <1>1, <1>2, <1>3, FrontendAssumption
     DEF SettingsInv, Settings!TypeOK, PendingOK, Settings!SettingsAssumption

\* Every step of the settings pages and of their handlers keeps the invariant.
LEMMA SettingsInvNext ==
  SettingsInv /\ [Settings!Next]_(Settings!vars) => SettingsInv'
<1> SUFFICES ASSUME SettingsInv, [Settings!Next]_(Settings!vars)
             PROVE  SettingsInv'
  OBVIOUS
<1> DEFINE V == Settings!View(Settings!FormsOf(tab))
<1>0. \A f \in Settings!FormsOf(tab) :
         /\ f \in Settings!Forms \cup {"events"} /\ f # "events"
         /\ tab = IF f = "ldap" THEN "authentication" ELSE "notifications"
  BY TabOfForm, FrontendAssumption
     DEF SettingsInv, Settings!TypeOK, Settings!SettingsAssumption,
         Settings!Forms
<1>1. ASSUME NEW i \in DOMAIN calls, Settings!Serve(i) PROVE SettingsInv'
  BY <1>1, ServeKeepsInv
<1>2. ASSUME NEW f \in Settings!Forms \cup {"events"}, Settings!Answer(f)
      PROVE  SettingsInv'
  BY <1>2, AnswerKeepsInv
<1>3. ASSUME NEW t \in Settings!Tabs, Settings!OpenTab(t) PROVE SettingsInv'
  BY <1>3, FrontendAssumption
     DEF SettingsInv, Settings!TypeOK, PendingOK, Settings!OpenTab,
         Settings!NothingTyped, Settings!NothingPending, Settings!All,
         Settings!SettingsAssumption
<1>4. CASE Settings!LoadSettings
  <2>1. Settings!ViewOf(settings, tab) \in V
    BY ViewOfTab DEF SettingsInv, Settings!TypeOK
  <2> QED
    BY <1>4, <2>1
       DEF SettingsInv, Settings!TypeOK, PendingOK, Settings!LoadSettings
<1>5. CASE Settings!UpdateSetting
  <2>1. settingsShown' \in V
    BY <1>5 DEF SettingsInv, Settings!TypeOK, Settings!UpdateSetting,
                Settings!Usable, Settings!View
  <2> QED
    BY <1>5, <2>1
       DEF SettingsInv, Settings!TypeOK, PendingOK, Settings!UpdateSetting
<1>6. ASSUME NEW f \in Settings!Forms, NEW s \in Secrets,
             Settings!TypeSecret(f, s)
      PROVE  SettingsInv'
  BY <1>6 DEF SettingsInv, Settings!TypeOK, PendingOK, Settings!TypeSecret
<1>7. ASSUME NEW f \in Settings!Forms, Settings!Toggle(f) PROVE SettingsInv'
  <2>1. /\ f \in Settings!FormsOf(tab) /\ settingsShown \in V /\ f # "ldap"
        /\ settingsShown' = [settingsShown EXCEPT !.on[f] = ~settingsShown.on[f]]
        /\ Settings!Request(f, "toggle", ~settingsShown.on[f], None)
    BY <1>7 DEF Settings!Toggle, Settings!Usable, SettingsInv, Settings!TypeOK
  <2>2. settingsShown' \in V /\ (~settingsShown.on[f]) \in BOOLEAN
    BY <2>1 DEF Settings!View
  <2> QED
    BY <2>1, <2>2, <1>0, RequestKeepsInv
<1>8. ASSUME NEW f \in Settings!Forms, Settings!Save(f) PROVE SettingsInv'
  <2>1. /\ f \in Settings!FormsOf(tab) /\ settingsShown \in V
        /\ settingsShown' = settingsShown
        /\ Settings!Request(f, "save", settingsShown.on[f], typed[f])
    BY <1>8 DEF Settings!Save, Settings!Usable, SettingsInv, Settings!TypeOK
  <2>2. settingsShown' \in V /\ settingsShown.on[f] \in BOOLEAN
        /\ typed[f] \in Secrets \cup {None}
    BY <2>1 DEF Settings!View, SettingsInv, Settings!TypeOK
  <2> QED
    BY <2>1, <2>2, <1>0, RequestKeepsInv
<1>9. ASSUME NEW f \in Settings!Forms, Settings!Delete(f) PROVE SettingsInv'
  <2>1. /\ f \in Settings!FormsOf(tab) /\ settingsShown \in V /\ f # "ldap"
        /\ settingsShown' = settingsShown
        /\ Settings!Request(f, "delete", FALSE, None)
    BY <1>9 DEF Settings!Delete, Settings!Usable, SettingsInv, Settings!TypeOK
  <2> QED
    BY <2>1, <1>0, RequestKeepsInv
<1>10. ASSUME NEW f \in Settings!Forms, Settings!SaveEventToggle(f)
       PROVE  SettingsInv'
  <2>1. /\ f \in Settings!FormsOf(tab) /\ settingsShown \in V
        /\ settingsShown' = [settingsShown EXCEPT !.pref[f] = ~@]
        /\ Settings!Request("events", "events", f = "email", None)
        /\ f \in Channels
    BY <1>10 DEF Settings!SaveEventToggle, SettingsInv, Settings!TypeOK
  <2>2. settingsShown' \in V
    BY <2>1 DEF Settings!View
  <2>3. tab = "notifications" /\ (f = "email") \in BOOLEAN
    BY <2>1, <1>0, FrontendAssumption DEF Settings!SettingsAssumption
  <2> QED
    BY <2>1, <2>2, <2>3, RequestKeepsInv
<1>11. CASE UNCHANGED Settings!vars
  BY <1>11 DEF Settings!vars, SettingsInv, Settings!TypeOK, PendingOK, CallOK
<1> QED
  BY <1>1, <1>2, <1>3, <1>4, <1>5, <1>6, <1>7, <1>8, <1>9, <1>10, <1>11
     DEF Settings!Next

\* A secret changes only by a save of its own form or with its form.
LEMMA SecretStep ==
  ASSUME SettingsInv, [Settings!Next]_(Settings!vars),
         NEW f \in Settings!Forms,
         settings'.secret[f] # settings.secret[f]
  PROVE  \E i \in DOMAIN calls :
           /\ calls[i].at = "sent" /\ calls[i].form = f
           /\ \/ calls[i].kind = "delete" /\ settings'.secret[f] = None
              \/ /\ calls[i].kind = "save" /\ settings'.secret[f] # None
                 /\ settings'.secret[f] = calls[i].secret
<1>1. PICK i \in DOMAIN calls : Settings!Serve(i)
  BY DEF Settings!Next, Settings!vars, Settings!OpenTab, Settings!LoadSettings,
         Settings!UpdateSetting, Settings!TypeSecret, Settings!Toggle,
         Settings!Save, Settings!Delete, Settings!SaveEventToggle,
         Settings!Request, Settings!Answer
<1>2. /\ calls[i] \in Settings!Call /\ CallOK(calls[i])
      /\ calls[i].at = "sent"
      /\ settings' \in {Settings!After(calls[i]), Settings!Begun(calls[i])}
  BY <1>1 DEF SettingsInv, Settings!TypeOK, Settings!Serve
<1>3. /\ calls[i].form = f
      /\ \/ calls[i].kind = "delete" /\ settings'.secret[f] = None
         \/ /\ calls[i].kind = "save" /\ settings'.secret[f] # None
            /\ settings'.secret[f] = calls[i].secret
  <2> DEFINE c == calls[i]
             s == settings'
  <2>1. /\ c \in Settings!Call /\ CallOK(c)
        /\ s = Settings!After(c) \/ s = Settings!Begun(c)
        /\ s.secret[f] # settings.secret[f]
    BY <1>2
  <2>2. settings \in [on : [Settings!Forms -> BOOLEAN],
                      secret : [Settings!Forms -> Secrets \cup {None}],
                      pref : [Settings!Forms -> BOOLEAN]]
    BY DEF SettingsInv, Settings!TypeOK
  <2> HIDE DEF c, s
  <2>3. /\ c.form = f
        /\ \/ c.kind = "delete" /\ s.secret[f] = None
           \/ /\ c.kind = "save" /\ s.secret[f] # None
              /\ s.secret[f] = c.secret
    BY <2>1, <2>2, AfterRequest
  <2> QED
    BY <2>3 DEF c, s
<1> QED
  BY <1>2, <1>3

\* A stored secret changes only into one that was typed into its own form and
\* saved, or goes with its form: no other form, no empty field and no request
\* served late or half-way replaces it.
THEOREM SecretsKeptAlways == Spec => SecretsKept
<1>1. SettingsInv /\ [Settings!Next]_(Settings!vars) =>
        [\A f \in Settings!Forms : settings'.secret[f] # settings.secret[f] =>
           \E i \in DOMAIN calls :
             /\ calls[i].at = "sent" /\ calls[i].form = f
             /\ \/ calls[i].kind = "delete" /\ settings'.secret[f] = None
                \/ /\ calls[i].kind = "save" /\ settings'.secret[f] # None
                   /\ settings'.secret[f] = calls[i].secret]_(Settings!vars)
  BY SecretStep
<1> QED
  BY <1>1, SettingsInvInit, SettingsInvNext, PartsRefined, PTL
     DEF Spec, Settings!Spec, SecretsKept, Settings!SecretsKept

-----------------------------------------------------------------------------
\* Infrastructures.

\* What is stored, what is about to be, and the deletions that are under way.
StoredOK(s) == /\ s \in Card!Stored
               /\ s.nodesOf = s.endpoint
               /\ s.nodes \subseteq Card!NodesOf(s.endpoint)
               /\ s.endpoint \notin ClusterEndpoints => s.nodes # {}

\* Inductive: what is stored, and what is about to be, has the nodes behind its
\* endpoint and a name of its own.
CardInv ==
  /\ Card!TypeOK
  /\ \A i \in InfraIds : infrastructures[i] # None =>
       /\ StoredOK(infrastructures[i]) /\ i \in used
       /\ ~Card!NameTaken(i, infrastructures[i].name)
  /\ adds # None => /\ adds.nodesOf = adds.endpoint
                    /\ adds.nodes = Card!NodesOf(adds.endpoint)
  /\ \A d \in Deletes : deletes[d] # None =>
       LET t == deletes[d] IN
       /\ t[1] \in used
       /\ t[2] # 0 /\ infrastructures[t[1]] # None
            => infrastructures[t[1]].nodesOf \in ClusterEndpoints

\* At the start nothing is stored.
LEMMA CardInvInit == Init => CardInv
  BY DEF Init, Card!Init, CardInv, Card!TypeOK, Card!Blank

\* The form, a discovery and the save it ends in.
LEMMA CardFormStep ==
  ASSUME CardInv,
         \/ Card!OpenCreate \/ Card!CloseCreate \/ Card!Discover
         \/ Card!DiscoverFails
         \/ \E e \in Endpoints, k \in Tokens : Card!EditConnection(e, k)
         \/ \E hosts \in BOOLEAN : \/ Card!DiscoverAnswer(hosts)
                                   \/ Card!UpdateNodeHost(hosts)
         \/ \E n \in DisplayNames : Card!SaveInfrastructure(n)
  PROVE  CardInv'
<1> USE DEF Card!listVars, Card!stored
<1>1. UNCHANGED <<infrastructures, used, list, loads, rename, renaming,
                  deletes, deletingId>>
  BY DEF Card!OpenCreate, Card!CloseCreate, Card!Discover, Card!DiscoverFails,
         Card!EditConnection, Card!DiscoverAnswer, Card!UpdateNodeHost,
         Card!SaveInfrastructure
<1> DEFINE
      Form == [open : BOOLEAN, endpoint : Endpoints \cup {None},
               token : Tokens \cup {None}, found : Card!Discovery \cup {None}]
      Types == adding' \in Form
               /\ discovering' \in [endpoint : Endpoints, token : Tokens]
                                     \cup {None}
      Post == \/ UNCHANGED adds
              \/ /\ adds' \in [endpoint : Endpoints, nodesOf : Endpoints,
                               nodes : SUBSET (1 .. 2),
                               token : Tokens \cup {None}, name : DisplayNames]
                 /\ adds'.nodesOf = adds'.endpoint
                 /\ adds'.nodes = Card!NodesOf(adds'.endpoint)
<1>2. Types /\ Post
  <2> USE DEF CardInv, Card!TypeOK
  <2>1. CASE Card!OpenCreate \/ Card!CloseCreate
    <3>1. Card!Blank \in Form /\ [Card!Blank EXCEPT !.open = TRUE] \in Form
      BY DEF Card!Blank
    <3> QED
      BY <2>1, <3>1 DEF Card!OpenCreate, Card!CloseCreate
  <2>2. CASE Card!Discover
    BY <2>2 DEF Card!Discover
  <2>3. CASE Card!DiscoverFails
    BY <2>3 DEF Card!DiscoverFails
  <2>4. ASSUME NEW e \in Endpoints, NEW k \in Tokens, Card!EditConnection(e, k)
        PROVE  Types /\ Post
    BY <2>4 DEF Card!EditConnection
  <2>5. ASSUME NEW hosts \in BOOLEAN, Card!DiscoverAnswer(hosts)
        PROVE  Types /\ Post
    BY <2>5 DEF Card!DiscoverAnswer, Card!Discovery
  <2>6. ASSUME NEW hosts \in BOOLEAN, Card!UpdateNodeHost(hosts)
        PROVE  Types /\ Post
    <3>1. adding.found \in Card!Discovery
      BY <2>6 DEF Card!UpdateNodeHost
    <3>2. [adding.found EXCEPT !.hosts = hosts] \in Card!Discovery
      BY <3>1 DEF Card!Discovery
    <3>3. adding' = [adding EXCEPT !.found = [adding.found EXCEPT !.hosts = hosts]]
      BY <2>6 DEF Card!UpdateNodeHost
    <3> QED
      BY <2>6, <3>2, <3>3 DEF Card!UpdateNodeHost
  <2>7. ASSUME NEW n \in DisplayNames, Card!SaveInfrastructure(n)
        PROVE  Types /\ Post
    <3>1. adding.found \in Card!Discovery
      BY <2>7 DEF Card!SaveInfrastructure
    <3>2. /\ adds' = Card!Payload(n)
          /\ UNCHANGED <<adding, discovering>>
      BY <2>7 DEF Card!SaveInfrastructure
    <3>3. adding.found.endpoint \in Endpoints
      BY <3>1 DEF Card!Discovery
    <3> QED
      BY <3>2, <3>3 DEF Card!Payload, Card!NodesOf
  <2> QED
    BY <2>1, <2>2, <2>3, <2>4, <2>5, <2>6, <2>7
<1> QED
  BY <1>1, <1>2 DEF CardInv, Card!TypeOK, Card!NameTaken

\* What is stored after a change that gives infrastructure i the value s.
LEMMA StoreKeepsNames ==
  ASSUME CardInv, NEW i \in InfraIds, NEW s \in Card!Stored,
         infrastructures' = [infrastructures EXCEPT ![i] = s],
         ~Card!NameTaken(i, s.name)
  PROVE  /\ infrastructures' \in [InfraIds -> Card!Stored \cup {None}]
         /\ \A k \in InfraIds : infrastructures'[k] # None =>
              ~Card!NameTaken(k, infrastructures[k].name)'
  BY DEF CardInv, Card!TypeOK, Card!NameTaken

\* A save stores the request, whose nodes come from its endpoint, or nothing.
LEMMA CardSaveAnswer ==
  ASSUME CardInv, Card!SaveAnswer
  PROVE  CardInv'
<1> USE DEF CardInv, Card!TypeOK
<1>1. CASE UNCHANGED <<infrastructures, used, adding, list, loads>>
  BY <1>1 DEF Card!SaveAnswer, Card!stored, Card!NameTaken
<1>2. ASSUME NEW i \in InfraIds \ used,
             adds.token # None, ~Card!NameTaken(None, adds.name),
             used' = used \cup {i},
             infrastructures' = [infrastructures EXCEPT ![i] = adds],
             adding' = Card!Blank, Card!LoadInfrastructures("save")
      PROVE  CardInv'
  <2>1. StoredOK(adds)
    BY <1>2 DEF Card!SaveAnswer, StoredOK, Card!Stored, Card!NodesOf
  <2>2. ~Card!NameTaken(i, adds.name)
    BY <1>2, FrontendAssumption
       DEF Card!NameTaken, Card!InfrastructureAssumption
  <2>3. /\ infrastructures' \in [InfraIds -> Card!Stored \cup {None}]
        /\ \A k \in InfraIds : infrastructures'[k] # None =>
             ~Card!NameTaken(k, infrastructures[k].name)'
    BY <1>2, <2>1, <2>2, StoreKeepsNames DEF StoredOK
  <2>4. /\ list' \in [loading : BOOLEAN, failed : BOOLEAN]
        /\ loads' \subseteq {"mount", "save", "rename"} \cup Deletes
        /\ Card!Blank \in [open : BOOLEAN, endpoint : Endpoints \cup {None},
                           token : Tokens \cup {None},
                           found : Card!Discovery \cup {None}]
    BY <1>2 DEF Card!LoadInfrastructures, Card!Blank
  <2>5. \A k \in InfraIds : infrastructures'[k] # None =>
          StoredOK(infrastructures'[k]) /\ k \in used'
    BY <1>2, <2>1
  <2>6. \A d \in Deletes : deletes[d] # None =>
          infrastructures'[deletes[d][1]] = infrastructures[deletes[d][1]]
    BY <1>2
  <2> QED
    BY <1>2, <2>3, <2>4, <2>5, <2>6 DEF Card!SaveAnswer
<1> QED
  BY <1>1, <1>2 DEF Card!SaveAnswer, Card!stored

\* Renaming leaves the endpoint and its nodes alone.
LEMMA CardRenameAnswer ==
  ASSUME CardInv, Card!RenameAnswer
  PROVE  CardInv'
<1> USE DEF CardInv, Card!TypeOK, Card!formVars
<1>1. CASE UNCHANGED <<infrastructures, rename, list, loads>>
  BY <1>1 DEF Card!RenameAnswer, Card!NameTaken
<1>2. CASE /\ infrastructures[renaming.id] # None
           /\ infrastructures' = Card!Renamed(renaming)
           /\ rename' = None /\ Card!LoadInfrastructures("rename")
  <2> DEFINE i == renaming.id
             s == [infrastructures[i] EXCEPT !.name = renaming.name]
  <2>1. /\ i \in InfraIds /\ renaming.name \in DisplayNames
        /\ infrastructures[i] \in Card!Stored /\ StoredOK(infrastructures[i])
        /\ i \in used
    BY <1>2 DEF Card!RenameAnswer
  <2>2. /\ list' \in [loading : BOOLEAN, failed : BOOLEAN]
        /\ loads' \subseteq {"mount", "save", "rename"} \cup Deletes
    BY <1>2 DEF Card!LoadInfrastructures
  <2>3. CASE infrastructures' = infrastructures
    BY <1>2, <2>2, <2>3 DEF Card!RenameAnswer, Card!NameTaken
  <2>4. CASE /\ infrastructures' = [infrastructures EXCEPT ![i] = s]
             /\ ~Card!NameTaken(i, s.name)
    <3>1. s \in Card!Stored /\ StoredOK(s) /\ s.nodesOf = infrastructures[i].nodesOf
      BY <2>1 DEF Card!Stored, StoredOK
    <3> HIDE DEF s, i
    <3>2. /\ infrastructures' \in [InfraIds -> Card!Stored \cup {None}]
          /\ \A k \in InfraIds : infrastructures'[k] # None =>
               ~Card!NameTaken(k, infrastructures[k].name)'
      BY <2>1, <2>4, <3>1, StoreKeepsNames
    <3>3. \A k \in InfraIds : infrastructures'[k] # None =>
            StoredOK(infrastructures'[k]) /\ k \in used
      BY <2>1, <2>4, <3>1
    <3>4. \A d \in Deletes : deletes[d] # None =>
            LET t == deletes[d] IN
            t[2] # 0 /\ infrastructures'[t[1]] # None
              => infrastructures'[t[1]].nodesOf \in ClusterEndpoints
      BY <1>2, <2>1, <2>4, <3>1 DEF i
    <3> QED
      BY <1>2, <2>2, <3>2, <3>3, <3>4 DEF Card!RenameAnswer
  <2>5. \/ infrastructures' = infrastructures
        \/ /\ infrastructures' = [infrastructures EXCEPT ![i] = s]
           /\ ~Card!NameTaken(i, s.name)
    BY <1>2, <2>1 DEF Card!Renamed, Card!Stored
  <2> QED
    BY <2>3, <2>4, <2>5
<1> QED
  BY <1>1, <1>2 DEF Card!RenameAnswer

\* Deleting an infrastructure or one of its nodes leaves the others as they
\* are, and the node of a standalone host is not offered.
LEMMA CardDeleteAnswer ==
  ASSUME CardInv, NEW d \in Deletes, Card!DeleteAnswer(d)
  PROVE  CardInv'
<1> USE DEF CardInv, Card!TypeOK, Card!formVars
<1> DEFINE t == deletes[d]
<1>1. /\ t \in Card!Targets /\ t[1] \in InfraIds /\ t[2] \in 0 .. 2
      /\ t # None
  BY DEF Card!DeleteAnswer, Card!Targets
<1>2. CASE /\ list' = [list EXCEPT !.failed = TRUE]
           /\ deletes' = [deletes EXCEPT ![d] = None] /\ deletingId' = None
           /\ UNCHANGED <<infrastructures, loads>>
  BY <1>2 DEF Card!DeleteAnswer, Card!NameTaken
<1>3. CASE /\ Card!Exists(t) /\ infrastructures' = Card!Deleted(t)
           /\ Card!LoadInfrastructures(d)
           /\ UNCHANGED <<deletes, deletingId>>
  <2>1. /\ list' \in [loading : BOOLEAN, failed : BOOLEAN]
        /\ loads' \subseteq {"mount", "save", "rename"} \cup Deletes
    BY <1>3 DEF Card!LoadInfrastructures
  <2>2. /\ infrastructures[t[1]] # None
        /\ StoredOK(infrastructures[t[1]])
        /\ t[2] # 0 => infrastructures[t[1]].nodesOf \in ClusterEndpoints
    BY <1>1, <1>3 DEF Card!Exists
  <2>3. /\ infrastructures' \in [InfraIds -> Card!Stored \cup {None}]
        /\ \A k \in InfraIds : infrastructures'[k] # None =>
             /\ StoredOK(infrastructures'[k])
             /\ infrastructures[k] # None
             /\ infrastructures'[k].name = infrastructures[k].name
             /\ infrastructures'[k].nodesOf = infrastructures[k].nodesOf
    <3>1. CASE t[2] = 0
      BY <1>1, <1>3, <3>1 DEF Card!Deleted
    <3>2. CASE t[2] # 0
      <4> DEFINE s == [infrastructures[t[1]] EXCEPT !.nodes = @ \ {t[2]}]
      <4>1. infrastructures' = [infrastructures EXCEPT ![t[1]] = s]
        BY <1>1, <1>3, <3>2 DEF Card!Deleted
      <4>2. /\ StoredOK(s) /\ s.name = infrastructures[t[1]].name
            /\ s.nodesOf = infrastructures[t[1]].nodesOf
        BY <2>2, <3>2 DEF StoredOK, Card!Stored
      <4> HIDE DEF s
      <4> QED
        BY <1>1, <2>2, <4>1, <4>2 DEF StoredOK
    <3> QED
      BY <3>1, <3>2
  <2>4. \A k \in InfraIds : infrastructures'[k] # None =>
          ~Card!NameTaken(k, infrastructures[k].name)'
    BY <2>3 DEF Card!NameTaken
  <2> QED
    BY <1>1, <1>3, <2>1, <2>3, <2>4 DEF Card!DeleteAnswer, Card!Targets
<1> QED
  BY <1>2, <1>3 DEF Card!DeleteAnswer

\* A question that is confirmed sends a request about what it asked for.
LEMMA CardDelete ==
  ASSUME CardInv, NEW t \in Card!Targets, NEW d \in Deletes, Card!Delete(t, d)
  PROVE  CardInv'
<1> USE DEF CardInv, Card!TypeOK, Card!formVars, Card!stored
<1>1. t[1] \in InfraIds
  BY DEF Card!Targets
<1>2. /\ infrastructures[t[1]] # None
      /\ t[2] # 0 => infrastructures[t[1]].nodesOf \in ClusterEndpoints
  BY DEF Card!Delete, Card!Offered, Card!Visible
<1>3. /\ deletes' = [deletes EXCEPT ![d] = t] /\ deletingId' = t
      /\ list' = [list EXCEPT !.failed = FALSE]
      /\ UNCHANGED <<infrastructures, used, loads, rename, renaming, adding,
                     discovering, adds>>
  BY DEF Card!Delete
<1> QED
  BY <1>1, <1>2, <1>3 DEF Card!NameTaken

\* Every step of the card and of its handlers keeps the invariant.
LEMMA CardInvNext == CardInv /\ [Card!Next]_(Card!vars) => CardInv'
<1> SUFFICES ASSUME CardInv, [Card!Next]_(Card!vars) PROVE CardInv'
  OBVIOUS
<1>1. CASE Card!CreateNext
  BY <1>1, CardFormStep, CardSaveAnswer DEF Card!CreateNext
<1>2. CASE Card!ListNext
  <2> USE DEF Card!formVars, Card!stored, Card!NameTaken
  <2>1. CASE Card!CloseRename
    BY <2>1 DEF Card!CloseRename, CardInv, Card!TypeOK
  <2>2. ASSUME NEW i \in InfraIds, Card!OpenRename(i) PROVE CardInv'
    BY <2>2 DEF Card!OpenRename, CardInv, Card!TypeOK
  <2>3. ASSUME NEW n \in DisplayNames, Card!SaveRename(n) PROVE CardInv'
    BY <2>3 DEF Card!SaveRename, CardInv, Card!TypeOK
  <2>4. ASSUME NEW who \in loads, NEW ok \in BOOLEAN, Card!LoadAnswer(who, ok)
        PROVE  CardInv'
    <3>1. /\ loads' \subseteq loads
          /\ list' \in [loading : BOOLEAN, failed : BOOLEAN]
          /\ \/ UNCHANGED <<deletes, deletingId>>
             \/ /\ deletes' = [deletes EXCEPT ![who] = None]
                /\ deletingId' = None /\ who \in Deletes
      BY <2>4 DEF Card!LoadAnswer, CardInv, Card!TypeOK
    <3> QED
      BY <2>4, <3>1 DEF Card!LoadAnswer, CardInv, Card!TypeOK
  <2> QED
    BY <1>2, <2>1, <2>2, <2>3, <2>4, CardRenameAnswer, CardDelete,
       CardDeleteAnswer DEF Card!ListNext
<1>3. CASE UNCHANGED Card!vars
  BY <1>3 DEF Card!vars, CardInv, Card!TypeOK, Card!NameTaken
<1> QED
  BY <1>1, <1>2, <1>3 DEF Card!Next

\* The nodes stored with an infrastructure are behind its endpoint and its name
\* is its own, whatever was edited in the form between a discovery and the
\* save.
THEOREM InfrastructuresFit == Spec => []Card!NodesOfEndpoint
<1>1. CardInv => Card!NodesOfEndpoint
  BY DEF CardInv, StoredOK, Card!NodesOfEndpoint
<1> QED
  BY <1>1, CardInvInit, CardInvNext, PartsRefined, PTL DEF Spec, Card!Spec
=============================================================================
