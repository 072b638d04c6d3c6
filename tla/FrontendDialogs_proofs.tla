------------------------ MODULE FrontendDialogs_proofs ------------------------
(***************************************************************************)
(* Proofs about the frontend, third part: the two dialogs with requests of *)
(* their own, the editor of a scheduled task and the drawer of a guest,    *)
(* and with them the properties the pages share.                           *)
(***************************************************************************)
EXTENDS FrontendPages_proofs, SequenceTheorems

-----------------------------------------------------------------------------
\* The editor of a scheduled task.

\* What is chosen in a form belongs to its infrastructure.
Placed(f) ==
  /\ f.guest # None => Infra[Place[f.guest]] = f.infra
  /\ \A n \in f.nodes : Infra[n] = f.infra
  /\ f.action = "migrate" /\ f.target # None => Infra[f.target] = f.infra

\* The archive or snapshot that is chosen is one of the guest.
ItemOfGuest(f) ==
  f.action \in Editor!Lookups /\ f.item # None => f.item[1] = f.guest

\* What is on offer, and what is on its way, is about the guest.
AboutGuest(f, lookingUp) ==
  /\ f.listed # None => f.listed = f.guest /\ f.action \in Editor!Lookups
  /\ \A g \in lookingUp : f.guest = g /\ f.action \in Editor!Lookups

\* The form fits at every moment, so what is sent fits, so what is stored
\* fits: each is needed for the next, and what is stored is edited again.
EditorInv ==
  /\ Editor!TypeOK
  /\ Placed(editor) /\ ItemOfGuest(editor) /\ AboutGuest(editor, lookups)
  /\ saving # None => Editor!Fits(saving.task)
  /\ Editor!StoredFits

\* An empty form fits together.
LEMMA BlankFits ==
  Editor!Blank \in Editor!Form /\ Placed(Editor!Blank)
  BY DEF Editor!Blank, Editor!Form, Placed

\* The lookup effects leave a form that fits, whatever it is changed to, if
\* the item and the list are only carried along with their guest and action.
LEMMA LookupFits ==
  ASSUME EditorInv, NEW f \in Editor!Form, Placed(f), Editor!Lookup(f),
         f.action = editor.action /\ f.guest = editor.guest =>
           ItemOfGuest(f) /\ f.listed \in {None, editor.listed}
  PROVE  /\ editor' \in Editor!Form /\ lookups' \subseteq ScheduledGuests
         /\ Placed(editor') /\ ItemOfGuest(editor')
         /\ AboutGuest(editor', lookups')
<1>1. CASE f.action = editor.action /\ f.guest = editor.guest
  BY <1>1 DEF Editor!Lookup, EditorInv, Editor!TypeOK, AboutGuest
<1>2. CASE ~(f.action = editor.action /\ f.guest = editor.guest)
  <2>1. editor' = [f EXCEPT !.item = None, !.listed = None]
    BY <1>2 DEF Editor!Lookup
  <2>2. lookups' = IF f.action \in Editor!Lookups /\ f.guest # None
                   THEN {f.guest} ELSE {}
    BY <1>2, Zenon DEF Editor!Lookup
  <2>3. /\ editor' \in Editor!Form
        /\ editor'.item = None /\ editor'.listed = None
        /\ editor'.guest = f.guest /\ editor'.action = f.action
        /\ editor'.infra = f.infra /\ editor'.nodes = f.nodes
        /\ editor'.target = f.target
    BY <2>1 DEF Editor!Form
  <2>4. lookups' \subseteq ScheduledGuests
    BY <2>2 DEF Editor!Form
  <2> QED
    BY <2>2, <2>3, <2>4 DEF Placed, ItemOfGuest, AboutGuest
<1> QED
  BY <1>1, <1>2

\* The rest of the state is as it was.
Quiet == UNCHANGED <<schedules, saving, toggling>>

\* A form whose fields fit starts lookups of its own guest's items.
LEMMA LookupStep ==
  ASSUME EditorInv, NEW f \in Editor!Form, Placed(f), Editor!Lookup(f), Quiet,
         f.action = editor.action /\ f.guest = editor.guest =>
           ItemOfGuest(f) /\ f.listed \in {None, editor.listed}
  PROVE  EditorInv'
  BY LookupFits DEF EditorInv, Quiet, Editor!TypeOK, Editor!StoredFits

\* A choice that concerns neither guest nor action.
LEMMA ChoiceStep ==
  ASSUME EditorInv, Quiet, editor' \in Editor!Form, Placed(editor'),
         ItemOfGuest(editor'), lookups' \subseteq lookups,
         editor'.action = editor.action, editor'.guest = editor.guest,
         editor'.listed \in {None, editor.listed} \cup lookups
  PROVE  EditorInv'
  BY DEF EditorInv, Quiet, Editor!TypeOK, Editor!StoredFits, AboutGuest

\* A dialog for a new task opens with a form that fits.
LEMMA OpenCreateFits ==
  ASSUME EditorInv, NEW i \in Editor!Infras \cup {None}, Editor!OpenCreate(i)
  PROVE  EditorInv'
<1> DEFINE f == [Editor!Blank EXCEPT !.open = TRUE, !.infra = i]
<1>1. /\ f \in Editor!Form /\ f.guest = None /\ f.action = None
      /\ f.nodes = {} /\ f.listed = None /\ f.item = None /\ f.target = None
  BY DEF Editor!Blank, Editor!Form
<1>2. Editor!Lookup(f) /\ Quiet
  BY DEF Editor!OpenCreate, Quiet
<1>3. Placed(f) /\ ItemOfGuest(f)
  BY <1>1 DEF Placed, ItemOfGuest
<1> HIDE DEF f
<1> QED
  BY <1>1, <1>2, <1>3, LookupStep

\* A dialog opens with what is stored, which fits.
LEMMA OpenEditFits ==
  ASSUME EditorInv, NEW t \in Schedules, Editor!OpenEdit(t)
  PROVE  EditorInv'
<1> DEFINE s == schedules[t]
           f == [open |-> TRUE, editing |-> t, infra |-> s.infra,
                 action |-> s.action, guest |-> s.guest,
                 nodes |-> Editor!StoredNodes(s), item |-> s.item,
                 listed |-> None, storage |-> s.storage,
                 target |-> s.target, enabled |-> s.enabled]
<1>1. s \in Editor!Task /\ Editor!Fits(s)
  BY DEF EditorInv, Editor!TypeOK, Editor!OpenEdit, Editor!StoredFits
<1>2. Editor!Lookup(f) /\ Quiet
  BY DEF Editor!OpenEdit, Quiet
<1> HIDE DEF s
<1>3. Editor!StoredNodes(s) \subseteq Nodes
  BY <1>1, FrontendAssumption
     DEF Editor!StoredNodes, Editor!Task, Editor!EditorAssumption
<1>4. f \in Editor!Form
  BY <1>1, <1>3 DEF Editor!Form, Editor!Task
<1>5. Placed(f) /\ ItemOfGuest(f)
  BY <1>1 DEF Placed, ItemOfGuest, Editor!Fits, Editor!StoredNodes
<1>6. f.listed = None
  OBVIOUS
<1> HIDE DEF f
<1> QED
  BY <1>2, <1>4, <1>5, <1>6, LookupStep

\* The choices of infrastructure, action and guest.
LEMMA SelectFits ==
  ASSUME EditorInv,
         \/ \E i \in Editor!Infras : Editor!SelectInfrastructure(i)
         \/ \E a \in ScheduledActions \cup {None} : Editor!SelectAction(a)
         \/ \E g \in ScheduledGuests \cup {None} : Editor!SelectGuest(g)
  PROVE  EditorInv'
<1>0. editor \in Editor!Form /\ Placed(editor) /\ ItemOfGuest(editor)
  BY DEF EditorInv, Editor!TypeOK
<1>1. ASSUME NEW i \in Editor!Infras, Editor!SelectInfrastructure(i)
      PROVE  EditorInv'
  <2> DEFINE f == [editor EXCEPT !.infra = i, !.nodes = {}, !.guest = None,
                                 !.target = None]
  <2>1. /\ f \in Editor!Form /\ f.guest = None /\ f.nodes = {}
        /\ f.target = None /\ f.listed = editor.listed
        /\ f.item = editor.item /\ f.action = editor.action
    BY <1>0 DEF Editor!Form
  <2>2. Editor!Lookup(f) /\ Quiet
    BY <1>1 DEF Editor!SelectInfrastructure, Quiet
  <2> HIDE DEF f
  <2>3. Placed(f) /\ (f.guest = editor.guest => ItemOfGuest(f))
    BY <1>0, <2>1 DEF Placed, ItemOfGuest
  <2> QED
    BY <2>1, <2>2, <2>3, LookupStep
<1>2. ASSUME NEW a \in ScheduledActions \cup {None}, Editor!SelectAction(a)
      PROVE  EditorInv'
  <2> DEFINE f == [editor EXCEPT !.action = a, !.nodes = {}, !.guest = None,
                                 !.item = None, !.storage = None,
                                 !.target = None]
  <2>1. /\ f \in Editor!Form /\ f.guest = None /\ f.nodes = {}
        /\ f.target = None /\ f.item = None /\ f.action = a
        /\ f.listed = editor.listed
    BY <1>0 DEF Editor!Form
  <2>2. Editor!Lookup(f) /\ Quiet
    BY <1>2 DEF Editor!SelectAction, Quiet
  <2> HIDE DEF f
  <2>3. Placed(f) /\ ItemOfGuest(f)
    BY <2>1 DEF Placed, ItemOfGuest
  <2> QED
    BY <2>1, <2>2, <2>3, LookupStep
<1>3. ASSUME NEW g \in ScheduledGuests \cup {None}, Editor!SelectGuest(g)
      PROVE  EditorInv'
  <2> DEFINE f == [editor EXCEPT !.guest = g]
  <2>1. /\ f \in Editor!Form /\ f.guest = g /\ f.guest # editor.guest
        /\ f.infra = editor.infra /\ f.nodes = editor.nodes
        /\ f.action = editor.action /\ f.target = editor.target
    BY <1>0, <1>3 DEF Editor!Form, Editor!SelectGuest
  <2>2. Editor!Lookup(f) /\ Quiet
    BY <1>3 DEF Editor!SelectGuest, Quiet
  <2> HIDE DEF f
  <2>3. Placed(f)
    BY <1>0, <1>3, <2>1 DEF Placed, Editor!SelectGuest, Editor!GuestsOf
  <2> QED
    BY <2>1, <2>2, <2>3, LookupStep
<1> QED
  BY <1>1, <1>2, <1>3

\* The choices of archive or snapshot, nodes, storage and target node, and
\* the answer of a lookup.
LEMMA ChooseFits ==
  ASSUME EditorInv,
         \/ \E i \in Editor!Items \cup {None} : Editor!SelectItem(i)
         \/ \E ns \in SUBSET Nodes : Editor!SelectNodes(ns)
         \/ \E n \in Nodes \cup {None} :
              Editor!SelectStorage(n) \/ Editor!SelectTarget(n)
         \/ \E g \in ScheduledGuests, ok \in BOOLEAN :
              Editor!LookupAnswer(g, ok)
  PROVE  EditorInv'
<1>0. editor \in Editor!Form /\ Placed(editor) /\ ItemOfGuest(editor)
      /\ AboutGuest(editor, lookups)
  BY DEF EditorInv, Editor!TypeOK
<1>1. ASSUME NEW i \in Editor!Items \cup {None}, Editor!SelectItem(i)
      PROVE  EditorInv'
  <2>1. i = None \/ i[1] = editor.guest
    BY <1>0, <1>1 DEF Editor!SelectItem, AboutGuest
  <2>2. editor' = [editor EXCEPT !.item = i] /\ lookups' = lookups /\ Quiet
    BY <1>1 DEF Editor!SelectItem, Quiet
  <2>3. /\ editor' \in Editor!Form /\ editor'.item = i
        /\ editor'.infra = editor.infra /\ editor'.action = editor.action
        /\ editor'.guest = editor.guest /\ editor'.nodes = editor.nodes
        /\ editor'.target = editor.target /\ editor'.listed = editor.listed
    BY <1>0, <2>2 DEF Editor!Form
  <2>4. Placed(editor') /\ ItemOfGuest(editor')
    BY <1>0, <2>1, <2>3 DEF Placed, ItemOfGuest
  <2> QED
    BY <2>2, <2>3, <2>4, ChoiceStep
<1>2. ASSUME NEW ns \in SUBSET Nodes, Editor!SelectNodes(ns)
      PROVE  EditorInv'
  <2>2. editor' = [editor EXCEPT !.nodes = ns] /\ lookups' = lookups /\ Quiet
    BY <1>2 DEF Editor!SelectNodes, Quiet
  <2>3. /\ editor' \in Editor!Form /\ editor'.item = editor.item
        /\ editor'.infra = editor.infra /\ editor'.action = editor.action
        /\ editor'.guest = editor.guest /\ editor'.nodes = ns
        /\ editor'.target = editor.target /\ editor'.listed = editor.listed
    BY <1>0, <2>2 DEF Editor!Form
  <2>4. Placed(editor') /\ ItemOfGuest(editor')
    BY <1>0, <1>2, <2>3
       DEF Placed, ItemOfGuest, Editor!SelectNodes, Editor!NodesOf
  <2> QED
    BY <2>2, <2>3, <2>4, ChoiceStep
<1>3. ASSUME NEW n \in Nodes \cup {None}, Editor!SelectStorage(n)
      PROVE  EditorInv'
  <2>2. editor' = [editor EXCEPT !.storage = n] /\ lookups' = lookups /\ Quiet
    BY <1>3 DEF Editor!SelectStorage, Quiet
  <2>3. /\ editor' \in Editor!Form /\ editor'.item = editor.item
        /\ editor'.infra = editor.infra /\ editor'.action = editor.action
        /\ editor'.guest = editor.guest /\ editor'.nodes = editor.nodes
        /\ editor'.target = editor.target /\ editor'.listed = editor.listed
    BY <1>0, <2>2 DEF Editor!Form
  <2>4. Placed(editor') /\ ItemOfGuest(editor')
    BY <1>0, <2>3 DEF Placed, ItemOfGuest
  <2> QED
    BY <2>2, <2>3, <2>4, ChoiceStep
<1>4. ASSUME NEW n \in Nodes \cup {None}, Editor!SelectTarget(n)
      PROVE  EditorInv'
  <2>2. editor' = [editor EXCEPT !.target = n] /\ lookups' = lookups /\ Quiet
    BY <1>4 DEF Editor!SelectTarget, Quiet
  <2>3. /\ editor' \in Editor!Form /\ editor'.item = editor.item
        /\ editor'.infra = editor.infra /\ editor'.action = editor.action
        /\ editor'.guest = editor.guest /\ editor'.nodes = editor.nodes
        /\ editor'.target = n /\ editor'.listed = editor.listed
    BY <1>0, <2>2 DEF Editor!Form
  <2>4. Placed(editor') /\ ItemOfGuest(editor')
    BY <1>0, <1>4, <2>3
       DEF Placed, ItemOfGuest, Editor!SelectTarget, Editor!NodesOf
  <2> QED
    BY <2>2, <2>3, <2>4, ChoiceStep
<1>5. ASSUME NEW g \in ScheduledGuests, NEW ok \in BOOLEAN,
             Editor!LookupAnswer(g, ok)
      PROVE  EditorInv'
  <2> DEFINE i == IF ~ok THEN None
                  ELSE IF editor.action = "restore" THEN <<g, Newest>>
                  ELSE editor.item
             l == IF ok THEN g ELSE None
  <2>1. /\ g \in lookups /\ editor.guest = g
        /\ i \in Editor!Items \cup {None}
        /\ i # None /\ i # editor.item => i[1] = g
        /\ l \in {None, g}
    <3>1. g \in lookups /\ editor.guest = g
      BY <1>0, <1>5 DEF Editor!LookupAnswer, AboutGuest
    <3>2. <<g, Newest>> \in Editor!Items
      BY FrontendAssumption DEF Editor!Items, Editor!EditorAssumption
    <3>3. editor.item \in Editor!Items \cup {None}
      BY <1>0 DEF Editor!Form
    <3> QED
      BY <3>1, <3>2, <3>3
  <2>2. /\ editor' = [editor EXCEPT !.item = i, !.listed = l]
        /\ lookups' = lookups \ {g} /\ Quiet
    <3>1. CASE ok
      BY <1>0, <1>5, <3>1 DEF Editor!LookupAnswer, Quiet, Editor!Form
    <3>2. CASE ~ok
      BY <1>0, <1>5, <3>2 DEF Editor!LookupAnswer, Quiet, Editor!Form
    <3> QED
      BY <3>1, <3>2
  <2> HIDE DEF i, l
  <2>3. /\ editor' \in Editor!Form /\ editor'.item = i
        /\ editor'.infra = editor.infra /\ editor'.action = editor.action
        /\ editor'.guest = editor.guest /\ editor'.nodes = editor.nodes
        /\ editor'.target = editor.target /\ editor'.listed = l
    BY <1>0, <2>1, <2>2 DEF Editor!Form
  <2>4. Placed(editor') /\ ItemOfGuest(editor')
    BY <1>0, <2>1, <2>3 DEF Placed, ItemOfGuest
  <2> QED
    BY <2>1, <2>2, <2>3, <2>4, ChoiceStep
<1> QED
  BY <1>1, <1>2, <1>3, <1>4, <1>5

\* What is sent is what the form describes.
LEMMA SaveFits == ASSUME EditorInv, Editor!SaveTask PROVE EditorInv'
<1>0. editor \in Editor!Form /\ Placed(editor) /\ ItemOfGuest(editor)
  BY DEF EditorInv, Editor!TypeOK
<1>1. /\ editor.infra \in Editor!Infras /\ editor.action \in ScheduledActions
      /\ Editor!Complete
  BY <1>0 DEF Editor!SaveTask, Editor!Form
<1>2. editor.action \in Editor!GuestTasks \/ editor.action \in Editor!NodeTasks
  BY <1>1 DEF Editor!GuestTasks
<1>3. editor.action \in Editor!Lookups \/ editor.action = "migrate"
        => editor.action \in Editor!GuestTasks
  BY <1>1 DEF Editor!GuestTasks, Editor!NodeTasks, Editor!Lookups
<1>4. Editor!Input \in Editor!Task
  BY <1>0, <1>1 DEF Editor!Input, Editor!Task, Editor!Form
<1>5. Editor!Fits(Editor!Input)
  BY <1>0, <1>1, <1>2, <1>3
     DEF Editor!Fits, Editor!Input, Editor!Complete, Placed, ItemOfGuest
<1>6. saving' = [id |-> editor.editing, task |-> Editor!Input]
  BY DEF Editor!SaveTask
<1>7. saving' \in Editor!Save /\ Editor!Fits(saving'.task)
  BY <1>0, <1>4, <1>5, <1>6 DEF Editor!Save, Editor!Form
<1> QED
  BY <1>7 DEF EditorInv, Editor!TypeOK, Editor!SaveTask, Editor!StoredFits

\* What is stored by a save is what the dialog held, and that fits.
LEMMA SaveAnswerFits == ASSUME EditorInv, Editor!SaveAnswer PROVE EditorInv'
<1>1. CASE UNCHANGED <<schedules, editor, lookups>>
  BY <1>1 DEF Editor!SaveAnswer, EditorInv, Editor!TypeOK, Editor!StoredFits
<1>2. ASSUME NEW s \in Editor!Stored, schedules' = s,
             Editor!Lookup(Editor!Blank)
      PROVE  EditorInv'
  <2>1. saving # None /\ saving \in Editor!Save /\ Editor!Fits(saving.task)
    BY DEF EditorInv, Editor!TypeOK, Editor!SaveAnswer
  <2>2. PICK t \in Schedules : s = [schedules EXCEPT ![t] = saving.task]
    BY <1>2, <2>1, Zenon DEF Editor!Stored, Editor!Save
  <2>3. s \in [Schedules -> Editor!Task \cup {None}]
    BY <2>1, <2>2 DEF EditorInv, Editor!TypeOK, Editor!Save
  <2>4. \A u \in Schedules : s[u] # None => Editor!Fits(s[u])
    BY <2>1, <2>2 DEF EditorInv, Editor!TypeOK, Editor!StoredFits
  <2>5. ItemOfGuest(Editor!Blank) /\ Editor!Blank.listed = None
    BY DEF Editor!Blank, ItemOfGuest
  <2>6. /\ editor' \in Editor!Form /\ lookups' \subseteq ScheduledGuests
        /\ Placed(editor') /\ ItemOfGuest(editor')
        /\ AboutGuest(editor', lookups')
    BY <1>2, <2>5, BlankFits, LookupFits
  <2> QED
    BY <1>2, <2>3, <2>4, <2>6
       DEF Editor!SaveAnswer, EditorInv, Editor!TypeOK, Editor!StoredFits
<1> QED
  BY <1>1, <1>2 DEF Editor!SaveAnswer

\* Reloading, switching and deleting tasks change no field that must fit.
LEMMA ListFits == ASSUME EditorInv, Editor!ListNext PROVE EditorInv'
<1> USE DEF EditorInv, Editor!TypeOK, Editor!StoredFits
<1>1. CASE Editor!ToggleAnswer
  <2>1. CASE UNCHANGED schedules
    BY <1>1, <2>1 DEF Editor!ToggleAnswer
  <2>2. CASE ~UNCHANGED schedules
    <3> DEFINE k == toggling.id
               s == [schedules[k] EXCEPT !.enabled = toggling.enabled]
    <3>1. /\ k \in Schedules /\ schedules[k] \in Editor!Task
          /\ Editor!Fits(schedules[k]) /\ toggling.enabled \in BOOLEAN
      BY <1>1, <2>2 DEF Editor!ToggleAnswer
    <3>2. schedules' = [schedules EXCEPT ![k] = s]
      BY <1>1, <2>2 DEF Editor!ToggleAnswer
    <3>3. s \in Editor!Task
      BY <3>1 DEF Editor!Task
    <3>4. /\ s.guest = schedules[k].guest /\ s.infra = schedules[k].infra
          /\ s.nodes = schedules[k].nodes /\ s.action = schedules[k].action
          /\ s.item = schedules[k].item /\ s.target = schedules[k].target
      BY <3>1 DEF Editor!Task
    <3> HIDE DEF s, k
    <3>5. Editor!Fits(s)
      BY <3>1, <3>4 DEF Editor!Fits
    <3> QED
      BY <1>1, <3>1, <3>2, <3>3, <3>5 DEF Editor!ToggleAnswer
  <2> QED
    BY <2>1, <2>2
<1>2. ASSUME NEW t \in Schedules, Editor!Toggle(t) PROVE EditorInv'
  <2>1. schedules[t].enabled \in BOOLEAN
    BY <1>2 DEF Editor!Toggle, Editor!Task
  <2> QED
    BY <1>2, <2>1 DEF Editor!Toggle
<1>3. ASSUME NEW t \in Schedules, Editor!Delete(t) PROVE EditorInv'
  BY <1>3 DEF Editor!Delete
<1> QED
  BY <1>1, <1>2, <1>3 DEF Editor!ListNext

\* At the start the dialog is closed.
LEMMA EditorInvInit == Init => EditorInv
<1> SUFFICES ASSUME Editor!Init PROVE EditorInv
  BY DEF Init
<1>1. ItemOfGuest(Editor!Blank) /\ AboutGuest(Editor!Blank, {})
  BY DEF Editor!Blank, ItemOfGuest, AboutGuest
<1> QED
  BY <1>1, BlankFits DEF Editor!Init, EditorInv, Editor!TypeOK, Editor!StoredFits

\* Every step of the scheduler page and of its server keeps the invariant.
LEMMA EditorInvNext ==
  EditorInv /\ [Editor!Next]_(Editor!vars) => EditorInv'
<1> SUFFICES ASSUME EditorInv, [Editor!Next]_(Editor!vars) PROVE EditorInv'
  OBVIOUS
<1>1. CASE Editor!CloseEditor
  <2>1. Editor!Lookup(Editor!Blank) /\ Quiet
    BY <1>1 DEF Editor!CloseEditor, Quiet
  <2>2. ItemOfGuest(Editor!Blank) /\ Editor!Blank.listed = None
    BY DEF Editor!Blank, ItemOfGuest
  <2> QED
    BY <2>1, <2>2, BlankFits, LookupStep
<1>2. CASE UNCHANGED Editor!vars
  BY <1>2 DEF Editor!vars, EditorInv, Editor!TypeOK, Editor!StoredFits
<1> QED
  BY <1>1, <1>2, SaveFits, SaveAnswerFits, OpenCreateFits, OpenEditFits,
     SelectFits, ChooseFits, ListFits
     DEF Editor!Next, Editor!EditorNext

\* Every stored task names nodes, guest, archive or snapshot and target that
\* belong together, and every infrastructure has the nodes behind its
\* endpoint, however edits and saves overlap.
THEOREM StoredFitsAlways == Spec => []StoredFits
<1>1. EditorInv => Editor!StoredFits
  BY DEF EditorInv
<1> QED
  BY <1>1, EditorInvInit, EditorInvNext, InfrastructuresFit, PartsRefined, PTL
     DEF Spec, Editor!Spec, StoredFits

\* What the editor selects, and what it shows: the latter is about the former.
ItemsOf == IF editor.action \in Editor!Lookups THEN editor.guest ELSE None
\* What is listed, if anything, is about the guest that is chosen.
OwnItems == ItemsOf \in ScheduledGuests \cup {None}
            /\ editor.listed \in {None, ItemsOf}

\* What is loaded for a selection is shown for that selection only: the
\* editor and the pages about one node implement Selection.
THEOREM FollowsSelectionAlways == Spec => FollowsSelection
<1>1. EditorInv => OwnItems
  BY DEF EditorInv, Editor!TypeOK, Editor!Form, AboutGuest, OwnItems, ItemsOf
<1>2. Init => Editor!Loaded!Init
  BY <1>1, EditorInvInit
     DEF Editor!Loaded!Init, Init, Editor!Init, Editor!Blank, OwnItems, ItemsOf
<1>3. OwnItems' => [Editor!Loaded!Next]_(Editor!Loaded!vars)
  BY DEF OwnItems, ItemsOf, Editor!Loaded!Next, Editor!Loaded!Select
<1> QED
  BY <1>1, <1>2, <1>3, EditorInvInit, EditorInvNext, ViewsImplementSelection,
     PartsRefined, PTL
     DEF Spec, Editor!Spec, FollowsSelection, Editor!FollowsSelection,
         Editor!Loaded!Spec
-----------------------------------------------------------------------------
\* The drawer of a guest: what is sent.

\* What the effects leave of a form f for guest g.
SettledFor(f, g) ==
  /\ f \in Drawer!Form /\ f.infra \in Drawer!Infras
  /\ f.node # None => f.node \in Drawer!Targets(f, g)
  /\ f.bridge = IF Drawer!Cross(f, g) THEN f.listed ELSE None
  /\ f.storage \in Drawer!Storages(f, g)

\* A migration that the server is asked to check, or to begin.
Checkable(p) == /\ p \in Drawer!Payload
                /\ p.node # Home[p.guest] /\ p.storage = p.node
                /\ Drawer!Abroad(p) /\ ~p.live
\* What the server is asked to migrate is a migration: another node, a storage
\* and a network of the target, and none of them live across infrastructures.
Sendable(p) ==
  /\ p \in Drawer!Payload
  /\ p.node # Home[p.guest]
  /\ p.storage \in {p.node} \cup (IF Drawer!Abroad(p) THEN {} ELSE {"default"})
  /\ p.bridge = (IF Drawer!Abroad(p) THEN p.node ELSE None)
  /\ p.live => ~Drawer!Abroad(p)

\* The form of the drawer fits the guest it was opened for.
FormInv == /\ guest \in Guests \cup {None} /\ stopped \in BOOLEAN
           /\ online \subseteq Nodes /\ migration \in Drawer!Form
           /\ guest # None => SettledFor(migration, guest)

\* A migration that is being started holds the payload that is checked, and
\* after the preflight one that can be sent.
JobInv == /\ job \in [Drawer!Starts ->
                        [pc : {"idle", "preflight", "post", "over"},
                         payload : Drawer!Payload \cup {None}]]
          /\ \A i \in Drawer!Starts :
               /\ job[i].pc = "preflight" => Checkable(job[i].payload)
               /\ job[i].pc = "post" => Sendable(job[i].payload)

\* The target that the effects choose is one of the targets.
LEMMA TargetSettles ==
  ASSUME NEW f \in Drawer!Form, NEW g \in Guests, NEW on \in SUBSET Nodes,
         f.infra \in Drawer!Infras
  PROVE  LET e == Drawer!ValidTarget(f, g, on)
         IN  /\ e \in Drawer!Form /\ e.infra = f.infra
             /\ e.node # None => e.node \in Drawer!Targets(f, g)
<1>1. ASSUME NEW S PROVE S # {} => (CHOOSE n \in S : TRUE) \in S
  OBVIOUS
<1>2. Drawer!FirstTarget(f, g, on) \in Drawer!Targets(f, g) \cup {None}
  BY <1>1, Zenon DEF Drawer!FirstTarget
<1>3. Drawer!Targets(f, g) \subseteq Nodes
  BY DEF Drawer!Targets
<1> DEFINE t == Drawer!FirstTarget(f, g, on)
<1>4. CASE f.node \in Drawer!Targets(f, g) \cap on
  BY <1>4 DEF Drawer!ValidTarget
<1>5. CASE f.node \notin Drawer!Targets(f, g) \cap on
  <2>1. Drawer!ValidTarget(f, g, on) =
          [f EXCEPT !.node = t, !.storage = "default", !.bridge = None]
    BY <1>5, Zenon DEF Drawer!ValidTarget
  <2> HIDE DEF t
  <2>2. t \in Nodes \cup {None}
    BY <1>2, <1>3 DEF t
  <2> QED
    BY <1>2, <2>1, <2>2 DEF Drawer!Form, t
<1> QED
  BY <1>4, <1>5

\* The effects of the drawer leave a form whose fields fit each other.
LEMMA FormSettles ==
  ASSUME NEW f \in Drawer!Form, NEW g \in Guests, NEW on \in SUBSET Nodes,
         f.infra \in Drawer!Infras, NEW old
  PROVE  SettledFor(Drawer!Settled(f, g, on, old), g)
<1> DEFINE a == Drawer!ValidTarget(f, g, on)
           b == Drawer!TargetNetwork(a, g, old)
           c == Drawer!ValidBridge(b, g)
           d == Drawer!ValidStorage(c, g)
<1>1. /\ a \in Drawer!Form /\ a.infra = f.infra
      /\ a.node # None => a.node \in Drawer!Targets(f, g)
  BY TargetSettles
<1>2. /\ b \in Drawer!Form /\ b.infra = f.infra /\ b.node = a.node
  <2> HIDE DEF a
  <2> QED
    BY <1>1 DEF Drawer!TargetNetwork, Drawer!Form
<1>3. /\ c \in Drawer!Form /\ c.infra = f.infra /\ c.node = a.node
      /\ c.bridge = (IF Drawer!Cross(b, g) THEN c.listed ELSE None)
  <2> HIDE DEF b
  <2> QED
    BY <1>2 DEF Drawer!ValidBridge, Drawer!Form
<1>4. Drawer!Cross(b, g) = Drawer!Cross(c, g)
  <2> HIDE DEF b, c
  <2> QED
    BY <1>2, <1>3 DEF Drawer!Cross
<1>5. /\ d \in Drawer!Form /\ d.infra = f.infra /\ d.node = a.node
      /\ d.bridge = c.bridge /\ d.listed = c.listed
      /\ d.storage \in Drawer!Storages(c, g)
  <2> HIDE DEF c
  <2> QED
    BY <1>3 DEF Drawer!ValidStorage, Drawer!Form, Drawer!Storages
<1>6. /\ Drawer!Cross(d, g) = Drawer!Cross(c, g)
      /\ Drawer!Targets(d, g) = Drawer!Targets(f, g)
  <2> HIDE DEF c, d
  <2> QED
    BY <1>3, <1>5 DEF Drawer!Cross, Drawer!Targets
<1>7. Drawer!Storages(d, g) = Drawer!Storages(c, g)
  <2> HIDE DEF c, d
  <2> QED
    BY <1>3, <1>5, <1>6 DEF Drawer!Storages
<1>8. Drawer!Settled(f, g, on, old) = d
  BY DEF Drawer!Settled
<1> HIDE DEF a, b, c, d
<1> QED
  BY <1>1, <1>3, <1>4, <1>5, <1>6, <1>7, <1>8 DEF SettledFor

\* An edit, a network answer: the form settles again.
LEMMA ChangeSettles ==
  ASSUME FormInv, NEW f \in Drawer!Form, f.infra \in Drawer!Infras,
         guest # None, migration' = Drawer!Settled(f, guest, online, migration),
         UNCHANGED <<guest, stopped, online>>
  PROVE  FormInv'
  BY FormSettles DEF FormInv, SettledFor

\* At the start the drawer is closed.
LEMMA FormInvInit == Init => FormInv
  BY DEF Init, Drawer!Init, FormInv, Drawer!NoForm, Drawer!Form

\* Every step of the drawer leaves a form that fits.
LEMMA FormInvNext == FormInv /\ [Drawer!Next]_(Drawer!vars) => FormInv'
<1> SUFFICES ASSUME FormInv, [Drawer!Next]_(Drawer!vars) PROVE FormInv'
  OBVIOUS
<1>0. migration \in Drawer!Form /\ guest \in Guests \cup {None}
      /\ (guest # None => migration.infra \in Drawer!Infras)
  BY DEF FormInv, SettledFor
<1> USE DEF Drawer!drawerVars, Drawer!taskVars
<1>1. ASSUME NEW g \in Guests, NEW off \in BOOLEAN, Drawer!Open(g, off)
      PROVE  FormInv'
  <2> DEFINE f == [Drawer!NoForm EXCEPT !.infra = Infra[Home[g]],
                                !.live = ~off, !.delete = migration.delete]
  <2>1. Infra[Home[g]] \in Drawer!Infras
    BY FrontendAssumption DEF Drawer!Infras, Drawer!DrawerAssumption
  <2>2. f \in Drawer!Form /\ f.infra \in Drawer!Infras
    BY <1>0, <2>1 DEF Drawer!NoForm, Drawer!Form
  <2>3. /\ migration' = Drawer!Settled(f, g, online, Drawer!NoForm)
        /\ guest' = g /\ stopped' = off /\ online' = online
    BY <1>1 DEF Drawer!Open
  <2> HIDE DEF f
  <2>4. SettledFor(Drawer!Settled(f, g, online, Drawer!NoForm), g)
    BY <2>2, FormSettles DEF FormInv
  <2> QED
    BY <2>3, <2>4 DEF FormInv, SettledFor
<1>2. CASE Drawer!Close
  <2>1. /\ guest' = None /\ UNCHANGED <<stopped, online>>
        /\ migration' = [migration EXCEPT !.listed = None, !.bridge = None,
                                          !.loading = FALSE]
    BY <1>2 DEF Drawer!Close
  <2> QED
    BY <1>0, <2>1 DEF FormInv, Drawer!Form
<1>3. ASSUME NEW o \in Dashboards, Drawer!Dashboard(o) PROVE FormInv'
  <2>1. o \in SUBSET Nodes
    BY FrontendAssumption DEF Drawer!DrawerAssumption
  <2>2. /\ online' = o /\ UNCHANGED <<guest, stopped>>
        /\ guest = None => migration' = migration
        /\ guest # None => migration' = Drawer!Settled(migration, guest, o,
                                                       migration)
    BY <1>3 DEF Drawer!Dashboard
  <2>3. guest # None =>
          SettledFor(Drawer!Settled(migration, guest, o, migration), guest)
    BY <1>0, <2>1, FormSettles
  <2> QED
    BY <1>0, <2>1, <2>2, <2>3 DEF FormInv, SettledFor
<1>4. ASSUME NEW i \in Drawer!Infras, Drawer!SelectInfra(i) PROVE FormInv'
  <2> DEFINE f == [migration EXCEPT !.infra = i]
  <2>1. f \in Drawer!Form /\ f.infra \in Drawer!Infras
    BY <1>0 DEF Drawer!Form
  <2> QED
    BY <1>4, <2>1, ChangeSettles DEF Drawer!SelectInfra, Drawer!Change
<1>5. ASSUME NEW n \in Nodes, Drawer!SelectNode(n) PROVE FormInv'
  <2> DEFINE f == [migration EXCEPT !.node = n]
  <2>1. f \in Drawer!Form /\ f.infra \in Drawer!Infras
    BY <1>0, <1>5 DEF Drawer!Form, Drawer!SelectNode, Drawer!Change
  <2> QED
    BY <1>5, <2>1, ChangeSettles DEF Drawer!SelectNode, Drawer!Change
<1>6. ASSUME NEW s \in Nodes \cup {"default"}, Drawer!SelectStorage(s)
      PROVE  FormInv'
  <2> DEFINE f == [migration EXCEPT !.storage = s]
  <2>1. f \in Drawer!Form /\ f.infra \in Drawer!Infras
    BY <1>0, <1>6 DEF Drawer!Form, Drawer!SelectStorage, Drawer!Change
  <2> QED
    BY <1>6, <2>1, ChangeSettles DEF Drawer!SelectStorage, Drawer!Change
<1>7. CASE Drawer!TickLive
  <2> DEFINE f == [migration EXCEPT !.live = ~@]
  <2>1. f \in Drawer!Form /\ f.infra \in Drawer!Infras
    BY <1>0, <1>7 DEF Drawer!Form, Drawer!TickLive, Drawer!Change
  <2> QED
    BY <1>7, <2>1, ChangeSettles DEF Drawer!TickLive, Drawer!Change
<1>8. CASE Drawer!TickDelete
  <2> DEFINE f == [migration EXCEPT !.delete = ~@]
  <2>1. f \in Drawer!Form /\ f.infra \in Drawer!Infras
    BY <1>0, <1>8 DEF Drawer!Form, Drawer!TickDelete, Drawer!Change
  <2> QED
    BY <1>8, <2>1, ChangeSettles DEF Drawer!TickDelete, Drawer!Change
<1>9. ASSUME NEW ok \in BOOLEAN, Drawer!NetworkAnswer(ok) PROVE FormInv'
  <2> DEFINE l == IF ok THEN migration.node ELSE None
             f == [migration EXCEPT !.loading = FALSE, !.listed = l]
  <2>1. l \in Nodes \cup {None}
    BY <1>0 DEF Drawer!Form
  <2>2. /\ guest # None /\ UNCHANGED <<guest, stopped, online>>
        /\ migration' = Drawer!Settled(f, guest, online, f)
    BY <1>9 DEF Drawer!NetworkAnswer
  <2> HIDE DEF l
  <2>3. f \in Drawer!Form /\ f.infra \in Drawer!Infras
    BY <1>0, <2>1, <2>2 DEF Drawer!Form
  <2> HIDE DEF f
  <2>4. SettledFor(Drawer!Settled(f, guest, online, f), guest)
    BY <1>0, <2>2, <2>3, FormSettles DEF FormInv
  <2> QED
    BY <2>2, <2>4 DEF FormInv, SettledFor
<1>10. ASSUME UNCHANGED <<guest, stopped, online, migration>> PROVE FormInv'
  BY <1>10 DEF FormInv
<1>11. CASE Drawer!TaskNext
  BY <1>10, <1>11
     DEF Drawer!TaskNext, Drawer!Start, Drawer!PreflightAnswer,
         Drawer!PostAnswer, Drawer!TaskEnds, Drawer!Tick, Drawer!PollAnswer
<1>12. CASE \/ Drawer!RefreshDetails
            \/ \E g \in Guests, ok \in BOOLEAN : Drawer!DetailsAnswer(g, ok)
  BY <1>10, <1>12 DEF Drawer!RefreshDetails, Drawer!DetailsAnswer
<1>13. CASE UNCHANGED Drawer!vars
  BY <1>10, <1>13 DEF Drawer!vars
<1> QED
  BY <1>1, <1>2, <1>3, <1>4, <1>5, <1>6, <1>7, <1>8, <1>9, <1>11, <1>12, <1>13
     DEF Drawer!Next, Drawer!PageNext, Drawer!FormNext

\* What a settled form sends may be checked if it leads abroad, and sent if
\* it does not.
LEMMA PayloadSettled ==
  ASSUME FormInv, Drawer!MayStart
  PROVE  LET p == Drawer!Payload0
         IN  IF Drawer!Abroad(p) THEN Checkable(p) ELSE Sendable(p)
<1> DEFINE p == Drawer!Payload0
<1>1. /\ guest \in Guests /\ migration.node \in Nodes
      /\ SettledFor(migration, guest)
  BY DEF FormInv, Drawer!MayStart, Drawer!Form
<1>2. /\ migration.node # Home[guest]
      /\ Infra[migration.node] = migration.infra
  BY <1>1, FrontendAssumption
     DEF SettledFor, Drawer!Targets, Drawer!MayStart, Drawer!DrawerAssumption
<1>3. Drawer!Cross(migration, guest) <=>
        Infra[migration.node] # Infra[Home[guest]]
  BY <1>1, <1>2, FrontendAssumption
     DEF Drawer!Cross, Drawer!DrawerAssumption, Drawer!MayStart, SettledFor
<1>4. /\ p.guest = guest /\ p.node = migration.node
      /\ p.storage = migration.storage /\ p.bridge = migration.bridge
      /\ p.live => ~Drawer!Cross(migration, guest)
  BY DEF Drawer!Payload0
<1>5. Drawer!Abroad(p) <=> Drawer!Cross(migration, guest)
  BY <1>3, <1>4 DEF Drawer!Abroad
<1>6. migration.storage \in Nodes \cup {"default"}
  BY <1>1 DEF SettledFor, Drawer!Storages
<1>7. p \in Drawer!Payload
  BY <1>1, <1>6 DEF Drawer!Payload0, Drawer!Payload, Drawer!Form, SettledFor, FormInv
<1> HIDE DEF p
<1>8. ASSUME Drawer!Abroad(p) PROVE Checkable(p)
  BY <1>1, <1>2, <1>4, <1>5, <1>7, <1>8
     DEF Checkable, SettledFor, Drawer!Storages
<1>9. ASSUME ~Drawer!Abroad(p) PROVE Sendable(p)
  BY <1>1, <1>2, <1>4, <1>5, <1>7, <1>9
     DEF Sendable, SettledFor, Drawer!Storages
<1> QED
  BY <1>8, <1>9 DEF p

\* At the start no migration was asked for.
LEMMA JobInvInit == Init => JobInv
  BY DEF Init, Drawer!Init, JobInv, Drawer!Idle

\* A step of one job.
LEMMA JobStep ==
  ASSUME JobInv, NEW i \in Drawer!Starts,
         NEW j \in [pc : {"idle", "preflight", "post", "over"},
                    payload : Drawer!Payload \cup {None}],
         j.pc = "preflight" => Checkable(j.payload),
         j.pc = "post" => Sendable(j.payload),
         job' = [job EXCEPT ![i] = j]
  PROVE  JobInv'
  BY DEF JobInv

\* Every step of the drawer keeps what it is about to send.
LEMMA JobInvNext ==
  FormInv /\ JobInv /\ [Drawer!Next]_(Drawer!vars) => JobInv'
<1> SUFFICES ASSUME FormInv, JobInv, [Drawer!Next]_(Drawer!vars) PROVE JobInv'
  OBVIOUS
<1> USE DEF Drawer!drawerVars, Drawer!taskVars
<1>1. ASSUME NEW i \in Drawer!Starts, NEW p, Sendable(p),
             Drawer!Confirmed(i, p)
      PROVE  JobInv'
  <2> DEFINE j == [pc |-> "post", payload |-> p]
  <2>1. job' = [job EXCEPT ![i] = j]
    BY <1>1 DEF Drawer!Confirmed
  <2> QED
    BY <1>1, <2>1, JobStep DEF Sendable
<1>2. ASSUME NEW i \in Drawer!Starts, Drawer!GivesUp(i) PROVE JobInv'
  <2> DEFINE j == [pc |-> "over", payload |-> None]
  <2>1. job' = [job EXCEPT ![i] = j]
    BY <1>2 DEF Drawer!GivesUp
  <2> QED
    BY <2>1, JobStep
<1>3. ASSUME NEW i \in Drawer!Starts, Drawer!Start(i) PROVE JobInv'
  <2> DEFINE p == Drawer!Payload0
             j == [pc |-> "preflight", payload |-> p]
  <2>1. Drawer!MayStart /\ \/ Drawer!Abroad(p) /\ job' = [job EXCEPT ![i] = j]
                           \/ ~Drawer!Abroad(p) /\ Drawer!Confirmed(i, p)
                           \/ Drawer!GivesUp(i)
    BY <1>3 DEF Drawer!Start
  <2>2. IF Drawer!Abroad(p) THEN Checkable(p) ELSE Sendable(p)
    BY <2>1, PayloadSettled
  <2> HIDE DEF p
  <2>3. CASE Drawer!Abroad(p) /\ job' = [job EXCEPT ![i] = j]
    BY <2>2, <2>3, JobStep DEF Checkable
  <2> QED
    BY <1>1, <1>2, <2>1, <2>2, <2>3
<1>4. ASSUME NEW i \in Drawer!Starts, Drawer!PreflightAnswer(i) PROVE JobInv'
  <2> DEFINE p == job[i].payload
  <2>1. Checkable(p)
    BY <1>4 DEF Drawer!PreflightAnswer, JobInv
  <2>2. \/ p.bridge = p.node /\ Drawer!Confirmed(i, p)
        \/ Drawer!GivesUp(i)
    BY <1>4 DEF Drawer!PreflightAnswer
  <2>3. p.bridge = p.node => Sendable(p)
    BY <2>1 DEF Checkable, Sendable
  <2> QED
    BY <1>1, <1>2, <2>2, <2>3
<1>5. ASSUME NEW i \in Drawer!Starts, NEW begun \in BOOLEAN,
             NEW told \in BOOLEAN, Drawer!PostAnswer(i, begun, told)
      PROVE  JobInv'
  <2> DEFINE j == [job[i] EXCEPT !.pc = "over"]
  <2>1. job' = [job EXCEPT ![i] = j]
    BY <1>5 DEF Drawer!PostAnswer
  <2>2. /\ j \in [pc : {"idle", "preflight", "post", "over"},
                  payload : Drawer!Payload \cup {None}]
        /\ j.pc = "over"
    BY DEF JobInv
  <2> HIDE DEF j
  <2> QED
    BY <2>1, <2>2, JobStep
<1>6. CASE UNCHANGED job
  BY <1>6 DEF JobInv
<1>7. CASE Drawer!PageNext
  BY <1>6, <1>7
     DEF Drawer!PageNext, Drawer!Open, Drawer!Close, Drawer!Dashboard
<1>8. CASE Drawer!FormNext
  BY <1>6, <1>8
     DEF Drawer!FormNext, Drawer!SelectInfra, Drawer!SelectNode,
         Drawer!SelectStorage, Drawer!TickLive, Drawer!TickDelete,
         Drawer!NetworkAnswer, Drawer!RefreshDetails, Drawer!DetailsAnswer,
         Drawer!Change
<1>9. CASE \/ \E i \in Drawer!Starts, how \in {"ok", "failed"} :
                Drawer!TaskEnds(i, how)
           \/ Drawer!Tick \/ Drawer!PollAnswer
  BY <1>6, <1>9 DEF Drawer!TaskEnds, Drawer!Tick, Drawer!PollAnswer
<1>10. CASE UNCHANGED Drawer!vars
  BY <1>6, <1>10 DEF Drawer!vars
<1> QED
  BY <1>3, <1>4, <1>5, <1>7, <1>8, <1>9, <1>10
     DEF Drawer!Next, Drawer!TaskNext

\* A migration is posted as it was checked, and the HA of a cluster is
\* disarmed in the mode that was picked in the dialog that was confirmed.
THEOREM SentAsCheckedAlways == Spec => []SentAsChecked
<1>1. JobInv => Drawer!SentAsChecked
  BY DEF JobInv, Sendable, Drawer!SentAsChecked
<1> QED
  BY <1>1, FormInvInit, FormInvNext, JobInvInit, JobInvNext,
     ModeAsPickedAlways, PartsRefined, PTL
     DEF Spec, Drawer!Spec, SentAsChecked

-----------------------------------------------------------------------------
\* The drawer of a guest: what is told.

\* What is on the screen of the guest, and what is told of migrations: a
\* migration whose POST was not answered has no outcome; the one that is
\* followed has not been told; polls are in flight only while one is followed.
ToldInv ==
  /\ details \in Guests \cup {None} /\ detailCalls \subseteq Guests
  /\ track \in [running : BOOLEAN, upid : Drawer!Starts \cup {None}]
  /\ polls \in 0 .. MaxPolls
  /\ migrations \in [Drawer!Starts -> {"none", "running", "ok", "failed"}]
  /\ reports \in [Drawer!Starts -> Seq({"completed", "failed"})]
  /\ \A i \in Drawer!Starts :
       job[i].pc \in {"idle", "preflight", "post"} => migrations[i] = "none"
  /\ polls > 0 => track.running /\ track.upid # None
  /\ track.running /\ track.upid # None => reports[track.upid] = <<>>
  /\ Drawer!OutcomeToldOnce

\* At the start nothing is polled or told.
LEMMA ToldInvInit == Init => ToldInv
<1> SUFFICES ASSUME Drawer!Init PROVE ToldInv
  BY DEF Init
<1>1. <<>> \in Seq({"completed", "failed"})
  OBVIOUS
<1> QED
  BY <1>1, FrontendAssumption
     DEF Drawer!Init, ToldInv, Drawer!Untracked, Drawer!DrawerAssumption,
         Drawer!OutcomeToldOnce

\* The steps that change nothing of what is told but the polls.
LEMMA PollStep ==
  ASSUME ToldInv, job' = job, UNCHANGED <<migrations, reports>>,
         track' \in [running : BOOLEAN, upid : Drawer!Starts \cup {None}],
         track'.running /\ track'.upid # None => track' = track,
         polls' \in 0 .. MaxPolls,
         polls' > 0 => track'.running /\ track'.upid # None,
         details' \in Guests \cup {None}, detailCalls' \subseteq Guests
  PROVE  ToldInv'
  BY DEF ToldInv, Drawer!OutcomeToldOnce

\* Every step of the drawer and of the tasks keeps polls and notices in order.
LEMMA ToldInvNext ==
  FormInv /\ JobInv /\ ToldInv /\ [Drawer!Next]_(Drawer!vars) => ToldInv'
<1> SUFFICES ASSUME FormInv, JobInv, ToldInv, [Drawer!Next]_(Drawer!vars)
             PROVE  ToldInv'
  OBVIOUS
<1> USE DEF Drawer!drawerVars, Drawer!taskVars
<1>0. /\ MaxPolls \in Nat \ {0} /\ polls \in 0 .. MaxPolls
      /\ track \in [running : BOOLEAN, upid : Drawer!Starts \cup {None}]
      /\ details \in Guests \cup {None} /\ detailCalls \subseteq Guests
      /\ guest \in Guests \cup {None}
      /\ polls > 0 => track.running /\ track.upid # None
  BY FrontendAssumption DEF ToldInv, Drawer!DrawerAssumption, FormInv
<1>1. ASSUME NEW g \in Guests, NEW off \in BOOLEAN, Drawer!Open(g, off)
      PROVE  ToldInv'
  <2>1. /\ job' = job /\ UNCHANGED <<migrations, reports>>
        /\ track' = [running |-> FALSE, upid |-> None] /\ polls' = 0
        /\ details' = None /\ detailCalls' = detailCalls \cup {g}
    BY <1>1 DEF Drawer!Open, Drawer!Untracked
  <2> QED
    BY <1>0, <2>1, PollStep
<1>2. CASE Drawer!Close
  <2>1. /\ job' = job /\ UNCHANGED <<migrations, reports>>
        /\ track' = track /\ polls' = 0
        /\ details' = details /\ detailCalls' = detailCalls
    BY <1>2 DEF Drawer!Close
  <2> QED
    BY <1>0, <2>1, PollStep
<1>3. ASSUME NEW o \in Dashboards, Drawer!Dashboard(o) PROVE ToldInv'
  <2>1. /\ job' = job /\ UNCHANGED <<migrations, reports>>
        /\ track' = track /\ details' = details /\ detailCalls' = detailCalls
        /\ polls' = IF guest # None /\ track.running /\ track.upid # None
                    THEN 1 ELSE 0
    BY <1>3 DEF Drawer!Dashboard, Drawer!Repoll
  <2> QED
    BY <1>0, <2>1, PollStep
<1>4. CASE Drawer!FormNext
  <2>1. /\ job' = job /\ UNCHANGED <<migrations, reports>>
        /\ track' = track /\ polls' = polls
        /\ details' \in {details} \cup Guests
        /\ detailCalls' \subseteq detailCalls \cup (Guests \cap {guest})
    BY <1>0, <1>4
       DEF Drawer!FormNext, Drawer!SelectInfra, Drawer!SelectNode,
           Drawer!SelectStorage, Drawer!TickLive, Drawer!TickDelete,
           Drawer!NetworkAnswer, Drawer!RefreshDetails, Drawer!DetailsAnswer,
           Drawer!Change
  <2> QED
    BY <1>0, <2>1, PollStep
<1>5. ASSUME NEW i \in Drawer!Starts, Drawer!Start(i) \/ Drawer!PreflightAnswer(i)
      PROVE  ToldInv'
  <2>1. /\ migrations[i] = "none" /\ job[i].pc \in {"idle", "preflight"}
    BY <1>5 DEF Drawer!Start, Drawer!PreflightAnswer, ToldInv
  <2>2. PICK j : job' = [job EXCEPT ![i] = j]
    BY <1>5 DEF Drawer!Start, Drawer!PreflightAnswer, Drawer!Confirmed,
                Drawer!GivesUp
  <2>3. /\ UNCHANGED <<migrations, reports, details, detailCalls>>
        /\ \/ track' = [running |-> TRUE, upid |-> None] /\ polls' = 0
           \/ UNCHANGED <<track, polls>>
    BY <1>5 DEF Drawer!Start, Drawer!PreflightAnswer, Drawer!Confirmed,
                Drawer!GivesUp
  <2>4. \A k \in Drawer!Starts :
          job'[k].pc \in {"idle", "preflight", "post"} => migrations[k] = "none"
    BY <2>1, <2>2 DEF ToldInv, JobInv
  <2>5. CASE track' = [running |-> TRUE, upid |-> None] /\ polls' = 0
    BY <1>0, <2>3, <2>4, <2>5 DEF ToldInv, Drawer!OutcomeToldOnce
  <2>6. CASE UNCHANGED <<track, polls>>
    BY <2>3, <2>4, <2>6 DEF ToldInv, Drawer!OutcomeToldOnce
  <2> QED
    BY <2>3, <2>5, <2>6
<1>6. ASSUME NEW i \in Drawer!Starts, NEW begun \in BOOLEAN,
             NEW told \in BOOLEAN, Drawer!PostAnswer(i, begun, told)
      PROVE  ToldInv'
  <2> DEFINE j == [job[i] EXCEPT !.pc = "over"]
             m == IF begun THEN "running" ELSE "failed"
  <2>1. /\ job[i].pc = "post" /\ migrations[i] = "none" /\ reports[i] = <<>>
    BY <1>6 DEF Drawer!PostAnswer, ToldInv, Drawer!OutcomeToldOnce
  <2>2. /\ job' = [job EXCEPT ![i] = j]
        /\ migrations' = [migrations EXCEPT ![i] = m]
        /\ UNCHANGED <<reports, details, detailCalls>>
    BY <1>6 DEF Drawer!PostAnswer
  <2>3. j.pc = "over" /\ m \in {"running", "failed"}
    BY DEF JobInv
  <2> HIDE DEF j, m
  <2>4. /\ \A k \in Drawer!Starts :
             job'[k].pc \in {"idle", "preflight", "post"} =>
               migrations'[k] = "none"
        /\ migrations' \in [Drawer!Starts -> {"none", "running", "ok", "failed"}]
        /\ \A k \in Drawer!Starts :
             reports[k] # <<>> => migrations'[k] = migrations[k]
    BY <2>1, <2>2, <2>3 DEF ToldInv, JobInv
  <2>5. Drawer!OutcomeToldOnce'
    BY <2>2, <2>4 DEF Drawer!OutcomeToldOnce, ToldInv
  <2>6. track' = IF told THEN [track EXCEPT !.upid = i]
                 ELSE [track EXCEPT !.running = FALSE]
    BY <1>6 DEF Drawer!PostAnswer
  <2>7. /\ track' \in [running : BOOLEAN, upid : Drawer!Starts \cup {None}]
        /\ track'.running /\ track'.upid # None => reports[track'.upid] = <<>>
    <3>1. CASE told
      BY <1>0, <2>1, <2>6, <3>1
    <3>2. CASE ~told
      BY <1>0, <2>6, <3>2
    <3> QED
      BY <3>1, <3>2
  <2>8. polls' = IF guest # None /\ track'.running /\ track'.upid # None
                 THEN 1 ELSE 0
    BY <1>6 DEF Drawer!PostAnswer, Drawer!Repoll
  <2> QED
    BY <1>0, <2>2, <2>4, <2>5, <2>7, <2>8 DEF ToldInv
<1>7. ASSUME NEW i \in Drawer!Starts, NEW how \in {"ok", "failed"},
             Drawer!TaskEnds(i, how)
      PROVE  ToldInv'
  <2>1. /\ migrations[i] = "running" /\ reports[i] = <<>>
        /\ migrations' = [migrations EXCEPT ![i] = how]
        /\ UNCHANGED <<job, reports, details, detailCalls, track, polls>>
    BY <1>7 DEF Drawer!TaskEnds, ToldInv, Drawer!OutcomeToldOnce
  <2>2. job[i].pc \notin {"idle", "preflight", "post"}
    BY <2>1 DEF ToldInv
  <2> QED
    BY <2>1, <2>2 DEF ToldInv, Drawer!OutcomeToldOnce
<1>8. CASE Drawer!Tick
  <2>1. /\ job' = job /\ UNCHANGED <<migrations, reports>>
        /\ track' = track /\ polls' = polls + 1 /\ polls < MaxPolls
        /\ details' = details /\ detailCalls' = detailCalls
        /\ track.running /\ track.upid # None
    BY <1>8 DEF Drawer!Tick
  <2> QED
    BY <1>0, <2>1, PollStep
<1>9. CASE Drawer!PollAnswer
  <2>1. polls > 0 /\ UNCHANGED <<job, migrations, details, detailCalls>>
    BY <1>9 DEF Drawer!PollAnswer
  <2>2. CASE polls' = polls - 1 /\ UNCHANGED <<track, reports>>
    BY <1>0, <2>1, <2>2, PollStep
  <2>3. CASE /\ migrations[track.upid] \in {"ok", "failed"}
             /\ polls' = 0 /\ track' = [track EXCEPT !.running = FALSE]
             /\ Drawer!Reported(track.upid)
    <3> DEFINE i == track.upid
               w == IF migrations[i] = "ok" THEN "completed" ELSE "failed"
    <3>1. i \in Drawer!Starts /\ reports[i] = <<>>
      BY <1>0, <2>1 DEF ToldInv
    <3>2. reports' = [reports EXCEPT ![i] = Append(<<>>, w)]
      BY <2>3, <3>1 DEF Drawer!Reported
    <3>3. Append(<<>>, w) = <<w>> /\ <<w>> \in Seq({"completed", "failed"})
      OBVIOUS
    <3>4. Drawer!OutcomeToldOnce'
      BY <2>1, <2>3, <3>1, <3>2, <3>3 DEF ToldInv, Drawer!OutcomeToldOnce
    <3>5. /\ reports' \in [Drawer!Starts -> Seq({"completed", "failed"})]
          /\ track' \in [running : BOOLEAN, upid : Drawer!Starts \cup {None}]
          /\ ~track'.running /\ polls' = 0
      BY <1>0, <2>3, <3>2, <3>3 DEF ToldInv
    <3> QED
      BY <1>0, <2>1, <3>4, <3>5 DEF ToldInv
  <2> QED
    BY <1>9, <2>2, <2>3 DEF Drawer!PollAnswer
<1>10. CASE UNCHANGED Drawer!vars
  BY <1>10 DEF Drawer!vars, ToldInv, Drawer!OutcomeToldOnce
<1> QED
  BY <1>1, <1>2, <1>3, <1>4, <1>5, <1>6, <1>7, <1>8, <1>9, <1>10
     DEF Drawer!Next, Drawer!PageNext, Drawer!TaskNext

\* What becomes of a migration is shown once, and as it was, whatever polls
\* are in flight and however often the drawer is closed and opened.
THEOREM OutcomeToldOnceAlways == Spec => []OutcomeToldOnce
<1>1. ToldInv => OutcomeToldOnce
  BY DEF ToldInv, OutcomeToldOnce
<1> QED
  BY <1>1, FormInvInit, FormInvNext, JobInvInit, JobInvNext, ToldInvInit,
     ToldInvNext, PartsRefined, PTL DEF Spec, Drawer!Spec

-----------------------------------------------------------------------------
\* The pages keep to their types, each with the invariant of its own.
THEOREM TypeCorrect == Spec => []TypeOK
<1>1. Init => part \in Parts
  BY DEF Init
<1>2. part \in Parts /\ [Next]_vars => (part \in Parts)'
  BY DEF Next, vars, DrawerNext, SchedulerNext, NodesNext, ViewsNext,
         TasksNext, InfrastructuresNext, SettingsNext, UsersNext, ClusterNext,
         AuditNext
<1>3. FormInv /\ JobInv /\ ToldInv => Drawer!TypeOK
  BY DEF FormInv, JobInv, ToldInv, Drawer!TypeOK
<1>4. /\ EditorInv => Editor!TypeOK
      /\ ActsInv => Acts!TypeOK
      /\ ViewsInv => Views!TypeOK
      /\ TaskPageInv => TaskPage!TypeOK
      /\ CardInv => Card!TypeOK
      /\ SettingsInv => Settings!TypeOK
      /\ UsersInv => Users!TypeOK
      /\ HaInv => Ha!TypeOK
      /\ AuditInv => Audit!TypeOK
  BY DEF EditorInv, ActsInv, ViewsInv, TaskPageInv, CardInv, SettingsInv,
         UsersInv, HaInv, AuditInv
<1>5. /\ part \in Parts /\ Drawer!TypeOK /\ Editor!TypeOK /\ Acts!TypeOK
      /\ Views!TypeOK /\ TaskPage!TypeOK /\ Card!TypeOK /\ Settings!TypeOK
      /\ Users!TypeOK /\ Ha!TypeOK /\ Audit!TypeOK
      => TypeOK
  BY DEF TypeOK
<1>6. Spec => /\ [](part \in Parts)
              /\ []FormInv /\ []JobInv /\ []ToldInv
  BY <1>1, <1>2, FormInvInit, FormInvNext, JobInvInit, JobInvNext, ToldInvInit,
     ToldInvNext, PartsRefined, PTL DEF Spec, Drawer!Spec
<1>7. Spec => []EditorInv /\ []ActsInv /\ []ViewsInv
  BY EditorInvInit, EditorInvNext, ActsInvInit, ActsInvNext, ViewsInvInit,
     ViewsInvNext, PartsRefined, PTL
     DEF Spec, Editor!Spec, Acts!Spec, Views!Spec
<1>8. Spec => []TaskPageInv /\ []CardInv /\ []SettingsInv
  BY TaskPageInvInit, TaskPageInvNext, CardInvInit, CardInvNext,
     SettingsInvInit, SettingsInvNext, PartsRefined, PTL
     DEF Spec, TaskPage!Spec, Card!Spec, Settings!Spec
<1>9. Spec => []UsersInv /\ []HaInv /\ []AuditInv
  BY UsersInvInit, UsersInvNext, HaInvInit, HaInvNext, AuditInvInit,
     AuditInvNext, PartsRefined, PTL
     DEF Spec, Users!Spec, Ha!Spec, Audit!Spec
<1> QED
  BY <1>3, <1>4, <1>5, <1>6, <1>7, <1>8, <1>9, PTL
=============================================================================
