---------------------------- MODULE GuestDrawer ----------------------------
(***************************************************************************)
(* The guests page: the drawer with a guest's details and its migration    *)
(* form (components/GuestDetailsDrawer.tsx), opened from the cards of      *)
(* GuestsPage.tsx.                                                         *)
(*                                                                         *)
(* A handler of the component and the effects React runs because of it are *)
(* one action: nothing else gets a turn before the effects are done.  The  *)
(* answer of a request is an action of its own, whatever the drawer shows  *)
(* by then.  window.confirm blocks the page, so it is part of the action   *)
(* that asks.  A storage and a bridge stand for the node that offers them. *)
(***************************************************************************)
EXTENDS Integers, FiniteSets, Sequences

CONSTANTS
  Guests,       \* the guests of the page
  Nodes,        \* the nodes of every infrastructure
  Infra,        \* Infra[n]: the infrastructure of node n
  Home,         \* Home[g]: the node guest g is on
  Dashboards,   \* the sets of online nodes the dashboard may report
  MaxStarts,    \* bound: presses of "Start migration"
  MaxPolls,     \* bound: polls of one task in flight (2 s apart, 30 s each)
  None

DrawerAssumption == /\ Home \in [Guests -> Nodes]
                    /\ None \notin Guests \cup Nodes
                    /\ \A n \in Nodes : Infra[n] # None
                    /\ Dashboards \subseteq SUBSET Nodes
                    /\ MaxStarts \in Nat /\ MaxPolls \in Nat \ {0}

Infras == {Infra[n] : n \in Nodes}
Starts == 1 .. MaxStarts

VARIABLES
  guest,        \* GuestsPage.selectedGuest: a copy of what the card showed
  stopped,      \* status of that copy: the guest was not running
  up,           \* nodes the last dashboard answer says are online
  form,         \* the migration form
  details,      \* the guest the details on screen are about
  detailCalls,  \* guests whose details are on their way
  track,        \* migrationRunning and migrationUpid
  polls,        \* polls in flight that are not cancelled
  job,          \* job[i]: startMigration of the i-th press
  task,         \* task[i]: the migration itself, on the server
  reports       \* reports[i]: outcomes shown for the i-th migration

vars == <<guest, stopped, up, form, details, detailCalls, track, polls, job,
          task, reports>>
drawerVars == <<guest, stopped, details, detailCalls>>
taskVars == <<track, polls, job, task, reports>>

Form == [infra : Infras \cup {None}, node : Nodes \cup {None},
         storage : Nodes \cup {None, "default"}, listed : Nodes \cup {None},
         bridge : Nodes \cup {None}, loading : BOOLEAN, live : BOOLEAN,
         delete : BOOLEAN]
Payload == [guest : Guests, node : Nodes, storage : Nodes \cup {"default"},
            bridge : Nodes \cup {None}, live : BOOLEAN, delete : BOOLEAN]

TypeOK ==
  /\ guest \in Guests \cup {None} /\ stopped \in BOOLEAN
  /\ up \subseteq Nodes /\ form \in Form
  /\ details \in Guests \cup {None} /\ detailCalls \subseteq Guests
  /\ track \in [running : BOOLEAN, upid : Starts \cup {None}]
  /\ polls \in 0 .. MaxPolls
  /\ job \in [Starts -> [pc : {"idle", "preflight", "post", "over"},
                         payload : Payload \cup {None}]]
  /\ task \in [Starts -> {"none", "running", "ok", "failed"}]
  /\ reports \in [Starts -> Seq({"completed", "failed"})]

NoForm == [infra |-> None, node |-> None, storage |-> "default",
           listed |-> None, bridge |-> None, loading |-> FALSE,
           live |-> FALSE, delete |-> FALSE]
Idle == [pc |-> "idle", payload |-> None]
Untracked == [running |-> FALSE, upid |-> None]

Init == /\ guest = None /\ stopped = TRUE /\ up = Nodes /\ form = NoForm
        /\ details = None /\ detailCalls = {}
        /\ track = Untracked /\ polls = 0
        /\ job = [i \in Starts |-> Idle]
        /\ task = [i \in Starts |-> "none"]
        /\ reports = [i \in Starts |-> <<>>]

-----------------------------------------------------------------------------
\* The effects, in the order React runs them.

Cross(f, g) == g # None /\ f.infra # None /\ f.infra # Infra[Home[g]]

\* Nodes of the chosen infrastructure, without the one the guest is on.
Targets(f, g) == {n \in Nodes : Infra[n] = f.infra /\ (g = None \/ n # Home[g])}

\* A node to fall back to: one that is online if there is any.
FirstTarget(f, g, online) ==
  LET all == Targets(f, g)
  IN  IF all = {} THEN None
      ELSE IF all \cap online # {} THEN CHOOSE n \in all \cap online : TRUE
      ELSE CHOOSE n \in all : TRUE

\* The target node is kept while it is an online target.
ValidTarget(f, g, online) ==
  IF f.node \in Targets(f, g) \cap online THEN f
  ELSE [f EXCEPT !.node = FirstTarget(f, g, online),
                 !.storage = "default", !.bridge = None]

\* The network of another infrastructure's node is loaded when the target
\* changes (old is the form before); what was listed stays until then.
TargetNetwork(f, g, old) ==
  IF ~Cross(f, g) \/ f.node = None
    THEN [f EXCEPT !.listed = None, !.bridge = None, !.loading = FALSE]
  ELSE IF Cross(old, g) /\ old.infra = f.infra /\ old.node = f.node THEN f
  ELSE [f EXCEPT !.loading = TRUE]

\* The bridge is one of those listed.
ValidBridge(f, g) ==
  [f EXCEPT !.bridge = IF Cross(f, g) THEN f.listed ELSE None]

\* targetStorageOptions: the target's; within the infrastructure also the
\* default, the storages of the guest's disks by their names.
Storages(f, g) == {f.node} \cup IF Cross(f, g) THEN {} ELSE {"default"}

\* The storage is one of the options, or else the first.
ValidStorage(f, g) ==
  [f EXCEPT !.storage = IF @ \in Storages(f, g) THEN @
                        ELSE IF Cross(f, g) THEN f.node ELSE "default"]

Settled(f, g, online, old) ==
  ValidStorage(ValidBridge(TargetNetwork(ValidTarget(f, g, online), g, old), g),
               g)

\* The poll effect runs again: what is in flight is cancelled, and a task
\* that is being followed is asked for at once.
Repoll(g, t) == polls' = IF g # None /\ t.running /\ t.upid # None THEN 1 ELSE 0

-----------------------------------------------------------------------------
\* GuestsPage

\* "Details & migration" on a card: the drawer starts afresh, but for the
\* tick at "Delete source VM".
Open(g, off) ==
  LET fresh == [NoForm EXCEPT !.infra = Infra[Home[g]], !.live = ~off,
                              !.delete = form.delete]
  IN  /\ guest = None
      /\ guest' = g /\ stopped' = off
      /\ form' = Settled(fresh, g, up, NoForm)
      /\ details' = None /\ detailCalls' = detailCalls \cup {g}
      /\ track' = Untracked /\ polls' = 0
      /\ UNCHANGED <<up, job, task, reports>>

\* The drawer is closed, or another infrastructure chosen on the page.
Close == /\ guest # None
         /\ guest' = None
         /\ form' = [form EXCEPT !.listed = None, !.bridge = None,
                                 !.loading = FALSE]
         /\ polls' = 0
         /\ UNCHANGED <<stopped, up, details, detailCalls, track, job, task,
                        reports>>

\* A dashboard answer: every 10 s, and after a migration or an action.
Dashboard(online) ==
  /\ up' = online
  /\ form' = IF guest = None THEN form ELSE Settled(form, guest, online, form)
  /\ Repoll(guest, track)
  /\ UNCHANGED <<drawerVars, track, job, task, reports>>

-----------------------------------------------------------------------------
\* The drawer

\* "Refresh details".
RefreshDetails == /\ guest # None
                  /\ detailCalls' = detailCalls \cup {guest}
                  /\ UNCHANGED <<guest, stopped, up, form, details, taskVars>>

\* The end of loadDetails for guest g: it is not cancelled when the drawer
\* has moved on.
DetailsAnswer(g, ok) ==
  /\ g \in detailCalls
  /\ detailCalls' = detailCalls \ {g}
  /\ details' = IF ok THEN g ELSE details
  /\ UNCHANGED <<guest, stopped, up, form, taskVars>>

Change(f) == /\ guest # None
             /\ form' = Settled(f, guest, up, form)
             /\ UNCHANGED <<drawerVars, up, taskVars>>

SelectInfra(i) == Change([form EXCEPT !.infra = i])
SelectNode(n) == n \in Targets(form, guest) \cap up
                 /\ Change([form EXCEPT !.node = n])
SelectStorage(s) == /\ s \in Storages(form, guest) \ {None}
                    /\ Change([form EXCEPT !.storage = s])
\* "Online migration" of a machine, "Restart" of a container: a running guest
\* goes along within its infrastructure.
TickLive == /\ ~stopped /\ ~Cross(form, guest)
            /\ Change([form EXCEPT !.live = ~@])
TickDelete == /\ Cross(form, guest)
              /\ Change([form EXCEPT !.delete = ~@])

NetworkAnswer(ok) ==
  /\ guest # None /\ form.loading
  /\ LET f == [form EXCEPT !.loading = FALSE,
                           !.listed = IF ok THEN form.node ELSE None]
     IN  form' = Settled(f, guest, up, f)
  /\ UNCHANGED <<drawerVars, up, taskVars>>

\* requestPayload, taken from the form as it is at the press.
Payload0 == [guest |-> guest, node |-> form.node, storage |-> form.storage,
             bridge |-> form.bridge,
             live |-> ~Cross(form, guest) /\ ~stopped /\ form.live,
             delete |-> Cross(form, guest) /\ form.delete]

Abroad(p) == Infra[p.node] # Infra[Home[p.guest]]

\* "Start migration": what the button and the checks of startMigration ask
\* for.  Nothing says that a preflight is already under way.
MayStart == /\ guest # None /\ form.node # None /\ ~track.running
            /\ Cross(form, guest) => /\ stopped
                                     /\ form.storage \in Nodes
                                     /\ form.bridge # None

\* The confirmation is accepted and the migration posted: the drawer,
\* whichever guest it shows by now, follows this migration.
Confirmed(i, p) == /\ job' = [job EXCEPT ![i] = [pc |-> "post", payload |-> p]]
                   /\ track' = [running |-> TRUE, upid |-> None]
                   /\ polls' = 0

GivesUp(i) == /\ job' = [job EXCEPT ![i] = [pc |-> "over", payload |-> None]]
              /\ UNCHANGED <<track, polls>>

Start(i) ==
  /\ MayStart
  /\ job[i].pc = "idle" /\ \A j \in 1 .. i - 1 : job[j].pc # "idle"
  /\ \/ /\ Abroad(Payload0)
        /\ job' = [job EXCEPT ![i] = [pc |-> "preflight", payload |-> Payload0]]
        /\ UNCHANGED <<track, polls>>
     \/ ~Abroad(Payload0) /\ (Confirmed(i, Payload0) \/ GivesUp(i))
  /\ UNCHANGED <<drawerVars, up, form, task, reports>>

\* Mutant of PreflightAnswer: the payload is built again after the checks.
PreflightAnswerRebuilds(i) ==
  /\ job[i].pc = "preflight"
  /\ \/ /\ job[i].payload.bridge = job[i].payload.node /\ guest # None
        /\ form.node # None
        /\ Confirmed(i, Payload0)
     \/ GivesUp(i)
  /\ UNCHANGED <<drawerVars, up, form, task, reports>>

\* The preflight knows the bridges of the target node.  Warnings and the
\* summary are confirmed or not.
PreflightAnswer(i) ==
  /\ job[i].pc = "preflight"
  /\ \/ /\ job[i].payload.bridge = job[i].payload.node
        /\ Confirmed(i, job[i].payload)
     \/ GivesUp(i)
  /\ UNCHANGED <<drawerVars, up, form, task, reports>>

\* The answer to the POST, or none: the migration may have begun all the same.
PostAnswer(i, begun, told) ==
  /\ job[i].pc = "post" /\ (told => begun)
  /\ job' = [job EXCEPT ![i].pc = "over"]
  /\ task' = [task EXCEPT ![i] = IF begun THEN "running" ELSE "failed"]
  /\ track' = IF told THEN [track EXCEPT !.upid = i]
              ELSE [track EXCEPT !.running = FALSE]
  /\ Repoll(guest, track')
  /\ UNCHANGED <<drawerVars, up, form, reports>>

\* The server: the migration ends.
TaskEnds(i, how) == /\ task[i] = "running"
                    /\ task' = [task EXCEPT ![i] = how]
                    /\ UNCHANGED <<drawerVars, up, form, track, polls, job,
                                   reports>>

\* The timer of the poll effect.
Tick == /\ guest # None /\ track.running /\ track.upid # None
        /\ polls < MaxPolls
        /\ polls' = polls + 1
        /\ UNCHANGED <<drawerVars, up, form, track, job, task, reports>>

Reported(i) == reports' = [reports EXCEPT
                 ![i] = Append(@, IF task[i] = "ok" THEN "completed"
                                  ELSE "failed")]

\* Mutant of PollAnswer: polls in flight survive the end of the effect.
PollAnswerAlways ==
  /\ polls > 0
  /\ polls' = polls - 1
  /\ IF task[track.upid] \in {"ok", "failed"}
       THEN track' = [track EXCEPT !.running = FALSE] /\ Reported(track.upid)
       ELSE UNCHANGED <<track, reports>>
  /\ UNCHANGED <<drawerVars, up, form, job, task>>

\* The answer of a poll.  A final one ends the effect, which cancels the
\* other polls; an error leaves everything to the next tick.
PollAnswer ==
  /\ polls > 0
  /\ \/ /\ task[track.upid] \in {"ok", "failed"}
        /\ polls' = 0
        /\ track' = [track EXCEPT !.running = FALSE]
        /\ Reported(track.upid)
     \/ polls' = polls - 1 /\ UNCHANGED <<track, reports>>
  /\ UNCHANGED <<drawerVars, up, form, job, task>>

-----------------------------------------------------------------------------

PageNext == \/ \E g \in Guests, off \in BOOLEAN : Open(g, off)
            \/ Close
            \/ \E online \in Dashboards : Dashboard(online)
FormNext == \/ \E i \in Infras : SelectInfra(i)
            \/ \E n \in Nodes : SelectNode(n)
            \/ \E s \in Nodes \cup {"default"} : SelectStorage(s)
            \/ TickLive \/ TickDelete
            \/ \E ok \in BOOLEAN : NetworkAnswer(ok)
            \/ RefreshDetails
            \/ \E g \in Guests, ok \in BOOLEAN : DetailsAnswer(g, ok)
TaskNext == \/ \E i \in Starts : Start(i) \/ PreflightAnswer(i)
            \/ \E i \in Starts, begun, told \in BOOLEAN :
                 PostAnswer(i, begun, told)
            \/ \E i \in Starts, how \in {"ok", "failed"} : TaskEnds(i, how)
            \/ Tick \/ PollAnswer

Next == PageNext \/ FormNext \/ TaskNext

Spec == Init /\ [][Next]_vars

-----------------------------------------------------------------------------

\* A migration is posted exactly as it was checked: its target is another
\* node than the guest's own, its storage and bridge are that node's, and it
\* does not leave its infrastructure running, whatever dashboard answers,
\* network answers and edits came between the press of the button, the
\* preflight and the confirmation.
SentAsChecked ==
  \A i \in Starts : job[i].pc = "post" =>
    LET p == job[i].payload
    IN  /\ p.node # Home[p.guest]
        /\ p.storage \in {p.node} \cup (IF Abroad(p) THEN {} ELSE {"default"})
        /\ p.bridge = (IF Abroad(p) THEN p.node ELSE None)
        /\ p.live => ~Abroad(p)

\* What becomes of a migration is shown once, and it is what became of it,
\* with two polls in flight, drawers closed and opened, and failing answers.
OutcomeToldOnce ==
  \A i \in Starts : \/ reports[i] = <<>>
                    \/ task[i] = "ok" /\ reports[i] = <<"completed">>
                    \/ task[i] = "failed" /\ reports[i] = <<"failed">>

=============================================================================
