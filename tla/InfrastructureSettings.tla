----------------------- MODULE InfrastructureSettings -----------------------
(***************************************************************************)
(* Settings, infrastructures (components/InfrastructureSettingsCard.tsx):  *)
(* add one by discovery, rename, delete, remove a node.                    *)
(*                                                                         *)
(* A discovery reports the nodes behind one endpoint, reached with one     *)
(* token; the endpoint, token and switch of the form can be edited before, *)
(* during and after it.  The list is loaded when the card is mounted and   *)
(* after each change, and hidden until the answer, which has what is       *)
(* stored when it is given: what is listed is what is stored.  A load is   *)
(* never cancelled.                                                        *)
(***************************************************************************)
EXTENDS Integers, FiniteSets

CONSTANTS
  Ids,          \* the infrastructures there can be
  Endpoints,    \* API endpoints; nodes are named after theirs
  Clusters,     \* the endpoints with two nodes behind them
  Tokens,       \* API tokens, the TLS switch included
  Names,        \* display names, the discovery's suggestion among them
  Deletes,      \* bound: the DELETEs that can be in flight together
  MaxCalls,     \* bound: requests of any kind in flight together
  None

InfrastructureAssumption ==
  /\ None \notin Ids \cup Endpoints \cup Tokens \cup Names
  /\ Clusters \subseteq Endpoints
  /\ Deletes \cap {"mount", "save", "rename"} = {}
  /\ MaxCalls \in Nat \ {0}

\* The nodes behind an endpoint: of a cluster or a standalone host; node 0 stands for the whole infrastructure.
NodesOf(e) == IF e \in Clusters THEN {1, 2} ELSE {1}
Targets == Ids \X (0 .. 2)

Stored == [endpoint : Endpoints, nodesOf : Endpoints, nodes : SUBSET (1 .. 2),
           token : Tokens, name : Names]
Discovery == [endpoint : Endpoints, token : Tokens, hosts : BOOLEAN]

VARIABLES
  server,       \* server[i]: the infrastructure as stored, or None
  used,         \* the ids given out so far: none is given twice
  list,         \* whether the list is loading, and whether an error hides it
  loads,        \* what the loads in flight follow
  form,         \* "Add Infrastructure"
  discovering,  \* the discovery in flight: endpoint and token, or None
  saving,       \* the POST in flight, or None
  rename,       \* the infrastructure being renamed, or None
  renaming,     \* the PUT in flight, or None
  deletes,      \* deletes[d]: what is being deleted, or None
  deletingId    \* the deletion the card shows as under way, or None

vars == <<server, used, list, loads, form, discovering, saving, rename,
          renaming, deletes, deletingId>>
stored == <<server, used>>
listVars == <<stored, list, loads, rename, renaming, deletes, deletingId>>
formVars == <<form, discovering, saving>>

TypeOK ==
  /\ server \in [Ids -> Stored \cup {None}] /\ used \subseteq Ids
  /\ list \in [loading : BOOLEAN, failed : BOOLEAN]
  /\ loads \subseteq {"mount", "save", "rename"} \cup Deletes
  /\ form \in [open : BOOLEAN, endpoint : Endpoints \cup {None},
               token : Tokens \cup {None}, found : Discovery \cup {None}]
  /\ discovering \in [endpoint : Endpoints, token : Tokens] \cup {None}
  /\ saving \in [endpoint : Endpoints, nodesOf : Endpoints,
                 nodes : SUBSET (1 .. 2), token : Tokens \cup {None},
                 name : Names] \cup {None}
  /\ rename \in Ids \cup {None}
  /\ renaming \in [id : Ids, name : Names] \cup {None}
  /\ deletes \in [Deletes -> Targets \cup {None}]
  /\ deletingId \in Targets \cup {None}

\* resetForm
Blank == [open |-> FALSE, endpoint |-> None, token |-> None, found |-> None]

\* Mounted: the first load is on its way.
Init == /\ server = [i \in Ids |-> None] /\ used = {}
        /\ list = [loading |-> TRUE, failed |-> FALSE]
        /\ loads = {"mount"}
        /\ form = Blank /\ discovering = None /\ saving = None
        /\ rename = None /\ renaming = None
        /\ deletes = [d \in Deletes |-> None] /\ deletingId = None

\* No dialog covers the card.
Free == ~form.open /\ rename = None

\* The list is hidden while it loads, and by an error, until a load that
\* follows a change.
Visible(i) == Free /\ ~list.loading /\ ~list.failed /\ server[i] # None

\* The buttons that delete: one per infrastructure, one per node of a cluster.
Offered(t) == /\ Visible(t[1])
              /\ t[2] # 0 => /\ server[t[1]].nodesOf \in Clusters
                             /\ t[2] \in server[t[1]].nodes

\* A further request may be sent, for the bound.
Quiet == LET busy(x) == IF x = None THEN 0 ELSE 1 IN
  busy(discovering) + busy(saving) + busy(renaming)
    + Cardinality({d \in Deletes : deletes[d] # None})
    + Cardinality(loads \ Deletes) < MaxCalls

NameTaken(i, name) ==
  \E k \in Ids \ {i} : server[k] # None /\ server[k].name = name

-----------------------------------------------------------------------------

\* loadInfrastructures, after the change "who".
LoadInfrastructures(who) ==
  /\ list' = [list EXCEPT !.loading = TRUE, !.failed = FALSE]
  /\ loads' = loads \cup {who}

\* The answer, and the end of the operation that waited for it.
LoadAnswer(who, ok) ==
  /\ who \in loads
  /\ loads' = loads \ {who}
  /\ list' = [loading |-> FALSE, failed |-> ~ok \/ list.failed]
  /\ IF who \in Deletes
       THEN deletes' = [deletes EXCEPT ![who] = None] /\ deletingId' = None
     ELSE UNCHANGED <<deletes, deletingId>>
  /\ UNCHANGED <<stored, rename, renaming, formVars>>

-----------------------------------------------------------------------------

\* openCreateModal
OpenCreate == /\ Free
              /\ form' = [Blank EXCEPT !.open = TRUE]
              /\ UNCHANGED <<discovering, saving, listVars>>

\* Cancel and the cross; requests in flight go on.
CloseCreate == /\ form.open
               /\ form' = Blank
               /\ UNCHANGED <<discovering, saving, listVars>>

\* The connection fields.  A discovery already shown stays.
EditConnection(e, k) ==
  /\ form.open /\ <<e, k>> # <<form.endpoint, form.token>>
  /\ form' = [form EXCEPT !.endpoint = e, !.token = k]
  /\ UNCHANGED <<discovering, saving, listVars>>

\* "Test & Discover"
Discover == /\ form.open /\ discovering = None /\ Quiet
            /\ form.endpoint # None /\ form.token # None
            /\ form' = [form EXCEPT !.found = None]
            /\ discovering' = [endpoint |-> form.endpoint, token |-> form.token]
            /\ UNCHANGED <<saving, listVars>>

\* The answer fills whatever form is there by now; hosts says whether every
\* node came with an address.
DiscoverAnswer(hosts) ==
  /\ discovering # None
  /\ discovering' = None
  /\ form' = [form EXCEPT !.found =
                [endpoint |-> discovering.endpoint, token |-> discovering.token,
                 hosts |-> hosts]]
  /\ UNCHANGED <<saving, listVars>>

DiscoverFails == /\ discovering # None
                 /\ discovering' = None
                 /\ UNCHANGED <<form, saving, listVars>>

\* updateNodeHost: an address is typed in, or emptied.
UpdateNodeHost(hosts) == /\ form.open /\ form.found # None
                         /\ hosts # form.found.hosts
                         /\ form' = [form EXCEPT !.found.hosts = hosts]
                         /\ UNCHANGED <<discovering, saving, listVars>>

\* What is posted: endpoint and nodes of the discovery, the token as it
\* stands in the form.
Payload(name) == [endpoint |-> form.found.endpoint,
                  nodesOf |-> form.found.endpoint,
                  nodes |-> NodesOf(form.found.endpoint),
                  token |-> form.token, name |-> name]

\* saveInfrastructure
SaveInfrastructure(name) ==
  /\ form.open /\ form.found # None /\ form.found.hosts
  /\ saving = None /\ "save" \notin loads /\ Quiet
  /\ saving' = Payload(name)
  /\ UNCHANGED <<form, discovering, listVars>>

\* Stored unless the name is taken or a field is missing.  Success closes
\* and clears the form that is open by now.
SaveAnswer ==
  /\ saving # None
  /\ saving' = None
  /\ \/ /\ saving.token # None /\ ~NameTaken(None, saving.name)
        /\ \E i \in Ids \ used : /\ used' = used \cup {i}
                                 /\ server' = [server EXCEPT ![i] = saving]
        /\ form' = Blank
        /\ LoadInfrastructures("save")
     \/ UNCHANGED <<stored, form, list, loads>>
  /\ UNCHANGED <<discovering, rename, renaming, deletes, deletingId>>

-----------------------------------------------------------------------------

OpenRename(i) ==
  /\ Visible(i)
  /\ rename' = i
  /\ UNCHANGED <<stored, list, loads, renaming, deletes, deletingId, formVars>>

CloseRename ==
  /\ rename # None
  /\ rename' = None
  /\ UNCHANGED <<stored, list, loads, renaming, deletes, deletingId, formVars>>

\* saveRename, with the name typed in.
SaveRename(n) ==
  /\ rename # None /\ renaming = None /\ "rename" \notin loads /\ Quiet
  /\ renaming' = [id |-> rename, name |-> n]
  /\ UNCHANGED <<stored, list, loads, rename, deletes, deletingId, formVars>>

\* The PUT has the other fields as they were listed; no one edits them.
Renamed(r) == IF NameTaken(r.id, r.name) THEN server
              ELSE [server EXCEPT ![r.id].name = r.name]

\* Success closes whatever rename dialog is open by now.
RenameAnswer ==
  /\ renaming # None
  /\ renaming' = None
  /\ \/ /\ server[renaming.id] # None
        /\ Renamed(renaming)[renaming.id].name = renaming.name
        /\ server' = Renamed(renaming)
        /\ rename' = None
        /\ LoadInfrastructures("rename")
     \/ UNCHANGED <<server, rename, list, loads>>
  /\ UNCHANGED <<used, deletes, deletingId, formVars>>

\* deleteInfrastructure and deleteNode, confirmed.  Only the button of the
\* deletion begun last shows it; nodes are removed from clusters only.
Delete(t, d) ==
  /\ Offered(t) /\ deletingId # t /\ deletes[d] = None /\ Quiet
  /\ deletes' = [deletes EXCEPT ![d] = t] /\ deletingId' = t
  /\ list' = [list EXCEPT !.failed = FALSE]
  /\ UNCHANGED <<stored, loads, rename, renaming, formVars>>

\* What a DELETE leaves, if it finds what it is to delete.
Deleted(t) == IF t[2] = 0 THEN [server EXCEPT ![t[1]] = None]
              ELSE [server EXCEPT ![t[1]].nodes = @ \ {t[2]}]
Exists(t) == /\ server[t[1]] # None
             /\ t[2] # 0 => t[2] \in server[t[1]].nodes

\* A success is followed by a load; a failure hides the list.
DeleteAnswer(d) ==
  /\ deletes[d] # None /\ d \notin loads
  /\ \/ /\ Exists(deletes[d])
        /\ server' = Deleted(deletes[d])
        /\ LoadInfrastructures(d)
        /\ UNCHANGED <<deletes, deletingId>>
     \/ /\ list' = [list EXCEPT !.failed = TRUE]
        /\ deletes' = [deletes EXCEPT ![d] = None] /\ deletingId' = None
        /\ UNCHANGED <<server, loads>>
  /\ UNCHANGED <<used, rename, renaming, formVars>>

-----------------------------------------------------------------------------

CreateNext ==
  \/ OpenCreate \/ CloseCreate \/ Discover \/ DiscoverFails \/ SaveAnswer
  \/ \E e \in Endpoints, k \in Tokens : EditConnection(e, k)
  \/ \E hosts \in BOOLEAN : DiscoverAnswer(hosts) \/ UpdateNodeHost(hosts)
  \/ \E n \in Names : SaveInfrastructure(n)
ListNext ==
  \/ CloseRename \/ RenameAnswer
  \/ \E i \in Ids : OpenRename(i)
  \/ \E n \in Names : SaveRename(n)
  \/ \E t \in Targets, d \in Deletes : Delete(t, d)
  \/ \E d \in Deletes : DeleteAnswer(d)
  \/ \E who \in loads, ok \in BOOLEAN : LoadAnswer(who, ok)

Next == CreateNext \/ ListNext

Spec == Init /\ [][Next]_vars

-----------------------------------------------------------------------------

\* The nodes stored with an infrastructure are among those behind its
\* endpoint, though the endpoint may be edited, and the dialog closed and
\* opened, while a discovery or a save is under way; a standalone host keeps
\* its node, and no two infrastructures have one name, whatever is created,
\* renamed and deleted at once.
NodesOfEndpoint ==
  \A i \in Ids : server[i] # None =>
    LET s == server[i] IN
    /\ s.nodesOf = s.endpoint /\ s.nodes \subseteq NodesOf(s.endpoint)
    /\ s.endpoint \notin Clusters => s.nodes # {}
    /\ ~NameTaken(i, s.name)
=============================================================================
