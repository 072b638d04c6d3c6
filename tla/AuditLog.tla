------------------------------ MODULE AuditLog ------------------------------
(***************************************************************************)
(* The audit log: pages/AuditLogPage.tsx with hooks/useAuditLog.ts, and    *)
(* the /audit handlers of app/main.py over audit.py.                       *)
(*                                                                         *)
(* An entry is the one filter it passes, "clear" for the entry a deletion  *)
(* of the log leaves. "all" is no filter.                                  *)
(***************************************************************************)
EXTENDS Integers, FiniteSets, Sequences, SequencesExt

CONSTANTS
  Filters,   \* the filters told apart, "clear" among them
  PageSize,  \* entries on a page (PAGE_SIZE is 50)
  MaxLog,    \* bound: entries in the log
  None

AuditAssumption == /\ "clear" \in Filters /\ "all" \notin Filters
                   /\ None \notin Filters
                   /\ PageSize \in Nat \ {0} /\ MaxLog \in Nat \ {0}

Pages == 1 .. (MaxLog + PageSize - 1) \div PageSize
Dialogs == {"retention", "clear"}

VARIABLES
  log,      \* the table audit_log, the oldest entry first
  query,    \* the filter and the page on the screen
  total,    \* the total in the answer on the screen, None while it is loading
  dialog,   \* the dialog that is open
  request,  \* the mutation or export that runs, and how far the server is
  deletion  \* what the user knows of the last deletion of the log

vars == <<log, query, total, dialog, request, deletion>>

TypeOK == /\ log \in Seq(Filters) /\ Len(log) <= MaxLog
          /\ query \in [filter : Filters \cup {"all"}, page : Pages]
          /\ total \in 0 .. MaxLog \cup {None}
          /\ dialog \in Dialogs \cup {None}
          /\ request \in [kind : Dialogs \cup {"export"},
                          at : {"sent", "done", "failed"}] \cup {None}
          /\ deletion \in {"none", "untold", "told"}

Init == /\ log = <<>> /\ query = [filter |-> "all", page |-> 1]
        /\ total = None /\ dialog = None /\ request = None
        /\ deletion = "none"

-----------------------------------------------------------------------------
\* The log and its handlers.

\* Whatever else ProxPilot does writes entries.
Write(e) == /\ Len(log) < MaxLog /\ e # "clear"
            /\ log' = Append(log, e)
            /\ UNCHANGED <<query, total, dialog, request, deletion>>

\* Entries that are too old go, on any reading of the log and with a change of
\* the retention, the entry of a deletion like every other.
Purge == /\ log # <<>>
         /\ log' = Tail(log)
         /\ deletion' = IF Head(log) = "clear" THEN "none" ELSE deletion
         /\ UNCHANGED <<query, total, dialog, request>>

At(kind, at) == request = [kind |-> kind, at |-> at]

\* Mutant of Clear: the deletion takes its own entry along.
ClearAfterEntry ==
  /\ At("clear", "sent")
  /\ log' = <<>> /\ request' = [request EXCEPT !.at = "done"]
  /\ deletion' = "untold"
  /\ UNCHANGED <<query, total, dialog>>

\* audit_log_clear deletes, commits, then writes an entry of its own. When the
\* process ends in between, that entry is missing and there is no answer.
Clear == /\ At("clear", "sent")
         /\ \/ log' = <<"clear">> /\ request' = [request EXCEPT !.at = "done"]
            \/ log' = <<>> /\ request' = [request EXCEPT !.at = "failed"]
         /\ deletion' = "untold"
         /\ UNCHANGED <<query, total, dialog>>

\* A change of the retention and an export leave an entry, or fail.
Handle(e) == /\ At("retention", "sent") \/ At("export", "sent")
             /\ \/ /\ Len(log) < MaxLog /\ e # "clear" /\ log' = Append(log, e)
                   /\ request' = [request EXCEPT !.at = "done"]
                \/ UNCHANGED log /\ request' = [request EXCEPT !.at = "failed"]
             /\ UNCHANGED <<query, total, dialog, deletion>>

\* The answer is lost, or the session is refused before anything is done.
Fail == /\ request # None /\ request.at # "failed"
        /\ request' = [request EXCEPT !.at = "failed"]
        /\ UNCHANGED <<log, query, total, dialog, deletion>>

-----------------------------------------------------------------------------
\* The page.

Matches(f) == Cardinality({i \in DOMAIN log : f \in {"all", log[i]}})

PageCount == IF total \in {None, 0} THEN 1
             ELSE (total + PageSize - 1) \div PageSize

\* A change of a filter goes back to page 1 and asks anew.
SetFilter(f) == /\ dialog = None /\ f # query.filter
                /\ query' = [filter |-> f, page |-> 1] /\ total' = None
                /\ UNCHANGED <<log, dialog, request, deletion>>

ResetFilters == SetFilter("all")

\* The pagination is there when there are several pages.
SetPage(p) == /\ dialog = None /\ PageCount > 1 /\ p <= PageCount
              /\ query' = [query EXCEPT !.page = p] /\ total' = None
              /\ UNCHANGED <<log, dialog, request, deletion>>

\* The answer for the query on the screen.
Load == /\ total' = Matches(query.filter)
        /\ UNCHANGED <<log, query, dialog, request, deletion>>

OpenDialog(d) == /\ dialog = None
                 /\ dialog' = d
                 /\ UNCHANGED <<log, query, total, request, deletion>>

\* The cross closes a dialog at any time, its request goes on.
CloseDialog == /\ dialog # None
               /\ dialog' = None
               /\ UNCHANGED <<log, query, total, request, deletion>>

Send(kind) == /\ request = None
              /\ request' = [kind |-> kind, at |-> "sent"]
              /\ UNCHANGED <<log, query, total, dialog, deletion>>

\* saveRetention and deleteAll, the button of the dialog.
Submit == dialog # None /\ Send(dialog)

\* exportAudit.
ExportAudit == dialog = None /\ Send("export")

\* A success asks for the entries anew and closes the dialog of its kind; a
\* deletion also goes back to page 1. After a failure all stays as it is.
Answer ==
  /\ request # None /\ request.at # "sent"
  /\ request' = None
  /\ IF request.at = "done"
     THEN /\ total' = Matches(query.filter)
          /\ dialog' = IF dialog = request.kind THEN None ELSE dialog
          /\ query' = IF request.kind = "clear" THEN [query EXCEPT !.page = 1]
                      ELSE query
          /\ deletion' = IF request.kind = "clear" /\ deletion = "untold"
                         THEN "told" ELSE deletion
     ELSE UNCHANGED <<total, dialog, query, deletion>>
  /\ UNCHANGED log

-----------------------------------------------------------------------------
Next == \/ \E e \in Filters : Write(e) \/ Handle(e)
        \/ Purge \/ Clear \/ Fail
        \/ \E f \in Filters : SetFilter(f)
        \/ ResetFilters
        \/ \E p \in Pages : SetPage(p)
        \/ Load \/ CloseDialog \/ Submit \/ ExportAudit \/ Answer
        \/ \E d \in Dialogs : OpenDialog(d)

Spec == Init /\ [][Next]_vars

-----------------------------------------------------------------------------
\* A deletion of the log that the user was told of has left its own entry, with
\* a process that may end in mid-handler, other writers and lost answers, until
\* that entry itself is too old.
DeletionRecorded == deletion = "told" => Contains(log, "clear")
=============================================================================
