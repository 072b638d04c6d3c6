------------------------------ MODULE Accounts ------------------------------
(***************************************************************************)
(* Users and sessions: the user handlers of app/main.py over users.py, the *)
(* sign-in of main.py and auth.py, and one administrator's browser         *)
(* (components/AuthGate.tsx, LoginPage.tsx, App.tsx's logout, and          *)
(* pages/UsersPage.tsx with hooks/useUsers.ts). Other administrators send  *)
(* whatever request the handlers take.                                     *)
(*                                                                         *)
(* A session is a signed cookie with the user's id and the role of the     *)
(* moment of sign-in; nothing looks the user up again until it ends.       *)
(* A handler runs without an await, so a request is one step. An answer of *)
(* /auth/status is what holds when it arrives.                             *)
(***************************************************************************)
EXTENDS Integers, FiniteSets

CONSTANTS
  Ids,    \* the accounts there can be (a name is kept as its account)
  Roles,  \* the roles told apart, "admin" among them
  None

AccountsAssumption == /\ "admin" \in Roles /\ None \notin Ids /\ Ids # {}
                      /\ None \notin [role : Roles, enabled : BOOLEAN]

VARIABLES
  users,    \* the table users: users[i] is None while there is no such user
  gate,     \* AuthGate: what the browser shows
  cookie,   \* the session the browser holds, None when it has none
  listed,   \* the answer of GET /users the page shows
  dialog,   \* the dialog that is open, with its fields
  waiting   \* isPending of its mutation

vars == <<users, gate, cookie, listed, dialog, waiting>>

User == [role : Roles, enabled : BOOLEAN]
Table == [Ids -> User \cup {None}]
Dialog == [kind : {"create", "edit", "password", "delete"}, id : Ids,
           role : Roles, enabled : BOOLEAN]

TypeOK == /\ users \in Table /\ listed \in Table
          /\ gate \in {"loading", "in", "out", "error"}
          /\ cookie \in [id : Ids, role : Roles] \cup {None}
          /\ dialog \in Dialog \cup {None} /\ waiting \in BOOLEAN

Nobody == [i \in Ids |-> None]
IsAdmin(u) == u # None /\ u.role = "admin" /\ u.enabled
Admins(t) == {i \in Ids : IsAdmin(t[i])}

\* ensure_initial_admin: the first administrator comes from the configuration.
Init == /\ users = [Nobody EXCEPT ![CHOOSE i \in Ids : TRUE] =
                     [role |-> "admin", enabled |-> TRUE]]
        /\ gate = "loading" /\ cookie = None /\ listed = Nobody
        /\ dialog = None /\ waiting = FALSE

-----------------------------------------------------------------------------
\* The handlers: the table after a request by session s, the same table when it
\* is refused.

\* Mutant of LastAdmin: the handlers trust the disabled fields.
LastAdminNever(t) == FALSE

\* The last enabled administrator is neither changed nor deleted.
Removes(t, i, role, enabled) == IsAdmin(t[i]) /\ (role # "admin" \/ ~enabled)
LastAdmin(t) == Cardinality(Admins(t)) <= 1

Created(t, i, role) == IF t[i] = None
                       THEN [t EXCEPT ![i] = [role |-> role, enabled |-> TRUE]]
                       ELSE t

\* users_update: not one's own role or activity, not the last administrator.
Updated(t, s, i, role, enabled) ==
  IF \/ t[i] = None
     \/ s.id = i /\ (role # "admin" \/ ~enabled)
     \/ Removes(t, i, role, enabled) /\ LastAdmin(t)
  THEN t ELSE [t EXCEPT ![i] = [role |-> role, enabled |-> enabled]]

Deleted(t, s, i) ==
  IF \/ t[i] = None \/ s.id = i
     \/ IsAdmin(t[i]) /\ LastAdmin(t)
  THEN t ELSE [t EXCEPT ![i] = None]

\* What the request of a dialog does to the table. A password is not in it.
Effect(t, s, d) ==
  CASE s.role # "admin" -> t
    [] s.role = "admin" /\ d.kind = "create" -> Created(t, d.id, d.role)
    [] s.role = "admin" /\ d.kind = "edit" ->
         Updated(t, s, d.id, d.role, d.enabled)
    [] s.role = "admin" /\ d.kind = "delete" -> Deleted(t, s, d.id)
    [] OTHER -> t

\* Somebody else whose session says administrator, though the account may be
\* another one's by now, or gone.
OtherRequest ==
  /\ \E s \in [id : Ids, role : {"admin"}], d \in Dialog :
       users' = Effect(users, s, d)
  /\ UNCHANGED <<gate, cookie, listed, dialog, waiting>>

-----------------------------------------------------------------------------
\* AuthGate and LoginPage.

\* checkSession's answer: the session of the cookie, nobody, or no answer.
CheckSession == /\ gate = "loading"
                /\ gate' \in {"error", IF cookie = None THEN "out" ELSE "in"}
                /\ UNCHANGED <<users, cookie, listed, dialog, waiting>>

TryAgain == /\ gate = "error" /\ gate' = "loading"
            /\ UNCHANGED <<users, cookie, listed, dialog, waiting>>

\* submitLogin: an enabled user gets a session and the gate checks it.
Login(i) == /\ gate = "out" /\ users[i] # None /\ users[i].enabled
            /\ cookie' = [id |-> i, role |-> users[i].role]
            /\ gate' = "loading"
            /\ UNCHANGED <<users, listed, dialog, waiting>>

\* The session ends by itself; the browser learns it from a 401.
Expire == /\ cookie # None /\ cookie' = None
          /\ UNCHANGED <<users, gate, listed, dialog, waiting>>

\* 'proxpilot-auth-required': the whole application is unmounted. The cache of
\* answers stays, only logout empties it.
Unmount == gate' = "out" /\ dialog' = None /\ waiting' = FALSE
Unauthorized == /\ gate = "in" /\ cookie = None
                /\ Unmount /\ UNCHANGED <<users, cookie, listed>>

\* logout goes on when its POST fails, and then the cookie is still there.
Logout == /\ gate = "in" /\ ~waiting
          /\ cookie' \in {None, cookie} /\ listed' = Nobody
          /\ Unmount /\ UNCHANGED users

-----------------------------------------------------------------------------
\* UsersPage, a tab for administrators.

OnPage == gate = "in" /\ cookie # None /\ cookie.role = "admin"

LoadUsers == /\ OnPage /\ listed' = users
             /\ UNCHANGED <<users, gate, cookie, dialog, waiting>>

OpenCreate(i) == /\ OnPage /\ dialog = None /\ listed[i] = None
                 /\ \E r \in Roles :
                      dialog' = [kind |-> "create", id |-> i, role |-> r,
                                 enabled |-> TRUE]
                 /\ UNCHANGED <<users, gate, cookie, listed, waiting>>

\* The fields of one's own account and of the last administrator are disabled.
Fixed(i) == i = cookie.id \/ Admins(listed) = {i}
OpenEdit(i) ==
  /\ OnPage /\ dialog = None /\ listed[i] # None
  /\ \E r \in Roles, e \in BOOLEAN :
       /\ Fixed(i) => [role |-> r, enabled |-> e] = listed[i]
       /\ dialog' = [kind |-> "edit", id |-> i, role |-> r, enabled |-> e]
  /\ UNCHANGED <<users, gate, cookie, listed, waiting>>

OpenPassword(i) == /\ OnPage /\ dialog = None /\ listed[i] # None
                   /\ dialog' = [kind |-> "password", id |-> i,
                                 role |-> listed[i].role, enabled |-> TRUE]
                   /\ UNCHANGED <<users, gate, cookie, listed, waiting>>

OpenDelete(i) == /\ OnPage /\ dialog = None /\ listed[i] # None /\ ~Fixed(i)
                 /\ dialog' = [kind |-> "delete", id |-> i,
                               role |-> listed[i].role, enabled |-> TRUE]
                 /\ UNCHANGED <<users, gate, cookie, listed, waiting>>

CloseDialog == /\ dialog # None /\ ~waiting /\ dialog' = None
               /\ UNCHANGED <<users, gate, cookie, listed, waiting>>

\* The button of the dialog. An edit sends role and activity in every case, as
\* they were when the dialog was opened or as set since.
Submit == /\ dialog # None /\ ~waiting /\ cookie # None
          /\ users' = Effect(users, cookie, dialog) /\ waiting' = TRUE
          /\ UNCHANGED <<gate, cookie, listed, dialog>>

\* A success closes the dialog and loads the list again, an error keeps it.
MutationAnswer == /\ waiting /\ waiting' = FALSE
                  /\ \/ dialog' = None /\ listed' = users
                     \/ UNCHANGED <<dialog, listed>>
                  /\ UNCHANGED <<users, gate, cookie>>

-----------------------------------------------------------------------------
Next == \/ OtherRequest \/ CheckSession \/ TryAgain \/ Expire \/ Unauthorized
        \/ Logout \/ LoadUsers \/ CloseDialog \/ Submit \/ MutationAnswer
        \/ \E i \in Ids : \/ Login(i) \/ OpenCreate(i) \/ OpenEdit(i)
                          \/ OpenPassword(i) \/ OpenDelete(i)

Spec == Init /\ [][Next]_vars

-----------------------------------------------------------------------------
\* An enabled administrator remains, whatever administrators do to each other
\* from lists that are old and with sessions of accounts that changed since.
AdminRemains == Admins(users) # {}
=============================================================================
