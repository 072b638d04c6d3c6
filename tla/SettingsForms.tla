--------------------------- MODULE SettingsForms ---------------------------
(***************************************************************************)
(* The settings that hold a secret: the cards of pages/SettingsPage.tsx    *)
(* for notifications (components/NotificationSettingsCard.tsx) and for     *)
(* LDAP (LdapSettingsCard.tsx), and their handlers in app/main.py over     *)
(* notifications.py and settings.py.                                       *)
(*                                                                         *)
(* A form is a notification channel, with a webhook or an SMTP password,   *)
(* or "ldap" with its bind password. "events" are the switches that say    *)
(* which channel an event goes to, one event standing for all. A secret    *)
(* never comes back to the browser, only whether there is one. Test        *)
(* messages change nothing and are left out.                               *)
(***************************************************************************)
EXTENDS Integers, Sequences

CONSTANTS
  Channels,     \* notification channels
  Secrets,      \* webhooks and passwords
  MaxRequests,  \* bound: changes sent
  None

SettingsAssumption ==
  /\ Channels \subseteq {"discord", "email"} /\ None \notin Secrets
  /\ MaxRequests \in Nat

Forms == Channels \cup {"ldap"}
Tabs == {"notifications", "authentication", "general"}
FormsOf(t) == CASE t = "notifications" -> Channels
                [] t = "authentication" -> {"ldap"}
                [] OTHER -> {}

VARIABLES
  server,   \* what is stored
  tab,      \* the tab that is open; only its card is mounted
  shown,    \* settings of the mounted card, None until they are loaded
  typed,    \* the secret typed into each form and not saved
  pending,  \* savingDiscord, savingEmail, savingEvents, saving: the request
  calls     \* the requests sent, and how far each of them is

vars == <<server, tab, shown, typed, pending, calls>>

View(fs) == [on : [fs -> BOOLEAN], has : [fs -> BOOLEAN],
             pref : [fs -> BOOLEAN]]
Views == UNION {View(FormsOf(t)) : t \in Tabs}
Call == [form : Forms \cup {"events"},
         kind : {"toggle", "save", "delete", "events"}, on : BOOLEAN,
         secret : Secrets \cup {None}, old : Views,
         at : {"sent", "done", "failed"}, answer : Views \cup {None}]

TypeOK ==
  /\ server \in [on : [Forms -> BOOLEAN], secret : [Forms -> Secrets \cup {None}],
                 pref : [Forms -> BOOLEAN]]
  /\ tab \in Tabs
  /\ shown \in View(FormsOf(tab)) \cup {None}
  /\ typed \in [Forms -> Secrets \cup {None}]
  /\ pending \in [Forms \cup {"events"} -> 0 .. MaxRequests]
  /\ calls \in Seq(Call) /\ Len(calls) <= MaxRequests

All(v) == [f \in Forms |-> v]
NothingTyped == All(None)
NothingPending == [f \in Forms \cup {"events"} |-> 0]

Init == /\ server = [on |-> All(FALSE), secret |-> All(None),
                     pref |-> All(FALSE)]
        /\ tab = "general" /\ shown = None
        /\ typed = NothingTyped /\ pending = NothingPending /\ calls = <<>>

-----------------------------------------------------------------------------
\* The server. A handler does not await, so requests are served one at a time.

\* get_notification_settings, GET /settings/ldap.
ViewOf(s, t) == [on |-> [f \in FormsOf(t) |-> s.on[f]],
                 has |-> [f \in FormsOf(t) |-> s.secret[f] # None],
                 pref |-> [f \in FormsOf(t) |-> s.pref[f]]]
TabOf(c) == IF c.form = "ldap" THEN "authentication" ELSE "notifications"

\* Mutant of Stored: the secret is written with the other fields.
StoredAlways(c) == c.secret

\* update_discord_settings, update_email_settings and ldap_settings_update: no
\* secret in the request leaves the stored one.
Stored(c) == IF c.secret = None THEN server.secret[c.form] ELSE c.secret

Update(c) == [server EXCEPT !.on[c.form] = c.on, !.secret[c.form] = Stored(c)]

\* delete_discord_settings, delete_email_settings: the events' switches of the
\* channel go with it.
Removed(c) == [server EXCEPT !.on[c.form] = FALSE, !.secret[c.form] = None,
                             !.pref[c.form] = FALSE]

\* update_event_preferences: the whole list the page had on the screen.
Events(c) == [server EXCEPT !.pref = [f \in Forms |->
                IF f = "ldap" THEN @[f] ELSE c.old.pref[f]]]

After(c) == CASE c.kind \in {"toggle", "save"} -> Update(c)
              [] c.kind = "delete" -> Removed(c)
              [] c.kind = "events" -> Events(c)

\* The LDAP settings are committed one by one, the bind password at the end: a
\* process that ends in between leaves the first ones.
Begun(c) == [server EXCEPT !.on["ldap"] = c.on]

Serve(i) ==
  /\ calls[i].at = "sent"
  /\ LET c == calls[i]
     IN  \/ /\ server' = After(c)
            /\ calls' = [calls EXCEPT ![i].at = "done",
                                      ![i].answer = ViewOf(server', TabOf(c))]
         \/ /\ server' \in {server, After(c)} \cup
                           (IF c.form = "ldap" THEN {Begun(c)} ELSE {})
            /\ calls' = [calls EXCEPT ![i].at = "failed"]
  /\ UNCHANGED <<tab, shown, typed, pending>>

-----------------------------------------------------------------------------
\* The page.

\* Mutant of OpenTab: the answer for the old card reaches the new one.
OpenTabAnswered(t) == /\ t # tab
                      /\ tab' = t /\ shown' = None
                      /\ typed' = NothingTyped
                      /\ UNCHANGED <<server, pending, calls>>

\* Another tab: its card starts afresh, requests of the old one go on.
OpenTab(t) == /\ t # tab
              /\ tab' = t /\ shown' = None
              /\ typed' = NothingTyped /\ pending' = NothingPending
              /\ UNCHANGED <<server, calls>>

\* loadSettings, on mount.
LoadSettings == /\ shown = None /\ tab # "general"
                /\ shown' = ViewOf(server, tab)
                /\ UNCHANGED <<server, tab, typed, pending, calls>>

Usable(f) == shown # None /\ f \in FormsOf(tab) /\ pending[f] = 0

TypeSecret(f, s) == /\ Usable(f)
                    /\ typed' = [typed EXCEPT ![f] = s]
                    /\ UNCHANGED <<server, tab, shown, pending, calls>>

\* updateSetting; of LDAP's settings the switch stands for all.
UpdateSetting == /\ Usable("ldap")
                 /\ shown' = [shown EXCEPT !.on["ldap"] = ~@]
                 /\ UNCHANGED <<server, tab, typed, pending, calls>>

Request(f, kind, on, secret) ==
  /\ Len(calls) < MaxRequests
  /\ calls' = Append(calls, [form |-> f, kind |-> kind, on |-> on,
                             secret |-> secret, old |-> shown', at |-> "sent",
                             answer |-> None])
  /\ pending' = [pending EXCEPT ![f] = Len(calls) + 1]
  /\ UNCHANGED <<server, tab, typed>>

\* toggleDiscord, toggleEmail: the switch moves at once.
Toggle(f) == /\ Usable(f) /\ f # "ldap"
             /\ shown' = [shown EXCEPT !.on[f] = ~@]
             /\ Request(f, "toggle", ~shown.on[f], None)

\* saveDiscord, saveEmail, saveSettings of LDAP.
Save(f) == /\ Usable(f) /\ UNCHANGED shown
           /\ Request(f, "save", shown.on[f], typed[f])

\* deleteDiscord, deleteEmail: there is something to delete, for e-mail also a
\* server's name without a password.
Delete(f) == /\ Usable(f) /\ f # "ldap" /\ UNCHANGED shown
             /\ shown.has[f] \/ f = "email"
             /\ Request(f, "delete", FALSE, None)

\* saveEventToggle: on says which of the two switches was moved.
SaveEventToggle(f) ==
  /\ shown # None /\ f \in Channels \cap FormsOf(tab) /\ pending["events"] = 0
  /\ shown' = [shown EXCEPT !.pref[f] = ~@]
  /\ Request("events", "events", f = "email", None)

\* What a failed request puts back: the switch of a channel as it was, or the
\* settings as they were before an event's switch.
Restored(c) ==
  CASE c.kind = "toggle" -> [shown EXCEPT !.on[c.form] = ~c.on]
    [] c.kind = "events" ->
         [c.old EXCEPT !.pref[IF c.on THEN "email" ELSE "discord"] = ~@]
    [] OTHER -> shown

\* What a success shows: the stored settings, in place of every edit; LDAP
\* keeps the form and notes that there is a password.
Confirmed(c) ==
  IF c.form = "ldap"
    THEN [shown EXCEPT !.has["ldap"] = @ \/ c.secret # None]
  ELSE c.answer

\* The answer reaches the card that asked, if it is still mounted.
Answer(f) ==
  /\ pending[f] # 0 /\ calls[pending[f]].at # "sent"
  /\ pending' = [pending EXCEPT ![f] = 0]
  /\ LET c == calls[pending[f]]
     IN  IF c.at = "done"
         THEN /\ shown' = Confirmed(c)
              /\ typed' = IF c.kind \in {"save", "delete"}
                          THEN [typed EXCEPT ![f] = None] ELSE typed
         ELSE shown' = Restored(c) /\ UNCHANGED typed
  /\ UNCHANGED <<server, tab, calls>>

-----------------------------------------------------------------------------
Next == \/ \E i \in DOMAIN calls : Serve(i)
        \/ \E t \in Tabs : OpenTab(t)
        \/ LoadSettings \/ UpdateSetting
        \/ \E f \in Forms : \/ \E s \in Secrets : TypeSecret(f, s)
                            \/ Toggle(f) \/ Save(f) \/ Delete(f)
                            \/ SaveEventToggle(f)
        \/ \E f \in Forms \cup {"events"} : Answer(f)

Spec == Init /\ [][Next]_vars

-----------------------------------------------------------------------------
\* A stored secret changes only into one that was typed into its own form and
\* saved, or is removed with its form: no switch, no save of another form, no
\* save with an empty field and no request served late, in another order or
\* half-way loses or replaces it.
SecretsKept ==
  [][\A f \in Forms : server'.secret[f] # server.secret[f] =>
       \E i \in DOMAIN calls :
         /\ calls[i].at = "sent" /\ calls[i].form = f
         /\ \/ calls[i].kind = "delete" /\ server'.secret[f] = None
            \/ /\ calls[i].kind = "save" /\ server'.secret[f] # None
               /\ server'.secret[f] = calls[i].secret]_vars
=============================================================================
