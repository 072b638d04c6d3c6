------------------------------ MODULE Console ------------------------------
(***************************************************************************)
(* A guest's console: pages/ConsolePage.tsx in its browser window, and the *)
(* relay of app/routes/console.py between the browser's WebSocket and      *)
(* Proxmox.                                                                *)
(*                                                                         *)
(* Every call of connectConsole asks for a ticket, opens a WebSocket with  *)
(* it and leaves an RFB object whose events arrive whenever they do.       *)
(***************************************************************************)
EXTENDS Integers

CONSTANTS
  MaxOpens   \* bound: calls of connectConsole

ConsoleAssumption == MaxOpens \in Nat \ {0}

Calls == 1 .. MaxOpens

VARIABLES
  status,   \* what the page says
  ref,      \* rfbRef: the RFB object the page would close, 0 for none
  opens,    \* calls of connectConsole so far
  ticket,   \* ticket[k]: the POST of call k and its entry in console_sessions
  socket,   \* socket[k]: the browser's side of the WebSocket of call k
  up,       \* up[k]: the proxy's side, the connection to Proxmox
  pumps     \* pumps[k]: the copying tasks of the relay that still run

vars == <<status, ref, opens, ticket, socket, up, pumps>>

Directions == {"browser_to_proxmox", "proxmox_to_browser"}

TypeOK ==
  /\ status \in {"preparing", "connecting", "connected", "disconnected", "error"}
  /\ ref \in 0 .. MaxOpens /\ opens \in 0 .. MaxOpens
  /\ ticket \in [Calls -> {"none", "asked", "issued", "used", "expired", "refused"}]
  /\ socket \in [Calls -> {"none", "opening", "open", "closed", "reported"}]
  /\ up \in [Calls -> {"none", "dialing", "open", "closed"}]
  /\ pumps \in [Calls -> SUBSET Directions]

Init == /\ status = "preparing" /\ ref = 0 /\ opens = 0
        /\ ticket = [k \in Calls |-> "none"]
        /\ socket = [k \in Calls |-> "none"]
        /\ up = [k \in Calls |-> "none"]
        /\ pumps = [k \in Calls |-> {}]

-----------------------------------------------------------------------------
\* The page.

\* rfb.disconnect() closes the socket; its event comes later.
Dropped == IF ref # 0 /\ socket[ref] \in {"opening", "open"}
           THEN [socket EXCEPT ![ref] = "closed"] ELSE socket

\* connectConsole: on mount, and by Reconnect, which is the button whenever the
\* page is neither connecting nor connected (so also while it prepares).
ConnectConsole ==
  /\ opens < MaxOpens /\ status \notin {"connecting", "connected"}
  /\ opens' = opens + 1 /\ ticket' = [ticket EXCEPT ![opens + 1] = "asked"]
  /\ socket' = Dropped /\ ref' = 0 /\ status' = "preparing"
  /\ UNCHANGED <<up, pumps>>

\* The ticket is here: the page opens a WebSocket, whatever it did meanwhile.
TicketAnswer(k) ==
  /\ ticket[k] = "asked" /\ socket[k] = "none"
  /\ \/ /\ ticket' = [ticket EXCEPT ![k] = "issued"]
        /\ socket' = [socket EXCEPT ![k] = "opening"]
        /\ ref' = k /\ status' = "connecting"
     \/ /\ ticket' = [ticket EXCEPT ![k] = "refused"]
        /\ status' = "error" /\ UNCHANGED <<socket, ref>>
  /\ UNCHANGED <<opens, up, pumps>>

Disconnect == /\ status \in {"connecting", "connected"}
              /\ socket' = Dropped /\ ref' = 0 /\ status' = "disconnected"
              /\ UNCHANGED <<opens, ticket, up, pumps>>

\* RFB events. "disconnect" forgets the page's RFB object, its own or not; a
\* close the page asked for is clean, others may be or not.
ConnectEvent(k) == /\ socket[k] = "opening" /\ up[k] = "open"
                   /\ socket' = [socket EXCEPT ![k] = "open"]
                   /\ status' = "connected"
                   /\ UNCHANGED <<ref, opens, ticket, up, pumps>>

DisconnectEvent(k) == /\ socket[k] = "closed"
                      /\ socket' = [socket EXCEPT ![k] = "reported"]
                      /\ ref' = 0 /\ status' \in {"disconnected", "error"}
                      /\ UNCHANGED <<opens, ticket, up, pumps>>

\* A failed handshake or a request for other credentials is only shown.
SecurityFailure(k) == /\ socket[k] = "opening" /\ up[k] = "open"
                      /\ status' = "error"
                      /\ UNCHANGED <<ref, opens, ticket, socket, up, pumps>>

-----------------------------------------------------------------------------
\* The relay.

CloseBrowser(k) == socket' = [socket EXCEPT ![k] =
                     IF @ \in {"opening", "open"} THEN "closed" ELSE @]

\* A session lives 60 seconds (CONSOLE_SESSION_TTL).
Expire(k) == /\ ticket[k] = "issued"
             /\ ticket' = [ticket EXCEPT ![k] = "expired"]
             /\ UNCHANGED <<status, ref, opens, socket, up, pumps>>

\* The WebSocket arrives: its session is taken out, once.
Accept(k) ==
  /\ socket[k] \in {"opening", "closed", "reported"} /\ up[k] = "none"
  /\ IF ticket[k] = "issued"
     THEN /\ ticket' = [ticket EXCEPT ![k] = "used"]
          /\ up' = [up EXCEPT ![k] = "dialing"] /\ UNCHANGED socket
     ELSE /\ up' = [up EXCEPT ![k] = "closed"] /\ CloseBrowser(k)
          /\ UNCHANGED ticket
  /\ UNCHANGED <<status, ref, opens, pumps>>

Dial(k) == /\ up[k] = "dialing"
           /\ \/ /\ up' = [up EXCEPT ![k] = "open"]
                 /\ pumps' = [pumps EXCEPT ![k] = Directions]
                 /\ UNCHANGED socket
              \/ /\ up' = [up EXCEPT ![k] = "closed"]
                 /\ CloseBrowser(k) /\ UNCHANGED pumps
           /\ UNCHANGED <<status, ref, opens, ticket>>

\* Proxmox ends the session.
Hangup(k) == /\ up[k] = "open"
             /\ up' = [up EXCEPT ![k] = "closed"]
             /\ UNCHANGED <<status, ref, opens, ticket, socket, pumps>>

\* A copying task returns when the side it reads from is closed.
PumpEnds(k) ==
  /\ \E d \in pumps[k] :
       /\ IF d = "browser_to_proxmox" THEN socket[k] \in {"closed", "reported"}
                                      ELSE up[k] = "closed"
       /\ pumps' = [pumps EXCEPT ![k] = @ \ {d}]
  /\ UNCHANGED <<status, ref, opens, ticket, socket, up>>

\* Mutant of Ready: asyncio.wait with ALL_COMPLETED, its default.
ReadyAll(k) == pumps[k] = {}

\* asyncio.wait(FIRST_COMPLETED): with the first task that ends, the other is
\* cancelled and both sides are closed.
Ready(k) == pumps[k] # Directions
RelayEnds(k) ==
  /\ up[k] \in {"open", "closed"} /\ Ready(k)
  /\ pumps[k] # {} \/ up[k] = "open"
  /\ pumps' = [pumps EXCEPT ![k] = {}] /\ up' = [up EXCEPT ![k] = "closed"]
  /\ CloseBrowser(k)
  /\ UNCHANGED <<status, ref, opens, ticket>>

-----------------------------------------------------------------------------
Next == \/ ConnectConsole \/ Disconnect
        \/ \E k \in Calls :
             \/ TicketAnswer(k) \/ ConnectEvent(k) \/ DisconnectEvent(k)
             \/ SecurityFailure(k) \/ Expire(k) \/ Accept(k) \/ Dial(k)
             \/ Hangup(k) \/ PumpEnds(k) \/ RelayEnds(k)

\* The event loop runs tasks that are ready, and connect() has a timeout.
Relay(k) == Accept(k) \/ Dial(k) \/ PumpEnds(k) \/ RelayEnds(k)
Fairness == \A k \in Calls : WF_vars(Relay(k))
Spec == Init /\ [][Next]_vars /\ Fairness

-----------------------------------------------------------------------------
\* When one end of a console is gone the relay closes the other: no connection
\* to Proxmox outlives the browser's, and no browser waits on a dead console.
BothEndsClose ==
  /\ \A k \in Calls : socket[k] \in {"closed", "reported"} ~> up[k] \in {"none", "closed"}
  /\ \A k \in Calls : up[k] = "closed" ~> socket[k] \in {"none", "closed", "reported"}
=============================================================================
