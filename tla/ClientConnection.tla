--------------------------- MODULE ClientConnection ---------------------------
(***************************************************************************)
(* The connection of OrchestratorClient (core/orchestrator-client.ts): its *)
(* sockets and reconnect timers, the intervals that ping and the timers    *)
(* that wait for a pong.  ChatRequests models what is sent over it.        *)
(*                                                                         *)
(* Every event handler and timer callback runs to its end, with the        *)
(* promise reactions it causes, and is one action.  A timer or interval    *)
(* that no field refers to any more cannot be cleared, so those the fields *)
(* refer to and those that exist are kept apart.                           *)
(***************************************************************************)
EXTENDS ClientSockets

CONSTANT MaxPings  \* bound: pings without a pong, counted no further

ASSUME PingsAssumption == MaxPings \in Nat \ {0}

VARIABLES
  silent,          \* the sockets whose peer is gone without a word
  pings,           \* pings of each socket that have no pong yet
  heartbeatTimer,  \* the interval of that field, named by the socket it began with
  ticking,         \* the intervals that exist
  pongTimer,       \* the timer of that field, named by its interval
  armed            \* the pong timers that are still to fire

peerVars == <<silent, pings>>
heartbeatVars == <<heartbeatTimer, ticking, pongTimer, armed>>
connectionVars == <<state, socketVars, peerVars, reconnectVars, heartbeatVars>>

ConnectionTypeOK ==
  /\ SocketsTypeOK
  /\ silent \subseteq Sockets
  /\ pings \in [Sockets -> 0..MaxPings]
  /\ heartbeatTimer \in Sockets \cup {None}
  /\ ticking \subseteq Sockets
  /\ pongTimer \in Sockets \cup {None}
  /\ armed \subseteq Sockets

ConnectionInit ==
  /\ state = "disconnected"
  /\ ws = None
  /\ phase = [s \in Sockets |-> "closed"]
  /\ byTimer = {}
  /\ silent = {}
  /\ pings = [s \in Sockets |-> 0]
  /\ reconnectTimer = FALSE
  /\ orphans = 0
  /\ heartbeatTimer = None
  /\ ticking = {}
  /\ pongTimer = None
  /\ armed = {}

-----------------------------------------------------------------------------
(* Opening.                                                                *)

\* No timer refers to s.
Forgotten(s) ==
  /\ s \notin ticking \cup armed
  /\ s \notin {heartbeatTimer, pongTimer}

\* _openSocket.
OpenSocket(timer) ==
  \E s \in Sockets :
    /\ Forgotten(s)
    /\ NewSocket(s, timer)
    /\ silent' = silent \ {s}
    /\ pings' = [pings EXCEPT ![s] = 0]

\* connect(); it returns at once when connected or connecting.
Connect ==
  /\ state = "disconnected"
  /\ OpenSocket(FALSE)
  /\ UNCHANGED <<reconnectVars, heartbeatVars>>

\* A reconnect timer fires.
TimerFires ==
  /\ TimerDue
  /\ OpenSocket(TRUE)
  /\ UNCHANGED heartbeatVars

\* The 'open' event; _startHeartbeat.
Opens(s) ==
  /\ Opened(s)
  /\ ticking' = ticking \cup {s}
  /\ heartbeatTimer' = s
  /\ UNCHANGED <<peerVars, pongTimer, armed>>

-----------------------------------------------------------------------------
(* Closing.                                                                *)

\* _stopHeartbeat.
StopHeartbeat ==
  /\ heartbeatTimer' = None
  /\ ticking' = ticking \ {heartbeatTimer}
  /\ pongTimer' = None
  /\ armed' = armed \ {pongTimer}

\* The connection cannot be opened.
OpenFails(s) == NotOpened(s) /\ StopHeartbeat /\ UNCHANGED peerVars

\* Fault: the close of a socket that is not in use schedules nothing, and stops
\* the heartbeat all the same.
ClosesUnused(s) ==
  /\ phase[s] \in {"open", "closing"}
  /\ phase' = [phase EXCEPT ![s] = "closed"]
  /\ StopHeartbeat
  /\ IF s = ws THEN Schedule(1) ELSE UNCHANGED <<state, reconnectVars>>
  /\ UNCHANGED <<ws, byTimer, peerVars>>

\* The 'close' event of a socket that was open.
Closes(s) == Closed(s) /\ StopHeartbeat /\ UNCHANGED peerVars

\* disconnect().
Disconnect ==
  /\ state' = "disconnected"
  /\ StopHeartbeat
  /\ reconnectTimer' = FALSE
  /\ ws' = None
  /\ phase' = Closing({ws})
  /\ UNCHANGED <<byTimer, peerVars, orphans>>

-----------------------------------------------------------------------------
(* The heartbeat.                                                          *)

\* The interval i pings the client's socket.  Its last pong timer has fired or
\* was cleared: pongTimeoutMs is shorter than heartbeatIntervalMs.
Tick(i) ==
  /\ i \in ticking \ armed
  /\ ws # None
  /\ phase[ws] = "open"
  /\ pings' = [pings EXCEPT ![ws] = IF @ = MaxPings THEN @ ELSE @ + 1]
  /\ pongTimer' = i
  /\ armed' = armed \cup {i}
  /\ UNCHANGED <<state, ws, phase, byTimer, silent, reconnectVars, heartbeatTimer, ticking>>

\* The 'pong' event of any socket.
Pong(s) ==
  /\ phase[s] = "open"
  /\ s \notin silent
  /\ pings[s] > 0
  /\ pings' = [pings EXCEPT ![s] = @ - 1]
  /\ pongTimer' = None
  /\ armed' = armed \ {pongTimer}
  /\ UNCHANGED <<state, ws, phase, byTimer, silent, reconnectVars, heartbeatTimer, ticking>>

\* Fault: the socket is closed in the polite way, which waits for the peer.
PongTimeoutGivesUp(i) ==
  /\ i \in armed
  /\ armed' = armed \ {i}
  /\ UNCHANGED <<state, socketVars, peerVars, reconnectVars, heartbeatTimer, ticking,
                 pongTimer>>

\* No pong in time: the client's socket, whichever it is by now, is terminated.
PongTimeout(i) ==
  /\ i \in armed
  /\ armed' = armed \ {i}
  /\ phase' = Closing({ws})
  /\ UNCHANGED <<state, ws, byTimer, silent, pings, reconnectVars, heartbeatTimer,
                 ticking, pongTimer>>

\* The peer of an open socket is gone, and nothing says so.
Dies(s) ==
  /\ phase[s] = "open"
  /\ s \notin silent
  /\ silent' = silent \cup {s}
  /\ UNCHANGED <<state, ws, phase, byTimer, pings, reconnectVars, heartbeatVars>>

-----------------------------------------------------------------------------

Event ==
  \/ TimerFires
  \/ \E s \in Sockets :
       \/ Opens(s) \/ OpenFails(s) \/ Closes(s)
       \/ Tick(s) \/ Pong(s) \/ PongTimeout(s) \/ Dies(s)

ConnectionNext == Connect \/ Disconnect \/ Event

ConnectionSpec == ConnectionInit /\ [][ConnectionNext]_connectionVars

\* Timers and intervals fire, and a socket that was terminated or closed says
\* so.  Whether and when a socket opens is up to the network.
FairConnectionSpec ==
  /\ ConnectionSpec
  /\ WF_connectionVars(TimerFires)
  /\ \A s \in Sockets :
       /\ WF_connectionVars(Tick(s))
       /\ WF_connectionVars(PongTimeout(s))
       /\ WF_connectionVars(phase[s] = "closing" /\ Closes(s))
       /\ WF_connectionVars(phase[s] = "aborting" /\ OpenFails(s))

-----------------------------------------------------------------------------
(* Properties.                                                             *)

Opening == {s \in Sockets : phase[s] \in {"opening", "aborting"}}

\* A client that says it is reconnecting is: an attempt is under way or a timer
\* is going to make one, whatever failed, timed out or was terminated on the
\* way (_scheduleReconnect, the handlers of 'error' and 'close').
ReconnectGoesOn == state = "connecting" => reconnectTimer \/ orphans > 0 \/ Opening # {}

\* While the client says it is connected, the heartbeat it is able to stop is
\* running, whichever socket's events came in whatever order (_stopHeartbeat is
\* called by the 'close' of every socket, also of one that is not in use).
ConnectedIsWatched == state = "connected" => heartbeatTimer \in ticking

\* "Periodic ping/pong to detect dead connections" (communication_adapters.md:92):
\* a dead connection does not stay the one the client uses.
DeadConnectionsDropped ==
  \A s \in Sockets :
    ws = s /\ phase[s] = "open" /\ s \in silent ~> ws # s \/ phase[s] # "open"
=============================================================================
