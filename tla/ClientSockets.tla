----------------------------- MODULE ClientSockets -----------------------------
(***************************************************************************)
(* The sockets of OrchestratorClient (core/orchestrator-client.ts) and the *)
(* timers that open them again.  ClientConnection adds the heartbeat, and  *)
(* ChatRequests what is sent over the sockets.                             *)
(*                                                                         *)
(* A timer that the field reconnectTimer does not refer to any more cannot *)
(* be cleared, so it is counted apart.  The backoff only sets when a timer *)
(* fires and is left out; so is 'closing', which is over when disconnect() *)
(* returns.  A socket of the ws library is external.                       *)
(***************************************************************************)
EXTENDS Naturals

CONSTANTS
  Sockets,    \* pool of sockets; one that is closed and forgotten is used again
  None,       \* null, undefined
  MaxOrphans  \* bound: reconnect timers that reconnectTimer does not refer to

ASSUME NoneAssumption == None \notin Sockets
ASSUME OrphansAssumption == MaxOrphans \in Nat

VARIABLES
  state,           \* ClientState
  ws,              \* the socket the client uses
  phase,           \* of each socket; "aborting" when closed before it was open
  byTimer,         \* the sockets a reconnect timer is opening
  reconnectTimer,  \* whether the timer of that field is still to fire
  orphans          \* number of other reconnect timers still to fire

socketVars == <<ws, phase, byTimer>>
reconnectVars == <<reconnectTimer, orphans>>

Phases == {"opening", "aborting", "open", "closing", "closed"}

SocketsTypeOK ==
  /\ state \in {"disconnected", "connecting", "connected"}
  /\ ws \in Sockets \cup {None}
  /\ phase \in [Sockets -> Phases]
  /\ byTimer \subseteq Sockets
  /\ reconnectTimer \in BOOLEAN
  /\ orphans \in 0..MaxOrphans

\* _openSocket, with s as the new socket.
NewSocket(s, timer) ==
  /\ phase[s] = "closed"
  /\ state' = "connecting"
  /\ ws' = s
  /\ phase' = [phase EXCEPT ![s] = "opening"]
  /\ byTimer' = IF timer THEN byTimer \cup {s} ELSE byTimer \ {s}

\* A reconnect timer fires.
TimerDue ==
  \/ reconnectTimer /\ reconnectTimer' = FALSE /\ UNCHANGED orphans
  \/ orphans > 0 /\ orphans' = orphans - 1 /\ UNCHANGED reconnectTimer

\* The 'open' event.
Opened(s) ==
  /\ phase[s] = "opening"
  /\ phase' = [phase EXCEPT ![s] = "open"]
  /\ byTimer' = byTimer \ {s}
  /\ state' = "connected"
  /\ UNCHANGED <<ws, reconnectVars>>

\* Fault: a client that is reconnecting schedules nothing more.
ScheduleUnlessConnecting(n) ==
  /\ state' = "connecting"
  /\ reconnectTimer' = (reconnectTimer \/ state # "connecting")
  /\ UNCHANGED orphans

\* _scheduleReconnect, n times; each overwrites reconnectTimer.
Schedule(n) ==
  /\ state' = "connecting"
  /\ reconnectTimer' = TRUE
  /\ orphans' = orphans + (n - 1) + (IF reconnectTimer THEN 1 ELSE 0)
  /\ orphans' <= MaxOrphans

\* The connection cannot be opened: 'error', 'close', and then the rejection of
\* _openSocket, which a timer's catch handles.
NotOpened(s) ==
  /\ phase[s] \in {"opening", "aborting"}
  /\ phase' = [phase EXCEPT ![s] = "closed"]
  /\ byTimer' = byTimer \ {s}
  /\ Schedule(IF state = "connecting" /\ s \in byTimer THEN 2 ELSE 1)
  /\ UNCHANGED ws

\* The 'close' event of a socket that was open.
Closed(s) ==
  /\ phase[s] \in {"open", "closing"}
  /\ phase' = [phase EXCEPT ![s] = "closed"]
  /\ Schedule(1)
  /\ UNCHANGED <<ws, byTimer>>

\* close() and terminate() of the sockets in cs; their events come later.
Closing(cs) ==
  [s \in Sockets |-> IF s \in cs /\ phase[s] = "open" THEN "closing"
                     ELSE IF s \in cs /\ phase[s] = "opening" THEN "aborting"
                     ELSE phase[s]]
=============================================================================
