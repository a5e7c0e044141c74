------------------------------ MODULE RequestPath ------------------------------
(***************************************************************************)
(* The path of a request through the orchestrator: the WebSocket handler   *)
(* (api/ws.rs), the webhook handler (api/webhook.rs), the rate limiter     *)
(* (api/rate_limit.rs) and the heartbeat's session cleanup                 *)
(* (heartbeat/mod.rs), around the session registry of SessionStore.        *)
(*                                                                         *)
(* A task is one WebSocket connection, which serves its messages one after *)
(* the other, or one webhook call.  Every await point of the handlers is   *)
(* between two actions, so other tasks and the heartbeat interleave there. *)
(* The agent turn is seen from the outside: it touches the session, runs   *)
(* tool rounds, ends with an answer or an error; AgentLoop details it.     *)
(***************************************************************************)
EXTENDS SessionStore

CONSTANTS
  Conns,        \* WebSocket connections (tasks running handle_socket)
  Hooks,        \* webhook calls (tasks running webhook_handler)
  NoSession,    \* "no session": session_id absent, or not resolved yet
  RateLimit,    \* agent.rate_limit_rpm: burst per session, 0 disables the limit
  MaxFrames     \* bound: frames queued in the receive buffer of a connection

ASSUME TasksAssumption == Tasks = Conns \cup Hooks /\ Conns \cap Hooks = {}
ASSUME NoSessionAssumption == NoSession \notin Sessions
ASSUME BoundsAssumption == RateLimit \in Nat /\ MaxFrames \in Nat \ {0}

VARIABLES
  pc,       \* where each task is in its handler
  named,    \* the session_id of the request a task is resolving
  sid,      \* the session the request of a task resolved to
  created,  \* did the request of a task create that session?
  reply,    \* what a task is about to send
  inbox,    \* receive buffer of a connection
  tokens,   \* the limiter's bucket of each session
  known     \* live sessions whose identifier some client has been told

pathVars == <<pc, named, sid, created, reply, inbox, tokens, known>>
vars == <<storeVars, pathVars>>

Optional == Sessions \cup {NoSession}
Frames == [kind : {"text"}, session : Optional]
            \cup [kind : {"garbled", "ping", "close"}, session : {NoSession}]
Locations == {"closed", "recv", "resolve", "limit", "lookup", "lock", "queued",
              "turn", "persist", "reply"}
Replies == [kind : {"none", "answer", "agent_error", "rate_limited",
                    "session_error", "parse_error"},
            session : Optional]
NoReply == [kind |-> "none", session |-> NoSession]

TypeOK ==
  /\ StoreTypeOK
  /\ pc \in [Tasks -> Locations]
  /\ named \in [Tasks -> Optional]
  /\ sid \in [Tasks -> Optional]
  /\ created \in [Tasks -> BOOLEAN]
  /\ reply \in [Tasks -> Replies]
  /\ inbox \in [Conns -> Seq(Frames)]
  /\ tokens \in [Sessions -> 0..RateLimit]
  /\ known \subseteq live

Init ==
  /\ StoreInit
  /\ pc = [t \in Tasks |-> "closed"]
  /\ named = [t \in Tasks |-> NoSession]
  /\ sid = [t \in Tasks |-> NoSession]
  /\ created = [t \in Tasks |-> FALSE]
  /\ reply = [t \in Tasks |-> NoReply]
  /\ inbox = [c \in Conns |-> <<>>]
  /\ tokens = [s \in Sessions |-> RateLimit]
  /\ known = {}

-----------------------------------------------------------------------------
(* Clients.  They name sessions they have been told of, or none; one that  *)
(* is no longer in the store has the effect of none (see Resolve).         *)

GoTo(t, where) == pc' = [pc EXCEPT ![t] = where]

\* A client opens a WebSocket.
Connect(c) ==
  /\ pc[c] = "closed"
  /\ GoTo(c, "recv")
  /\ inbox' = [inbox EXCEPT ![c] = <<>>]
  /\ UNCHANGED <<storeVars, named, sid, created, reply, tokens, known>>

PeerGone(c) == \E i \in DOMAIN inbox[c] : inbox[c][i].kind = "close"

\* The client's next frame arrives; "close" is also the end of the stream.
FrameArrives(c, f) ==
  /\ pc[c] # "closed"
  /\ Len(inbox[c]) < MaxFrames
  /\ ~PeerGone(c)
  /\ f.session \in known \cup {NoSession}
  /\ inbox' = [inbox EXCEPT ![c] = Append(@, f)]
  /\ UNCHANGED <<storeVars, pc, named, sid, created, reply, tokens, known>>

\* POST /webhook, naming session s or none.
HookCalled(h, s) ==
  /\ pc[h] = "closed"
  /\ s \in known \cup {NoSession}
  /\ GoTo(h, "resolve")
  /\ named' = [named EXCEPT ![h] = s]
  /\ UNCHANGED <<storeVars, sid, created, reply, inbox, tokens, known>>

-----------------------------------------------------------------------------
(* The handlers, from the arrival of a request to the lock of its session. *)

\* Where handle_socket goes on after frame f: a ping is answered, unless the
\* peer is gone already and the pong cannot be sent.
After(c, f) ==
  CASE f.kind = "text" -> {"resolve"}
    [] f.kind = "garbled" -> {"reply"}
    [] f.kind = "ping" -> {"recv"} \cup (IF PeerGone(c) THEN {"closed"} ELSE {})
    [] f.kind = "close" -> {"closed"}

\* handle_socket's inner receive loop: text starts a request, ping and other
\* frames are consumed, the end of the stream ends the handler.
Receive(c) ==
  /\ pc[c] = "recv"
  /\ inbox[c] # <<>>
  /\ LET f == Head(inbox[c]) IN
       /\ \E where \in After(c, f) : GoTo(c, where)
       /\ named' = [named EXCEPT ![c] = f.session]
       /\ reply' = [reply EXCEPT ![c] =
                      IF f.kind = "garbled"
                        THEN [kind |-> "parse_error", session |-> NoSession]
                        ELSE NoReply]
  /\ inbox' = [inbox EXCEPT ![c] = Tail(@)]
  /\ UNCHANGED <<storeVars, sid, created, tokens, known>>

\* A new identifier: nothing refers to it.
Fresh(s) ==
  /\ s \notin live
  /\ \A t \in Tasks : sid[t] # s

\* The limiter has a full bucket for a key it has not seen.
FullBucket(s) == tokens' = [tokens EXCEPT ![s] = RateLimit]

\* The named session if the store has it, else a new one.
Resolve(t) ==
  /\ pc[t] = "resolve"
  /\ GoTo(t, "limit")
  /\ named' = [named EXCEPT ![t] = NoSession]
  /\ \/ /\ named[t] \in live
        /\ sid' = [sid EXCEPT ![t] = named[t]]
        /\ created' = [created EXCEPT ![t] = FALSE]
        /\ UNCHANGED <<storeVars, tokens>>
     \/ /\ named[t] \notin live
        /\ \E s \in Sessions :
             /\ Fresh(s)
             /\ Create(s)
             /\ FullBucket(s)
             /\ sid' = [sid EXCEPT ![t] = s]
        /\ created' = [created EXCEPT ![t] = TRUE]
  /\ UNCHANGED <<reply, inbox, known>>

Answer(t, kind, session) ==
  /\ GoTo(t, "reply")
  /\ reply' = [reply EXCEPT ![t] = [kind |-> kind, session |-> session]]

\* SessionRateLimiter::check; it takes a cell of the bucket when it agrees.
Admits(s) == RateLimit = 0 \/ tokens[s] > 0
TakeCell(s) ==
  tokens' = [tokens EXCEPT ![s] = IF RateLimit = 0 THEN @ ELSE @ - 1]

\* The limit is enforced, with an early return that names no session.
CheckLimit(t) ==
  /\ pc[t] = "limit"
  /\ \/ /\ Admits(sid[t])
        /\ TakeCell(sid[t])
        /\ GoTo(t, "lookup")
        /\ UNCHANGED reply
     \/ /\ ~Admits(sid[t])
        /\ Answer(t, "rate_limited", NoSession)
        /\ UNCHANGED tokens
  /\ UNCHANGED <<storeVars, named, sid, created, inbox, known>>

\* The second lookup.  A session evicted since Resolve makes the webhook
\* answer 500 and the WebSocket handler return.
Lookup(t) ==
  /\ pc[t] = "lookup"
  /\ \/ /\ Get(sid[t])
        /\ GoTo(t, "lock")
        /\ UNCHANGED <<sid, created, reply>>
     \/ /\ ~Get(sid[t])
        /\ t \in Hooks
        /\ Answer(t, "session_error", NoSession)
        /\ UNCHANGED <<sid, created>>
     \/ /\ ~Get(sid[t])
        /\ t \in Conns
        /\ GoTo(t, "closed")
        /\ sid' = [sid EXCEPT ![t] = NoSession]
        /\ created' = [created EXCEPT ![t] = FALSE]
        /\ UNCHANGED reply
  /\ UNCHANGED <<storeVars, named, inbox, tokens, known>>

\* arc.lock().await, up to its first suspension.
RequestLock(t) ==
  /\ pc[t] = "lock"
  /\ Lock(t, sid[t])
  /\ GoTo(t, "queued")
  /\ UNCHANGED <<idle, named, sid, created, reply, inbox, tokens, known>>

-----------------------------------------------------------------------------
(* The agent turn, run with the lock held.                                 *)

Granted(t) == pc[t] = "queued" /\ holder[sid[t]] = t

\* run_turn is polled for the first time: it pushes the user message.
StartTurn(t) ==
  /\ Granted(t)
  /\ Touch(sid[t])
  /\ GoTo(t, "turn")
  /\ UNCHANGED <<live, holder, waiting, named, sid, created, reply, inbox, tokens, known>>

\* A tool round pushes messages.
ToolRound(t) ==
  /\ pc[t] = "turn"
  /\ Touch(sid[t])
  /\ UNCHANGED <<live, holder, waiting, pathVars>>

\* The final assistant message is pushed; the memory store is written next.
TurnAnswers(t) ==
  /\ pc[t] = "turn"
  /\ Touch(sid[t])
  /\ GoTo(t, "persist")
  /\ UNCHANGED <<live, holder, waiting, named, sid, created, reply, inbox, tokens, known>>

\* run_turn has returned Ok: the guard is dropped, the answer built.
TurnDone(t) ==
  /\ pc[t] = "persist"
  /\ Unlock(sid[t])
  /\ Answer(t, "answer", sid[t])
  /\ UNCHANGED <<idle, named, sid, created, inbox, tokens, known>>

\* run_turn has returned Err; only ws.rs puts the session in the error.
TurnFails(t) ==
  /\ pc[t] = "turn"
  /\ Unlock(sid[t])
  /\ Answer(t, "agent_error", IF t \in Conns THEN sid[t] ELSE NoSession)
  /\ UNCHANGED <<idle, named, sid, created, inbox, tokens, known>>

Finish(t, where) ==
  /\ GoTo(t, where)
  /\ sid' = [sid EXCEPT ![t] = NoSession]
  /\ created' = [created EXCEPT ![t] = FALSE]
  /\ reply' = [reply EXCEPT ![t] = NoReply]

\* The select! loop of handle_socket takes a frame while the turn runs: a ping
\* is answered, the end of the stream or a pong that cannot be sent drops the
\* turn and returns, anything else, a text message included, is discarded.
ReceiveDuringTurn(c) ==
  /\ pc[c] \in {"turn", "persist"} \/ Granted(c)
  /\ inbox[c] # <<>>
  /\ inbox' = [inbox EXCEPT ![c] = Tail(@)]
  /\ \/ /\ Head(inbox[c]).kind # "close"
        /\ UNCHANGED <<storeVars, pc, sid, created, reply>>
     \/ /\ \/ Head(inbox[c]).kind = "close"
           \/ Head(inbox[c]).kind = "ping" /\ PeerGone(c)
        /\ Unlock(sid[c])
        /\ Finish(c, "closed")
        /\ UNCHANGED idle
  /\ UNCHANGED <<named, tokens, known>>

\* The HTTP client of a webhook hangs up: the server drops the handler at the
\* await where it is, and with it the session guard or the place in the queue.
HookDropped(h) ==
  /\ pc[h] \in {"resolve", "lookup", "queued", "turn", "persist"}
  /\ IF pc[h] \in {"queued", "turn", "persist"}
       THEN Abandon(h, sid[h])
       ELSE UNCHANGED <<live, holder, waiting>>
  /\ Finish(h, "closed")
  /\ named' = [named EXCEPT ![h] = NoSession]
  /\ UNCHANGED <<idle, inbox, tokens, known>>

\* The reply is sent.  A webhook call is over; a connection takes its next
\* message, unless sending to a peer that is gone fails.
SendReply(t) ==
  /\ pc[t] = "reply"
  /\ \/ t \in Hooks /\ Finish(t, "closed")
     \/ t \in Conns /\ Finish(t, "recv")
     \/ t \in Conns /\ PeerGone(t) /\ Finish(t, "closed")
  /\ known' = known \cup ({reply[t].session} \cap live)
  /\ UNCHANGED <<storeVars, named, inbox, tokens>>

-----------------------------------------------------------------------------
(* The heartbeat and the limiter's clock.                                  *)

KnownOrNone(x) == IF x \in Sessions \ live' THEN NoSession ELSE x

\* One round of the heartbeat evicts the expired sessions.  Requests that name
\* an evicted session and are not resolved yet will find it gone, exactly as if
\* they named none: their reference is erased, which frees the identifier.
Heartbeat ==
  /\ CleanupExpired
  /\ named' = [t \in Tasks |-> KnownOrNone(named[t])]
  /\ inbox' = [c \in Conns |-> [i \in DOMAIN inbox[c] |->
                 [inbox[c][i] EXCEPT !.session = KnownOrNone(@)]]]
  /\ known' = known \cap live'
  /\ UNCHANGED <<pc, sid, created, reply, tokens>>

\* The bucket of s gains a cell.
Replenish(s) ==
  /\ tokens[s] < RateLimit
  /\ tokens' = [tokens EXCEPT ![s] = @ + 1]
  /\ UNCHANGED <<storeVars, pc, named, sid, created, reply, inbox, known>>

Clock == Tick /\ UNCHANGED pathVars

Handler(t) ==
  \/ Resolve(t) \/ CheckLimit(t) \/ Lookup(t) \/ RequestLock(t) \/ StartTurn(t)
  \/ ToolRound(t) \/ TurnAnswers(t) \/ TurnDone(t) \/ TurnFails(t) \/ SendReply(t)

Client ==
  \/ \E c \in Conns : Connect(c)
  \/ \E c \in Conns, f \in Frames : FrameArrives(c, f)
  \/ \E h \in Hooks, s \in Optional : HookCalled(h, s)
  \/ \E h \in Hooks : HookDropped(h)

Next ==
  \/ Client
  \/ \E c \in Conns : Receive(c) \/ ReceiveDuringTurn(c)
  \/ \E t \in Tasks : Handler(t)
  \/ Heartbeat
  \/ Clock
  \/ \E s \in Sessions : Replenish(s)

Spec == Init /\ [][Next]_vars

\* Handlers, heartbeat and clock keep running.  A turn ends because every gRPC
\* call has a timeout, tools are killed or abandoned after theirs, and the
\* iterations are bounded.  Clients owe nothing, so there is no fairness on
\* Client.
Fairness ==
  /\ \A t \in Tasks :
       /\ WF_vars(Resolve(t) \/ CheckLimit(t) \/ Lookup(t) \/ RequestLock(t))
       /\ WF_vars(StartTurn(t))
       /\ WF_vars(TurnAnswers(t) \/ TurnFails(t))
       /\ WF_vars(TurnDone(t) \/ SendReply(t))
  /\ \A c \in Conns : WF_vars(Receive(c))
  /\ WF_vars(Heartbeat)
  /\ WF_vars(Clock)

FairSpec == Spec /\ Fairness

-----------------------------------------------------------------------------
(* Properties.                                                             *)

InTurn(t) == pc[t] \in {"turn", "persist"}
InQueue(t, s) == \E i \in 1..Len(waiting[s]) : waiting[s][i] = t

\* "Each session is worked on by one task at a time" (session/mod.rs:5).
OneTurnPerSession ==
  \A t, u \in Tasks : InTurn(t) /\ InTurn(u) /\ sid[t] = sid[u] => t = u

\* Has t called lock() and not given the session back yet?
HasAsked(t) == pc[t] \in {"queued", "turn", "persist"}

TurnsHoldTheLock == \A t \in Tasks : InTurn(t) => holder[sid[t]] = t

WaitersAreServed ==
  \A t \in Tasks : pc[t] = "queued" => holder[sid[t]] = t \/ InQueue(t, sid[t])

HoldersAreInside ==
  \A s \in Sessions : holder[s] # NoTask => HasAsked(holder[s]) /\ sid[holder[s]] = s

QueuesAreExact ==
  \A s \in Sessions : \A i \in 1..Len(waiting[s]) :
    /\ pc[waiting[s][i]] = "queued"
    /\ sid[waiting[s][i]] = s
    /\ waiting[s][i] # holder[s]
    /\ \A j \in 1..Len(waiting[s]) : waiting[s][i] = waiting[s][j] => i = j

NobodyWaitsForAFreeLock ==
  \A s \in Sessions : waiting[s] # <<>> => holder[s] # NoTask

\* The permit of every mutex is accounted for, whatever was cancelled: a task
\* that runs a turn holds it; whoever holds it is in its handler past lock();
\* a queued task is in the queue once or holds the permit; nobody is queued
\* for a free mutex (api/ws.rs:122, api/webhook.rs:86).
LockAccounting ==
  /\ TurnsHoldTheLock
  /\ WaitersAreServed
  /\ HoldersAreInside
  /\ QueuesAreExact
  /\ NobodyWaitsForAFreeLock

\* The heartbeat evicts no session that a task works on or is queued for, and
\* none that was active within the timeout ("If the session is locked by an
\* active task, keep it unconditionally", session/mod.rs:139).  A request that
\* has looked the session up and not asked for the lock yet is not protected.
EvictionSafe ==
  [][\A s \in live \ live' :
       /\ idle[s] = IdleTimeout
       /\ \A t \in Tasks : sid[t] = s => ~HasAsked(t)]_vars

\* Every request that has its session ends, answered, refused or cut off,
\* although it may wait for the turns of other requests and any of those may be
\* cancelled.  (Before that it may wait for an identifier of the finite pool,
\* which is no wait of the code's.)
RequestsEnd ==
  \A t \in Tasks : sid[t] # NoSession ~> sid[t] = NoSession

\* A session that no request uses any more is evicted in the end: no path
\* through the handlers leaks its lock or a place in its queue.
AbandonedSessionsExpire ==
  \A s \in Sessions : []<>(s \notin live) \/ []<>(\E t \in Tasks : sid[t] = s)

\* "Each session gets its own independent bucket" (api/rate_limit.rs:4): what
\* others send never has the first request of a session refused.  (No run checks it:
\* it takes two sessions; RequestPath_proofs proves it.)
NewSessionAdmitted ==
  \A t \in Tasks : pc[t] = "reply" /\ created[t] => reply[t].kind # "rate_limited"

\* The request path implements turn exclusion with fair service.
Turns == INSTANCE TurnExclusion WITH
  asked <- [t \in Tasks |->
              IF HasAsked(t) THEN sid[t] ELSE NoSession],
  working <- [t \in Tasks |-> IF InTurn(t) THEN sid[t] ELSE NoSession]

ImplementsTurns == Turns!Spec
=============================================================================
