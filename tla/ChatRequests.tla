----------------------------- MODULE ChatRequests -----------------------------
(***************************************************************************)
(* Chat messages on their way to the orchestrator and back: the Telegram   *)
(* and Slack handlers (adapters/telegram/bot.ts, adapters/slack/app.ts),   *)
(* the session map (core/session-map.ts), the retries (utils/retry.ts) and *)
(* the request table of the client (core/orchestrator-client.ts), over the *)
(* sockets that all chats share (ClientSockets), of which several can be   *)
(* open at once, and the handlers of those sockets on the orchestrator's   *)
(* side (orchestrator/src/api/ws.rs).                                      *)
(*                                                                         *)
(* The client is a Node.js program: a callback and the promise reactions   *)
(* it causes run without interruption, so each is one action.  The client  *)
(* sees of the orchestrator only the replies, in the order of each socket, *)
(* so a frame's way there, the turn and the reply's way back are one stay  *)
(* in replies; RequestPath models the turns and the sessions.  When a      *)
(* connection breaks, what is on its way is lost and the handler on the    *)
(* orchestrator's side ends; the client has its close event later.         *)
(***************************************************************************)
EXTENDS ClientSockets, Sequences, FiniteSetsExt

CONSTANTS
  Requests,     \* runs of a message handler of the adapters
  Chats,        \* session keys: a Telegram chat, a Slack DM or thread
  NoChat,       \* the handler is not running
  Sessions,     \* pool of session identifiers
  New,          \* '__new__': no session_id
  NoRequest,    \* no entry in the table
  Nobody,       \* an entry that nobody waits for
  MaxAttempts,  \* withRetry's maxAttempts
  MaxReplies,   \* bound: messages the orchestrator works on and replies under way
  MaxLoad       \* bound: handlers that run and sockets in use

ASSUME NewAssumption == New \notin Sessions
ASSUME NoRequestAssumption ==
  NoRequest \notin Requests /\ Nobody \notin Requests /\ Nobody # NoRequest
ASSUME AttemptsAssumption == MaxAttempts \in Nat \ {0}

VARIABLES
  pending,  \* the client's table: the request of each key
  thrown,   \* keys of sends that threw and whose timer still runs
  held,     \* held[c]: sends whose frame stays in the buffer of socket c, and
            \* whose callback is still to come
  mapped,   \* the session map: the session of each chat, New if none
  pc,       \* where each handler is
  chat,     \* the chat a handler runs for
  session,  \* the session it read from the session map, New if none
  attempt,  \* withRetry's attempt
  replies   \* replies[c]: what the orchestrator replies, or will, on socket c

clientVars == <<state, socketVars, reconnectVars>>
tableVars == <<pending, thrown>>
handlerVars == <<pc, chat, session, attempt>>
linkVars == <<held, replies>>
vars == <<clientVars, tableVars, mapped, handlerVars, linkVars>>

Keys == Sessions \cup {New}
\* What the wire carries is session, New if none; chat is who is meant.
Replies == [session : Keys, chat : Chats]
Sends == [request : Requests, attempt : 1..MaxAttempts, key : Keys]

TypeOK ==
  /\ SocketsTypeOK
  /\ pending \in [Keys -> Requests \cup {NoRequest, Nobody}]
  /\ thrown \subseteq Keys
  /\ held \in [Sockets -> SUBSET Sends]
  /\ mapped \in [Chats -> Keys]
  /\ pc \in [Requests -> {"idle", "send", "waiting", "backoff"}]
  /\ chat \in [Requests -> Chats \cup {NoChat}]
  /\ session \in [Requests -> Keys]
  /\ attempt \in [Requests -> 1..MaxAttempts]
  /\ replies \in [Sockets -> Seq(Replies)]

\* main has awaited connect() before it starts the bots.
Init ==
  /\ state = "connected"
  /\ ws \in Sockets
  /\ phase = [c \in Sockets |-> IF c = ws THEN "open" ELSE "closed"]
  /\ byTimer = {}
  /\ reconnectTimer = FALSE
  /\ orphans = 0
  /\ pending = [k \in Keys |-> NoRequest]
  /\ thrown = {}
  /\ held = [c \in Sockets |-> {}]
  /\ mapped = [c \in Chats |-> New]
  /\ pc = [r \in Requests |-> "idle"]
  /\ chat = [r \in Requests |-> NoChat]
  /\ session = [r \in Requests |-> New]
  /\ attempt = [r \in Requests |-> 1]
  /\ replies = [c \in Sockets |-> <<>>]

-----------------------------------------------------------------------------
(* The handlers.                                                           *)

\* Handlers are over: they have replied to the user, or reported the error.
Over(rs) ==
  /\ pc' = [r \in Requests |-> IF r \in rs THEN "idle" ELSE pc[r]]
  /\ session' = [r \in Requests |-> IF r \in rs THEN New ELSE session[r]]
  /\ attempt' = [r \in Requests |-> IF r \in rs THEN 1 ELSE attempt[r]]
  /\ chat' = [r \in Requests |-> IF r \in rs THEN NoChat ELSE chat[r]]

\* No callback is to come of a send of r.
Unreferred(r) == \A c \in Sockets : \A u \in held[c] : u.request # r

Load == Cardinality({r \in Requests : pc[r] # "idle"})
        + Cardinality({c \in Sockets : phase[c] # "closed"})

\* A chat message arrives; the handler looks its session up, then awaits.
MessageArrives(r, c) ==
  /\ pc[r] = "idle" /\ Unreferred(r)
  /\ Load < MaxLoad
  /\ pc' = [pc EXCEPT ![r] = "send"]
  /\ chat' = [chat EXCEPT ![r] = c]
  /\ session' = [session EXCEPT ![r] = mapped[c]]
  /\ UNCHANGED <<attempt, clientVars, tableVars, mapped, linkVars>>

\* Fault: the attempts are not counted.
AgainUncounted(rs) ==
  /\ pc' = [r \in Requests |-> IF r \in rs THEN "backoff" ELSE pc[r]]
  /\ UNCHANGED <<chat, session, attempt>>

\* withRetry after an error that isNotConnectedError recognises: every request
\* of rs backs off, or fails if it has no attempt left.
Again(rs) ==
  LET last == {r \in rs : attempt[r] = MaxAttempts} IN
  /\ pc' = [r \in Requests |-> IF r \in last THEN "idle"
                               ELSE IF r \in rs THEN "backoff" ELSE pc[r]]
  /\ session' = [r \in Requests |-> IF r \in last THEN New ELSE session[r]]
  /\ attempt' = [r \in Requests |-> IF r \in last THEN 1
                                    ELSE IF r \in rs THEN attempt[r] + 1 ELSE attempt[r]]
  /\ chat' = [r \in Requests |-> IF r \in last THEN NoChat ELSE chat[r]]

-----------------------------------------------------------------------------
(* handle_socket.                                                          *)

\* An identifier nobody has heard of.
Fresh(s) ==
  /\ s \notin thrown
  /\ \A c \in Chats : mapped[c] # s
  /\ \A r \in Requests : session[r] # s
  /\ \A c \in Sockets :
       /\ \A u \in held[c] : u.key # s
       /\ \A i \in 1..Len(replies[c]) : replies[c][i].session # s

\* handle_socket takes a message that names session s: a turn of s begins, or of a
\* new session if the registry has none of that name, or the limiter refuses it.
Taken(c, s, who) ==
  /\ MapThenSumSet(LAMBDA d : Len(replies[d]), Sockets) < MaxReplies
  /\ \E t \in Keys :
       /\ IF t = New THEN s # New ELSE t = s \/ Fresh(t)
       /\ replies' = [replies EXCEPT ![c] = Append(@, [session |-> t, chat |-> who])]

-----------------------------------------------------------------------------
(* sendMessage.                                                            *)

\* A send that makes no entry, or takes its own off on the next tick: the client
\* is not connected (which withRetry tries again), sendChatAction failed before
\* the first attempt, the key is taken, or the socket is closing or closed.
Refused(r) ==
  /\ \/ state # "connected" /\ Again({r})
     \/ pc[r] = "send" /\ Over({r})
     \/ /\ state = "connected"
        /\ pending[session[r]] # NoRequest \/ phase[ws] \in {"aborting", "closing", "closed"}
        /\ Over({r})
  /\ UNCHANGED <<tableVars, linkVars>>

\* ws.send throws while the socket is opening: the promise is rejected, and the
\* entry and its timer stay.  (Bound: one such timer at a time.)
Throws(r) ==
  /\ state = "connected" /\ phase[ws] = "opening"
  /\ pending[session[r]] = NoRequest
  /\ thrown = {}
  /\ pending' = [pending EXCEPT ![session[r]] = Nobody]
  /\ thrown' = {session[r]}
  /\ Over({r})
  /\ UNCHANGED linkVars

\* The frame is sent.  The orchestrator takes it; or it is lost, with its
\* connection or because handle_socket drops what comes during a turn; or it stays
\* in the buffer of the socket.  (Bound: one such frame at a time, of a last
\* attempt.)
Requested(r) ==
  /\ state = "connected" /\ phase[ws] = "open"
  /\ pending[session[r]] = NoRequest
  /\ pending' = [pending EXCEPT ![session[r]] = r]
  /\ pc' = [pc EXCEPT ![r] = "waiting"]
  /\ \/ held[ws] = {} /\ Taken(ws, session[r], chat[r]) /\ UNCHANGED held
     \/ UNCHANGED linkVars
     \/ /\ attempt[r] = MaxAttempts
        /\ \A c \in Sockets : held[c] = {}
        /\ held' = [held EXCEPT ![ws] =
                      {[request |-> r, attempt |-> attempt[r], key |-> session[r]]}]
        /\ UNCHANGED replies
  /\ UNCHANGED <<thrown, chat, session, attempt>>

\* The first attempt, after the awaits before it, or another after its delay.
Send(r) ==
  /\ pc[r] \in {"send", "backoff"}
  /\ Refused(r) \/ Throws(r) \/ Requested(r)
  /\ UNCHANGED <<clientVars, mapped>>

\* Fault: the entry stays when the request timed out.
TimeOutKeepsEntry(r) ==
  /\ pc[r] = "waiting"
  /\ Over({r})
  /\ UNCHANGED <<clientVars, tableVars, mapped, linkVars>>

\* requestTimeoutMs have passed without an answer: the entry of the key goes,
\* whoever made it.
TimeOut(r) ==
  /\ pc[r] = "waiting"
  /\ pending' = [pending EXCEPT ![session[r]] = NoRequest]
  /\ Over({r})
  /\ UNCHANGED <<clientVars, thrown, mapped, linkVars>>

\* Fault: a timer whose send threw leaves the entry.
ThrownTimeOutKeepsEntry(k) ==
  /\ k \in thrown
  /\ thrown' = thrown \ {k}
  /\ UNCHANGED <<pending, clientVars, mapped, handlerVars, linkVars>>

\* The same for a request whose send threw.
ThrownTimeOut(k) ==
  /\ k \in thrown
  /\ thrown' = thrown \ {k}
  /\ pending' = [pending EXCEPT ![k] = NoRequest]
  /\ UNCHANGED <<clientVars, mapped, handlerVars, linkVars>>

-----------------------------------------------------------------------------
(* Answers.                                                                *)

\* The entry of k and its timer go, and who waits is told s, New if nothing.
Settle(k, s) ==
  /\ pending' = [pending EXCEPT ![k] = NoRequest]
  /\ thrown' = IF pending[k] = Nobody THEN thrown \ {k} ELSE thrown
  /\ mapped' = IF s = New \/ pending[k] = Nobody
                 THEN mapped ELSE [mapped EXCEPT ![chat[pending[k]]] = s]
  /\ Over({pending[k]} \ {Nobody})

Waiting == {k \in Keys : pending[k] # NoRequest}

\* The key an answer of session s is taken to belong to.
KeyOf(s) == IF pending[s] # NoRequest THEN s ELSE New

\* The reply is nobody's, and is logged.
Ignored == UNCHANGED <<tableVars, mapped, handlerVars>>

\* _handleMessage, of whichever socket.  An answer settles the request of its
\* session, or else that of a new session.
Answered(c) ==
  /\ replies[c] # <<>>
  /\ replies' = [replies EXCEPT ![c] = Tail(@)]
  /\ LET s == Head(replies[c]).session IN
       /\ s # New
       /\ IF pending[KeyOf(s)] = NoRequest THEN Ignored ELSE Settle(KeyOf(s), s)
  /\ UNCHANGED <<clientVars, held>>

\* An error settles the only request there is.
Failed(c) ==
  /\ replies[c] # <<>>
  /\ replies' = [replies EXCEPT ![c] = Tail(@)]
  /\ \/ \E k \in Waiting : Waiting = {k} /\ Settle(k, Head(replies[c]).session)
     \/ (\A k \in Waiting : Waiting # {k}) /\ Ignored
  /\ UNCHANGED <<clientVars, held>>

-----------------------------------------------------------------------------
(* The session map.                                                        *)

\* Entries are deleted: by /start or Telegram's /reset one, by Slack's /reset
\* those of a channel, by the sweep those idle for the time to live.
Forget(cs) ==
  /\ cs # {}
  /\ \A c \in cs : mapped[c] # New
  /\ mapped' = [c \in Chats |-> IF c \in cs THEN New ELSE mapped[c]]
  /\ UNCHANGED <<clientVars, tableVars, handlerVars, linkVars>>

-----------------------------------------------------------------------------
(* The connection.                                                         *)

\* Sockets are destroyed.  The callbacks of the frames they hold are called with
\* the error: each takes the entry of its key off, whoever made it, and rejects
\* its own promise.
Destroyed(cs) ==
  LET failed == UNION {held[c] : c \in cs} IN
  /\ phase' = Closing(cs)
  /\ pending' = [k \in Keys |-> IF \E u \in failed : u.key = k THEN NoRequest ELSE pending[k]]
  /\ Over({r \in Requests : pc[r] = "waiting" /\
             \E u \in failed : u.request = r /\ u.attempt = attempt[r]})
  /\ held' = [c \in Sockets |-> IF c \in cs THEN {} ELSE held[c]]
  /\ replies' = [c \in Sockets |-> IF c \in cs THEN <<>> ELSE replies[c]]
  /\ UNCHANGED <<state, ws, byTimer, reconnectVars, thrown, mapped>>

\* A connection breaks, all of them when the orchestrator restarts, or a pong timer
\* (ClientConnection) terminates the socket in use.
Breaks(cs) ==
  /\ cs # {}
  /\ \A c \in cs : phase[c] = "open" \/ (c = ws /\ phase[c] = "opening")
  /\ Destroyed(cs)

\* _rejectAllPending, in the close event of any socket.
RejectAllPending ==
  /\ pending' = [k \in Keys |-> NoRequest]
  /\ thrown' = {k \in thrown : pending[k] # Nobody}
  /\ Again({pending[k] : k \in Waiting} \ {Nobody})
  /\ UNCHANGED <<mapped, linkVars>>

\* A socket is closed, or cannot be opened.
LinkLost(c) == (Closed(c) \/ NotOpened(c)) /\ RejectAllPending

\* A reconnect timer fires; who waits goes on waiting.
Redials ==
  /\ Load < MaxLoad
  /\ TimerDue
  /\ \E c \in Sockets : NewSocket(c, TRUE)
  /\ UNCHANGED <<tableVars, mapped, handlerVars, linkVars>>

\* A socket is open.
Reconnects(c) ==
  /\ Opened(c)
  /\ UNCHANGED <<tableVars, mapped, handlerVars, linkVars>>

-----------------------------------------------------------------------------
Next ==
  \/ \E r \in Requests, c \in Chats : MessageArrives(r, c)
  \/ \E r \in Requests : Send(r) \/ TimeOut(r)
  \/ \E k \in Keys : ThrownTimeOut(k)
  \/ \E cs \in SUBSET Chats : Forget(cs)
  \/ Redials
  \/ \E c \in Sockets : Answered(c) \/ Failed(c) \/ LinkLost(c) \/ Reconnects(c)
  \/ \E cs \in SUBSET Sockets : Breaks(cs)

Spec == Init /\ [][Next]_vars

\* The client's timers fire and its handlers go on.  Nothing is assumed of the
\* orchestrator, nor that the connection ever comes back.
FairSpec ==
  /\ Spec
  /\ \A r \in Requests : WF_vars(Send(r)) /\ WF_vars(TimeOut(r))
  /\ \A k \in Keys : WF_vars(ThrownTimeOut(k))

-----------------------------------------------------------------------------
(* Properties.                                                             *)

Owned(k) ==
  \/ pending[k] = Nobody /\ k \in thrown
  \/ pending[k] \in Requests /\ pc[pending[k]] = "waiting" /\ session[pending[k]] = k

\* The table is true of the handlers, although timers and callbacks delete by key
\* whatever entry they find and ws.send can throw: each entry is that of a handler
\* that waits under this key, or nobody's with its timer still to fire; and while
\* there is one, a socket is there whose close event takes it off, so no entry
\* outlives the connections (sendMessage, _handleMessage, _rejectAllPending).
EntriesOwned ==
  /\ \A k \in Waiting : Owned(k)
  /\ Waiting # {} => \E c \in Sockets : phase[c] \in {"open", "closing"}

\* No key stays taken: whatever is lost, thrown or deleted by another, the chats of
\* a key can send again ("already in-flight", orchestrator-client.ts:101-106).
KeysBecomeFree == \A k \in Keys : []<>(pending[k] = NoRequest)

\* Every handler replies to its user or reports an error, although its entry may be
\* taken off by the timer or the callback of another, and its attempts may all meet
\* lost connections (handleText, handleDirectMessage, handleAppMention).
HandlersEnd == \A r \in Requests : pc[r] # "idle" ~> pc[r] = "idle"

\* "Send a UserMessage and await the matching AgentResponse"
\* (orchestrator-client.ts:88): who gets an answer is who asked.
AnswersMatch ==
  [][\A c \in Sockets : Answered(c) =>
       \A r \in Requests : pc[r] = "waiting" /\ pc'[r] # "waiting" =>
         chat[r] = Head(replies[c]).chat]_vars
=============================================================================
