-------------------------- MODULE ChatAdapters_proofs --------------------------
(***************************************************************************)
(* Theorems about the chat adapters: their requests (ChatRequests), for    *)
(* any number of handlers, chats, sessions, sockets and attempts; and the  *)
(* connection of their client (ClientConnection), for any number of        *)
(* sockets and any bounds.                                                 *)
(***************************************************************************)
EXTENDS ChatRequests, ClientConnection, TLAPS

-----------------------------------------------------------------------------
(* Sockets.                                                                *)

\* Closing sockets keeps the phases well typed, who is open is not closed yet, and
\* an attempt is under way until it fails.
LEMMA ClosingPhases ==
  ASSUME SocketsTypeOK, NEW cs
  PROVE  /\ Closing(cs) \in [Sockets -> Phases]
         /\ \A t \in Sockets : phase[t] \in {"opening", "aborting"} =>
              Closing(cs)[t] \in {"opening", "aborting"}
         /\ \A t \in Sockets : phase[t] \in {"open", "closing"} =>
              Closing(cs)[t] \in {"open", "closing"}
  BY DEF SocketsTypeOK, Closing, Phases

\* A timer that fires is one less.
LEMMA TimerDueType ==
  ASSUME SocketsTypeOK, TimerDue
  PROVE  reconnectTimer' \in BOOLEAN /\ orphans' \in 0..MaxOrphans
<1>1. CASE reconnectTimer /\ reconnectTimer' = FALSE /\ UNCHANGED orphans
  BY <1>1 DEF SocketsTypeOK
<1>2. CASE orphans > 0 /\ orphans' = orphans - 1 /\ UNCHANGED reconnectTimer
  BY <1>2, OrphansAssumption DEF SocketsTypeOK
<1> QED
  BY <1>1, <1>2 DEF TimerDue

\* A new socket is an attempt under way; no open socket is touched.
LEMMA NewSocketType ==
  ASSUME SocketsTypeOK, NEW s \in Sockets, NEW timer \in BOOLEAN, NewSocket(s, timer),
         reconnectTimer' \in BOOLEAN, orphans' \in 0..MaxOrphans
  PROVE  /\ SocketsTypeOK'
         /\ state' = "connecting"
         /\ phase'[s] = "opening"
         /\ \A t \in Sockets : phase[t] # "closed" => phase'[t] = phase[t]
  BY DEF SocketsTypeOK, NewSocket, Phases

\* A socket that is open makes the client connected.
LEMMA OpenedType ==
  ASSUME SocketsTypeOK, NEW s \in Sockets, Opened(s)
  PROVE  /\ SocketsTypeOK'
         /\ state' = "connected"
         /\ phase'[s] = "open"
         /\ \A t \in Sockets : phase[t] \in {"open", "closing"} => phase'[t] = phase[t]
  BY DEF SocketsTypeOK, Opened, Phases, reconnectVars

\* The close of a socket, whichever it is, leaves a reconnect timer.
LEMMA ScheduleType ==
  ASSUME SocketsTypeOK, NEW n \in {1, 2}, Schedule(n)
  PROVE  state' = "connecting" /\ reconnectTimer' = TRUE /\ orphans' \in 0..MaxOrphans
<1>1. state' = "connecting" /\ reconnectTimer' = TRUE
  BY DEF Schedule
<1>2. orphans' \in 0..MaxOrphans
  BY OrphansAssumption DEF Schedule, SocketsTypeOK
<1> QED
  BY <1>1, <1>2

LEMMA LossType ==
  ASSUME SocketsTypeOK, NEW s \in Sockets, NotOpened(s) \/ Closed(s)
  PROVE  SocketsTypeOK' /\ state' = "connecting" /\ reconnectTimer' = TRUE
<1>1. PICK n \in {1, 2} : Schedule(n)
  BY DEF NotOpened, Closed
<1>2. state' = "connecting" /\ reconnectTimer' = TRUE /\ orphans' \in 0..MaxOrphans
  BY <1>1, ScheduleType
<1>3. /\ ws' = ws
      /\ phase' = [phase EXCEPT ![s] = "closed"]
      /\ byTimer' \in {byTimer, byTimer \ {s}}
  BY DEF NotOpened, Closed
<1> QED
  BY <1>2, <1>3 DEF SocketsTypeOK, Phases

-----------------------------------------------------------------------------
(* Requests.                                                               *)

States == {"idle", "send", "waiting", "backoff"}

\* The types of the handlers' variables, of the table's and the link's; a handler
\* at work is at work for a chat.
HandlerInv ==
  /\ pc \in [Requests -> States]
  /\ chat \in [Requests -> Chats \cup {NoChat}]
  /\ session \in [Requests -> Keys]
  /\ attempt \in [Requests -> 1..MaxAttempts]
  /\ \A r \in Requests : pc[r] # "idle" => chat[r] \in Chats

TableType ==
  /\ pending \in [Keys -> Requests \cup {NoRequest, Nobody}]
  /\ thrown \subseteq Keys
  /\ mapped \in [Chats -> Keys]

LinkType ==
  /\ held \in [Sockets -> SUBSET Sends]
  /\ replies \in [Sockets -> Seq(Replies)]

Types == SocketsTypeOK /\ HandlerInv /\ TableType /\ LinkType

Entries == \A k \in Keys : pending[k] # NoRequest => Owned(k)

\* A client that may send, or has sent, has a socket that is to be closed yet.
Covered ==
  state = "connected" \/ Waiting # {} => \E c \in Sockets : phase[c] \in {"open", "closing"}

\* A callback that is to come takes off the key its handler uses, as long as this
\* handler is at work.
HeldInv ==
  \A c \in Sockets : \A u \in held[c] :
    pc[u.request] # "idle" => u.key = session[u.request]

\* The types, the owners of the entries and the keys of the callbacks are inductive
\* together: a callback rejects the promise whose entry it deletes, or one whose
\* entry went before.
Inv == Types /\ Entries /\ Covered /\ HeldInv

\* The client starts connected, with an empty table and no handler at work.
LEMMA InitInv == Init => Inv
<1> SUFFICES ASSUME Init
             PROVE  Inv
  OBVIOUS
<1>1. SocketsTypeOK
  <2>1. phase \in [Sockets -> Phases]
    BY DEF Init, Phases
  <2>2. orphans \in 0..MaxOrphans
    BY OrphansAssumption DEF Init
  <2>3. reconnectTimer \in BOOLEAN
    BY DEF Init
  <2> QED
    BY <2>1, <2>2, <2>3 DEF Init, SocketsTypeOK
<1>2. HandlerInv
  BY AttemptsAssumption DEF Init, HandlerInv, Keys, States
<1>3. TableType /\ LinkType
  BY DEF Init, TableType, LinkType, Keys
<1>4. Entries
  BY DEF Init, Entries
<1>5. Covered
  BY DEF Init, Covered
<1>6. HeldInv
  BY DEF Init, HeldInv
<1> QED
  BY <1>1, <1>2, <1>3, <1>4, <1>5, <1>6 DEF Inv, Types

-----------------------------------------------------------------------------
(* What becomes of a handler.                                              *)

\* Who is at work after a step was at work before, for the same key.
Carried == \A r \in Requests : pc'[r] # "idle" => pc[r] # "idle" /\ session'[r] = session[r]

\* Nothing happens to r.
Spared(r) == pc'[r] = pc[r] /\ session'[r] = session[r] /\ attempt'[r] = attempt[r]

\* Handlers that are over keep the types, and are idle; nobody else moves.
LEMMA OverHandlers ==
  ASSUME HandlerInv, NEW rs \in SUBSET Requests, Over(rs)
  PROVE  /\ HandlerInv'
         /\ Carried
         /\ \A r \in rs : pc'[r] = "idle"
         /\ \A q \in Requests \ rs : Spared(q)
<1>1. HandlerInv'
  BY AttemptsAssumption DEF HandlerInv, Over, Keys, States
<1>2. \A r \in rs : pc'[r] = "idle"
  BY DEF Over
<1>3. \A q \in Requests \ rs : Spared(q)
  BY DEF Over, Spared
<1>4. Carried
  BY <1>2, <1>3 DEF Carried, Spared
<1> QED
  BY <1>1, <1>2, <1>3, <1>4

\* withRetry counts no further than MaxAttempts, and none of rs waits any more.
LEMMA AgainHandlers ==
  ASSUME HandlerInv, NEW rs \in SUBSET Requests, \A r \in rs : pc[r] # "idle",
         Again(rs)
  PROVE  /\ HandlerInv'
         /\ Carried
         /\ \A r \in rs : pc'[r] \in {"idle", "backoff"}
         /\ \A q \in Requests \ rs : Spared(q)
<1> DEFINE last == {r \in rs : attempt[r] = MaxAttempts}
<1>1. pc' = [r \in Requests |-> IF r \in last THEN "idle"
                                ELSE IF r \in rs THEN "backoff" ELSE pc[r]]
  BY DEF Again
<1>2. session' = [r \in Requests |-> IF r \in last THEN New ELSE session[r]]
  BY DEF Again
<1>3. attempt' = [r \in Requests |-> IF r \in last THEN 1
                                     ELSE IF r \in rs THEN attempt[r] + 1 ELSE attempt[r]]
  BY DEF Again
<1>4. chat' = [r \in Requests |-> IF r \in last THEN NoChat ELSE chat[r]]
  BY DEF Again
<1>5. attempt' \in [Requests -> 1..MaxAttempts]
  <2>1. ASSUME NEW r \in Requests
        PROVE  (IF r \in last THEN 1
                ELSE IF r \in rs THEN attempt[r] + 1 ELSE attempt[r]) \in 1..MaxAttempts
    BY AttemptsAssumption DEF HandlerInv
  <2> QED
    BY <1>3, <2>1
<1>6. HandlerInv'
  BY <1>1, <1>2, <1>4, <1>5 DEF HandlerInv, Keys, States
<1>7. \A r \in rs : pc'[r] \in {"idle", "backoff"}
  BY <1>1
<1>8. \A q \in Requests \ rs : Spared(q)
  BY <1>1, <1>2, <1>3 DEF Spared
<1>9. Carried
  BY <1>1, <1>2 DEF Carried
<1> QED
  BY <1>6, <1>7, <1>8, <1>9

-----------------------------------------------------------------------------
(* Table, handlers and callbacks.                                          *)

\* Callbacks that are still to come keep their keys.
LEMMA HeldKept ==
  ASSUME HeldInv, LinkType, Carried, \A c \in Sockets : held'[c] \subseteq held[c]
  PROVE  HeldInv'
<1> SUFFICES ASSUME NEW c \in Sockets, NEW u \in held'[c], pc'[u.request] # "idle"
             PROVE  u.key = session'[u.request]
  BY DEF HeldInv
<1>1. u \in held[c] /\ u.request \in Requests
  BY DEF LinkType, Sends
<1> QED
  BY <1>1 DEF HeldInv, Carried

\* A step that adds no entry, and closes no open socket.
LEMMA CoverKept ==
  ASSUME Covered, Waiting' \subseteq Waiting, state' = "connected" => state = "connected",
         \A c \in Sockets : phase[c] \in {"open", "closing"} => phase'[c] \in {"open", "closing"}
  PROVE  Covered'
  BY DEF Covered

\* The entry of a handler that nothing happens to stays what it was.
LEMMA OwnedStays ==
  ASSUME Inv, NEW k \in Keys, pending[k] # NoRequest, pending'[k] = pending[k],
         pending[k] = Nobody => k \in thrown',
         pending[k] \in Requests => Spared(pending[k])
  PROVE  Owned(k)'
<1>1. Owned(k)
  BY DEF Inv, Entries
<1>2. Nobody \notin Requests
  BY NoRequestAssumption
<1> QED
  BY <1>1, <1>2 DEF Owned, Spared

\* The session map does not touch table or handlers, nor does what is on its way.
LEMMA TableUntouched ==
  ASSUME Inv, UNCHANGED <<clientVars, tableVars, handlerVars, held>>
  PROVE  /\ SocketsTypeOK' /\ HandlerInv'
         /\ Entries' /\ Covered' /\ HeldInv'
<1>1. SocketsTypeOK'
  BY DEF Inv, Types, SocketsTypeOK, clientVars, socketVars, reconnectVars
<1>2. HandlerInv'
  BY DEF Inv, Types, HandlerInv, handlerVars
<1>3. Entries'
  BY DEF Inv, Entries, Owned, tableVars, handlerVars
<1>4. Covered'
  BY DEF Inv, Covered, Waiting, clientVars, socketVars, tableVars
<1>5. HeldInv'
  BY DEF Inv, HeldInv, handlerVars
<1> QED
  BY <1>1, <1>2, <1>3, <1>4, <1>5

-----------------------------------------------------------------------------
(* The steps.                                                              *)

\* sendMessage is refused, leaves an entry that is nobody's, or adds the entry the
\* handler then waits for.
LEMMA SendInv ==
  ASSUME Inv, NEW r \in Requests, Send(r)
  PROVE  Inv'
<1>1. SocketsTypeOK /\ HandlerInv /\ TableType /\ LinkType /\ HeldInv /\ Covered /\ Entries
  BY DEF Inv, Types
<1>2. pc[r] \in {"send", "backoff"} /\ UNCHANGED <<state, ws, phase, clientVars, mapped>>
  BY DEF Send, clientVars, socketVars
<1>3. SocketsTypeOK'
  BY <1>1, <1>2 DEF SocketsTypeOK, clientVars, socketVars, reconnectVars
<1>4. ASSUME NEW k \in Keys, pending[k] # NoRequest
      PROVE  pending[k] # r
  <2>1. Owned(k) /\ Nobody # r
    BY <1>1, <1>4, NoRequestAssumption DEF Entries
  <2> QED
    BY <1>2, <2>1 DEF Owned
<1>5. CASE Refused(r)
  <2>1. UNCHANGED <<pending, thrown, held, replies>>
    BY <1>5 DEF Refused, tableVars, linkVars
  <2>2. /\ HandlerInv'
        /\ Carried
        /\ \A q \in Requests \ {r} : Spared(q)
    <3>1. {r} \in SUBSET Requests /\ \A q \in {r} : pc[q] # "idle"
      BY <1>2
    <3>2. Again({r}) \/ Over({r})
      BY <1>5 DEF Refused
    <3> QED
      BY <1>1, <3>1, <3>2, AgainHandlers, OverHandlers
  <2>3. Entries'
    <3>1. ASSUME NEW k \in Keys, pending'[k] # NoRequest
          PROVE  Owned(k)'
      <4>1. pending'[k] = pending[k] /\ pending[k] # NoRequest /\ thrown' = thrown
        BY <2>1, <3>1
      <4>2. pending[k] \in Requests => Spared(pending[k])
        BY <1>4, <2>2, <4>1
      <4>3. pending[k] = Nobody => k \in thrown'
        BY <1>1, <4>1, NoRequestAssumption DEF Entries, Owned
      <4> QED
        BY <4>1, <4>2, <4>3, OwnedStays
    <3> QED
      BY <3>1 DEF Entries
  <2>4. Covered'
    BY <1>1, <1>2, <2>1 DEF Covered, Waiting
  <2>5. HeldInv'
    BY <1>1, <2>1, <2>2, HeldKept
  <2>6. TableType' /\ LinkType'
    BY <1>1, <1>2, <2>1 DEF TableType, LinkType
  <2> QED
    BY <1>3, <2>2, <2>3, <2>4, <2>5, <2>6 DEF Inv, Types
<1>6. CASE Throws(r)
  <2>1. /\ state = "connected"
        /\ pending' = [pending EXCEPT ![session[r]] = Nobody]
        /\ thrown = {}
        /\ thrown' = {session[r]}
        /\ UNCHANGED <<held, replies>>
    BY <1>6 DEF Throws, linkVars
  <2>2. /\ HandlerInv'
        /\ Carried
        /\ \A q \in Requests \ {r} : Spared(q)
    <3>1. {r} \in SUBSET Requests
      OBVIOUS
    <3> QED
      BY <1>1, <1>6, <3>1, OverHandlers DEF Throws
  <2>3. session[r] \in Keys
    BY <1>1 DEF HandlerInv
  <2>4. TableType' /\ LinkType'
    BY <1>1, <1>2, <2>1, <2>3 DEF TableType, LinkType
  <2>5. Entries'
    <3>1. ASSUME NEW k \in Keys, pending'[k] # NoRequest
          PROVE  Owned(k)'
      <4>1. CASE k = session[r]
        BY <1>1, <2>1, <4>1 DEF Owned, TableType
      <4>2. CASE k # session[r]
        <5>1. pending'[k] = pending[k] /\ pending[k] # NoRequest /\ pending[k] # r
          BY <1>1, <1>4, <2>1, <3>1, <4>2 DEF TableType
        <5>2. Owned(k) /\ pending[k] # Nobody
          BY <1>1, <2>1, <5>1, NoRequestAssumption DEF Entries, Owned
        <5> QED
          BY <2>2, <5>1, <5>2, OwnedStays DEF Owned
      <4> QED
        BY <4>1, <4>2
    <3> QED
      BY <3>1 DEF Entries
  <2>6. Covered'
    BY <1>1, <1>2, <2>1 DEF Covered
  <2>7. HeldInv'
    BY <1>1, <2>1, <2>2, HeldKept
  <2> QED
    BY <1>3, <2>2, <2>4, <2>5, <2>6, <2>7 DEF Inv, Types
<1>7. CASE Requested(r)
  <2>1. /\ state = "connected"
        /\ pending[session[r]] = NoRequest
        /\ pending' = [pending EXCEPT ![session[r]] = r]
        /\ pc' = [pc EXCEPT ![r] = "waiting"]
        /\ UNCHANGED <<thrown, chat, session, attempt>>
    BY <1>7 DEF Requested
  <2>2. session[r] \in Keys /\ chat[r] \in Chats /\ attempt[r] \in 1..MaxAttempts
    BY <1>1, <1>2 DEF HandlerInv
  <2>3. HandlerInv'
    BY <1>1, <2>1, <2>2 DEF HandlerInv, States
  <2>4. TableType'
    BY <1>1, <1>2, <2>1 DEF TableType
  <2>5. \/ held' = held
        \/ held' = [held EXCEPT ![ws] =
                      {[request |-> r, attempt |-> attempt[r], key |-> session[r]]}]
    BY <1>7 DEF Requested, linkVars
  <2>6. replies' \in [Sockets -> Seq(Replies)]
    <3>1. CASE UNCHANGED replies
      BY <1>1, <3>1 DEF LinkType
    <3>2. CASE Taken(ws, session[r], chat[r])
      <4>1. PICK t \in Keys : replies' = [replies EXCEPT ![ws] =
                                 Append(@, [session |-> t, chat |-> chat[r]])]
        BY <3>2 DEF Taken
      <4>2. [session |-> t, chat |-> chat[r]] \in Replies
        BY <2>2 DEF Replies
      <4>3. ASSUME NEW c \in Sockets
            PROVE  Append(replies[c], [session |-> t, chat |-> chat[r]]) \in Seq(Replies)
        BY <1>1, <4>2, <4>3 DEF LinkType
      <4> QED
        BY <1>1, <4>1, <4>3 DEF LinkType
    <3> QED
      BY <1>7, <3>1, <3>2 DEF Requested, linkVars
  <2>7. LinkType'
    <3>1. [request |-> r, attempt |-> attempt[r], key |-> session[r]] \in Sends
      BY <2>2 DEF Sends
    <3> QED
      BY <1>1, <2>5, <2>6, <3>1 DEF LinkType
  <2>8. Entries'
    <3>1. ASSUME NEW k \in Keys, pending'[k] # NoRequest
          PROVE  Owned(k)'
      <4>1. CASE k = session[r]
        BY <1>1, <2>1, <4>1 DEF Owned, TableType, HandlerInv
      <4>2. CASE k # session[r]
        <5>1. pending'[k] = pending[k] /\ pending[k] # NoRequest /\ pending[k] # r
          BY <1>1, <1>4, <2>1, <3>1, <4>2 DEF TableType
        <5>2. pending[k] \in Requests => Spared(pending[k])
          BY <1>1, <2>1, <5>1 DEF Spared, HandlerInv
        <5>3. pending[k] = Nobody => k \in thrown'
          BY <1>1, <2>1, <5>1, NoRequestAssumption DEF Entries, Owned
        <5> QED
          BY <5>1, <5>2, <5>3, OwnedStays
      <4> QED
        BY <4>1, <4>2
    <3> QED
      BY <3>1 DEF Entries
  <2>9. Covered'
    BY <1>1, <1>2, <2>1 DEF Covered
  <2>10. HeldInv'
    <3> SUFFICES ASSUME NEW c \in Sockets, NEW u \in held'[c], pc'[u.request] # "idle"
                 PROVE  u.key = session'[u.request]
      BY DEF HeldInv
    <3>1. CASE u \in held[c]
      <4>1. u.request \in Requests
        BY <1>1, <3>1 DEF LinkType, Sends
      <4>2. pc[u.request] # "idle"
        BY <1>1, <1>2, <2>1, <4>1 DEF HandlerInv
      <4> QED
        BY <1>1, <2>1, <3>1, <4>2 DEF HeldInv
    <3>2. CASE u = [request |-> r, attempt |-> attempt[r], key |-> session[r]]
      BY <2>1, <3>2
    <3>3. u \in held[c] \/ u = [request |-> r, attempt |-> attempt[r], key |-> session[r]]
      <4>1. held \in [Sockets -> SUBSET Sends]
        BY <1>1 DEF LinkType
      <4> QED
        BY <2>5, <4>1
    <3> QED
      BY <3>1, <3>2, <3>3
  <2> QED
    BY <1>3, <2>3, <2>4, <2>7, <2>8, <2>9, <2>10 DEF Inv, Types
<1> QED
  BY <1>5, <1>6, <1>7 DEF Send

\* The first message of a queue is one that was sent.
LEMMA HeadTail ==
  ASSUME NEW S, NEW q \in Seq(S), q # <<>>
  PROVE  Head(q) \in S /\ Tail(q) \in Seq(S)
  OBVIOUS

\* An entry that goes together with its handler leaves the others as they were.
LEMMA EntryTaken ==
  ASSUME Inv, NEW k \in Keys, pending' = [pending EXCEPT ![k] = NoRequest],
         thrown \ {k} \subseteq thrown',
         NEW rs \in SUBSET Requests, Over(rs),
         \A r \in rs : pc[r] = "waiting" /\ session[r] = k,
         UNCHANGED <<clientVars, held>>
  PROVE  SocketsTypeOK' /\ HandlerInv' /\ Entries' /\ Covered' /\ HeldInv'
<1>1. SocketsTypeOK /\ HandlerInv /\ TableType /\ LinkType /\ HeldInv /\ Covered /\ Entries
  BY DEF Inv, Types
<1>2. HandlerInv' /\ Carried /\ \A q \in Requests \ rs : Spared(q)
  BY <1>1, OverHandlers
<1>3. SocketsTypeOK'
  BY <1>1 DEF SocketsTypeOK, clientVars, socketVars, reconnectVars
<1>4. Entries'
  <2>1. ASSUME NEW j \in Keys, pending'[j] # NoRequest
        PROVE  Owned(j)'
    <3>1. j # k /\ pending'[j] = pending[j] /\ pending[j] # NoRequest
      BY <1>1, <2>1 DEF TableType
    <3>2. Owned(j)
      BY <1>1, <3>1 DEF Entries
    <3>3. pending[j] \in Requests => Spared(pending[j])
      BY <1>2, <3>1, <3>2, NoRequestAssumption DEF Owned
    <3>4. pending[j] = Nobody => j \in thrown'
      BY <3>1, <3>2, NoRequestAssumption DEF Owned
    <3> QED
      BY <3>1, <3>3, <3>4, OwnedStays
  <2> QED
    BY <2>1 DEF Entries
<1>5. Covered'
  <2>1. Waiting' \subseteq Waiting
    BY <1>1 DEF Waiting, TableType
  <2> QED
    BY <1>1, <2>1, CoverKept DEF clientVars, socketVars
<1>6. HeldInv'
  BY <1>1, <1>2, HeldKept
<1> QED
  BY <1>2, <1>3, <1>4, <1>5, <1>6

\* A reply settles at most the entry it is given to.
LEMMA ReplyInv ==
  ASSUME Inv, NEW c \in Sockets, Answered(c) \/ Failed(c)
  PROVE  Inv'
<1> DEFINE s == Head(replies[c]).session
<1>1. HandlerInv /\ TableType /\ LinkType /\ Entries
  BY DEF Inv, Types
<1>2. replies[c] \in Seq(Replies) /\ replies[c] # <<>>
  BY <1>1 DEF LinkType, Answered, Failed
<1>3. s \in Keys /\ Tail(replies[c]) \in Seq(Replies)
  <2>1. Head(replies[c]) \in Replies /\ Tail(replies[c]) \in Seq(Replies)
    BY <1>2, HeadTail
  <2> QED
    BY <2>1 DEF Replies
<1>4. replies' = [replies EXCEPT ![c] = Tail(@)] /\ UNCHANGED <<clientVars, held>>
  BY DEF Answered, Failed
<1>5. LinkType'
  BY <1>1, <1>3, <1>4 DEF LinkType
<1>6. ASSUME NEW k \in Keys, pending[k] # NoRequest, Settle(k, s)
      PROVE  Inv'
  <2> DEFINE rs == {pending[k]} \ {Nobody}
  <2>1. Owned(k)
    BY <1>1, <1>6 DEF Entries
  <2>2. rs \in SUBSET Requests /\ \A r \in rs : pc[r] = "waiting" /\ session[r] = k
    BY <2>1 DEF Owned
  <2>3. /\ pending' = [pending EXCEPT ![k] = NoRequest]
        /\ thrown' \in {thrown, thrown \ {k}}
        /\ Over(rs)
    BY <1>6 DEF Settle
  <2>4. SocketsTypeOK' /\ HandlerInv' /\ Entries' /\ Covered' /\ HeldInv'
    BY <1>4, <2>2, <2>3, EntryTaken
  <2>5. mapped' \in [Chats -> Keys]
    <3>1. mapped' = mapped \/ mapped' = [mapped EXCEPT ![chat[pending[k]]] = s]
      BY <1>6 DEF Settle
    <3> QED
      BY <1>1, <1>3, <3>1 DEF TableType
  <2>6. TableType'
    BY <1>1, <2>3, <2>5 DEF TableType
  <2> QED
    BY <1>5, <2>4, <2>6 DEF Inv, Types
<1>7. CASE Ignored
  <2>1. SocketsTypeOK' /\ HandlerInv' /\ Entries' /\ Covered' /\ HeldInv'
    BY <1>4, <1>7, TableUntouched DEF Ignored
  <2>2. TableType'
    BY <1>1, <1>7 DEF Ignored, TableType, tableVars
  <2> QED
    BY <1>5, <2>1, <2>2 DEF Inv, Types
<1>8. CASE pending[KeyOf(s)] # NoRequest /\ Settle(KeyOf(s), s)
  <2>1. KeyOf(s) \in Keys
    BY <1>3 DEF KeyOf, Keys
  <2> QED
    BY <1>6, <1>8, <2>1
<1>9. CASE \E k \in Waiting : Settle(k, s)
  BY <1>6, <1>9 DEF Waiting
<1> QED
  BY <1>7, <1>8, <1>9 DEF Answered, Failed

\* The timer of a request takes the entry of its key, its own or another's.
LEMMA TimeOutInv ==
  ASSUME Inv, NEW r \in Requests, TimeOut(r)
  PROVE  Inv'
<1>1. HandlerInv /\ TableType /\ LinkType
  BY DEF Inv, Types
<1>2. session[r] \in Keys /\ pc[r] = "waiting"
  BY <1>1 DEF TimeOut, HandlerInv
<1>3. /\ pending' = [pending EXCEPT ![session[r]] = NoRequest]
      /\ Over({r})
      /\ UNCHANGED <<clientVars, thrown, mapped, linkVars>>
  BY DEF TimeOut
<1>4. SocketsTypeOK' /\ HandlerInv' /\ Entries' /\ Covered' /\ HeldInv'
  <2>1. {r} \in SUBSET Requests /\ \A q \in {r} : pc[q] = "waiting" /\ session[q] = session[r]
    BY <1>2
  <2> QED
    BY <1>2, <1>3, <2>1, EntryTaken DEF linkVars
<1>5. TableType' /\ LinkType'
  BY <1>1, <1>3 DEF TableType, LinkType, linkVars
<1> QED
  BY <1>4, <1>5 DEF Inv, Types

\* So does the timer of a send that threw, for nobody.
LEMMA ThrownTimeOutInv ==
  ASSUME Inv, NEW k \in Keys, ThrownTimeOut(k)
  PROVE  Inv'
<1>1. SocketsTypeOK /\ HandlerInv /\ TableType /\ LinkType /\ HeldInv /\ Covered /\ Entries
  BY DEF Inv, Types
<1>2. /\ pending' = [pending EXCEPT ![k] = NoRequest]
      /\ thrown' = thrown \ {k}
      /\ UNCHANGED <<clientVars, mapped, handlerVars, linkVars>>
  BY DEF ThrownTimeOut
<1>3. HandlerInv'
  BY <1>1, <1>2 DEF HandlerInv, handlerVars
<1>4. SocketsTypeOK'
  BY <1>1, <1>2 DEF SocketsTypeOK, clientVars, socketVars, reconnectVars
<1>5. Entries'
  <2>1. ASSUME NEW j \in Keys, pending'[j] # NoRequest
        PROVE  Owned(j)'
    <3>1. j # k /\ pending'[j] = pending[j] /\ pending[j] # NoRequest
      BY <1>1, <1>2, <2>1 DEF TableType
    <3>2. Owned(j)
      BY <1>1, <3>1 DEF Entries
    <3> QED
      BY <1>2, <3>1, <3>2 DEF Owned, handlerVars
  <2> QED
    BY <2>1 DEF Entries
<1>6. Covered'
  <2>1. Waiting' \subseteq Waiting
    BY <1>1, <1>2 DEF Waiting, TableType
  <2> QED
    BY <1>1, <1>2, <2>1, CoverKept DEF clientVars, socketVars
<1>7. HeldInv'
  BY <1>1, <1>2 DEF HeldInv, handlerVars, linkVars
<1>8. TableType' /\ LinkType'
  BY <1>1, <1>2 DEF TableType, LinkType, linkVars
<1> QED
  BY <1>3, <1>4, <1>5, <1>6, <1>7, <1>8 DEF Inv, Types

\* A handler starts only when no callback refers to it any more.
LEMMA ArrivalInv ==
  ASSUME Inv, NEW r \in Requests, NEW c \in Chats, MessageArrives(r, c)
  PROVE  Inv'
<1>1. SocketsTypeOK /\ HandlerInv /\ TableType /\ LinkType /\ HeldInv /\ Covered /\ Entries
  BY DEF Inv, Types
<1>2. /\ pc[r] = "idle" /\ Unreferred(r)
      /\ pc' = [pc EXCEPT ![r] = "send"]
      /\ chat' = [chat EXCEPT ![r] = c]
      /\ session' = [session EXCEPT ![r] = mapped[c]]
      /\ UNCHANGED <<attempt, clientVars, tableVars, mapped, linkVars>>
  BY DEF MessageArrives
<1>3. HandlerInv'
  BY <1>1, <1>2 DEF HandlerInv, TableType, States
<1>4. SocketsTypeOK'
  BY <1>1, <1>2 DEF SocketsTypeOK, clientVars, socketVars, reconnectVars
<1>5. \A q \in Requests \ {r} : Spared(q)
  BY <1>1, <1>2 DEF HandlerInv, Spared
<1>6. Entries'
  <2>1. ASSUME NEW j \in Keys, pending'[j] # NoRequest
        PROVE  Owned(j)'
    <3>1. pending'[j] = pending[j] /\ pending[j] # NoRequest /\ thrown' = thrown
      BY <1>2, <2>1 DEF tableVars
    <3>2. Owned(j)
      BY <1>1, <3>1 DEF Entries
    <3>3. pending[j] \in Requests => Spared(pending[j])
      BY <1>2, <1>5, <3>1, <3>2, NoRequestAssumption DEF Owned
    <3>4. pending[j] = Nobody => j \in thrown'
      BY <3>1, <3>2, NoRequestAssumption DEF Owned
    <3> QED
      BY <3>1, <3>3, <3>4, OwnedStays
  <2> QED
    BY <2>1 DEF Entries
<1>7. Covered'
  BY <1>1, <1>2 DEF Covered, Waiting, tableVars, clientVars, socketVars
<1>8. HeldInv'
  <2> SUFFICES ASSUME NEW d \in Sockets, NEW u \in held[d], pc'[u.request] # "idle"
               PROVE  u.key = session'[u.request]
    BY <1>2 DEF HeldInv, linkVars
  <2>1. u.request \in Requests \ {r}
    BY <1>1, <1>2 DEF LinkType, Sends, Unreferred
  <2> QED
    BY <1>1, <1>5, <2>1 DEF HeldInv, Spared
<1>9. TableType' /\ LinkType'
  BY <1>1, <1>2 DEF TableType, LinkType, tableVars, linkVars
<1> QED
  BY <1>3, <1>4, <1>6, <1>7, <1>8, <1>9 DEF Inv, Types

\* The callbacks of sockets that are destroyed reject who waits under their keys
\* with its own frame, and take the entries of the others off.
LEMMA BreaksInv ==
  ASSUME Inv, NEW cs \in SUBSET Sockets, Breaks(cs)
  PROVE  Inv'
<1> DEFINE failed == UNION {held[c] : c \in cs}
           rs == {r \in Requests : pc[r] = "waiting" /\
                    \E u \in failed : u.request = r /\ u.attempt = attempt[r]}
<1>1. SocketsTypeOK /\ HandlerInv /\ TableType /\ LinkType /\ HeldInv /\ Covered /\ Entries
  BY DEF Inv, Types
<1>2. /\ phase' = Closing(cs)
      /\ pending' = [k \in Keys |-> IF \E u \in failed : u.key = k THEN NoRequest ELSE pending[k]]
      /\ Over(rs)
      /\ held' = [c \in Sockets |-> IF c \in cs THEN {} ELSE held[c]]
      /\ replies' = [c \in Sockets |-> IF c \in cs THEN <<>> ELSE replies[c]]
      /\ UNCHANGED <<state, ws, byTimer, reconnectVars, thrown, mapped>>
  BY DEF Breaks, Destroyed
<1>3. HandlerInv' /\ Carried /\ \A q \in Requests \ rs : Spared(q)
  <2>1. rs \in SUBSET Requests
    OBVIOUS
  <2> QED
    BY <1>1, <1>2, <2>1, OverHandlers
<1>4. SocketsTypeOK'
  BY <1>1, <1>2, ClosingPhases DEF SocketsTypeOK, reconnectVars
<1>5. Entries'
  <2>1. ASSUME NEW j \in Keys, pending'[j] # NoRequest
        PROVE  Owned(j)'
    <3>1. /\ ~\E u \in failed : u.key = j
          /\ pending'[j] = pending[j] /\ pending[j] # NoRequest
      BY <1>2, <2>1
    <3>2. Owned(j)
      BY <1>1, <3>1 DEF Entries
    <3>3. ASSUME pending[j] \in rs
          PROVE  FALSE
      <4>1. PICK u \in failed : u.request = pending[j]
        BY <3>3
      <4>2. u.key = session[pending[j]]
        BY <1>1, <3>3, <4>1 DEF HeldInv
      <4>3. session[pending[j]] = j
        BY <3>2, <3>3, NoRequestAssumption DEF Owned
      <4> QED
        BY <3>1, <4>2, <4>3
    <3>4. pending[j] \in Requests => Spared(pending[j])
      BY <1>3, <3>3
    <3>5. pending[j] = Nobody => j \in thrown'
      BY <1>2, <3>1, <3>2, NoRequestAssumption DEF Owned
    <3> QED
      BY <3>1, <3>4, <3>5, OwnedStays
  <2> QED
    BY <2>1 DEF Entries
<1>6. Covered'
  <2>1. Waiting' \subseteq Waiting
    BY <1>2 DEF Waiting
  <2> QED
    BY <1>1, <1>2, <2>1, ClosingPhases, CoverKept
<1>7. HeldInv'
  <2>1. \A c \in Sockets : held'[c] \subseteq held[c]
    BY <1>2
  <2> QED
    BY <1>1, <1>3, <2>1, HeldKept
<1>8. TableType'
  BY <1>1, <1>2 DEF TableType
<1>9. LinkType'
  BY <1>1, <1>2 DEF LinkType
<1> QED
  BY <1>3, <1>4, <1>5, <1>6, <1>7, <1>8, <1>9 DEF Inv, Types

\* A close event rejects every request there is.
LEMMA LinkLostInv ==
  ASSUME Inv, NEW c \in Sockets, LinkLost(c)
  PROVE  Inv'
<1> DEFINE rs == {pending[k] : k \in Waiting} \ {Nobody}
<1>1. SocketsTypeOK /\ HandlerInv /\ TableType /\ LinkType /\ HeldInv /\ Covered /\ Entries
  BY DEF Inv, Types
<1>2. /\ pending' = [k \in Keys |-> NoRequest]
      /\ thrown' \subseteq thrown
      /\ Again(rs)
      /\ UNCHANGED <<mapped, linkVars>>
  BY DEF LinkLost, RejectAllPending
<1>3. HandlerInv' /\ Carried
  <2>1. rs \in SUBSET Requests /\ \A r \in rs : pc[r] # "idle"
    BY <1>1 DEF Entries, Owned, Waiting
  <2> QED
    BY <1>1, <1>2, <2>1, AgainHandlers
<1>4. SocketsTypeOK' /\ state' = "connecting"
  BY <1>1, LossType DEF LinkLost
<1>5. Entries'
  BY <1>2 DEF Entries
<1>6. Covered'
  BY <1>2, <1>4 DEF Covered, Waiting
<1>7. HeldInv'
  BY <1>1, <1>2, <1>3, HeldKept DEF linkVars
<1>8. TableType' /\ LinkType'
  BY <1>1, <1>2 DEF TableType, LinkType, linkVars, Keys
<1> QED
  BY <1>3, <1>4, <1>5, <1>6, <1>7, <1>8 DEF Inv, Types

\* Sockets that are opened leave the requests alone.
LEMMA ReconnectInv ==
  ASSUME Inv, Redials \/ \E c \in Sockets : Reconnects(c)
  PROVE  Inv'
<1>1. SocketsTypeOK /\ HandlerInv /\ TableType /\ LinkType /\ HeldInv /\ Covered /\ Entries
  BY DEF Inv, Types
<1>2. UNCHANGED <<tableVars, mapped, handlerVars, linkVars>>
  BY DEF Redials, Reconnects
<1>3. /\ SocketsTypeOK'
      /\ \A t \in Sockets : phase[t] \in {"open", "closing"} => phase'[t] = phase[t]
      /\ state' = "connected" => \E t \in Sockets : phase'[t] = "open"
  <2>1. CASE Redials
    <3>1. PICK t \in Sockets : NewSocket(t, TRUE)
      BY <2>1 DEF Redials
    <3>2. reconnectTimer' \in BOOLEAN /\ orphans' \in 0..MaxOrphans
      BY <1>1, <2>1, TimerDueType DEF Redials
    <3> QED
      BY <1>1, <3>1, <3>2, NewSocketType
  <2>2. ASSUME NEW c \in Sockets, Reconnects(c)
        PROVE  /\ SocketsTypeOK'
               /\ \A t \in Sockets : phase[t] \in {"open", "closing"} => phase'[t] = phase[t]
               /\ \E t \in Sockets : phase'[t] = "open"
    BY <1>1, <2>2, OpenedType DEF Reconnects
  <2> QED
    BY <2>1, <2>2
<1>4. HandlerInv' /\ TableType' /\ LinkType'
  BY <1>1, <1>2 DEF HandlerInv, TableType, LinkType, tableVars, handlerVars, linkVars
<1>5. Entries'
  BY <1>1, <1>2 DEF Entries, Owned, tableVars, handlerVars
<1>6. Covered'
  BY <1>1, <1>2, <1>3 DEF Covered, Waiting, tableVars
<1>7. HeldInv'
  BY <1>1, <1>2 DEF HeldInv, handlerVars, linkVars
<1> QED
  BY <1>3, <1>4, <1>5, <1>6, <1>7 DEF Inv, Types

\* Every step of the adapters, the network and the orchestrator keeps it.
LEMMA NextInv == Inv /\ [Next]_vars => Inv'
<1> SUFFICES ASSUME Inv, [Next]_vars
             PROVE  Inv'
  OBVIOUS
<1>1. TableType /\ LinkType
  BY DEF Inv, Types
<1>2. ASSUME NEW cs \in SUBSET Chats, Forget(cs)
      PROVE  Inv'
  <2>1. SocketsTypeOK' /\ HandlerInv' /\ Entries' /\ Covered' /\ HeldInv'
    BY <1>2, TableUntouched DEF Forget, linkVars
  <2>2. TableType' /\ LinkType'
    BY <1>1, <1>2 DEF Forget, TableType, LinkType, tableVars, linkVars, Keys
  <2> QED
    BY <2>1, <2>2 DEF Inv, Types
<1>3. CASE UNCHANGED vars
  <2>1. SocketsTypeOK' /\ HandlerInv' /\ Entries' /\ Covered' /\ HeldInv'
    BY <1>3, TableUntouched DEF vars, linkVars
  <2>2. TableType' /\ LinkType'
    BY <1>1, <1>3 DEF vars, TableType, LinkType, tableVars, linkVars
  <2> QED
    BY <2>1, <2>2 DEF Inv, Types
<1> QED
  BY <1>2, <1>3, SendInv, ReplyInv, TimeOutInv, ThrownTimeOutInv, ArrivalInv, BreaksInv,
     LinkLostInv, ReconnectInv DEF Next

\* The invariant of every behaviour.
LEMMA AlwaysInv == Spec => []Inv
  BY InitInv, NextInv, PTL DEF Spec

\* Every reachable state is well typed; withRetry never makes an attempt past
\* maxAttempts.
THEOREM TypeCorrect == Spec => []TypeOK
<1>1. Inv => TypeOK
  BY DEF Inv, Types, TypeOK, TableType, HandlerInv, LinkType, States
<1> QED
  BY <1>1, AlwaysInv, PTL

\* The request table is true of the handlers in every reachable state: no answer,
\* timer, late callback, send that throws, close event, retry or /reset, over any
\* number of sockets and in any order, leaves an entry that belongs to neither a
\* handler waiting under its key nor a timer that will take it off, or one that no
\* close event is going to reject (sendMessage, _handleMessage and
\* _rejectAllPending of orchestrator-client.ts).
THEOREM TableAgrees == Spec => []EntriesOwned
<1>1. Inv => EntriesOwned
  BY DEF Inv, Entries, Covered, EntriesOwned, Waiting
<1> QED
  BY <1>1, AlwaysInv, PTL

-----------------------------------------------------------------------------
(* Termination.                                                            *)

\* What a handler may still do: attempts, and the send of this one.
AttemptsLeft(r) == MaxAttempts - attempt[r]
SendsLeft(r) == IF pc[r] \in {"send", "backoff"} THEN 1 ELSE 0

\* The handler is over, or this measure gets smaller, in the lexicographic order.
WindsDown(r) ==
  \/ pc'[r] = "idle"
  \/ AttemptsLeft(r)' < AttemptsLeft(r)
  \/ AttemptsLeft(r)' = AttemptsLeft(r) /\ SendsLeft(r)' < SendsLeft(r)

StandsStill(r) == pc'[r] = pc[r] /\ attempt'[r] = attempt[r]

\* Retries over sockets that break, are lost with everything on them and come back,
\* come to an end: whatever happens to a handler brings it nearer to its reply or
\* error, and its own next step always does; no answer, timeout, late callback, lost
\* connection or restart, of this request or another, gives it back what it has used
\* (withRetry, utils/retry.ts:24, and _rejectAllPending, orchestrator-client.ts).
HandlersWindDown ==
  [][\A r \in Requests : pc[r] # "idle" =>
       /\ AttemptsLeft(r) \in Nat
       /\ StandsStill(r) \/ WindsDown(r)
       /\ Send(r) \/ TimeOut(r) => WindsDown(r)]_vars

\* The handlers of rs are over.
LEMMA OverWindsDown ==
  ASSUME HandlerInv, NEW rs \in SUBSET Requests, Over(rs), NEW r \in Requests
  PROVE  /\ r \in rs => WindsDown(r)
         /\ r \notin rs => StandsStill(r)
  BY DEF HandlerInv, Over, WindsDown, StandsStill

\* The requests of rs back off or are over.
LEMMA AgainWindsDown ==
  ASSUME HandlerInv, NEW rs \in SUBSET Requests, Again(rs), NEW r \in Requests
  PROVE  /\ r \in rs => WindsDown(r)
         /\ r \notin rs => StandsStill(r)
<1> DEFINE last == {q \in rs : attempt[q] = MaxAttempts}
<1>1. /\ pc'[r] = IF r \in last THEN "idle" ELSE IF r \in rs THEN "backoff" ELSE pc[r]
      /\ attempt'[r] = IF r \in last THEN 1
                       ELSE IF r \in rs THEN attempt[r] + 1 ELSE attempt[r]
  BY DEF Again
<1>2. CASE r \in last
  BY <1>1, <1>2 DEF WindsDown
<1>3. CASE r \in rs \ last
  <2>1. attempt[r] \in Nat /\ attempt'[r] = attempt[r] + 1
    BY <1>1, <1>3, AttemptsAssumption DEF HandlerInv
  <2>2. AttemptsLeft(r)' < AttemptsLeft(r)
    BY <2>1, AttemptsAssumption DEF AttemptsLeft
  <2> QED
    BY <1>3, <2>2 DEF WindsDown
<1>4. CASE r \notin rs
  BY <1>1, <1>4 DEF StandsStill
<1> QED
  BY <1>2, <1>3, <1>4

\* A handler's own step.
LEMMA HandlerSteps ==
  ASSUME HandlerInv, NEW q \in Requests, Send(q) \/ TimeOut(q), NEW r \in Requests
  PROVE  /\ r = q => WindsDown(r)
         /\ r # q => StandsStill(r)
<1>1. {q} \in SUBSET Requests
  OBVIOUS
<1>2. CASE Again({q})
  BY <1>1, <1>2, AgainWindsDown
<1>3. CASE Over({q})
  BY <1>1, <1>3, OverWindsDown
<1>4. CASE Requested(q) /\ Send(q)
  <2>1. /\ pc' = [pc EXCEPT ![q] = "waiting"]
        /\ UNCHANGED attempt
        /\ pc[q] \in {"send", "backoff"}
    BY <1>4 DEF Requested, Send
  <2>2. pc'[q] = "waiting" /\ (r # q => pc'[r] = pc[r])
    BY <2>1 DEF HandlerInv
  <2>3. SendsLeft(q)' < SendsLeft(q)
    BY <2>1, <2>2 DEF SendsLeft
  <2>4. AttemptsLeft(q)' = AttemptsLeft(q)
    BY <2>1 DEF AttemptsLeft
  <2> QED
    BY <2>1, <2>2, <2>3, <2>4 DEF WindsDown, StandsStill
<1> QED
  BY <1>2, <1>3, <1>4 DEF Send, Refused, Throws, TimeOut

\* What others do to a handler at work.
LEMMA OthersStep ==
  ASSUME Inv, Next, NEW r \in Requests, pc[r] # "idle",
         ~(\E q \in Requests : Send(q) \/ TimeOut(q))
  PROVE  StandsStill(r) \/ WindsDown(r)
<1>1. HandlerInv /\ TableType
  BY DEF Inv, Types
<1>2. ASSUME NEW rs \in SUBSET Requests, Over(rs) \/ Again(rs)
      PROVE  StandsStill(r) \/ WindsDown(r)
  BY <1>1, <1>2, OverWindsDown, AgainWindsDown
<1>3. CASE \E q \in Requests, c \in Chats : MessageArrives(q, c)
  <2>1. PICK q \in Requests, c \in Chats : MessageArrives(q, c)
    BY <1>3
  <2>2. r # q
    BY <2>1 DEF MessageArrives
  <2> QED
    BY <1>1, <2>1, <2>2 DEF MessageArrives, HandlerInv, StandsStill
<1>4. CASE UNCHANGED handlerVars
  BY <1>4 DEF handlerVars, StandsStill
<1>5. CASE \E c \in Sockets : Answered(c) \/ Failed(c)
  <2>1. ASSUME NEW k \in Keys, NEW s, pending[k] # NoRequest, Settle(k, s)
        PROVE  StandsStill(r) \/ WindsDown(r)
    <3>1. {pending[k]} \ {Nobody} \in SUBSET Requests
      BY <1>1, <2>1 DEF TableType
    <3> QED
      BY <1>2, <2>1, <3>1 DEF Settle
  <2>2. PICK c \in Sockets : Answered(c) \/ Failed(c)
    BY <1>5
  <2>3. PICK s : s = Head(replies[c]).session
    OBVIOUS
  <2>4. CASE Answered(c)
    <3>1. Ignored \/ (pending[KeyOf(s)] # NoRequest /\ Settle(KeyOf(s), s))
      BY <2>3, <2>4 DEF Answered
    <3>2. KeyOf(s) \in Keys
      <4>1. Head(replies[c]) \in Replies
        BY <2>4, HeadTail DEF Answered, Inv, Types, LinkType
      <4> QED
        BY <2>3, <4>1 DEF Replies, KeyOf, Keys
    <3> QED
      BY <1>4, <2>1, <3>1, <3>2 DEF Ignored
  <2>5. CASE Failed(c)
    BY <1>4, <2>1, <2>3, <2>5 DEF Failed, Ignored, Waiting
  <2> QED
    BY <2>2, <2>4, <2>5
<1>6. CASE \E c \in Sockets : LinkLost(c)
  <2>1. {pending[k] : k \in Waiting} \ {Nobody} \in SUBSET Requests
    BY <1>1 DEF TableType, Waiting
  <2> QED
    BY <1>2, <1>6, <2>1 DEF LinkLost, RejectAllPending
<1>7. CASE \E cs \in SUBSET Sockets : Breaks(cs)
  BY <1>2, <1>7 DEF Breaks, Destroyed
<1>8. CASE \/ \E k \in Keys : ThrownTimeOut(k)
           \/ \E cs \in SUBSET Chats : Forget(cs)
           \/ Redials
           \/ \E c \in Sockets : Reconnects(c)
  BY <1>4, <1>8 DEF ThrownTimeOut, Forget, Redials, Reconnects
<1> QED
  BY <1>3, <1>5, <1>6, <1>7, <1>8 DEF Next

\* A message that a handler is at work on cannot be retried for ever.
THEOREM HandlersAlwaysWindDown == Spec => HandlersWindDown
<1>1. ASSUME Inv, Next, NEW r \in Requests, pc[r] # "idle"
      PROVE  /\ AttemptsLeft(r) \in Nat
             /\ StandsStill(r) \/ WindsDown(r)
             /\ Send(r) \/ TimeOut(r) => WindsDown(r)
  <2>1. HandlerInv
    BY <1>1 DEF Inv, Types
  <2>2. AttemptsLeft(r) \in Nat
    BY <1>1, <2>1, AttemptsAssumption DEF HandlerInv, AttemptsLeft
  <2>3. Send(r) \/ TimeOut(r) => WindsDown(r)
    BY <2>1, HandlerSteps
  <2>4. CASE \E q \in Requests : Send(q) \/ TimeOut(q)
    BY <2>1, <2>2, <2>3, <2>4, HandlerSteps
  <2>5. CASE ~(\E q \in Requests : Send(q) \/ TimeOut(q))
    BY <1>1, <2>2, <2>3, <2>5, OthersStep
  <2> QED
    BY <2>4, <2>5
<1>2. Inv /\ [Next]_vars =>
        [\A r \in Requests : pc[r] # "idle" =>
           /\ AttemptsLeft(r) \in Nat
           /\ StandsStill(r) \/ WindsDown(r)
           /\ Send(r) \/ TimeOut(r) => WindsDown(r)]_vars
  BY <1>1
<1> QED
  BY <1>2, AlwaysInv, PTL DEF Spec, HandlersWindDown

-----------------------------------------------------------------------------
(* The connection.                                                         *)

\* What the client promises of its reconnects and its heartbeat; with the types
\* it is inductive, because every path to 'connecting' leaves something behind
\* that goes on, and every path to 'connected' starts an interval.
Kept == ReconnectGoesOn /\ ConnectedIsWatched

ConnectionInv == ConnectionTypeOK /\ Kept

\* The program starts well typed and without a connection.
LEMMA ConnectionInitInv == ConnectionInit => ConnectionInv
<1> SUFFICES ASSUME ConnectionInit
             PROVE  ConnectionInv
  OBVIOUS
<1>1. ConnectionTypeOK
  <2>1. pings \in [Sockets -> 0..MaxPings]
    BY PingsAssumption DEF ConnectionInit
  <2>2. phase \in [Sockets -> Phases]
    BY DEF ConnectionInit, Phases
  <2>3. reconnectTimer \in BOOLEAN
    BY DEF ConnectionInit
  <2>4. orphans \in 0..MaxOrphans
    BY OrphansAssumption DEF ConnectionInit
  <2>5. SocketsTypeOK
    BY <2>2, <2>3, <2>4 DEF ConnectionInit, SocketsTypeOK
  <2> QED
    BY <2>1, <2>5 DEF ConnectionInit, ConnectionTypeOK
<1>2. Kept
  BY DEF ConnectionInit, Kept, ReconnectGoesOn, ConnectedIsWatched
<1> QED
  BY <1>1, <1>2 DEF ConnectionInv

\* A socket that is opened is an attempt under way (_openSocket).
LEMMA OpenSocketInv ==
  ASSUME ConnectionTypeOK, NEW timer \in BOOLEAN, OpenSocket(timer),
         reconnectTimer' \in BOOLEAN, orphans' \in 0..MaxOrphans,
         UNCHANGED heartbeatVars
  PROVE  ConnectionInv'
<1>1. PICK s \in Sockets :
        /\ NewSocket(s, timer)
        /\ silent' = silent \ {s}
        /\ pings' = [pings EXCEPT ![s] = 0]
  BY DEF OpenSocket
<1>2. SocketsTypeOK' /\ state' = "connecting" /\ phase'[s] = "opening"
  BY <1>1, NewSocketType DEF ConnectionTypeOK
<1>3. ConnectionTypeOK'
  BY <1>1, <1>2, PingsAssumption DEF ConnectionTypeOK, heartbeatVars
<1>4. Opening' # {}
  BY <1>2 DEF Opening
<1> QED
  BY <1>2, <1>3, <1>4 DEF ConnectionInv, Kept, ReconnectGoesOn, ConnectedIsWatched

\* _stopHeartbeat clears what its fields refer to.
LEMMA StopHeartbeatType ==
  ASSUME ConnectionTypeOK, StopHeartbeat
  PROVE  /\ heartbeatTimer' \in Sockets \cup {None}
         /\ ticking' \subseteq Sockets
         /\ pongTimer' \in Sockets \cup {None}
         /\ armed' \subseteq Sockets
  BY DEF ConnectionTypeOK, StopHeartbeat

\* The close of a socket, whichever it is, leaves a reconnect timer.
LEMMA LossInv ==
  ASSUME ConnectionTypeOK, NEW s \in Sockets, NotOpened(s) \/ Closed(s),
         StopHeartbeat, UNCHANGED peerVars
  PROVE  ConnectionInv'
<1>1. SocketsTypeOK' /\ state' = "connecting" /\ reconnectTimer' = TRUE
  BY LossType DEF ConnectionTypeOK
<1>2. ConnectionTypeOK'
  BY <1>1, StopHeartbeatType DEF ConnectionTypeOK, peerVars
<1> QED
  BY <1>1, <1>2 DEF ConnectionInv, Kept, ReconnectGoesOn, ConnectedIsWatched

\* The events that leave the state, the heartbeat's fields and every attempt to
\* connect as they are keep the promise.
LEMMA NothingLost ==
  ASSUME ConnectionInv, ConnectionTypeOK',
         UNCHANGED <<state, reconnectVars, heartbeatTimer, ticking>>,
         \A t \in Sockets : phase[t] \in {"opening", "aborting"} =>
           phase'[t] \in {"opening", "aborting"}
  PROVE  ConnectionInv'
<1>1. Opening \subseteq Opening'
  BY DEF Opening
<1> QED
  BY <1>1 DEF ConnectionInv, Kept, ReconnectGoesOn, ConnectedIsWatched, reconnectVars

\* Every step of the client and of the network keeps the invariant.
LEMMA ConnectionNextInv == ConnectionInv /\ [ConnectionNext]_connectionVars => ConnectionInv'
<1> SUFFICES ASSUME ConnectionInv, [ConnectionNext]_connectionVars
             PROVE  ConnectionInv'
  OBVIOUS
<1> USE PingsAssumption
<1>0. ConnectionTypeOK /\ SocketsTypeOK
  BY DEF ConnectionInv, ConnectionTypeOK
<1>1. CASE Connect
  <2>1. reconnectTimer' \in BOOLEAN /\ orphans' \in 0..MaxOrphans
    BY <1>0, <1>1 DEF Connect, SocketsTypeOK, reconnectVars
  <2> QED
    BY <1>0, <1>1, <2>1, OpenSocketInv DEF Connect
<1>2. CASE Disconnect
  <2>1. state' = "disconnected" /\ reconnectTimer' \in BOOLEAN
    BY <1>2 DEF Disconnect
  <2>2. phase' \in [Sockets -> Phases]
    BY <1>0, <1>2, ClosingPhases DEF Disconnect
  <2>3. SocketsTypeOK'
    BY <1>0, <1>2, <2>1, <2>2 DEF Disconnect, SocketsTypeOK
  <2>4. ConnectionTypeOK'
    BY <1>0, <1>2, <2>3, StopHeartbeatType DEF Disconnect, ConnectionTypeOK, peerVars
  <2> QED
    BY <2>1, <2>4 DEF ConnectionInv, Kept, ReconnectGoesOn, ConnectedIsWatched
<1>3. CASE TimerFires
  <2>1. reconnectTimer' \in BOOLEAN /\ orphans' \in 0..MaxOrphans
    BY <1>0, <1>3, TimerDueType DEF TimerFires
  <2> QED
    BY <1>0, <1>3, <2>1, OpenSocketInv DEF TimerFires
<1>4. ASSUME NEW s \in Sockets, Opens(s)
      PROVE  ConnectionInv'
  <2>1. SocketsTypeOK' /\ state' = "connected"
    BY <1>0, <1>4, OpenedType DEF Opens
  <2>2. ConnectionTypeOK'
    BY <1>0, <1>4, <2>1 DEF Opens, ConnectionTypeOK, peerVars
  <2>3. heartbeatTimer' \in ticking'
    BY <1>4 DEF Opens
  <2> QED
    BY <2>1, <2>2, <2>3 DEF ConnectionInv, Kept, ReconnectGoesOn, ConnectedIsWatched
<1>5. ASSUME NEW s \in Sockets, OpenFails(s)
      PROVE  ConnectionInv'
  BY <1>0, <1>5, LossInv DEF OpenFails
<1>6. ASSUME NEW s \in Sockets, Closes(s)
      PROVE  ConnectionInv'
  BY <1>0, <1>6, LossInv DEF Closes
<1>7. ASSUME NEW i \in Sockets, Tick(i)
      PROVE  ConnectionInv'
  <2>1. ConnectionTypeOK'
    BY <1>0, <1>7 DEF Tick, ConnectionTypeOK, SocketsTypeOK, reconnectVars
  <2> QED
    BY <1>7, <2>1, NothingLost DEF Tick
<1>8. ASSUME NEW s \in Sockets, Pong(s)
      PROVE  ConnectionInv'
  <2>1. ConnectionTypeOK'
    BY <1>0, <1>8 DEF Pong, ConnectionTypeOK, SocketsTypeOK, reconnectVars
  <2> QED
    BY <1>8, <2>1, NothingLost DEF Pong
<1>9. ASSUME NEW i \in Sockets, PongTimeout(i)
      PROVE  ConnectionInv'
  <2>1. /\ phase' \in [Sockets -> Phases]
        /\ \A t \in Sockets : phase[t] \in {"opening", "aborting"} =>
             phase'[t] \in {"opening", "aborting"}
    BY <1>0, <1>9, ClosingPhases DEF PongTimeout, ConnectionTypeOK
  <2>2. ConnectionTypeOK'
    BY <1>0, <1>9, <2>1 DEF PongTimeout, ConnectionTypeOK, SocketsTypeOK, reconnectVars
  <2> QED
    BY <1>9, <2>1, <2>2, NothingLost DEF PongTimeout
<1>10. ASSUME NEW s \in Sockets, Dies(s)
       PROVE  ConnectionInv'
  <2>1. ConnectionTypeOK'
    BY <1>0, <1>10 DEF Dies, ConnectionTypeOK, SocketsTypeOK, reconnectVars, heartbeatVars
  <2> QED
    BY <1>10, <2>1, NothingLost DEF Dies, heartbeatVars
<1>11. CASE UNCHANGED connectionVars
  <2>1. ConnectionTypeOK'
    BY <1>0, <1>11 DEF connectionVars, ConnectionTypeOK, SocketsTypeOK, socketVars, peerVars, reconnectVars, heartbeatVars
  <2> QED
    BY <1>11, <2>1, NothingLost DEF connectionVars, socketVars, heartbeatVars
<1> QED
  BY <1>1, <1>2, <1>3, <1>4, <1>5, <1>6, <1>7, <1>8, <1>9, <1>10, <1>11 DEF ConnectionNext, Event

\* The invariant of every behaviour.
LEMMA ConnectionAlwaysInv == ConnectionSpec => []ConnectionInv
  BY ConnectionInitInv, ConnectionNextInv, PTL DEF ConnectionSpec

\* The fields of the client keep their types, for any number of sockets.
THEOREM ConnectionTypeCorrect == ConnectionSpec => []ConnectionTypeOK
<1>1. ConnectionInv => ConnectionTypeOK
  BY DEF ConnectionInv
<1> QED
  BY <1>1, ConnectionAlwaysInv, PTL

\* A client that says it is reconnecting has an attempt under way or a timer
\* that will make one, however attempts fail, sockets close late and timers
\* outlive their fields (_scheduleReconnect and the handlers of 'close').
THEOREM ReconnectAlwaysGoesOn == ConnectionSpec => []ReconnectGoesOn
<1>1. ConnectionInv => ReconnectGoesOn
  BY DEF ConnectionInv, Kept
<1> QED
  BY <1>1, ConnectionAlwaysInv, PTL

\* A client that says it is connected has a heartbeat it can stop, although the
\* close of any other socket stops the heartbeat of the one in use.
THEOREM ConnectedAlwaysWatched == ConnectionSpec => []ConnectedIsWatched
<1>1. ConnectionInv => ConnectedIsWatched
  BY DEF ConnectionInv, Kept
<1> QED
  BY <1>1, ConnectionAlwaysInv, PTL
=============================================================================
