--------------------------- MODULE RequestPath_proofs ---------------------------
(***************************************************************************)
(* Proofs about RequestPath, for any number of tasks and sessions and any  *)
(* timeout, limit and buffer bound; and about the other half of the        *)
(* heartbeat that evicts its sessions, the reports (Heartbeat).            *)
(***************************************************************************)
EXTENDS RequestPath, Heartbeat, SequenceTheorems, TLAPS

\* From "limit" to the end of the turn a task has resolved its session.
SessionResolved ==
  \A t \in Tasks :
    pc[t] \in {"limit", "lookup", "lock", "queued", "turn", "persist"} =>
      sid[t] \in Sessions

TypeInv == TypeOK /\ SessionResolved

-----------------------------------------------------------------------------
(* The operations of the mutex preserve types.                             *)

\* A queue without one element is a queue, one shorter.
LEMMA WithoutType ==
  ASSUME NEW S, NEW q \in Seq(S), NEW i \in 1..Len(q)
  PROVE  Without(q, i) \in Seq(S) /\ Len(Without(q, i)) = Len(q) - 1
<1>1. Len(q) \in Nat /\ Len(q) - 1 \in Nat
  OBVIOUS
<1>2. \A j \in 1..(Len(q) - 1) : (IF j < i THEN q[j] ELSE q[j + 1]) \in S
  OBVIOUS
<1> QED
  BY <1>1, <1>2 DEF Without

\* Unlocking keeps every holder a task or none and every queue a queue.
LEMMA UnlockType ==
  ASSUME StoreTypeOK, NEW s \in Sessions, Unlock(s)
  PROVE  /\ live' = live
         /\ holder' \in [Sessions -> Tasks \cup {NoTask}]
         /\ waiting' \in [Sessions -> Seq(Tasks)]
<1>1. CASE waiting[s] = <<>>
  BY <1>1 DEF Unlock, StoreTypeOK
<1>2. CASE waiting[s] # <<>>
  <2>1. waiting[s] \in Seq(Tasks)
    BY DEF StoreTypeOK
  <2>2. Head(waiting[s]) \in Tasks /\ Tail(waiting[s]) \in Seq(Tasks)
    BY <2>1, <1>2
  <2> QED
    BY <1>2, <2>2 DEF Unlock, StoreTypeOK
<1> QED
  BY <1>1, <1>2

\* So does giving up the lock or the place in its queue.
LEMMA AbandonType ==
  ASSUME StoreTypeOK, NEW s \in Sessions, NEW t \in Tasks, Abandon(t, s)
  PROVE  /\ live' = live
         /\ holder' \in [Sessions -> Tasks \cup {NoTask}]
         /\ waiting' \in [Sessions -> Seq(Tasks)]
<1>1. CASE holder[s] = t
  BY <1>1, UnlockType DEF Abandon
<1>2. CASE holder[s] # t
  <2>1. PICK i \in 1..Len(waiting[s]) :
          waiting' = [waiting EXCEPT ![s] = Without(waiting[s], i)]
    BY <1>2 DEF Abandon
  <2>2. Without(waiting[s], i) \in Seq(Tasks)
    BY WithoutType DEF StoreTypeOK
  <2> QED
    BY <1>2, <2>1, <2>2 DEF Abandon, StoreTypeOK
<1> QED
  BY <1>1, <1>2

\* So does asking for the lock.
LEMMA LockType ==
  ASSUME StoreTypeOK, NEW s \in Sessions, NEW t \in Tasks, Lock(t, s)
  PROVE  /\ live' = live
         /\ holder' \in [Sessions -> Tasks \cup {NoTask}]
         /\ waiting' \in [Sessions -> Seq(Tasks)]
<1>1. waiting[s] \in Seq(Tasks) /\ Append(waiting[s], t) \in Seq(Tasks)
  BY DEF StoreTypeOK
<1> QED
  BY <1>1 DEF Lock, StoreTypeOK

-----------------------------------------------------------------------------
(* Type correctness.                                                       *)

\* What the handlers have in common: a task that ends its request forgets it.
LEMMA FinishType ==
  ASSUME TypeInv, NEW t \in Tasks, NEW where \in {"closed", "recv"}, Finish(t, where)
  PROVE  /\ pc' \in [Tasks -> Locations]
         /\ sid' \in [Tasks -> Optional]
         /\ created' \in [Tasks -> BOOLEAN]
         /\ reply' \in [Tasks -> Replies]
         /\ SessionResolved'
<1>1. NoReply \in Replies
  BY DEF NoReply, Replies, Optional
<1>2. /\ pc' \in [Tasks -> Locations]
      /\ sid' \in [Tasks -> Optional]
      /\ created' \in [Tasks -> BOOLEAN]
      /\ reply' \in [Tasks -> Replies]
  BY <1>1 DEF TypeInv, TypeOK, Finish, GoTo, Locations, Optional
<1>3. SessionResolved'
  BY DEF TypeInv, TypeOK, SessionResolved, Finish, GoTo
<1> QED
  BY <1>2, <1>3

\* And one that answers goes to send the reply.
LEMMA AnswerType ==
  ASSUME TypeInv, NEW t \in Tasks, NEW s \in Optional,
         NEW kind \in {"answer", "agent_error", "rate_limited", "session_error"},
         Answer(t, kind, s), UNCHANGED sid
  PROVE  /\ pc' \in [Tasks -> Locations]
         /\ reply' \in [Tasks -> Replies]
         /\ SessionResolved'
<1>1. [kind |-> kind, session |-> s] \in Replies
  BY DEF Replies
<1>2. pc' \in [Tasks -> Locations] /\ reply' \in [Tasks -> Replies]
  BY <1>1 DEF TypeInv, TypeOK, Answer, GoTo, Locations
<1>3. SessionResolved'
  BY DEF TypeInv, TypeOK, SessionResolved, Answer, GoTo
<1> QED
  BY <1>2, <1>3

\* The initial state is well typed (api/router.rs, build_router).
LEMMA InitType == Init => TypeInv
BY TasksAssumption, BoundsAssumption, IdleTimeoutAssumption
   DEF Init, StoreInit, TypeInv, TypeOK, StoreTypeOK, SessionResolved, NoReply,
       Replies, Optional, Locations

\* One step of the specification preserves the types.
LEMMA NextType == TypeInv /\ [Next]_vars => TypeInv'
<1> SUFFICES ASSUME TypeInv, [Next]_vars PROVE TypeInv'
  OBVIOUS
<1> USE TasksAssumption, BoundsAssumption, IdleTimeoutAssumption, NoSessionAssumption
    DEF TypeInv, TypeOK, SessionResolved, GoTo, Locations, Optional
<1>1. ASSUME NEW c \in Conns, Connect(c) PROVE TypeInv'
  BY <1>1 DEF Connect, storeVars, StoreTypeOK
<1>2. ASSUME NEW c \in Conns, NEW f \in Frames, FrameArrives(c, f) PROVE TypeInv'
  BY <1>2 DEF FrameArrives, storeVars, StoreTypeOK
<1>3. ASSUME NEW h \in Hooks, NEW s \in Optional, HookCalled(h, s) PROVE TypeInv'
  BY <1>3 DEF HookCalled, storeVars, StoreTypeOK
<1>4. ASSUME NEW h \in Hooks, HookDropped(h) PROVE TypeInv'
  <2>1. h \in Tasks /\ StoreTypeOK
    OBVIOUS
  <2>2. /\ live' = live
        /\ holder' \in [Sessions -> Tasks \cup {NoTask}]
        /\ waiting' \in [Sessions -> Seq(Tasks)]
    <3>1. CASE pc[h] \in {"queued", "turn", "persist"}
      <4>1. sid[h] \in Sessions /\ Abandon(h, sid[h])
        BY <1>4, <2>1, <3>1 DEF HookDropped
      <4> QED
        BY <4>1, <2>1, AbandonType
    <3>2. CASE pc[h] \notin {"queued", "turn", "persist"}
      BY <1>4, <3>2 DEF HookDropped, StoreTypeOK
    <3> QED
      BY <3>1, <3>2
  <2>3. NoReply \in Replies
    BY DEF NoReply, Replies
  <2> QED
    BY <1>4, <2>1, <2>2, <2>3 DEF HookDropped, Finish, StoreTypeOK
<1>5. ASSUME NEW c \in Conns, Receive(c) PROVE TypeInv'
  <2>1. inbox[c] \in Seq(Frames) /\ inbox[c] # <<>>
    BY <1>5 DEF Receive
  <2>2. Head(inbox[c]) \in Frames /\ Tail(inbox[c]) \in Seq(Frames)
    BY <2>1
  <2>3. Head(inbox[c]).session \in Optional
    BY <2>2 DEF Frames
  <2>4. Head(inbox[c]).kind \in {"text", "garbled", "ping", "close"}
    BY <2>2 DEF Frames
  <2>5. /\ NoReply \in Replies
        /\ [kind |-> "parse_error", session |-> NoSession] \in Replies
    BY DEF NoReply, Replies
  <2>6. PICK where \in {"resolve", "reply", "recv", "closed"} : GoTo(c, where)
    BY <1>5, <2>4 DEF Receive, After
  <2> QED
    BY <1>5, <2>2, <2>3, <2>4, <2>5, <2>6 DEF Receive, storeVars, StoreTypeOK
<1>6. ASSUME NEW c \in Conns, ReceiveDuringTurn(c) PROVE TypeInv'
  <2>1. inbox[c] \in Seq(Frames) /\ inbox[c] # <<>>
    BY <1>6 DEF ReceiveDuringTurn
  <2>2. Tail(inbox[c]) \in Seq(Frames)
    BY <2>1
  <2>3. c \in Tasks /\ sid[c] \in Sessions
    BY <1>6 DEF ReceiveDuringTurn, Granted
  <2>4. CASE UNCHANGED <<storeVars, pc, sid, created, reply>>
    BY <1>6, <2>2, <2>4 DEF ReceiveDuringTurn, storeVars, StoreTypeOK
  <2>5. CASE Unlock(sid[c]) /\ Finish(c, "closed") /\ UNCHANGED idle
    <3>1. Unlock(sid[c]) /\ Finish(c, "closed") /\ idle' = idle
      BY <2>5
    <3>2. /\ live' = live
          /\ holder' \in [Sessions -> Tasks \cup {NoTask}]
          /\ waiting' \in [Sessions -> Seq(Tasks)]
      BY <3>1, <2>3, UnlockType
    <3>3. NoReply \in Replies
      BY DEF NoReply, Replies
    <3> QED
      BY <1>6, <2>2, <3>1, <3>2, <3>3 DEF ReceiveDuringTurn, Finish, StoreTypeOK
  <2> QED
    BY <1>6, <2>4, <2>5 DEF ReceiveDuringTurn
<1>7. ASSUME NEW t \in Tasks, Resolve(t) PROVE TypeInv'
  <2>1. CASE named[t] \in live
    BY <1>7, <2>1 DEF Resolve, storeVars, StoreTypeOK
  <2>2. CASE named[t] \notin live
    <3>1. PICK s \in Sessions : Create(s) /\ FullBucket(s) /\ sid' = [sid EXCEPT ![t] = s]
      BY <1>7, <2>2 DEF Resolve
    <3>2. <<>> \in Seq(Tasks)
      OBVIOUS
    <3>3. StoreTypeOK' /\ live \subseteq live'
      BY <3>1, <3>2 DEF Create, StoreTypeOK
    <3>4. tokens' \in [Sessions -> 0..RateLimit]
      BY <3>1 DEF FullBucket
    <3>5. SessionResolved'
      BY <1>7, <3>1 DEF Resolve
    <3>6. /\ pc' \in [Tasks -> Locations]
          /\ named' \in [Tasks -> Optional]
          /\ sid' \in [Tasks -> Optional]
          /\ created' \in [Tasks -> BOOLEAN]
      BY <1>7, <3>1, <2>2 DEF Resolve
    <3> QED
      BY <1>7, <3>3, <3>4, <3>5, <3>6 DEF Resolve
  <2> QED
    BY <2>1, <2>2
<1>8. ASSUME NEW t \in Tasks, CheckLimit(t) PROVE TypeInv'
  <2>1. StoreTypeOK' /\ live' = live
    BY <1>8 DEF CheckLimit, storeVars, StoreTypeOK
  <2>2. tokens' \in [Sessions -> 0..RateLimit]
    BY <1>8 DEF CheckLimit, TakeCell, Admits
  <2>3. CASE Admits(sid[t])
    BY <1>8, <2>1, <2>2, <2>3 DEF CheckLimit
  <2>4. CASE ~Admits(sid[t])
    <3>1. Answer(t, "rate_limited", NoSession) /\ UNCHANGED sid
      BY <1>8, <2>4 DEF CheckLimit
    <3>2. /\ pc' \in [Tasks -> Locations]
          /\ reply' \in [Tasks -> Replies]
          /\ SessionResolved'
      BY <3>1, AnswerType
    <3> QED
      BY <1>8, <2>1, <2>2, <3>2 DEF CheckLimit
  <2> QED
    BY <2>3, <2>4
<1>9. ASSUME NEW t \in Tasks, Lookup(t) PROVE TypeInv'
  <2>1. StoreTypeOK' /\ live' = live
    BY <1>9 DEF Lookup, storeVars, StoreTypeOK
  <2>2. CASE Get(sid[t])
    BY <1>9, <2>1, <2>2 DEF Lookup
  <2>3. CASE ~Get(sid[t]) /\ Answer(t, "session_error", NoSession) /\ UNCHANGED <<sid, created>>
    <3>1. /\ pc' \in [Tasks -> Locations]
          /\ reply' \in [Tasks -> Replies]
          /\ SessionResolved'
      BY <2>3, AnswerType
    <3> QED
      BY <1>9, <2>1, <2>3, <3>1 DEF Lookup
  <2>4. CASE /\ GoTo(t, "closed")
             /\ sid' = [sid EXCEPT ![t] = NoSession]
             /\ created' = [created EXCEPT ![t] = FALSE]
             /\ UNCHANGED reply
    BY <1>9, <2>1, <2>4 DEF Lookup
  <2> QED
    BY <1>9, <2>2, <2>3, <2>4 DEF Lookup
<1>10. ASSUME NEW t \in Tasks, RequestLock(t) PROVE TypeInv'
  <2>1. sid[t] \in Sessions /\ Lock(t, sid[t])
    BY <1>10 DEF RequestLock
  <2>2. /\ live' = live
        /\ holder' \in [Sessions -> Tasks \cup {NoTask}]
        /\ waiting' \in [Sessions -> Seq(Tasks)]
    BY <2>1, LockType
  <2> QED
    BY <1>10, <2>2 DEF RequestLock, StoreTypeOK
<1>11. ASSUME NEW t \in Tasks, StartTurn(t) \/ ToolRound(t) \/ TurnAnswers(t)
       PROVE  TypeInv'
  <2>1. StoreTypeOK' /\ live' = live
    <3>1. UNCHANGED <<live, holder, waiting>> /\ Touch(sid[t])
      BY <1>11 DEF StartTurn, ToolRound, TurnAnswers
    <3>2. 0 \in 0..IdleTimeout /\ idle \in [Sessions -> 0..IdleTimeout]
      BY DEF StoreTypeOK
    <3>3. idle' \in [Sessions -> 0..IdleTimeout]
      BY <3>1, <3>2 DEF Touch
    <3> QED
      BY <3>1, <3>3 DEF StoreTypeOK
  <2>2. UNCHANGED <<named, sid, created, reply, inbox, tokens, known>>
    BY <1>11 DEF StartTurn, ToolRound, TurnAnswers, pathVars
  <2>3. pc[t] \in {"queued", "turn"}
    BY <1>11 DEF StartTurn, ToolRound, TurnAnswers, Granted
  <2>4. pc' = pc \/ pc' = [pc EXCEPT ![t] = "turn"] \/ pc' = [pc EXCEPT ![t] = "persist"]
    BY <1>11 DEF StartTurn, ToolRound, TurnAnswers, pathVars
  <2> QED
    BY <2>1, <2>2, <2>3, <2>4
<1>12. ASSUME NEW t \in Tasks, TurnDone(t) \/ TurnFails(t) PROVE TypeInv'
  <2>1. sid[t] \in Sessions /\ Unlock(sid[t]) /\ idle' = idle
    BY <1>12 DEF TurnDone, TurnFails
  <2>2. StoreTypeOK' /\ live' = live
    BY <2>1, UnlockType DEF StoreTypeOK
  <2>3. UNCHANGED <<named, sid, created, inbox, tokens, known>>
    BY <1>12 DEF TurnDone, TurnFails
  <2>4. \/ Answer(t, "answer", sid[t])
        \/ Answer(t, "agent_error", sid[t])
        \/ Answer(t, "agent_error", NoSession)
    BY <1>12 DEF TurnDone, TurnFails
  <2>5. /\ pc' \in [Tasks -> Locations]
        /\ reply' \in [Tasks -> Replies]
        /\ SessionResolved'
    BY <2>1, <2>3, <2>4, AnswerType
  <2> QED
    BY <2>2, <2>3, <2>5
<1>13. ASSUME NEW t \in Tasks, SendReply(t) PROVE TypeInv'
  <2>1. StoreTypeOK' /\ live' = live
    BY <1>13 DEF SendReply, storeVars, StoreTypeOK
  <2>2. Finish(t, "closed") \/ Finish(t, "recv")
    BY <1>13 DEF SendReply
  <2>3. /\ pc' \in [Tasks -> Locations]
        /\ sid' \in [Tasks -> Optional]
        /\ created' \in [Tasks -> BOOLEAN]
        /\ reply' \in [Tasks -> Replies]
        /\ SessionResolved'
    BY <2>2, FinishType
  <2> QED
    BY <1>13, <2>1, <2>3 DEF SendReply
<1>14. ASSUME Heartbeat PROVE TypeInv'
  <2>1. StoreTypeOK'
    BY <1>14 DEF Heartbeat, CleanupExpired, StoreTypeOK
  <2>2. \A x \in Optional : KnownOrNone(x) \in Optional
    BY DEF KnownOrNone
  <2>3. named' \in [Tasks -> Optional]
    BY <1>14, <2>2 DEF Heartbeat
  <2>4. ASSUME NEW c \in Conns PROVE inbox'[c] \in Seq(Frames)
    <3>1. inbox[c] \in Seq(Frames)
      OBVIOUS
    <3>2. ASSUME NEW i \in 1..Len(inbox[c])
          PROVE  [inbox[c][i] EXCEPT !.session = KnownOrNone(inbox[c][i].session)] \in Frames
      <4>1. inbox[c][i] \in Frames
        BY <3>1
      <4>2. KnownOrNone(NoSession) = NoSession
        BY DEF KnownOrNone
      <4> QED
        BY <4>1, <4>2, <2>2 DEF Frames
    <3>3. inbox'[c] = [i \in 1..Len(inbox[c]) |->
                        [inbox[c][i] EXCEPT !.session = KnownOrNone(inbox[c][i].session)]]
      BY <1>14, <3>1 DEF Heartbeat
    <3> QED
      BY <3>1, <3>2, <3>3
  <2>5. inbox' \in [Conns -> Seq(Frames)]
    BY <1>14, <2>4 DEF Heartbeat
  <2> QED
    BY <1>14, <2>1, <2>3, <2>5 DEF Heartbeat
<1>15. ASSUME NEW s \in Sessions, Replenish(s) PROVE TypeInv'
  BY <1>15 DEF Replenish, storeVars, StoreTypeOK
<1>16. ASSUME Clock PROVE TypeInv'
  BY <1>16 DEF Clock, Tick, pathVars, StoreTypeOK
<1>17. CASE UNCHANGED vars
  BY <1>17 DEF vars, pathVars, storeVars, StoreTypeOK
<1> QED
  BY <1>1, <1>2, <1>3, <1>4, <1>5, <1>6, <1>7, <1>8, <1>9, <1>10, <1>11, <1>12,
     <1>13, <1>14, <1>15, <1>16, <1>17
     DEF Next, Client, Handler

\* Type correctness: TypeOK holds in every reachable state.
THEOREM TypeCorrect == Spec => []TypeOK
<1>1. Spec => []TypeInv
  BY InitType, NextType, PTL DEF Spec
<1>2. TypeInv => TypeOK
  BY DEF TypeInv
<1> QED
  BY <1>1, <1>2, PTL

-----------------------------------------------------------------------------
(* Mutual exclusion.  LockAccounting is the inductive invariant: it follows *)
(* the permit of every mutex through the queue.                            *)

\* A step that leaves the mutexes alone keeps the accounts if every task stays
\* where it is, or moves outside the locked region, or starts or goes on with
\* the turn whose lock it holds.
LEMMA LocksUntouched ==
  ASSUME TypeInv, LockAccounting, UNCHANGED <<holder, waiting>>,
         \A t \in Tasks :
           \/ pc'[t] = pc[t] /\ sid'[t] = sid[t]
           \/ ~HasAsked(t) /\ pc'[t] \notin {"queued", "turn", "persist"}
           \/ /\ HasAsked(t) /\ holder[sid[t]] = t
              /\ pc'[t] \in {"turn", "persist"} /\ sid'[t] = sid[t]
  PROVE  LockAccounting'
<1> USE DEF HasAsked, InTurn
<1>1. TurnsHoldTheLock'
  BY DEF LockAccounting, TurnsHoldTheLock
<1>2. WaitersAreServed'
  BY DEF LockAccounting, WaitersAreServed, InQueue
<1>3. HoldersAreInside'
  BY DEF LockAccounting, HoldersAreInside, TypeInv, TypeOK, StoreTypeOK
<1>4. QueuesAreExact'
  <2>1. ASSUME NEW s \in Sessions, NEW i \in 1..Len(waiting[s])
        PROVE  /\ pc'[waiting[s][i]] = "queued"
               /\ sid'[waiting[s][i]] = s
    <3>1. waiting[s][i] \in Tasks
      BY DEF TypeInv, TypeOK, StoreTypeOK
    <3>2. /\ pc[waiting[s][i]] = "queued"
          /\ sid[waiting[s][i]] = s
          /\ waiting[s][i] # holder[s]
      BY DEF LockAccounting, QueuesAreExact
    <3> QED
      BY <3>1, <3>2
  <2> QED
    BY <2>1 DEF LockAccounting, QueuesAreExact
<1>5. NobodyWaitsForAFreeLock'
  BY DEF LockAccounting, NobodyWaitsForAFreeLock
<1> QED
  BY <1>1, <1>2, <1>3, <1>4, <1>5 DEF LockAccounting

\* A task that joins a queue or gets a free mutex keeps the accounts.
LEMMA LockRequested ==
  ASSUME TypeInv, LockAccounting, NEW t \in Tasks, pc[t] = "lock",
         Lock(t, sid[t]), pc' = [pc EXCEPT ![t] = "queued"], sid' = sid
  PROVE  LockAccounting'
<1> DEFINE s == sid[t]
<1>1. s \in Sessions /\ t # NoTask
  BY TasksAssumption, NoTaskAssumption DEF TypeInv, SessionResolved
<1>2. \A u \in Sessions : holder[u] # t /\ \A i \in 1..Len(waiting[u]) : waiting[u][i] # t
  BY <1>1 DEF LockAccounting, HoldersAreInside, QueuesAreExact, HasAsked
<1>3. pc \in [Tasks -> Locations]
  BY DEF TypeInv, TypeOK
<1>4. CASE holder[s] = NoTask
  <2>1. holder' = [holder EXCEPT ![s] = t] /\ waiting' = waiting
    BY <1>4 DEF Lock
  <2>2. waiting[s] = <<>>
    BY <1>1, <1>4 DEF LockAccounting, NobodyWaitsForAFreeLock
  <2>3. holder \in [Sessions -> Tasks \cup {NoTask}]
    BY DEF TypeInv, TypeOK, StoreTypeOK
  <2>4. TurnsHoldTheLock'
    BY <1>1, <1>3, <1>4, <2>1, <2>3, NoTaskAssumption
       DEF LockAccounting, TurnsHoldTheLock, InTurn, TypeInv, SessionResolved
  <2>5. WaitersAreServed'
    <3> SUFFICES ASSUME NEW u \in Tasks, pc'[u] = "queued"
                 PROVE  holder'[sid[u]] = u \/ InQueue(u, sid[u])'
      BY DEF WaitersAreServed
    <3>1. CASE u = t
      BY <1>1, <2>1, <2>3, <3>1
    <3>2. CASE u # t
      <4>1. pc[u] = "queued" /\ sid[u] \in Sessions
        BY <3>2, <1>3 DEF TypeInv, SessionResolved
      <4>2. sid[u] # s \/ holder[s] = u \/ InQueue(u, s)
        BY <4>1 DEF LockAccounting, WaitersAreServed
      <4>3. sid[u] # s
        BY <4>2, <1>4, <2>2, NoTaskAssumption DEF InQueue
      <4>4. holder[sid[u]] = u \/ InQueue(u, sid[u])
        BY <4>1 DEF LockAccounting, WaitersAreServed
      <4> QED
        BY <4>1, <4>3, <4>4, <2>1, <2>3 DEF InQueue
    <3> QED
      BY <3>1, <3>2
  <2>6. HoldersAreInside'
    BY <1>1, <1>2, <1>3, <2>1, <2>3 DEF LockAccounting, HoldersAreInside, HasAsked
  <2>7. QueuesAreExact'
    <3> SUFFICES ASSUME NEW u \in Sessions, NEW i \in 1..Len(waiting[u])
                 PROVE  /\ pc'[waiting[u][i]] = "queued"
                        /\ sid[waiting[u][i]] = u
                        /\ waiting[u][i] # holder'[u]
                        /\ \A j \in 1..Len(waiting[u]) : waiting[u][i] = waiting[u][j] => i = j
      BY <2>1 DEF QueuesAreExact
    <3>1. waiting[u][i] # t
      BY <1>2
    <3>2. holder'[u] = holder[u] \/ holder'[u] = t
      BY <2>1, <2>3
    <3> QED
      BY <3>1, <3>2, <1>3 DEF LockAccounting, QueuesAreExact
  <2>8. NobodyWaitsForAFreeLock'
    BY <1>1, <2>1, <2>3 DEF LockAccounting, NobodyWaitsForAFreeLock
  <2> QED
    BY <2>4, <2>5, <2>6, <2>7, <2>8 DEF LockAccounting
<1>5. CASE holder[s] # NoTask
  <2>1. holder' = holder /\ waiting' = [waiting EXCEPT ![s] = Append(waiting[s], t)]
    BY <1>5 DEF Lock
  <2>2. waiting \in [Sessions -> Seq(Tasks)]
    BY DEF TypeInv, TypeOK, StoreTypeOK
  <2>3. \A u \in Sessions : u # s => waiting'[u] = waiting[u]
    BY <2>1, <2>2
  <2>4. waiting'[s] = Append(waiting[s], t) /\ waiting[s] \in Seq(Tasks)
    BY <1>1, <2>1, <2>2
  <2>5. /\ Len(waiting'[s]) = Len(waiting[s]) + 1
        /\ Len(waiting[s]) \in Nat
        /\ waiting'[s][Len(waiting[s]) + 1] = t
        /\ \A i \in 1..Len(waiting[s]) : waiting'[s][i] = waiting[s][i]
    BY <2>4
  <2>6. TurnsHoldTheLock'
    BY <1>3, <2>1 DEF LockAccounting, TurnsHoldTheLock, InTurn
  <2>7. WaitersAreServed'
    <3> SUFFICES ASSUME NEW u \in Tasks, pc'[u] = "queued"
                 PROVE  holder[sid[u]] = u \/ InQueue(u, sid[u])'
      BY <2>1 DEF WaitersAreServed
    <3>1. CASE u = t
      BY <3>1, <2>5 DEF InQueue
    <3>2. CASE u # t
      <4>1. pc[u] = "queued" /\ sid[u] \in Sessions
        BY <3>2, <1>3 DEF TypeInv, SessionResolved
      <4>2. holder[sid[u]] = u \/ InQueue(u, sid[u])
        BY <4>1 DEF LockAccounting, WaitersAreServed
      <4>3. CASE holder[sid[u]] = u
        BY <4>3
      <4>4. CASE InQueue(u, sid[u])
        <5>1. PICK i \in 1..Len(waiting[sid[u]]) : waiting[sid[u]][i] = u
          BY <4>4 DEF InQueue
        <5>2. i \in 1..Len(waiting'[sid[u]]) /\ waiting'[sid[u]][i] = u
          <6>1. CASE sid[u] = s
            BY <6>1, <5>1, <2>5
          <6>2. CASE sid[u] # s
            <7>1. waiting'[sid[u]] = waiting[sid[u]]
              BY <4>1, <6>2, <2>3
            <7> QED
              BY <5>1, <7>1
          <6> QED
            BY <6>1, <6>2
        <5> QED
          BY <5>2, <2>1 DEF InQueue
      <4> QED
        BY <4>2, <4>3, <4>4
    <3> QED
      BY <3>1, <3>2
  <2>8. HoldersAreInside'
    <3>1. \A u \in Sessions : holder[u] # NoTask => holder[u] \in Tasks /\ holder[u] # t
      BY <1>2 DEF TypeInv, TypeOK, StoreTypeOK
    <3> QED
      BY <3>1, <1>3, <2>1 DEF LockAccounting, HoldersAreInside, HasAsked
  <2>9. QueuesAreExact'
    <3> SUFFICES ASSUME NEW u \in Sessions, NEW i \in 1..Len(waiting'[u])
                 PROVE  /\ pc'[waiting'[u][i]] = "queued"
                        /\ sid[waiting'[u][i]] = u
                        /\ waiting'[u][i] # holder[u]
                        /\ \A j \in 1..Len(waiting'[u]) :
                             waiting'[u][i] = waiting'[u][j] => i = j
      BY <2>1, SMTT(30) DEF QueuesAreExact
    <3>1. ASSUME NEW k \in 1..Len(waiting[u])
          PROVE  /\ pc'[waiting[u][k]] = "queued"
                 /\ sid[waiting[u][k]] = u
                 /\ waiting[u][k] # holder[u]
                 /\ waiting[u][k] # t
                 /\ \A j \in 1..Len(waiting[u]) : waiting[u][k] = waiting[u][j] => k = j
      BY <1>2, <1>3 DEF LockAccounting, QueuesAreExact
    <3>2. CASE u # s
      BY <3>1, <3>2, <2>3
    <3>3. CASE u = s
      <4>1. holder[s] # t /\ pc'[t] = "queued" /\ sid[t] = s
        BY <1>1, <1>2, <1>3
      <4>2. CASE i \in 1..Len(waiting[s])
        <5>1. waiting'[s][i] = waiting[s][i]
          BY <4>2, <2>5
        <5>2. ASSUME NEW j \in 1..Len(waiting'[s])
              PROVE  \/ j \in 1..Len(waiting[s]) /\ waiting'[s][j] = waiting[s][j]
                     \/ waiting'[s][j] = t
          <6>1. CASE j \in 1..Len(waiting[s])
            BY <6>1, <2>5
          <6>2. CASE j = Len(waiting[s]) + 1
            BY <6>2, <2>5
          <6> HIDE DEF s
          <6>3. j \in 1..(Len(waiting[s]) + 1)
            BY <2>5
          <6>4. Len(waiting[s]) \in Nat
            BY <2>5
          <6> QED
            BY <6>1, <6>2, <6>3, <6>4
        <5> QED
          BY <3>1, <3>3, <4>2, <5>1, <5>2
      <4>3. CASE i = Len(waiting[s]) + 1
        <5>1. waiting'[s][i] = t
          BY <4>3, <2>5
        <5>2. \A j \in 1..Len(waiting'[s]) : j # i => waiting'[s][j] # t
          BY <3>1, <3>3, <4>3, <2>5, SMTT(30)
        <5> QED
          BY <3>3, <4>1, <5>1, <5>2
      <4> QED
        BY <3>3, <4>2, <4>3, <2>5
    <3> QED
      BY <3>2, <3>3
  <2>10. NobodyWaitsForAFreeLock'
    BY <1>1, <1>5, <2>1, <2>3 DEF LockAccounting, NobodyWaitsForAFreeLock
  <2> QED
    BY <2>6, <2>7, <2>8, <2>9, <2>10 DEF LockAccounting
<1> QED
  BY <1>4, <1>5

\* The same of a task that leaves the locked region with the lock: the permit
\* goes to the first in the queue.
LEMMA LockReleased ==
  ASSUME TypeInv, LockAccounting, NEW t \in Tasks, NEW s \in Sessions,
         holder[s] = t, Unlock(s),
         pc'[t] \notin {"queued", "turn", "persist"},
         \A u \in Tasks \ {t} : pc'[u] = pc[u] /\ sid'[u] = sid[u]
  PROVE  LockAccounting'
<1>1. holder \in [Sessions -> Tasks \cup {NoTask}] /\ waiting \in [Sessions -> Seq(Tasks)]
  BY DEF TypeInv, TypeOK, StoreTypeOK
<1>2. t # NoTask /\ sid[t] = s
  BY TasksAssumption, NoTaskAssumption DEF LockAccounting, HoldersAreInside
<1>3. \A u \in Sessions : u # s => holder'[u] = holder[u] /\ waiting'[u] = waiting[u]
  BY <1>1 DEF Unlock
\* t holds no other mutex and is in no queue.
<1>4. \A u \in Sessions : u # s => holder[u] # t
  BY <1>2 DEF LockAccounting, HoldersAreInside
<1>5. ASSUME NEW u \in Sessions, NEW i \in 1..Len(waiting[u])
      PROVE  /\ waiting[u][i] \in Tasks \ {t}
             /\ pc'[waiting[u][i]] = "queued"
             /\ sid'[waiting[u][i]] = u
             /\ waiting[u][i] # holder[u]
             /\ \A j \in 1..Len(waiting[u]) : waiting[u][i] = waiting[u][j] => i = j
  <2>1. /\ waiting[u][i] \in Tasks
        /\ pc[waiting[u][i]] = "queued"
        /\ sid[waiting[u][i]] = u
        /\ waiting[u][i] # holder[u]
        /\ \A j \in 1..Len(waiting[u]) : waiting[u][i] = waiting[u][j] => i = j
    BY <1>1 DEF LockAccounting, QueuesAreExact
  <2>2. waiting[u][i] # t
    BY <2>1, <1>2
  <2> QED
    BY <2>1, <2>2
<1>6. ASSUME NEW u \in Sessions, u # s, holder[u] # NoTask
      PROVE  pc'[holder[u]] \in {"queued", "turn", "persist"} /\ sid'[holder[u]] = u
  <2>1. holder[u] \in Tasks \ {t} /\ HasAsked(holder[u]) /\ sid[holder[u]] = u
    BY <1>1, <1>4, <1>6 DEF LockAccounting, HoldersAreInside
  <2> QED
    BY <2>1 DEF HasAsked
<1>7. ASSUME NEW u \in Tasks, HasAsked(u)'
      PROVE  /\ u # t /\ HasAsked(u) /\ sid[u] \in Sessions /\ sid'[u] = sid[u]
             /\ pc'[u] = pc[u]
             /\ sid[u] = s => pc[u] = "queued" /\ InQueue(u, s)
  <2>1. u # t /\ pc'[u] = pc[u] /\ sid'[u] = sid[u] /\ HasAsked(u)
    BY <1>7 DEF HasAsked
  <2>2. sid[u] \in Sessions
    BY <2>1 DEF HasAsked, TypeInv, SessionResolved
  <2>3. sid[u] = s => pc[u] = "queued" /\ InQueue(u, s)
    BY <2>1 DEF HasAsked, InTurn, LockAccounting, TurnsHoldTheLock, WaitersAreServed
  <2> QED
    BY <2>1, <2>2, <2>3
<1>8. CASE waiting[s] = <<>>
  <2>1. holder'[s] = NoTask /\ waiting' = waiting
    BY <1>1, <1>8 DEF Unlock
  <2>2. \A u \in Tasks : HasAsked(u)' => sid[u] # s
    BY <1>7, <1>8 DEF InQueue
  <2>3. TurnsHoldTheLock'
    <3> SUFFICES ASSUME NEW u \in Tasks, InTurn(u)' PROVE holder'[sid'[u]] = u
      BY DEF TurnsHoldTheLock
    <3>1. HasAsked(u)'
      BY DEF InTurn, HasAsked
    <3>2. InTurn(u) /\ sid'[u] = sid[u] /\ sid[u] # s /\ sid[u] \in Sessions
      BY <3>1, <2>2, <1>7 DEF InTurn
    <3> QED
      BY <3>2, <1>3 DEF LockAccounting, TurnsHoldTheLock
  <2>4. WaitersAreServed'
    <3> SUFFICES ASSUME NEW u \in Tasks, pc'[u] = "queued"
                 PROVE  holder'[sid'[u]] = u \/ InQueue(u, sid[u])' 
      BY <1>7 DEF WaitersAreServed, HasAsked, InQueue
    <3>1. pc[u] = "queued" /\ sid'[u] = sid[u] /\ sid[u] # s /\ sid[u] \in Sessions
      BY <2>2, <1>7 DEF HasAsked
    <3> QED
      BY <3>1, <2>1, <1>3 DEF LockAccounting, WaitersAreServed, InQueue
  <2>5. HoldersAreInside'
    BY <2>1, <1>3, <1>6 DEF HoldersAreInside, HasAsked
  <2>6. QueuesAreExact'
    <3>1. ASSUME NEW u \in Sessions, NEW i \in 1..Len(waiting[u])
          PROVE  waiting[u][i] # holder'[u]
      BY <1>3, <1>5, <1>8, <2>1
    <3> QED
      BY <3>1, <2>1, <1>5 DEF QueuesAreExact
  <2>7. NobodyWaitsForAFreeLock'
    BY <1>3, <1>8, <2>1 DEF LockAccounting, NobodyWaitsForAFreeLock
  <2> QED
    BY <2>3, <2>4, <2>5, <2>6, <2>7 DEF LockAccounting
<1>9. CASE waiting[s] # <<>>
  <2>1. /\ holder'[s] = waiting[s][1]
        /\ waiting'[s] = Tail(waiting[s])
        /\ waiting[s] \in Seq(Tasks)
        /\ 1 \in 1..Len(waiting[s])
    BY <1>1, <1>9 DEF Unlock
  <2>2. /\ Len(waiting'[s]) = Len(waiting[s]) - 1
        /\ Len(waiting[s]) \in Nat
        /\ \A i \in 1..(Len(waiting[s]) - 1) : waiting'[s][i] = waiting[s][i + 1]
    BY <2>1
  <2>3. TurnsHoldTheLock'
    <3> SUFFICES ASSUME NEW u \in Tasks, InTurn(u)' PROVE holder'[sid'[u]] = u
      BY DEF TurnsHoldTheLock
    <3>1. HasAsked(u)'
      BY DEF InTurn, HasAsked
    <3>2. InTurn(u) /\ sid'[u] = sid[u] /\ sid[u] # s /\ sid[u] \in Sessions
      BY <3>1, <1>7 DEF InTurn
    <3> QED
      BY <3>2, <1>3 DEF LockAccounting, TurnsHoldTheLock
  <2>4. WaitersAreServed'
    <3> SUFFICES ASSUME NEW u \in Tasks, pc'[u] = "queued"
                 PROVE  holder'[sid'[u]] = u \/ InQueue(u, sid[u])'
      BY <1>7 DEF WaitersAreServed, HasAsked, InQueue
    <3>1. pc[u] = "queued" /\ sid'[u] = sid[u] /\ sid[u] \in Sessions
      BY <1>7 DEF HasAsked
    <3>2. CASE sid[u] # s
      BY <3>1, <3>2, <1>3 DEF LockAccounting, WaitersAreServed, InQueue
    <3>3. CASE sid[u] = s
      <4>1. PICK i \in 1..Len(waiting[s]) : waiting[s][i] = u
        BY <3>3, <1>7 DEF HasAsked, InQueue
      <4>2. CASE i = 1
        BY <4>1, <4>2, <3>1, <3>3, <2>1
      <4>3. CASE i # 1
        <5>1. i - 1 \in 1..Len(waiting'[s]) /\ waiting'[s][i - 1] = u
          BY <4>1, <4>3, <2>2
        <5> QED
          BY <5>1, <3>1, <3>3 DEF InQueue
      <4> QED
        BY <4>2, <4>3
    <3> QED
      BY <3>2, <3>3
  <2>5. HoldersAreInside'
    <3>1. pc'[holder'[s]] \in {"queued", "turn", "persist"} /\ sid'[holder'[s]] = s
      BY <2>1, <1>5
    <3> QED
      BY <3>1, <1>3, <1>6 DEF HoldersAreInside, HasAsked
  <2>6. QueuesAreExact'
    <3>1. ASSUME NEW u \in Sessions, u # s, NEW i \in 1..Len(waiting'[u])
          PROVE  /\ pc'[waiting'[u][i]] = "queued"
                 /\ sid'[waiting'[u][i]] = u
                 /\ waiting'[u][i] # holder'[u]
                 /\ \A j \in 1..Len(waiting'[u]) :
                      waiting'[u][i] = waiting'[u][j] => i = j
      BY <3>1, <1>3, <1>5
    <3>2. ASSUME NEW i \in 1..Len(waiting'[s])
          PROVE  /\ pc'[waiting'[s][i]] = "queued"
                 /\ sid'[waiting'[s][i]] = s
                 /\ waiting'[s][i] # holder'[s]
                 /\ \A j \in 1..Len(waiting'[s]) :
                      waiting'[s][i] = waiting'[s][j] => i = j
      <4>1. /\ i + 1 \in 1..Len(waiting[s])
            /\ waiting'[s][i] = waiting[s][i + 1]
            /\ i + 1 # 1
        BY <3>2, <2>2
      <4>2. waiting'[s][i] # holder'[s]
        BY <4>1, <2>1, <1>5
      <4>3. ASSUME NEW j \in 1..Len(waiting'[s]), waiting'[s][i] = waiting'[s][j]
            PROVE  i = j
        <5>1. j + 1 \in 1..Len(waiting[s]) /\ waiting'[s][j] = waiting[s][j + 1]
          BY <2>2
        <5>2. waiting[s][i + 1] = waiting[s][j + 1]
          BY <4>1, <4>3, <5>1
        <5>3. i + 1 = j + 1
          BY <4>1, <5>1, <5>2, <1>5
        <5> QED
          BY <5>3, <2>2
      <4> QED
        BY <4>1, <4>2, <4>3, <1>5
    <3> QED
      BY <3>1, <3>2 DEF QueuesAreExact
  <2>7. NobodyWaitsForAFreeLock'
    <3>1. holder'[s] # NoTask
      BY <2>1, <1>5, TasksAssumption, NoTaskAssumption
    <3> QED
      BY <3>1, <1>3 DEF LockAccounting, NobodyWaitsForAFreeLock
  <2> QED
    BY <2>3, <2>4, <2>5, <2>6, <2>7 DEF LockAccounting
<1> QED
  BY <1>8, <1>9

\* The same of a task that gives up its place in the queue.
LEMMA QueueLeft ==
  ASSUME TypeInv, LockAccounting, NEW t \in Tasks, NEW s \in Sessions,
         holder[s] # t, Abandon(t, s),
         pc'[t] \notin {"queued", "turn", "persist"},
         \A u \in Tasks \ {t} : pc'[u] = pc[u] /\ sid'[u] = sid[u]
  PROVE  LockAccounting'
<1>1. waiting \in [Sessions -> Seq(Tasks)] /\ holder \in [Sessions -> Tasks \cup {NoTask}]
  BY DEF TypeInv, TypeOK, StoreTypeOK
<1>2. holder' = holder
  BY DEF Abandon
<1>3. PICK k \in 1..Len(waiting[s]) :
        waiting[s][k] = t /\ waiting' = [waiting EXCEPT ![s] = Without(waiting[s], k)]
  BY DEF Abandon
<1>4. pc[t] = "queued" /\ sid[t] = s
  BY <1>3 DEF LockAccounting, QueuesAreExact
<1>5. \A u \in Sessions : u # s => waiting'[u] = waiting[u]
  BY <1>1, <1>3
<1>6. /\ Len(waiting[s]) \in Nat
      /\ Len(waiting'[s]) = Len(waiting[s]) - 1
      /\ \A j \in 1..(Len(waiting[s]) - 1) :
           waiting'[s][j] = IF j < k THEN waiting[s][j] ELSE waiting[s][j + 1]
  <2>1. waiting[s] \in Seq(Tasks) /\ waiting'[s] = Without(waiting[s], k)
    BY <1>1, <1>3
  <2>2. Len(waiting'[s]) = Len(waiting[s]) - 1
    BY <2>1, WithoutType
  <2> QED
    BY <2>1, <2>2 DEF Without
<1>7. \A u \in Sessions : holder[u] # t
  BY <1>4, TasksAssumption, NoTaskAssumption DEF LockAccounting, HoldersAreInside
<1>8. ASSUME NEW u \in Sessions, NEW i \in 1..Len(waiting[u])
      PROVE  /\ waiting[u][i] \in Tasks
             /\ pc[waiting[u][i]] = "queued"
             /\ sid[waiting[u][i]] = u
             /\ waiting[u][i] # holder[u]
             /\ \A j \in 1..Len(waiting[u]) : waiting[u][i] = waiting[u][j] => i = j
  BY <1>1 DEF LockAccounting, QueuesAreExact
<1>9. ASSUME NEW u \in Tasks, u # t
      PROVE  pc'[u] = pc[u] /\ sid'[u] = sid[u]
  BY <1>9
<1>10. TurnsHoldTheLock'
  BY <1>2, <1>9 DEF LockAccounting, TurnsHoldTheLock, InTurn
<1>11. WaitersAreServed'
  <2> SUFFICES ASSUME NEW u \in Tasks, pc'[u] = "queued"
               PROVE  holder[sid'[u]] = u \/ InQueue(u, sid[u])'
    BY <1>2 DEF WaitersAreServed, InQueue
  <2>1. u # t /\ pc[u] = "queued" /\ sid'[u] = sid[u]
    BY <1>9
  <2>2. sid[u] \in Sessions
    BY <2>1 DEF TypeInv, SessionResolved
  <2>3. CASE holder[sid[u]] = u
    BY <2>1, <2>3
  <2>4. CASE InQueue(u, sid[u]) /\ sid[u] # s
    BY <2>1, <2>2, <2>4, <1>5 DEF InQueue
  <2>5. CASE InQueue(u, sid[u]) /\ sid[u] = s
    <3>1. PICK i \in 1..Len(waiting[s]) : waiting[s][i] = u
      BY <2>5 DEF InQueue
    <3>2. i # k
      BY <3>1, <2>1, <1>3
    <3>3. CASE i < k
      <4>1. i \in 1..Len(waiting'[s]) /\ waiting'[s][i] = u
        BY <3>1, <3>3, <1>6
      <4> QED
        BY <4>1, <2>1, <2>5 DEF InQueue
    <3>4. CASE i > k
      <4>1. i - 1 \in 1..Len(waiting'[s]) /\ waiting'[s][i - 1] = u
        BY <3>1, <3>4, <1>6
      <4> QED
        BY <4>1, <2>1, <2>5 DEF InQueue
    <3> QED
      BY <3>2, <3>3, <3>4
  <2> QED
    BY <2>1, <2>3, <2>4, <2>5 DEF LockAccounting, WaitersAreServed
<1>12. HoldersAreInside'
  <2>1. ASSUME NEW u \in Sessions, holder[u] # NoTask
        PROVE  /\ holder[u] \in Tasks \ {t}
               /\ pc[holder[u]] \in {"queued", "turn", "persist"}
               /\ sid[holder[u]] = u
    BY <2>1, <1>1, <1>7 DEF LockAccounting, HoldersAreInside, HasAsked
  <2> QED
    BY <2>1, <1>2, <1>9 DEF HoldersAreInside, HasAsked
<1>13. QueuesAreExact'
  <2>1. ASSUME NEW u \in Sessions, u # s, NEW i \in 1..Len(waiting'[u])
        PROVE  /\ pc'[waiting'[u][i]] = "queued"
               /\ sid'[waiting'[u][i]] = u
               /\ waiting'[u][i] # holder[u]
               /\ \A j \in 1..Len(waiting'[u]) : waiting'[u][i] = waiting'[u][j] => i = j
    <3>1. i \in 1..Len(waiting[u]) /\ waiting'[u] = waiting[u]
      BY <2>1, <1>5
    <3>2. waiting[u][i] # t
      BY <3>1, <2>1, <1>4, <1>8
    <3> QED
      BY <3>1, <3>2, <1>8, <1>9
  <2>2. ASSUME NEW i \in 1..Len(waiting'[s])
        PROVE  /\ pc'[waiting'[s][i]] = "queued"
               /\ sid'[waiting'[s][i]] = s
               /\ waiting'[s][i] # holder[s]
               /\ \A j \in 1..Len(waiting'[s]) : waiting'[s][i] = waiting'[s][j] => i = j
    <3> DEFINE old(j) == IF j < k THEN j ELSE j + 1
    <3>1. ASSUME NEW j \in 1..Len(waiting'[s])
          PROVE  /\ old(j) \in 1..Len(waiting[s])
                 /\ waiting'[s][j] = waiting[s][old(j)]
                 /\ old(j) # k
      <4>1. j \in 1..(Len(waiting[s]) - 1)
        BY <1>6
      <4>2. CASE j < k
        <5>1. waiting'[s][j] = waiting[s][j] /\ old(j) = j
          BY <1>6, <4>1, <4>2
        <5> QED
          BY ONLY <4>1, <4>2, <5>1, <1>6, SMT
      <4>3. CASE ~(j < k)
        <5>1. waiting'[s][j] = waiting[s][j + 1] /\ old(j) = j + 1
          BY <1>6, <4>1, <4>3
        <5> HIDE DEF old
        <5> QED
          BY <4>1, <4>3, <5>1, <1>6
      <4> QED
        BY <4>2, <4>3
    <3>2. \A j, l \in 1..Len(waiting'[s]) : old(j) = old(l) => j = l
      BY <1>6
    <3> HIDE DEF old
    <3>3. waiting[s][old(i)] # t
      BY <3>1, <1>3, <1>8
    <3>4. /\ pc'[waiting'[s][i]] = "queued"
          /\ sid'[waiting'[s][i]] = s
          /\ waiting'[s][i] # holder[s]
      BY <3>1, <3>3, <1>8, <1>9
    <3>5. ASSUME NEW j \in 1..Len(waiting'[s]), waiting'[s][i] = waiting'[s][j]
          PROVE  i = j
      <4>1. waiting[s][old(i)] = waiting[s][old(j)]
        BY <3>1, <3>5
      <4>2. old(i) = old(j)
        BY <4>1, <3>1, <1>8
      <4> QED
        BY <4>2, <3>2
    <3> QED
      BY <3>4, <3>5
  <2> QED
    BY <2>1, <2>2, <1>2 DEF QueuesAreExact
<1>14. NobodyWaitsForAFreeLock'
  <2>1. waiting[s] # <<>>
    BY <1>3
  <2> QED
    BY <2>1, <1>2, <1>5 DEF LockAccounting, NobodyWaitsForAFreeLock
<1> QED
  BY <1>10, <1>11, <1>12, <1>13, <1>14 DEF LockAccounting

\* At first every mutex is free and nobody is queued (api/router.rs).
LEMMA InitLocks == Init => LockAccounting
BY DEF Init, StoreInit, LockAccounting, TurnsHoldTheLock, WaitersAreServed,
       HoldersAreInside, QueuesAreExact, NobodyWaitsForAFreeLock, InTurn

\* One step of the specification keeps the accounts of every mutex.
LEMMA NextLocks == TypeInv /\ LockAccounting /\ [Next]_vars => LockAccounting'
<1> SUFFICES ASSUME TypeInv, LockAccounting, [Next]_vars PROVE LockAccounting'
  OBVIOUS
<1> USE TasksAssumption
<1>0. /\ pc \in [Tasks -> Locations] /\ sid \in [Tasks -> Optional]
      /\ holder \in [Sessions -> Tasks \cup {NoTask}]
      /\ waiting \in [Sessions -> Seq(Tasks)]
  BY DEF TypeInv, TypeOK, StoreTypeOK
<1>1. ASSUME NEW c \in Conns, Connect(c) PROVE LockAccounting'
  BY <1>0, <1>1, LocksUntouched DEF Connect, GoTo, HasAsked, storeVars
<1>2. ASSUME NEW c \in Conns, NEW f \in Frames, FrameArrives(c, f) PROVE LockAccounting'
  BY <1>2, LocksUntouched DEF FrameArrives, storeVars
<1>3. ASSUME NEW h \in Hooks, NEW s \in Optional, HookCalled(h, s) PROVE LockAccounting'
  BY <1>0, <1>3, LocksUntouched DEF HookCalled, GoTo, HasAsked, storeVars
<1>4. ASSUME NEW h \in Hooks, HookDropped(h) PROVE LockAccounting'
  <2>1. h \in Tasks
    OBVIOUS
  <2>2. /\ pc' = [pc EXCEPT ![h] = "closed"]
        /\ sid' = [sid EXCEPT ![h] = NoSession]
    BY <1>4 DEF HookDropped, Finish, GoTo
  <2>3. /\ pc'[h] \notin {"queued", "turn", "persist"}
        /\ \A u \in Tasks \ {h} : pc'[u] = pc[u] /\ sid'[u] = sid[u]
    BY <1>0, <2>2
  <2>4. CASE HasAsked(h)
    <3>1. sid[h] \in Sessions /\ Abandon(h, sid[h])
      BY <1>4, <2>1, <2>4 DEF HookDropped, HasAsked, TypeInv, SessionResolved
    <3>2. CASE holder[sid[h]] = h
      <4>1. Unlock(sid[h])
        BY <3>1, <3>2 DEF Abandon
      <4> QED
        BY <2>1, <2>3, <3>1, <3>2, <4>1, LockReleased
    <3>3. CASE holder[sid[h]] # h
      BY <2>1, <2>3, <3>1, <3>3, QueueLeft
    <3> QED
      BY <3>2, <3>3
  <2>5. CASE ~HasAsked(h)
    <3>1. UNCHANGED <<holder, waiting>>
      BY <1>4, <2>5 DEF HookDropped, HasAsked
    <3> QED
      BY <2>3, <2>5, <3>1, LocksUntouched DEF HasAsked
  <2> QED
    BY <2>4, <2>5
<1>5. ASSUME NEW c \in Conns, Receive(c) PROVE LockAccounting'
  <2>1. /\ pc[c] = "recv"
        /\ UNCHANGED <<holder, waiting, sid>>
        /\ \A u \in Tasks \ {c} : pc'[u] = pc[u]
    BY <1>0, <1>5 DEF Receive, GoTo, storeVars
  <2>2. pc'[c] \in {"resolve", "reply", "recv", "closed"}
    <3>1. inbox[c] \in Seq(Frames) /\ inbox[c] # <<>>
      BY <1>5 DEF Receive, TypeInv, TypeOK
    <3>2. Head(inbox[c]).kind \in {"text", "garbled", "ping", "close"}
      BY <3>1 DEF Frames
    <3> QED
      BY <1>0, <1>5, <3>2 DEF Receive, After, GoTo
  <2> QED
    BY <2>1, <2>2, LocksUntouched DEF HasAsked
<1>6. ASSUME NEW c \in Conns, ReceiveDuringTurn(c) PROVE LockAccounting'
  <2>1. CASE UNCHANGED <<storeVars, pc, sid, created, reply>>
    BY <2>1, LocksUntouched DEF storeVars
  <2>2. CASE Unlock(sid[c]) /\ Finish(c, "closed")
    <3>1. c \in Tasks /\ HasAsked(c) /\ sid[c] \in Sessions
      BY <1>6 DEF ReceiveDuringTurn, Granted, HasAsked, TypeInv, SessionResolved
    <3>2. holder[sid[c]] = c
      BY <1>6 DEF ReceiveDuringTurn, Granted, LockAccounting, TurnsHoldTheLock, InTurn
    <3>3. /\ pc'[c] \notin {"queued", "turn", "persist"}
          /\ \A u \in Tasks \ {c} : pc'[u] = pc[u] /\ sid'[u] = sid[u]
      BY <1>0, <2>2 DEF Finish, GoTo
    <3> QED
      BY <2>2, <3>1, <3>2, <3>3, LockReleased
  <2> QED
    BY <1>6, <2>1, <2>2 DEF ReceiveDuringTurn
<1>7. ASSUME NEW t \in Tasks, Resolve(t) PROVE LockAccounting'
  <2>1. /\ ~HasAsked(t)
        /\ pc'[t] \notin {"queued", "turn", "persist"}
        /\ \A u \in Tasks \ {t} : pc'[u] = pc[u] /\ sid'[u] = sid[u]
    BY <1>0, <1>7 DEF Resolve, GoTo, HasAsked
  <2>2. CASE named[t] \in live
    BY <1>7, <2>1, <2>2, LocksUntouched DEF Resolve, storeVars
  <2>3. CASE named[t] \notin live
    <3>1. PICK s \in Sessions : Fresh(s) /\ Create(s)
      BY <1>7, <2>3 DEF Resolve
    <3>2. holder[s] = NoTask
      BY <1>0, <3>1 DEF Fresh, LockAccounting, HoldersAreInside
    <3>3. waiting[s] = <<>>
      BY <3>2 DEF LockAccounting, NobodyWaitsForAFreeLock
    <3>4. UNCHANGED <<holder, waiting>>
      BY <1>0, <3>1, <3>2, <3>3 DEF Create
    <3> QED
      BY <2>1, <3>4, LocksUntouched
  <2> QED
    BY <2>2, <2>3
<1>8. ASSUME NEW t \in Tasks, CheckLimit(t) PROVE LockAccounting'
  BY <1>0, <1>8, LocksUntouched DEF CheckLimit, Answer, GoTo, HasAsked, storeVars
<1>9. ASSUME NEW t \in Tasks, Lookup(t) PROVE LockAccounting'
  <2>1. UNCHANGED <<holder, waiting>> /\ pc[t] = "lookup"
    BY <1>9 DEF Lookup, storeVars
  <2>2. /\ pc'[t] \notin {"queued", "turn", "persist"}
        /\ \A u \in Tasks \ {t} : pc'[u] = pc[u] /\ sid'[u] = sid[u]
    BY <1>0, <1>9 DEF Lookup, Answer, GoTo
  <2> QED
    BY <2>1, <2>2, LocksUntouched DEF HasAsked
<1>10. ASSUME NEW t \in Tasks, RequestLock(t) PROVE LockAccounting'
  BY <1>10, LockRequested DEF RequestLock, GoTo
<1>11. ASSUME NEW t \in Tasks, StartTurn(t) \/ ToolRound(t) \/ TurnAnswers(t)
       PROVE  LockAccounting'
  <2>1. /\ UNCHANGED <<holder, waiting, sid>>
        /\ \A u \in Tasks \ {t} : pc'[u] = pc[u]
        /\ pc'[t] \in {"turn", "persist"}
    BY <1>0, <1>11 DEF StartTurn, ToolRound, TurnAnswers, GoTo, pathVars
  <2>2. HasAsked(t) /\ holder[sid[t]] = t
    BY <1>11 DEF StartTurn, ToolRound, TurnAnswers, Granted, HasAsked, InTurn,
                 LockAccounting, TurnsHoldTheLock
  <2> QED
    BY <2>1, <2>2, LocksUntouched
<1>12. ASSUME NEW t \in Tasks, TurnDone(t) \/ TurnFails(t) PROVE LockAccounting'
  <2>1. Unlock(sid[t]) /\ sid' = sid /\ InTurn(t)
    BY <1>12 DEF TurnDone, TurnFails, InTurn
  <2>2. sid[t] \in Sessions /\ holder[sid[t]] = t
    BY <2>1 DEF InTurn, TypeInv, SessionResolved, LockAccounting, TurnsHoldTheLock
  <2>3. /\ pc'[t] \notin {"queued", "turn", "persist"}
        /\ \A u \in Tasks \ {t} : pc'[u] = pc[u]
    BY <1>0, <1>12 DEF TurnDone, TurnFails, Answer, GoTo
  <2> QED
    BY <2>1, <2>2, <2>3, LockReleased
<1>13. ASSUME NEW t \in Tasks, SendReply(t) PROVE LockAccounting'
  <2>1. UNCHANGED <<holder, waiting>> /\ pc[t] = "reply"
    BY <1>13 DEF SendReply, storeVars
  <2>2. /\ pc'[t] \notin {"queued", "turn", "persist"}
        /\ \A u \in Tasks \ {t} : pc'[u] = pc[u] /\ sid'[u] = sid[u]
    BY <1>0, <1>13 DEF SendReply, Finish, GoTo
  <2> QED
    BY <2>1, <2>2, LocksUntouched DEF HasAsked
<1>14. ASSUME Heartbeat PROVE LockAccounting'
  BY <1>14, LocksUntouched DEF Heartbeat, CleanupExpired
<1>15. ASSUME NEW s \in Sessions, Replenish(s) PROVE LockAccounting'
  BY <1>15, LocksUntouched DEF Replenish, storeVars
<1>16. ASSUME Clock PROVE LockAccounting'
  BY <1>16, LocksUntouched DEF Clock, Tick, pathVars
<1>17. CASE UNCHANGED vars
  BY <1>17, LocksUntouched DEF vars, pathVars, storeVars
<1> QED
  BY <1>1, <1>2, <1>3, <1>4, <1>5, <1>6, <1>7, <1>8, <1>9, <1>10, <1>11, <1>12,
     <1>13, <1>14, <1>15, <1>16, <1>17
     DEF Next, Client, Handler

\* The permit of every session mutex is accounted for in every reachable state:
\* LockAccounting is an invariant, for any number of tasks and sessions.
THEOREM LocksAccounted == Spec => []LockAccounting
<1>1. Init => TypeInv /\ LockAccounting
  BY InitType, InitLocks
<1>2. (TypeInv /\ LockAccounting) /\ [Next]_vars => (TypeInv /\ LockAccounting)'
  BY NextType, NextLocks
<1> QED
  BY <1>1, <1>2, PTL DEF Spec

\* No two tasks ever run a turn on one session (session/mod.rs:5): both would
\* hold its mutex.
THEOREM MutualExclusion == Spec => []OneTurnPerSession
<1>1. LockAccounting => OneTurnPerSession
  BY DEF LockAccounting, TurnsHoldTheLock, OneTurnPerSession
<1> QED
  BY <1>1, LocksAccounted, PTL

\* cleanup_expired never takes a session away from a task that works on it or
\* is queued for it, nor before its timeout (EvictionSafe): try_lock fails as
\* long as the permit is held or on its way to a waiter.
THEOREM EvictionIsSafe == Spec => EvictionSafe
<1> DEFINE A == \A s \in live \ live' :
                  /\ idle[s] = IdleTimeout
                  /\ \A t \in Tasks : sid[t] = s => ~HasAsked(t)
<1>1. TypeInv /\ LockAccounting /\ [Next]_vars => [A]_vars
  <2> SUFFICES ASSUME TypeInv, LockAccounting, Next, NEW s \in live, s \notin live'
               PROVE  /\ idle[s] = IdleTimeout
                      /\ \A t \in Tasks : sid[t] = s => ~HasAsked(t)
    OBVIOUS
  <2> USE TasksAssumption
  <2>1. s \in Sessions /\ idle[s] \in 0..IdleTimeout
    BY DEF TypeInv, TypeOK, StoreTypeOK
  <2>2. CASE Heartbeat
    <3>1. holder[s] = NoTask /\ ~(idle[s] < IdleTimeout)
      BY <2>2 DEF Heartbeat, CleanupExpired, Keep
    <3>2. idle[s] = IdleTimeout
      BY <2>1, <3>1, IdleTimeoutAssumption
    <3>3. ASSUME NEW t \in Tasks, sid[t] = s, HasAsked(t) PROVE FALSE
      <4>1. holder[s] # t
        BY <3>1, NoTaskAssumption
      <4>2. InQueue(t, s)
        BY <3>3, <4>1 DEF HasAsked, InTurn, LockAccounting, TurnsHoldTheLock, WaitersAreServed
      <4>3. waiting[s] # <<>>
        BY <4>2 DEF InQueue
      <4> QED
        BY <2>1, <3>1, <4>3 DEF LockAccounting, NobodyWaitsForAFreeLock
    <3> QED
      BY <3>2, <3>3
  <2>3. CASE ~Heartbeat
    <3>1. live \subseteq live'
      <4>1. ASSUME NEW t \in Tasks, Handler(t) PROVE live \subseteq live'
        BY <4>1 DEF Handler, Resolve, Create, CheckLimit, Lookup, RequestLock, Lock,
                    StartTurn, ToolRound, TurnAnswers, TurnDone, TurnFails, Unlock,
                    SendReply, storeVars
      <4>2. ASSUME NEW c \in Conns, Receive(c) \/ ReceiveDuringTurn(c) PROVE live \subseteq live'
        BY <4>2 DEF Receive, ReceiveDuringTurn, Unlock, storeVars
      <4>3. ASSUME Client PROVE live \subseteq live'
        BY <4>3 DEF Client, Connect, FrameArrives, HookCalled, HookDropped, Abandon,
                    Unlock, storeVars
      <4>4. ASSUME NEW u \in Sessions, Replenish(u) PROVE live \subseteq live'
        BY <4>4 DEF Replenish, storeVars
      <4>5. ASSUME Clock PROVE live \subseteq live'
        BY <4>5 DEF Clock, Tick
      <4> QED
        BY <2>3, <4>1, <4>2, <4>3, <4>4, <4>5 DEF Next
    <3> QED
      BY <3>1
  <2> QED
    BY <2>2, <2>3
<1>2. Spec => [](TypeInv /\ LockAccounting)
  BY InitType, InitLocks, NextType, NextLocks, PTL DEF Spec
<1>3. Spec => [][A]_vars
  BY <1>1, <1>2, PTL DEF Spec
<1> QED
  BY <1>3 DEF EvictionSafe

-----------------------------------------------------------------------------
(* Order of service.                                                       *)

\* Those who are before position i of the queue q.
Ahead(q, i) == {q[j] : j \in 1..(i - 1)}

\* Nobody who is still in the queue q when it has become r has got anybody before
\* him who was not there already.
KeepsOrder(q, r) ==
  \A i \in 1..Len(q), k \in 1..Len(r) : r[k] = q[i] => Ahead(r, k) \subseteq Ahead(q, i)

\* While tasks queue for the mutex of s, it goes to the first of them and to nobody
\* else, and no task overtakes another.
Served(s) ==
  /\ KeepsOrder(waiting[s], waiting'[s])
  /\ waiting[s] # <<>> => holder'[s] \in {holder[s], Head(waiting[s])}

\* The mutex of a session is fair (arc.lock().await, api/ws.rs:122 and
\* api/webhook.rs:86), whoever leaves its queue, joins it or is cut off, and whether
\* the heartbeat still finds the session in the store or not.
FirstComeFirstServed == [][\A s \in Sessions : Served(s)]_vars

\* A queue that nobody is in twice.
Distinct(q) == \A i, j \in 1..Len(q) : q[i] = q[j] => i = j

\* Whoever joins a queue he is not in goes to its end.
LEMMA JoiningKeepsOrder ==
  ASSUME NEW S, NEW q \in Seq(S), NEW t \in S, Distinct(q), \A i \in 1..Len(q) : q[i] # t
  PROVE  KeepsOrder(q, Append(q, t))
<1> SUFFICES ASSUME NEW i \in 1..Len(q), NEW k \in 1..Len(Append(q, t)), Append(q, t)[k] = q[i]
             PROVE  Ahead(Append(q, t), k) \subseteq Ahead(q, i)
  BY DEF KeepsOrder
<1>1. k \in 1..Len(q) /\ k = i
  BY DEF Distinct
<1>2. \A j \in 1..(k - 1) : Append(q, t)[j] = q[j]
  BY <1>1
<1> QED
  BY <1>1, <1>2 DEF Ahead

\* Whoever leaves a queue, from whatever place, changes the order of no others.
LEMMA LeavingKeepsOrder ==
  ASSUME NEW S, NEW q \in Seq(S), NEW p \in 1..Len(q), Distinct(q)
  PROVE  KeepsOrder(q, Without(q, p))
<1> DEFINE from(j) == IF j < p THEN j ELSE j + 1
<1>1. Len(Without(q, p)) = Len(q) - 1
  BY WithoutType
<1>2. \A j \in 1..(Len(q) - 1) : Without(q, p)[j] = q[from(j)] /\ from(j) \in 1..Len(q)
  BY DEF Without
<1> SUFFICES ASSUME NEW i \in 1..Len(q), NEW k \in 1..(Len(q) - 1), Without(q, p)[k] = q[i]
             PROVE  Ahead(Without(q, p), k) \subseteq Ahead(q, i)
  BY <1>1 DEF KeepsOrder
<1>3. from(k) = i
  BY <1>2 DEF Distinct
<1>4. ASSUME NEW j \in 1..(k - 1)
      PROVE  Without(q, p)[j] = q[from(j)] /\ from(j) \in 1..(i - 1)
  BY <1>2, <1>3
<1> QED
  BY <1>4 DEF Ahead

\* Neither does the first, when the lock is handed to him.
LEMMA ServingKeepsOrder ==
  ASSUME NEW S, NEW q \in Seq(S), q # <<>>, Distinct(q)
  PROVE  KeepsOrder(q, Tail(q))
<1>1. Len(Tail(q)) = Len(q) - 1 /\ \A j \in 1..(Len(q) - 1) : Tail(q)[j] = q[j + 1]
  OBVIOUS
<1> SUFFICES ASSUME NEW i \in 1..Len(q), NEW k \in 1..(Len(q) - 1), Tail(q)[k] = q[i]
             PROVE  Ahead(Tail(q), k) \subseteq Ahead(q, i)
  BY <1>1 DEF KeepsOrder
<1>2. k + 1 = i
  BY <1>1 DEF Distinct
<1>3. ASSUME NEW j \in 1..(k - 1)
      PROVE  Tail(q)[j] = q[j + 1] /\ j + 1 \in 1..(i - 1)
  BY <1>1, <1>2
<1> QED
  BY <1>3 DEF Ahead

\* What a step does to one mutex leaves every queue in its order.
LEMMA MutexServes ==
  ASSUME TypeInv, LockAccounting, NEW s \in Sessions, NEW t \in Tasks, NEW u \in Sessions,
         \/ UNCHANGED <<holder, waiting>>
         \/ pc[t] = "lock" /\ Lock(t, u)
         \/ Unlock(u)
         \/ Abandon(t, u)
  PROVE  Served(s)
<1>1. /\ waiting \in [Sessions -> Seq(Tasks)] /\ waiting[s] \in Seq(Tasks)
      /\ holder \in [Sessions -> Tasks \cup {NoTask}]
  BY DEF TypeInv, TypeOK, StoreTypeOK
<1>2. Distinct(waiting[s])
  BY DEF LockAccounting, QueuesAreExact, Distinct
<1>3. ASSUME waiting'[s] = waiting[s], holder'[s] = holder[s] PROVE Served(s)
  <2>1. KeepsOrder(waiting[s], waiting[s])
    BY <1>1, <1>2 DEF KeepsOrder, Distinct
  <2> QED
    BY <1>3, <2>1 DEF Served
<1>4. ASSUME Unlock(u) PROVE Served(s)
  <2>1. CASE u = s /\ waiting[s] # <<>>
    <3>1. waiting'[s] = Tail(waiting[s]) /\ holder'[s] = Head(waiting[s])
      BY <1>1, <1>4, <2>1 DEF Unlock
    <3> QED
      BY <1>1, <1>2, <2>1, <3>1, ServingKeepsOrder DEF Served
  <2>2. CASE u = s /\ waiting[s] = <<>>
    BY <1>4, <2>2 DEF Unlock, Served, KeepsOrder
  <2>3. CASE u # s
    BY <1>1, <1>3, <1>4, <2>3 DEF Unlock
  <2> QED
    BY <2>1, <2>2, <2>3
<1>5. CASE pc[t] = "lock" /\ Lock(t, u)
  <2>1. CASE u = s /\ holder[s] # NoTask
    <3>1. waiting'[s] = Append(waiting[s], t) /\ holder'[s] = holder[s]
      BY <1>1, <1>5, <2>1 DEF Lock
    <3>2. \A i \in 1..Len(waiting[s]) : waiting[s][i] # t
      BY <1>5 DEF LockAccounting, QueuesAreExact
    <3> QED
      BY <1>1, <1>2, <3>1, <3>2, JoiningKeepsOrder DEF Served
  <2>2. CASE u = s /\ holder[s] = NoTask
    <3>1. waiting[s] = <<>>
      BY <2>2 DEF LockAccounting, NobodyWaitsForAFreeLock
    <3> QED
      BY <3>1 DEF Served, KeepsOrder
  <2>3. CASE u # s
    BY <1>1, <1>3, <1>5, <2>3 DEF Lock
  <2> QED
    BY <2>1, <2>2, <2>3
<1>6. CASE Abandon(t, u)
  <2>1. CASE holder[u] = t
    BY <1>4, <1>6, <2>1 DEF Abandon
  <2>2. CASE holder[u] # t
    <3>1. PICK p \in 1..Len(waiting[u]) :
            waiting' = [waiting EXCEPT ![u] = Without(waiting[u], p)] /\ UNCHANGED holder
      BY <1>6, <2>2 DEF Abandon
    <3>2. CASE u = s
      <4>1. waiting'[s] = Without(waiting[s], p) /\ holder' = holder
        BY <1>1, <3>1, <3>2
      <4>2. KeepsOrder(waiting[s], Without(waiting[s], p))
        BY <1>1, <1>2, <3>2, LeavingKeepsOrder
      <4> QED
        BY <4>1, <4>2 DEF Served
    <3>3. CASE u # s
      BY <1>1, <1>3, <3>1, <3>3
    <3> QED
      BY <3>2, <3>3
  <2> QED
    BY <2>1, <2>2
<1> QED
  BY <1>3, <1>4, <1>5, <1>6

\* So does every step of the specification.
LEMMA NextServes == TypeInv /\ LockAccounting /\ [Next]_vars => \A s \in Sessions : Served(s)
<1> SUFFICES ASSUME TypeInv, LockAccounting, [Next]_vars, NEW s \in Sessions PROVE Served(s)
  OBVIOUS
<1> USE TasksAssumption
<1>a. ASSUME UNCHANGED <<holder, waiting>> PROVE Served(s)
  <2>1. KeepsOrder(waiting[s], waiting[s])
    BY DEF KeepsOrder, LockAccounting, QueuesAreExact
  <2> QED
    BY <1>a, <2>1 DEF Served
<1>b. ASSUME NEW t \in Tasks, sid[t] \in Sessions,
             (pc[t] = "lock" /\ Lock(t, sid[t])) \/ Unlock(sid[t]) \/ Abandon(t, sid[t])
      PROVE  Served(s)
  BY <1>b, MutexServes
<1>1. ASSUME NEW t \in Tasks, Resolve(t) PROVE Served(s)
  <2>1. CASE named[t] \in live
    BY <1>1, <1>a, <2>1 DEF Resolve, storeVars
  <2>2. CASE named[t] \notin live
    <3>1. PICK u \in Sessions : Fresh(u) /\ Create(u)
      BY <1>1, <2>2 DEF Resolve
    <3>2. holder[u] = NoTask
      BY <3>1 DEF Fresh, LockAccounting, HoldersAreInside, TypeInv, TypeOK, StoreTypeOK
    <3>3. waiting[u] = <<>>
      BY <3>2 DEF LockAccounting, NobodyWaitsForAFreeLock
    <3>4. UNCHANGED <<holder, waiting>>
      BY <3>1, <3>2, <3>3 DEF Create, TypeInv, TypeOK, StoreTypeOK
    <3> QED
      BY <1>a, <3>4
  <2> QED
    BY <2>1, <2>2
<1>2. ASSUME NEW t \in Tasks, CheckLimit(t) \/ Lookup(t) \/ StartTurn(t) \/ ToolRound(t)
                                \/ TurnAnswers(t) \/ SendReply(t)
      PROVE  Served(s)
  BY <1>2, <1>a DEF CheckLimit, Lookup, StartTurn, ToolRound, TurnAnswers, SendReply, storeVars
<1>3. ASSUME NEW t \in Tasks, RequestLock(t) \/ TurnDone(t) \/ TurnFails(t) PROVE Served(s)
  <2>1. (pc[t] = "lock" /\ Lock(t, sid[t])) \/ Unlock(sid[t])
    BY <1>3 DEF RequestLock, TurnDone, TurnFails
  <2>2. sid[t] \in Sessions
    BY <1>3 DEF RequestLock, TurnDone, TurnFails, TypeInv, SessionResolved
  <2> QED
    BY <1>b, <2>1, <2>2
<1>4. ASSUME NEW c \in Conns, Receive(c) PROVE Served(s)
  BY <1>4, <1>a DEF Receive, storeVars
<1>5. ASSUME NEW c \in Conns, ReceiveDuringTurn(c) PROVE Served(s)
  <2>1. c \in Tasks /\ sid[c] \in Sessions
    BY <1>5 DEF ReceiveDuringTurn, Granted, TypeInv, SessionResolved
  <2>2. UNCHANGED storeVars \/ Unlock(sid[c])
    BY <1>5 DEF ReceiveDuringTurn
  <2> QED
    BY <1>a, <1>b, <2>1, <2>2 DEF storeVars
<1>6. ASSUME NEW h \in Hooks, HookDropped(h) PROVE Served(s)
  <2>1. CASE HasAsked(h)
    BY <1>6, <1>b, <2>1 DEF HookDropped, HasAsked, TypeInv, SessionResolved
  <2>2. CASE ~HasAsked(h)
    BY <1>6, <1>a, <2>2 DEF HookDropped, HasAsked
  <2> QED
    BY <2>1, <2>2
<1>7. ASSUME Client PROVE Served(s)
  <2>1. ASSUME NEW c \in Conns, NEW f \in Frames, Connect(c) \/ FrameArrives(c, f)
        PROVE  Served(s)
    BY <2>1, <1>a DEF Connect, FrameArrives, storeVars
  <2>2. ASSUME NEW c \in Conns, Connect(c) PROVE Served(s)
    BY <2>2, <1>a DEF Connect, storeVars
  <2>3. ASSUME NEW h \in Hooks, NEW u \in Optional, HookCalled(h, u) PROVE Served(s)
    BY <2>3, <1>a DEF HookCalled, storeVars
  <2> QED
    BY <1>6, <1>7, <2>1, <2>2, <2>3 DEF Client
<1>8. CASE Heartbeat \/ Clock \/ \E u \in Sessions : Replenish(u)
  BY <1>8, <1>a DEF Heartbeat, CleanupExpired, Clock, Tick, Replenish, storeVars
<1>9. CASE UNCHANGED vars
  BY <1>9, <1>a DEF vars, storeVars
<1> QED
  BY <1>1, <1>2, <1>3, <1>4, <1>5, <1>7, <1>8, <1>9 DEF Next, Handler

\* Requests for one session are worked on in the order in which they asked for it:
\* the queue of every mutex is served from its head, and no task overtakes another.
THEOREM SessionsServeInOrder == Spec => FirstComeFirstServed
<1>1. Spec => [](TypeInv /\ LockAccounting)
  BY InitType, InitLocks, NextType, NextLocks, PTL DEF Spec
<1>2. TypeInv /\ LockAccounting /\ [Next]_vars => [\A s \in Sessions : Served(s)]_vars
  BY NextServes
<1> QED
  BY <1>1, <1>2, PTL DEF Spec, FirstComeFirstServed

-----------------------------------------------------------------------------
(* Buckets.  That a new session is admitted is not inductive: nobody else may *)
(* get to its bucket before its first request, because nobody else can name it.*)

\* What clients say, have said or may say: the sessions in their messages, and
\* those they have been told of.
Named ==
  {s \in Sessions :
     \/ s \in known
     \/ \E t \in Tasks : named[t] = s
     \/ \E c \in Conns : \E i \in 1..Len(inbox[c]) : inbox[c][i].session = s}

\* Clients name no session that is not in the store.
NamesAreLive == Named \subseteq live

\* A reply tells its client of the session of its request, and of no other.
RepliesAreOwn ==
  \A t \in Tasks :
    reply[t].session # NoSession => pc[t] = "reply" /\ reply[t].session = sid[t]

\* A session whose first request is before the limiter is unknown to all others,
\* and its bucket is full.
NewIsUnknown ==
  \A t \in Tasks : created[t] /\ pc[t] = "limit" =>
    /\ tokens[sid[t]] = RateLimit
    /\ sid[t] \notin Named
    /\ \A u \in Tasks : sid[u] = sid[t] => u = t

Admission == NamesAreLive /\ RepliesAreOwn /\ NewIsUnknown /\ NewSessionAdmitted

LEMMA InitAdmission == Init => Admission
BY NoSessionAssumption
   DEF Init, StoreInit, Admission, NamesAreLive, Named, RepliesAreOwn,
       NoReply, NewIsUnknown, NewSessionAdmitted

\* A step in which no task moves keeps the invariant, if what clients name was
\* named before and is still there, and no bucket that is full loses a cell.
LEMMA AdmissionAround ==
  ASSUME TypeInv, Admission, UNCHANGED <<pc, sid, created, reply>>,
         \A s \in Sessions : tokens[s] = RateLimit => tokens'[s] = RateLimit,
         Named' \subseteq Named \cap live'
  PROVE  Admission'
<1>1. NamesAreLive'
  BY DEF NamesAreLive
<1>2. RepliesAreOwn'
  BY DEF Admission, RepliesAreOwn
<1>3. NewIsUnknown'
  BY DEF Admission, NewIsUnknown, TypeInv, SessionResolved
<1>4. NewSessionAdmitted'
  BY DEF Admission, NewSessionAdmitted
<1> QED
  BY <1>1, <1>2, <1>3, <1>4 DEF Admission

\* So does a step of t that creates no session and takes cells from no bucket but
\* its own: whatever t learns or says is known to be no session that is new to
\* another task.
LEMMA AdmissionStep ==
  ASSUME TypeInv, Admission, NEW t \in Tasks, live' = live,
         \A u \in Tasks \ {t} : /\ pc'[u] = pc[u] /\ sid'[u] = sid[u]
                                /\ created'[u] = created[u] /\ reply'[u] = reply[u],
         sid'[t] \in {sid[t], NoSession} \/ sid'[t] \in Named,
         ~(created'[t] /\ pc'[t] = "limit"),
         reply'[t].session # NoSession => pc'[t] = "reply" /\ reply'[t].session = sid'[t],
         pc'[t] = "reply" /\ created'[t] => reply'[t].kind # "rate_limited",
         \A s \in Sessions \ {sid[t]} : tokens'[s] = tokens[s],
         Named' \subseteq Named \cup ({reply[t].session} \cap live)
  PROVE  Admission'
<1>1. NamesAreLive'
  BY DEF Admission, NamesAreLive
<1>2. RepliesAreOwn'
  BY DEF Admission, RepliesAreOwn
<1>3. NewIsUnknown'
  <2> SUFFICES ASSUME NEW u \in Tasks, created'[u], pc'[u] = "limit"
               PROVE  /\ tokens'[sid'[u]] = RateLimit
                      /\ sid'[u] \notin Named'
                      /\ \A v \in Tasks : sid'[v] = sid'[u] => v = u
    BY DEF NewIsUnknown
  <2>1. u # t /\ created[u] /\ pc[u] = "limit" /\ sid'[u] = sid[u]
    OBVIOUS
  <2>2. /\ tokens[sid[u]] = RateLimit /\ sid[u] \notin Named
        /\ \A v \in Tasks : sid[v] = sid[u] => v = u
    BY <2>1 DEF Admission, NewIsUnknown
  <2>3. sid[u] \in Sessions /\ sid[u] # NoSession /\ sid[u] # sid[t]
    BY <2>1, <2>2, NoSessionAssumption DEF TypeInv, SessionResolved
  <2>4. reply[t].session # sid[u]
    BY <2>3 DEF Admission, RepliesAreOwn
  <2>5. \A v \in Tasks : sid'[v] = sid[u] => v = u
    BY <2>2, <2>3
  <2> QED
    BY <2>1, <2>2, <2>3, <2>4, <2>5
<1>4. NewSessionAdmitted'
  BY DEF Admission, NewSessionAdmitted
<1> QED
  BY <1>1, <1>2, <1>3, <1>4 DEF Admission

LEMMA NextAdmission == TypeInv /\ Admission /\ [Next]_vars => Admission'
<1> SUFFICES ASSUME TypeInv, Admission, [Next]_vars PROVE Admission'
  OBVIOUS
<1> USE TasksAssumption
<1>0. /\ pc \in [Tasks -> Locations] /\ sid \in [Tasks -> Optional]
      /\ named \in [Tasks -> Optional] /\ created \in [Tasks -> BOOLEAN]
      /\ reply \in [Tasks -> Replies] /\ inbox \in [Conns -> Seq(Frames)]
      /\ tokens \in [Sessions -> 0..RateLimit] /\ known \subseteq live
      /\ live \subseteq Sessions
  BY DEF TypeInv, TypeOK, StoreTypeOK
\* What was named, for steps that change none of it.
<1>a. ASSUME UNCHANGED <<named, inbox, known>> PROVE Named' = Named
  BY <1>a DEF Named
<1>b. NoReply.session = NoSession /\ NoReply.kind = "none"
  BY DEF NoReply
<1>c. ASSUME NEW t \in Tasks, pc[t] # "reply" PROVE reply[t].session = NoSession
  BY <1>c DEF Admission, RepliesAreOwn
<1>d. ASSUME NEW t \in Tasks, UNCHANGED tokens, live' = live, NEW where \in {"closed", "recv"},
             Finish(t, where),
             Named' \subseteq Named \cup ({reply[t].session} \cap live)
      PROVE  Admission'
  BY <1>0, <1>b, <1>d, AdmissionStep DEF Finish, GoTo
\* A queue of frames loses its first.
<1>e. ASSUME NEW c \in Conns, inbox[c] # <<>>, inbox' = [inbox EXCEPT ![c] = Tail(@)]
      PROVE  /\ \A d \in Conns : \A i \in 1..Len(inbox'[d]) :
                  \E j \in 1..Len(inbox[d]) : inbox'[d][i] = inbox[d][j]
             /\ \E j \in 1..Len(inbox[c]) : Head(inbox[c]) = inbox[c][j]
  <2>1. inbox[c] \in Seq(Frames)
    BY <1>0
  <2>2. /\ Len(Tail(inbox[c])) = Len(inbox[c]) - 1 /\ Len(inbox[c]) \in Nat \ {0}
        /\ \A i \in 1..Len(Tail(inbox[c])) : Tail(inbox[c])[i] = inbox[c][i + 1]
        /\ Head(inbox[c]) = inbox[c][1]
    BY <1>e, <2>1
  <2>3. ASSUME NEW i \in 1..Len(Tail(inbox[c]))
        PROVE  i + 1 \in 1..Len(inbox[c]) /\ Tail(inbox[c])[i] = inbox[c][i + 1]
    BY <2>2
  <2>4. \A d \in Conns \ {c} : inbox'[d] = inbox[d]
    BY <1>0, <1>e
  <2>5. inbox'[c] = Tail(inbox[c])
    BY <1>0, <1>e
  <2>6. ASSUME NEW d \in Conns, NEW i \in 1..Len(inbox'[d])
        PROVE  \E j \in 1..Len(inbox[d]) : inbox'[d][i] = inbox[d][j]
    BY <2>3, <2>4, <2>5
  <2>7. 1 \in 1..Len(inbox[c])
    BY <2>2
  <2> QED
    BY <2>2, <2>6, <2>7
<1>1. ASSUME NEW c \in Conns, Connect(c) PROVE Admission'
  <2>1. Named' \subseteq Named
    BY <1>0, <1>1 DEF Connect, Named
  <2>2. pc[c] # "reply" /\ pc' = [pc EXCEPT ![c] = "recv"]
    BY <1>1 DEF Connect, GoTo
  <2> QED
    BY <1>0, <1>1, <1>c, <2>1, <2>2, AdmissionStep DEF Connect, storeVars
<1>2. ASSUME NEW c \in Conns, NEW f \in Frames, FrameArrives(c, f) PROVE Admission'
  <2>1. inbox[c] \in Seq(Frames) /\ inbox'[c] = Append(inbox[c], f)
        /\ \A d \in Conns \ {c} : inbox'[d] = inbox[d]
    BY <1>0, <1>2 DEF FrameArrives
  <2>2. ASSUME NEW i \in 1..Len(inbox'[c])
        PROVE  \/ inbox'[c][i] = f
               \/ i \in 1..Len(inbox[c]) /\ inbox'[c][i] = inbox[c][i]
    <3>1. Len(inbox'[c]) = Len(inbox[c]) + 1 /\ Len(inbox[c]) \in Nat
      BY <2>1
    <3>2. CASE i \in 1..Len(inbox[c])
      BY <2>1, <3>2
    <3>3. CASE i = Len(inbox[c]) + 1
      <4>1. Append(inbox[c], f)[Len(inbox[c]) + 1] = f
        BY <2>1, AppendProperties
      <4> QED
        BY <2>1, <3>3, <4>1
    <3> QED
      BY <3>1, <3>2, <3>3
  <2>3. f.session \in known \cup {NoSession}
    BY <1>2 DEF FrameArrives
  <2>4. ASSUME NEW s \in Named' PROVE s \in Named
    BY <1>2, <2>1, <2>2, <2>3, <2>4, NoSessionAssumption DEF FrameArrives, Named
  <2>5. UNCHANGED <<live, pc, sid, created, reply, tokens>>
    BY <1>2 DEF FrameArrives, storeVars
  <2> QED
    BY <2>4, <2>5, AdmissionAround DEF Admission, NamesAreLive
<1>3. ASSUME NEW h \in Hooks, NEW s \in Optional, HookCalled(h, s) PROVE Admission'
  <2>1. ASSUME NEW u \in Named' PROVE u \in Named
    BY <1>0, <1>3, <2>1, NoSessionAssumption DEF HookCalled, Named
  <2>2. pc[h] # "reply" /\ pc' = [pc EXCEPT ![h] = "resolve"]
    BY <1>3 DEF HookCalled, GoTo
  <2> QED
    BY <1>0, <1>3, <1>c, <2>1, <2>2, AdmissionStep DEF HookCalled, storeVars
<1>4. ASSUME NEW h \in Hooks, HookDropped(h) PROVE Admission'
  <2>1. live' = live
    BY <1>4 DEF HookDropped, Abandon, Unlock
  <2>2. ASSUME NEW u \in Named' PROVE u \in Named
    BY <1>0, <1>4, <2>2, NoSessionAssumption DEF HookDropped, Named
  <2> QED
    BY <1>4, <1>d, <2>1, <2>2 DEF HookDropped
<1>5. ASSUME NEW c \in Conns, Receive(c) PROVE Admission'
  <2>1. PICK j \in 1..Len(inbox[c]) : Head(inbox[c]) = inbox[c][j]
    BY <1>5, <1>e DEF Receive
  <2>2. named' = [named EXCEPT ![c] = inbox[c][j].session]
    BY <1>5, <2>1 DEF Receive
  <2>3. ASSUME NEW s \in Named' PROVE s \in Named
    <3>1. CASE s \in known'
      BY <1>5, <3>1 DEF Receive, Named
    <3>2. CASE \E t \in Tasks : named'[t] = s
      BY <1>0, <2>2, <3>2 DEF Named
    <3>3. CASE \E d \in Conns : \E i \in 1..Len(inbox'[d]) : inbox'[d][i].session = s
      BY <1>5, <1>e, <3>3 DEF Receive, Named
    <3> QED
      BY <2>3, <3>1, <3>2, <3>3 DEF Named
  <2>4. inbox[c] \in Seq(Frames) /\ inbox[c] # <<>>
    BY <1>0, <1>5 DEF Receive
  <2>5. Head(inbox[c]).kind \in {"text", "garbled", "ping", "close"}
    BY <2>4 DEF Frames
  <2>6. pc'[c] \in {"resolve", "reply", "recv", "closed"}
        /\ \A u \in Tasks \ {c} : pc'[u] = pc[u]
    BY <1>0, <1>5, <2>5 DEF Receive, After, GoTo
  <2>7. /\ reply'[c].session = NoSession /\ reply'[c].kind \in {"none", "parse_error"}
        /\ \A u \in Tasks \ {c} : reply'[u] = reply[u]
    BY <1>0, <1>5, <1>b DEF Receive
  <2> QED
    BY <1>5, <2>3, <2>6, <2>7, AdmissionStep DEF Receive, storeVars
<1>6. ASSUME NEW c \in Conns, ReceiveDuringTurn(c) PROVE Admission'
  <2>1. ASSUME NEW s \in Named' PROVE s \in Named
    BY <1>6, <1>e, <2>1 DEF ReceiveDuringTurn, Named
  <2>2. CASE UNCHANGED <<storeVars, pc, sid, created, reply>>
    BY <1>6, <2>1, <2>2, AdmissionAround DEF ReceiveDuringTurn, storeVars, Admission, NamesAreLive
  <2>3. CASE Unlock(sid[c]) /\ Finish(c, "closed")
    BY <1>6, <1>d, <2>1, <2>3 DEF ReceiveDuringTurn, Unlock
  <2> QED
    BY <1>6, <2>2, <2>3 DEF ReceiveDuringTurn
<1>7. ASSUME NEW t \in Tasks, Resolve(t) PROVE Admission'
  <2>1. /\ pc[t] = "resolve" /\ pc' = [pc EXCEPT ![t] = "limit"]
        /\ named' = [named EXCEPT ![t] = NoSession]
        /\ reply' = reply /\ inbox' = inbox /\ known' = known
    BY <1>7 DEF Resolve, GoTo
  <2>2. ASSUME NEW s \in Named' PROVE s \in Named
    BY <1>0, <2>1, <2>2, NoSessionAssumption DEF Named
  <2>3. reply[t].session = NoSession
    BY <1>c, <2>1
  <2>4. CASE named[t] \in live
    <3>1. /\ sid' = [sid EXCEPT ![t] = named[t]] /\ created' = [created EXCEPT ![t] = FALSE]
          /\ live' = live /\ tokens' = tokens
      BY <1>7, <2>4 DEF Resolve, storeVars
    <3>2. named[t] \in Named
      BY <1>0, <2>4 DEF Named
    <3> QED
      BY <1>0, <2>1, <2>2, <2>3, <3>1, <3>2, AdmissionStep
  <2>5. CASE named[t] \notin live
    <3>1. PICK s \in Sessions : /\ Fresh(s) /\ Create(s) /\ FullBucket(s)
                                /\ sid' = [sid EXCEPT ![t] = s]
      BY <1>7, <2>5 DEF Resolve
    <3>2. created' = [created EXCEPT ![t] = TRUE]
      BY <1>7, <2>5 DEF Resolve
    <3>3. s \notin live /\ s \notin Named /\ \A u \in Tasks : sid[u] # s
      BY <3>1 DEF Fresh, Admission, NamesAreLive
    <3>4. live' = live \cup {s} /\ tokens' = [tokens EXCEPT ![s] = RateLimit]
      BY <3>1 DEF Create, FullBucket
    <3>5. NamesAreLive'
      BY <2>2, <3>4 DEF Admission, NamesAreLive
    <3>6. RepliesAreOwn'
      BY <1>0, <2>1, <2>3, <3>1 DEF Admission, RepliesAreOwn
    <3>7. NewIsUnknown'
      <4> SUFFICES ASSUME NEW u \in Tasks, created'[u], pc'[u] = "limit"
                   PROVE  /\ tokens'[sid'[u]] = RateLimit
                          /\ sid'[u] \notin Named'
                          /\ \A v \in Tasks : sid'[v] = sid'[u] => v = u
        BY DEF NewIsUnknown
      <4>1. CASE u = t
        <5>1. sid'[u] = s
          BY <1>0, <3>1, <4>1
        <5> QED
          BY <1>0, <2>2, <3>1, <3>3, <3>4, <4>1, <5>1
      <4>2. CASE u # t
        <5>1. created[u] /\ pc[u] = "limit" /\ sid'[u] = sid[u] /\ sid[u] # s
          BY <1>0, <2>1, <3>1, <3>2, <3>3, <4>2
        <5>2. /\ sid[u] \in Sessions /\ tokens[sid[u]] = RateLimit
              /\ sid[u] \notin Named
              /\ \A v \in Tasks : sid[v] = sid[u] => v = u
          BY <5>1 DEF Admission, NewIsUnknown, TypeInv, SessionResolved
        <5> QED
          BY <1>0, <2>2, <3>1, <3>4, <4>2, <5>1, <5>2
      <4> QED
        BY <4>1, <4>2
    <3>8. NewSessionAdmitted'
      BY <1>0, <2>1, <3>2 DEF Admission, NewSessionAdmitted
    <3> QED
      BY <3>5, <3>6, <3>7, <3>8 DEF Admission
  <2> QED
    BY <2>4, <2>5
<1>8. ASSUME NEW t \in Tasks, CheckLimit(t) PROVE Admission'
  <2>1. /\ pc[t] = "limit" /\ reply[t].session = NoSession
        /\ UNCHANGED <<live, named, sid, created, inbox, known>>
    BY <1>8, <1>c DEF CheckLimit, storeVars
  <2>2. CASE Admits(sid[t])
    <3>1. TakeCell(sid[t]) /\ GoTo(t, "lookup") /\ UNCHANGED reply
      BY <1>8, <2>2 DEF CheckLimit
    <3>2. \A s \in Sessions \ {sid[t]} : tokens'[s] = tokens[s]
      BY <1>0, <3>1 DEF TakeCell
    <3> QED
      BY <1>0, <1>a, <2>1, <3>1, <3>2, AdmissionStep DEF GoTo
  <2>3. CASE ~Admits(sid[t])
    \* The bucket of a new session is full, so that t has not created its own.
    <3>1. ~created[t]
      <4>1. RateLimit \in Nat
        BY BoundsAssumption
      <4> QED
        BY <2>1, <2>3, <4>1 DEF Admits, Admission, NewIsUnknown
    <3>2. Answer(t, "rate_limited", NoSession) /\ UNCHANGED tokens
      BY <1>8, <2>3 DEF CheckLimit
    <3> QED
      BY <1>0, <1>a, <2>1, <3>1, <3>2, AdmissionStep DEF Answer, GoTo
  <2> QED
    BY <2>2, <2>3
<1>9. ASSUME NEW t \in Tasks, Lookup(t) PROVE Admission'
  <2>1. /\ pc[t] = "lookup" /\ reply[t].session = NoSession
        /\ UNCHANGED <<live, named, inbox, known, tokens>>
    BY <1>9, <1>c DEF Lookup, storeVars
  <2>2. CASE Answer(t, "session_error", NoSession) /\ UNCHANGED <<sid, created>>
    BY <1>0, <1>a, <2>1, <2>2, AdmissionStep DEF Answer, GoTo
  <2>3. CASE GoTo(t, "lock") /\ UNCHANGED <<sid, created, reply>>
    BY <1>0, <1>a, <2>1, <2>3, AdmissionStep DEF GoTo
  <2>4. CASE /\ GoTo(t, "closed") /\ UNCHANGED reply
             /\ sid' = [sid EXCEPT ![t] = NoSession]
             /\ created' = [created EXCEPT ![t] = FALSE]
    BY <1>0, <1>a, <2>1, <2>4, AdmissionStep DEF GoTo
  <2> QED
    BY <1>9, <2>2, <2>3, <2>4 DEF Lookup
<1>10. ASSUME NEW t \in Tasks, RequestLock(t) \/ StartTurn(t) \/ ToolRound(t) \/ TurnAnswers(t)
       PROVE  Admission'
  <2>1. /\ pc[t] # "reply"
        /\ UNCHANGED <<live, named, sid, created, reply, inbox, tokens, known>>
    BY <1>10 DEF RequestLock, Lock, StartTurn, Granted, ToolRound, TurnAnswers, pathVars
  <2>2. /\ pc'[t] \in {"queued", "turn", "persist"}
        /\ \A u \in Tasks \ {t} : pc'[u] = pc[u]
    BY <1>0, <1>10 DEF RequestLock, StartTurn, ToolRound, TurnAnswers, GoTo, pathVars
  <2> QED
    BY <1>a, <1>c, <2>1, <2>2, AdmissionStep
<1>11. ASSUME NEW t \in Tasks, TurnDone(t) \/ TurnFails(t) PROVE Admission'
  <2>1. UNCHANGED <<live, named, sid, created, inbox, tokens, known>>
    BY <1>11 DEF TurnDone, TurnFails, Unlock
  <2>2. PICK kind \in {"answer", "agent_error"}, s \in {sid[t], NoSession} : Answer(t, kind, s)
    BY <1>11 DEF TurnDone, TurnFails
  <2> QED
    BY <1>0, <1>a, <2>1, <2>2, AdmissionStep DEF Answer, GoTo
<1>12. ASSUME NEW t \in Tasks, SendReply(t) PROVE Admission'
  <2>1. UNCHANGED <<live, named, inbox, tokens>>
    BY <1>12 DEF SendReply, storeVars
  <2>2. ASSUME NEW s \in Named'
        PROVE  s \in Named \cup ({reply[t].session} \cap live)
    BY <1>12, <2>1, <2>2 DEF SendReply, Named
  <2> QED
    BY <1>12, <1>d, <2>1, <2>2 DEF SendReply
<1>13. ASSUME Heartbeat PROVE Admission'
  <2>1. /\ UNCHANGED <<pc, sid, created, reply, tokens>>
        /\ live' \subseteq live /\ known' = known \cap live'
        /\ named' = [t \in Tasks |-> KnownOrNone(named[t])]
    BY <1>13 DEF Heartbeat, CleanupExpired
  <2>2. ASSUME NEW x, NEW s \in Sessions, KnownOrNone(x) = s PROVE x = s /\ s \in live'
    BY <2>2, NoSessionAssumption DEF KnownOrNone
  <2>3. ASSUME NEW c \in Conns, NEW i \in 1..Len(inbox'[c])
        PROVE  /\ i \in 1..Len(inbox[c])
               /\ inbox'[c][i].session = KnownOrNone(inbox[c][i].session)
    <3>1. inbox[c] \in Seq(Frames)
      BY <1>0
    <3>2. inbox'[c] = [j \in 1..Len(inbox[c]) |->
                        [inbox[c][j] EXCEPT !.session = KnownOrNone(inbox[c][j].session)]]
      BY <1>13, <3>1 DEF Heartbeat
    <3>3. Len(inbox'[c]) = Len(inbox[c])
      BY <3>1, <3>2
    <3>4. inbox[c][i] \in Frames
      BY <3>1, <3>3
    <3> QED
      BY <3>2, <3>3, <3>4 DEF Frames
  <2>4. ASSUME NEW s \in Named' PROVE s \in Named \cap live'
    <3>1. s \in Sessions
      BY DEF Named
    <3>2. CASE s \in known'
      BY <2>1, <3>1, <3>2 DEF Named
    <3>3. CASE \E t \in Tasks : named'[t] = s
      <4>1. PICK t \in Tasks : KnownOrNone(named[t]) = s
        BY <2>1, <3>3
      <4> QED
        BY <2>2, <3>1, <4>1 DEF Named
    <3>4. CASE \E c \in Conns : \E i \in 1..Len(inbox'[c]) : inbox'[c][i].session = s
      <4>1. PICK c \in Conns : \E i \in 1..Len(inbox'[c]) : inbox'[c][i].session = s
        BY <3>4
      <4>2. PICK i \in 1..Len(inbox'[c]) : inbox'[c][i].session = s
        BY <4>1
      <4>3. i \in 1..Len(inbox[c]) /\ KnownOrNone(inbox[c][i].session) = s
        BY <2>3, <4>2
      <4> QED
        BY <2>2, <3>1, <4>3 DEF Named
    <3> QED
      BY <3>2, <3>3, <3>4 DEF Named
  <2> QED
    BY <2>1, <2>4, AdmissionAround
<1>14. ASSUME NEW s \in Sessions, Replenish(s) PROVE Admission'
  <2>1. /\ UNCHANGED <<live, pc, named, sid, created, reply, inbox, known>>
        /\ tokens[s] < RateLimit /\ tokens' = [tokens EXCEPT ![s] = @ + 1]
    BY <1>14 DEF Replenish, storeVars
  <2>2. \A u \in Sessions : tokens[u] = RateLimit => tokens'[u] = RateLimit
    BY <1>0, <2>1, BoundsAssumption
  <2> QED
    BY <1>a, <2>1, <2>2, AdmissionAround DEF Admission, NamesAreLive
<1>15. CASE Clock \/ UNCHANGED vars
  <2>1. UNCHANGED <<live, pathVars>>
    BY <1>15 DEF Clock, Tick, vars, storeVars
  <2> QED
    BY <1>a, <2>1, AdmissionAround DEF pathVars, Admission, NamesAreLive
<1> QED
  BY <1>1, <1>2, <1>3, <1>4, <1>5, <1>6, <1>7, <1>8, <1>9, <1>10, <1>11, <1>12,
     <1>13, <1>14, <1>15
     DEF Next, Client, Handler

\* "Each session gets its own independent bucket" (api/rate_limit.rs:4): the first
\* request of a session is not refused, whatever others send meanwhile.
THEOREM NewSessionsAreAdmitted == Spec => []NewSessionAdmitted
<1>1. Spec => [](TypeInv /\ Admission)
  BY InitType, InitAdmission, NextType, NextAdmission, PTL DEF Spec
<1>2. Admission => NewSessionAdmitted
  BY DEF Admission
<1> QED
  BY <1>1, <1>2, PTL

-----------------------------------------------------------------------------
(* Refinement, without fairness.                                           *)

Asked == [t \in Tasks |-> IF HasAsked(t) THEN sid[t] ELSE NoSession]
Working == [t \in Tasks |-> IF InTurn(t) THEN sid[t] ELSE NoSession]

\* A step that leaves the turns of all tasks as they are is a stutter.
LEMMA Stutters ==
  ASSUME \A t \in Tasks :
           \/ ~HasAsked(t) /\ pc'[t] \notin {"queued", "turn", "persist"}
           \/ /\ HasAsked(t) /\ HasAsked(t)' /\ InTurn(t)' = InTurn(t)
              /\ sid'[t] = sid[t]
  PROVE  UNCHANGED Turns!vars
<1>1. ASSUME NEW t \in Tasks PROVE Asked'[t] = Asked[t] /\ Working'[t] = Working[t]
  BY DEF Asked, Working, HasAsked, InTurn
<1>2. Asked' = Asked /\ Working' = Working
  BY <1>1 DEF Asked, Working
<1> QED
  BY <1>2 DEF Turns!vars, Asked, Working

\* The turn of t is over, or t has given up waiting for it.
LEMMA Leaves ==
  ASSUME NEW t \in Tasks, HasAsked(t), sid[t] # NoSession,
         pc'[t] \notin {"queued", "turn", "persist"},
         \A u \in Tasks \ {t} : pc'[u] = pc[u] /\ sid'[u] = sid[u]
  PROVE  Turns!End(t) \/ Turns!GiveUp(t)
<1> USE DEF HasAsked, InTurn
<1>1. Asked' = [Asked EXCEPT ![t] = NoSession] /\ Asked[t] # NoSession
  BY DEF Asked
<1>2. CASE InTurn(t)
  <2>1. Working' = [Working EXCEPT ![t] = NoSession] /\ Working[t] # NoSession
    BY <1>2 DEF Working
  <2> QED
    BY <1>1, <2>1 DEF Turns!End, Asked, Working
<1>3. CASE ~InTurn(t)
  <2>1. Working' = Working /\ Working[t] = NoSession
    BY <1>3 DEF Working
  <2> QED
    BY <1>1, <2>1 DEF Turns!GiveUp, Asked, Working
<1> QED
  BY <1>2, <1>3

\* One step of the handlers, a client, the heartbeat or a clock is a step of
\* TurnExclusion or a stutter.
LEMMA NextTurns ==
  ASSUME TypeInv, LockAccounting, [Next]_vars
  PROVE  [Turns!Next]_(Turns!vars)
<1> USE TasksAssumption
<1>0. /\ pc \in [Tasks -> Locations] /\ sid \in [Tasks -> Optional]
      /\ \A t \in Tasks : HasAsked(t) => sid[t] \in Sessions /\ sid[t] # NoSession
  BY NoSessionAssumption DEF TypeInv, TypeOK, SessionResolved, HasAsked
<1>a. ASSUME NEW t \in Tasks, ~HasAsked(t), pc'[t] \notin {"queued", "turn", "persist"},
             \A u \in Tasks \ {t} : pc'[u] = pc[u] /\ sid'[u] = sid[u]
      PROVE  UNCHANGED Turns!vars
  BY <1>a, Stutters DEF HasAsked, InTurn
<1>b. ASSUME UNCHANGED <<pc, sid>> PROVE UNCHANGED Turns!vars
  BY <1>b, Stutters DEF HasAsked, InTurn
<1>c. ASSUME NEW t \in Tasks, HasAsked(t), pc'[t] \notin {"queued", "turn", "persist"},
             \A u \in Tasks \ {t} : pc'[u] = pc[u] /\ sid'[u] = sid[u]
      PROVE  Turns!Next
  BY <1>0, <1>c, Leaves DEF Turns!Next
<1>1. ASSUME NEW t \in Tasks, Resolve(t) \/ CheckLimit(t) \/ Lookup(t) \/ SendReply(t)
      PROVE  UNCHANGED Turns!vars
  <2>1. ~HasAsked(t)
    BY <1>1 DEF Resolve, CheckLimit, Lookup, SendReply, HasAsked
  <2>2. pc'[t] \notin {"queued", "turn", "persist"}
    BY <1>0, <1>1 DEF Resolve, CheckLimit, Lookup, SendReply, Answer, Finish, GoTo
  <2>3. \A u \in Tasks \ {t} : pc'[u] = pc[u] /\ sid'[u] = sid[u]
    BY <1>0, <1>1 DEF Resolve, CheckLimit, Lookup, SendReply, Answer, Finish, GoTo
  <2> QED
    BY <1>a, <2>1, <2>2, <2>3
<1>2. ASSUME NEW t \in Tasks, RequestLock(t) PROVE Turns!Next
  <2>1. sid[t] \in Sessions /\ pc' = [pc EXCEPT ![t] = "queued"] /\ sid' = sid /\ pc[t] = "lock"
    BY <1>2 DEF RequestLock, GoTo, TypeInv, SessionResolved
  <2>2. Asked' = [Asked EXCEPT ![t] = sid[t]] /\ Asked[t] = NoSession
    BY <1>0, <2>1 DEF Asked, HasAsked
  <2>3. Working' = Working
    BY <1>0, <2>1 DEF Working, InTurn
  <2> QED
    BY <2>1, <2>2, <2>3 DEF Turns!Next, Turns!Ask, Asked, Working
<1>3. ASSUME NEW t \in Tasks, StartTurn(t) PROVE Turns!Next
  <2>1. /\ pc[t] = "queued" /\ holder[sid[t]] = t
        /\ pc' = [pc EXCEPT ![t] = "turn"] /\ sid' = sid
    BY <1>3 DEF StartTurn, Granted, GoTo
  <2>2. HasAsked(t) /\ ~InTurn(t) /\ sid[t] # NoSession
    BY <1>0, <2>1 DEF HasAsked, InTurn
  <2>3. Asked' = Asked /\ Asked[t] = sid[t] /\ Asked[t] # NoSession
    BY <1>0, <2>1, <2>2 DEF Asked, HasAsked
  <2>4. Working' = [Working EXCEPT ![t] = sid[t]] /\ Working[t] = NoSession
    BY <1>0, <2>1, <2>2 DEF Working, InTurn
  \* Who works on the session of t holds its lock, which t holds.
  <2>5. ASSUME NEW u \in Tasks PROVE Working[u] # sid[t]
    BY <2>1, <2>2 DEF Working, LockAccounting, TurnsHoldTheLock
  <2> QED
    BY <2>3, <2>4, <2>5 DEF Turns!Next, Turns!Begin, Asked, Working
<1>4. ASSUME NEW t \in Tasks, ToolRound(t) \/ TurnAnswers(t) PROVE UNCHANGED Turns!vars
  <2>1. /\ pc[t] = "turn" /\ sid' = sid
        /\ pc' = pc \/ pc' = [pc EXCEPT ![t] = "persist"]
    BY <1>4 DEF ToolRound, TurnAnswers, GoTo, pathVars
  <2> QED
    BY <1>0, <2>1, Stutters DEF HasAsked, InTurn
<1>5. ASSUME NEW t \in Tasks, TurnDone(t) \/ TurnFails(t) PROVE Turns!Next
  <2>1. HasAsked(t)
    BY <1>5 DEF TurnDone, TurnFails, HasAsked
  <2>2. /\ pc'[t] \notin {"queued", "turn", "persist"}
        /\ \A u \in Tasks \ {t} : pc'[u] = pc[u] /\ sid'[u] = sid[u]
    BY <1>0, <1>5 DEF TurnDone, TurnFails, Answer, GoTo
  <2> QED
    BY <1>c, <2>1, <2>2
<1>6. ASSUME NEW c \in Conns, Receive(c) PROVE UNCHANGED Turns!vars
  <2>1. inbox[c] \in Seq(Frames) /\ inbox[c] # <<>>
    BY <1>6 DEF Receive, TypeInv, TypeOK
  <2>2. Head(inbox[c]).kind \in {"text", "garbled", "ping", "close"}
    BY <2>1 DEF Frames
  <2>3. /\ ~HasAsked(c)
        /\ pc'[c] \notin {"queued", "turn", "persist"}
        /\ \A u \in Tasks \ {c} : pc'[u] = pc[u] /\ sid'[u] = sid[u]
    BY <1>0, <1>6, <2>2 DEF Receive, After, GoTo, HasAsked
  <2> QED
    BY <1>a, <2>3
<1>7. ASSUME NEW c \in Conns, ReceiveDuringTurn(c) PROVE [Turns!Next]_(Turns!vars)
  <2>1. CASE UNCHANGED <<storeVars, pc, sid, created, reply>>
    BY <1>b, <2>1
  <2>2. CASE Finish(c, "closed")
    <3>1. HasAsked(c)
      BY <1>7 DEF ReceiveDuringTurn, Granted, HasAsked
    <3>2. /\ pc'[c] \notin {"queued", "turn", "persist"}
          /\ \A u \in Tasks \ {c} : pc'[u] = pc[u] /\ sid'[u] = sid[u]
      BY <1>0, <2>2 DEF Finish, GoTo
    <3> QED
      BY <1>c, <3>1, <3>2
  <2> QED
    BY <1>7, <2>1, <2>2 DEF ReceiveDuringTurn
<1>8. ASSUME NEW h \in Hooks, HookDropped(h) PROVE [Turns!Next]_(Turns!vars)
  <2>1. /\ pc'[h] \notin {"queued", "turn", "persist"}
        /\ \A u \in Tasks \ {h} : pc'[u] = pc[u] /\ sid'[u] = sid[u]
    BY <1>0, <1>8 DEF HookDropped, Finish, GoTo
  <2> QED
    BY <1>a, <1>c, <2>1
<1>9. ASSUME NEW t \in Tasks, GoTo(t, "recv") \/ GoTo(t, "resolve"), pc[t] = "closed", sid' = sid
      PROVE  UNCHANGED Turns!vars
  <2>1. /\ ~HasAsked(t)
        /\ pc'[t] \notin {"queued", "turn", "persist"}
        /\ \A u \in Tasks \ {t} : pc'[u] = pc[u] /\ sid'[u] = sid[u]
    BY <1>0, <1>9 DEF GoTo, HasAsked
  <2> QED
    BY <1>a, <2>1
<1>10. ASSUME Client PROVE [Turns!Next]_(Turns!vars)
  <2>1. ASSUME NEW c \in Conns, Connect(c) PROVE UNCHANGED Turns!vars
    BY <1>9, <2>1 DEF Connect
  <2>2. ASSUME NEW c \in Conns, NEW f \in Frames, FrameArrives(c, f) PROVE UNCHANGED Turns!vars
    BY <1>b, <2>2 DEF FrameArrives
  <2>3. ASSUME NEW h \in Hooks, NEW s \in Optional, HookCalled(h, s) PROVE UNCHANGED Turns!vars
    BY <1>9, <2>3 DEF HookCalled
  <2> QED
    BY <1>8, <1>10, <2>1, <2>2, <2>3 DEF Client
<1>11. ASSUME Heartbeat \/ Clock \/ \E s \in Sessions : Replenish(s)
       PROVE  UNCHANGED Turns!vars
  BY <1>b, <1>11 DEF Heartbeat, Clock, Replenish, pathVars
<1>12. CASE UNCHANGED vars
  BY <1>b, <1>12 DEF vars, pathVars
<1> QED
  BY <1>1, <1>2, <1>3, <1>4, <1>5, <1>6, <1>7, <1>10, <1>11, <1>12 DEF Next, Handler

\* The handlers, the session registry and the heartbeat implement TurnExclusion,
\* fairness apart: a turn begins only when nobody works on its session.
THEOREM ImplementsExclusion == Spec => Turns!SafeSpec
<1>1. Init => Turns!Init
  BY DEF Init, Turns!Init, HasAsked, InTurn
<1>2. TypeInv /\ LockAccounting /\ [Next]_vars => [Turns!Next]_(Turns!vars)
  BY NextTurns
<1>3. Spec => [](TypeInv /\ LockAccounting)
  BY InitType, InitLocks, NextType, NextLocks, PTL DEF Spec
<1> QED
  BY <1>1, <1>2, <1>3, PTL DEF Spec, Turns!SafeSpec

-----------------------------------------------------------------------------
(* The heartbeat's reports.                                                *)

\* While the reporter is yet to be told, the report says what the round has found.
Reported ==
  round = "report" =>
    health.cognition_engine = ce_status /\ health.qdrant = qdrant_status

HealthInv == ReportsAgree /\ Reported

LEMMA InitHealth == HealthInit => HealthInv
  BY MemoryAssumption
     DEF HealthInit, HealthInv, ReportsAgree, HealthTypeOK, Statuses, Checked, Aggregate,
         Unavailable, Reported

LEMMA NextHealth == HealthInv /\ [HealthNext]_healthVars => HealthInv'
<1> SUFFICES ASSUME HealthInv, [HealthNext]_healthVars
             PROVE  HealthInv'
  OBVIOUS
<1> USE DEF HealthInv, ReportsAgree, HealthTypeOK, Reported, Unavailable, world, locals
<1>1. CASE WakesUp
  BY <1>1 DEF WakesUp
<1>2. CASE ChecksEngine
  BY <1>2 DEF ChecksEngine, Check, Checked
<1>3. CASE ChecksQdrant
  BY <1>3 DEF ChecksQdrant, Check, Checked
<1>4. CASE Updates
  <2>1. Aggregate(ce_status, qdrant_status) \in Statuses
    BY DEF Aggregate, Statuses
  <2> QED
    BY <1>4, <2>1 DEF Updates
<1>5. CASE Publishes
  \* The aggregate published is that of the report.
  <2>1. health.status = Aggregate(ce_status, qdrant_status)
    BY <1>5 DEF Publishes
  <2> QED
    BY <1>5, <2>1 DEF Publishes
<1>6. CASE Changes
  BY <1>6 DEF Changes
<1>7. CASE UNCHANGED healthVars
  BY <1>7 DEF healthVars
<1> QED
  BY <1>1, <1>2, <1>3, <1>4, <1>5, <1>6, <1>7 DEF HealthNext, Run

\* GET /health and the gRPC health service agree between two rounds, whatever comes
\* up or goes down during them (heartbeat/mod.rs, health/mod.rs).
THEOREM ReportsAlwaysAgree == HealthSpec => []ReportsAgree
<1>1. HealthInv => ReportsAgree
  BY DEF HealthInv
<1> QED
  BY <1>1, InitHealth, NextHealth, PTL DEF HealthSpec

\* How far a round has got with a world that lasts: what it has checked is in the
\* report, and what is in the report is published.
At(await) == round = await
EngineSeen(ce) == At("check_qdrant") /\ ce_status = Check(ce)
BothSeen(ce, q) == ce_status = Check(ce) /\ qdrant_status = Check(q)
InReport(ce, q) ==
  /\ BothSeen(ce, q)
  /\ health = [status |-> Aggregate(Check(ce), Check(q)),
               cognition_engine |-> Check(ce), qdrant |-> Check(q)]
Reports(ce, q) == At("cleanup") /\ BothSeen(ce, q)
Tells(ce, q) == At("report") /\ InReport(ce, q)
Published(ce, q) ==
  InReport(ce, q) /\ reporter = IF Check(ce) = "down" THEN "not_serving" ELSE "serving"

\* A round keeps its place, whatever else happens.
LEMMA PlaceInRound ==
  ASSUME [HealthNext]_healthVars
  PROVE  /\ At("sleep") => At("sleep")' \/ At("check_ce")'
         /\ At("check_qdrant") => At("check_qdrant")' \/ At("cleanup")'
         /\ At("cleanup") => At("cleanup")' \/ At("report")'
         /\ At("report") => At("report")' \/ At("sleep")'
BY DEF At, HealthNext, Run, WakesUp, ChecksEngine, ChecksQdrant, Updates, Publishes, Changes,
       healthVars

\* While the world lasts, what is seen, in the report or published stays so.
LEMMA WorldKept ==
  ASSUME NEW ce \in BOOLEAN, NEW q \in BOOLEAN, WorldIs(ce, q), [HealthNext]_healthVars
  PROVE  /\ At("check_ce") => At("check_ce")' \/ EngineSeen(ce)'
         /\ EngineSeen(ce) => EngineSeen(ce)' \/ Reports(ce, q)'
         /\ Reports(ce, q) => Reports(ce, q)' \/ Tells(ce, q)'
         /\ Tells(ce, q) => Tells(ce, q)' \/ Published(ce, q)'
         /\ Published(ce, q) => Published(ce, q)'
<1> USE DEF WorldIs, EngineSeen, Reports, Tells, Published, At, BothSeen, InReport, world, locals
<1>1. CASE WakesUp
  BY <1>1 DEF WakesUp
<1>2. CASE ChecksEngine
  BY <1>2 DEF ChecksEngine
<1>3. CASE ChecksQdrant
  BY <1>3 DEF ChecksQdrant
<1>4. CASE Updates
  BY <1>4 DEF Updates
<1>5. CASE Publishes
  BY <1>5 DEF Publishes, Check, Aggregate
<1>6. CASE Changes
  BY <1>6 DEF Changes
<1>7. CASE UNCHANGED healthVars
  BY <1>7 DEF healthVars
<1> QED
  BY <1>1, <1>2, <1>3, <1>4, <1>5, <1>6, <1>7 DEF HealthNext, Run

\* And every step of a round brings it on.
LEMMA RoundGoesOn ==
  ASSUME NEW ce \in BOOLEAN, NEW q \in BOOLEAN, WorldIs(ce, q), Run
  PROVE  /\ At("sleep") => At("check_ce")'
         /\ At("check_ce") => EngineSeen(ce)'
         /\ EngineSeen(ce) => Reports(ce, q)'
         /\ Reports(ce, q) => Tells(ce, q)'
         /\ Tells(ce, q) => Published(ce, q)'
         /\ At("check_qdrant") => At("cleanup")'
         /\ At("cleanup") => At("report")'
         /\ At("report") => At("sleep")'
<1> USE DEF WorldIs, EngineSeen, Reports, Tells, Published, At, BothSeen, InReport, world, locals
<1>1. CASE WakesUp
  BY <1>1 DEF WakesUp
<1>2. CASE ChecksEngine
  BY <1>2 DEF ChecksEngine
<1>3. CASE ChecksQdrant
  BY <1>3 DEF ChecksQdrant
<1>4. CASE Updates
  BY <1>4 DEF Updates
<1>5. CASE Publishes
  BY <1>5 DEF Publishes, Check, Aggregate
<1> QED
  BY <1>1, <1>2, <1>3, <1>4, <1>5 DEF Run

\* A state of the world that lasts is told by GET /health and by the gRPC health
\* service from some time on, wherever a round was when it began: the rest of that
\* round may still tell what was before, the one after it does not.
THEOREM WorldIsAlwaysReported == HealthSpec => WorldIsReported
<1> SUFFICES ASSUME NEW ce \in BOOLEAN, NEW q \in BOOLEAN
             PROVE  HealthSpec => (<>[]WorldIs(ce, q) => <>[]Told(ce, q))
  BY DEF WorldIsReported
<1>1. [HealthNext]_healthVars =>
        /\ At("sleep") => At("sleep")' \/ At("check_ce")'
        /\ At("check_qdrant") => At("check_qdrant")' \/ At("cleanup")'
        /\ At("cleanup") => At("cleanup")' \/ At("report")'
        /\ At("report") => At("report")' \/ At("sleep")'
  BY PlaceInRound
<1>2. WorldIs(ce, q) /\ [HealthNext]_healthVars =>
        /\ At("check_ce") => At("check_ce")' \/ EngineSeen(ce)'
        /\ EngineSeen(ce) => EngineSeen(ce)' \/ Reports(ce, q)'
        /\ Reports(ce, q) => Reports(ce, q)' \/ Tells(ce, q)'
        /\ Tells(ce, q) => Tells(ce, q)' \/ Published(ce, q)'
        /\ Published(ce, q) => Published(ce, q)'
  BY WorldKept
<1>3. WorldIs(ce, q) /\ <<Run>>_healthVars =>
        /\ At("sleep") => At("check_ce")'
        /\ At("check_ce") => EngineSeen(ce)'
        /\ EngineSeen(ce) => Reports(ce, q)'
        /\ Reports(ce, q) => Tells(ce, q)'
        /\ Tells(ce, q) => Published(ce, q)'
        /\ At("check_qdrant") => At("cleanup")'
        /\ At("cleanup") => At("report")'
        /\ At("report") => At("sleep")'
  BY RoundGoesOn
<1>4. HealthTypeOK =>
        At("sleep") \/ At("check_ce") \/ At("check_qdrant") \/ At("cleanup") \/ At("report")
  BY DEF HealthTypeOK, At
<1>5. HealthTypeOK /\ Published(ce, q) => Told(ce, q)
  BY DEF Published, Told, BothSeen, InReport, Unavailable, Check, Aggregate
<1>6. ReportsAgree => HealthTypeOK
  BY DEF ReportsAgree
<1> QED
  BY <1>1, <1>2, <1>3, <1>4, <1>5, <1>6, ReportsAlwaysAgree, PTL
     DEF HealthSpec, HealthFairness
=============================================================================
