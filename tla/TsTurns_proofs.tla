---------------------------- MODULE TsTurns_proofs ----------------------------
(***************************************************************************)
(* Theorems about the turns of the second orchestrator, for any number of  *)
(* requests and sessions and any bounds on iterations, retries and tokens. *)
(***************************************************************************)
EXTENDS TsTurns, TLAPS

\* TypeOK in two parts, with the domain of the iterations.

StoreTyped ==
  /\ live \subseteq Sessions
  /\ history \in [Sessions -> Seq(Messages)]
  /\ state \in [Sessions -> {"idle", "processing", "awaitingTool", "error"}]

CallsTyped ==
  /\ holder \in [Sessions -> Requests \cup {NoSession}]
  /\ queue \in [Sessions -> Seq(Requests)]
  /\ pc \in [Requests -> {"idle", "queued", "tools"} \cup EngineAwaits]
  /\ sid \in [Requests -> Sessions \cup {NoSession}]
  /\ \A r \in Requests : pc[r] = "idle" <=> sid[r] = NoSession
  /\ iteration \in [Requests -> 0 .. MaxToolIterations]
  /\ \A r \in Requests : InTurn(r) => iteration[r] < MaxToolIterations
  /\ attempt \in [Requests -> 0 .. MaxRetries]

Typed == StoreTyped /\ CallsTyped

\* The mutexes and the requests agree.

HolderRefers ==
  \A s \in Sessions :
    /\ holder[s] # NoSession => sid[holder[s]] = s
    /\ holder[s] = NoSession => queue[s] = <<>>

QueueWaits ==
  \A s \in Sessions : \A i \in DOMAIN queue[s] :
    /\ sid[queue[s][i]] = s
    /\ pc[queue[s][i]] = "queued"
    /\ queue[s][i] # holder[s]
    /\ \A j \in DOMAIN queue[s] : queue[s][i] = queue[s][j] => i = j

TurnsHold == \A r \in Requests : InTurn(r) => holder[sid[r]] = r

NobodyForgotten ==
  \A r \in Requests : pc[r] = "queued" =>
    holder[sid[r]] = r \/ \E i \in DOMAIN queue[sid[r]] : queue[sid[r]][i] = r

MutexAccounting == HolderRefers /\ QueueWaits /\ TurnsHold /\ NobodyForgotten

\* A history in which results follow their call, and a call its results unless it
\* is the last message.
Paired(h) ==
  /\ \A i \in 2 .. Len(h) : h[i].kind = "results" => h[i - 1].kind = "call"
  /\ \A i \in 1 .. Len(h) - 1 : h[i].kind = "call" => h[i + 1].kind = "results"

\* A session and the turn that works on it.

HistoriesPaired ==
  \A s \in Sessions :
    /\ Paired(history[s])
    /\ history[s] # <<>> /\ Last(history[s]).kind = "call" =>
         holder[s] # NoSession /\ pc[holder[s]] = "tools"

StateFollows ==
  /\ \A s \in Sessions :
       /\ state[s] = "idle" /\ history[s] # <<>> => Last(history[s]).kind = "answer"
       /\ state[s] \in {"processing", "awaitingTool"} =>
            holder[s] # NoSession /\ InTurn(holder[s])
  /\ \A r \in Requests : InTurn(r) =>
       state[sid[r]] = IF pc[r] = "tools" THEN "awaitingTool" ELSE "processing"

TurnOpen ==
  \A r \in Requests : InTurn(r) =>
    /\ history[sid[r]] # <<>>
    /\ pc[r] = "tools" => Last(history[sid[r]]).kind = "call"
    /\ pc[r] = "complete" => Fits(r) \/ Len(history[sid[r]]) = 1

Conversations == HistoriesPaired /\ StateFollows /\ TurnOpen

-----------------------------------------------------------------------------
(* Types.                                                                  *)

LEMMA SettlesType ==
  ASSUME CallsTyped, NEW r \in Requests, pc[r] # "idle", Settles(r)
  PROVE  CallsTyped'
<1>1. sid[r] \in Sessions
  BY DEF CallsTyped
<1>2. /\ pc' = [pc EXCEPT ![r] = "idle"] /\ sid' = [sid EXCEPT ![r] = NoSession]
      /\ iteration' = [iteration EXCEPT ![r] = 0] /\ attempt' = [attempt EXCEPT ![r] = 0]
  BY DEF Settles, GoesTo
<1>3. holder' \in [Sessions -> Requests \cup {NoSession}] /\ queue' \in [Sessions -> Seq(Requests)]
  BY <1>1 DEF CallsTyped, Settles, Release
<1>4. /\ pc' \in [Requests -> {"idle", "queued", "tools"} \cup EngineAwaits]
      /\ sid' \in [Requests -> Sessions \cup {NoSession}]
      /\ iteration' \in [Requests -> 0 .. MaxToolIterations]
      /\ attempt' \in [Requests -> 0 .. MaxRetries]
  BY <1>2, BoundsAssumption DEF CallsTyped
<1>5. \A q \in Requests : pc'[q] = "idle" <=> sid'[q] = NoSession
  BY <1>2 DEF CallsTyped
<1>6. \A q \in Requests : InTurn(q)' => iteration'[q] < MaxToolIterations
  BY <1>2 DEF CallsTyped, InTurn, EngineAwaits
<1> QED
  BY <1>3, <1>4, <1>5, <1>6 DEF CallsTyped, InTurn, EngineAwaits

LEMMA MovesType ==
  ASSUME CallsTyped, NEW r \in Requests, pc[r] # "idle",
         NEW to \in {"tools"} \cup EngineAwaits, GoesTo(r, to), UNCHANGED <<sid, lockVars>>,
         NEW n \in Nat, n < MaxToolIterations, iteration' = [iteration EXCEPT ![r] = n]
  PROVE  CallsTyped'
<1>1. n \in 0 .. MaxToolIterations
  BY BoundsAssumption
<1>2. pc' = [pc EXCEPT ![r] = to] /\ attempt' = [attempt EXCEPT ![r] = 0]
  BY DEF GoesTo
<1>3. \A q \in Requests : InTurn(q)' => iteration'[q] < MaxToolIterations
  BY <1>2 DEF CallsTyped, InTurn, EngineAwaits
<1>4. \A q \in Requests : pc'[q] = "idle" <=> sid'[q] = NoSession
  BY <1>2 DEF CallsTyped, EngineAwaits
<1> QED
  BY <1>1, <1>2, <1>3, <1>4, BoundsAssumption DEF CallsTyped, lockVars, InTurn, EngineAwaits

LEMMA LoopsType ==
  ASSUME Typed, NEW r \in Requests, pc[r] # "idle", NEW n \in Nat, Loops(r, n)
  PROVE  /\ CallsTyped'
         /\ state' \in [Sessions -> {"idle", "processing", "awaitingTool", "error"}]
<1>1. sid[r] \in Sessions
  BY DEF Typed, CallsTyped
<1>2. CASE n < MaxToolIterations
  <2>1. CallsTyped'
    BY <1>2, MovesType DEF Loops, Typed, EngineAwaits
  <2> QED
    BY <1>1, <1>2, <2>1 DEF Loops, Becomes, Typed, StoreTyped
<1>3. CASE ~(n < MaxToolIterations)
  <2>1. CallsTyped'
    BY <1>3, SettlesType DEF Loops, Typed
  <2> QED
    BY <1>1, <1>3, <2>1 DEF Loops, Becomes, Typed, StoreTyped
<1> QED
  BY <1>2, <1>3

\* A message is added to the history of the session of r.
LEMMA Pushes ==
  ASSUME StoreTyped, NEW r \in Requests, sid[r] \in Sessions,
         NEW kind \in {"user", "call", "results", "answer"}, Push(r, kind)
  PROVE  \E m \in Messages :
           /\ m.kind = kind
           /\ history' = [history EXCEPT ![sid[r]] = Append(history[sid[r]], m)]
           /\ history' \in [Sessions -> Seq(Messages)]
<1>1. PICK size \in Sizes :
        history' = [history EXCEPT ![sid[r]] = Append(@, [kind |-> kind, size |-> size])]
  BY DEF Push
<1> DEFINE m == [kind |-> kind, size |-> size]
<1>2. m \in Messages /\ m.kind = kind
  BY DEF Messages
<1>3. history' = [history EXCEPT ![sid[r]] = Append(history[sid[r]], m)]
  BY <1>1 DEF StoreTyped
<1> HIDE DEF m
<1>4. history' \in [Sessions -> Seq(Messages)]
  BY <1>2, <1>3 DEF StoreTyped
<1> QED
  BY <1>2, <1>3, <1>4

LEMMA InitType == Init => Typed
  BY BoundsAssumption DEF Init, Typed, StoreTyped, CallsTyped, InTurn, EngineAwaits

\* Whoever is neither idle nor queued is in a turn.
LEMMA Working ==
  ASSUME Typed, NEW r \in Requests, pc[r] # "idle"
  PROVE  sid[r] \in Sessions /\ sid[r] # NoSession
  BY SessionsAssumption DEF Typed, CallsTyped

LEMMA StepType ==
  ASSUME Typed, NEW r \in Requests, Step(r)
  PROVE  Typed'
<1>0. pc[r] # "idle" /\ sid[r] \in Sessions
  <2>1. pc[r] # "idle"
    BY DEF Step, Starts, Refused, Counted, Recounted, Answers, CallsTools, ToolsEnd, Retries,
           Fails, EngineAwaits
  <2> QED
    BY <2>1, Working
<1>1. CASE Starts(r)
  <2>1. history' \in [Sessions -> Seq(Messages)]
    BY <1>0, <1>1, Pushes DEF Starts, Typed
  <2>2. CallsTyped' /\ state' \in [Sessions -> {"idle", "processing", "awaitingTool", "error"}]
    BY <1>0, <1>1, LoopsType DEF Starts
  <2> QED
    BY <1>1, <2>1, <2>2 DEF Starts, Typed, StoreTyped
<1>2. CASE Refused(r)
  BY <1>0, <1>2, SettlesType DEF Refused, Typed, StoreTyped, sessionVars
<1>3. CASE Counted(r) \/ Recounted(r)
  <2>1. PICK to \in EngineAwaits : GoesTo(r, to)
    BY <1>3 DEF Counted, Recounted, EngineAwaits
  <2>2. iteration[r] \in Nat /\ iteration[r] < MaxToolIterations
        /\ iteration' = [iteration EXCEPT ![r] = iteration[r]] /\ UNCHANGED <<sid, lockVars>>
    BY <1>3, BoundsAssumption DEF Counted, Recounted, Typed, CallsTyped, InTurn, EngineAwaits
  <2>3. CallsTyped'
    BY <1>0, <2>1, <2>2, MovesType DEF Typed
  <2>4. history' \in [Sessions -> Seq(Messages)]
    <3>1. CASE UNCHANGED history
      BY <3>1 DEF Typed, StoreTyped
    <3>2. CASE Trim(r) /\ Len(history[sid[r]]) > 1
      <4>1. history[sid[r]] \in Seq(Messages) /\ history[sid[r]] # <<>>
        BY <1>0, <3>2 DEF Typed, StoreTyped
      <4>2. Tail(history[sid[r]]) \in Seq(Messages)
        BY <4>1
      <4> QED
        BY <1>0, <3>2, <4>2 DEF Trim, Typed, StoreTyped
    <3>3. Len(history[sid[r]]) \in Nat
      BY <1>0 DEF Typed, StoreTyped
    <3> QED
      BY <1>3, <3>1, <3>2, <3>3 DEF Counted, Recounted
  <2> QED
    BY <1>3, <2>3, <2>4 DEF Counted, Recounted, Typed, StoreTyped
<1>4. CASE Answers(r)
  <2>1. history' \in [Sessions -> Seq(Messages)]
    BY <1>0, <1>4, Pushes DEF Answers, Typed
  <2>2. CallsTyped'
    BY <1>0, <1>4, SettlesType DEF Answers, Typed
  <2> QED
    BY <1>0, <1>4, <2>1, <2>2 DEF Answers, Becomes, Typed, StoreTyped
<1>5. CASE CallsTools(r)
  <2>1. history' \in [Sessions -> Seq(Messages)]
    BY <1>0, <1>5, Pushes DEF CallsTools, Typed
  <2>2. iteration[r] \in Nat /\ iteration[r] < MaxToolIterations
        /\ iteration' = [iteration EXCEPT ![r] = iteration[r]] /\ UNCHANGED <<sid, lockVars>>
    BY <1>5, BoundsAssumption DEF CallsTools, Typed, CallsTyped, InTurn, EngineAwaits
  <2>3. CallsTyped'
    BY <1>0, <1>5, <2>2, MovesType DEF CallsTools, Typed
  <2> QED
    BY <1>0, <1>5, <2>1, <2>3 DEF CallsTools, Becomes, Typed, StoreTyped
<1>6. CASE ToolsEnd(r)
  <2>1. history' \in [Sessions -> Seq(Messages)]
    BY <1>0, <1>6, Pushes DEF ToolsEnd, Typed
  <2>2. iteration[r] + 1 \in Nat
    BY BoundsAssumption DEF Typed, CallsTyped
  <2>3. CallsTyped' /\ state' \in [Sessions -> {"idle", "processing", "awaitingTool", "error"}]
    BY <1>0, <1>6, <2>2, LoopsType DEF ToolsEnd
  <2> QED
    BY <1>6, <2>1, <2>3 DEF ToolsEnd, Typed, StoreTyped
<1>7. CASE Retries(r)
  <2>1. attempt' \in [Requests -> 0 .. MaxRetries]
    BY <1>7, BoundsAssumption DEF Retries, Typed, CallsTyped
  <2> QED
    BY <1>7, <2>1 DEF Retries, Typed, StoreTyped, CallsTyped, sessionVars, lockVars, InTurn
<1>8. CASE Fails(r)
  <2>1. CallsTyped'
    BY <1>0, <1>8, SettlesType DEF Fails, Typed
  <2> QED
    BY <1>0, <1>8, <2>1 DEF Fails, Becomes, Typed, StoreTyped
<1> QED
  BY <1>1, <1>2, <1>3, <1>4, <1>5, <1>6, <1>7, <1>8 DEF Step

LEMMA BeginType ==
  ASSUME Typed, NEW r \in Requests, NEW named \in Sessions \cup {NoSession}, Begin(r, named)
  PROVE  Typed'
<1>1. PICK s \in Sessions :
        /\ live' \in SUBSET (live \cup {s})
        /\ \/ UNCHANGED <<history, state>>
           \/ /\ history' = [history EXCEPT ![s] = <<>>]
              /\ state' = [state EXCEPT ![s] = "idle"]
        /\ sid' = [sid EXCEPT ![r] = s]
        /\ Acquire(s, r)
  BY DEF Begin, sessionVars
<1>2. StoreTyped'
  <2>1. <<>> \in Seq(Messages)
    OBVIOUS
  <2>2. history' \in [Sessions -> Seq(Messages)]
    BY <1>1, <2>1 DEF Typed, StoreTyped
  <2>3. state' \in [Sessions -> {"idle", "processing", "awaitingTool", "error"}]
    BY <1>1 DEF Typed, StoreTyped
  <2> QED
    BY <1>1, <2>2, <2>3 DEF Typed, StoreTyped
<1>3. holder' \in [Sessions -> Requests \cup {NoSession}] /\ queue' \in [Sessions -> Seq(Requests)]
  <2>1. Append(queue[s], r) \in Seq(Requests)
    BY DEF Typed, CallsTyped
  <2> QED
    BY <1>1, <2>1 DEF Acquire, Typed, CallsTyped
<1>4. pc' = [pc EXCEPT ![r] = "queued"] /\ UNCHANGED <<iteration, attempt>>
  BY DEF Begin
<1>5. \A q \in Requests : pc'[q] = "idle" <=> sid'[q] = NoSession
  BY <1>1, <1>4, SessionsAssumption DEF Typed, CallsTyped
<1>6. \A q \in Requests : InTurn(q)' => iteration'[q] < MaxToolIterations
  BY <1>4 DEF Typed, CallsTyped, InTurn, EngineAwaits
<1>7. CallsTyped'
  BY <1>1, <1>3, <1>4, <1>5, <1>6 DEF Typed, CallsTyped, InTurn, EngineAwaits
<1> QED
  BY <1>2, <1>7 DEF Typed

LEMMA NextType == Typed /\ [Next]_vars => Typed'
<1>1. ASSUME Typed, NEW expired \in SUBSET live, CleanupExpired(expired)
      PROVE  Typed'
  BY <1>1 DEF CleanupExpired, Typed, StoreTyped, CallsTyped, lockVars, requestVars, InTurn
<1>2. ASSUME Typed, UNCHANGED vars
      PROVE  Typed'
  BY <1>2 DEF vars, sessionVars, Typed, StoreTyped, CallsTyped, lockVars, requestVars, InTurn
<1> QED
  BY <1>1, <1>2, BeginType, StepType DEF Next

-----------------------------------------------------------------------------
(* The mutexes.                                                            *)

LEMMA InitLocks == Init => MutexAccounting
  BY DEF Init, MutexAccounting, HolderRefers, QueueWaits, TurnsHold, NobodyForgotten, InTurn,
         EngineAwaits

\* Nobody is in a queue twice.
LEMMA QueueDistinct ==
  ASSUME MutexAccounting, NEW s \in Sessions
  PROVE  \A i, j \in DOMAIN queue[s] : queue[s][i] = queue[s][j] => i = j
  BY Zenon DEF MutexAccounting, QueueWaits

\* A request that asks for the mutex of s gets it or is last in its queue.
LEMMA LockRequested ==
  ASSUME Typed, MutexAccounting, NEW r \in Requests, pc[r] = "idle",
         NEW s \in Sessions, Acquire(s, r),
         pc' = [pc EXCEPT ![r] = "queued"], sid' = [sid EXCEPT ![r] = s]
  PROVE  MutexAccounting'
<1> USE DEF Typed, CallsTyped, MutexAccounting
<1>1. sid[r] = NoSession /\ (\A t \in Sessions : t # NoSession)
  BY SessionsAssumption
<1>2. \A t \in Sessions : holder[t] # r
  BY <1>1, RequestsAssumption DEF HolderRefers
<1>3. \A t \in Sessions : \A i \in DOMAIN queue[t] : queue[t][i] # r
  BY DEF QueueWaits
<1>d. \A i, j \in 1 .. Len(queue[s]) : queue[s][i] = queue[s][j] => i = j
  <2>1. DOMAIN queue[s] = 1 .. Len(queue[s])
    OBVIOUS
  <2> QED
    BY <2>1, QueueDistinct
<1>4. CASE holder[s] = NoSession
  <2>1. holder' = [holder EXCEPT ![s] = r] /\ queue' = queue /\ queue[s] = <<>>
    BY <1>4 DEF Acquire, HolderRefers
  <2>2. HolderRefers'
    BY <1>2, <2>1, RequestsAssumption DEF HolderRefers
  <2>3. QueueWaits'
    BY <1>3, <2>1, SMTT(30) DEF QueueWaits
  <2>4. TurnsHold'
    BY <1>4, <2>1, RequestsAssumption DEF TurnsHold, InTurn, EngineAwaits
  <2>5. NobodyForgotten'
    BY <1>4, <2>1, RequestsAssumption DEF NobodyForgotten
  <2> QED
    BY <2>2, <2>3, <2>4, <2>5
<1>5. CASE holder[s] # NoSession
  <2> DEFINE n == Len(queue[s])
  <2>1. /\ holder' = holder /\ n \in Nat /\ DOMAIN queue[s] = 1 .. n
        /\ queue' = [queue EXCEPT ![s] = Append(queue[s], r)]
        /\ queue[s] \in Seq(Requests)
    BY <1>5 DEF Acquire
  <2>2. /\ DOMAIN queue'[s] = 1 .. n + 1
        /\ queue'[s][n + 1] = r
        /\ \A i \in 1 .. n : queue'[s][i] = queue[s][i]
    BY <2>1
  <2>3. \A t \in Sessions : t # s => queue'[t] = queue[t]
    BY <2>1
  <2> HIDE DEF n
  <2>4. HolderRefers'
    BY <1>2, <1>5, <2>1, <2>3, RequestsAssumption DEF HolderRefers
  <2>5. QueueWaits'
    <3> SUFFICES ASSUME NEW t \in Sessions, NEW i \in DOMAIN queue'[t]
                 PROVE  /\ sid'[queue'[t][i]] = t
                        /\ pc'[queue'[t][i]] = "queued"
                        /\ queue'[t][i] # holder'[t]
                        /\ \A j \in DOMAIN queue'[t] : queue'[t][i] = queue'[t][j] => i = j
      BY DEF QueueWaits
    <3>1. CASE t # s
      <4>1. queue'[t] = queue[t] /\ queue[t][i] \in Requests /\ queue[t][i] # r
        BY <1>3, <2>3, <3>1
      <4> QED
        BY <2>1, <4>1 DEF QueueWaits
    <3>2. CASE t = s /\ i = n + 1
      <4>1. \A j \in 1 .. n : queue'[s][j] # r
        BY <1>3, <2>1, <2>2
      <4> QED
        BY <1>2, <2>1, <2>2, <3>2, <4>1
    <3>3. CASE t = s /\ i \in 1 .. n
      <4>1. /\ queue'[s][i] = queue[s][i] /\ queue[s][i] \in Requests /\ queue[s][i] # r
            /\ queue[s][i] # holder[s] /\ sid[queue[s][i]] = s /\ pc[queue[s][i]] = "queued"
        BY <1>3, <2>1, <2>2, <3>3 DEF QueueWaits
      <4>2. \A j \in 1 .. n : queue'[s][i] = queue'[s][j] => i = j
        BY <1>d, <2>2, <3>3 DEF n
      <4>3. \A j \in 1 .. n + 1 : queue'[s][i] = queue'[s][j] => i = j
        <5>1. \A j \in 1 .. n + 1 : j \in 1 .. n \/ j = n + 1
          BY <2>1
        <5> QED
          BY <2>2, <4>1, <4>2, <5>1
      <4> QED
        BY <2>1, <2>2, <3>3, <4>1, <4>3
    <3>4. CASE t = s
      <4>1. i \in 1 .. n \/ i = n + 1
        <5>1. i \in 1 .. n + 1
          BY <2>2, <3>4
        <5> QED
          BY ONLY <2>1, <5>1, SMT
      <4> QED
        BY ONLY <3>4, <4>1, <3>2, <3>3, Zenon
    <3> QED
      BY ONLY <3>1, <3>4, Zenon
  <2>6. TurnsHold'
    BY <2>1 DEF TurnsHold, InTurn, EngineAwaits
  <2>7. NobodyForgotten'
    <3> SUFFICES ASSUME NEW q \in Requests, pc'[q] = "queued"
                 PROVE  \/ holder'[sid'[q]] = q
                        \/ \E i \in DOMAIN queue'[sid'[q]] : queue'[sid'[q]][i] = q
      BY DEF NobodyForgotten
    <3>1. CASE q = r
      <4>1. sid'[q] = s /\ n + 1 \in DOMAIN queue'[s] /\ queue'[s][n + 1] = q
        BY <2>1, <2>2, <3>1
      <4> QED
        BY <4>1
    <3>2. CASE q # r
      <4>1. sid'[q] = sid[q] /\ pc[q] = "queued" /\ sid[q] \in Sessions
        BY <3>2
      <4>2. CASE holder[sid[q]] = q
        BY <2>1, <4>1, <4>2
      <4>3. CASE \E i \in DOMAIN queue[sid[q]] : queue[sid[q]][i] = q
        <5>1. PICK i \in DOMAIN queue[sid[q]] : queue[sid[q]][i] = q
          BY <4>3
        <5>2. i \in DOMAIN queue'[sid[q]] /\ queue'[sid[q]][i] = q
          <6>1. CASE sid[q] = s
            <7>1. i \in 1 .. n /\ i \in 1 .. n + 1
              BY <2>1, <5>1, <6>1
            <7> QED
              BY <2>2, <5>1, <6>1, <7>1
          <6>2. CASE sid[q] # s
            BY <2>3, <4>1, <5>1, <6>2
          <6> QED
            BY <6>1, <6>2
        <5> QED
          BY <4>1, <5>2
      <4> QED
        BY <4>1, <4>2, <4>3 DEF NobodyForgotten
    <3> QED
      BY <3>1, <3>2
  <2> QED
    BY <2>4, <2>5, <2>6, <2>7
<1> QED
  BY <1>4, <1>5

\* The holder is done: the mutex is that of the first in the queue, or free.
LEMMA LockReleased ==
  ASSUME Typed, MutexAccounting, NEW r \in Requests, pc[r] # "idle", holder[sid[r]] = r,
         Settles(r)
  PROVE  MutexAccounting'
<1> USE DEF Typed, CallsTyped, MutexAccounting
<1> DEFINE s == sid[r]
           n == Len(queue[s])
<1>1. /\ s \in Sessions /\ s # NoSession /\ (\A t \in Sessions : t # NoSession)
      /\ \A q \in Requests : q # NoSession
  BY SessionsAssumption, RequestsAssumption
<1>2. pc' = [pc EXCEPT ![r] = "idle"] /\ sid' = [sid EXCEPT ![r] = NoSession]
  BY DEF Settles, GoesTo
<1>3. \A t \in Sessions : t # s => holder[t] # r
  BY <1>1 DEF HolderRefers
<1>4. \A t \in Sessions : \A i \in DOMAIN queue[t] : queue[t][i] # r /\ queue[t][i] \in Requests
  BY <1>1 DEF QueueWaits
<1>5. /\ holder' = [holder EXCEPT ![s] = IF queue[s] = <<>> THEN NoSession ELSE Head(queue[s])]
      /\ queue' = [queue EXCEPT ![s] = IF queue[s] = <<>> THEN <<>> ELSE Tail(queue[s])]
  BY <1>1 DEF Settles, Release
<1>6. /\ \A t \in Sessions : t # s => holder'[t] = holder[t] /\ queue'[t] = queue[t]
      /\ holder'[s] = IF queue[s] = <<>> THEN NoSession ELSE Head(queue[s])
      /\ queue'[s] = IF queue[s] = <<>> THEN <<>> ELSE Tail(queue[s])
  BY <1>1, <1>5
<1>7. queue[s] \in Seq(Requests) /\ n \in Nat /\ DOMAIN queue[s] = 1 .. n /\ holder[s] = r
  BY <1>1
<1>8. queue[s] # <<>> =>
        /\ 1 \in 1 .. n /\ holder'[s] = queue[s][1]
        /\ DOMAIN queue'[s] = 1 .. n - 1
        /\ \A i \in 1 .. n - 1 : i + 1 \in 1 .. n /\ queue'[s][i] = queue[s][i + 1]
  BY <1>6, <1>7
<1>9. \A q \in Requests : q # r => pc'[q] = pc[q] /\ sid'[q] = sid[q]
  BY <1>2
<1>d. \A i, j \in 1 .. n : queue[s][i] = queue[s][j] => i = j
  BY <1>1, <1>7, QueueDistinct
<1> HIDE DEF n
<1>10. HolderRefers'
  <2> SUFFICES ASSUME NEW t \in Sessions
               PROVE  /\ holder'[t] # NoSession => sid'[holder'[t]] = t
                      /\ holder'[t] = NoSession => queue'[t] = <<>>
    BY DEF HolderRefers
  <2>1. CASE t # s
    <3>1. holder[t] # r /\ holder[t] \in Requests \cup {NoSession}
      BY <1>3, <2>1
    <3> QED
      BY <1>6, <1>9, <2>1, <3>1, SMTT(30) DEF HolderRefers
  <2>2. CASE t = s /\ queue[s] = <<>>
    BY <1>6, <2>2
  <2>3. CASE t = s /\ queue[s] # <<>>
    <3>1. queue[s][1] \in Requests /\ queue[s][1] # r /\ sid[queue[s][1]] = s
      BY <1>1, <1>4, <1>7, <1>8, <2>3 DEF QueueWaits
    <3> QED
      BY <1>1, <1>8, <1>9, <2>3, <3>1
  <2> QED
    BY <2>1, <2>2, <2>3
<1>11. QueueWaits'
  <2> SUFFICES ASSUME NEW t \in Sessions, NEW i \in DOMAIN queue'[t]
               PROVE  /\ sid'[queue'[t][i]] = t
                      /\ pc'[queue'[t][i]] = "queued"
                      /\ queue'[t][i] # holder'[t]
                      /\ \A j \in DOMAIN queue'[t] : queue'[t][i] = queue'[t][j] => i = j
    BY DEF QueueWaits
  <2>1. CASE t # s
    <3>1. queue'[t] = queue[t] /\ holder'[t] = holder[t] /\ i \in DOMAIN queue[t]
      BY <1>6, <2>1
    <3>2. queue[t][i] # r /\ queue[t][i] \in Requests
      BY <1>4, <3>1
    <3> QED
      BY <1>9, <3>1, <3>2 DEF QueueWaits
  <2>2. CASE t = s
    <3>1. queue[s] # <<>>
      BY <1>6, <2>2
    <3>2. i \in 1 .. n - 1 /\ i + 1 \in 1 .. n /\ queue'[s][i] = queue[s][i + 1]
      BY <1>8, <2>2, <3>1
    <3>3. /\ queue[s][i + 1] # r /\ queue[s][i + 1] \in Requests
          /\ sid[queue[s][i + 1]] = s /\ pc[queue[s][i + 1]] = "queued"
      BY <1>1, <1>4, <1>7, <3>2 DEF QueueWaits
    <3>4. \A k \in 1 .. n : queue[s][i + 1] = queue[s][k] => i + 1 = k
      BY <1>d, <3>2
    <3>5. queue[s][i + 1] # queue[s][1]
      <4>1. 1 \in 1 .. n /\ i + 1 # 1
        BY <1>7, <1>8, <3>1, <3>2
      <4> QED
        BY <3>4, <4>1
    <3>6. \A j \in 1 .. n - 1 : queue'[s][i] = queue'[s][j] => i = j
      <4> SUFFICES ASSUME NEW j \in 1 .. n - 1, queue'[s][i] = queue'[s][j]
                   PROVE  i = j
        OBVIOUS
      <4>1. j + 1 \in 1 .. n /\ queue'[s][j] = queue[s][j + 1]
        BY <1>8, <3>1
      <4>2. i + 1 = j + 1
        BY <3>2, <3>4, <4>1
      <4> QED
        BY <1>7, <3>2, <4>2
    <3> QED
      <4>1. sid'[queue'[s][i]] = s /\ pc'[queue'[s][i]] = "queued"
        BY <1>9, <3>2, <3>3
      <4>2. queue'[s][i] # holder'[s]
        BY <1>8, <3>1, <3>2, <3>5
      <4>3. \A j \in DOMAIN queue'[s] : queue'[s][i] = queue'[s][j] => i = j
        BY <1>8, <3>1, <3>6
      <4> QED
        BY <2>2, <4>1, <4>2, <4>3
  <2> QED
    BY <2>1, <2>2
<1>12. TurnsHold'
  <2> SUFFICES ASSUME NEW q \in Requests, InTurn(q)'
               PROVE  holder'[sid'[q]] = q
    BY DEF TurnsHold
  <2>1. q # r
    BY <1>2 DEF InTurn, EngineAwaits
  <2>2. InTurn(q) /\ sid'[q] = sid[q] /\ sid[q] \in Sessions /\ holder[sid[q]] = q
    BY <1>9, <2>1 DEF InTurn, TurnsHold, EngineAwaits
  <2>3. sid[q] # s
    BY <1>7, <2>1, <2>2
  <2> QED
    BY <1>6, <2>2, <2>3
<1>13. NobodyForgotten'
  <2> SUFFICES ASSUME NEW q \in Requests, pc'[q] = "queued"
               PROVE  \/ holder'[sid'[q]] = q
                      \/ \E i \in DOMAIN queue'[sid'[q]] : queue'[sid'[q]][i] = q
    BY DEF NobodyForgotten
  <2>1. q # r
    BY <1>2
  <2>2. sid'[q] = sid[q] /\ pc[q] = "queued" /\ sid[q] \in Sessions
    BY <1>9, <2>1
  <2>3. CASE sid[q] # s
    <3>1. holder'[sid[q]] = holder[sid[q]] /\ queue'[sid[q]] = queue[sid[q]]
      BY <1>6, <2>2, <2>3
    <3>2. holder[sid[q]] = q \/ \E i \in DOMAIN queue[sid[q]] : queue[sid[q]][i] = q
      BY <2>2 DEF NobodyForgotten
    <3> QED
      BY <2>2, <3>1, <3>2
  <2>4. CASE sid[q] = s
    <3>1. PICK i \in 1 .. n : queue[s][i] = q
      BY <1>7, <2>1, <2>2, <2>4 DEF NobodyForgotten
    <3>2. queue[s] # <<>>
      BY <1>7, <3>1
    <3>3. CASE i = 1
      BY <1>8, <2>2, <2>4, <3>1, <3>2, <3>3
    <3>4. CASE i # 1
      <4>1. i - 1 \in 1 .. n - 1 /\ (i - 1) + 1 = i
        BY <1>7, <3>4
      <4>2. queue'[s][i - 1] = q
        BY <1>8, <3>1, <3>2, <4>1
      <4> QED
        BY <1>8, <2>2, <2>4, <3>2, <4>1, <4>2
    <3> QED
      BY <3>3, <3>4
  <2> QED
    BY <2>3, <2>4
<1> QED
  BY <1>10, <1>11, <1>12, <1>13

\* The holder goes on.
LEMMA LockKept ==
  ASSUME Typed, MutexAccounting, NEW r \in Requests, pc[r] # "idle", holder[sid[r]] = r,
         NEW to \in {"tools"} \cup EngineAwaits, pc' = [pc EXCEPT ![r] = to],
         UNCHANGED <<sid, lockVars>>
  PROVE  MutexAccounting'
<1> USE DEF Typed, CallsTyped, MutexAccounting
<1>1. sid[r] \in Sessions /\ sid' = sid /\ holder' = holder /\ queue' = queue
      /\ \A q \in Requests : q # r => pc'[q] = pc[q]
  BY DEF lockVars
<1>2. \A t \in Sessions : \A i \in DOMAIN queue[t] : queue[t][i] # r /\ queue[t][i] \in Requests
  BY <1>1 DEF QueueWaits
<1>3. HolderRefers'
  BY <1>1 DEF HolderRefers
<1>4. QueueWaits'
  BY <1>1, <1>2 DEF QueueWaits
<1>5. TurnsHold'
  BY <1>1 DEF TurnsHold, InTurn
<1>6. NobodyForgotten'
  BY <1>1 DEF NobodyForgotten, EngineAwaits
<1> QED
  BY <1>3, <1>4, <1>5, <1>6

LEMMA LoopsLocks ==
  ASSUME Typed, MutexAccounting, NEW r \in Requests, pc[r] # "idle", holder[sid[r]] = r,
         NEW n \in Nat, Loops(r, n)
  PROVE  MutexAccounting'
<1>1. CASE n < MaxToolIterations
  BY <1>1, LockKept DEF Loops, GoesTo, EngineAwaits
<1>2. CASE ~(n < MaxToolIterations)
  BY <1>2, LockReleased DEF Loops
<1> QED
  BY <1>1, <1>2

\* Every step of runTurn is one of the holder.
LEMMA StepHolds ==
  ASSUME Typed, MutexAccounting, NEW r \in Requests, Step(r)
  PROVE  pc[r] # "idle" /\ holder[sid[r]] = r /\ sid[r] \in Sessions
<1>1. \/ pc[r] = "queued" /\ holder[sid[r]] = r
      \/ InTurn(r)
  BY DEF Step, Starts, Refused, Counted, Recounted, Answers, CallsTools, ToolsEnd, Retries,
         Fails, EngineAwaits, InTurn
<1>2. pc[r] # "idle" /\ holder[sid[r]] = r
  BY <1>1 DEF MutexAccounting, TurnsHold, InTurn, EngineAwaits
<1> QED
  BY <1>2, Working

LEMMA StepLocks ==
  ASSUME Typed, MutexAccounting, NEW r \in Requests, Step(r)
  PROVE  MutexAccounting'
<1>0. pc[r] # "idle" /\ holder[sid[r]] = r
  BY StepHolds
<1>1. CASE Starts(r)
  BY <1>0, <1>1, LoopsLocks DEF Starts
<1>2. CASE Refused(r) \/ Answers(r) \/ Fails(r)
  BY <1>0, <1>2, LockReleased DEF Refused, Answers, Fails
<1>3. CASE Counted(r) \/ Recounted(r) \/ CallsTools(r)
  <2>1. PICK to \in {"tools"} \cup EngineAwaits : GoesTo(r, to)
    BY <1>3 DEF Counted, Recounted, CallsTools, EngineAwaits
  <2> QED
    BY <1>0, <1>3, <2>1, LockKept DEF Counted, Recounted, CallsTools, GoesTo
<1>4. CASE ToolsEnd(r)
  <2>1. iteration[r] + 1 \in Nat
    BY BoundsAssumption DEF Typed, CallsTyped
  <2> QED
    BY <1>0, <1>4, <2>1, LoopsLocks DEF ToolsEnd
<1>5. CASE Retries(r)
  BY <1>5 DEF Retries, lockVars, MutexAccounting, HolderRefers, QueueWaits, TurnsHold,
              NobodyForgotten, InTurn
<1> QED
  BY <1>1, <1>2, <1>3, <1>4, <1>5 DEF Step

LEMMA NextLocks == Typed /\ MutexAccounting /\ [Next]_vars => MutexAccounting'
<1> SUFFICES ASSUME Typed, MutexAccounting, [Next]_vars
             PROVE  MutexAccounting'
  OBVIOUS
<1>1. ASSUME NEW r \in Requests, NEW named \in Sessions \cup {NoSession}, Begin(r, named)
      PROVE  MutexAccounting'
  <2>1. PICK s \in Sessions : sid' = [sid EXCEPT ![r] = s] /\ Acquire(s, r)
    BY <1>1 DEF Begin
  <2> QED
    BY <1>1, <2>1, LockRequested DEF Begin
<1>2. ASSUME UNCHANGED <<lockVars, requestVars>>
      PROVE  MutexAccounting'
  BY <1>2 DEF lockVars, requestVars, MutexAccounting, HolderRefers, QueueWaits, TurnsHold,
              NobodyForgotten, InTurn
<1> QED
  BY <1>1, <1>2, StepLocks DEF Next, CleanupExpired, vars

-----------------------------------------------------------------------------
(* Histories.                                                              *)

LEMMA ShortOrNot ==
  ASSUME NEW h \in Seq(Messages), h # <<>>, Len(h) <= 1
  PROVE  Len(h) = 1
<1>1. Len(h) \in Nat /\ Len(h) # 0
  OBVIOUS
<1> QED
  BY <1>1

\* Results follow a call, a call is followed by results: so it stays.
LEMMA PairedAppend ==
  ASSUME NEW h \in Seq(Messages), NEW m \in Messages, Paired(h),
         m.kind = "results" <=> h # <<>> /\ Last(h).kind = "call"
  PROVE  Paired(Append(h, m)) /\ Append(h, m) # <<>> /\ Last(Append(h, m)) = m
<1> DEFINE n == Len(h)
           g == Append(h, m)
<1>1. /\ n \in Nat /\ Len(g) = n + 1 /\ g[n + 1] = m
      /\ \A i \in 1 .. n : g[i] = h[i]
      /\ h # <<>> <=> n > 0
  OBVIOUS
<1> HIDE DEF g
<1>2. Last(g) = m /\ g # <<>>
  BY <1>1 DEF Last, g
<1>3. m.kind = "results" <=> n > 0 /\ h[n].kind = "call"
  BY <1>1 DEF Last
<1>4. ASSUME NEW i \in 2 .. Len(g), g[i].kind = "results"
      PROVE  g[i - 1].kind = "call"
  <2>1. CASE i = n + 1
    BY <1>1, <1>3, <1>4, <2>1
  <2>2. CASE i # n + 1
    <3>1. i \in 2 .. n /\ i \in 1 .. n /\ i - 1 \in 1 .. n
      BY <1>1, <2>2
    <3> QED
      BY <1>1, <1>4, <3>1 DEF Paired
  <2> QED
    BY <2>1, <2>2
<1>5. ASSUME NEW i \in 1 .. Len(g) - 1, g[i].kind = "call"
      PROVE  g[i + 1].kind = "results"
  <2>1. i \in 1 .. n /\ h[i].kind = "call"
    BY <1>1, <1>5
  <2>2. CASE i = n
    BY <1>1, <1>3, <2>1, <2>2
  <2>3. CASE i # n
    <3>1. i \in 1 .. n - 1 /\ i + 1 \in 1 .. n
      BY <1>1, <2>1, <2>3
    <3> QED
      BY <1>1, <2>1, <3>1 DEF Paired
  <2> QED
    BY <2>2, <2>3
<1> QED
  BY <1>2, <1>4, <1>5 DEF Paired, g

\* Trimming cuts from the front and leaves the last message.
LEMMA PairedTail ==
  ASSUME NEW h \in Seq(Messages), Len(h) > 1, Paired(h)
  PROVE  Paired(Tail(h)) /\ Tail(h) # <<>> /\ Last(Tail(h)) = Last(h)
<1> DEFINE n == Len(h)
           g == Tail(h)
<1>1. /\ n \in Nat /\ Len(g) = n - 1 /\ h # <<>> /\ g \in Seq(Messages)
      /\ \A i \in 1 .. n - 1 : g[i] = h[i + 1]
  OBVIOUS
<1> HIDE DEF g
<1>2. g # <<>> /\ Last(g) = Last(h)
  <2>1. Len(g) = n - 1 /\ n - 1 \in 1 .. n - 1 /\ (n - 1) + 1 = n
    BY <1>1
  <2>2. g[n - 1] = h[(n - 1) + 1]
    BY <1>1, <2>1
  <2>3. g # <<>>
    BY <1>1, <2>1
  <2> QED
    BY <2>1, <2>2, <2>3 DEF Last
<1>3. ASSUME NEW i \in 2 .. Len(g), g[i].kind = "results"
      PROVE  g[i - 1].kind = "call"
  <2>1. /\ i \in 1 .. n - 1 /\ i - 1 \in 1 .. n - 1 /\ i + 1 \in 2 .. n
        /\ (i - 1) + 1 = i /\ (i + 1) - 1 = i
    BY <1>1
  <2>2. h[i + 1].kind = "results" /\ g[i - 1] = h[i]
    BY <1>1, <1>3, <2>1
  <2>3. h[(i + 1) - 1].kind = "call"
    BY <2>1, <2>2 DEF Paired
  <2> QED
    BY <2>1, <2>2, <2>3
<1>4. ASSUME NEW i \in 1 .. Len(g) - 1, g[i].kind = "call"
      PROVE  g[i + 1].kind = "results"
  <2>1. i \in 1 .. n - 1 /\ i + 1 \in 1 .. n - 1
    BY <1>1
  <2>2. h[i + 1].kind = "call" /\ g[i + 1] = h[(i + 1) + 1]
    BY <1>1, <1>4, <2>1
  <2>3. h[(i + 1) + 1].kind = "results"
    BY <2>1, <2>2 DEF Paired
  <2> QED
    BY <2>2, <2>3
<1> QED
  BY <1>2, <1>3, <1>4 DEF Paired, g

LEMMA InitTalk == Init => Conversations
  BY DEF Init, Conversations, HistoriesPaired, StateFollows, TurnOpen, Paired, InTurn,
         EngineAwaits

\* What the holder r of session s may leave behind, in its turn or after it.
Left(r, s) ==
  /\ Paired(history[s])
  /\ history[s] # <<>> /\ Last(history[s]).kind = "call" => pc[r] = "tools"
  /\ state[s] = "idle" /\ history[s] # <<>> => Last(history[s]).kind = "answer"
  /\ pc[r] = "idle" => state[s] \in {"idle", "error"}
  /\ InTurn(r) =>
       /\ sid[r] = s
       /\ state[s] = IF pc[r] = "tools" THEN "awaitingTool" ELSE "processing"
       /\ history[s] # <<>>
       /\ pc[r] = "tools" => Last(history[s]).kind = "call"
       /\ pc[r] = "complete" => Fits(r) \/ Len(history[s]) = 1

\* A step of the holder disturbs no other session.
LEMMA HolderTalk ==
  ASSUME Typed, MutexAccounting, Conversations, MutexAccounting',
         NEW r \in Requests, NEW s \in Sessions, sid[r] = s, holder[s] = r,
         pc'[r] = "idle" \/ InTurn(r)',
         pc'[r] = "idle" => sid'[r] = NoSession,
         \A q \in Requests \ {r} : pc'[q] = pc[q] /\ sid'[q] = sid[q],
         \A t \in Sessions \ {s} :
           history'[t] = history[t] /\ state'[t] = state[t] /\ holder'[t] = holder[t],
         Left(r, s)'
  PROVE  Conversations'
<1>1. /\ \A t \in Sessions : holder[t] \in Requests \cup {NoSession}
      /\ \A q \in Requests : sid[q] \in Sessions \cup {NoSession}
      /\ s # NoSession /\ NoSession \notin Sessions
      /\ \A q \in Requests : pc[q] = "idle" <=> sid[q] = NoSession
  BY SessionsAssumption DEF Typed, CallsTyped
<1>2. \A t \in Sessions \ {s} : holder[t] # r /\ holder'[t] # r
  BY <1>1, RequestsAssumption DEF MutexAccounting, HolderRefers
<1>3. \A q \in Requests \ {r} : InTurn(q)' = InTurn(q)
  BY DEF InTurn
\* Another request in a turn is in that of another session.
<1>4. \A q \in Requests \ {r} : InTurn(q) => sid[q] \in Sessions \ {s}
  <2> SUFFICES ASSUME NEW q \in Requests \ {r}, InTurn(q)
               PROVE  sid[q] \in Sessions \ {s}
    OBVIOUS
  <2>1. holder[sid[q]] = q
    BY DEF MutexAccounting, TurnsHold
  <2>2. sid[q] \in Sessions
    BY <1>1 DEF InTurn, EngineAwaits
  <2> QED
    BY <2>1, <2>2
<1>5. InTurn(r)' => sid'[r] = s /\ holder'[s] = r
  <2>1. InTurn(r)' => sid'[r] = s
    BY DEF Left
  <2>2. InTurn(r)' => holder'[sid'[r]] = r
    BY DEF MutexAccounting, TurnsHold
  <2> QED
    BY <2>1, <2>2
<1>6. /\ Paired(history'[s])
      /\ history'[s] # <<>> /\ Last(history'[s]).kind = "call" => pc'[r] = "tools"
      /\ state'[s] = "idle" /\ history'[s] # <<>> => Last(history'[s]).kind = "answer"
      /\ pc'[r] = "idle" => state'[s] \in {"idle", "error"}
  BY DEF Left
<1>7. HistoriesPaired'
  <2> SUFFICES ASSUME NEW t \in Sessions
               PROVE  /\ Paired(history'[t])
                      /\ history'[t] # <<>> /\ Last(history'[t]).kind = "call" =>
                           holder'[t] # NoSession /\ pc'[holder'[t]] = "tools"
    BY DEF HistoriesPaired
  <2>1. CASE t # s
    <3>1. /\ Paired(history[t])
          /\ history[t] # <<>> /\ Last(history[t]).kind = "call" =>
               holder[t] # NoSession /\ pc[holder[t]] = "tools"
      BY DEF Conversations, HistoriesPaired
    <3>2. history'[t] = history[t] /\ holder'[t] = holder[t]
          /\ (holder[t] # NoSession => pc'[holder[t]] = pc[holder[t]])
      BY <1>1, <1>2, <2>1
    <3> QED
      BY <3>1, <3>2
  <2>2. CASE t = s
    BY <1>5, <1>6, <2>2, RequestsAssumption DEF InTurn
  <2> QED
    BY <2>1, <2>2
<1>8. StateFollows'
  <2>1. ASSUME NEW t \in Sessions
        PROVE  /\ state'[t] = "idle" /\ history'[t] # <<>> => Last(history'[t]).kind = "answer"
               /\ state'[t] \in {"processing", "awaitingTool"} =>
                    holder'[t] # NoSession /\ InTurn(holder[t])'
    <3>1. CASE t # s
      <4>1. /\ state[t] = "idle" /\ history[t] # <<>> => Last(history[t]).kind = "answer"
            /\ state[t] \in {"processing", "awaitingTool"} =>
                 holder[t] # NoSession /\ InTurn(holder[t])
        BY DEF Conversations, StateFollows
      <4>2. /\ history'[t] = history[t] /\ state'[t] = state[t] /\ holder'[t] = holder[t]
            /\ holder[t] # NoSession => pc'[holder[t]] = pc[holder[t]]
        BY <1>1, <1>2, <3>1
      <4> QED
        BY <4>1, <4>2 DEF InTurn
    <3>2. CASE t = s
      BY <1>5, <1>6, <3>2, RequestsAssumption DEF InTurn
    <3> QED
      BY <3>1, <3>2
  <2>2. ASSUME NEW q \in Requests, InTurn(q)'
        PROVE  state'[sid'[q]] = IF pc'[q] = "tools" THEN "awaitingTool" ELSE "processing"
    <3>1. CASE q = r
      BY <1>5, <2>2, <3>1 DEF Left
    <3>2. CASE q # r
      BY <1>3, <1>4, <2>2, <3>2 DEF Conversations, StateFollows
    <3> QED
      BY <3>1, <3>2
  <2> QED
    BY <2>1, <2>2 DEF StateFollows, InTurn
<1>9. TurnOpen'
  <2> SUFFICES ASSUME NEW q \in Requests, InTurn(q)'
               PROVE  /\ history'[sid'[q]] # <<>>
                      /\ pc'[q] = "tools" => Last(history'[sid'[q]]).kind = "call"
                      /\ pc'[q] = "complete" => Fits(q)' \/ Len(history'[sid'[q]]) = 1
    BY DEF TurnOpen
  <2>1. CASE q = r
    BY <1>5, <2>1 DEF Left
  <2>2. CASE q # r
    <3>1. InTurn(q) /\ sid[q] \in Sessions \ {s} /\ sid'[q] = sid[q] /\ pc'[q] = pc[q]
          /\ history'[sid[q]] = history[sid[q]]
      BY <1>3, <1>4, <2>2
    <3>2. Fits(q)' = Fits(q)
      BY <3>1 DEF Fits
    <3> QED
      BY <3>1, <3>2 DEF Conversations, TurnOpen
  <2> QED
    BY <2>1, <2>2
<1> QED
  BY <1>7, <1>8, <1>9 DEF Conversations

LEMMA SettlesOnly ==
  ASSUME Typed, NEW r \in Requests, NEW s \in Sessions, sid[r] = s, Settles(r)
  PROVE  /\ pc'[r] = "idle" /\ sid'[r] = NoSession
         /\ \A q \in Requests \ {r} : pc'[q] = pc[q] /\ sid'[q] = sid[q]
         /\ \A t \in Sessions \ {s} : holder'[t] = holder[t]
  BY DEF Typed, CallsTyped, Settles, GoesTo, Release

LEMMA GoesOnly ==
  ASSUME Typed, NEW r \in Requests, NEW to, GoesTo(r, to)
  PROVE  pc'[r] = to /\ \A q \in Requests \ {r} : pc'[q] = pc[q]
  BY DEF Typed, CallsTyped, GoesTo

\* The next iteration, or MaxIterationsError, after a message that is no call.
LEMMA LoopsTalk ==
  ASSUME Typed, MutexAccounting, Conversations, MutexAccounting',
         NEW r \in Requests, NEW s \in Sessions, sid[r] = s, holder[s] = r,
         NEW n \in Nat, Loops(r, n),
         \A t \in Sessions \ {s} : history'[t] = history[t],
         Paired(history'[s]), history'[s] # <<>>, Last(history'[s]).kind # "call"
  PROVE  Conversations'
<1>1. CASE n < MaxToolIterations
  <2>1. GoesTo(r, "count") /\ Becomes(r, "processing") /\ UNCHANGED <<sid, lockVars>>
    BY <1>1 DEF Loops
  <2>2. pc'[r] = "count" /\ \A q \in Requests \ {r} : pc'[q] = pc[q]
    BY <2>1, GoesOnly
  <2>3. state'[s] = "processing" /\ \A t \in Sessions \ {s} : state'[t] = state[t]
    BY <2>1 DEF Becomes, Typed, StoreTyped
  <2>4. Left(r, s)'
    BY <2>1, <2>2, <2>3 DEF Left
  <2>5. InTurn(r)'
    BY <2>2 DEF InTurn, EngineAwaits
  <2> QED
    BY <2>1, <2>2, <2>3, <2>4, <2>5, HolderTalk DEF lockVars
<1>2. CASE ~(n < MaxToolIterations)
  <2>1. Settles(r) /\ Becomes(r, "error")
    BY <1>2 DEF Loops
  <2>2. /\ pc'[r] = "idle" /\ sid'[r] = NoSession
        /\ \A q \in Requests \ {r} : pc'[q] = pc[q] /\ sid'[q] = sid[q]
        /\ \A t \in Sessions \ {s} : holder'[t] = holder[t]
    BY <2>1, SettlesOnly
  <2>3. state'[s] = "error" /\ \A t \in Sessions \ {s} : state'[t] = state[t]
    BY <2>1 DEF Becomes, Typed, StoreTyped
  <2>4. Left(r, s)'
    BY <2>2, <2>3 DEF Left, InTurn, EngineAwaits
  <2> QED
    BY <2>2, <2>3, <2>4, HolderTalk
<1> QED
  BY <1>1, <1>2

\* The turn ends, and leaves the history with an answer, or with an error.
LEMMA SettlesTalk ==
  ASSUME Typed, MutexAccounting, Conversations, MutexAccounting',
         NEW r \in Requests, NEW s \in Sessions, sid[r] = s, holder[s] = r, Settles(r),
         \A t \in Sessions \ {s} : history'[t] = history[t] /\ state'[t] = state[t],
         Paired(history'[s]),
         history'[s] # <<>> => Last(history'[s]).kind # "call",
         state'[s] \in {"idle", "error"},
         state'[s] = "idle" /\ history'[s] # <<>> => Last(history'[s]).kind = "answer"
  PROVE  Conversations'
<1>1. /\ pc'[r] = "idle" /\ sid'[r] = NoSession
      /\ \A q \in Requests \ {r} : pc'[q] = pc[q] /\ sid'[q] = sid[q]
      /\ \A t \in Sessions \ {s} : holder'[t] = holder[t]
  BY SettlesOnly
<1>2. Left(r, s)'
  BY <1>1 DEF Left, InTurn, EngineAwaits
<1> QED
  BY <1>1, <1>2, HolderTalk

LEMMA StepTalk ==
  ASSUME Typed, MutexAccounting, Conversations, MutexAccounting', NEW r \in Requests, Step(r)
  PROVE  Conversations'
<1>5. PICK s \in Sessions : sid[r] = s
  BY StepHolds
<1>0. /\ pc[r] # "idle" /\ holder[s] = r /\ r # NoSession
      /\ history \in [Sessions -> Seq(Messages)]
      /\ state \in [Sessions -> {"idle", "processing", "awaitingTool", "error"}]
  BY <1>5, StepHolds, RequestsAssumption DEF Typed, StoreTyped
<1>1. /\ Paired(history[s])
      /\ history[s] # <<>> /\ Last(history[s]).kind = "call" => pc[r] = "tools"
      /\ state[s] = "idle" /\ history[s] # <<>> => Last(history[s]).kind = "answer"
      /\ state[s] \in {"processing", "awaitingTool"} => InTurn(r)
  BY <1>0 DEF Conversations, HistoriesPaired, StateFollows
<1>2. InTurn(r) =>
        /\ state[s] = IF pc[r] = "tools" THEN "awaitingTool" ELSE "processing"
        /\ history[s] # <<>>
        /\ pc[r] = "tools" => Last(history[s]).kind = "call"
        /\ pc[r] = "complete" => Fits(r) \/ Len(history[s]) = 1
  BY <1>5 DEF Conversations, StateFollows, TurnOpen
\* A message that is pushed, and that is a result exactly after a call.
<1>3. ASSUME NEW kind \in {"user", "call", "results", "answer"}, Push(r, kind),
             kind = "results" <=> pc[r] = "tools"
      PROVE  /\ \A t \in Sessions \ {s} : history'[t] = history[t]
             /\ Paired(history'[s]) /\ history'[s] # <<>>
             /\ Last(history'[s]).kind = kind
  <2>1. PICK m \in Messages :
          m.kind = kind /\ history' = [history EXCEPT ![s] = Append(history[s], m)]
    BY <1>3, <1>5, Pushes DEF Typed
  <2>2. history[s] \in Seq(Messages) /\ history'[s] = Append(history[s], m)
    BY <1>0, <2>1
  <2>3. m.kind = "results" <=> history[s] # <<>> /\ Last(history[s]).kind = "call"
    BY <1>1, <1>2, <1>3, <2>1 DEF InTurn
  <2>4. /\ Paired(Append(history[s], m)) /\ Append(history[s], m) # <<>>
        /\ Last(Append(history[s], m)) = m
    BY <1>1, <2>2, <2>3, PairedAppend
  <2> QED
    BY <1>0, <2>1, <2>2, <2>4
<1>4. ASSUME NEW new \in {"idle", "processing", "awaitingTool", "error"}, Becomes(r, new)
      PROVE  state'[s] = new /\ \A t \in Sessions \ {s} : state'[t] = state[t]
  BY <1>0, <1>4, <1>5 DEF Becomes
<1>6. CASE Starts(r)
  <2>1. Push(r, "user") /\ Loops(r, 0) /\ pc[r] = "queued"
    BY <1>6 DEF Starts
  <2>2. /\ \A t \in Sessions \ {s} : history'[t] = history[t]
        /\ Paired(history'[s]) /\ history'[s] # <<>>
        /\ Last(history'[s]).kind = "user"
    BY <1>3, <2>1
  <2> QED
    BY <1>0, <1>5, <2>1, <2>2, LoopsTalk
<1>7. CASE Refused(r)
  <2>1. /\ Settles(r) /\ pc[r] = "queued" /\ UNCHANGED <<history, state>>
    BY <1>7 DEF Refused, sessionVars
  <2>2. state[s] \in {"idle", "error"}
    BY <1>0, <1>1, <2>1 DEF InTurn, EngineAwaits
  <2> QED
    BY <1>0, <1>1, <1>5, <2>1, <2>2, SettlesTalk
<1>8. CASE Counted(r) \/ Recounted(r)
  <2>1. /\ pc[r] \in {"count", "recount"} /\ InTurn(r) /\ UNCHANGED <<state, sid, lockVars>>
    BY <1>8 DEF Counted, Recounted, InTurn, EngineAwaits
  <2>2. /\ history[s] \in Seq(Messages) /\ history[s] # <<>> /\ Len(history[s]) \in Nat
        /\ Last(history[s]).kind # "call" /\ Paired(history[s]) /\ state[s] = "processing"
    BY <1>0, <1>1, <1>2, <2>1
  <2>3. CASE GoesTo(r, "complete") /\ UNCHANGED history
             /\ (Fits(r) \/ Len(history[sid[r]]) <= 1)
    <3>1. pc'[r] = "complete" /\ \A q \in Requests \ {r} : pc'[q] = pc[q]
      BY <2>3, GoesOnly
    <3>2. InTurn(r)'
      BY <3>1 DEF InTurn, EngineAwaits
    <3>3. Fits(r)' = Fits(r)
      <4>1. history' = history /\ sid' = sid
        BY <2>1, <2>3
      <4> QED
        BY <4>1 DEF Fits
    <3>4. Fits(r) \/ Len(history[s]) = 1
      <4>1. Len(history[s]) <= 1 => Len(history[s]) = 1
        BY <2>2, ShortOrNot
      <4> QED
        BY <1>5, <2>3, <4>1
    <3>5. Left(r, s)'
      BY <1>5, <2>1, <2>2, <2>3, <3>1, <3>3, <3>4 DEF Left
    <3> QED
      BY <1>0, <1>5, <2>1, <2>3, <3>1, <3>2, <3>5, HolderTalk DEF lockVars
  <2>4. CASE GoesTo(r, "recount") /\ Trim(r) /\ Len(history[sid[r]]) > 1
    <3>1. pc'[r] = "recount" /\ \A q \in Requests \ {r} : pc'[q] = pc[q]
      BY <2>4, GoesOnly
    <3>2. InTurn(r)'
      BY <3>1 DEF InTurn, EngineAwaits
    <3>3. /\ history'[s] = Tail(history[s])
          /\ \A t \in Sessions \ {s} : history'[t] = history[t]
      BY <1>0, <1>5, <2>4 DEF Trim
    <3>4. Paired(history'[s]) /\ history'[s] # <<>> /\ Last(history'[s]) = Last(history[s])
      BY <1>5, <2>2, <2>4, <3>3, PairedTail
    <3>5. Left(r, s)'
      BY <1>5, <2>1, <2>2, <3>1, <3>4 DEF Left
    <3> QED
      BY <1>0, <1>5, <2>1, <3>1, <3>2, <3>3, <3>5, HolderTalk DEF lockVars
  <2> QED
    BY <1>5, <1>8, <2>2, <2>3, <2>4 DEF Counted, Recounted
<1>9. CASE Answers(r)
  <2>1. Push(r, "answer") /\ Becomes(r, "idle") /\ Settles(r) /\ pc[r] = "complete"
    BY <1>9 DEF Answers
  <2>2. /\ \A t \in Sessions \ {s} : history'[t] = history[t]
        /\ Paired(history'[s]) /\ history'[s] # <<>>
        /\ Last(history'[s]).kind = "answer"
    BY <1>3, <2>1
  <2>3. state'[s] = "idle" /\ \A t \in Sessions \ {s} : state'[t] = state[t]
    BY <1>4, <2>1
  <2> QED
    BY <1>0, <1>5, <2>1, <2>2, <2>3, SettlesTalk
<1>10. CASE CallsTools(r)
  <2>1. /\ Push(r, "call") /\ Becomes(r, "awaitingTool") /\ GoesTo(r, "tools")
        /\ pc[r] = "complete" /\ UNCHANGED <<sid, lockVars>>
    BY <1>10 DEF CallsTools
  <2>2. /\ \A t \in Sessions \ {s} : history'[t] = history[t]
        /\ Paired(history'[s]) /\ history'[s] # <<>>
        /\ Last(history'[s]).kind = "call"
    BY <1>3, <2>1
  <2>3. state'[s] = "awaitingTool" /\ \A t \in Sessions \ {s} : state'[t] = state[t]
    BY <1>4, <2>1
  <2>4. pc'[r] = "tools" /\ \A q \in Requests \ {r} : pc'[q] = pc[q]
    BY <2>1, GoesOnly
  <2>5. InTurn(r)'
    BY <2>4 DEF InTurn
  <2>6. Left(r, s)'
    BY <1>5, <2>1, <2>2, <2>3, <2>4 DEF Left
  <2> QED
    BY <1>0, <1>5, <2>1, <2>2, <2>3, <2>4, <2>5, <2>6, HolderTalk DEF lockVars
<1>11. CASE ToolsEnd(r)
  <2>1. Push(r, "results") /\ Loops(r, iteration[r] + 1) /\ pc[r] = "tools"
    BY <1>11 DEF ToolsEnd
  <2>2. iteration[r] + 1 \in Nat
    BY BoundsAssumption DEF Typed, CallsTyped
  <2>3. /\ \A t \in Sessions \ {s} : history'[t] = history[t]
        /\ Paired(history'[s]) /\ history'[s] # <<>>
        /\ Last(history'[s]).kind = "results"
    BY <1>3, <2>1
  <2> QED
    BY <1>0, <1>5, <2>1, <2>2, <2>3, LoopsTalk
<1>12. CASE Retries(r)
  BY <1>12 DEF Retries, sessionVars, lockVars, Conversations, HistoriesPaired, StateFollows,
               TurnOpen, InTurn, Fits
<1>13. CASE Fails(r)
  <2>1. /\ Becomes(r, "error") /\ Settles(r) /\ UNCHANGED history /\ pc[r] \in EngineAwaits
    BY <1>13 DEF Fails
  <2>2. state'[s] = "error" /\ \A t \in Sessions \ {s} : state'[t] = state[t]
    BY <1>4, <2>1
  <2> QED
    BY <1>0, <1>1, <1>5, <2>1, <2>2, SettlesTalk DEF EngineAwaits
<1> QED
  BY <1>6, <1>7, <1>8, <1>9, <1>10, <1>11, <1>12, <1>13 DEF Step

\* A request that begins touches a session only to make it, when nobody refers to it.
LEMMA BeginTalk ==
  ASSUME Typed, MutexAccounting, Conversations, MutexAccounting',
         NEW r \in Requests, NEW named \in Sessions \cup {NoSession}, Begin(r, named)
  PROVE  Conversations'
<1>1. PICK s \in Sessions :
        /\ \/ UNCHANGED <<history, state>>
           \/ /\ s \in Fresh
              /\ history' = [history EXCEPT ![s] = <<>>]
              /\ state' = [state EXCEPT ![s] = "idle"]
        /\ sid' = [sid EXCEPT ![r] = s]
        /\ Acquire(s, r)
  BY DEF Begin, sessionVars
<1>2. /\ pc[r] = "idle" /\ pc' = [pc EXCEPT ![r] = "queued"]
      /\ r # NoSession /\ NoSession \notin Requests /\ NoSession \notin Sessions
  BY RequestsAssumption, SessionsAssumption DEF Begin
<1>3. /\ \A q \in Requests \ {r} : pc'[q] = pc[q] /\ sid'[q] = sid[q]
      /\ pc'[r] = "queued" /\ sid'[r] = s
      /\ \A t \in Sessions : holder[t] \in Requests \cup {NoSession}
      /\ \A q \in Requests : InTurn(q) => sid[q] \in Sessions
  BY <1>1, <1>2 DEF Typed, CallsTyped, InTurn, EngineAwaits
<1>4. \A t \in Sessions : holder[t] # r
  BY <1>2 DEF MutexAccounting, HolderRefers, Typed, CallsTyped
<1>5. \A t \in Sessions : holder[t] # NoSession => holder'[t] = holder[t]
  BY <1>1, <1>2 DEF Acquire, Typed, CallsTyped
<1>6. \A q \in Requests : InTurn(q)' => q # r /\ InTurn(q)
  BY <1>3 DEF InTurn, EngineAwaits
<1>7. \A t \in Sessions : holder[t] # NoSession => pc'[holder[t]] = pc[holder[t]]
  BY <1>3, <1>4
<1>8. CASE UNCHANGED <<history, state>>
  <2>1. HistoriesPaired'
    BY <1>5, <1>7, <1>8 DEF Conversations, HistoriesPaired
  <2>2. StateFollows'
    BY <1>3, <1>5, <1>6, <1>7, <1>8 DEF Conversations, StateFollows, InTurn
  <2>3. TurnOpen'
    <3> SUFFICES ASSUME NEW q \in Requests, InTurn(q)'
                 PROVE  /\ history'[sid'[q]] # <<>>
                        /\ pc'[q] = "tools" => Last(history'[sid'[q]]).kind = "call"
                        /\ pc'[q] = "complete" => Fits(q)' \/ Len(history'[sid'[q]]) = 1
      BY DEF TurnOpen
    <3>1. InTurn(q) /\ pc'[q] = pc[q] /\ sid'[q] = sid[q]
      BY <1>3, <1>6
    <3>2. Fits(q)' = Fits(q)
      BY <1>8, <3>1 DEF Fits
    <3> QED
      BY <1>8, <3>1, <3>2 DEF Conversations, TurnOpen
  <2> QED
    BY <2>1, <2>2, <2>3 DEF Conversations
<1>9. CASE /\ s \in Fresh
           /\ history' = [history EXCEPT ![s] = <<>>]
           /\ state' = [state EXCEPT ![s] = "idle"]
  <2>1. /\ history'[s] = <<>> /\ state'[s] = "idle"
        /\ \A t \in Sessions \ {s} : history'[t] = history[t] /\ state'[t] = state[t]
        /\ \A q \in Requests : sid[q] # s
    BY <1>9 DEF Typed, StoreTyped, Fresh
  <2>2. Paired(<<>>)
    BY DEF Paired
  <2>3. HistoriesPaired'
    BY <1>5, <1>7, <2>1, <2>2 DEF Conversations, HistoriesPaired
  <2>4. StateFollows'
    BY <1>3, <1>5, <1>6, <1>7, <2>1 DEF Conversations, StateFollows, InTurn
  <2>5. TurnOpen'
    <3> SUFFICES ASSUME NEW q \in Requests, InTurn(q)'
                 PROVE  /\ history'[sid'[q]] # <<>>
                        /\ pc'[q] = "tools" => Last(history'[sid'[q]]).kind = "call"
                        /\ pc'[q] = "complete" => Fits(q)' \/ Len(history'[sid'[q]]) = 1
      BY DEF TurnOpen
    <3>1. /\ InTurn(q) /\ pc'[q] = pc[q] /\ sid'[q] = sid[q]
          /\ history'[sid[q]] = history[sid[q]]
      BY <1>3, <1>6, <2>1
    <3>2. Fits(q)' = Fits(q)
      BY <3>1 DEF Fits
    <3> QED
      BY <3>1, <3>2 DEF Conversations, TurnOpen
  <2> QED
    BY <2>3, <2>4, <2>5 DEF Conversations
<1> QED
  BY <1>1, <1>8, <1>9

Inv == Typed /\ MutexAccounting /\ Conversations

LEMMA NextInv == Inv /\ [Next]_vars => Inv'
<1> SUFFICES ASSUME Inv, [Next]_vars
             PROVE  Inv'
  OBVIOUS
<1>1. Typed' /\ MutexAccounting'
  BY NextType, NextLocks DEF Inv
<1>2. ASSUME UNCHANGED <<history, state, lockVars, requestVars>>
      PROVE  Conversations'
  BY <1>2 DEF lockVars, requestVars, Inv, Conversations, HistoriesPaired, StateFollows,
              TurnOpen, InTurn, Fits
<1>3. Conversations'
  BY <1>1, <1>2, StepTalk, BeginTalk DEF Inv, Next, CleanupExpired, vars, sessionVars
<1> QED
  BY <1>1, <1>3 DEF Inv

LEMMA AlwaysInv == Spec => []Inv
<1>1. Init => Inv
  BY InitType, InitLocks, InitTalk DEF Inv
<1> QED
  BY <1>1, NextInv, PTL DEF Spec
-----------------------------------------------------------------------------
(* Theorems.                                                               *)

\* The mutex of every session is accounted for, whatever was removed while it was
\* held or waited for: whoever works on a session holds its mutex, whoever waits is
\* in its queue once, and a free mutex has no queue (async-mutex, session/store.ts).
THEOREM MutexesAccounted == Spec => []MutexAccounting
<1>1. Inv => MutexAccounting
  BY DEF Inv
<1> QED
  BY <1>1, AlwaysInv, PTL

\* Without any rollback every tool call in a history is followed by its results, but
\* for one whose tools are running, and results follow their call, but for those at a
\* front that trimming has cut; and a completion is asked for within the budget or for
\* one message (runTurn, trimHistoryIfNeeded).  How a history ends is not said: a turn
\* that fails leaves what it had pushed.
THEOREM HistoriesAreSound == Spec => []HistorySound
<1>1. Inv => HistorySound
  <2> SUFFICES ASSUME Inv
               PROVE  HistorySound
    OBVIOUS
  <2>1. ToolPairs
    <3> SUFFICES ASSUME NEW s \in Sessions
                 PROVE  /\ \A i \in 2 .. Len(history[s]) :
                             history[s][i].kind = "results" => history[s][i - 1].kind = "call"
                        /\ \A i \in 1 .. Len(history[s]) : history[s][i].kind = "call" =>
                             IF i < Len(history[s])
                               THEN history[s][i + 1].kind = "results"
                               ELSE holder[s] # NoSession /\ pc[holder[s]] = "tools"
      BY DEF ToolPairs
    <3>1. /\ Paired(history[s])
          /\ history[s] # <<>> /\ Last(history[s]).kind = "call" =>
               holder[s] # NoSession /\ pc[holder[s]] = "tools"
          /\ Len(history[s]) \in Nat /\ history[s] \in Seq(Messages)
      BY DEF Inv, Typed, StoreTyped, Conversations, HistoriesPaired
    <3>2. ASSUME NEW i \in 1 .. Len(history[s]), history[s][i].kind = "call"
          PROVE  IF i < Len(history[s])
                   THEN history[s][i + 1].kind = "results"
                   ELSE holder[s] # NoSession /\ pc[holder[s]] = "tools"
      <4>1. CASE i < Len(history[s])
        <5>1. i \in 1 .. Len(history[s]) - 1
          BY <3>1, <4>1
        <5> QED
          BY <3>1, <3>2, <4>1, <5>1 DEF Paired
      <4>2. CASE ~(i < Len(history[s]))
        <5>1. i = Len(history[s]) /\ history[s] # <<>>
          BY <3>1, <4>2
        <5> QED
          BY <3>1, <3>2, <4>2, <5>1 DEF Last
      <4> QED
        BY <4>1, <4>2
    <3> QED
      BY <3>1, <3>2 DEF Paired
  <2>2. BudgetRespected
    <3>1. \A r \in Requests : pc[r] = "complete" => InTurn(r)
      BY DEF InTurn, EngineAwaits
    <3> QED
      BY <3>1 DEF Inv, Conversations, TurnOpen, BudgetRespected
  <2> QED
    BY <2>1, <2>2 DEF HistorySound
<1> QED
  BY <1>1, AlwaysInv, PTL

\* The state of a session says how its last turn ended, or that one is under way;
\* and every reachable state is well typed, so that no turn loops more often than it
\* may (runTurn, the assignments of session.state).
THEOREM StateIsTold == Spec => []StateTold
<1>1. Inv => StateTold
  <2> SUFFICES ASSUME Inv
               PROVE  StateTold
    OBVIOUS
  <2>1. TypeOK
    BY DEF Inv, Typed, StoreTyped, CallsTyped, TypeOK
  <2>2. ASSUME NEW s \in Sessions
        PROVE  /\ state[s] = "idle" /\ history[s] # <<>> => Last(history[s]).kind = "answer"
               /\ state[s] \in {"processing", "awaitingTool"} =>
                    holder[s] # NoSession /\ InTurn(holder[s])
    BY DEF Inv, Conversations, StateFollows
  <2>3. ASSUME NEW s \in Sessions
        PROVE  state[s] = "awaitingTool" <=> \E r \in Requests : sid[r] = s /\ pc[r] = "tools"
    <3>1. ASSUME state[s] = "awaitingTool"
          PROVE  \E r \in Requests : sid[r] = s /\ pc[r] = "tools"
      <4>1. holder[s] # NoSession /\ InTurn(holder[s])
        BY <2>2, <3>1
      <4>2. holder[s] \in Requests /\ sid[holder[s]] = s
        BY <4>1 DEF Inv, Typed, CallsTyped, MutexAccounting, HolderRefers
      <4>3. state[s] = IF pc[holder[s]] = "tools" THEN "awaitingTool" ELSE "processing"
        BY <4>1, <4>2 DEF Inv, Conversations, StateFollows
      <4> QED
        BY <3>1, <4>2, <4>3
    <3>2. ASSUME NEW r \in Requests, sid[r] = s, pc[r] = "tools"
          PROVE  state[s] = "awaitingTool"
      BY <3>2 DEF Inv, Conversations, StateFollows, InTurn
    <3> QED
      BY <3>1, <3>2
  <2> QED
    BY <2>1, <2>2, <2>3 DEF StateTold
<1> QED
  BY <1>1, AlwaysInv, PTL

-----------------------------------------------------------------------------
(* Refinement, without fairness.                                           *)

Works == [r \in Requests |-> IF InTurn(r) THEN sid[r] ELSE NoSession]

\* The turn of r is over, or was refused.
LEMMA SettlesTurn ==
  ASSUME Typed, NEW r \in Requests, pc[r] # "idle", Settles(r)
  PROVE  Turns!End(r) \/ Turns!GiveUp(r)
<1>1. sid[r] \in Sessions /\ sid[r] # NoSession
  BY Working
<1>2. /\ pc'[r] = "idle" /\ sid'[r] = NoSession
      /\ \A q \in Requests \ {r} : pc'[q] = pc[q] /\ sid'[q] = sid[q]
  BY <1>1, SettlesOnly
<1>3. sid' = [sid EXCEPT ![r] = NoSession]
  BY DEF Settles
<1>4. CASE InTurn(r)
  <2>1. Works' = [Works EXCEPT ![r] = NoSession] /\ Works[r] # NoSession
    BY <1>1, <1>2, <1>4 DEF Works, InTurn, EngineAwaits
  <2> QED
    BY <1>3, <2>1 DEF Turns!End, Works
<1>5. CASE ~InTurn(r)
  <2>1. Works' = Works /\ Works[r] = NoSession
    BY <1>2, <1>5 DEF Works, InTurn, EngineAwaits
  <2> QED
    BY <1>1, <1>3, <2>1 DEF Turns!GiveUp, Works
<1> QED
  BY <1>4, <1>5

\* A turn goes on.
LEMMA TurnGoesOn ==
  ASSUME Typed, NEW r \in Requests, InTurn(r), UNCHANGED sid,
         NEW to \in {"tools"} \cup EngineAwaits, GoesTo(r, to)
  PROVE  UNCHANGED Turns!vars
<1>1. pc'[r] = to /\ \A q \in Requests \ {r} : pc'[q] = pc[q]
  BY GoesOnly
<1>2. Works' = Works
  BY <1>1 DEF Works, InTurn, EngineAwaits
<1> QED
  BY <1>2 DEF Turns!vars, Works

\* A step of runTurn is a step of TurnExclusion or a stutter.
LEMMA StepTurns ==
  ASSUME Inv, NEW r \in Requests, Step(r)
  PROVE  [Turns!Next]_(Turns!vars)
<1> USE DEF Inv
<1>0. pc[r] # "idle" /\ holder[sid[r]] = r /\ sid[r] \in Sessions /\ sid[r] # NoSession
  BY StepHolds, Working
<1>1. ASSUME Settles(r)
      PROVE  Turns!Next
  BY <1>0, <1>1, SettlesTurn DEF Turns!Next
<1>2. CASE Starts(r)
  <2>1. Loops(r, 0) /\ pc[r] = "queued"
    BY <1>2 DEF Starts
  <2>2. CASE GoesTo(r, "count") /\ UNCHANGED sid
    <3>1. pc'[r] = "count" /\ \A q \in Requests \ {r} : pc'[q] = pc[q]
      BY <2>2, GoesOnly
    <3>2. Works' = [Works EXCEPT ![r] = sid[r]] /\ Works[r] = NoSession
      BY <2>1, <2>2, <3>1 DEF Works, InTurn, EngineAwaits
    \* Who works on the session of r holds its mutex, which r holds.
    <3>3. ASSUME NEW q \in Requests
          PROVE  Works[q] # sid[r]
      <4>1. InTurn(q) => holder[sid[q]] = q
        BY DEF MutexAccounting, TurnsHold
      <4>2. ~InTurn(r)
        BY <2>1 DEF InTurn, EngineAwaits
      <4> QED
        BY <1>0, <4>1, <4>2 DEF Works
    <3>4. Turns!Begin(r)
      BY <1>0, <2>2, <3>2, <3>3 DEF Turns!Begin, Works
    <3> QED
      BY <3>4 DEF Turns!Next
  <2> QED
    BY <1>1, <2>1, <2>2 DEF Loops
<1>3. CASE Refused(r) \/ Answers(r) \/ Fails(r)
  BY <1>1, <1>3 DEF Refused, Answers, Fails
<1>4. CASE Counted(r) \/ Recounted(r) \/ CallsTools(r)
  <2>1. PICK to \in {"tools"} \cup EngineAwaits : GoesTo(r, to)
    BY <1>4 DEF Counted, Recounted, CallsTools, EngineAwaits
  <2>2. InTurn(r) /\ UNCHANGED sid
    BY <1>4 DEF Counted, Recounted, CallsTools, InTurn, EngineAwaits
  <2> QED
    BY <2>1, <2>2, TurnGoesOn
<1>5. CASE ToolsEnd(r)
  <2>1. InTurn(r) /\ Loops(r, iteration[r] + 1)
    BY <1>5 DEF ToolsEnd, InTurn
  <2> QED
    BY <1>1, <2>1, TurnGoesOn DEF Loops, EngineAwaits
<1>6. CASE Retries(r)
  BY <1>6 DEF Retries, Turns!vars, InTurn
<1> QED
  BY <1>2, <1>3, <1>4, <1>5, <1>6 DEF Step

LEMMA BeginTurns ==
  ASSUME Typed, NEW r \in Requests, NEW named \in Sessions \cup {NoSession}, Begin(r, named)
  PROVE  Turns!Next
<1>1. PICK s \in Sessions : sid' = [sid EXCEPT ![r] = s]
  BY DEF Begin
<1>2. sid[r] = NoSession /\ pc[r] = "idle" /\ pc' = [pc EXCEPT ![r] = "queued"]
  BY DEF Begin, Typed, CallsTyped
<1>3. Works' = Works
  BY <1>1, <1>2 DEF Works, InTurn, EngineAwaits, Typed, CallsTyped
<1>4. Turns!Ask(r, s)
  BY <1>1, <1>2, <1>3 DEF Turns!Ask, Works
<1> QED
  BY <1>4 DEF Turns!Next

\* The second orchestrator implements TurnExclusion, fairness apart: a turn begins
\* only when nobody works on its session, also when the session is removed.
THEOREM ImplementsExclusion == Spec => Turns!SafeSpec
<1>1. Init => Turns!Init
  BY DEF Init, Turns!Init, InTurn, EngineAwaits
<1>2. ASSUME Inv, [Next]_vars
      PROVE  [Turns!Next]_(Turns!vars)
  <2>1. ASSUME UNCHANGED requestVars
        PROVE  UNCHANGED Turns!vars
    BY <2>1 DEF requestVars, Turns!vars, InTurn
  <2> QED
    BY <1>2, <2>1, StepTurns, BeginTurns DEF Inv, Next, CleanupExpired, vars
<1> QED
  BY <1>1, <1>2, AlwaysInv, PTL DEF Spec, Turns!SafeSpec
-----------------------------------------------------------------------------
(* Termination.                                                            *)

\* What the turn of r may still do: iterations, awaits of this one, messages to
\* trim, attempts of this call.
IterationsLeft(r) == MaxToolIterations - iteration[r]
AwaitsLeft(r) ==
  CASE pc[r] = "count" -> 3
    [] pc[r] = "recount" -> 2
    [] pc[r] = "complete" -> 1
    [] pc[r] = "tools" -> 0
MessagesLeft(r) == Len(history[sid[r]])
AttemptsLeft(r) == MaxRetries - attempt[r]

Measure(r) == <<IterationsLeft(r), AwaitsLeft(r), MessagesLeft(r), AttemptsLeft(r)>>

\* The measure gets smaller, in the lexicographic order, or the turn is over.
WindsDown(r) ==
  \/ pc'[r] = "idle"
  \/ IterationsLeft(r)' < IterationsLeft(r)
  \/ /\ IterationsLeft(r)' = IterationsLeft(r)
     /\ \/ AwaitsLeft(r)' < AwaitsLeft(r)
        \/ /\ AwaitsLeft(r)' = AwaitsLeft(r)
           /\ \/ MessagesLeft(r)' < MessagesLeft(r)
              \/ /\ MessagesLeft(r)' = MessagesLeft(r)
                 /\ AttemptsLeft(r)' < AttemptsLeft(r)

\* Every step of a turn brings it nearer to its end, whatever the engine answers,
\* however often it fails and however much there is to trim (runTurn, withRetry);
\* and nobody else puts it back: not who begins, waits or ends meanwhile, on its
\* session or on another, nor a clean-up that removes its session from the store.
TurnsWindDown ==
  [][\A r \in Requests : InTurn(r) =>
       /\ Measure(r) \in Nat \X Nat \X Nat \X Nat
       /\ IF Step(r) THEN WindsDown(r) ELSE InTurn(r)' /\ UNCHANGED Measure(r)]_vars

LEMMA MeasureType ==
  ASSUME Typed, NEW r \in Requests, InTurn(r)
  PROVE  /\ IterationsLeft(r) \in Nat /\ AwaitsLeft(r) \in Nat
         /\ MessagesLeft(r) \in Nat /\ AttemptsLeft(r) \in Nat
<1>1. IterationsLeft(r) \in Nat /\ AttemptsLeft(r) \in Nat
  BY BoundsAssumption DEF Typed, CallsTyped, IterationsLeft, AttemptsLeft
<1>2. AwaitsLeft(r) \in Nat
  BY DEF AwaitsLeft, InTurn, EngineAwaits
<1>3. sid[r] \in Sessions
  BY Working DEF InTurn, EngineAwaits
<1>4. MessagesLeft(r) \in Nat
  BY <1>3 DEF Typed, StoreTyped, MessagesLeft
<1> QED
  BY <1>1, <1>2, <1>4

\* A step of its own.
LEMMA StepWindsDown ==
  ASSUME Inv, NEW r \in Requests, InTurn(r), Step(r)
  PROVE  WindsDown(r)
<1> USE DEF Inv
<1>0. /\ sid[r] \in Sessions /\ history[sid[r]] \in Seq(Messages)
      /\ iteration[r] \in Nat /\ attempt[r] \in Nat /\ MaxToolIterations \in Nat /\ MaxRetries \in Nat
  BY Working, BoundsAssumption DEF InTurn, EngineAwaits, Typed, StoreTyped, CallsTyped
<1>1. ASSUME UNCHANGED iteration, AwaitsLeft(r)' < AwaitsLeft(r) PROVE WindsDown(r)
  BY <1>1 DEF WindsDown, IterationsLeft
<1>2. ASSUME Settles(r) PROVE WindsDown(r)
  BY <1>0, <1>2, SettlesOnly DEF WindsDown
<1>3. CASE Starts(r) \/ Refused(r)
  BY <1>3 DEF Starts, Refused, InTurn, EngineAwaits
<1>4. CASE Answers(r) \/ Fails(r)
  BY <1>2, <1>4 DEF Answers, Fails
<1>5. CASE Counted(r)
  <2>1. AwaitsLeft(r) = 3
    BY <1>5 DEF Counted, AwaitsLeft
  <2>2. pc'[r] = "complete" \/ pc'[r] = "recount"
    BY <1>5, GoesOnly DEF Counted
  <2>3. AwaitsLeft(r)' < 3
    BY <2>2 DEF AwaitsLeft
  <2>4. UNCHANGED iteration
    BY <1>5 DEF Counted
  <2> QED
    BY <1>1, <2>1, <2>3, <2>4
<1>6. CASE Recounted(r)
  <2>1. AwaitsLeft(r) = 2 /\ UNCHANGED <<iteration, sid>>
    BY <1>6 DEF Recounted, AwaitsLeft
  <2>2. CASE GoesTo(r, "complete")
    <3>1. pc'[r] = "complete"
      BY <2>2, GoesOnly
    <3>2. AwaitsLeft(r)' = 1
      BY <3>1 DEF AwaitsLeft
    <3> QED
      BY <1>1, <2>1, <3>2
  <2>3. CASE GoesTo(r, "recount") /\ Trim(r) /\ ~(Len(history[sid[r]]) <= 1)
    <3>1. pc'[r] = "recount"
      BY <2>3, GoesOnly
    <3>2. AwaitsLeft(r)' = 2
      BY <3>1 DEF AwaitsLeft
    <3>3. history'[sid[r]] = Tail(history[sid[r]])
      BY <1>0, <2>3 DEF Trim, Typed, StoreTyped
    <3>4. Len(Tail(history[sid[r]])) < Len(history[sid[r]])
      BY <1>0, <2>3
    <3>5. MessagesLeft(r)' < MessagesLeft(r)
      BY <2>1, <3>3, <3>4 DEF MessagesLeft
    <3> QED
      BY <2>1, <3>2, <3>5 DEF WindsDown, IterationsLeft
  <2> QED
    BY <1>6, <2>2, <2>3 DEF Recounted
<1>7. CASE CallsTools(r)
  <2>1. AwaitsLeft(r) = 1 /\ UNCHANGED iteration
    BY <1>7 DEF CallsTools, AwaitsLeft
  <2>2. pc'[r] = "tools"
    BY <1>7, GoesOnly DEF CallsTools
  <2>3. AwaitsLeft(r)' = 0
    BY <2>2 DEF AwaitsLeft
  <2> QED
    BY <1>1, <2>1, <2>3
<1>8. CASE ToolsEnd(r)
  <2>1. CASE iteration' = [iteration EXCEPT ![r] = iteration[r] + 1]
    <3>1. iteration'[r] = iteration[r] + 1
      BY <2>1 DEF Typed, CallsTyped
    <3> QED
      BY <1>0, <3>1 DEF WindsDown, IterationsLeft
  <2> QED
    BY <1>2, <1>8, <2>1 DEF ToolsEnd, Loops
<1>9. CASE Retries(r)
  <2>1. UNCHANGED <<pc, sid, history, iteration>> /\ attempt'[r] = attempt[r] + 1
    BY <1>9 DEF Retries, sessionVars, Typed, CallsTyped
  <2>2. AttemptsLeft(r)' < AttemptsLeft(r)
    BY <1>0, <2>1 DEF AttemptsLeft
  <2>3. /\ IterationsLeft(r)' = IterationsLeft(r) /\ AwaitsLeft(r)' = AwaitsLeft(r)
        /\ MessagesLeft(r)' = MessagesLeft(r)
    BY <2>1 DEF IterationsLeft, AwaitsLeft, MessagesLeft
  <2> QED
    BY <2>2, <2>3 DEF WindsDown
<1> QED
  BY <1>3, <1>4, <1>5, <1>6, <1>7, <1>8, <1>9 DEF Step

\* A step of somebody else: who is in a turn has the session to himself.
LEMMA OthersKeepTurn ==
  ASSUME Inv, NEW r \in Requests, InTurn(r),
         NEW q \in Requests, q # r,
         Step(q) \/ \E named \in Sessions \cup {NoSession} : Begin(q, named)
  PROVE  /\ pc'[r] = pc[r] /\ sid'[r] = sid[r]
         /\ iteration'[r] = iteration[r] /\ attempt'[r] = attempt[r]
         /\ history'[sid[r]] = history[sid[r]]
<1> USE DEF Inv
<1>0. sid[r] \in Sessions /\ holder[sid[r]] = r
  BY Working DEF InTurn, EngineAwaits, MutexAccounting, TurnsHold
<1>t. /\ pc \in [Requests -> {"idle", "queued", "tools"} \cup EngineAwaits]
      /\ sid \in [Requests -> Sessions \cup {NoSession}]
      /\ iteration \in [Requests -> 0 .. MaxToolIterations]
      /\ attempt \in [Requests -> 0 .. MaxRetries]
      /\ history \in [Sessions -> Seq(Messages)]
  BY DEF Typed, StoreTyped, CallsTyped
<1>1. CASE Step(q)
  <2>1. sid[q] # sid[r] /\ sid[q] \in Sessions
    BY <1>0, <1>1, StepHolds
  <2>2. history'[sid[r]] = history[sid[r]]
    BY <1>0, <1>1, <1>t, <2>1
       DEF Step, Starts, Refused, Counted, Recounted, Answers, CallsTools, ToolsEnd, Retries, Fails,
           Push, Trim, sessionVars
  <2>3. pc'[r] = pc[r] /\ attempt'[r] = attempt[r]
    BY <1>1, <1>t DEF Step, Starts, Refused, Counted, Recounted, Answers, CallsTools, ToolsEnd,
                      Retries, Fails, Loops, Settles, GoesTo
  <2>4. sid'[r] = sid[r] /\ iteration'[r] = iteration[r]
    BY <1>1, <1>t DEF Step, Starts, Refused, Counted, Recounted, Answers, CallsTools, ToolsEnd,
                      Retries, Fails, Loops, Settles
  <2> QED
    BY <2>2, <2>3, <2>4
<1>2. ASSUME NEW named \in Sessions \cup {NoSession}, Begin(q, named)
      PROVE  /\ pc'[r] = pc[r] /\ sid'[r] = sid[r]
             /\ iteration'[r] = iteration[r] /\ attempt'[r] = attempt[r]
             /\ history'[sid[r]] = history[sid[r]]
  <2>1. PICK s \in Sessions :
          /\ UNCHANGED history \/ (s \in Fresh /\ history' = [history EXCEPT ![s] = <<>>])
          /\ sid' = [sid EXCEPT ![q] = s]
    <3>1. CASE named \in live
      BY <1>2, <3>1 DEF Begin, sessionVars
    <3>2. CASE named \notin live
      BY <1>2, <3>2 DEF Begin
    <3> QED
      BY <3>1, <3>2
  <2>2. s \in Fresh => s # sid[r]
    BY DEF Fresh
  <2>3. history'[sid[r]] = history[sid[r]]
    BY <1>0, <1>t, <2>1, <2>2
  <2>4. pc' = [pc EXCEPT ![q] = "queued"] /\ UNCHANGED <<iteration, attempt>>
    BY <1>2 DEF Begin
  <2> QED
    BY <1>t, <2>1, <2>3, <2>4
<1> QED
  BY <1>1, <1>2

\* Every turn of the second orchestrator winds down, and nobody winds it up again.
THEOREM TurnsAlwaysWindDown == Spec => TurnsWindDown
<1>1. ASSUME Inv, Next, NEW r \in Requests, InTurn(r)
      PROVE  /\ Measure(r) \in Nat \X Nat \X Nat \X Nat
             /\ IF Step(r) THEN WindsDown(r) ELSE InTurn(r)' /\ UNCHANGED Measure(r)
  <2>1. Measure(r) \in Nat \X Nat \X Nat \X Nat
    BY <1>1, MeasureType DEF Inv, Measure
  <2>2. CASE Step(r)
    BY <1>1, <2>1, <2>2, StepWindsDown
  <2>3. CASE ~Step(r)
    <3>1. /\ pc'[r] = pc[r] /\ sid'[r] = sid[r]
          /\ iteration'[r] = iteration[r] /\ attempt'[r] = attempt[r]
          /\ history'[sid[r]] = history[sid[r]]
      <4>1. ASSUME NEW q \in Requests,
                   Step(q) \/ \E named \in Sessions \cup {NoSession} : Begin(q, named)
            PROVE  q # r
        BY <1>1, <2>3, <4>1 DEF Begin, InTurn, EngineAwaits
      <4>2. ASSUME NEW expired \in SUBSET live, CleanupExpired(expired)
            PROVE  UNCHANGED <<pc, sid, iteration, attempt, history>>
        BY <4>2 DEF CleanupExpired, requestVars
      <4> QED
        BY <1>1, <4>1, <4>2, OthersKeepTurn DEF Next
    <3>2. InTurn(r)'
      BY <1>1, <3>1 DEF InTurn
    <3>3. UNCHANGED Measure(r)
      BY <3>1 DEF Measure, IterationsLeft, AwaitsLeft, MessagesLeft, AttemptsLeft
    <3> QED
      BY <2>1, <2>3, <3>2, <3>3
  <2> QED
    BY <2>2, <2>3
<1>2. Inv /\ [Next]_vars =>
        [\A r \in Requests : InTurn(r) =>
           /\ Measure(r) \in Nat \X Nat \X Nat \X Nat
           /\ IF Step(r) THEN WindsDown(r) ELSE InTurn(r)' /\ UNCHANGED Measure(r)]_vars
  BY <1>1
<1> QED
  BY <1>2, AlwaysInv, PTL DEF Spec, TurnsWindDown
-----------------------------------------------------------------------------
(* Order of service.                                                       *)

\* Those who are before position i of the queue q.
Ahead(q, i) == {q[j] : j \in 1 .. (i - 1)}

\* The mutex of s goes to the first of those who wait and to nobody else, and who
\* waits has nobody ahead of him who was not there already.
Served(s) ==
  /\ \A i \in 1 .. Len(queue[s]), k \in 1 .. Len(queue'[s]) :
       queue'[s][k] = queue[s][i] => Ahead(queue'[s], k) \subseteq Ahead(queue[s], i)
  /\ queue[s] # <<>> => holder'[s] \in {holder[s], Head(queue[s])}

\* async-mutex is fair, also when a session is removed from the store and named
\* again meanwhile (mutex.acquire in runTurn).
FirstComeFirstServed == [][\A s \in Sessions : Served(s)]_vars

\* A queue that is joined at its end or left at its head keeps its order.
LEMMA QueueServes ==
  ASSUME Typed, MutexAccounting, NEW s \in Sessions,
         \/ queue'[s] = queue[s] /\ holder'[s] = holder[s]
         \/ holder[s] = NoSession
         \/ \E r \in Requests : /\ pc[r] = "idle" /\ queue'[s] = Append(queue[s], r)
                               /\ holder'[s] = holder[s]
         \/ /\ queue[s] # <<>>
            /\ queue'[s] = Tail(queue[s]) /\ holder'[s] = Head(queue[s])
  PROVE  Served(s)
<1>1. queue[s] \in Seq(Requests) /\ DOMAIN queue[s] = 1 .. Len(queue[s]) /\ Len(queue[s]) \in Nat
  BY DEF Typed, CallsTyped
<1>2. \A i, j \in 1 .. Len(queue[s]) : queue[s][i] = queue[s][j] => i = j
  BY <1>1, QueueDistinct
<1>3. CASE queue'[s] = queue[s] /\ holder'[s] = holder[s]
  BY <1>2, <1>3 DEF Served
<1>4. CASE holder[s] = NoSession
  <2>1. queue[s] = <<>>
    BY <1>4 DEF MutexAccounting, HolderRefers
  <2> QED
    BY <2>1 DEF Served
<1>5. ASSUME NEW r \in Requests, pc[r] = "idle", queue'[s] = Append(queue[s], r),
             holder'[s] = holder[s]
      PROVE  Served(s)
  <2>1. \A i \in 1 .. Len(queue[s]) : queue[s][i] # r
    BY <1>1, <1>5 DEF MutexAccounting, QueueWaits
  <2>2. ASSUME NEW i \in 1 .. Len(queue[s]), NEW k \in 1 .. Len(queue'[s]),
               queue'[s][k] = queue[s][i]
        PROVE  Ahead(queue'[s], k) \subseteq Ahead(queue[s], i)
    <3>1. k = i
      BY <1>1, <1>2, <1>5, <2>1, <2>2
    <3>2. \A j \in 1 .. (k - 1) : queue'[s][j] = queue[s][j]
      BY <1>1, <1>5, <3>1
    <3> QED
      BY <3>1, <3>2 DEF Ahead
  <2> QED
    BY <1>5, <2>2 DEF Served
<1>6. CASE queue[s] # <<>> /\ queue'[s] = Tail(queue[s]) /\ holder'[s] = Head(queue[s])
  <2>1. /\ Len(queue'[s]) = Len(queue[s]) - 1
        /\ \A j \in 1 .. (Len(queue[s]) - 1) : queue'[s][j] = queue[s][j + 1]
    BY <1>1, <1>6
  <2>2. ASSUME NEW i \in 1 .. Len(queue[s]), NEW k \in 1 .. Len(queue'[s]),
               queue'[s][k] = queue[s][i]
        PROVE  Ahead(queue'[s], k) \subseteq Ahead(queue[s], i)
    <3>1. k + 1 = i
      BY <1>1, <1>2, <2>1, <2>2
    <3>2. \A j \in 1 .. (k - 1) : queue'[s][j] = queue[s][j + 1] /\ j + 1 \in 1 .. (i - 1)
      BY <1>1, <2>1, <3>1
    <3> QED
      BY <3>2 DEF Ahead
  <2> QED
    BY <1>6, <2>2 DEF Served
<1> QED
  BY <1>3, <1>4, <1>5, <1>6

\* A turn of the second orchestrator comes in the order in which it was asked for.
THEOREM SessionsServeInOrder == Spec => FirstComeFirstServed
<1>1. ASSUME Inv, [Next]_vars, NEW s \in Sessions
      PROVE  Served(s)
  <2> USE <1>1 DEF Inv
  <2>0. /\ queue \in [Sessions -> Seq(Requests)]
        /\ holder \in [Sessions -> Requests \cup {NoSession}]
    BY DEF Typed, CallsTyped
  <2>1. ASSUME UNCHANGED lockVars PROVE Served(s)
    BY <2>1, QueueServes DEF lockVars
  <2>2. ASSUME NEW r \in Requests, NEW named \in Sessions \cup {NoSession}, Begin(r, named)
        PROVE  Served(s)
    <3>1. PICK t \in Sessions : Acquire(t, r)
      BY <2>2 DEF Begin
    <3>2. pc[r] = "idle"
      BY <2>2 DEF Begin
    <3>3. CASE t = s
      BY <2>0, <3>1, <3>2, <3>3, QueueServes DEF Acquire
    <3>4. CASE t # s
      BY <2>0, <3>1, <3>4, QueueServes DEF Acquire
    <3> QED
      BY <3>3, <3>4
  <2>3. ASSUME NEW r \in Requests, Step(r) PROVE Served(s)
    <3>1. sid[r] \in Sessions
      BY <2>3, StepHolds
    <3>2. UNCHANGED lockVars \/ Release(sid[r])
      BY <2>3 DEF Step, Starts, Refused, Counted, Recounted, Answers, CallsTools, ToolsEnd,
                  Retries, Fails, Loops, Settles
    <3>3. ASSUME Release(sid[r]) PROVE Served(s)
      <4>1. CASE sid[r] = s /\ queue[s] # <<>>
        <5>1. queue'[s] = Tail(queue[s]) /\ holder'[s] = Head(queue[s])
          BY <2>0, <3>3, <4>1 DEF Release
        <5> QED
          BY <4>1, <5>1, QueueServes
      <4>2. CASE sid[r] = s /\ queue[s] = <<>>
        BY <2>0, <4>2 DEF Served
      <4>3. CASE sid[r] # s
        <5>1. queue'[s] = queue[s] /\ holder'[s] = holder[s]
          BY <2>0, <3>3, <4>3 DEF Release
        <5> QED
          BY <5>1, QueueServes
      <4> QED
        BY <4>1, <4>2, <4>3
    <3> QED
      BY <2>1, <3>2, <3>3
  <2> QED
    BY <2>1, <2>2, <2>3 DEF Next, CleanupExpired, vars
<1>2. Inv /\ [Next]_vars => [\A s \in Sessions : Served(s)]_vars
  BY <1>1
<1> QED
  BY <1>2, AlwaysInv, PTL DEF Spec, FirstComeFirstServed
=============================================================================
