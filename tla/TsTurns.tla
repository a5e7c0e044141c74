------------------------------- MODULE TsTurns --------------------------------
(***************************************************************************)
(* The second orchestrator (orchestrator-ts): concurrent calls of runTurn  *)
(* (agent/loop.ts) over the session store with its mutexes                 *)
(* (session/store.ts), and the retries of its client (cognition/retry.ts). *)
(*                                                                         *)
(* An action is the code between two awaits.  Both maps of the store have  *)
(* the same keys and are one set; a session and its mutex exist as long as *)
(* somebody refers to them, also when they have been removed from the maps.*)
(* Unlike the Rust one, a turn cannot be dropped, has no system prompt,    *)
(* runs all tool calls of a completion at once and is never rolled back.   *)
(***************************************************************************)
EXTENDS Naturals, Sequences, SequencesExt

CONSTANTS
  Requests,           \* pool of calls of runTurn; one that is over is used again
  Sessions,           \* pool of identifiers; one nobody refers to is used again
  NoSession,
  MaxToolIterations,  \* ORCH_AGENT_MAX_TOOL_ITERATIONS
  MaxRetries,         \* ORCH_COGNITION_MAX_RETRIES
  Budget,             \* tokens the engine's budget leaves for a history
  Sizes,              \* sizes a message may have
  MaxMessages         \* bound: messages of a history another turn is asked of

ASSUME SessionsAssumption == NoSession \notin Sessions
ASSUME RequestsAssumption == NoSession \notin Requests
ASSUME BoundsAssumption ==
  /\ MaxToolIterations \in Nat /\ MaxRetries \in Nat
  /\ Budget \in Nat /\ MaxMessages \in Nat
ASSUME SizesAssumption == Sizes \subseteq Nat

VARIABLES
  live,       \* the sessions in the store
  history,    \* history[s]: conversationHistory
  state,      \* state[s]: of the session
  holder,     \* holder[s]: who has the mutex
  queue,      \* queue[s]: who waits for it
  pc,         \* the await at which a request is suspended, or "idle"
  sid,        \* the session it has resolved to
  iteration,  \* of its loop
  attempt     \* of withRetry

sessionVars == <<live, history, state>>
lockVars == <<holder, queue>>
requestVars == <<pc, sid, iteration, attempt>>
vars == <<sessionVars, lockVars, requestVars>>

Messages == [kind : {"user", "call", "results", "answer"}, size : Sizes]
EngineAwaits == {"count", "recount", "complete"}
InTurn(r) == pc[r] \in EngineAwaits \cup {"tools"}

TypeOK ==
  /\ live \subseteq Sessions
  /\ history \in [Sessions -> Seq(Messages)]
  /\ state \in [Sessions -> {"idle", "processing", "awaitingTool", "error"}]
  /\ holder \in [Sessions -> Requests \cup {NoSession}]
  /\ queue \in [Sessions -> Seq(Requests)]
  /\ pc \in [Requests -> {"idle", "queued", "tools"} \cup EngineAwaits]
  /\ sid \in [Requests -> Sessions \cup {NoSession}]
  /\ \A r \in Requests : pc[r] = "idle" <=> sid[r] = NoSession
  /\ \A r \in Requests :
       /\ iteration[r] \in 0..MaxToolIterations
       /\ InTurn(r) => iteration[r] < MaxToolIterations
  /\ attempt \in [Requests -> 0..MaxRetries]

Init ==
  /\ live = {}
  /\ history = [s \in Sessions |-> <<>>]
  /\ state = [s \in Sessions |-> "idle"]
  /\ holder = [s \in Sessions |-> NoSession]
  /\ queue = [s \in Sessions |-> <<>>]
  /\ pc = [r \in Requests |-> "idle"]
  /\ sid = [r \in Requests |-> NoSession]
  /\ iteration = [r \in Requests |-> 0]
  /\ attempt = [r \in Requests |-> 0]

-----------------------------------------------------------------------------
(* The store.                                                              *)

\* async-mutex: acquire.
Acquire(s, r) ==
  IF holder[s] = NoSession
    THEN holder' = [holder EXCEPT ![s] = r] /\ UNCHANGED queue
    ELSE queue' = [queue EXCEPT ![s] = Append(@, r)] /\ UNCHANGED holder

\* Fault: the mutex is free for whoever asks next, and so it is for who waits.
ReleaseAll(s) ==
  /\ holder' = [holder EXCEPT ![s] = IF queue[s] = <<>> THEN NoSession ELSE Last(queue[s])]
  /\ queue' = [queue EXCEPT ![s] = <<>>]

\* async-mutex: release, which hands the mutex to the first that waits.
Release(s) ==
  /\ holder' = [holder EXCEPT ![s] = IF queue[s] = <<>> THEN NoSession ELSE Head(queue[s])]
  /\ queue' = [queue EXCEPT ![s] = IF @ = <<>> THEN <<>> ELSE Tail(@)]

\* cleanupExpired.  lastActive is set when a turn begins, so that a session may
\* be over its time whatever it is in use for.
CleanupExpired(expired) ==
  /\ expired # {} /\ expired \subseteq live
  /\ live' = live \ expired
  /\ UNCHANGED <<history, state, lockVars, requestVars>>

-----------------------------------------------------------------------------
(* runTurn.                                                                *)

\* create: an identifier that nothing refers to.
Fresh == {s \in Sessions \ live : \A r \in Requests : sid[r] # s}

\* The session that is named, or a new one; then its mutex.
Begin(r, named) ==
  /\ pc[r] = "idle"
  /\ \E s \in Sessions :
       /\ IF named \in live
            THEN /\ s = named /\ Len(history[s]) + Len(queue[s]) < MaxMessages
                 /\ UNCHANGED sessionVars
            ELSE /\ s \in Fresh
                 /\ live' = live \cup {s}
                 /\ history' = [history EXCEPT ![s] = <<>>]
                 /\ state' = [state EXCEPT ![s] = "idle"]
       /\ sid' = [sid EXCEPT ![r] = s]
       /\ Acquire(s, r)
  /\ pc' = [pc EXCEPT ![r] = "queued"]
  /\ UNCHANGED <<iteration, attempt>>

Push(r, kind) ==
  \E size \in Sizes :
    history' = [history EXCEPT ![sid[r]] = Append(@, [kind |-> kind, size |-> size])]
Becomes(r, new) == state' = [state EXCEPT ![sid[r]] = new]
GoesTo(r, await) ==
  /\ pc' = [pc EXCEPT ![r] = await]
  /\ attempt' = [attempt EXCEPT ![r] = 0]

\* The promise is settled.
Settles(r) ==
  /\ GoesTo(r, "idle")
  /\ sid' = [sid EXCEPT ![r] = NoSession]
  /\ iteration' = [iteration EXCEPT ![r] = 0]
  /\ Release(sid[r])

\* The for loop: iteration n, or MaxIterationsError.
Loops(r, n) ==
  IF n < MaxToolIterations
    THEN /\ GoesTo(r, "count") /\ Becomes(r, "processing")
         /\ iteration' = [iteration EXCEPT ![r] = n]
         /\ UNCHANGED <<sid, lockVars>>
    ELSE Settles(r) /\ Becomes(r, "error")

\* The mutex is granted, the session is still there: the turn begins.
Starts(r) ==
  /\ pc[r] = "queued" /\ holder[sid[r]] = r
  /\ sid[r] \in live
  /\ Push(r, "user")
  /\ Loops(r, 0)
  /\ UNCHANGED live

\* "Session not found": it was removed meanwhile.
Refused(r) ==
  /\ pc[r] = "queued" /\ holder[sid[r]] = r
  /\ sid[r] \notin live
  /\ Settles(r)
  /\ UNCHANGED sessionVars

TokenCount(h) == FoldLeft(LAMBDA sum, m : sum + m.size, 0, h)
Fits(r) == TokenCount(history[sid[r]]) <= Budget

\* The oldest message goes.  No message of a turn has the role system, so findIndex
\* finds the first one, and always one.
Trim(r) == history' = [history EXCEPT ![sid[r]] = Tail(@)]

\* trimHistoryIfNeeded: the first count.
Counted(r) ==
  /\ pc[r] = "count"
  /\ IF Fits(r) \/ Len(history[sid[r]]) <= 1
       THEN GoesTo(r, "complete") /\ UNCHANGED history
       ELSE GoesTo(r, "recount") /\ Trim(r)
  /\ UNCHANGED <<live, state, lockVars, sid, iteration>>

\* And those after each trim.
Recounted(r) ==
  /\ pc[r] = "recount"
  /\ IF Fits(r) \/ Len(history[sid[r]]) <= 1
       THEN GoesTo(r, "complete") /\ UNCHANGED history
       ELSE GoesTo(r, "recount") /\ Trim(r)
  /\ UNCHANGED <<live, state, lockVars, sid, iteration>>

\* A completion without a tool call.
Answers(r) ==
  /\ pc[r] = "complete"
  /\ Push(r, "answer")
  /\ Becomes(r, "idle")
  /\ Settles(r)
  /\ UNCHANGED live

\* A completion with tool calls; all are started.
CallsTools(r) ==
  /\ pc[r] = "complete"
  /\ Push(r, "call")
  /\ Becomes(r, "awaitingTool")
  /\ GoesTo(r, "tools")
  /\ UNCHANGED <<live, lockVars, sid, iteration>>

\* Fault: a tool that fails fails the turn.
ToolsEndOrThrow(r) ==
  /\ pc[r] = "tools"
  /\ \/ Push(r, "results") /\ Loops(r, iteration[r] + 1)
     \/ Becomes(r, "error") /\ Settles(r) /\ UNCHANGED history
  /\ UNCHANGED live

\* All have ended; an error is a result.
ToolsEnd(r) ==
  /\ pc[r] = "tools"
  /\ Push(r, "results")
  /\ Loops(r, iteration[r] + 1)
  /\ UNCHANGED live

\* withRetry: a failure that is worth another attempt, made after a delay.
Retries(r) ==
  /\ pc[r] \in EngineAwaits
  /\ attempt[r] < MaxRetries
  /\ attempt' = [attempt EXCEPT ![r] = @ + 1]
  /\ UNCHANGED <<sessionVars, lockVars, pc, sid, iteration>>

\* Fault: the catch of runTurn is missing, and with it the state of the session.
FailsSilently(r) ==
  /\ pc[r] \in EngineAwaits
  /\ Becomes(r, "idle")
  /\ Settles(r)
  /\ UNCHANGED <<live, history>>

\* The last attempt fails, or an attempt fails for good, and the turn with it.
Fails(r) ==
  /\ pc[r] \in EngineAwaits
  /\ Becomes(r, "error")
  /\ Settles(r)
  /\ UNCHANGED <<live, history>>

Step(r) ==
  \/ Starts(r) \/ Refused(r)
  \/ Counted(r) \/ Recounted(r) \/ Answers(r) \/ CallsTools(r) \/ ToolsEnd(r)
  \/ Retries(r) \/ Fails(r)

Next ==
  \/ \E r \in Requests :
       \/ \E named \in Sessions \cup {NoSession} : Begin(r, named)
       \/ Step(r)
  \/ \E expired \in SUBSET live : CleanupExpired(expired)

Spec == Init /\ [][Next]_vars

\* The event loop follows promises that are settled: who is handed the mutex goes
\* on.  Engine calls have no deadline and tools no timeout, so nothing is assumed
\* about them: a turn may last for ever.
FairSpec == Spec /\ \A r \in Requests : WF_vars(Starts(r) \/ Refused(r))

-----------------------------------------------------------------------------
(* Properties.                                                             *)

\* Without any rollback the history stays a conversation, but for what trimming
\* cuts from its front: a call is followed by its results, whatever failed later
\* and whoever was queued behind it, and results follow their call (runTurn).
ToolPairs ==
  \A s \in Sessions :
    LET h == history[s]
        n == Len(h) IN
    /\ \A i \in 2..n : h[i].kind = "results" => h[i - 1].kind = "call"
    /\ \A i \in 1..n : h[i].kind = "call" =>
         IF i < n
           THEN h[i + 1].kind = "results"
           ELSE holder[s] # NoSession /\ pc[holder[s]] = "tools"

\* A session that says it is idle has the answer to its last turn in place, a
\* session that was left with a question says so, and one whose state is that of
\* a turn has a turn (runTurn, the assignments of session.state).  (With the types
\* of all variables, which bound the iterations.)
StateTold ==
  /\ TypeOK
  /\ \A s \in Sessions :
       /\ state[s] = "idle" /\ history[s] # <<>> => Last(history[s]).kind = "answer"
       /\ state[s] \in {"processing", "awaitingTool"} =>
            holder[s] # NoSession /\ InTurn(holder[s])
       /\ state[s] = "awaitingTool" <=> \E r \in Requests : sid[r] = s /\ pc[r] = "tools"

\* A completion is asked for within the budget, or for one message, and for one at
\* least (trimHistoryIfNeeded).
BudgetRespected ==
  \A r \in Requests : pc[r] = "complete" =>
    /\ history[sid[r]] # <<>>
    /\ Fits(r) \/ Len(history[sid[r]]) = 1

\* What a completion is asked for is a conversation and fits (runTurn): ToolPairs
\* and BudgetRespected.
HistorySound == ToolPairs /\ BudgetRespected

\* "Supports multiple concurrent sessions, each processed serially"
\* (orchestrator_scope.md): also while sessions are removed under the turns that
\* wait for them or work on them, turns exclude each other, and no session is left
\* idle while somebody waits for it.  That everybody's turn comes is not said: a
\* turn that never ends keeps the mutex (cognition/client.ts, agent/types.ts).
Turns == INSTANCE TurnExclusion WITH
  Tasks <- Requests,
  asked <- sid,
  working <- [r \in Requests |-> IF InTurn(r) THEN sid[r] ELSE NoSession]

ImplementsTurns == Turns!BusySpec
=============================================================================
