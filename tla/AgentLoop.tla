------------------------------- MODULE AgentLoop -------------------------------
(***************************************************************************)
(* The agent loop of the orchestrator (agent_loop/mod.rs, run_turn): the   *)
(* successive turns of one session, each run with the session locked, and  *)
(* the conversation snapshot it leaves in the memory store                 *)
(* (memory/store.rs, store_conversation).                                  *)
(*                                                                         *)
(* An action is the code between two awaits.  At an await the caller may   *)
(* drop the turn (Cancelled): ws.rs does when the socket closes, the HTTP  *)
(* server does when the client of a webhook call hangs up.                 *)
(*                                                                         *)
(* A message is its kind, the turn that pushed it and its size in tokens.  *)
(* Its role follows from the kind: user and result are sent as "user",     *)
(* call and answer as "assistant".                                         *)
(***************************************************************************)
EXTENDS Naturals, Sequences, SequencesExt

CONSTANTS
  MaxToolIterations,  \* agent.max_tool_iterations
  MaxContextTokens,   \* agent.max_context_tokens
  Sizes,              \* sizes a message may have
  MaxTurns            \* bound: turns of the session that are explored

ASSUME IterationsAssumption == MaxToolIterations \in Nat
ASSUME ContextAssumption == MaxContextTokens \in Nat
ASSUME SizesAssumption == Sizes \subseteq Nat /\ Sizes # {}
ASSUME TurnsAssumption == MaxTurns \in Nat

VARIABLES
  history,     \* session.conversation_history
  state,       \* session.state
  pc,          \* the await at which the turn is suspended, or "unlocked"
  iteration,   \* of the for loop
  checkpoint,  \* history_checkpoint
  stored,      \* the points conv_0, conv_1, ... of the session's collection
  turn,        \* number of the current or last turn
  outcome,     \* outcome[n]: how turn n went
  before,      \* the history at the start of the turn
  trimmed      \* has the turn trimmed the history?

sessionVars == <<history, state>>
localVars == <<pc, iteration, checkpoint>>
ghostVars == <<turn, outcome, before, trimmed>>
vars == <<sessionVars, localVars, stored, ghostVars>>

Kinds == {"system", "user", "call", "result", "answer"}
Messages == [kind : Kinds, turn : 0..MaxTurns, size : Sizes]
Outcomes == {"none", "running", "ok", "count_error", "error", "cancelled"}
Awaits == {"prompt", "count", "complete", "tool", "persist"}

TypeOK ==
  /\ history \in Seq(Messages)
  /\ state \in {"Idle", "Processing", "AwaitingToolResult", "Error"}
  /\ pc \in Awaits \cup {"unlocked", "iterate"}
  /\ iteration \in 0..MaxToolIterations
  /\ checkpoint \in Nat
  /\ stored \in Seq(Messages)
  /\ turn \in 0..MaxTurns
  /\ outcome \in [1..MaxTurns -> Outcomes]
  /\ before \in Seq(Messages)
  /\ trimmed \in BOOLEAN

Init ==
  /\ history = <<>>
  /\ state = "Idle"
  /\ pc = "unlocked"
  /\ iteration = 0
  /\ checkpoint = 0
  /\ stored = <<>>
  /\ turn = 0
  /\ outcome = [n \in 1..MaxTurns |-> "none"]
  /\ before = <<>>
  /\ trimmed = FALSE

-----------------------------------------------------------------------------
(* Operations on the history.                                              *)

Message(kind, size) == [kind |-> kind, turn |-> turn, size |-> size]

\* Fault: truncate keeps one element too many.
TruncateLess(h, n) == IF n + 1 < Len(h) THEN SubSeq(h, 1, n + 1) ELSE h

\* Vec::truncate
Truncate(h, n) == IF n < Len(h) THEN SubSeq(h, 1, n) ELSE h

\* Fault: the oldest message is taken to be the first one.
TrimFirst(h) == Tail(h)

\* Vec::remove(1)
RemoveSecond(h) == [i \in 1..(Len(h) - 1) |-> IF i = 1 THEN h[1] ELSE h[i + 1]]

\* What the Cognition Engine counts.
TokenCount(h) == FoldLeft(LAMBDA sum, m : sum + m.size, 0, h)

-----------------------------------------------------------------------------
(* run_turn.                                                               *)

\* The turn returns or is dropped, and with it the session lock.
Return(how) ==
  /\ pc' = "unlocked"
  /\ outcome' = [outcome EXCEPT ![turn] = how]
  /\ UNCHANGED <<iteration, checkpoint, turn, before, trimmed>>

\* The caller has locked the session: push the user message; the very first
\* message of a session also needs the system prompt.
Begin(size) ==
  /\ pc = "unlocked"
  /\ turn < MaxTurns
  /\ turn' = turn + 1
  /\ outcome' = [outcome EXCEPT ![turn + 1] = "running"]
  /\ before' = history
  /\ trimmed' = FALSE
  /\ checkpoint' = Len(history)
  /\ history' = Append(history, [kind |-> "user", turn |-> turn + 1, size |-> size])
  /\ state' = "Processing"
  /\ iteration' = 0
  /\ pc' = IF Len(history) = 0 THEN "prompt" ELSE "iterate"
  /\ UNCHANGED stored

\* Fault: the system prompt is pushed after the user message.
InjectPromptLast(size) ==
  /\ pc = "prompt"
  /\ history' = Append(history, [kind |-> "system", turn |-> 0, size |-> size])
  /\ pc' = "iterate"
  /\ UNCHANGED <<state, iteration, checkpoint, stored, ghostVars>>

\* build_system_prompt has read the tool schemas.
InjectPrompt(size) ==
  /\ pc = "prompt"
  /\ history' = <<[kind |-> "system", turn |-> 0, size |-> size]>> \o history
  /\ pc' = "iterate"
  /\ UNCHANGED <<state, iteration, checkpoint, stored, ghostVars>>

\* The head of the for loop.
Iterate ==
  /\ pc = "iterate"
  /\ iteration < MaxToolIterations
  /\ pc' = "count"
  /\ UNCHANGED <<sessionVars, iteration, checkpoint, stored, ghostVars>>

\* Fault: the session is made Idle by a rollback.
RollBackToIdle ==
  /\ history' = Truncate(history, checkpoint)
  /\ state' = "Idle"
  /\ Return("error")
  /\ UNCHANGED stored

RollBack ==
  /\ history' = Truncate(history, checkpoint)
  /\ state' = "Error"
  /\ Return("error")
  /\ UNCHANGED stored

MaxIterationsExceeded ==
  /\ pc = "iterate"
  /\ iteration = MaxToolIterations
  /\ RollBack

\* Fault: one message is trimmed and the tokens are not counted again.
CountedOnce ==
  /\ pc = "count"
  /\ pc' = "complete"
  /\ IF TokenCount(history) > MaxContextTokens /\ Len(history) > 2
       THEN history' = RemoveSecond(history) /\ trimmed' = TRUE
       ELSE UNCHANGED <<history, trimmed>>
  /\ UNCHANGED <<state, iteration, checkpoint, stored, turn, outcome, before>>

\* count_tokens has answered: go on, or remove a message and count again.
Counted ==
  /\ pc = "count"
  /\ IF TokenCount(history) > MaxContextTokens /\ Len(history) > 2
       THEN /\ history' = RemoveSecond(history)
            /\ trimmed' = TRUE
            /\ UNCHANGED pc
       ELSE /\ pc' = "complete"
            /\ UNCHANGED <<history, trimmed>>
  /\ UNCHANGED <<state, iteration, checkpoint, stored, turn, outcome, before>>

\* count_tokens has failed: the error is returned by `?'.
CountFails ==
  /\ pc = "count"
  /\ Return("count_error")
  /\ UNCHANGED <<sessionVars, stored>>

CompleteFails ==
  /\ pc = "complete"
  /\ RollBack

\* The completion has a tool call that the policy permits.
CallsTool(size) ==
  /\ pc = "complete"
  /\ history' = Append(history, Message("call", size))
  /\ state' = "AwaitingToolResult"
  /\ pc' = "tool"
  /\ UNCHANGED <<iteration, checkpoint, stored, ghostVars>>

\* The tool has returned, an output or an error.
ToolReturns(size) ==
  /\ pc = "tool"
  /\ history' = Append(history, Message("result", size))
  /\ state' = "Processing"
  /\ iteration' = iteration + 1
  /\ pc' = "iterate"
  /\ UNCHANGED <<checkpoint, stored, ghostVars>>

\* Fault: a denied call does not count as an iteration.
DeniesToolForFree(size, resultSize) ==
  /\ pc = "complete"
  /\ history' = history \o <<Message("call", size), Message("result", resultSize)>>
  /\ state' = "Processing"
  /\ pc' = "iterate"
  /\ UNCHANGED <<iteration, checkpoint, stored, ghostVars>>

\* The completion has a tool call that the policy denies.
DeniesTool(size, resultSize) ==
  /\ pc = "complete"
  /\ history' = history \o <<Message("call", size), Message("result", resultSize)>>
  /\ state' = "Processing"
  /\ iteration' = iteration + 1
  /\ pc' = "iterate"
  /\ UNCHANGED <<checkpoint, stored, ghostVars>>

\* The completion has no tool call: it is the answer.
Answers(size) ==
  /\ pc = "complete"
  /\ history' = Append(history, Message("answer", size))
  /\ state' = "Idle"
  /\ pc' = "persist"
  /\ UNCHANGED <<iteration, checkpoint, stored, ghostVars>>

\* upsert_points of conv_0 .. conv_(n-1): later points are left as they were.
Upsert ==
  stored' = [i \in 1..(IF Len(stored) > Len(history) THEN Len(stored) ELSE Len(history)) |->
               IF i <= Len(history) THEN history[i] ELSE stored[i]]

Persists ==
  /\ pc = "persist"
  /\ Upsert
  /\ Return("ok")
  /\ UNCHANGED sessionVars

\* No memory store, or its error is logged.
PersistFails ==
  /\ pc = "persist"
  /\ Return("ok")
  /\ UNCHANGED <<sessionVars, stored>>

\* The caller drops the future at the await where it is; a request to the
\* memory store may have been sent by then.
Cancelled ==
  /\ pc \in Awaits
  /\ Return("cancelled")
  /\ \/ UNCHANGED stored
     \/ pc = "persist" /\ Upsert
  /\ UNCHANGED sessionVars

RunTurn ==
  \/ \E size \in Sizes : InjectPrompt(size)
  \/ Iterate
  \/ MaxIterationsExceeded
  \/ Counted
  \/ CountFails
  \/ CompleteFails
  \/ \E size \in Sizes : CallsTool(size) \/ ToolReturns(size) \/ Answers(size)
  \/ \E size, resultSize \in Sizes : DeniesTool(size, resultSize)
  \/ Persists
  \/ PersistFails

Next ==
  \/ \E size \in Sizes : Begin(size)
  \/ RunTurn
  \/ Cancelled

Spec == Init /\ [][Next]_vars

\* Every await of run_turn returns: gRPC calls and tools have timeouts.
FairSpec == Spec /\ WF_vars(RunTurn)

-----------------------------------------------------------------------------
(* Properties.                                                             *)

\* Turns follow each other in the history; only the first message may be the
\* system prompt, which belongs to no turn.
Chronological ==
  /\ \A i, j \in 1..Len(history) : i < j => history[i].turn <= history[j].turn
  /\ \A i \in 1..Len(history) :
       history[i].kind = "system" => i = 1 /\ history[i].turn = 0

\* A tool result comes right after its call, unless trimming has reached the
\* pair; a call has its result right after it unless the tool still runs or the
\* turn was cancelled or rolled back.
ToolPairs ==
  /\ \A i \in 3..Len(history) : history[i].kind = "result" =>
       history[i - 1].kind = "call" /\ history[i - 1].turn = history[i].turn
  /\ \A i \in 1..Len(history) : history[i].kind = "call" =>
       \/ outcome[history[i].turn] \in {"cancelled", "error"}
       \/ i = Len(history) /\ history[i].turn = turn /\ pc = "tool"
       \/ /\ i < Len(history)
          /\ history[i + 1].kind = "result"
          /\ history[i + 1].turn = history[i].turn

\* What the next completion is computed from is a well-formed conversation,
\* whatever failed, was trimmed or was cancelled before (agent_loop/mod.rs).
WellFormed == Chronological /\ ToolPairs

\* A session that says it is Idle has the answer to its last turn in place.
IdleMeansAnswered ==
  state = "Idle" /\ turn > 0 =>
    /\ history # <<>>
    /\ history[Len(history)].kind = "answer"
    /\ history[Len(history)].turn = turn

\* The trim loop stops only within the budget, or when two messages are left.
BudgetRespected ==
  pc = "complete" /\ TokenCount(history) > MaxContextTokens => Len(history) <= 2

\* A rollback takes nothing from earlier turns, and without trimming it leaves
\* the history exactly as the turn found it.
RollbackSound ==
  [][(\E n \in 1..MaxTurns : outcome[n] # "error" /\ outcome'[n] = "error") =>
       /\ \A i \in 1..Len(history) : history[i].turn \in 1..(turn - 1) =>
            i <= Len(history') /\ history'[i] = history[i]
       /\ ~trimmed => history' = before]_vars

\* The system prompt stays first; it goes only when the turn that injected it
\* is rolled back, and then everything goes, so that the next turn injects it.
PromptSurvives ==
  [][history # <<>> /\ history[1].kind = "system" =>
       \/ history' # <<>> /\ history'[1] = history[1]
       \/ history' = <<>> /\ before = <<>>]_vars

\* Every turn ends: the trim loop and the tool loop are bounded.
TurnEnds == pc # "unlocked" ~> pc = "unlocked"
=============================================================================
