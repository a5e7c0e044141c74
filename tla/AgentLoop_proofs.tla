---------------------------- MODULE AgentLoop_proofs ----------------------------
(***************************************************************************)
(* Theorems about AgentLoop, for any bound on tool rounds and tokens, any  *)
(* sizes and any number of turns.                                          *)
(*                                                                         *)
(* The properties hold together: what the history looks like is known only *)
(* while it is known what a rollback would cut, and that depends on where  *)
(* the turn is.  Conversation is the inductive invariant that ties them.   *)
(***************************************************************************)
EXTENDS AgentLoop, TLAPS

InTurn == pc # "unlocked"

\* The locals of a turn are those of the current one.
Running ==
  /\ InTurn => turn \in 1..MaxTurns /\ outcome[turn] = "running"
  /\ pc \in {"count", "complete", "tool"} => iteration < MaxToolIterations

TypeInv == TypeOK /\ Running

\* The state the session is in at each await.
StateFollows ==
  /\ pc \in {"prompt", "iterate", "count", "complete"} => state = "Processing"
  /\ pc = "tool" => state = "AwaitingToolResult"
  /\ pc = "persist" => state = "Idle"

\* Only the prompt belongs to no turn, and no message to a turn to come.
Dated ==
  \A i \in 1..Len(history) :
    /\ history[i].turn <= turn
    /\ history[i].kind # "system" => history[i].turn >= 1

\* The history begins with the prompt or with what a user said.
Opening == history # <<>> => history[1].kind \in {"system", "user"}

\* Before a completion there is something to complete.
TurnSpoke == pc \in {"iterate", "count", "complete"} => history # <<>>

\* While the prompt is built the history is the message of the turn alone.
PromptDue ==
  pc = "prompt" =>
    /\ checkpoint = 0
    /\ Len(history) = 1
    /\ history[1].kind = "user"

\* While a tool runs its call is the last message.
CallPending ==
  pc = "tool" =>
    /\ history # <<>>
    /\ history[Len(history)].kind = "call"
    /\ history[Len(history)].turn = turn

\* A rollback would keep what earlier turns have left.
CheckpointKeeps ==
  InTurn =>
    /\ checkpoint = Len(before)
    /\ \A i \in 1..Len(history) : history[i].turn \in 1..(turn - 1) => i <= checkpoint

\* Until it trims, the turn has only added to what it found.
CheckpointExact ==
  InTurn /\ ~trimmed =>
    /\ checkpoint <= Len(history)
    /\ \A i \in 1..checkpoint : history[i] = before[i]

Conversation ==
  /\ StateFollows
  /\ Dated
  /\ Opening
  /\ TurnSpoke
  /\ PromptDue
  /\ CallPending
  /\ CheckpointKeeps
  /\ CheckpointExact
  /\ WellFormed
  /\ IdleMeansAnswered

-----------------------------------------------------------------------------
(* What the operations do to a history, element by element.                *)

\* push_message adds one message and keeps the others.
LEMMA Pushed ==
  ASSUME NEW S, NEW h \in Seq(S), NEW m \in S
  PROVE  /\ Append(h, m) \in Seq(S)
         /\ Len(Append(h, m)) = Len(h) + 1
         /\ \A i \in 1..Len(h) : Append(h, m)[i] = h[i]
         /\ Append(h, m)[Len(h) + 1] = m
OBVIOUS

\* A denied call adds two.
LEMMA PushedTwo ==
  ASSUME NEW S, NEW h \in Seq(S), NEW m \in S, NEW n \in S
  PROVE  /\ h \o <<m, n>> \in Seq(S)
         /\ Len(h \o <<m, n>>) = Len(h) + 2
         /\ \A i \in 1..Len(h) : (h \o <<m, n>>)[i] = h[i]
         /\ (h \o <<m, n>>)[Len(h) + 1] = m
         /\ (h \o <<m, n>>)[Len(h) + 2] = n
<1> DEFINE k == h \o <<m, n>>
<1>1. <<m, n>> \in Seq(S) /\ Len(<<m, n>>) = 2
  OBVIOUS
<1>2. k \in Seq(S) /\ Len(k) = Len(h) + 2
  BY <1>1
<1>3. \A i \in 1..Len(h) : k[i] = h[i]
  BY <1>1
<1>4. k[Len(h) + 1] = m /\ k[Len(h) + 2] = n
  BY <1>1
<1> QED
  BY <1>2, <1>3, <1>4

\* The prompt is put before the one message there is.
LEMMA Prefixed ==
  ASSUME NEW S, NEW h \in Seq(S), Len(h) = 1, NEW m \in S
  PROVE  /\ <<m>> \o h \in Seq(S)
         /\ Len(<<m>> \o h) = 2
         /\ (<<m>> \o h)[1] = m
         /\ (<<m>> \o h)[2] = h[1]
<1>1. <<m>> \in Seq(S) /\ Len(<<m>>) = 1
  OBVIOUS
<1> QED
  BY <1>1

\* Vec::truncate cuts the history at a length, or leaves it alone.
LEMMA Truncated ==
  ASSUME NEW S, NEW h \in Seq(S), NEW n \in Nat
  PROVE  /\ Truncate(h, n) \in Seq(S)
         /\ Len(Truncate(h, n)) = (IF n < Len(h) THEN n ELSE Len(h))
         /\ \A i \in 1..Len(Truncate(h, n)) : Truncate(h, n)[i] = h[i]
<1>1. CASE n < Len(h)
  <2>1. SubSeq(h, 1, n) \in Seq(S) /\ Len(SubSeq(h, 1, n)) = n
    BY <1>1
  <2>2. \A i \in 1..n : SubSeq(h, 1, n)[i] = h[i]
    BY <1>1
  <2> QED
    BY <1>1, <2>1, <2>2 DEF Truncate
<1>2. CASE ~(n < Len(h))
  BY <1>2 DEF Truncate
<1> QED
  BY <1>1, <1>2

\* Vec::remove(1) keeps the first message and moves the later ones down.
LEMMA Removed ==
  ASSUME NEW S, NEW h \in Seq(S), Len(h) > 1
  PROVE  /\ RemoveSecond(h) \in Seq(S)
         /\ Len(RemoveSecond(h)) = Len(h) - 1
         /\ RemoveSecond(h)[1] = h[1]
         /\ \A i \in 2..(Len(h) - 1) : RemoveSecond(h)[i] = h[i + 1]
<1> DEFINE at(i) == IF i = 1 THEN h[1] ELSE h[i + 1]
<1>1. Len(h) \in Nat /\ \A i \in 1..(Len(h) - 1) : at(i) \in S
  OBVIOUS
<1>2. RemoveSecond(h) = [i \in 1..(Len(h) - 1) |-> at(i)]
  BY DEF RemoveSecond
<1> HIDE DEF at
<1>3. RemoveSecond(h) \in Seq(S) /\ Len(RemoveSecond(h)) = Len(h) - 1
  BY <1>1, <1>2
<1>4. \A i \in 1..(Len(h) - 1) : RemoveSecond(h)[i] = at(i)
  BY <1>1, <1>2
<1> QED
  BY <1>1, <1>3, <1>4 DEF at

-----------------------------------------------------------------------------
(* Type correctness.                                                       *)

\* A new session is well typed (session/mod.rs, Session::new).
LEMMA InitType == Init => TypeInv
<1> SUFFICES ASSUME Init PROVE TypeInv
  OBVIOUS
<1>1. history \in Seq(Messages) /\ stored \in Seq(Messages) /\ before \in Seq(Messages)
  BY DEF Init
<1>2. outcome \in [1..MaxTurns -> Outcomes]
  BY DEF Init, Outcomes
<1>3. trimmed \in BOOLEAN
  BY DEF Init
<1>4. iteration \in 0..MaxToolIterations /\ turn \in 0..MaxTurns /\ checkpoint \in Nat
  BY TurnsAssumption, IterationsAssumption DEF Init
<1>5. state \in {"Idle", "Processing", "AwaitingToolResult", "Error"}
  BY DEF Init
<1>6. pc \in Awaits \cup {"unlocked", "iterate"}
  BY DEF Init
<1>7. TypeOK
  BY <1>1, <1>2, <1>3, <1>4, <1>5, <1>6 DEF TypeOK
<1> QED
  BY <1>7 DEF Init, TypeInv, Running, InTurn

\* What is stored is a sequence of messages after store_conversation.
LEMMA UpsertType == TypeOK /\ Upsert => stored' \in Seq(Messages)
<1> SUFFICES ASSUME TypeOK, Upsert PROVE stored' \in Seq(Messages)
  OBVIOUS
<1> DEFINE n == IF Len(stored) > Len(history) THEN Len(stored) ELSE Len(history)
           at(i) == IF i <= Len(history) THEN history[i] ELSE stored[i]
<1>1. n \in Nat /\ \A i \in 1..n : at(i) \in Messages
  BY DEF TypeOK
<1>2. stored' = [i \in 1..n |-> at(i)]
  BY DEF Upsert
<1> HIDE DEF n, at
<1> QED
  BY <1>1, <1>2

\* A turn that ends, however it does.
LEMMA ReturnType ==
  ASSUME TypeInv, InTurn,
         NEW how \in {"ok", "count_error", "error", "cancelled"}, Return(how),
         history' \in Seq(Messages), stored' \in Seq(Messages),
         state' \in {"Idle", "Processing", "AwaitingToolResult", "Error"}
  PROVE  TypeInv'
<1>1. outcome' \in [1..MaxTurns -> Outcomes]
  BY DEF TypeInv, TypeOK, Return, Outcomes
<1>2. pc' = "unlocked" /\ UNCHANGED <<iteration, checkpoint, turn, before, trimmed>>
  BY DEF Return
<1>3. TypeOK'
  BY <1>1, <1>2 DEF TypeInv, TypeOK
<1> QED
  BY <1>2, <1>3 DEF TypeInv, Running, InTurn

\* A turn that goes on to another place in the loop.
LEMMA StepType ==
  ASSUME TypeInv, InTurn,
         UNCHANGED <<checkpoint, stored, turn, outcome, before>>,
         history' \in Seq(Messages),
         state' \in {"Idle", "Processing", "AwaitingToolResult", "Error"},
         pc' \in Awaits \cup {"iterate"},
         iteration' \in 0..MaxToolIterations,
         pc' \in {"count", "complete", "tool"} => iteration' < MaxToolIterations,
         trimmed' \in BOOLEAN
  PROVE  TypeInv'
<1>1. TypeOK'
  BY DEF TypeInv, TypeOK
<1>2. Running'
  BY DEF TypeInv, Running, InTurn
<1> QED
  BY <1>1, <1>2 DEF TypeInv

\* The messages of the current turn are messages.
LEMMA MessageType ==
  ASSUME TypeInv, NEW kind \in Kinds, NEW size \in Sizes
  PROVE  Message(kind, size) \in Messages
BY DEF TypeInv, TypeOK, Message, Messages

\* One step of the specification preserves the types.
LEMMA NextType == TypeInv /\ [Next]_vars => TypeInv'
<1> SUFFICES ASSUME TypeInv, [Next]_vars PROVE TypeInv'
  OBVIOUS
<1> USE IterationsAssumption, TurnsAssumption
<1>1. ASSUME NEW size \in Sizes, Begin(size) PROVE TypeInv'
  <2>1. [kind |-> "user", turn |-> turn + 1, size |-> size] \in Messages
    BY <1>1 DEF Begin, TypeInv, TypeOK, Messages, Kinds
  <2>2. history' \in Seq(Messages)
    BY <1>1, <2>1 DEF Begin, TypeInv, TypeOK
  <2>3. outcome' \in [1..MaxTurns -> Outcomes] /\ turn' \in 1..MaxTurns
    BY <1>1 DEF Begin, TypeInv, TypeOK, Outcomes
  <2>4. outcome'[turn'] = "running"
    BY <1>1, <2>3 DEF Begin, TypeInv, TypeOK
  <2>5. trimmed' \in BOOLEAN
    BY <1>1 DEF Begin
  <2>6. /\ checkpoint' \in Nat /\ iteration' \in 0..MaxToolIterations
        /\ stored' \in Seq(Messages) /\ before' \in Seq(Messages)
    BY <1>1 DEF Begin, TypeInv, TypeOK
  <2>7. pc' \in {"prompt", "iterate"} /\ state' = "Processing"
    BY <1>1 DEF Begin
  <2> QED
    BY <2>2, <2>3, <2>4, <2>5, <2>6, <2>7 DEF TypeInv, TypeOK, Running, Awaits
<1>2. ASSUME NEW size \in Sizes, InjectPrompt(size) PROVE TypeInv'
  <2>1. [kind |-> "system", turn |-> 0, size |-> size] \in Messages
    BY DEF Messages, Kinds
  <2>2. history' \in Seq(Messages)
    BY <1>2, <2>1 DEF InjectPrompt, TypeInv, TypeOK
  <2> QED
    BY <1>2, <2>2, StepType
       DEF InjectPrompt, TypeInv, TypeOK, InTurn, ghostVars, Awaits
<1>3. ASSUME Iterate PROVE TypeInv'
  BY <1>3, StepType DEF Iterate, sessionVars, ghostVars, TypeInv, TypeOK, InTurn, Awaits
<1>4. ASSUME RollBack, InTurn PROVE TypeInv'
  BY <1>4, Truncated, ReturnType DEF RollBack, TypeInv, TypeOK
<1>5. ASSUME Counted PROVE TypeInv'
  <2>1. /\ UNCHANGED <<state, iteration, checkpoint, stored, turn, outcome, before>>
        /\ pc = "count" /\ pc' \in {"count", "complete"}
    BY <1>5 DEF Counted
  <2>2. history' \in Seq(Messages)
    BY <1>5, Removed DEF Counted, TypeInv, TypeOK
  <2>3. trimmed' \in BOOLEAN
    BY <1>5 DEF Counted, TypeInv, TypeOK
  <2> QED
    BY <2>1, <2>2, <2>3, StepType DEF TypeInv, TypeOK, Running, InTurn, Awaits
<1>6. ASSUME CountFails PROVE TypeInv'
  BY <1>6, ReturnType DEF CountFails, sessionVars, TypeInv, TypeOK, InTurn
<1>7. ASSUME NEW size \in Sizes, CallsTool(size) PROVE TypeInv'
  <2>1. history' \in Seq(Messages)
    BY <1>7, MessageType, Pushed DEF CallsTool, TypeInv, TypeOK, Kinds
  <2> QED
    BY <1>7, <2>1, StepType
       DEF CallsTool, ghostVars, TypeInv, TypeOK, Running, InTurn, Awaits
<1>8. ASSUME NEW size \in Sizes, ToolReturns(size) PROVE TypeInv'
  <2>1. history' \in Seq(Messages)
    BY <1>8, MessageType, Pushed DEF ToolReturns, TypeInv, TypeOK, Kinds
  <2>2. iteration' \in 0..MaxToolIterations
    BY <1>8 DEF ToolReturns, TypeInv, TypeOK, Running
  <2> QED
    BY <1>8, <2>1, <2>2, StepType DEF ToolReturns, ghostVars, TypeInv, TypeOK, InTurn, Awaits
<1>9. ASSUME NEW size \in Sizes, NEW resultSize \in Sizes, DeniesTool(size, resultSize)
      PROVE TypeInv'
  <2>1. Message("call", size) \in Messages /\ Message("result", resultSize) \in Messages
    BY MessageType DEF Kinds
  <2>2. history' \in Seq(Messages)
    BY <1>9, <2>1, PushedTwo DEF DeniesTool, TypeInv, TypeOK
  <2>3. iteration' \in 0..MaxToolIterations
    BY <1>9 DEF DeniesTool, TypeInv, TypeOK, Running
  <2> QED
    BY <1>9, <2>2, <2>3, StepType DEF DeniesTool, ghostVars, TypeInv, TypeOK, InTurn, Awaits
<1>10. ASSUME NEW size \in Sizes, Answers(size) PROVE TypeInv'
  <2>1. history' \in Seq(Messages)
    BY <1>10, MessageType, Pushed DEF Answers, TypeInv, TypeOK, Kinds
  <2> QED
    BY <1>10, <2>1, StepType DEF Answers, ghostVars, TypeInv, TypeOK, InTurn, Awaits
<1>11. ASSUME Persists PROVE TypeInv'
  BY <1>11, UpsertType, ReturnType DEF Persists, sessionVars, TypeInv, TypeOK, InTurn
<1>12. ASSUME PersistFails PROVE TypeInv'
  BY <1>12, ReturnType DEF PersistFails, sessionVars, TypeInv, TypeOK, InTurn
<1>13. ASSUME Cancelled PROVE TypeInv'
  <2>1. stored' \in Seq(Messages)
    BY <1>13, UpsertType DEF Cancelled, TypeInv, TypeOK
  <2> QED
    BY <1>13, <2>1, ReturnType DEF Cancelled, sessionVars, TypeInv, TypeOK, InTurn, Awaits
<1>14. CASE UNCHANGED vars
  BY <1>14 DEF vars, sessionVars, localVars, ghostVars, TypeInv, TypeOK, Running, InTurn
<1>15. MaxIterationsExceeded \/ CompleteFails => RollBack /\ InTurn
  BY DEF MaxIterationsExceeded, CompleteFails, InTurn
<1> QED
  BY <1>1, <1>2, <1>3, <1>4, <1>5, <1>6, <1>7, <1>8, <1>9, <1>10, <1>11, <1>12,
     <1>13, <1>14, <1>15
     DEF Next, RunTurn

\* Type correctness: TypeOK holds in every reachable state, and in particular
\* the loop never counts past max_tool_iterations.
THEOREM TypeCorrect == Spec => []TypeOK
<1>1. TypeInv => TypeOK
  BY DEF TypeInv
<1> QED
  BY <1>1, InitType, NextType, PTL DEF Spec

-----------------------------------------------------------------------------
(* The conversation.                                                       *)

\* What types say of the messages of a history.
LEMMA HistoryFacts ==
  ASSUME TypeInv
  PROVE  /\ Len(history) \in Nat
         /\ turn \in 0..MaxTurns
         /\ checkpoint \in Nat
         /\ \A i \in 1..Len(history) : history[i] \in Messages
         /\ \A i \in 1..Len(history) :
              history[i].turn \in 0..MaxTurns /\ history[i].kind \in Kinds
<1>1. \A i \in 1..Len(history) : history[i] \in Messages
  BY DEF TypeInv, TypeOK
<1> QED
  BY <1>1 DEF TypeInv, TypeOK, Messages

\* A new session has nothing to say (session/mod.rs, Session::new).
LEMMA InitConversation == Init => Conversation
BY DEF Init, Conversation, StateFollows, Dated, Opening, TurnSpoke, PromptDue, CallPending,
       CheckpointKeeps, CheckpointExact, InTurn, WellFormed, Chronological, ToolPairs,
       IdleMeansAnswered

\* A step that leaves the history alone: the turn goes on in the loop, or ends;
\* if its tool still ran it is cancelled.
LEMMA HistoryKept ==
  ASSUME TypeInv, Conversation, InTurn,
         UNCHANGED <<history, state, checkpoint, turn, before, trimmed>>,
         pc' \in {"unlocked", "count", "complete"},
         pc' # "unlocked" => state = "Processing" /\ pc \in {"iterate", "count"},
         \A n \in 1..MaxTurns : n # turn => outcome'[n] = outcome[n],
         pc = "tool" => outcome'[turn] = "cancelled"
  PROVE  Conversation'
<1>1. /\ StateFollows' /\ Dated' /\ Opening'
      /\ TurnSpoke' /\ PromptDue' /\ CallPending'
  BY DEF Conversation, StateFollows, Dated, Opening, TurnSpoke, PromptDue, CallPending
<1>2. CheckpointKeeps' /\ CheckpointExact'
  BY DEF Conversation, CheckpointKeeps, CheckpointExact, InTurn
<1>3. Chronological' /\ IdleMeansAnswered'
  BY DEF Conversation, WellFormed, Chronological, IdleMeansAnswered
<1>4. ToolPairs'
  <2>1. ASSUME NEW i \in 1..Len(history), history[i].kind = "call"
        PROVE  \/ outcome'[history[i].turn] \in {"cancelled", "error"}
               \/ /\ i < Len(history)
                  /\ history[i + 1].kind = "result"
                  /\ history[i + 1].turn = history[i].turn
    <3>1. history[i].turn \in 1..MaxTurns
      BY <2>1, HistoryFacts DEF Conversation, Dated
    <3>2. CASE outcome[history[i].turn] \in {"cancelled", "error"}
      BY <3>1, <3>2 DEF TypeInv, Running
    <3>3. CASE pc = "tool" /\ history[i].turn = turn
      BY <3>3
    <3> QED
      BY <2>1, <3>2, <3>3 DEF Conversation, WellFormed, ToolPairs
  <2> QED
    BY <2>1 DEF Conversation, WellFormed, ToolPairs
<1> QED
  BY <1>1, <1>2, <1>3, <1>4 DEF Conversation, WellFormed

\* The user message of a new turn follows what the session has.
LEMMA BeginConversation ==
  ASSUME TypeInv, Conversation, NEW size \in Sizes, Begin(size)
  PROVE  Conversation'
<1> DEFINE m == [kind |-> "user", turn |-> turn + 1, size |-> size]
           n == Len(history)
<1>0. /\ Len(history) \in Nat /\ turn \in 0..MaxTurns /\ checkpoint \in Nat
      /\ \A i \in 1..Len(history) :
           history[i].turn \in 0..MaxTurns /\ history[i].kind \in Kinds
  BY HistoryFacts
<1>1. /\ pc = "unlocked" /\ turn' = turn + 1 /\ turn < MaxTurns
      /\ checkpoint' = n /\ before' = history /\ state' = "Processing"
      /\ pc' = IF n = 0 THEN "prompt" ELSE "iterate"
      /\ \A t \in 1..turn : outcome'[t] = outcome[t]
  BY DEF Begin, TypeInv, TypeOK
<1>2. m \in Messages
  BY <1>1, TurnsAssumption DEF Messages, Kinds, TypeInv, TypeOK
<1>3. /\ Len(history') = n + 1
      /\ \A i \in 1..n : history'[i] = history[i]
      /\ history'[n + 1] = m
  BY <1>2, Pushed DEF Begin, TypeInv, TypeOK
<1>4. m.kind = "user" /\ m.turn = turn + 1
  OBVIOUS
<1> HIDE DEF m
<1>5. StateFollows' /\ CallPending' /\ IdleMeansAnswered'
  BY <1>0, <1>1 DEF StateFollows, CallPending, IdleMeansAnswered
<1>6. Dated'
  BY <1>0, <1>1, <1>3, <1>4 DEF Conversation, Dated
<1>7. Opening' /\ TurnSpoke' /\ PromptDue'
  BY <1>0, <1>1, <1>3, <1>4 DEF Conversation, Opening, TurnSpoke, PromptDue
<1>8. CheckpointKeeps' /\ CheckpointExact'
  BY <1>0, <1>1, <1>3, <1>4 DEF CheckpointKeeps, CheckpointExact
<1>9. Chronological'
  BY <1>0, <1>1, <1>3, <1>4 DEF Conversation, WellFormed, Chronological, Dated
<1>10. ToolPairs'
  <2>1. ASSUME NEW i \in 3..(n + 1), history'[i].kind = "result"
        PROVE history'[i - 1].kind = "call" /\ history'[i - 1].turn = history'[i].turn
    <3>1. i <= n
      BY <1>0, <1>3, <1>4, <2>1
    <3>2. history'[i] = history[i] /\ history'[i - 1] = history[i - 1]
      BY <1>0, <1>3, <2>1, <3>1
    <3> QED
      BY <1>0, <2>1, <3>1, <3>2 DEF Conversation, WellFormed, ToolPairs
  <2>2. ASSUME NEW i \in 1..(n + 1), history'[i].kind = "call",
               outcome'[history'[i].turn] \notin {"cancelled", "error"}
        PROVE /\ i < n + 1
              /\ history'[i + 1].kind = "result"
              /\ history'[i + 1].turn = history'[i].turn
    <3>1. i \in 1..n /\ history'[i] = history[i]
      BY <1>0, <1>3, <1>4, <2>2
    <3>2. history[i].turn \in 1..turn
      BY <1>0, <2>2, <3>1 DEF Conversation, Dated
    <3>3. i < n /\ history[i + 1].kind = "result" /\ history[i + 1].turn = history[i].turn
      BY <1>1, <2>2, <3>1, <3>2 DEF Conversation, WellFormed, ToolPairs
    <3>4. history'[i + 1] = history[i + 1]
      BY <1>0, <1>3, <3>1, <3>3
    <3> QED
      BY <1>0, <3>1, <3>3, <3>4
  <2> QED
    BY <1>3, <2>1, <2>2 DEF ToolPairs
<1> QED
  BY <1>5, <1>6, <1>7, <1>8, <1>9, <1>10 DEF Conversation, WellFormed

\* The prompt goes before the message of the first turn.
LEMMA PromptConversation ==
  ASSUME TypeInv, Conversation, NEW size \in Sizes, InjectPrompt(size)
  PROVE  Conversation'
<1> DEFINE m == [kind |-> "system", turn |-> 0, size |-> size]
<1>0. /\ Len(history) \in Nat /\ turn \in 0..MaxTurns /\ checkpoint \in Nat
      /\ \A i \in 1..Len(history) :
           history[i].turn \in 0..MaxTurns /\ history[i].kind \in Kinds
  BY HistoryFacts
<1>1. /\ pc = "prompt" /\ pc' = "iterate" /\ state = "Processing"
      /\ UNCHANGED <<state, checkpoint, turn, outcome, before, trimmed>>
      /\ checkpoint = 0 /\ Len(history) = 1 /\ history[1].kind = "user"
      /\ history[1].turn \in 1..turn
  BY <1>0 DEF InjectPrompt, ghostVars, Conversation, StateFollows, PromptDue, Dated
<1>2. m \in Messages
  BY TurnsAssumption DEF Messages, Kinds
<1>3. Len(history') = 2 /\ history'[1] = m /\ history'[2] = history[1]
  BY <1>0, <1>1, <1>2, Prefixed DEF InjectPrompt, TypeInv, TypeOK
<1>4. m.kind = "system" /\ m.turn = 0
  OBVIOUS
<1> HIDE DEF m
<1>5. StateFollows' /\ CallPending' /\ IdleMeansAnswered' /\ PromptDue'
  BY <1>0, <1>1 DEF StateFollows, CallPending, IdleMeansAnswered, PromptDue
<1>6. Dated' /\ Opening' /\ TurnSpoke'
  BY <1>0, <1>1, <1>3, <1>4 DEF Dated, Opening, TurnSpoke
<1>7. ~(history[1].turn \in 1..(turn - 1))
  BY <1>0, <1>1 DEF Conversation, CheckpointKeeps, InTurn
<1>8. CheckpointKeeps' /\ CheckpointExact'
  BY <1>0, <1>1, <1>3, <1>4, <1>7
     DEF Conversation, CheckpointKeeps, CheckpointExact, InTurn
<1>9. Chronological' /\ ToolPairs'
  BY <1>0, <1>1, <1>3, <1>4 DEF Chronological, ToolPairs
<1> QED
  BY <1>5, <1>6, <1>8, <1>9 DEF Conversation, WellFormed

\* Trimming takes a message out of the middle.
LEMMA TrimConversation ==
  ASSUME TypeInv, Conversation, pc = "count", pc' = "count", Len(history) > 2,
         history' = RemoveSecond(history), trimmed' = TRUE,
         UNCHANGED <<state, checkpoint, turn, outcome, before>>
  PROVE  Conversation'
<1> DEFINE n == Len(history)
<1>0. /\ Len(history) \in Nat /\ turn \in 0..MaxTurns /\ checkpoint \in Nat
      /\ \A i \in 1..Len(history) :
           history[i].turn \in 0..MaxTurns /\ history[i].kind \in Kinds
  BY HistoryFacts
<1>1. /\ Len(history') = n - 1
      /\ history'[1] = history[1]
      /\ \A i \in 2..(n - 1) : history'[i] = history[i + 1]
  BY Removed DEF TypeInv, TypeOK
<1>2. StateFollows' /\ CallPending' /\ IdleMeansAnswered' /\ PromptDue'
  BY DEF Conversation, StateFollows, CallPending, IdleMeansAnswered, PromptDue
<1>3. Dated' /\ Opening' /\ TurnSpoke'
  BY <1>0, <1>1 DEF Conversation, Dated, Opening, TurnSpoke
<1> DEFINE old(i) == IF i = 1 THEN 1 ELSE i + 1
<1>4. \A i \in 1..(n - 1) : /\ old(i) \in 1..n /\ i <= old(i)
                            /\ history'[i] = history[old(i)]
  BY <1>0, <1>1
<1>5. CheckpointKeeps' /\ CheckpointExact'
  <2>1. ASSUME NEW i \in 1..(n - 1), history'[i].turn \in 1..(turn - 1)
        PROVE i <= checkpoint
    <3>1. old(i) <= checkpoint
      BY <2>1, <1>4 DEF Conversation, CheckpointKeeps, InTurn
    <3> QED
      BY <1>0, <1>4, <2>1, <3>1
  <2> QED
    BY <1>1, <2>1 DEF Conversation, CheckpointKeeps, CheckpointExact, InTurn
<1>6. Chronological'
  <2>1. ASSUME NEW i \in 1..(n - 1), NEW j \in 1..(n - 1), i < j
        PROVE history'[i].turn <= history'[j].turn
    <3>1. old(i) < old(j)
      BY <2>1, <1>0
    <3> QED
      BY <2>1, <3>1, <1>4 DEF Conversation, WellFormed, Chronological
  <2>2. ASSUME NEW i \in 1..(n - 1), history'[i].kind = "system"
        PROVE i = 1 /\ history'[i].turn = 0
    <3>1. old(i) = 1 /\ history[old(i)].turn = 0
      BY <2>2, <1>4 DEF Conversation, WellFormed, Chronological
    <3> QED
      BY <2>2, <3>1, <1>0, <1>4
  <2> QED
    BY <1>1, <2>1, <2>2 DEF Chronological
<1>7. ToolPairs'
  <2>1. ASSUME NEW i \in 3..(n - 1), history'[i].kind = "result"
        PROVE history'[i - 1].kind = "call" /\ history'[i - 1].turn = history'[i].turn
    <3>1. i + 1 \in 3..n /\ history'[i] = history[i + 1] /\ history'[i - 1] = history[i]
      BY <1>0, <1>1, <2>1
    <3>2. history[i + 1 - 1].kind = "call" /\ history[i + 1 - 1].turn = history[i + 1].turn
      BY <3>1, <2>1 DEF Conversation, WellFormed, ToolPairs
    <3> QED
      BY <1>0, <2>1, <3>1, <3>2
  <2>2. ASSUME NEW i \in 1..(n - 1), history'[i].kind = "call",
               outcome[history'[i].turn] \notin {"cancelled", "error"}
        PROVE /\ i < n - 1
              /\ history'[i + 1].kind = "result"
              /\ history'[i + 1].turn = history'[i].turn
    <3>1. i # 1
      BY <1>0, <1>1, <2>2 DEF Conversation, Opening
    <3>2. i + 1 \in 1..n /\ history'[i] = history[i + 1]
      BY <1>0, <1>1, <2>2, <3>1
    <3>3. /\ i + 1 < n
          /\ history[i + 1 + 1].kind = "result"
          /\ history[i + 1 + 1].turn = history[i + 1].turn
      BY <2>2, <3>2 DEF Conversation, WellFormed, ToolPairs
    <3>4. history'[i + 1] = history[i + 1 + 1]
      BY <1>0, <1>1, <2>2, <3>3
    <3> QED
      BY <1>0, <2>2, <3>2, <3>3, <3>4
  <2> QED
    BY <1>1, <2>1, <2>2 DEF ToolPairs
<1> QED
  BY <1>2, <1>3, <1>5, <1>6, <1>7 DEF Conversation, WellFormed

\* A call, the result of a call that was running, or the answer is pushed.
LEMMA PushConversation ==
  ASSUME TypeInv, Conversation, InTurn,
         NEW m \in Messages, m.turn = turn, history' = Append(history, m),
         \/ m.kind = "call" /\ pc = "complete" /\ pc' = "tool"
         \/ m.kind = "result" /\ pc = "tool" /\ pc' = "iterate"
         \/ m.kind = "answer" /\ pc = "complete" /\ pc' = "persist",
         StateFollows',
         UNCHANGED <<checkpoint, turn, outcome, before, trimmed>>
  PROVE  Conversation'
<1> DEFINE n == Len(history)
<1>0. /\ n \in Nat /\ turn \in 1..MaxTurns /\ checkpoint \in Nat
      /\ outcome[turn] = "running"
      /\ \A i \in 1..n : history[i].turn \in 0..MaxTurns /\ history[i].kind \in Kinds
  BY HistoryFacts DEF TypeInv, Running
<1>1. /\ Len(history') = n + 1
      /\ \A i \in 1..n : history'[i] = history[i]
      /\ history'[n + 1] = m
  BY Pushed DEF TypeInv, TypeOK
<1>2. Dated' /\ PromptDue'
  BY <1>0, <1>1 DEF Conversation, Dated, PromptDue
<1>3. n > 0
  BY <1>0 DEF Conversation, TurnSpoke, CallPending, TypeInv, TypeOK
<1>4. Opening' /\ TurnSpoke'
  BY <1>0, <1>1, <1>3 DEF Conversation, Opening, TurnSpoke
<1>5. CallPending' /\ IdleMeansAnswered'
  BY <1>0, <1>1 DEF Conversation, StateFollows, CallPending, IdleMeansAnswered
<1>6. CheckpointKeeps' /\ CheckpointExact'
  BY <1>0, <1>1 DEF Conversation, CheckpointKeeps, CheckpointExact, InTurn
<1>7. Chronological'
  BY <1>0, <1>1 DEF Conversation, WellFormed, Chronological, Dated
<1>8. ToolPairs'
  <2>1. ASSUME NEW i \in 3..(n + 1), history'[i].kind = "result"
        PROVE history'[i - 1].kind = "call" /\ history'[i - 1].turn = history'[i].turn
    <3>1. history'[i - 1] = history[i - 1]
      BY <1>0, <1>1, <2>1
    <3>2. CASE i = n + 1
      BY <1>0, <1>1, <2>1, <3>1, <3>2 DEF Conversation, CallPending
    <3>3. CASE i \in 3..n
      BY <1>0, <1>1, <2>1, <3>1, <3>3 DEF Conversation, WellFormed, ToolPairs
    <3> QED
      BY <1>0, <2>1, <3>2, <3>3
  <2>2. ASSUME NEW i \in 1..(n + 1), history'[i].kind = "call",
               outcome[history'[i].turn] \notin {"cancelled", "error"}
        PROVE \/ i = n + 1 /\ history'[i].turn = turn /\ pc' = "tool"
              \/ /\ i < n + 1
                 /\ history'[i + 1].kind = "result"
                 /\ history'[i + 1].turn = history'[i].turn
    <3>1. CASE i = n + 1
      BY <1>0, <1>1, <2>2, <3>1
    <3>2. CASE i = n /\ pc = "tool"
      BY <1>0, <1>1, <2>2, <3>2 DEF Conversation, CallPending
    <3>3. CASE i \in 1..n /\ ~(i = n /\ pc = "tool")
      <4>1. history'[i] = history[i]
        BY <1>1, <3>3
      <4>2. i < n /\ history[i + 1].kind = "result" /\ history[i + 1].turn = history[i].turn
        BY <2>2, <3>3, <4>1 DEF Conversation, WellFormed, ToolPairs
      <4>3. history'[i + 1] = history[i + 1]
        BY <1>0, <1>1, <3>3, <4>2
      <4> QED
        BY <1>0, <4>1, <4>2, <4>3
    <3> QED
      BY <1>0, <2>2, <3>1, <3>2, <3>3
  <2> QED
    BY <1>1, <2>1, <2>2 DEF ToolPairs
<1> QED
  BY <1>2, <1>4, <1>5, <1>6, <1>7, <1>8 DEF Conversation, WellFormed

\* A denied call is pushed with its result.
LEMMA DenyConversation ==
  ASSUME TypeInv, Conversation, NEW size \in Sizes, NEW resultSize \in Sizes,
         DeniesTool(size, resultSize)
  PROVE  Conversation'
<1> DEFINE n == Len(history)
           a == Message("call", size)
           b == Message("result", resultSize)
<1>1. /\ pc = "complete" /\ pc' = "iterate" /\ state' = "Processing"
      /\ UNCHANGED <<checkpoint, turn, outcome, before, trimmed>>
  BY DEF DeniesTool, ghostVars
<1>2. /\ n \in Nat /\ turn \in 1..MaxTurns /\ checkpoint \in Nat
      /\ \A i \in 1..n : history[i].turn \in 0..MaxTurns /\ history[i].kind \in Kinds
  BY <1>1, HistoryFacts DEF TypeInv, Running, InTurn
<1>3. a \in Messages /\ b \in Messages
  BY MessageType DEF Kinds
<1>4. a.kind = "call" /\ b.kind = "result" /\ a.turn = turn /\ b.turn = turn
  BY DEF Message
<1> HIDE DEF a, b
<1>5. /\ Len(history') = n + 2
      /\ \A i \in 1..n : history'[i] = history[i]
      /\ history'[n + 1] = a
      /\ history'[n + 2] = b
  BY <1>3, PushedTwo DEF DeniesTool, TypeInv, TypeOK, a, b
<1>6. n > 0
  BY <1>1, <1>2 DEF Conversation, TurnSpoke, TypeInv, TypeOK
<1>7. StateFollows' /\ PromptDue' /\ CallPending' /\ IdleMeansAnswered'
  BY <1>1 DEF StateFollows, PromptDue, CallPending, IdleMeansAnswered
<1>8. Dated'
  <2>1. ASSUME NEW i \in 1..(n + 2)
        PROVE history'[i].turn <= turn /\ (history'[i].kind # "system" => history'[i].turn >= 1)
    <3>1. CASE i \in 1..n
      BY <1>5, <3>1 DEF Conversation, Dated
    <3> QED
      BY <1>2, <1>4, <1>5, <2>1, <3>1
  <2> QED
    BY <1>1, <1>5, <2>1 DEF Dated
<1>9. Opening' /\ TurnSpoke'
  BY <1>1, <1>2, <1>5, <1>6 DEF Conversation, Opening, TurnSpoke
<1>10. CheckpointKeeps' /\ CheckpointExact'
  <2>1. ASSUME NEW i \in 1..(n + 2), history'[i].turn \in 1..(turn - 1)
        PROVE i <= checkpoint
    <3>1. i \in 1..n
      BY <1>2, <1>4, <1>5, <2>1
    <3> QED
      BY <1>1, <1>5, <2>1, <3>1 DEF Conversation, CheckpointKeeps, InTurn
  <2>2. CheckpointKeeps'
    BY <1>1, <1>5, <2>1 DEF Conversation, CheckpointKeeps, InTurn
  <2>3. CheckpointExact'
    BY <1>1, <1>2, <1>5 DEF Conversation, CheckpointExact, InTurn
  <2> QED
    BY <2>2, <2>3
<1>11. Chronological'
  <2>1. ASSUME NEW i \in 1..(n + 2), NEW j \in 1..(n + 2), i < j
        PROVE history'[i].turn <= history'[j].turn
    <3>1. CASE j \in 1..n
      <4>1. i \in 1..n /\ history'[i] = history[i] /\ history'[j] = history[j]
        BY <1>2, <1>5, <2>1, <3>1
      <4> QED
        BY <2>1, <3>1, <4>1 DEF Conversation, WellFormed, Chronological
    <3>2. CASE j \notin 1..n
      <4>0. j = n + 1 \/ j = n + 2
        BY <1>2, <3>2
      <4>1. history'[j].turn = turn
        BY <1>4, <1>5, <4>0
      <4>2. CASE i \in 1..n
        <5>1. history'[i].turn <= turn
          BY <1>5, <4>2 DEF Conversation, Dated
        <5> QED
          BY <4>1, <5>1
      <4>3. CASE i \notin 1..n
        <5>0. i = n + 1 \/ i = n + 2
          BY <1>2, <4>3
        <5>1. history'[i].turn = turn
          BY <1>4, <1>5, <5>0
        <5> QED
          BY <1>2, <4>1, <5>1
      <4> QED
        BY <4>2, <4>3
    <3> QED
      BY <3>1, <3>2
  <2>2. ASSUME NEW i \in 1..(n + 2), history'[i].kind = "system"
        PROVE i = 1 /\ history'[i].turn = 0
    <3>1. i \in 1..n /\ history'[i] = history[i]
      BY <1>2, <1>4, <1>5, <2>2
    <3> QED
      BY <2>2, <3>1 DEF Conversation, WellFormed, Chronological
  <2> QED
    BY <1>5, <2>1, <2>2 DEF Chronological
<1>12. ToolPairs'
  <2>1. ASSUME NEW i \in 3..(n + 2), history'[i].kind = "result"
        PROVE history'[i - 1].kind = "call" /\ history'[i - 1].turn = history'[i].turn
    <3>1. CASE i = n + 2
      BY <1>2, <1>4, <1>5, <3>1
    <3>2. CASE i \in 3..n
      <4>1. history'[i] = history[i] /\ history'[i - 1] = history[i - 1]
        BY <1>2, <1>5, <3>2
      <4> QED
        BY <1>2, <2>1, <3>2, <4>1 DEF Conversation, WellFormed, ToolPairs
    <3> QED
      BY <1>2, <1>4, <1>5, <2>1, <3>1, <3>2
  <2>2. ASSUME NEW i \in 1..(n + 2), history'[i].kind = "call",
               outcome[history'[i].turn] \notin {"cancelled", "error"}
        PROVE /\ i < n + 2
              /\ history'[i + 1].kind = "result"
              /\ history'[i + 1].turn = history'[i].turn
    <3>1. CASE i = n + 1
      BY <1>2, <1>4, <1>5, <3>1
    <3>2. CASE i \in 1..n
      <4>1. history'[i] = history[i]
        BY <1>5, <3>2
      <4>2. i < n /\ history[i + 1].kind = "result" /\ history[i + 1].turn = history[i].turn
        BY <1>1, <2>2, <3>2, <4>1 DEF Conversation, WellFormed, ToolPairs
      <4>3. history'[i + 1] = history[i + 1]
        BY <1>2, <1>5, <3>2, <4>2
      <4> QED
        BY <1>2, <3>2, <4>1, <4>2, <4>3
    <3> QED
      BY <1>2, <1>4, <1>5, <2>2, <3>1, <3>2
  <2> QED
    BY <1>1, <1>5, <2>1, <2>2 DEF ToolPairs
<1> QED
  BY <1>7, <1>8, <1>9, <1>10, <1>11, <1>12 DEF Conversation, WellFormed

\* A rollback cuts the history, between two turns or within the failed one.
LEMMA RollBackConversation ==
  ASSUME TypeInv, Conversation, InTurn, RollBack
  PROVE  Conversation'
<1> DEFINE n == Len(history)
           k == Len(history')
<1>1. /\ pc' = "unlocked" /\ state' = "Error"
      /\ UNCHANGED <<checkpoint, turn, before, trimmed>>
      /\ turn \in 1..MaxTurns
      /\ outcome' = [outcome EXCEPT ![turn] = "error"]
  BY DEF RollBack, Return, TypeInv, Running
<1>2. /\ n \in Nat /\ checkpoint \in Nat
      /\ \A i \in 1..n : history[i].turn \in 0..MaxTurns /\ history[i].kind \in Kinds
  BY HistoryFacts
<1>3. /\ history' \in Seq(Messages)
      /\ k = (IF checkpoint < n THEN checkpoint ELSE n)
      /\ \A i \in 1..k : history'[i] = history[i]
  BY Truncated DEF RollBack, TypeInv, TypeOK
<1> HIDE DEF k
<1>4. k \in Nat /\ k <= n
  BY <1>2, <1>3
<1>5. StateFollows' /\ TurnSpoke' /\ PromptDue' /\ CallPending' /\ IdleMeansAnswered'
  BY <1>1 DEF StateFollows, TurnSpoke, PromptDue, CallPending, IdleMeansAnswered
<1>6. CheckpointKeeps' /\ CheckpointExact'
  BY <1>1 DEF CheckpointKeeps, CheckpointExact, InTurn
<1>7. Dated'
  BY <1>1, <1>2, <1>3, <1>4 DEF Conversation, Dated, k
<1>8. Opening'
  <2> SUFFICES ASSUME history' # <<>> PROVE history'[1].kind \in {"system", "user"}
    BY DEF Opening
  <2>1. k >= 1
    BY <1>3, <1>4 DEF k
  <2>2. history'[1] = history[1] /\ history # <<>>
    BY <1>2, <1>3, <1>4, <2>1
  <2> QED
    BY <2>2 DEF Conversation, Opening
<1>9. Chronological'
  BY <1>2, <1>3, <1>4 DEF Conversation, WellFormed, Chronological, k
<1>10. ToolPairs'
  <2>1. ASSUME NEW i \in 3..k, history'[i].kind = "result"
        PROVE history'[i - 1].kind = "call" /\ history'[i - 1].turn = history'[i].turn
    <3>1. history'[i] = history[i] /\ history'[i - 1] = history[i - 1] /\ i \in 3..n
      BY <1>2, <1>3, <1>4, <2>1
    <3> QED
      BY <2>1, <3>1 DEF Conversation, WellFormed, ToolPairs
  <2>2. ASSUME NEW i \in 1..k, history'[i].kind = "call",
               outcome'[history'[i].turn] \notin {"cancelled", "error"}
        PROVE /\ i < k
              /\ history'[i + 1].kind = "result"
              /\ history'[i + 1].turn = history'[i].turn
    <3>1. history'[i] = history[i] /\ i \in 1..n
      BY <1>2, <1>3, <1>4, <2>2
    <3>2. history[i].turn \in 1..turn
      BY <1>1, <1>2, <2>2, <3>1 DEF Conversation, Dated
    <3>3. history[i].turn # turn
      BY <1>1, <2>2, <3>1 DEF TypeInv, TypeOK
    <3>4. outcome[history[i].turn] \notin {"cancelled", "error"}
      BY <1>1, <2>2, <3>1, <3>2, <3>3 DEF TypeInv, TypeOK
    <3>5. i < n /\ history[i + 1].kind = "result" /\ history[i + 1].turn = history[i].turn
      BY <2>2, <3>1, <3>3, <3>4 DEF Conversation, WellFormed, ToolPairs
    <3>6. history[i + 1].turn \in 1..(turn - 1) /\ i + 1 \in 1..n
      BY <1>1, <1>2, <3>2, <3>3, <3>5
    <3>7. i + 1 <= checkpoint
      BY <3>6 DEF Conversation, CheckpointKeeps
    <3>8. i + 1 \in 1..k
      BY <1>2, <1>3, <3>1, <3>6, <3>7
    <3>9. history'[i + 1] = history[i + 1]
      BY <1>3, <3>8
    <3> QED
      BY <1>4, <3>1, <3>5, <3>8, <3>9
  <2> QED
    BY <2>1, <2>2 DEF ToolPairs, k
<1> QED
  BY <1>5, <1>6, <1>7, <1>8, <1>9, <1>10 DEF Conversation, WellFormed

\* One step of the specification keeps the conversation in order.
LEMMA NextConversation == TypeInv /\ Conversation /\ [Next]_vars => Conversation'
<1> SUFFICES ASSUME TypeInv, Conversation, [Next]_vars PROVE Conversation'
  OBVIOUS
<1>1. ASSUME NEW how, InTurn, Return(how), UNCHANGED sessionVars,
             pc = "tool" => how = "cancelled"
      PROVE Conversation'
  <2>1. /\ pc' = "unlocked" /\ UNCHANGED <<history, state, checkpoint, turn, before, trimmed>>
        /\ outcome' = [outcome EXCEPT ![turn] = how] /\ turn \in 1..MaxTurns
    BY <1>1 DEF Return, sessionVars, TypeInv, Running
  <2>2. /\ \A n \in 1..MaxTurns : n # turn => outcome'[n] = outcome[n]
        /\ outcome'[turn] = how
    BY <2>1 DEF TypeInv, TypeOK
  <2> QED
    BY <1>1, <2>1, <2>2, HistoryKept
<1>2. ASSUME Iterate PROVE Conversation'
  BY <1>2, HistoryKept
     DEF Iterate, sessionVars, ghostVars, InTurn, Conversation, StateFollows
<1>3. ASSUME Counted PROVE Conversation'
  <2>1. CASE TokenCount(history) > MaxContextTokens /\ Len(history) > 2
    BY <1>3, <2>1, TrimConversation DEF Counted
  <2>2. CASE ~(TokenCount(history) > MaxContextTokens /\ Len(history) > 2)
    BY <1>3, <2>2, HistoryKept DEF Counted, InTurn, Conversation, StateFollows
  <2> QED
    BY <2>1, <2>2
<1>4. ASSUME CountFails PROVE Conversation'
  BY <1>1, <1>4 DEF CountFails, InTurn
<1>5. ASSUME NEW size \in Sizes, CallsTool(size) PROVE Conversation'
  <2>1. Message("call", size) \in Messages
    BY MessageType DEF Kinds
  <2>2. Message("call", size).kind = "call" /\ Message("call", size).turn = turn
    BY DEF Message
  <2> QED
    BY <1>5, <2>1, <2>2, PushConversation DEF CallsTool, ghostVars, InTurn, StateFollows
<1>6. ASSUME NEW size \in Sizes, ToolReturns(size) PROVE Conversation'
  <2>1. Message("result", size) \in Messages
    BY MessageType DEF Kinds
  <2>2. Message("result", size).kind = "result" /\ Message("result", size).turn = turn
    BY DEF Message
  <2> QED
    BY <1>6, <2>1, <2>2, PushConversation DEF ToolReturns, ghostVars, InTurn, StateFollows
<1>7. ASSUME NEW size \in Sizes, Answers(size) PROVE Conversation'
  <2>1. Message("answer", size) \in Messages
    BY MessageType DEF Kinds
  <2>2. Message("answer", size).kind = "answer" /\ Message("answer", size).turn = turn
    BY DEF Message
  <2> QED
    BY <1>7, <2>1, <2>2, PushConversation DEF Answers, ghostVars, InTurn, StateFollows
<1>8. ASSUME Persists \/ PersistFails PROVE Conversation'
  BY <1>1, <1>8 DEF Persists, PersistFails, InTurn, sessionVars
<1>9. ASSUME Cancelled PROVE Conversation'
  BY <1>1, <1>9 DEF Cancelled, InTurn, Awaits
<1>10. MaxIterationsExceeded \/ CompleteFails => RollBack /\ InTurn
  BY DEF MaxIterationsExceeded, CompleteFails, InTurn
<1>11. CASE UNCHANGED vars
  BY <1>11
     DEF vars, sessionVars, localVars, ghostVars, Conversation, StateFollows, Dated,
         Opening, TurnSpoke, PromptDue, CallPending, CheckpointKeeps, CheckpointExact,
         InTurn, WellFormed, Chronological, ToolPairs, IdleMeansAnswered
<1> QED
  BY <1>2, <1>3, <1>4, <1>5, <1>6, <1>7, <1>8, <1>9, <1>10, <1>11, BeginConversation,
     PromptConversation, DenyConversation, RollBackConversation
     DEF Next, RunTurn

\* The types and the conversation, in every reachable state.
LEMMA Inductive == Spec => [](TypeInv /\ Conversation)
<1>1. Init => TypeInv /\ Conversation
  BY InitType, InitConversation
<1>2. TypeInv /\ Conversation /\ [Next]_vars => (TypeInv /\ Conversation)'
  BY NextType, NextConversation
<1> QED
  BY <1>1, <1>2, PTL DEF Spec

\* What a completion is computed from is a well-formed conversation, however
\* many turns failed, were cancelled or trimmed before (agent_loop/mod.rs).
THEOREM AlwaysWellFormed == Spec => []WellFormed
<1>1. TypeInv /\ Conversation => WellFormed
  BY DEF Conversation
<1> QED
  BY <1>1, Inductive, PTL

\* A session that says it is Idle has the answer to its last turn at the end of
\* its history (session.state in agent_loop/mod.rs).
THEOREM IdleIsAnswered == Spec => []IdleMeansAnswered
<1>1. TypeInv /\ Conversation => IdleMeansAnswered
  BY DEF Conversation
<1> QED
  BY <1>1, Inductive, PTL

-----------------------------------------------------------------------------
(* The budget.                                                             *)

\* Only the last count of a trim loop goes on to a completion, and the history
\* stays as it was counted until the completion is there.
THEOREM BudgetIsRespected == Spec => []BudgetRespected
<1>1. Init => BudgetRespected
  BY DEF Init, BudgetRespected
<1>2. ASSUME TypeInv, BudgetRespected, [Next]_vars PROVE BudgetRespected'
  <2>1. CASE Counted
    <3>1. CASE TokenCount(history) > MaxContextTokens /\ Len(history) > 2
      BY <2>1, <3>1 DEF Counted, BudgetRespected
    <3>2. CASE ~(TokenCount(history) > MaxContextTokens /\ Len(history) > 2)
      <4>1. history' = history /\ Len(history) \in Nat
        BY <2>1, <3>2 DEF Counted, TypeInv, TypeOK
      <4> QED
        BY <3>2, <4>1 DEF BudgetRespected
    <3> QED
      BY <3>1, <3>2
  <2>2. CASE UNCHANGED vars
    <3>1. history' = history /\ pc' = pc
      BY <2>2 DEF vars, sessionVars, localVars
    <3> QED
      BY <1>2, <3>1 DEF BudgetRespected
  <2>3. CASE Next /\ ~Counted
    <3>1. pc' # "complete"
      BY <2>3 DEF Next, RunTurn, Begin, InjectPrompt, Iterate, MaxIterationsExceeded,
                  RollBack, Return, CountFails, CompleteFails, CallsTool, ToolReturns,
                  DeniesTool, Answers, Persists, PersistFails, Cancelled
    <3> QED
      BY <3>1 DEF BudgetRespected
  <2> QED
    BY <1>2, <2>1, <2>2, <2>3
<1>3. Spec => []TypeInv
  BY InitType, NextType, PTL DEF Spec
<1> QED
  BY <1>1, <1>2, <1>3, PTL DEF Spec

-----------------------------------------------------------------------------
(* What a step may do to the history.                                      *)

\* Only a rollback gives a turn the outcome "error".
LEMMA OnlyRollBackFails ==
  ASSUME TypeInv, Next, NEW n \in 1..MaxTurns,
         outcome[n] # "error", outcome'[n] = "error"
  PROVE  RollBack /\ InTurn
<1>1. ASSUME NEW how \in {"ok", "count_error", "cancelled"}, Return(how), InTurn PROVE FALSE
  BY <1>1 DEF Return, TypeInv, TypeOK, Running
<1>2. ASSUME NEW size \in Sizes, Begin(size) PROVE FALSE
  BY <1>2 DEF Begin, TypeInv, TypeOK
<1>3. ASSUME UNCHANGED outcome PROVE FALSE
  BY <1>3
<1>4. MaxIterationsExceeded \/ CompleteFails => RollBack /\ InTurn
  BY DEF MaxIterationsExceeded, CompleteFails, InTurn
<1>5. CountFails => Return("count_error") /\ InTurn
  BY DEF CountFails, InTurn
<1>6. Persists \/ PersistFails => Return("ok") /\ InTurn
  BY DEF Persists, PersistFails, InTurn
<1>7. Cancelled => Return("cancelled") /\ InTurn
  BY DEF Cancelled, InTurn, Awaits
<1>8. \/ Iterate \/ Counted
      \/ \E size \in Sizes :
           InjectPrompt(size) \/ CallsTool(size) \/ ToolReturns(size) \/ Answers(size)
      \/ \E size, resultSize \in Sizes : DeniesTool(size, resultSize)
      => UNCHANGED outcome
  BY DEF Iterate, Counted, InjectPrompt, CallsTool, ToolReturns, Answers, DeniesTool,
         ghostVars
<1> QED
  BY <1>1, <1>2, <1>3, <1>4, <1>5, <1>6, <1>7, <1>8 DEF Next, RunTurn

\* A rollback takes nothing from earlier turns, and undoes the turn exactly if
\* nothing was trimmed ("Checkpoint history length so we can roll back if the
\* turn fails", agent_loop/mod.rs:62).
THEOREM RollbackIsSound == Spec => RollbackSound
<1> DEFINE Fails == \E n \in 1..MaxTurns : outcome[n] # "error" /\ outcome'[n] = "error"
           Sound == /\ \A i \in 1..Len(history) : history[i].turn \in 1..(turn - 1) =>
                         i <= Len(history') /\ history'[i] = history[i]
                    /\ ~trimmed => history' = before
<1>1. ASSUME TypeInv, Conversation, Next, Fails PROVE Sound
  <2>1. RollBack /\ InTurn
    BY <1>1, OnlyRollBackFails
  <2>2. history \in Seq(Messages) /\ before \in Seq(Messages) /\ checkpoint \in Nat
    BY <1>1 DEF TypeInv, TypeOK
  <2>3. /\ history' \in Seq(Messages)
        /\ Len(history') = (IF checkpoint < Len(history) THEN checkpoint ELSE Len(history))
        /\ \A i \in 1..Len(history') : history'[i] = history[i]
    BY <2>1, <2>2, Truncated DEF RollBack
  <2>4. ASSUME NEW i \in 1..Len(history), history[i].turn \in 1..(turn - 1)
        PROVE  i <= Len(history') /\ history'[i] = history[i]
    <3>1. i <= checkpoint
      BY <1>1, <2>1, <2>4 DEF Conversation, CheckpointKeeps
    <3> QED
      BY <2>2, <2>3, <3>1
  <2>5. ASSUME ~trimmed PROVE history' = before
    <3>1. /\ checkpoint = Len(before) /\ checkpoint <= Len(history)
          /\ \A i \in 1..checkpoint : history[i] = before[i]
      BY <1>1, <2>1, <2>5 DEF Conversation, CheckpointKeeps, CheckpointExact
    <3>2. Len(history') = Len(before) /\ \A i \in 1..Len(before) : history'[i] = before[i]
      BY <2>2, <2>3, <3>1
    <3> QED
      BY <2>2, <2>3, <3>2
  <2> QED
    BY <2>4, <2>5
<1>2. TypeInv /\ Conversation /\ [Next]_vars => [Fails => Sound]_vars
  BY <1>1
<1> QED
  BY <1>2, Inductive, PTL DEF Spec, RollbackSound

\* The system prompt stays first, unless the turn that injected it is rolled
\* back and with it everything (agent_loop/mod.rs:74 and :119).
THEOREM PromptStays == Spec => PromptSurvives
<1> DEFINE Prompted == history # <<>> /\ history[1].kind = "system"
           Kept == history' # <<>> /\ history'[1] = history[1]
           Undone == history' = <<>> /\ before = <<>>
<1>1. ASSUME TypeInv, Conversation, Next, Prompted PROVE Kept \/ Undone
  <2>0. history \in Seq(Messages) /\ before \in Seq(Messages) /\ checkpoint \in Nat
    BY <1>1 DEF TypeInv, TypeOK
  <2>1. Len(history) >= 1
    BY <1>1, <2>0
  <2>2. ASSUME NEW m \in Messages, history' = Append(history, m) PROVE Kept
    BY <2>0, <2>1, <2>2, Pushed
  <2>3. ASSUME NEW size \in Sizes, Begin(size) PROVE Kept
    <3>1. [kind |-> "user", turn |-> turn + 1, size |-> size] \in Messages
      BY <1>1, <2>3, TurnsAssumption DEF Begin, Messages, Kinds, TypeInv, TypeOK
    <3> QED
      BY <2>2, <2>3, <3>1 DEF Begin
  <2>4. ASSUME NEW size \in Sizes, InjectPrompt(size) PROVE FALSE
    BY <1>1, <2>4 DEF InjectPrompt, Conversation, PromptDue
  <2>5. ASSUME RollBack, InTurn PROVE Kept \/ Undone
    <3>1. /\ history' \in Seq(Messages)
          /\ Len(history') = (IF checkpoint < Len(history) THEN checkpoint ELSE Len(history))
          /\ \A i \in 1..Len(history') : history'[i] = history[i]
      BY <2>0, <2>5, Truncated DEF RollBack
    <3>2. CASE checkpoint = 0
      <4>1. Len(history') = 0 /\ Len(before) = 0
        BY <1>1, <2>1, <2>5, <3>1, <3>2 DEF Conversation, CheckpointKeeps
      <4> QED
        BY <2>0, <3>1, <4>1
    <3>3. CASE checkpoint > 0
      BY <2>0, <2>1, <3>1, <3>3
    <3> QED
      BY <2>0, <3>2, <3>3
  <2>6. ASSUME Counted PROVE Kept
    <3>1. CASE history' = RemoveSecond(history) /\ Len(history) > 2
      BY <2>0, <3>1, Removed
    <3>2. CASE UNCHANGED history
      BY <1>1, <3>2
    <3> QED
      BY <2>6, <3>1, <3>2 DEF Counted
  <2>7. ASSUME NEW size \in Sizes, CallsTool(size) \/ ToolReturns(size) \/ Answers(size)
        PROVE Kept
    <3>1. \A kind \in Kinds : Message(kind, size) \in Messages
      BY <1>1, MessageType
    <3> QED
      BY <2>2, <2>7, <3>1 DEF CallsTool, ToolReturns, Answers, Kinds
  <2>8. ASSUME NEW size \in Sizes, NEW resultSize \in Sizes, DeniesTool(size, resultSize)
        PROVE Kept
    <3>1. Message("call", size) \in Messages /\ Message("result", resultSize) \in Messages
      BY <1>1, MessageType DEF Kinds
    <3> QED
      BY <2>0, <2>1, <2>8, <3>1, PushedTwo DEF DeniesTool
  <2>9. ASSUME UNCHANGED history PROVE Kept
    BY <1>1, <2>9
  <2>10. Iterate \/ CountFails \/ Persists \/ PersistFails \/ Cancelled => UNCHANGED history
    BY DEF Iterate, CountFails, Persists, PersistFails, Cancelled, sessionVars
  <2>11. MaxIterationsExceeded \/ CompleteFails => RollBack /\ InTurn
    BY DEF MaxIterationsExceeded, CompleteFails, InTurn
  <2> QED
    BY <1>1, <2>3, <2>4, <2>5, <2>6, <2>7, <2>8, <2>9, <2>10, <2>11 DEF Next, RunTurn
<1>2. TypeInv /\ Conversation /\ [Next]_vars => [Prompted => Kept \/ Undone]_vars
  BY <1>1
<1> QED
  BY <1>2, Inductive, PTL DEF Spec, PromptSurvives

-----------------------------------------------------------------------------
(* Termination.                                                            *)

\* What a turn may still do: iterations, awaits of this one, messages to trim.
IterationsLeft == MaxToolIterations - iteration
AwaitsLeft ==
  CASE pc = "prompt" -> 5
    [] pc = "iterate" -> 4
    [] pc = "count" -> 3
    [] pc = "complete" -> 2
    [] pc = "tool" -> 1
    [] OTHER -> 0

\* The measure, which is lexicographic, gets smaller, or the turn is over.
WindsDown ==
  \/ pc' = "unlocked"
  \/ IterationsLeft' < IterationsLeft
  \/ /\ IterationsLeft' = IterationsLeft
     /\ \/ AwaitsLeft' < AwaitsLeft
        \/ AwaitsLeft' = AwaitsLeft /\ Len(history') < Len(history)

\* No step of a turn can be repeated for ever: every one brings the turn nearer to
\* its end, whatever the engine answers, whatever tools are denied, and however much
\* there is to trim (run_turn).  Every await of a turn has a step, so that this is
\* what TurnEnds rests on beside fairness.
TurnsWindDown ==
  [][InTurn =>
       /\ IterationsLeft \in Nat
       /\ AwaitsLeft \in Nat
       /\ WindsDown]_vars

THEOREM TurnsAlwaysWindDown == Spec => TurnsWindDown
<1>1. ASSUME TypeInv, InTurn, Next
      PROVE  IterationsLeft \in Nat /\ AwaitsLeft \in Nat /\ WindsDown
  <2> USE DEF InTurn
  <2>1. /\ iteration \in 0..MaxToolIterations /\ MaxToolIterations \in Nat
        /\ pc \in {"prompt", "iterate", "count", "complete", "tool", "persist"}
        /\ history \in Seq(Messages)
    BY <1>1, IterationsAssumption DEF TypeInv, TypeOK, Awaits
  <2>2. IterationsLeft \in Nat /\ AwaitsLeft \in Nat
    BY <2>1 DEF IterationsLeft, AwaitsLeft
  <2> SUFFICES WindsDown
    BY <2>2
  <2>3. ASSUME UNCHANGED iteration, AwaitsLeft' < AwaitsLeft PROVE WindsDown
    BY <2>3 DEF WindsDown, IterationsLeft
  <2>4. ASSUME iteration' = iteration + 1 PROVE WindsDown
    BY <2>1, <2>4, IterationsAssumption DEF WindsDown, IterationsLeft
  <2>5. ASSUME NEW how, Return(how) PROVE WindsDown
    BY <2>5 DEF Return, WindsDown
  <2>6. ASSUME NEW size \in Sizes, InjectPrompt(size) PROVE WindsDown
    <3>1. AwaitsLeft' < AwaitsLeft
      BY <2>6 DEF InjectPrompt, AwaitsLeft
    <3>2. UNCHANGED iteration
      BY <2>6 DEF InjectPrompt
    <3> QED
      BY <2>3, <3>1, <3>2
  <2>7. CASE Iterate
    <3>1. AwaitsLeft' < AwaitsLeft
      BY <2>7 DEF Iterate, AwaitsLeft
    <3>2. UNCHANGED iteration
      BY <2>7 DEF Iterate
    <3> QED
      BY <2>3, <3>1, <3>2
  <2>8. CASE Counted
    <3>1. CASE pc' = "complete"
      <4>1. AwaitsLeft' < AwaitsLeft
        BY <2>8, <3>1 DEF Counted, AwaitsLeft
      <4>2. UNCHANGED iteration
        BY <2>8 DEF Counted
      <4> QED
        BY <2>3, <4>1, <4>2
    <3>2. CASE history' = RemoveSecond(history) /\ Len(history) > 2 /\ UNCHANGED pc
      <4>1. Len(history') < Len(history)
        BY <2>1, <3>2, Removed
      <4>2. IterationsLeft' = IterationsLeft /\ AwaitsLeft' = AwaitsLeft
        BY <2>8, <3>2 DEF Counted, IterationsLeft, AwaitsLeft
      <4> QED
        BY <4>1, <4>2 DEF WindsDown
    <3> QED
      BY <2>8, <3>1, <3>2 DEF Counted
  <2>9. CASE MaxIterationsExceeded \/ CountFails \/ CompleteFails \/ Persists \/ PersistFails
             \/ Cancelled
    BY <2>5, <2>9
       DEF MaxIterationsExceeded, RollBack, CountFails, CompleteFails, Persists, PersistFails,
           Cancelled
  <2>10. ASSUME NEW size \in Sizes, CallsTool(size) \/ Answers(size) PROVE WindsDown
    <3>1. AwaitsLeft' < AwaitsLeft
      BY <2>10 DEF CallsTool, Answers, AwaitsLeft
    <3>2. UNCHANGED iteration
      BY <2>10 DEF CallsTool, Answers
    <3> QED
      BY <2>3, <3>1, <3>2
  <2>11. ASSUME NEW size \in Sizes, ToolReturns(size) PROVE WindsDown
    BY <2>4, <2>11 DEF ToolReturns
  <2>12. ASSUME NEW size \in Sizes, NEW resultSize \in Sizes, DeniesTool(size, resultSize)
         PROVE  WindsDown
    BY <2>4, <2>12 DEF DeniesTool
  <2>13. ~ \E size \in Sizes : Begin(size)
    BY <1>1 DEF Begin
  <2> QED
    BY <1>1, <2>2, <2>6, <2>7, <2>8, <2>9, <2>10, <2>11, <2>12, <2>13 DEF Next, RunTurn
<1>2. TypeInv /\ [Next]_vars =>
        [InTurn => /\ IterationsLeft \in Nat
                   /\ AwaitsLeft \in Nat
                   /\ WindsDown]_vars
  BY <1>1
<1> QED
  BY <1>2, Inductive, PTL DEF Spec, TurnsWindDown
=============================================================================
