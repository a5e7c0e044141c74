----------------------------- MODULE TurnExclusion -----------------------------
(***************************************************************************)
(* What the orchestrator promises about agent turns, without saying how:   *)
(* a task asks for a turn on a session, works on it alone, and is done.    *)
(* A task may give up at any time.  One that does not gets its turn if     *)
(* turns end; and if they do not, at least no session is left idle while   *)
(* somebody waits for it.                                                  *)
(***************************************************************************)
CONSTANTS
  Tasks,
  Sessions,
  NoSession   \* a task that does not ask, or does not work

VARIABLES
  asked,      \* the session a task has asked for, until it is done with it
  working     \* the session a task works on

vars == <<asked, working>>

Init ==
  /\ asked = [t \in Tasks |-> NoSession]
  /\ working = [t \in Tasks |-> NoSession]

Ask(t, s) ==
  /\ asked[t] = NoSession
  /\ asked' = [asked EXCEPT ![t] = s]
  /\ UNCHANGED working

\* "Each session is worked on by one task at a time" (session/mod.rs).
Begin(t) ==
  /\ asked[t] # NoSession
  /\ working[t] = NoSession
  /\ \A u \in Tasks : working[u] # asked[t]
  /\ working' = [working EXCEPT ![t] = asked[t]]
  /\ UNCHANGED asked

\* The turn is over, with or without an answer.
End(t) ==
  /\ working[t] # NoSession
  /\ asked' = [asked EXCEPT ![t] = NoSession]
  /\ working' = [working EXCEPT ![t] = NoSession]

\* The task no longer wants the turn it waits for.
GiveUp(t) ==
  /\ asked[t] # NoSession
  /\ working[t] = NoSession
  /\ asked' = [asked EXCEPT ![t] = NoSession]
  /\ UNCHANGED working

Next ==
  \E t \in Tasks :
    \/ \E s \in Sessions : Ask(t, s)
    \/ Begin(t)
    \/ End(t)
    \/ GiveUp(t)

\* Whoever asks gets the turn unless it gives up, and whoever works ends.
Fairness == \A t \in Tasks : WF_vars(Begin(t) \/ End(t) \/ GiveUp(t))

SafeSpec == Init /\ [][Next]_vars

Spec == SafeSpec /\ Fairness

\* The same when nothing is known about how long a task works: nobody waits for
\* ever for a session that nobody works on.
BusySpec == SafeSpec /\ \A t \in Tasks : WF_vars(Begin(t))
=============================================================================
