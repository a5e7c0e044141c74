----------------------------- MODULE SessionStore -----------------------------
(***************************************************************************)
(* The concurrent session registry of the orchestrator                     *)
(* (orchestrator/src/session/mod.rs): a map from session identifiers to    *)
(* `Arc<Mutex<Session>>' behind an `RwLock'.                               *)
(*                                                                         *)
(* The outer RwLock is held only inside one store operation, so every      *)
(* operation is one atomic step.  The inner mutex is tokio's: its waiters  *)
(* are served in the order they asked, and releasing it passes the permit  *)
(* straight to the first of them, so try_lock keeps failing until the      *)
(* queue is empty.  A task that still has the Arc of a session removed     *)
(* from the map can lock it all the same: holder and waiting are kept for  *)
(* every identifier, whether it is in the map or not.                      *)
(*                                                                         *)
(* Identifiers are UUIDs and never issued twice; the finite set Sessions   *)
(* is a pool from which a user of this module draws one nobody refers to   *)
(* any more (see Fresh in RequestPath).                                    *)
(***************************************************************************)
EXTENDS Naturals, Sequences

CONSTANTS
  Sessions,     \* pool of session identifiers
  Tasks,        \* tokio tasks that use sessions
  NoTask,       \* "the mutex is free"
  IdleTimeout   \* agent.session_idle_timeout_secs, in clock ticks

ASSUME NoTaskAssumption == NoTask \notin Tasks
ASSUME IdleTimeoutAssumption == IdleTimeout \in Nat \ {0}

VARIABLES
  live,     \* identifiers that are keys of the map
  holder,   \* holder[s]: the task that has the mutex of s, or NoTask
  waiting,  \* waiting[s]: the tasks queued for the mutex of s, first come first
  idle      \* idle[s]: ticks since s.last_active, counted up to IdleTimeout

storeVars == <<live, holder, waiting, idle>>

StoreTypeOK ==
  /\ live \subseteq Sessions
  /\ holder \in [Sessions -> Tasks \cup {NoTask}]
  /\ waiting \in [Sessions -> Seq(Tasks)]
  /\ idle \in [Sessions -> 0..IdleTimeout]

StoreInit ==
  /\ live = {}
  /\ holder = [s \in Sessions |-> NoTask]
  /\ waiting = [s \in Sessions |-> <<>>]
  /\ idle = [s \in Sessions |-> 0]

-----------------------------------------------------------------------------
(* The map.                                                                *)

\* SessionStore::create with an identifier that has just been generated.
Create(s) ==
  /\ live' = live \cup {s}
  /\ holder' = [holder EXCEPT ![s] = NoTask]
  /\ waiting' = [waiting EXCEPT ![s] = <<>>]
  /\ idle' = [idle EXCEPT ![s] = 0]

\* SessionStore::get: does the lookup find s?
Get(s) == s \in live

\* Fault: retain by idle time alone, without try_lock.
KeepUnlessIdle(s) == idle[s] < IdleTimeout

\* cleanup_expired keeps what try_lock finds locked, and what is not idle for
\* the whole threshold.
Keep(s) == holder[s] # NoTask \/ idle[s] < IdleTimeout

CleanupExpired ==
  /\ live' = {s \in live : Keep(s)}
  /\ UNCHANGED <<holder, waiting, idle>>

-----------------------------------------------------------------------------
(* The mutex of one session.                                               *)

\* t calls lock().await: it gets a free mutex at once or joins the queue.
Lock(t, s) ==
  /\ UNCHANGED live
  /\ IF holder[s] = NoTask
       THEN holder' = [holder EXCEPT ![s] = t] /\ UNCHANGED waiting
       ELSE waiting' = [waiting EXCEPT ![s] = Append(@, t)] /\ UNCHANGED holder

\* Fault: the mutex is marked free but no queued task is woken.
UnlockWithoutWakeup(s) ==
  /\ UNCHANGED <<live, waiting>>
  /\ holder' = [holder EXCEPT ![s] = NoTask]

\* The guard of s is dropped: the permit goes to the head of the queue.
Unlock(s) ==
  /\ UNCHANGED live
  /\ IF waiting[s] = <<>>
       THEN holder' = [holder EXCEPT ![s] = NoTask] /\ UNCHANGED waiting
       ELSE /\ holder' = [holder EXCEPT ![s] = Head(waiting[s])]
            /\ waiting' = [waiting EXCEPT ![s] = Tail(@)]

\* The queue q without its element at position i.
Without(q, i) == [j \in 1..(Len(q) - 1) |-> IF j < i THEN q[j] ELSE q[j + 1]]

\* Fault: dropping a queued future gives back a permit it never had.
AbandonReleases(t, s) == Unlock(s)

\* Fault: the permit or the place in the queue is not given back.
AbandonLeaks(t, s) == UNCHANGED <<live, holder, waiting>>

\* The future of t is dropped while it holds the mutex of s or queues for it.
Abandon(t, s) ==
  IF holder[s] = t
    THEN Unlock(s)
    ELSE /\ UNCHANGED <<live, holder>>
         /\ \E i \in 1..Len(waiting[s]) :
              /\ waiting[s][i] = t
              /\ waiting' = [waiting EXCEPT ![s] = Without(@, i)]

-----------------------------------------------------------------------------
(* Time.                                                                   *)

\* Session::touch
Touch(s) == idle' = [idle EXCEPT ![s] = 0]

\* One clock tick passes; idle times beyond the threshold are all the same.
Tick ==
  /\ idle' = [s \in Sessions |->
                IF idle[s] < IdleTimeout THEN idle[s] + 1 ELSE idle[s]]
  /\ UNCHANGED <<live, holder, waiting>>
=============================================================================
