----------------------------- MODULE ToolRegistry -----------------------------
(***************************************************************************)
(* The registry of tools (tool_registry/mod.rs): concurrent tool calls and *)
(* requests for the schemas over one RwLock, the lazy compilation of Wasm  *)
(* modules under its write lock, and the runs of the tools, which a caller *)
(* that times out or is dropped leaves behind (tool_registry/executor.rs). *)
(*                                                                         *)
(* An action is the code between two awaits.  The RwLock of tokio is fair: *)
(* whoever asks queues behind those who wait, readers behind a writer too. *)
(* Its permits go to the head of the queue before that one is polled.      *)
(* Reading a file and running a Wasm module take a thread of one pool, and *)
(* a job given to that pool is run also when nobody waits for it any more. *)
(* What a native tool does while it runs is in NativeTool.                 *)
(***************************************************************************)
EXTENDS Naturals, Sequences, SequencesExt, FiniteSets

CONSTANTS
  Calls,       \* pool of calls; one that is over is used again
  WasmTools,   \* names of files of tools_dir with backend = "wasm"
  NativeTools, \* and those with backend = "native"
  List,        \* the request for all schemas
  None,
  PoolSize     \* threads of tokio's blocking pool

ASSUME NamesAssumption ==
  /\ None \notin Calls \cup WasmTools \cup NativeTools
  /\ WasmTools \cap NativeTools = {}
  /\ List \notin WasmTools \cup NativeTools
ASSUME PoolAssumption == PoolSize \in Nat \ {0}

VARIABLES
  registered, \* names in entries: the files of tools_dir that could be parsed
  compiled,   \* those whose entry has a module
  pc,         \* the await at which a call is suspended, or "idle"
  request,    \* the tool it names, or List, or None when idle
  readers,    \* who has a read permit of entries
  writer,     \* who has all permits
  queue,      \* who waits for permits
  jobs,       \* jobs of calls that wait for a thread
  threads,    \* jobs that have one
  processes   \* native tools that run, named by their call

lockVars == <<readers, writer, queue>>
runVars == <<jobs, threads, processes>>
vars == <<registered, compiled, pc, request, lockVars, runVars>>

Tools == WasmTools \cup NativeTools
ReadAwaits == {"list", "lookup", "fetch"}
WriteAwaits == {"compile", "reading"}

TypeOK ==
  /\ registered \subseteq Tools
  /\ compiled \subseteq registered \cap WasmTools
  /\ pc \in [Calls -> {"idle", "running", "native", "panic"} \cup ReadAwaits \cup WriteAwaits]
  /\ request \in [Calls -> Tools \cup {List, None}]
  /\ readers \subseteq Calls
  /\ writer \in Calls \cup {None}
  /\ queue \in Seq([call : Calls, write : BOOLEAN])
  /\ jobs \in Seq(Calls)
  /\ threads \subseteq Calls /\ Cardinality(threads) <= PoolSize
  /\ processes \subseteq Calls

\* load: a file that cannot be parsed is skipped, and so is a missing directory.
Init ==
  /\ registered \in SUBSET Tools
  /\ compiled = {}
  /\ pc = [c \in Calls |-> "idle"]
  /\ request = [c \in Calls |-> None]
  /\ readers = {} /\ writer = None /\ queue = <<>>
  /\ jobs = <<>> /\ threads = {} /\ processes = {}

-----------------------------------------------------------------------------
(* tokio's RwLock.  An operator takes the readers, writer and queue it     *)
(* starts from as one record l.                                            *)

Lock == [readers |-> readers, writer |-> writer, queue |-> queue]
Locked(l) ==
  \E new \in {l} : readers' = new.readers /\ writer' = new.writer /\ queue' = new.queue

\* The readers at the head of the queue.
Leading(q) ==
  {i \in 1..Len(q) : \A j \in 1..i : ~q[j].write}

\* Permits that are free go to the head of the queue.
Handed(l) ==
  LET n == Cardinality(Leading(l.queue)) IN
  IF l.writer # None \/ l.queue = <<>> THEN l
  ELSE IF n > 0
    THEN [readers |-> l.readers \cup {l.queue[i].call : i \in Leading(l.queue)},
          writer |-> None,
          queue |-> SubSeq(l.queue, n + 1, Len(l.queue))]
  ELSE IF l.readers = {}
    THEN [readers |-> {}, writer |-> l.queue[1].call, queue |-> Tail(l.queue)]
  ELSE l

\* read() and write().
Acquire(l, c, write) == Handed([l EXCEPT !.queue = Append(@, [call |-> c, write |-> write])])

\* The queue without the place of c.
Without(q, c) ==
  LET places == {i \in 1..Len(q) : q[i].call = c} IN
  IF places = {} THEN q ELSE RemoveAt(q, CHOOSE i \in places : TRUE)

\* Drop of a guard, of a pending request, or of one that was handed its permits
\* and not polled.
Release(l, c) ==
  Handed([readers |-> l.readers \ {c},
          writer |-> IF l.writer = c THEN None ELSE l.writer,
          queue |-> Without(l.queue, c)])

Holds(c) == c \in readers \/ c = writer

-----------------------------------------------------------------------------
(* The blocking pool.                                                      *)

\* A job gets a thread.
Dispatch ==
  /\ jobs # <<>> /\ Cardinality(threads) < PoolSize
  /\ threads' = threads \cup {Head(jobs)}
  /\ jobs' = Tail(jobs)
  /\ UNCHANGED <<registered, compiled, pc, request, lockVars, processes>>

Busy(c) == c \in threads \cup processes \/ c \in ToSet(jobs)

\* A job nobody waits for any more comes to its end.
OrphanEnds(c) ==
  /\ c \in threads /\ pc[c] = "idle"
  /\ threads' = threads \ {c}
  /\ UNCHANGED <<registered, compiled, pc, request, lockVars, jobs, processes>>

-----------------------------------------------------------------------------
(* Calls.                                                                  *)

\* list_schemas and execute begin with a read lock.
Begin(c, name) ==
  /\ pc[c] = "idle" /\ ~Busy(c)
  /\ request' = [request EXCEPT ![c] = name]
  /\ pc' = [pc EXCEPT ![c] = IF name = List THEN "list" ELSE "lookup"]
  /\ Locked(Acquire(Lock, c, FALSE))
  /\ UNCHANGED <<registered, compiled, runVars>>

\* The call returns or is dropped.
Ends(c) ==
  /\ pc' = [pc EXCEPT ![c] = "idle"]
  /\ request' = [request EXCEPT ![c] = None]

ListSchemas(c) ==
  /\ pc[c] = "list" /\ c \in readers
  /\ Ends(c)
  /\ Locked(Release(Lock, c))
  /\ UNCHANGED <<registered, compiled, runVars>>

\* No such tool, or arguments it does not take.
Refuses(c) ==
  /\ pc[c] = "lookup" /\ c \in readers
  /\ Ends(c)
  /\ Locked(Release(Lock, c))
  /\ UNCHANGED <<registered, compiled, runVars>>

\* native_executor::run; its early returns are a process that is over at once.
RunsNative(c) ==
  /\ pc[c] = "lookup" /\ c \in readers
  /\ request[c] \in registered \cap NativeTools
  /\ pc' = [pc EXCEPT ![c] = "native"]
  /\ processes' = processes \cup {c}
  /\ Locked(Release(Lock, c))
  /\ UNCHANGED <<registered, compiled, request, jobs, threads>>

\* Fault: the lock is asked for while the read guard is still alive.
WantsModuleNested(c) ==
  /\ pc[c] = "lookup" /\ c \in readers
  /\ request[c] \in registered \cap WasmTools
  /\ pc' = [pc EXCEPT ![c] = "compile"]
  /\ Locked(Acquire(Lock, c, TRUE))
  /\ UNCHANGED <<registered, compiled, request, runVars>>

\* A Wasm tool: the guard is dropped and the write lock asked for.
WantsModule(c) ==
  /\ pc[c] = "lookup" /\ c \in readers
  /\ request[c] \in registered \cap WasmTools
  /\ pc' = [pc EXCEPT ![c] = "compile"]
  /\ Locked(Acquire(Release(Lock, c), c, TRUE))
  /\ UNCHANGED <<registered, compiled, request, runVars>>

\* Fault: the file is read without the lock.
ReadsFileUnlocked(c) ==
  /\ pc[c] = "compile" /\ writer = c
  /\ request[c] \notin compiled
  /\ pc' = [pc EXCEPT ![c] = "reading"]
  /\ jobs' = Append(jobs, c)
  /\ Locked(Release(Lock, c))
  /\ UNCHANGED <<registered, compiled, request, threads, processes>>

\* The entry has no module: tokio::fs::read, with the lock held.
ReadsFile(c) ==
  /\ pc[c] = "compile" /\ writer = c
  /\ request[c] \notin compiled
  /\ pc' = [pc EXCEPT ![c] = "reading"]
  /\ jobs' = Append(jobs, c)
  /\ UNCHANGED <<registered, compiled, request, lockVars, threads, processes>>

\* The guard goes, and a read lock is asked for.
Downgrades(c) ==
  /\ pc' = [pc EXCEPT ![c] = "fetch"]
  /\ Locked(Acquire(Release(Lock, c), c, FALSE))

Cached(c) ==
  /\ pc[c] = "compile" /\ writer = c
  /\ request[c] \in compiled
  /\ Downgrades(c)
  /\ UNCHANGED <<registered, compiled, request, runVars>>

\* Fault: the module is used and not cached.
CompilesUncached(c) ==
  /\ pc[c] = "reading" /\ c \in threads
  /\ threads' = threads \ {c}
  /\ Downgrades(c)
  /\ UNCHANGED <<registered, compiled, request, jobs, processes>>

\* The file is there: Module::new, without an await, and cached.
Compiles(c) ==
  /\ pc[c] = "reading" /\ c \in threads
  /\ threads' = threads \ {c}
  /\ compiled' = compiled \cup {request[c]}
  /\ Downgrades(c)
  /\ UNCHANGED <<registered, request, jobs, processes>>

\* No file, or no module in it.
CompileFails(c) ==
  /\ pc[c] = "reading" /\ c \in threads
  /\ threads' = threads \ {c}
  /\ Ends(c)
  /\ Locked(Release(Lock, c))
  /\ UNCHANGED <<registered, compiled, jobs, processes>>

\* The module is cloned out of its entry; unwrap() panics when there is none.
\* executor::run gives the run to the pool.
Fetches(c) ==
  /\ pc[c] = "fetch" /\ c \in readers
  /\ Locked(Release(Lock, c))
  /\ IF request[c] \in compiled
       THEN pc' = [pc EXCEPT ![c] = "running"] /\ jobs' = Append(jobs, c)
       ELSE pc' = [pc EXCEPT ![c] = "panic"] /\ UNCHANGED jobs
  /\ UNCHANGED <<registered, compiled, request, threads, processes>>

\* execute_sync returns an output or an error.
GuestReturns(c) ==
  /\ pc[c] = "running" /\ c \in threads
  /\ threads' = threads \ {c}
  /\ Ends(c)
  /\ UNCHANGED <<registered, compiled, lockVars, jobs, processes>>

\* A native tool has exited; its call may be over.
ProcessExits(c) ==
  /\ c \in processes
  /\ processes' = processes \ {c}
  /\ IF pc[c] = "native" THEN Ends(c) ELSE UNCHANGED <<pc, request>>
  /\ UNCHANGED <<registered, compiled, lockVars, jobs, threads>>

\* timeout_secs are over.  A job in the pool cannot be taken back, and a process
\* is not killed.
TimesOut(c) ==
  /\ pc[c] \in {"running", "native"}
  /\ Ends(c)
  /\ UNCHANGED <<registered, compiled, lockVars, runVars>>

\* Fault: a waiter that is dropped keeps its place.
DroppedWaits(c) ==
  /\ pc[c] # "idle"
  /\ Ends(c)
  /\ IF Holds(c) THEN Locked(Release(Lock, c)) ELSE UNCHANGED lockVars
  /\ UNCHANGED <<registered, compiled, runVars>>

\* The turn is dropped at an await, and the call with it.
Dropped(c) ==
  /\ pc[c] \notin {"idle", "panic"}
  /\ Ends(c)
  /\ Locked(Release(Lock, c))
  /\ UNCHANGED <<registered, compiled, runVars>>

\* What tokio polls, and timers.
Step(c) ==
  \/ ListSchemas(c) \/ Refuses(c) \/ RunsNative(c) \/ WantsModule(c)
  \/ ReadsFile(c) \/ Cached(c) \/ Fetches(c)
  \/ Compiles(c) \/ CompileFails(c) \/ GuestReturns(c) \/ OrphanEnds(c)

Next ==
  \/ Dispatch
  \/ \E c \in Calls :
       \/ \E name \in Tools \cup {List} : Begin(c, name)
       \/ Step(c)
       \/ ProcessExits(c) \/ TimesOut(c) \/ Dropped(c)

Spec == Init /\ [][Next]_vars

\* Ready tasks are polled, timers fire, threads do their work, and a Wasm run
\* ends, its fuel being limited.  Nothing is assumed of native tools or callers.
Fairness ==
  /\ WF_vars(Dispatch)
  /\ \A c \in Calls : WF_vars(Step(c)) /\ WF_vars(TimesOut(c))

FairSpec == Spec /\ Fairness

-----------------------------------------------------------------------------
(* Properties.                                                             *)

\* A call has permits or is queued exactly while it is at an await for the lock
\* or under it, readers exclude a writer, and no permit is idle while the head
\* of the queue could use it: whoever was dropped, waiting or holding, has left
\* nothing behind and has woken whom it kept waiting (mod.rs, the guards of
\* execute and list_schemas).
LockSound ==
  LET waiting == [i \in 1..Len(queue) |-> queue[i].call] IN
  /\ writer # None => readers = {}
  /\ \A c \in Calls :
       /\ c \in readers => pc[c] \in ReadAwaits
       /\ c = writer => pc[c] \in WriteAwaits
       /\ pc[c] \in ReadAwaits \cup WriteAwaits <=>
            Holds(c) \/ c \in ToSet(waiting)
       /\ c \in ToSet(waiting) => ~Holds(c)
  /\ \A i, j \in 1..Len(waiting) : i # j => waiting[i] # waiting[j]
  /\ queue # <<>> => writer # None \/ (queue[1].write /\ readers # {})

\* The entry still has its module when the read lock is taken after the write
\* lock was given back: unwrap() does not panic (mod.rs:196).
ModuleIsThere ==
  \A c \in Calls :
    /\ pc[c] = "fetch" => request[c] \in compiled
    /\ pc[c] # "panic"

\* "On first invocation: compiles the Wasm binary, caches the Module" (mod.rs:5):
\* whoever is compiling is the only one, no module is there yet, and it is for a
\* registered Wasm tool.
CompiledOnce ==
  \A c \in Calls : pc[c] = "reading" =>
    /\ request[c] \in (registered \cap WasmTools) \ compiled
    /\ \A d \in Calls : pc[d] = "reading" => d = c

\* Every call ends, also behind runs that nobody waits for and that fill the
\* pool, and behind a compilation that holds the lock while it waits for a
\* thread of that pool.
CallsEnd == \A c \in Calls : pc[c] # "idle" ~> pc[c] = "idle"
=============================================================================
