# Verification of the AI assistant

TLA+ models of the AI assistant of this repository, the TLC runs that check
them and the theorems TLAPS proves about them. A path without a directory is
below `orchestrator/src/` (Rust), `communication_adapters/src/` (TypeScript) or
`cognition-engine/cognition_engine/` (Python); `orchestrator-ts/` is named.

The assistant has three processes. A **communication adapter** (Node.js) takes
messages from Telegram and Slack. It sends them over one WebSocket to the
**orchestrator** (Rust on tokio; `orchestrator-ts/` is a second, unfinished one).
That one keeps the sessions, runs the agent loop and the tools, and calls the
**cognition engine** (Python, gRPC) for completions and token counts.

## Inventory

| Component | State | Operations | Interacts by | What makes it correct |
|---|---|---|---|---|
| session registry (`session/mod.rs`) | map of sessions behind an RwLock, one tokio mutex per session, `last_active` | create, get, lock, touch, `cleanup_expired` | shared by all tasks | one turn per session; permits survive cancellation; eviction spares sessions in use |
| WebSocket endpoint (`api/ws.rs`) | position in the handler, receive buffer | receive, resolve, limit, lock, run a turn and drain the socket meanwhile, reply | registry, limiter, agent loop, socket | every request ends; a closed socket cancels the turn without leaking the lock |
| webhook endpoint (`api/webhook.rs`) | position in the handler | the same for one HTTP call; dropped at any await | registry, limiter, agent loop | the same; errors name the session |
| rate limiter (`api/rate_limit.rs`) | a bucket per session | check | called by both endpoints | buckets are independent |
| heartbeat and health (`heartbeat/`, `health/`) | health report, gRPC status | evict idle sessions, check engine and Qdrant, report | registry, engine, Qdrant | eviction is safe; both reports say the same, and in the end the truth |
| agent loop (`agent_loop/mod.rs`) | conversation history, session state, loop variables | one turn: prompt, trim, complete, tools, rollback, persist | cognition client, tools, memory store | history stays a conversation; rollback undoes the turn; it ends |
| memory store (`memory/store.rs`) | collections of points per session, in Qdrant | ensure_collection, store, store_conversation, get_conversation, search | Qdrant over gRPC | what was acknowledged stays; what is restored is in order |
| cognition client (`cognition_client/`) | channel; attempt and backoff of a call | completion, token count, health check, retries | gRPC | bounded retries and time; what is refused is not repeated |
| tool registry (`tool_registry/`) | entries behind an RwLock, compiled modules, jobs, processes | load, list schemas, lazy compilation, run with timeout, feed and read a process | agent loop, blocking pool, processes | no permit is lost, compiled once, every call ends; arguments checked and delivered once, output bounded |
| orchestrator client (`core/orchestrator-client.ts`) | sockets, timers, request table | connect, reconnect, heartbeat, send, correlate | the shared WebSocket | answers reach who asked; it reconnects; dead connections go |
| chat adapters (`adapters/`, `core/session-map.ts`, `utils/retry.ts`) | session map, handlers in progress | message, /reset, retry, expiry | client | every message is answered; /reset forgets |
| message formatters | none | escape, split | pure | pieces fit, nothing is lost |
| orchestrator-ts | map of sessions and of mutexes, history, state | `runTurn`, create, remove, `cleanupExpired`, `withRetry` | in process; engine over gRPC | one turn per session although sessions are removed under turns; a history that is a conversation without rollback |
| cognition engine (`cognition-engine/`) | requests in progress | complete with fallback, repair output, count tokens | gRPC, model APIs | the fallback is not skipped, errors have the right status, output is well formed |
| access control, telemetry, configuration, example tools | settings | pure checks, logging | | not modelled, see below |

What is hard here: tasks that interleave at every await; futures dropped at any
await, with a lock held, asked for, or handed over; eviction between a lookup
and its use; a history edited by trimming, rollback and cancellation; one socket
shared by all chats, with answers that are late, lost or cannot be matched;
timers no field refers to any more; retries over retries; runs, processes and
requests that outlive the call that made them. `PROJECT.json` lists each hazard
at its line.

## Modules

| Module | Models | Uses |
|---|---|---|
| `SessionStore` | registry, mutexes with their queues, idle clock | |
| `RequestPath` | both endpoints, rate limiter, eviction; several tasks | extends `SessionStore` |
| `TurnExclusion` | abstract: a task asks, works alone, is done or gives up | implemented by `RequestPath` and by `TsTurns` |
| `RequestPath_proofs` | theorems about `RequestPath` and `Heartbeat` | |
| `AgentLoop` | `run_turn` over the turns of a session, `store_conversation` | |
| `AgentLoop_proofs` | theorems about `AgentLoop` | |
| `ClientSockets` | the client's sockets and the timers that open them again | |
| `ChatRequests` | chat handlers, session map, retries, request table, and what the orchestrator replies on each socket | extends `ClientSockets` |
| `ClientConnection` | connect, disconnect and the heartbeat | extends `ClientSockets` |
| `ChatAdapters_proofs` | theorems about `ChatRequests` and `ClientConnection` | |
| `ToolRegistry` | the registry's RwLock, lazy compilation, the blocking pool, runs left behind | |
| `ToolRegistry_proofs` | theorems about `ToolRegistry` | |
| `NativeTool` | one native call: validation, command line, pipes, process, answer | |
| `NativeTool_proofs` | theorems about `NativeTool` | |
| `MemoryStore` | calls of the memory store over Qdrant | |
| `MemoryStore_proofs` | theorems about `MemoryStore` | |
| `CognitionCalls` | `with_retry` over the engine's fallback | |
| `CognitionCalls_proofs` | theorems about `CognitionCalls` | |
| `Heartbeat` | health checks and both reports | |
| `TsTurns` | the second orchestrator: store, mutexes, `runTurn`, `withRetry` | |
| `TsTurns_proofs` | theorems about `TsTurns` | |
| `MCNativeTool` | the argument definitions of `native` and `native_promises` | extends `NativeTool` |

### How the models correspond to the code

*SessionStore, RequestPath.* An action is a stretch of handler code between two
awaits. `pc` says at which await a task is; `sid` the session its request
resolved to; `inbox` is the receive buffer. `holder` and `waiting` are the
permit and the FIFO of a `tokio::sync::Mutex`: `Unlock` hands the permit to
the first waiter before that one runs, and `Abandon` is the drop of a guard, of
a pending `lock()`, or of one that was handed the permit and never polled.
These two tokio rules are the model's external part. `idle` counts heartbeat
ticks, up to the timeout. A turn is opaque here: it touches the session in
`ToolRound` and `TurnAnswers` and ends. A client names sessions it was told of
(`known`) or none.

*AgentLoop.* The session is locked, so its turns are sequential. `pc` is the
await at which a turn is suspended; `Cancelled` drops it there. Messages carry
their kind, turn and size; `TokenCount` sums sizes. `before`, `trimmed`, `turn`,
`outcome` are history variables of the properties.

*ClientSockets.* Sockets have a phase. Several can be in use at once, since a failed
reconnect is scheduled twice, so that `state` may be 'connected' while `ws` is
still opening, and 'connecting' while another socket is open.

*ChatRequests.* Node runs a callback and its promise reactions to the end, so
each is one action. `pending` is the request table, `mapped` the session map.
`sendMessage` has three ends: `Refused` makes no entry that lasts; `Throws` is
`ws.send` on a socket that is still opening, after the entry was made, which then
stays with its timer (`Nobody`, `thrown`); `Requested` sends, and the frame may stay
in the socket's buffer (`held`), whose callback comes when the socket is destroyed
and takes off whatever entry its key then has. Timers delete by key as well. `Redials`
sets 'connecting' and rejects nobody; `LinkLost` is the close event of any socket,
with `_rejectAllPending` and the retries it causes. `replies` stands for a frame's
way to the orchestrator, its turn there and the reply's way back; a reply also
carries the chat it is for, which the wire does not.

*ClientConnection.* Intervals and pong timers are named by the socket whose 'open' started them. The fields (`heartbeatTimer`, `pongTimer`,
`reconnectTimer`) and the timers that exist (`ticking`, `armed`, `orphans`) are
kept apart, because an overwritten field leaves a timer nobody can clear.
`ConnectionSpec` allows any legal use of the class.

*ToolRegistry.* `readers`, `writer` and `queue` are tokio's RwLock, which is fair:
readers queue behind a waiting writer. `Handed` is the passing on of permits,
before the new holder is polled; the lock's operators take and return it as one
record, because `execute` gives back one guard and asks for another without an
await. `jobs` and `threads` are tokio's blocking pool, which runs a Wasm module
and, since `tokio::fs` uses it too, reads a module's file with the registry
locked. A job cannot be taken back, so `TimesOut` and `Dropped` leave it there.

*NativeTool.* `Valid` and `Normalised` are `validate_args`, `Positional`, `Flags`
and `Piped` the three ways of an argument, `Writes`, `Written`, `Collects` and
`Answers` the code of `spawn`. The process is external; it reads, writes and
exits in any order and blocks on pipes, as the system's pipes do. Arguments are
an object, as every caller gives them; a process that closes its input early is
one that exits, and children of the process that keep its pipes are left out.

*MemoryStore.* Each await is one request; a request that fails was or was not
carried out, now or `late`. `restored` is the answer of `get_conversation`, each
message with the snapshot it is from. `points` holds the snapshot that wrote each position,
`shown` what is indexed. That Qdrant accepts identifiers like `conv_0`, which
`store.rs:170` uses, belongs to the external part. Session identifiers are
UUIDs, so that two sessions have two collections.

*CognitionCalls.* `request[i]` follows the request of attempt i through the
engine, also when the client has given it up; `calls` counts how often each model
was asked. tonic reports its own timeout as CANCELLED or DEADLINE_EXCEEDED,
depending on which layer sees it first, and only the second is retried: the model
chooses.

*Heartbeat.* A round is five steps, with the world changing between them.

*TsTurns.* As in `RequestPath`, an action is what runs between two awaits. Both
maps have the same keys and are the set `live`. `cleanupExpired` removes any set
of sessions: `lastActive` is only set when a turn begins, so that being in use
protects nobody. No message of a turn has the role system, so that `findIndex` of
`trimHistoryIfNeeded` always finds a message. An identifier is used again only when nothing refers to it.

A definition called a fault in its comment is not part of any model; it is a bug
that the property named in `PROJECT.json` is shown to detect.

## Runs

| Run | Instance | Shows |
|---|---|---|
| `request` | a connection, two webhook calls, one session, limit 1 | mutual exclusion, the accounts of the mutex under cancellation, safe eviction; requests end, nothing leaks, `TurnExclusion` with its fairness is implemented |
| `agent` | three turns, two tool rounds, sizes 1 and 3, budget 5 | the history stays a conversation; trimming and rollback take what they may; every turn ends |
| `chat` | two handlers of a chat, one session, two sockets, two attempts | every entry of the table has an owner or a timer, no key stays taken, every message is answered or reported |
| `connection` | two sockets | reconnecting goes on, a connected client has a heartbeat, dead connections are dropped |
| `tools` | three calls, two Wasm tools, a native one, one thread | no permit is lost, a module is compiled once and is there, calls end behind runs that nobody waits for |
| `native` | all pairs of five kinds of arguments, a process, pipes of one byte | arguments are checked and, as far as the code goes, delivered once; who can block whom, how long the answer can be, processes end |
| `memory` | two callers, three snapshots of up to three messages | the collection is there, what is acknowledged stays, what is restored is in order, and when it is the last snapshot |
| `engine` | two retries, one or two models, a channel that loses things | work and time are bounded, no retry or fallback is skipped, a refusal ends the call |
| `heartbeat` | with and without a memory store | both reports agree, and the world is reported |
| `ts` | three calls of `runTurn`, two sessions, two iterations, one retry | turns exclude each other while sessions are removed and no session is idle while somebody waits (`BusySpec` of `TurnExclusion`), the history stays a conversation, the state tells how the turn ended |
| `native_promises` | as `native` | *disagreements*: the text of a call is longer than the cap of `native_executor.rs:28` and `config.rs:111`, and a value for stdin is lost, against `native_executor.rs:30` and `definition.rs:76` |
| `chat_answers` | two handlers, two chats, two sessions | *disagreement*: a late answer goes to another chat's new request, against `orchestrator-client.ts:88` |

The modules contain more disagreements between the code and what it says of
itself, which no run states. They were met while modelling, and the actions
named do what the code does:

* `RollBack`: the checkpoint is an index taken before trimming and the insertion of
  the prompt shift the messages (`agent_loop/mod.rs:141`), so that a turn that
  trims and fails leaves messages behind, against the comment at line 62.
* `Cancelled`: a turn dropped while the prompt is built leaves a session with a
  history and without a system prompt, for good (`agent_loop/mod.rs:76`).
* `Upsert`, `Scrolls`: "a full conversation snapshot" (`memory/store.rs:137`) and "the
  full ordered conversation history" (`memory/store.rs:184`) hold under four
  conditions, which `RestoredAsStored` names: no store was given up (it may be
  carried out later or in part), all is indexed, no earlier snapshot was longer (its
  tail stays, `memory/store.rs:169`), and the limit of the scroll has room.
* `Resolve`, `KeyOf`: an evicted session is answered under a new identifier that
  nobody waits for (`api/ws.rs:93`).
* `Requested`: a second message on the shared socket is thrown away during a
  turn, also when it is for another session (`api/ws.rs:145`).
* `NotOpened`: a failed reconnect is scheduled by the close event and by the
  rejected promise (`orchestrator-client.ts:238`), so two sockets are opened.
* `Throws`, `Redials`: with two sockets the client can say it is connected while the
  one it sends on is opening (`orchestrator-client.ts:117`). The send throws, the
  user is told, and the key stays taken until the timer.
* `TimeOut`, `Destroyed`: timers and callbacks delete by key (lines 110, 120), so that
  one of an earlier request can take off the entry of a later one, which is then
  waiting without an entry until its own timer. No property claims otherwise:
  `EntriesOwned` is about entries, and `HandlersEnd` about who waits.
* `Piped`: "only one arg per tool may have is_stdin" (`definition.rs:77`) is checked
  by nobody; a second one reaches the process in no way.
* `Refused`, `Fails` of `CognitionCalls`: the fallback wraps every error but a
  refused key in AllModelsFailedError (`llm_client.py:278`), so the statuses of
  `service.py:35` for rate limits, token limits and timeouts never leave
  `Complete`, and what is invalid is reported as UNAVAILABLE and retried.
* `TimesOut` of `CognitionCalls`: with the default settings a request ends after 60
  seconds, as long as one try of the primary model may take, so that a primary that
  hangs is never followed by the fallback that `llm_client.py:75` promises.
* `max_memory_pages` limits the number of memories and not their pages
  (`executor.rs:113`, `config.rs:101`), and the length a guest returns is allocated
  before it is checked (`executor.rs:170`). A temperature of 0 is taken for none
  (`service.py:134`, `llm_client.py:109`). Both are outside the models.
* `CountFails`: a failed `count_tokens` returns at `agent_loop/mod.rs:112` without
  the rollback that the comment at line 62 announces.
* `TurnFails`: a webhook error (`api/webhook.rs:116`) does not name the session
  created for it, against `api/types.rs:30`.
* `Settle`: an answer that arrives after /reset restores the old session
  (`telegram/bot.ts:107`), against the comment at line 44.
* `Disconnect`, `Closes`: the close event of the socket that `disconnect()`
  closed reconnects (`orchestrator-client.ts:84` and `:165`), against line 75.
* `PongTimeout`: it terminates `this.ws`, which may be another socket than the
  one that was pinged, or one whose pong has come (`orchestrator-client.ts:249`).

### Bounds

Three tasks are a holder, a waiter and one behind it, which is what handing over
and cancelling need. One session is what they contend for; that others are not disturbed
is left to the theorems, which are about any number (`LocksAccounted`,
`NewSessionsAreAdmitted`, `ImplementsExclusion`). `IdleTimeout` 1 distinguishes
"just touched" from "expired", and `RateLimit` 1 a full bucket from an empty one. `MaxFrames` 1 fills the buffer.
Three turns let a turn fail, trim what two earlier ones left, and be followed by
another; sizes 1 and 3 against a budget of 5 make histories that fit, fit after
one trim, and never fit. In `chat`, two handlers of a chat
contend for both keys of the table, and two sockets are the one in use and one that
opens or closes late. `MaxLoad` 3 allows three of handlers at work and sockets in use
together: two handlers on one socket, or one on two. `MaxReplies` 1 keeps one reply to come, which can be late and
meet the next request of its key. One send at a time may throw with its timer
still to fire, and one frame, of a last attempt, may stay in a buffer. In `chat_answers`, two handlers
and two chats with two sessions give a late answer someone else to reach, over one socket.
`MaxOrphans` and `MaxPings` only cut off more of the same.

In `tools`, three calls are one that holds the lock and two that queue, as a
reader and as a writer; two Wasm tools let one be compiled while the other runs,
and one thread of the pool makes every run wait for the one before it, which is
the worst case for `CallsEnd`. In `native`, every pair of the five kinds of
arguments covers order, defaults and two arguments for stdin; pipes of one byte,
inputs and outputs of up to two make every pipe full. In `memory`, a search races
a snapshot, and three snapshots of up to three messages let a late one overwrite a
newer and shorter one; a scroll of two points is one that cuts. In `engine`, two
retries are one that is followed by another, and a timeout of two units is between
the first and the last backoff. In `ts`, three calls are a holder and two waiters;
messages of size 1 and a budget of 1 make every history but the shortest too long,
and trimming take several rounds; another turn is asked of a session whose history
and queue have fewer than `MaxMessages` entries between them.

What the theorems below state holds without these bounds.
`CHECK_DEADLOCK FALSE` is set where a model is about one call or a fixed number of
turns, which ends: `AgentLoop`, `CognitionCalls` and `NativeTool`.

Types are not checked by a property of their own. For five modules they are a
theorem (`TypeCorrect`, `ConnectionTypeCorrect`); in the other five they are a
conjunct of the invariant that says so, which is proved as well.

### Fairness

`RequestPath` assumes that tokio polls a ready task, that a turn ends (shown by
`AgentLoop` under its own fairness) and that the heartbeat ticks; it assumes
nothing of clients, which may send, close or hang up or not. `AgentLoop` assumes
that awaits return: every call to the engine and every tool has a timeout, and so
has the Qdrant client by default. `ChatRequests`
assumes the client's timers and handlers only: nothing of the orchestrator or the
network. `ClientConnection` assumes that timers fire and that a socket that was
closed or terminated says so, as the ws library does; not that any opens.

`ToolRegistry` assumes that ready tasks are polled, timers fire, threads take jobs,
and a Wasm run ends, since its fuel is limited; nothing of native tools, which the
timeout takes care of. `NativeTool` assumes that the call is polled, its timer
fires and the process goes on when its pipes let it. `CognitionCalls` assumes the
client's timers and steps, nothing of the engine or the channel. `Heartbeat`
assumes that a round goes on (`HealthFairness`): the sleep ends, and both checks have
timeouts. A round always has a next step, which changes `round`, so that infinitely
many steps of `Run` are what weak fairness of `Run` asks for; said without ENABLED it
can be reasoned about.
`TsTurns` assumes the event loop only: who is handed the mutex goes on. Nothing is
assumed of engine calls, for which `orchestrator-ts/src/cognition/client.ts:36` sets no
deadline, nor of tools, which have no timeout. So a turn may keep its session's mutex
for good, and `ImplementsTurns` promises no more than that no session is left idle
while somebody waits for it. `MemoryStore` states
no liveness and assumes nothing.

## Proofs

Beside the invariants and the refinements there are three kinds of results about
progress. One liveness property is proved outright (`WorldIsAlwaysReported`). For
the others the part that is not about fairness is: a measure that every step makes
smaller (`...WindDown`), an order of service nobody can overtake
(`SessionsServeInOrder`), or a state that always leaves a step (`RegistryNeverStuck`,
`ProcessesAlwaysWindDown`). With the fairness of the runs, a measure in natural
numbers and a step that is always possible are what the liveness properties rest on.

`RequestPath_proofs`, for any number of tasks and sessions, any timeout, limit
and buffer, from the named assumptions on constants alone:

* `TypeCorrect`: `TypeOK`, strengthened by `SessionResolved` (a task past the
  resolution of its session has one), without which an index could be `NoSession`.
* `LocksAccounted`: `LockAccounting`, the inductive invariant. Mutual exclusion
  alone is not inductive: that the permit goes to a waiter is harmless only if
  the queue holds exactly the tasks that are queued, each once, and the holder is
  a task past `lock()`. Each lemma `LockRequested`, `LockReleased`, `QueueLeft`,
  `LocksUntouched` covers one way an action may treat the mutexes; `NextLocks`
  sorts every action under one of them.
* `MutualExclusion`: two tasks in a turn would both hold the mutex.
* `EvictionIsSafe`: a session that is evicted is idle for the timeout and has no
  holder, hence, by the accounts, nobody queued and nobody in a turn.
* `ImplementsExclusion`: every step maps to a step of `TurnExclusion` or a
  stutter, with `asked` and `working` computed from `pc` and `sid`.
* `NewSessionsAreAdmitted`, from `Admission`. That the bucket of a new session is
  full says nothing of who may empty it; the invariant adds that only live sessions
  are named by anybody (`NamesAreLive`), that a task is told of its own session only
  (`RepliesAreOwn`), and that a session just created is one that no
  client can name and no other task has (`NewIsUnknown`).
* `ReportsAlwaysAgree`, about `Heartbeat`, whatever the world does in between:
  `Reported` adds that a round that is about to report has what it checked in the
  report already.
* `WorldIsAlwaysReported`, liveness of `Heartbeat`. Once the world stays as it is, a
  round that begins sees the engine as it is (`EngineSeen`), then all of it
  (`Reports`), updates the health state (`Tells`) and the reporter (`Published`), and
  every later round finds the same. Seven stages lead there from anywhere, none is
  left but for the next (`WorldKept`), and each step of a round takes one
  (`RoundGoesOn`). The round that was under way when the world changed is gone
  through first, since it may still report what was before.
* `SessionsServeInOrder`, about the mutex of a session: whoever waits has nobody
  ahead who was not there already (`KeepsOrder`), and when the mutex changes hands it
  goes to who waits longest. A waiter may leave from the middle of the queue by
  hanging up (`LeavingKeepsOrder`); that nobody is in a queue twice comes from
  `LockAccounting`.

`AgentLoop_proofs`, for any bounds on rounds and tokens, any sizes and any
number of turns:

* `TypeCorrect`, strengthened by `Running` (a turn in the loop has a round left).
* `AlwaysWellFormed` and `IdleIsAnswered`, from the inductive invariant
  `Conversation`. Well-formedness alone is not inductive, because a rollback may
  cut anywhere: `CheckpointKeeps` says it cuts after everything earlier turns have
  left, even when trimming has shifted the history under the checkpoint (trimming
  only moves messages to the front); `Opening` says the one message trimming keeps
  is no call; `CallPending` and `PromptDue` say what is last while a tool or the
  prompt is awaited; `StateFollows` ties the session's state to the await.
* `RollbackIsSound`: `CheckpointKeeps` for the first half, and `CheckpointExact`
  (until it trims, a turn has only added) for the second, which does not hold of a
  turn that has trimmed.
* `PromptStays`, from `PromptDue` and `CheckpointKeeps`.
* `BudgetIsRespected`: inductive together with the types, since a completion is only asked for
  after a count of the history as it is; nothing is needed about the sum itself.
* `TurnsAlwaysWindDown`: iterations left, awaits left in this one, and messages
  still in the history get smaller in the lexicographic order with every step of a
  turn, or the turn is over. Trimming stays at its await and takes a message.

`ChatAdapters_proofs`. About `ChatRequests`, for any number of handlers, chats,
sessions, sockets and attempts and any delay on the links:

* `TypeCorrect` and `TableAgrees` (`EntriesOwned`), inductive together. Entries are
  taken off by key, by timers and callbacks of other requests too, so who waits need not
  have an entry; what is kept is that an entry has its owner. `EntryTaken` says
  that an answer ends the handler whose entry goes, `OwnedStays` that what leaves
  entries and handlers alone leaves this. `CoverKept` is about the second half: a
  socket whose close event is to come stays until that event, which rejects
  everybody (`LinkLostInv`), and a client that may send has one. `HeldInv` ties a
  callback that is to come to the key its handler waits under.
  `HandlerInv` adds that a handler at work has a chat.
* `HandlersAlwaysWindDown`: attempts left, and awaits before the answer of this one.
  The close event, an answer or an error for another, a restart: whatever reaches a
  handler from outside leaves it as it is, ends it or costs it an attempt
  (`OthersStep`), and its own steps make the measure smaller (`HandlerSteps`).

About `ClientConnection`, for any number of sockets:

* `ConnectionTypeCorrect`, `ReconnectAlwaysGoesOn` and `ConnectedAlwaysWatched`, inductive
  together with the types: `LossInv` (the close of any socket leaves a timer),
  `OpenSocketInv` (an attempt is under way) and `NothingLost` (the heartbeat may
  abort an attempt but takes none away).

`CognitionCalls_proofs`, for any number of retries and any timeout:

* `WorkIsBounded`, `AllAreTried` and `RefusalAlwaysEndsCall`, by counting requests
  instead of steps. `AtMost` bounds the calls of a model by the requests that have
  got to it, `AtLeast` from below by those that have got past it, and `Heard` bounds
  the attempts that ended without an answer by `unheard`. Each step moves one
  request, so each set of requests gains or loses at most one (`OneMore`, `Fewer`);
  `Unsent` says that what is not sent yet is in none of them.
* `TimeIsBounded`, from `InTime`: the clock and the timer together stay within what
  the attempts so far may take, which `Spent` gives in closed form. The backoff
  doubles, so this needs powers of two: `PowerOfTwo` is a recursive function, whose
  equation (`PowerOfTwoDef`) is proved from its definition. Induction is done with
  sets: a set of naturals that has a member has a least one (`Least`), hence a set
  with 0 and all successors has every natural (`Induct`).

* `CallsAlwaysWindDown`: every step is one of the client, which makes attempts, awaits
  or the timer less, or one of the engine, which takes one request a stage further and
  changes nothing of the client. There are finitely many requests, so neither can go
  on for ever, also after the client has given up.

`MemoryStore_proofs`, for any number of sessions, callers, messages and snapshots:

* `CollectionAlwaysExists`: no request deletes a collection, and a call gets to its
  request only past a collection that was listed or created.
* `AcknowledgedStays`, from `Turns` (one call at a time stores a session's
  conversation, and it has a newer snapshot than any that was acknowledged: the
  session's lock) and `LateGivenUp` (what Qdrant may still get was given up).
* `AlwaysRestoredAsStored`. Order is what the sort gives; that nothing is missing
  rests on `Written`: what was written and what is found has no gap, since every
  snapshot, a late one too, is written from its first message on. A set of n numbers
  without gaps has n numbers up to its n-th (`SortedInterval`), so that a page the
  limit has not cut is the conversation from message 0. That it is the last snapshot
  rests on `Stored`: while no store was given up, the points are those of the
  last snapshot and, after it, of older ones up to the length of the longest.

`ToolRegistry_proofs`, for any number of calls and tools and any pool:

* `LockAlwaysSound`. The lock's operators are first treated as functions of a record:
  if the record is `Sound` for the calls that read and those that write, it is so
  after `Handed`, `Acquire` and `Release` for the sets they change, and no permit
  is idle (`HandedSound`, `AcquireSound`, `ReleaseSound`). Each action is then one
  such change or two (`ReleasedLock`, `AcquiredLock`, `ReacquiredLock`,
  `UntouchedLock`).
* `ModuleIsAlwaysThere`, `AlwaysCompiledOnce` and `TypeCorrect`, from the lock and
  `Known`: what is requested is registered, and who reads a file has the write lock
  and a module that is missing. A call that is fetching has a module because it was
  there when the write lock was given back and is never taken away.
* `RegistryNeverStuck`: while a call is under way a call can go on or a job can be given
  a thread. A compilation holds the lock while it waits for a thread of the pool, and
  a Wasm call waits in the pool without the lock: the circle would close if a job
  needed the lock. `JobsWanted` says that every call that waits for the pool has a
  job in it; a thread that runs one needs nobody else, and who has the lock is either
  in the pool or can go on. `CanGoOn` spells out the guards of
  the steps, since ENABLED cannot be reasoned about.

`NativeTool_proofs`, for any definitions, values, pipes and limits:

* `ArgumentsAlwaysChecked`: what `validate_args` adds are defaults.
* `OutputAlwaysBounded`: `TruncatedBound` for one output; for both, the second has
  what the first has left. The bound is what the code gives, three times the
  limit and two markers; the documented cap is what `native_promises` refutes.
* `ArgumentsAlwaysDelivered`, which claims nothing of a second argument for stdin or
  of one that is not text: `CommandLine` says that the command line stays that of
  the arguments that were checked. `InOrder` is defined by what it is, and `Ordered`
  shows that it exists, by counting the smaller numbers; an argument then has one
  place in its part of the command line (`InOrderOnce`), and the two parts and the
  input have none in common (`BuildArgvOnce`).
* `OnlyOutputAlwaysBlocks`: call and process block each other only while input is
  written to a process that has filled an output and is no filter. A filter that
  prints has read all of its input (`FilterReads`), so the call is not writing.
* `ProcessesAlwaysWindDown`: once the call is over its ends of the pipes are closed,
  so no operation of the process blocks, and nothing but the process makes a step.
  What is left in its input bounds what it may still do; its first write ends it.

`TsTurns_proofs`, for any number of calls and sessions and any bounds; the invariant
is `Typed /\ MutexAccounting /\ Conversations`:

* `MutexesAccounted`: as in `RequestPath`, but sessions are removed while their mutex
  is held or waited for, so the accounts are kept by what calls refer to, and not by
  the map (`HolderRefers`, `QueueWaits`, `TurnsHold`, `NobodyForgotten`).
* `HistoriesAreSound`, from `Conversations`: without a rollback it is the holder of
  the mutex alone that leaves a call without its results (`HistoriesPaired`), and
  trimming cuts from the front, which keeps what is left paired (`PairedTail`). It does
  not say how a history ends: `Fails` leaves what the turn had pushed.
* `StateIsTold`, from `StateFollows`.
* `ImplementsExclusion`: `TurnExclusion` without its fairness, step by step; a call
  that begins on a session is the only one at work on it by the accounts. The
  fairness of `BusySpec` is what the run checks.
* `TurnsAlwaysWindDown`: as in `AgentLoop`, with the attempts of `withRetry` last, for
  each of the calls that run at once: a step of another leaves a turn's measure as it is,
  also when it trims, since histories are of sessions and a session has one turn.
* `SessionsServeInOrder`: as in `RequestPath`; nobody leaves a queue but at its head.

### Only model-checked

* Liveness but for `WorldIsReported`, and the fairness of both refinements of
  `TurnExclusion`. A proof from weak fairness speaks of ENABLED, which the provers do
  not support; and where the measure is as large as the constants make it (attempts,
  rounds, places in a queue) the conclusion is an induction over temporal formulas.
  The measures themselves, and the order of the queues, are theorems as above.
* In `BlockedOnlyByOutput`, that `CanGoOn` is what ENABLED says of the steps; the
  rest of it is proved (`OnlyOutputAlwaysBlocks`).
* `chat_answers` and `native_promises`: disagreements are shown by counterexamples.

Every other property that a run checks, but for the liveness properties just named,
is also a theorem.

## Not modelled

* Authentication and access control keep no state: a policy is a set, a token is
  valid or not.
* Telemetry, logging and configuration: settings are constants.
* Embeddings, prompts, Markdown and Block Kit: no property tells their values apart.
* Splitting and escaping of messages, the parsing of tool calls, the repair of JSON
  output and the templates are functions of text without state. A model of them
  would repeat the code character by character, and their unit tests say as much.
* The streaming and parsing calls of the cognition service, which nothing calls.
* What happens inside wasmtime: memory limits, fuel, WASI permissions.
* Example tools, generated code, containers and CI have no behaviour here.

## What could follow

Compositions: the heartbeat of `ClientConnection` over the requests of
`ChatRequests`; `AgentLoop` within `RequestPath`, so
that a turn seen from outside is what the loop does. Abstract specifications that
`ToolRegistry` (a fair readers-writer lock) and `CognitionCalls` (a call that is
answered, refused or fails) would be shown to implement.
