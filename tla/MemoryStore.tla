------------------------------ MODULE MemoryStore ------------------------------
(***************************************************************************)
(* The memory store (memory/store.rs): calls that each send Qdrant two or  *)
(* three requests, over collections that are created when they are first   *)
(* used.  A request may fail before or after Qdrant has carried it out, or *)
(* be carried out after its caller gave up.                                *)
(*                                                                         *)
(* The conversation of a session is known by the snapshot that wrote each  *)
(* of its points; snapshots are numbered.  One is stored at a time, because*)
(* the turn that stores it has the session's lock (RequestPath).           *)
(*                                                                         *)
(* Qdrant is external.  It carries out a request at once, it refuses to    *)
(* create a collection twice, and, since no request asks it to wait, it    *)
(* acknowledges points before searches find them.                          *)
(***************************************************************************)
EXTENDS Integers, Sequences, FiniteSets, SequencesExt

CONSTANTS
  Sessions, Callers,
  None,
  MaxLength,    \* bound: messages of a conversation
  MaxSnapshots, \* bound: snapshots of a session
  ScrollLimit   \* MAX_CONVERSATION_SCROLL

ASSUME NoneAssumption == None \notin Sessions \cup Callers
ASSUME BoundsAssumption ==
  MaxLength \in Nat \ {0} /\ MaxSnapshots \in Nat /\ ScrollLimit \in Nat \ {0}

VARIABLES
  collections, \* sessions whose collection exists
  points,      \* points[s][i]: the snapshot that wrote conv_i, 0 if there is none
  shown,       \* the points that searches find
  pc,          \* the request a call waits for, or "idle"
  call,        \* what each caller has called
  late,        \* requests whose caller has gone and that Qdrant still gets
  snapshots,   \* number of snapshots each session has asked to store
  acked,       \* the last one it was told is stored, and the longest until then
  given_up,    \* those it was not told about
  restored     \* the messages get_conversation has returned, until the next call

qdrantVars == <<collections, points, shown>>
ghostVars == <<snapshots, acked, given_up>>
vars == <<qdrantVars, pc, call, late, ghostVars, restored>>

Positions == 0..(MaxLength - 1)
Snapshots == 0..MaxSnapshots
Operations == {"conversation", "get", "other"}
Idle == [op |-> "none", session |-> None, snapshot |-> 0, length |-> 0]
Messages == [seq : Positions, snapshot : Snapshots]
Calls == [op : Operations, session : Sessions, snapshot : Snapshots, length : 0..MaxLength]

TypeOK ==
  /\ collections \subseteq Sessions
  /\ points \in [Sessions -> [Positions -> Snapshots]]
  /\ shown \in [Sessions -> [Positions -> Snapshots]]
  /\ pc \in [Callers -> {"idle", "list", "create", "request"}]
  /\ call \in [Callers -> Calls \cup {Idle}]
  /\ \A c \in Callers : pc[c] = "idle" <=> call[c] = Idle
  /\ late \subseteq [request : {"create", "upsert"}, call : Calls]
  /\ snapshots \in [Sessions -> Snapshots]
  /\ acked \in [Sessions -> [snapshot : Snapshots, length : 0..MaxLength, longest : 0..MaxLength]]
  /\ given_up \in [Sessions -> SUBSET Snapshots]
  /\ restored \in Seq(Messages)

Init ==
  /\ collections = {}
  /\ points = [s \in Sessions |-> [i \in Positions |-> 0]]
  /\ shown = points
  /\ pc = [c \in Callers |-> "idle"]
  /\ call = [c \in Callers |-> Idle]
  /\ late = {}
  /\ snapshots = [s \in Sessions |-> 0]
  /\ acked = [s \in Sessions |-> [snapshot |-> 0, length |-> 0, longest |-> 0]]
  /\ given_up = [s \in Sessions |-> {}]
  /\ restored = <<>>

-----------------------------------------------------------------------------
(* Qdrant.                                                                 *)

\* upsert_points of conv_0 .. conv_(length-1); other points stay.
Upsert(k) ==
  points' = [points EXCEPT ![k.session] =
               [i \in Positions |-> IF i < k.length THEN k.snapshot ELSE @[i]]]

Indexes(s) ==
  /\ shown' = [shown EXCEPT ![s] = points[s]]
  /\ UNCHANGED <<collections, points, pc, call, late, ghostVars, restored>>

\* A request is carried out that nobody waits for.
LateRequest(r) ==
  /\ r \in late
  /\ late' = late \ {r}
  /\ IF r.request = "create"
       THEN collections' = collections \cup {r.call.session} /\ UNCHANGED points
       ELSE Upsert(r.call) /\ UNCHANGED collections
  /\ UNCHANGED <<shown, pc, call, ghostVars, restored>>

-----------------------------------------------------------------------------
(* Calls.                                                                  *)

\* Every operation begins with ensure_collection, which lists the collections.
Begin(c, k) ==
  /\ pc[c] = "idle"
  /\ pc' = [pc EXCEPT ![c] = "list"]
  /\ call' = [call EXCEPT ![c] = k]
  /\ restored' = <<>>
  /\ UNCHANGED <<qdrantVars, late, acked, given_up>>

\* store_conversation with the messages of a turn that is about to end.
StoreConversation(c, s, n) ==
  /\ \A d \in Callers : call[d].op = "conversation" => call[d].session # s
  /\ snapshots[s] < MaxSnapshots
  /\ snapshots' = [snapshots EXCEPT ![s] = @ + 1]
  /\ Begin(c, [op |-> "conversation", session |-> s, snapshot |-> snapshots'[s], length |-> n])

\* get_conversation; store and search, whose points are no conversation.
Other(c, s, op) ==
  /\ op \in {"get", "other"}
  /\ UNCHANGED snapshots
  /\ Begin(c, [op |-> op, session |-> s, snapshot |-> 0, length |-> 0])

Return(c) ==
  /\ pc' = [pc EXCEPT ![c] = "idle"]
  /\ call' = [call EXCEPT ![c] = Idle]

Listed(c) ==
  /\ pc[c] = "list"
  /\ pc' = [pc EXCEPT ![c] = IF call[c].session \in collections THEN "request" ELSE "create"]
  /\ UNCHANGED <<qdrantVars, call, late, ghostVars, restored>>

Created(c) ==
  /\ pc[c] = "create"
  /\ call[c].session \notin collections
  /\ collections' = collections \cup {call[c].session}
  /\ pc' = [pc EXCEPT ![c] = "request"]
  /\ UNCHANGED <<points, shown, call, late, ghostVars, restored>>

\* Its caller is told that a snapshot is stored.
Acknowledge(k) ==
  acked' = [acked EXCEPT ![k.session] =
              [snapshot |-> k.snapshot, length |-> k.length,
               longest |-> IF k.length > @.longest THEN k.length ELSE @.longest]]

\* Fault: the points are written one by one, and the call ends after the first.
UpsertedFirst(c) ==
  /\ pc[c] = "request" /\ call[c].op = "conversation"
  /\ Upsert([call[c] EXCEPT !.length = 1])
  /\ Acknowledge(call[c])
  /\ Return(c)
  /\ UNCHANGED <<collections, shown, late, snapshots, given_up, restored>>

\* store_conversation returns Ok.
Upserted(c) ==
  /\ pc[c] = "request" /\ call[c].op = "conversation"
  /\ Upsert(call[c])
  /\ Acknowledge(call[c])
  /\ Return(c)
  /\ UNCHANGED <<collections, shown, late, snapshots, given_up, restored>>

\* The points of a conversation that a scroll may return.
Scrolls(s) ==
  LET found == {i \in Positions : shown[s][i] # 0} IN
  {f \in SUBSET found :
     Cardinality(f) = IF Cardinality(found) < ScrollLimit THEN Cardinality(found) ELSE ScrollLimit}

\* The messages that were found, in the order q.
Answer(s, q) ==
  restored' = [i \in 1..Len(q) |-> [seq |-> q[i], snapshot |-> shown[s][q[i]]]]

\* Fault: the points are taken in the order in which Qdrant returns them.
RetrievedUnsorted(c) ==
  /\ pc[c] = "request" /\ call[c].op = "get"
  /\ \E f \in Scrolls(call[c].session) : \E q \in SetToSeqs(f) : Answer(call[c].session, q)
  /\ Return(c)
  /\ UNCHANGED <<qdrantVars, late, ghostVars>>

\* The points of f in the order of their seq (sort_by_key).
BySeq(f) ==
  {q \in [1..Cardinality(f) -> f] :
     \A i, j \in 1..Cardinality(f) : i < j => q[i] < q[j]}

\* get_conversation sorts what the scroll has found.
Retrieved(c) ==
  /\ pc[c] = "request" /\ call[c].op = "get"
  /\ \E f \in Scrolls(call[c].session) : \E q \in BySeq(f) : Answer(call[c].session, q)
  /\ Return(c)
  /\ UNCHANGED <<qdrantVars, late, ghostVars>>

\* store and search: a memory is added or found.
OtherDone(c) ==
  /\ pc[c] = "request" /\ call[c].op = "other"
  /\ Return(c)
  /\ UNCHANGED <<qdrantVars, late, ghostVars, restored>>

\* Its caller is not told whether the snapshot is stored.
GivesUp(c) ==
  /\ Return(c)
  /\ given_up' = IF call[c].op = "conversation"
                   THEN [given_up EXCEPT ![call[c].session] = @ \cup {call[c].snapshot}]
                   ELSE given_up

\* Fault: an error of create_collection is taken to mean that it exists.
FailsToCreate(c) ==
  \/ /\ pc[c] = "create"
     /\ pc' = [pc EXCEPT ![c] = "request"]
     /\ UNCHANGED <<call, given_up>>
     /\ UNCHANGED <<qdrantVars, late, snapshots, acked, restored>>
  \/ /\ pc[c] \in {"list", "request"}
     /\ GivesUp(c)
     /\ UNCHANGED <<qdrantVars, late, snapshots, acked, restored>>

\* A request fails, is refused (create_collection, when another caller was
\* faster) or takes too long, or the call is dropped: it was never carried out.
Fails(c) ==
  /\ pc[c] # "idle"
  /\ GivesUp(c)
  /\ UNCHANGED <<qdrantVars, late, snapshots, acked, restored>>

\* The same, and Qdrant gets the request later.
FailsLate(c) ==
  /\ \/ pc[c] = "create"
     \/ pc[c] = "request" /\ call[c].op = "conversation"
  /\ GivesUp(c)
  /\ late' = late \cup
       {[request |-> IF pc[c] = "create" THEN "create" ELSE "upsert", call |-> call[c]]}
  /\ UNCHANGED <<qdrantVars, snapshots, acked, restored>>

Next ==
  \/ \E s \in Sessions : Indexes(s)
  \/ \E r \in late : LateRequest(r)
  \/ \E c \in Callers :
       \/ \E s \in Sessions, n \in 1..MaxLength : StoreConversation(c, s, n)
       \/ \E s \in Sessions, op \in Operations : Other(c, s, op)
       \/ Listed(c) \/ Created(c) \/ Upserted(c) \/ Retrieved(c) \/ OtherDone(c)
       \/ Fails(c) \/ FailsLate(c)

Spec == Init /\ [][Next]_vars

-----------------------------------------------------------------------------
(* Properties.                                                             *)

\* Whatever races, fails or comes late, the collection is there when points are
\* sent to it or asked for (ensure_collection).
CollectionExists ==
  \A c \in Callers : pc[c] = "request" => call[c].session \in collections

\* An acknowledged message is in place, or one that is newer or was given up.
Kept(s, i) ==
  i < acked[s].length =>
    points[s][i] >= acked[s].snapshot \/ points[s][i] \in given_up[s]

\* A snapshot whose store_conversation returned Ok is in place, message by
\* message, until a later one overwrites it; only one that its turn gave up
\* and Qdrant got late can put older messages over it.  (With the types of all
\* variables.)
AcknowledgedKept ==
  /\ TypeOK
  /\ \A s \in Sessions, i \in Positions : Kept(s, i)

\* Every snapshot that was asked for is stored, and searches find it.
Settled(s) == given_up[s] = {} /\ shown[s] = points[s]

\* What get_conversation returns is in order and, unless the limit of the scroll cut
\* it, has no gap: a conversation from its first message on.
InOrder(r) ==
  /\ \A i, j \in 1..Len(r) : i < j => r[i].seq < r[j].seq
  /\ Len(r) < ScrollLimit => \A i \in 1..Len(r) : r[i].seq = i - 1

\* It is the last stored snapshot of s, message for message, and after it the end of
\* an older one if any was longer; the limit of the scroll leaves out some of both.
LastSnapshot(s, r) ==
  /\ Len(r) = IF acked[s].longest < ScrollLimit THEN acked[s].longest ELSE ScrollLimit
  /\ \A i \in 1..Len(r) :
       IF r[i].seq < acked[s].length
         THEN r[i].snapshot = acked[s].snapshot
         ELSE r[i].seq < acked[s].longest /\ r[i].snapshot < acked[s].snapshot

\* "Retrieve the full ordered conversation history" (get_conversation), which is "a
\* full conversation snapshot" (store_conversation): ordered always, and the last
\* full snapshot if no store was given up, all is indexed, none before was longer and
\* the limit has room for it.  Each of the four is needed: what is restored without
\* them is old, mixed, too long or cut.
RestoredAsStored ==
  [][\A c \in Callers : Retrieved(c) =>
       /\ InOrder(restored')
       /\ Settled(call[c].session) => LastSnapshot(call[c].session, restored')]_vars
=============================================================================
