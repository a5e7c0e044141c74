-------------------------- MODULE MemoryStore_proofs --------------------------
(***************************************************************************)
(* Theorems about the memory store, for any number of sessions, callers,   *)
(* messages and snapshots.                                                 *)
(***************************************************************************)
EXTENDS MemoryStore, FiniteSetTheorems, FunctionTheorems, TLAPS

AckRecords == [snapshot : Snapshots, length : 0..MaxLength, longest : 0..MaxLength]

\* TypeOK but for the answer of get_conversation.
Typed ==
  /\ collections \subseteq Sessions
  /\ points \in [Sessions -> [Positions -> Snapshots]]
  /\ shown \in [Sessions -> [Positions -> Snapshots]]
  /\ pc \in [Callers -> {"idle", "list", "create", "request"}]
  /\ call \in [Callers -> Calls \cup {Idle}]
  /\ \A c \in Callers : pc[c] = "idle" <=> call[c] = Idle
  /\ late \subseteq [request : {"create", "upsert"}, call : Calls]
  /\ snapshots \in [Sessions -> Snapshots]
  /\ acked \in [Sessions -> AckRecords]
  /\ given_up \in [Sessions -> SUBSET Snapshots]

\* The session's lock: at most one call stores a session's conversation, and what it
\* stores is newer than all that was acknowledged.
Turns ==
  /\ \A c, d \in Callers :
       /\ call[c].op = "conversation" /\ call[d].op = "conversation"
       /\ call[c].session = call[d].session
       => c = d
  /\ \A c \in Callers : call[c].op = "conversation" =>
       /\ call[c].snapshot = snapshots[call[c].session]
       /\ acked[call[c].session].snapshot < snapshots[call[c].session]
  /\ \A s \in Sessions : acked[s].snapshot <= snapshots[s]

\* What Qdrant may still get was given up.
LateGivenUp ==
  \A r \in late : r.request = "upsert" => r.call.snapshot \in given_up[r.call.session]

\* AcknowledgedKept but for the types.
AllKept == \A s \in Sessions, i \in Positions : Kept(s, i)

Inv == Typed /\ CollectionExists /\ Turns /\ LateGivenUp /\ AllKept

LEMMA Distinct ==
  /\ Idle \notin Calls
  /\ Idle.op = "none"
  BY DEF Idle, Calls, Operations

LEMMA InitInv == Init => Inv
<1> SUFFICES ASSUME Init
             PROVE  Inv
  OBVIOUS
<1>1. Typed
  BY BoundsAssumption, Distinct DEF Init, Typed, AckRecords, Snapshots, Positions
<1>2. CollectionExists /\ LateGivenUp
  BY DEF Init, CollectionExists, LateGivenUp
<1>3. Turns
  BY Distinct DEF Init, Turns
<1>4. AllKept
  BY DEF Init, AllKept, Kept, Positions
<1> QED
  BY <1>1, <1>2, <1>3, <1>4 DEF Inv

-----------------------------------------------------------------------------
(* Parts of steps.                                                         *)

\* A snapshot that is written keeps what was acknowledged when it is newer, or was
\* given up.
LEMMA UpsertKeeps ==
  ASSUME Typed, AllKept, NEW k \in Calls, Upsert(k),
         \/ k.snapshot >= acked[k.session].snapshot
         \/ k.snapshot \in given_up[k.session],
         UNCHANGED <<acked, given_up>>
  PROVE  AllKept'
<1>1. k.session \in Sessions /\ k.length \in 0..MaxLength
  BY DEF Calls
<1> SUFFICES ASSUME NEW s \in Sessions, NEW i \in Positions, i < acked[s].length
             PROVE  points'[s][i] >= acked[s].snapshot \/ points'[s][i] \in given_up[s]
  BY DEF AllKept, Kept
<1>2. points[s][i] >= acked[s].snapshot \/ points[s][i] \in given_up[s]
  BY DEF AllKept, Kept
<1>3. CASE s = k.session /\ i < k.length
  <2>1. points'[s][i] = k.snapshot
    BY <1>1, <1>3 DEF Upsert, Typed
  <2> QED
    BY <1>3, <2>1
<1>4. CASE ~(s = k.session /\ i < k.length)
  <2>1. points'[s][i] = points[s][i]
    BY <1>1, <1>4 DEF Upsert, Typed
  <2> QED
    BY <1>2, <2>1
<1> QED
  BY <1>3, <1>4

LEMMA UpsertType ==
  ASSUME Typed, NEW k \in Calls, Upsert(k)
  PROVE  points' \in [Sessions -> [Positions -> Snapshots]]
<1>1. k.session \in Sessions /\ k.length \in 0..MaxLength /\ k.snapshot \in Snapshots
  BY DEF Calls
<1>2. [i \in Positions |-> IF i < k.length THEN k.snapshot ELSE points[k.session][i]]
        \in [Positions -> Snapshots]
  BY <1>1 DEF Typed
<1> QED
  BY <1>1, <1>2 DEF Upsert, Typed

LEMMA AcknowledgePart ==
  ASSUME Typed, NEW k \in Calls, Acknowledge(k)
  PROVE  /\ acked' \in [Sessions -> AckRecords]
         /\ \A s \in Sessions : s # k.session => acked'[s] = acked[s]
         /\ acked'[k.session].snapshot = k.snapshot
         /\ acked'[k.session].length = k.length
         /\ acked'[k.session].longest =
              IF k.length > acked[k.session].longest THEN k.length ELSE acked[k.session].longest
<1> DEFINE s == k.session
           l == IF k.length > acked[s].longest THEN k.length ELSE acked[s].longest
<1>1. s \in Sessions /\ k.length \in 0..MaxLength /\ k.snapshot \in Snapshots
  BY DEF Calls
<1>2. acked[s].longest \in 0..MaxLength
  BY <1>1 DEF Typed, AckRecords
<1>3. l \in 0..MaxLength
  BY <1>1, <1>2
<1>4. acked' = [acked EXCEPT ![s] = [snapshot |-> k.snapshot, length |-> k.length, longest |-> l]]
  BY DEF Acknowledge
<1> HIDE DEF l
<1>5. [snapshot |-> k.snapshot, length |-> k.length, longest |-> l] \in AckRecords
  BY <1>1, <1>3 DEF AckRecords
<1>6. \A t \in Sessions : acked'[t] =
        IF t = s THEN [snapshot |-> k.snapshot, length |-> k.length, longest |-> l] ELSE acked[t]
  BY <1>4 DEF Typed
<1>7. acked' \in [Sessions -> AckRecords]
  BY <1>1, <1>4, <1>5 DEF Typed
<1> QED
  BY <1>1, <1>6, <1>7 DEF l

\* A call begins: it is at work on its session with what it was called with.
LEMMA BeginInv ==
  ASSUME Inv, NEW c \in Callers, NEW k \in Calls, Begin(c, k),
         snapshots' \in [Sessions -> Snapshots],
         \A s \in Sessions : snapshots[s] <= snapshots'[s],
         \A s \in Sessions : snapshots'[s] # snapshots[s] =>
           \A d \in Callers : call[d].op = "conversation" => call[d].session # s,
         k.op = "conversation" =>
           /\ \A d \in Callers : call[d].op = "conversation" => call[d].session # k.session
           /\ k.snapshot = snapshots'[k.session]
           /\ snapshots[k.session] < snapshots'[k.session]
  PROVE  Inv'
<1>1. /\ pc' = [pc EXCEPT ![c] = "list"] /\ call' = [call EXCEPT ![c] = k]
      /\ UNCHANGED <<collections, points, shown, late, acked, given_up>>
  BY DEF Begin, qdrantVars
<1>2. Typed
  BY DEF Inv
<1>3. Typed'
  BY <1>1, <1>2, Distinct DEF Typed
<1>4. CollectionExists' /\ LateGivenUp' /\ AllKept'
  BY <1>1, <1>2 DEF Inv, Typed, CollectionExists, LateGivenUp, AllKept, Kept
<1>5. Turns'
  <2>1. \A d \in Callers : call'[d] = IF d = c THEN k ELSE call[d]
    BY <1>1, <1>2 DEF Typed
  <2>2. \A d \in Callers : call[d].op = "conversation" => call[d].session \in Sessions
    BY <1>2, Distinct DEF Typed, Calls
  <2>3. k.session \in Sessions
    BY DEF Calls
  <2>4. \A s \in Sessions : /\ acked[s].snapshot \in Nat /\ snapshots[s] \in Nat
                            /\ snapshots'[s] \in Nat
    BY <1>2 DEF Typed, AckRecords, Snapshots
  <2>5. \A s \in Sessions : acked[s].snapshot <= snapshots[s]
    BY DEF Inv, Turns
  <2>6. \A d \in Callers : call'[d].op = "conversation" =>
          /\ call'[d].snapshot = snapshots'[call'[d].session]
          /\ acked[call'[d].session].snapshot < snapshots'[call'[d].session]
    BY <2>1, <2>2, <2>3, <2>4, <2>5 DEF Inv, Turns
  <2>7. \A d, e \in Callers :
          /\ call'[d].op = "conversation" /\ call'[e].op = "conversation"
          /\ call'[d].session = call'[e].session
          => d = e
    BY <2>1 DEF Inv, Turns
  <2>8. \A s \in Sessions : acked[s].snapshot <= snapshots'[s]
    BY <2>4, <2>5
  <2> QED
    BY <1>1, <2>6, <2>7, <2>8 DEF Turns
<1> QED
  BY <1>3, <1>4, <1>5 DEF Inv

\* A call goes on to its next request.
LEMMA GoesOnInv ==
  ASSUME Inv, NEW c \in Callers, NEW await \in {"create", "request"},
         pc[c] # "idle", pc' = [pc EXCEPT ![c] = await],
         collections' \subseteq Sessions, collections \subseteq collections',
         await = "request" => call[c].session \in collections',
         UNCHANGED <<points, shown, call, late, ghostVars>>
  PROVE  Inv'
<1>1. Typed
  BY DEF Inv
<1>2. Typed'
  BY <1>1 DEF Typed, ghostVars
<1>3. CollectionExists'
  BY <1>1 DEF Inv, Typed, CollectionExists
<1>4. Turns' /\ LateGivenUp' /\ AllKept'
  BY DEF Inv, Turns, LateGivenUp, AllKept, Kept, ghostVars
<1> QED
  BY <1>2, <1>3, <1>4 DEF Inv

\* A call is over: the others are where they were.
LEMMA ReturnPart ==
  ASSUME Inv, NEW c \in Callers, Return(c),
         UNCHANGED <<collections, snapshots>>,
         \A s \in Sessions : acked'[s] = acked[s] \/ 
            /\ call[c].op = "conversation" /\ call[c].session = s
            /\ acked'[s].snapshot = call[c].snapshot
  PROVE  /\ pc' \in [Callers -> {"idle", "list", "create", "request"}]
         /\ call' \in [Callers -> Calls \cup {Idle}]
         /\ \A d \in Callers : pc'[d] = "idle" <=> call'[d] = Idle
         /\ CollectionExists'
         /\ Turns'
<1>1. Typed
  BY DEF Inv
<1>2. \A d \in Callers : /\ call'[d] = IF d = c THEN Idle ELSE call[d]
                         /\ pc'[d] = IF d = c THEN "idle" ELSE pc[d]
  BY <1>1 DEF Return, Typed
<1>3. CollectionExists'
  BY <1>2 DEF Inv, CollectionExists
<1>4. \A d \in Callers : call[d].op = "conversation" => call[d].session \in Sessions
  BY <1>1, Distinct DEF Typed, Calls
<1>5. \A d \in Callers : call'[d].op = "conversation" =>
        d # c /\ call'[d] = call[d] /\ acked'[call[d].session] = acked[call[d].session]
  BY <1>2, <1>4, Distinct DEF Inv, Turns
<1>6. \A s \in Sessions : acked'[s].snapshot <= snapshots[s]
  <2> SUFFICES ASSUME NEW s \in Sessions
               PROVE  acked'[s].snapshot <= snapshots[s]
    OBVIOUS
  <2>1. snapshots[s] \in Nat
    BY <1>1 DEF Typed, Snapshots
  <2> QED
    BY <2>1 DEF Inv, Turns
<1>7. Turns'
  BY <1>5, <1>6 DEF Inv, Turns
<1> QED
  BY <1>1, <1>2, <1>3, <1>7, Distinct DEF Return, Typed

\* A call is given up: what was given up grows by its snapshot.
LEMMA GivesUpInv ==
  ASSUME Inv, NEW c \in Callers, pc[c] # "idle", GivesUp(c),
         UNCHANGED <<qdrantVars, snapshots, acked>>,
         late' \subseteq late \union
           [request : {"create", "upsert"}, call : {call[c]}],
         \A r \in late' \ late : r.request = "upsert" => call[c].op = "conversation"
  PROVE  Inv'
<1>1. Typed /\ Return(c)
  BY DEF Inv, GivesUp
<1>2. call[c] \in Calls
  BY <1>1 DEF Typed
<1>3. /\ call[c].session \in Sessions /\ call[c].snapshot \in Snapshots
  BY <1>2 DEF Calls
<1>4. /\ given_up' \in [Sessions -> SUBSET Snapshots]
      /\ \A s \in Sessions : given_up[s] \subseteq given_up'[s]
      /\ call[c].op = "conversation" => call[c].snapshot \in given_up'[call[c].session]
  BY <1>1, <1>3 DEF GivesUp, Typed
<1>5. late' \subseteq [request : {"create", "upsert"}, call : Calls]
  BY <1>1, <1>2 DEF Typed
<1>6. /\ pc' \in [Callers -> {"idle", "list", "create", "request"}]
      /\ call' \in [Callers -> Calls \cup {Idle}]
      /\ \A d \in Callers : pc'[d] = "idle" <=> call'[d] = Idle
      /\ CollectionExists'
      /\ Turns'
  BY <1>1, ReturnPart DEF qdrantVars
<1>7. Typed'
  BY <1>1, <1>4, <1>5, <1>6 DEF Typed, qdrantVars
<1>8. LateGivenUp'
  <2> SUFFICES ASSUME NEW r \in late', r.request = "upsert"
               PROVE  r.call.snapshot \in given_up'[r.call.session]
    BY DEF LateGivenUp
  <2>1. CASE r \in late
    <3>1. r.call.session \in Sessions /\ r.call.snapshot \in given_up[r.call.session]
      BY <1>1, <2>1 DEF Typed, Calls, Inv, LateGivenUp
    <3> QED
      BY <1>4, <3>1
  <2>2. CASE r \notin late
    <3>1. r.call = call[c] /\ call[c].op = "conversation"
      BY <2>2
    <3> QED
      BY <1>4, <3>1
  <2> QED
    BY <2>1, <2>2
<1>9. AllKept'
  BY <1>4 DEF Inv, AllKept, Kept, qdrantVars
<1> QED
  BY <1>6, <1>7, <1>8, <1>9 DEF Inv

\* store_conversation returns Ok: its snapshot is in place.
LEMMA UpsertedInv ==
  ASSUME Inv, NEW c \in Callers, Upserted(c)
  PROVE  Inv'
<1>1. /\ Typed /\ Turns /\ AllKept /\ Return(c) /\ Upsert(call[c])
      /\ call[c].op = "conversation" /\ pc[c] = "request"
      /\ Acknowledge(call[c])
      /\ UNCHANGED <<collections, shown, late, snapshots, given_up>>
  BY DEF Inv, Upserted
<1>2. call[c] \in Calls
  BY <1>1 DEF Typed
<1>3. /\ call[c].session \in Sessions /\ call[c].snapshot \in Snapshots
      /\ call[c].length \in 0..MaxLength
  BY <1>2 DEF Calls
<1>4. /\ acked' \in [Sessions -> AckRecords]
      /\ \A s \in Sessions : s # call[c].session => acked'[s] = acked[s]
      /\ acked'[call[c].session].snapshot = call[c].snapshot
      /\ acked'[call[c].session].length = call[c].length
  BY <1>1, <1>2, AcknowledgePart
<1>5. /\ pc' \in [Callers -> {"idle", "list", "create", "request"}]
      /\ call' \in [Callers -> Calls \cup {Idle}]
      /\ \A d \in Callers : pc'[d] = "idle" <=> call'[d] = Idle
      /\ CollectionExists'
      /\ Turns'
  BY <1>1, <1>4, ReturnPart
<1>6. points' \in [Sessions -> [Positions -> Snapshots]]
  BY <1>1, <1>2, UpsertType
<1>7. Typed'
  BY <1>1, <1>4, <1>5, <1>6 DEF Typed
<1>8. LateGivenUp'
  BY <1>1 DEF Inv, LateGivenUp
<1>9. AllKept'
  <2> SUFFICES ASSUME NEW s \in Sessions, NEW i \in Positions, i < acked'[s].length
               PROVE  points'[s][i] >= acked'[s].snapshot \/ points'[s][i] \in given_up[s]
    BY <1>1 DEF AllKept, Kept
  <2>1. CASE s = call[c].session
    <3>1. points'[s][i] = call[c].snapshot /\ acked'[s].snapshot = call[c].snapshot
      BY <1>1, <1>3, <1>4, <2>1 DEF Upsert, Typed
    <3> QED
      BY <1>3, <3>1 DEF Snapshots
  <2>2. CASE s # call[c].session
    <3>1. points'[s] = points[s] /\ acked'[s] = acked[s]
      BY <1>1, <1>4, <2>2 DEF Upsert, Typed
    <3> QED
      BY <1>1, <3>1 DEF AllKept, Kept
  <2> QED
    BY <2>1, <2>2
<1> QED
  BY <1>5, <1>7, <1>8, <1>9 DEF Inv

\* Qdrant carries out a request that nobody waits for.
LEMMA LateRequestInv ==
  ASSUME Inv, NEW r \in late, LateRequest(r)
  PROVE  Inv'
<1>1. /\ Typed /\ r.call \in Calls /\ r.call.session \in Sessions
  BY DEF Inv, Typed, Calls
<1>2. late' \subseteq late /\ UNCHANGED <<shown, pc, call, snapshots, acked, given_up>>
  BY DEF LateRequest, ghostVars
<1>3. LateGivenUp' /\ Turns'
  BY <1>2 DEF Inv, LateGivenUp, Turns
<1>4. CASE r.request = "create"
  <2>1. collections' = collections \union {r.call.session} /\ points' = points
    BY <1>4 DEF LateRequest
  <2>2. Typed' /\ CollectionExists' /\ AllKept'
    BY <1>1, <1>2, <2>1 DEF Inv, Typed, CollectionExists, AllKept, Kept
  <2> QED
    BY <1>3, <2>2 DEF Inv
<1>5. CASE r.request # "create"
  <2>1. Upsert(r.call) /\ collections' = collections
    BY <1>5 DEF LateRequest
  <2>2. r.call.snapshot \in given_up[r.call.session]
    BY <1>1, <1>5 DEF Inv, Typed, LateGivenUp
  <2>3. AllKept'
    BY <1>1, <1>2, <2>1, <2>2, UpsertKeeps DEF Inv
  <2>4. Typed'
    BY <1>1, <1>2, <2>1, UpsertType DEF Typed
  <2>5. CollectionExists'
    BY <1>2, <2>1 DEF Inv, CollectionExists
  <2> QED
    BY <1>3, <2>3, <2>4, <2>5 DEF Inv
<1> QED
  BY <1>4, <1>5

\* A call that only reads returns.
LEMMA AnsweredInv ==
  ASSUME Inv, NEW c \in Callers, Return(c), UNCHANGED <<qdrantVars, late, ghostVars>>
  PROVE  Inv'
<1>1. /\ pc' \in [Callers -> {"idle", "list", "create", "request"}]
      /\ call' \in [Callers -> Calls \cup {Idle}]
      /\ \A d \in Callers : pc'[d] = "idle" <=> call'[d] = Idle
      /\ CollectionExists'
      /\ Turns'
  BY ReturnPart DEF qdrantVars, ghostVars
<1>2. Typed' /\ LateGivenUp' /\ AllKept'
  BY <1>1 DEF Inv, Typed, LateGivenUp, AllKept, Kept, qdrantVars, ghostVars
<1> QED
  BY <1>1, <1>2 DEF Inv

-----------------------------------------------------------------------------
(* The steps.                                                              *)

LEMMA StoreConversationInv ==
  ASSUME Inv, NEW c \in Callers, NEW s \in Sessions, NEW n \in 1..MaxLength,
         StoreConversation(c, s, n)
  PROVE  Inv'
<1>1. Typed
  BY DEF Inv
<1>2. snapshots' = [snapshots EXCEPT ![s] = @ + 1] /\ snapshots[s] < MaxSnapshots
  BY DEF StoreConversation
<1>3. /\ snapshots' \in [Sessions -> Snapshots]
      /\ \A t \in Sessions : snapshots[t] <= snapshots'[t]
      /\ \A t \in Sessions : t # s => snapshots'[t] = snapshots[t]
      /\ snapshots[s] < snapshots'[s]
  BY <1>1, <1>2, BoundsAssumption DEF Typed, Snapshots
<1> DEFINE k == [op |-> "conversation", session |-> s, snapshot |-> snapshots'[s], length |-> n]
<1>4. k \in Calls /\ k.session = s /\ k.snapshot = snapshots'[s]
  BY <1>3, BoundsAssumption DEF Calls, Operations
<1>5. Begin(c, k) /\ \A d \in Callers : call[d].op = "conversation" => call[d].session # s
  BY DEF StoreConversation
<1> HIDE DEF k
<1> QED
  BY <1>3, <1>4, <1>5, BeginInv

LEMMA OtherInv ==
  ASSUME Inv, NEW c \in Callers, NEW s \in Sessions, NEW op \in Operations, Other(c, s, op)
  PROVE  Inv'
<1>1. Typed
  BY DEF Inv
<1> DEFINE k == [op |-> op, session |-> s, snapshot |-> 0, length |-> 0]
<1>2. k \in Calls /\ k.op # "conversation" /\ Begin(c, k) /\ snapshots' = snapshots
  BY BoundsAssumption DEF Other, Calls, Snapshots
<1>3. /\ snapshots' \in [Sessions -> Snapshots]
      /\ \A t \in Sessions : snapshots[t] <= snapshots'[t]
  BY <1>1, <1>2 DEF Typed, Snapshots
<1> HIDE DEF k
<1> QED
  BY <1>2, <1>3, BeginInv

\* Every step of a call and of Qdrant keeps the invariant.
LEMMA NextInv == Inv /\ [Next]_vars => Inv'
<1> SUFFICES ASSUME Inv, [Next]_vars
             PROVE  Inv'
  OBVIOUS
<1>0. Typed
  BY DEF Inv
<1>1. ASSUME NEW s \in Sessions, Indexes(s)
      PROVE  Inv'
  BY <1>0, <1>1 DEF Indexes, Inv, Typed, CollectionExists, Turns, LateGivenUp,
                    AllKept, Kept, ghostVars
<1>2. ASSUME NEW r \in late, LateRequest(r)
      PROVE  Inv'
  BY <1>2, LateRequestInv
<1>3. ASSUME NEW c \in Callers, Listed(c)
      PROVE  Inv'
  <2>1. CASE call[c].session \in collections
    BY <1>0, <1>3, <2>1, GoesOnInv DEF Listed, qdrantVars, Typed
  <2>2. CASE call[c].session \notin collections
    BY <1>0, <1>3, <2>2, GoesOnInv DEF Listed, qdrantVars, Typed
  <2> QED
    BY <2>1, <2>2
<1>4. ASSUME NEW c \in Callers, Created(c)
      PROVE  Inv'
  <2>1. call[c].session \in Sessions
    BY <1>0, <1>4 DEF Created, Typed, Calls
  <2> QED
    BY <1>0, <1>4, <2>1, GoesOnInv DEF Created, Typed
<1>5. ASSUME NEW c \in Callers, Retrieved(c) \/ OtherDone(c)
      PROVE  Inv'
  BY <1>5, AnsweredInv DEF Retrieved, OtherDone
<1>6. ASSUME NEW c \in Callers, Fails(c)
      PROVE  Inv'
  BY <1>6, GivesUpInv DEF Fails
<1>7. ASSUME NEW c \in Callers, FailsLate(c)
      PROVE  Inv'
  <2> DEFINE r == [request |-> IF pc[c] = "create" THEN "create" ELSE "upsert", call |-> call[c]]
  <2>1. /\ pc[c] # "idle" /\ GivesUp(c) /\ late' = late \union {r}
        /\ UNCHANGED <<qdrantVars, snapshots, acked>>
    BY <1>7 DEF FailsLate
  <2>2. r \in [request : {"create", "upsert"}, call : {call[c]}]
    OBVIOUS
  <2>3. r.request = "upsert" => call[c].op = "conversation"
    BY <1>7 DEF FailsLate
  <2> HIDE DEF r
  <2> QED
    BY <2>1, <2>2, <2>3, GivesUpInv
<1>8. CASE UNCHANGED vars
  BY <1>8 DEF vars, Inv, Typed, CollectionExists, Turns, LateGivenUp,
              AllKept, Kept, qdrantVars, ghostVars
<1> QED
  BY <1>1, <1>2, <1>3, <1>4, <1>5, <1>6, <1>7, <1>8,
     StoreConversationInv, OtherInv, UpsertedInv DEF Next

LEMMA Invariance == Spec => []Inv
<1> QED
  BY InitInv, NextInv, PTL DEF Spec

-----------------------------------------------------------------------------
(* Theorems.                                                               *)

\* Points are sent to a collection, or asked of it, only when it is there, whoever
\* else creates it, fails to, or gave up creating it (ensure_collection).
THEOREM CollectionAlwaysExists == Spec => []CollectionExists
<1>1. Inv => CollectionExists
  BY DEF Inv
<1> QED
  BY <1>1, Invariance, PTL

-----------------------------------------------------------------------------
(* Conversations without gaps.                                             *)

\* Points have no gap: a message that is there has all earlier ones before it.
Gapless(p) ==
  \A s \in Sessions : \A i, j \in Positions : j < i /\ p[s][i] # 0 => p[s][j] # 0

\* What was written, what searches find, and what may still be written by a late
\* request: a snapshot from its first message on.
Written ==
  /\ Gapless(points) /\ Gapless(shown)
  /\ \A r \in late : r.request = "upsert" => r.call.snapshot # 0

\* The points of s when no store was given up: the last snapshot, and after it the
\* end of older ones up to the length of the longest.
StoredAt(s, i) ==
  /\ i < acked[s].length =>
       points[s][i] = acked[s].snapshot /\ points[s][i] # 0
  /\ acked[s].length <= i /\ i < acked[s].longest =>
       points[s][i] < acked[s].snapshot /\ points[s][i] # 0
  /\ acked[s].longest <= i => points[s][i] = 0

Stored ==
  /\ \A s \in Sessions : acked[s].length <= acked[s].longest
  /\ \A s \in Sessions : given_up[s] = {} => \A i \in Positions : StoredAt(s, i)

History == Inv /\ Written /\ Stored /\ restored \in Seq(Messages)

LEMMA UpsertGapless ==
  ASSUME Typed, Gapless(points), NEW k \in Calls, k.snapshot # 0, Upsert(k)
  PROVE  Gapless(points')
<1>1. k.session \in Sessions /\ k.length \in 0..MaxLength
  BY DEF Calls
<1>2. \A s \in Sessions : \A i \in Positions :
        points'[s][i] = IF s = k.session /\ i < k.length THEN k.snapshot ELSE points[s][i]
  BY <1>1 DEF Upsert, Typed
<1> SUFFICES ASSUME NEW s \in Sessions, NEW i \in Positions, NEW j \in Positions,
                    j < i, points'[s][i] # 0
             PROVE  points'[s][j] # 0
  BY DEF Gapless
<1>3. i \in Nat /\ j \in Nat /\ k.length \in Nat
  BY <1>1, BoundsAssumption DEF Positions
<1>4. CASE s = k.session /\ i < k.length
  BY <1>2, <1>3, <1>4
<1>5. CASE ~(s = k.session /\ i < k.length)
  <2>1. points[s][j] # 0
    BY <1>2, <1>5 DEF Gapless
  <2> QED
    BY <1>2, <2>1
<1> QED
  BY <1>4, <1>5

\* A conversation that is being stored has a number.
LEMMA StoredSnapshot ==
  ASSUME Inv, NEW c \in Callers, call[c].op = "conversation"
  PROVE  call[c] \in Calls /\ call[c].snapshot # 0
<1>1. Typed
  BY DEF Inv
<1>2. call[c] \in Calls
  BY <1>1, Distinct DEF Typed
<1>3. /\ call[c].snapshot = snapshots[call[c].session]
      /\ acked[call[c].session].snapshot < snapshots[call[c].session]
  BY DEF Inv, Turns
<1>4. call[c].session \in Sessions
  BY <1>2 DEF Calls
<1>5. acked[call[c].session].snapshot \in Nat /\ snapshots[call[c].session] \in Nat
  BY <1>1, <1>4 DEF Typed, AckRecords, Snapshots
<1> QED
  BY <1>2, <1>3, <1>5

LEMMA WrittenStep ==
  ASSUME Inv, Written, Next
  PROVE  Written'
<1>0. Typed
  BY DEF Inv
<1>1. CASE UNCHANGED <<points, shown>> /\ late' \subseteq late
  BY <1>1 DEF Written, Gapless
<1>2. ASSUME NEW s \in Sessions, Indexes(s)
      PROVE  Written'
  <2>1. UNCHANGED <<points, late>> /\ shown' = [shown EXCEPT ![s] = points[s]]
    BY <1>2 DEF Indexes
  <2>2. \A u \in Sessions : shown'[u] = IF u = s THEN points[s] ELSE shown[u]
    BY <1>0, <2>1 DEF Typed
  <2> QED
    BY <2>1, <2>2 DEF Written, Gapless
<1>3. ASSUME NEW k \in Calls, k.snapshot # 0, Upsert(k), UNCHANGED shown, late' \subseteq late
      PROVE  Written'
  <2>1. Gapless(points')
    BY <1>0, <1>3, UpsertGapless DEF Written
  <2> QED
    BY <1>3, <2>1 DEF Written, Gapless
<1>4. ASSUME NEW r \in late, LateRequest(r)
      PROVE  Written'
  <2>1. UNCHANGED shown /\ late' \subseteq late
    BY <1>4 DEF LateRequest
  <2>2. CASE r.request = "create"
    BY <1>1, <1>4, <2>1, <2>2 DEF LateRequest
  <2>3. CASE r.request # "create"
    <3>1. r.call \in Calls /\ r.request = "upsert"
      BY <1>0, <2>3 DEF Typed
    <3>2. r.call.snapshot # 0
      BY <3>1 DEF Written
    <3> QED
      BY <1>3, <1>4, <2>1, <2>3, <3>1, <3>2 DEF LateRequest
  <2> QED
    BY <2>2, <2>3
<1>5. ASSUME NEW c \in Callers, Upserted(c)
      PROVE  Written'
  BY <1>3, <1>5, StoredSnapshot DEF Upserted
<1>6. ASSUME NEW c \in Callers, FailsLate(c)
      PROVE  Written'
  <2>1. UNCHANGED <<points, shown>>
    BY <1>6 DEF FailsLate, qdrantVars
  <2>2. ASSUME NEW r \in late', r \notin late, r.request = "upsert"
        PROVE  r.call.snapshot # 0
    BY <1>6, <2>2, StoredSnapshot DEF FailsLate
  <2> QED
    BY <2>1, <2>2 DEF Written, Gapless
<1>7. ASSUME NEW c \in Callers,
             \/ \E s \in Sessions, n \in 1..MaxLength : StoreConversation(c, s, n)
             \/ \E s \in Sessions, op \in Operations : Other(c, s, op)
      PROVE  Written'
  <2>1. UNCHANGED <<qdrantVars, late>>
    BY <1>7 DEF StoreConversation, Other, Begin
  <2> QED
    BY <1>1, <2>1 DEF qdrantVars
<1>8. ASSUME NEW c \in Callers,
             Listed(c) \/ Created(c) \/ Retrieved(c) \/ OtherDone(c) \/ Fails(c)
      PROVE  Written'
  <2>1. UNCHANGED <<points, shown, late>>
    BY <1>8 DEF Listed, Created, Retrieved, OtherDone, Fails, qdrantVars
  <2> QED
    BY <1>1, <2>1
<1> QED
  BY <1>2, <1>4, <1>5, <1>6, <1>7, <1>8 DEF Next

\* A set of n numbers without gaps, sorted, is 0, 1, .., n - 1.
LEMMA SortedInterval ==
  ASSUME NEW n \in Nat, NEW S \in SUBSET Nat, IsFiniteSet(S), Cardinality(S) = n,
         \A p \in S : 0..p \subseteq S,
         NEW r \in [1..n -> S], \A i, j \in 1..n : i < j => r[i] < r[j],
         NEW k \in 1..n
  PROVE  r[k] = k - 1
<1>0. \A i \in 1..n : r[i] \in S /\ r[i] \in Nat
  <2>1. \A i \in 1..n : r[i] \in S
    BY Zenon
  <2>2. \A p \in S : p \in Nat
    BY Zenon
  <2> QED
    BY <2>1, <2>2, Zenon
<1>1. \A i, j \in 1..n : r[i] = r[j] => i = j
  <2> SUFFICES ASSUME NEW i \in 1..n, NEW j \in 1..n, r[i] = r[j], i # j
               PROVE  FALSE
    OBVIOUS
  <2>1. r[i] \in Nat /\ r[j] \in Nat
    OBVIOUS
  <2>2. i < j \/ j < i
    OBVIOUS
  <2> QED
    BY <2>1, <2>2
<1>2. r \in Injection(1..n, S)
  BY <1>1, Fun_IsInj
<1>3. Cardinality(1..n) = n
  BY FS_Interval
<1>4. r \in Surjection(1..n, S)
  BY <1>2, <1>3, FS_Injection
<1>5. \A p \in S : \E i \in 1..n : r[i] = p
  BY <1>4, Fun_SurjectionProperties
<1>6. r[k] \in S /\ r[k] \in Nat /\ k \in Nat
  BY <1>0
<1> DEFINE g == [i \in 1..k |-> r[i]]
<1>7. g \in [1..k -> 0..r[k]]
  <2> SUFFICES ASSUME NEW i \in 1..k
               PROVE  r[i] \in 0..r[k]
    OBVIOUS
  <2>1. i \in 1..n /\ r[i] \in Nat
    BY <1>0
  <2>2. i < k \/ i = k
    OBVIOUS
  <2>3. r[i] <= r[k]
    BY <1>6, <2>1, <2>2
  <2> QED
    BY <1>6, <2>1, <2>3
<1>8. \A i, j \in 1..k : g[i] = g[j] => i = j
  BY <1>1
<1>9. \A p \in 0..r[k] : \E i \in 1..k : g[i] = p
  <2> SUFFICES ASSUME NEW p \in 0..r[k]
               PROVE  \E i \in 1..k : g[i] = p
    OBVIOUS
  <2>1. p \in S
    BY <1>6
  <2>2. PICK i \in 1..n : r[i] = p
    BY <1>5, <2>1
  <2>3. ~(k < i)
    BY <1>6, <2>2
  <2>4. i \in 1..k
    BY <2>3
  <2> QED
    BY <2>2, <2>4
<1> HIDE DEF g
<1>10. g \in Bijection(1..k, 0..r[k])
  BY <1>7, <1>8, <1>9, Fun_IsBij
<1>11. ExistsBijection(1..k, 0..r[k])
  BY <1>10 DEF ExistsBijection
<1>12. Cardinality(0..r[k]) = k
  BY <1>6, <1>11, FS_CountingElements
<1>13. Cardinality(0..r[k]) = r[k] + 1
  BY <1>6, FS_Interval
<1> QED
  BY <1>6, <1>12, <1>13

\* A sorted page of a conversation without gaps: when the limit has not cut it, the
\* message at each place is the one that was written there.
LEMMA SortedPage ==
  ASSUME Gapless(shown), NEW s \in Sessions, NEW f \in Scrolls(s), NEW q \in BySeq(f),
         NEW found, found = {i \in Positions : shown[s][i] # 0}
  PROVE  /\ q \in Seq(Positions)
         /\ \A i \in 1..Len(q) : q[i] \in found
         /\ Cardinality(found) \in Nat
         /\ Len(q) = IF Cardinality(found) < ScrollLimit THEN Cardinality(found) ELSE ScrollLimit
         /\ \A i, j \in 1..Len(q) : i < j => q[i] < q[j]
         /\ Len(q) < ScrollLimit => \A i \in 1..Len(q) : q[i] = i - 1
<1>2. PICK n : n = Cardinality(f)
  OBVIOUS
<1>3. /\ f \subseteq found
      /\ n = IF Cardinality(found) < ScrollLimit THEN Cardinality(found) ELSE ScrollLimit
  BY <1>2 DEF Scrolls
<1>4. IsFiniteSet(Positions) /\ Positions \subseteq Nat
  BY FS_Interval, BoundsAssumption DEF Positions
<1>5. found \subseteq Positions
  OBVIOUS
<1>6. IsFiniteSet(found) /\ IsFiniteSet(f)
  BY <1>3, <1>4, <1>5, FS_Subset
<1>7. n \in Nat /\ Cardinality(found) \in Nat
  BY <1>2, <1>6, FS_CardinalityType
<1>8. f \subseteq Nat /\ f \subseteq Positions
  BY <1>3, <1>4, <1>5
<1>9. q \in [1..n -> f] /\ \A i, j \in 1..n : i < j => q[i] < q[j]
  BY <1>2 DEF BySeq
<1>10. q \in Seq(Positions) /\ Len(q) = n
  <2>1. q \in [1..n -> Positions]
    BY <1>8, <1>9
  <2> QED
    BY <1>7, <2>1
<1>11. ASSUME n < ScrollLimit
       PROVE  \A k \in 1..n : q[k] = k - 1
  <2>1. n = Cardinality(found)
    BY <1>3, <1>7, <1>11, BoundsAssumption
  <2>2. f = found
    BY <1>2, <1>3, <1>6, <2>1, FS_Subset
  <2>3. \A p \in f : 0..p \subseteq f
    <3> SUFFICES ASSUME NEW p \in f, NEW t \in 0..p, t # p
                 PROVE  t \in f
      OBVIOUS
    <3>1. t \in Positions /\ p \in Positions /\ t < p
      BY <1>8, BoundsAssumption DEF Positions
    <3>2. shown[s][p] # 0
      BY <2>2
    <3>3. shown[s][t] # 0
      BY <3>1, <3>2 DEF Gapless
    <3> QED
      BY <2>2, <3>1, <3>3
  <2> QED
    BY <1>2, <1>6, <1>7, <1>8, <1>9, <2>3, SortedInterval
<1>12. \A i \in 1..n : q[i] \in found
  BY <1>3, <1>9
<1> QED
  BY <1>3, <1>7, <1>9, <1>10, <1>11, <1>12

\* What get_conversation makes of a page.
LEMMA AnswerInOrder ==
  ASSUME NEW s \in Sessions, NEW q \in Seq(Positions), Answer(s, q), Typed,
         \A i, j \in 1..Len(q) : i < j => q[i] < q[j],
         Len(q) < ScrollLimit => \A i \in 1..Len(q) : q[i] = i - 1
  PROVE  /\ restored' \in Seq(Messages)
         /\ InOrder(restored')
         /\ Len(restored') = Len(q)
         /\ \A i \in 1..Len(q) : restored'[i].seq = q[i] /\ restored'[i].snapshot = shown[s][q[i]]
<1>1. restored' = [i \in 1..Len(q) |-> [seq |-> q[i], snapshot |-> shown[s][q[i]]]]
  BY DEF Answer
<1>2. PICK n \in Nat : n = Len(q) /\ Len(q) \in Nat
  OBVIOUS
<1>3. \A i \in 1..n : q[i] \in Positions /\ shown[s][q[i]] \in Snapshots
  BY <1>2 DEF Typed
<1>4. \A i \in 1..n : [seq |-> q[i], snapshot |-> shown[s][q[i]]] \in Messages
  BY <1>3 DEF Messages
<1>5. restored' \in [1..n -> Messages]
  BY <1>1, <1>2, <1>4, Zenon
<1>6. restored' \in Seq(Messages) /\ Len(restored') = n
  BY <1>5, <1>2
<1>7. \A i \in 1..n : restored'[i].seq = q[i] /\ restored'[i].snapshot = shown[s][q[i]]
  BY <1>1, <1>2
<1>8. InOrder(restored')
  BY <1>2, <1>6, <1>7 DEF InOrder
<1> QED
  BY <1>2, <1>6, <1>7, <1>8

\* When all is stored and found, it is the last snapshot.
LEMMA AnswerIsLast ==
  ASSUME Typed, Stored, NEW s \in Sessions, Settled(s), NEW q \in Seq(Positions),
         NEW found, found = {i \in Positions : shown[s][i] # 0},
         \A i \in 1..Len(q) : q[i] \in found,
         Len(q) = IF Cardinality(found) < ScrollLimit THEN Cardinality(found) ELSE ScrollLimit,
         Len(restored') = Len(q),
         \A i \in 1..Len(q) : restored'[i].seq = q[i] /\ restored'[i].snapshot = shown[s][q[i]]
  PROVE  LastSnapshot(s, restored')
<1>1. /\ acked[s].length \in Nat /\ acked[s].longest \in 0..MaxLength
      /\ acked[s].snapshot \in Snapshots /\ acked[s].length <= acked[s].longest
  BY DEF Typed, AckRecords, Stored
<1>2. shown[s] = points[s] /\ \A i \in Positions : StoredAt(s, i)
  BY DEF Settled, Stored
<1>3. PICK m \in Nat : m = acked[s].longest /\ m <= MaxLength
  BY <1>1, BoundsAssumption
<1>4. \A i \in Positions : shown[s][i] # 0 <=> i < m
  <2> SUFFICES ASSUME NEW i \in Positions
               PROVE  shown[s][i] # 0 <=> i < m
    OBVIOUS
  <2>1. i \in Nat
    BY BoundsAssumption DEF Positions
  <2> QED
    BY <1>1, <1>2, <1>3, <2>1 DEF StoredAt
<1>5. found = 0..(m - 1)
  <2>1. \A i : i \in Positions /\ i < m <=> i \in 0..(m - 1)
    BY <1>3, BoundsAssumption DEF Positions
  <2> QED
    BY <1>4, <2>1
<1>6. Cardinality(found) = m
  <2>1. m - 1 \in Int /\ 0 \in Int
    BY <1>3
  <2>2. Cardinality(0..(m - 1)) = IF 0 > m - 1 THEN 0 ELSE (m - 1) - 0 + 1
    BY <2>1, FS_Interval
  <2>3. Cardinality(0..(m - 1)) = m
    BY <1>3, <2>2
  <2> QED
    BY <1>5, <2>3, Zenon
<1>7. Len(restored') = IF m < ScrollLimit THEN m ELSE ScrollLimit
  BY <1>6
<1>8. ASSUME NEW i \in 1..Len(restored')
      PROVE  IF restored'[i].seq < acked[s].length
               THEN restored'[i].snapshot = acked[s].snapshot
               ELSE restored'[i].seq < acked[s].longest /\ restored'[i].snapshot < acked[s].snapshot
  <2>1. PICK p \in Positions : p = q[i] /\ p \in found
    OBVIOUS
  <2>2. restored'[i].seq = p /\ restored'[i].snapshot = points[s][p]
    BY <1>2, <2>1
  <2>3. p \in Nat /\ p < m
    BY <1>4, <2>1, BoundsAssumption DEF Positions
  <2> QED
    BY <1>1, <1>2, <1>3, <2>2, <2>3 DEF StoredAt
<1> QED
  BY <1>3, <1>7, <1>8 DEF LastSnapshot

\* The step that returns a history.
LEMMA RetrievedStep ==
  ASSUME History, NEW c \in Callers, Retrieved(c)
  PROVE  /\ restored' \in Seq(Messages)
         /\ InOrder(restored')
         /\ Settled(call[c].session) => LastSnapshot(call[c].session, restored')
<1>1. PICK s \in Sessions : s = call[c].session
  BY DEF Retrieved, History, Inv, Typed, Calls
<1>2. PICK f \in Scrolls(s) : \E q \in BySeq(f) : Answer(s, q)
  BY <1>1 DEF Retrieved
<1>3. PICK q \in BySeq(f) : Answer(s, q)
  BY <1>2
<1>4. PICK found : found = {i \in Positions : shown[s][i] # 0}
  OBVIOUS
<1>5. /\ q \in Seq(Positions)
      /\ \A i \in 1..Len(q) : q[i] \in found
      /\ Len(q) = IF Cardinality(found) < ScrollLimit THEN Cardinality(found) ELSE ScrollLimit
      /\ \A i, j \in 1..Len(q) : i < j => q[i] < q[j]
      /\ Len(q) < ScrollLimit => \A i \in 1..Len(q) : q[i] = i - 1
  BY <1>4, SortedPage DEF History, Written
<1>6. /\ restored' \in Seq(Messages)
      /\ InOrder(restored')
      /\ Len(restored') = Len(q)
      /\ \A i \in 1..Len(q) : restored'[i].seq = q[i] /\ restored'[i].snapshot = shown[s][q[i]]
  BY <1>3, <1>5, AnswerInOrder DEF History, Inv
<1>7. Settled(s) => LastSnapshot(s, restored')
  BY <1>4, <1>5, <1>6, AnswerIsLast DEF History, Inv
<1> QED
  BY <1>1, <1>6, <1>7

\* A snapshot is stored over the last one.
LEMMA UpsertedStored ==
  ASSUME Inv, Stored, NEW c \in Callers, Upserted(c)
  PROVE  Stored'
<1>1. PICK k \in Calls : /\ k = call[c] /\ k.snapshot # 0
                         /\ Upsert(k) /\ Acknowledge(k) /\ UNCHANGED given_up
  BY StoredSnapshot DEF Upserted
<1>2. PICK s \in Sessions : s = k.session
  BY DEF Calls
<1>3. acked[s].snapshot < k.snapshot
  BY <1>1, <1>2 DEF Inv, Turns, Upserted
<1>4. /\ k.length \in Nat /\ k.snapshot \in Nat
      /\ acked[s].snapshot \in Nat /\ acked[s].length \in Nat /\ acked[s].longest \in Nat
  BY BoundsAssumption DEF Calls, Inv, Typed, AckRecords, Snapshots
<1>5. /\ \A t \in Sessions : t # s => acked'[t] = acked[t]
      /\ acked'[s].snapshot = k.snapshot
      /\ acked'[s].length = k.length
      /\ acked'[s].longest = IF k.length > acked[s].longest THEN k.length ELSE acked[s].longest
  BY <1>1, <1>2, AcknowledgePart DEF Inv
<1>6. \A t \in Sessions : \A i \in Positions :
        points'[t][i] = IF t = s /\ i < k.length THEN k.snapshot ELSE points[t][i]
  BY <1>1, <1>2 DEF Upsert, Inv, Typed
<1>7. ASSUME NEW t \in Sessions
      PROVE  acked'[t].length <= acked'[t].longest
  BY <1>4, <1>5 DEF Stored
<1>8. ASSUME NEW t \in Sessions, given_up[t] = {}, NEW i \in Positions
      PROVE  StoredAt(t, i)'
  <2>1. StoredAt(t, i) /\ acked[t].length <= acked[t].longest
    BY <1>8 DEF Stored
  <2>2. CASE t # s
    <3>1. acked'[t] = acked[t] /\ points'[t][i] = points[t][i]
      BY <1>5, <1>6, <2>2
    <3> QED
      BY <2>1, <3>1 DEF StoredAt
  <2>3. CASE t = s
    <3>1. i \in Nat
      BY BoundsAssumption DEF Positions
    <3>2. points'[t][i] = IF i < k.length THEN k.snapshot ELSE points[t][i]
      BY <1>6, <2>3
    <3>3. \/ points[t][i] = acked[s].snapshot /\ points[t][i] # 0 /\ i < acked[s].length
          \/ points[t][i] < acked[s].snapshot /\ points[t][i] # 0 /\ i < acked[s].longest
          \/ points[t][i] = 0 /\ acked[s].longest <= i
      BY <1>4, <2>1, <2>3, <3>1 DEF StoredAt
    <3>4. points[t][i] \in Nat
      BY DEF Inv, Typed, Snapshots
    <3>5. i < k.length => points'[t][i] = k.snapshot /\ points'[t][i] # 0
      BY <1>1, <3>2
    <3>6. k.length <= i /\ i < acked'[s].longest =>
            points'[t][i] < k.snapshot /\ points'[t][i] # 0
      BY <1>3, <1>4, <1>5, <2>1, <2>3, <3>1, <3>2, <3>3, <3>4
    <3>7. acked'[s].longest <= i => points'[t][i] = 0
      BY <1>3, <1>4, <1>5, <2>1, <2>3, <3>1, <3>2, <3>3, <3>4
    <3> QED
      BY <1>5, <2>3, <3>5, <3>6, <3>7 DEF StoredAt
  <2> QED
    BY <2>2, <2>3
<1> QED
  BY <1>1, <1>7, <1>8 DEF Stored

LEMMA StoredStep ==
  ASSUME Inv, Stored, Next
  PROVE  Stored'
<1>0. Typed
  BY DEF Inv
<1>1. ASSUME UNCHANGED <<points, acked>>, \A s \in Sessions : given_up[s] \subseteq given_up'[s]
      PROVE  Stored'
  BY <1>1 DEF Stored, StoredAt
<1>2. ASSUME NEW r \in late, LateRequest(r)
      PROVE  Stored'
  <2>1. UNCHANGED <<acked, given_up>>
    BY <1>2 DEF LateRequest, ghostVars
  <2>2. CASE r.request = "create"
    BY <1>1, <1>2, <2>1, <2>2 DEF LateRequest
  <2>3. CASE r.request # "create"
    <3>1. r.call \in Calls /\ r.request = "upsert" /\ Upsert(r.call)
      BY <1>0, <1>2, <2>3 DEF Typed, LateRequest
    <3>2. given_up[r.call.session] # {}
      BY <3>1 DEF Inv, LateGivenUp
    <3>3. \A s \in Sessions : s # r.call.session => points'[s] = points[s]
      BY <1>0, <3>1 DEF Upsert, Typed
    <3> QED
      BY <2>1, <3>2, <3>3 DEF Stored, StoredAt
  <2> QED
    BY <2>2, <2>3
<1>3. ASSUME NEW c \in Callers, Fails(c) \/ FailsLate(c)
      PROVE  Stored'
  <2>1. UNCHANGED <<points, acked>> /\ GivesUp(c)
    BY <1>3 DEF Fails, FailsLate, qdrantVars
  <2>2. \A s \in Sessions : given_up[s] \subseteq given_up'[s]
    BY <1>0, <2>1 DEF GivesUp, Typed
  <2> QED
    BY <1>1, <2>1, <2>2
<1>4. ASSUME NEW c \in Callers,
             \/ \E s \in Sessions, n \in 1..MaxLength : StoreConversation(c, s, n)
             \/ \E s \in Sessions, op \in Operations : Other(c, s, op)
      PROVE  Stored'
  BY <1>1, <1>4 DEF StoreConversation, Other, Begin, qdrantVars
<1>5. ASSUME NEW c \in Callers, Listed(c) \/ Created(c) \/ Retrieved(c) \/ OtherDone(c)
      PROVE  Stored'
  BY <1>1, <1>5 DEF Listed, Created, Retrieved, OtherDone, qdrantVars, ghostVars
<1>6. ASSUME NEW s \in Sessions, Indexes(s)
      PROVE  Stored'
  BY <1>1, <1>6 DEF Indexes, ghostVars
<1> QED
  BY <1>2, <1>3, <1>4, <1>5, <1>6, UpsertedStored DEF Next

LEMMA RestoredStep ==
  ASSUME History, Next
  PROVE  restored' \in Seq(Messages)
<1>1. CASE restored' \in {restored, <<>>}
  <2>1. <<>> \in Seq(Messages)
    OBVIOUS
  <2> QED
    BY <1>1, <2>1 DEF History
<1>2. ASSUME NEW c \in Callers,
             \/ \E s \in Sessions, n \in 1..MaxLength : StoreConversation(c, s, n)
             \/ \E s \in Sessions, op \in Operations : Other(c, s, op)
      PROVE  restored' = <<>>
  BY <1>2 DEF StoreConversation, Other, Begin
<1>3. ASSUME NEW c \in Callers,
             \/ Listed(c) \/ Created(c) \/ Upserted(c) \/ OtherDone(c)
             \/ Fails(c) \/ FailsLate(c)
      PROVE  restored' = restored
  BY <1>3 DEF Listed, Created, Upserted, OtherDone, Fails, FailsLate
<1> QED
  BY <1>1, <1>2, <1>3, RetrievedStep DEF Next, Indexes, LateRequest

LEMMA HistoryInit == Init => History
<1> SUFFICES ASSUME Init
             PROVE  Written /\ Stored /\ restored \in Seq(Messages)
  BY InitInv DEF History
<1>1. \A i \in Positions : i \in Nat
  BY BoundsAssumption DEF Positions
<1>2. Stored
  <2>1. \A s \in Sessions : acked[s].length = 0 /\ acked[s].longest = 0
    BY DEF Init
  <2>2. \A s \in Sessions : \A i \in Positions : points[s][i] = 0
    BY DEF Init
  <2> QED
    BY <1>1, <2>1, <2>2 DEF Stored, StoredAt
<1> QED
  BY <1>2 DEF Init, Written, Gapless

LEMMA HistoryNext == History /\ [Next]_vars => History'
<1> SUFFICES ASSUME History, [Next]_vars
             PROVE  History'
  OBVIOUS
<1>1. CASE UNCHANGED vars
  BY <1>1, NextInv DEF History, vars, qdrantVars, ghostVars, Written, Gapless, Stored, StoredAt
<1>2. CASE Next
  BY <1>2, NextInv, WrittenStep, StoredStep, RestoredStep DEF History
<1> QED
  BY <1>1, <1>2

LEMMA AlwaysHistory == Spec => []History
<1> QED
  BY HistoryInit, HistoryNext, PTL DEF Spec

-----------------------------------------------------------------------------
(* Theorems about what is stored and restored.                             *)

\* What store_conversation acknowledged stays, or is overwritten by newer messages;
\* older ones come over it only from a snapshot that was given up (store_conversation);
\* and every reachable state is well typed.
THEOREM AcknowledgedStays == Spec => []AcknowledgedKept
<1>1. History => AcknowledgedKept
  BY DEF History, Inv, Typed, AckRecords, AllKept, TypeOK, AcknowledgedKept
<1> QED
  BY <1>1, AlwaysHistory, PTL

\* A conversation is restored in order and, unless the limit of the scroll has cut it,
\* from its first message on without a gap, whatever was overwritten, came late or is
\* not yet found; and when no store was given up and all is found, it is the last
\* stored snapshot, message for message, with the end of a longer one before it as all
\* that can follow, and the limit as all that can cut it (get_conversation).
THEOREM AlwaysRestoredAsStored == Spec => RestoredAsStored
<1>1. ASSUME History, NEW c \in Callers, Retrieved(c)
      PROVE  /\ InOrder(restored')
             /\ Settled(call[c].session) => LastSnapshot(call[c].session, restored')
  BY <1>1, RetrievedStep
<1>2. History /\ [Next]_vars =>
        [\A c \in Callers : Retrieved(c) =>
           /\ InOrder(restored')
           /\ Settled(call[c].session) => LastSnapshot(call[c].session, restored')]_vars
  BY <1>1
<1> QED
  BY <1>2, AlwaysHistory, PTL DEF Spec, RestoredAsStored
=============================================================================
