-------------------------- MODULE ToolRegistry_proofs --------------------------
(***************************************************************************)
(* Theorems about the registry of tools, for any number of calls and tools *)
(* and a blocking pool of any size.                                        *)
(***************************************************************************)
EXTENDS ToolRegistry, FiniteSetTheorems, SequenceTheorems, TLAPS

-----------------------------------------------------------------------------
(* The lock, as a record l, when the calls in R are at an await for reading *)
(* or under it, and those in W for writing.                                *)

Waiter == [call : Calls, write : BOOLEAN]
LockType(l) == l \in [readers : SUBSET Calls, writer : Calls \cup {None}, queue : Seq(Waiter)]

Holders(l, R, W) ==
  /\ l.readers \subseteq R
  /\ l.writer # None => l.writer \in W /\ l.readers = {}

Waiters(l, R, W) ==
  /\ \A i \in 1..Len(l.queue) :
       /\ l.queue[i].call \in IF l.queue[i].write THEN W ELSE R
       /\ l.queue[i].call \notin l.readers \cup {l.writer}
  /\ \A i, j \in 1..Len(l.queue) : l.queue[i].call = l.queue[j].call => i = j

\* Who holds permits or waits for them.
Present(l) ==
  l.readers \cup ({l.writer} \ {None}) \cup {l.queue[i].call : i \in 1..Len(l.queue)}

Sound(l, R, W) ==
  LockType(l) /\ Holders(l, R, W) /\ Waiters(l, R, W) /\ R \cup W \subseteq Present(l)

\* No permit is idle.
Awake(l) == l.queue # <<>> => l.writer # None \/ (l.queue[1].write /\ l.readers # {})

\* The readers at the head are the first n of the queue, and a writer is next.
LEMMA LeadingIsPrefix ==
  ASSUME NEW q \in Seq(Waiter), NEW n, n = Cardinality(Leading(q))
  PROVE  /\ n \in 0..Len(q)
         /\ Leading(q) = 1..n
         /\ n < Len(q) => q[n + 1].write
<1>1. Len(q) \in Nat
  OBVIOUS
<1>2. /\ IsFiniteSet(1..Len(q)) /\ Cardinality(1..Len(q)) = Len(q)
  BY <1>1, FS_Interval, SMTT(30)
<1>3. Leading(q) \subseteq 1..Len(q)
  BY DEF Leading
<1>4. IsFiniteSet(Leading(q)) /\ n <= Len(q)
  BY <1>2, <1>3, FS_Subset
<1>5. n \in Nat
  BY <1>4, FS_CardinalityType
<1>6. \A i \in Leading(q), j \in 1..Len(q) : j <= i => j \in Leading(q)
  BY <1>1 DEF Leading
<1>7. Leading(q) \subseteq 1..n
  <2> SUFFICES ASSUME NEW i \in Leading(q), i > n
               PROVE  FALSE
    BY <1>1, <1>3, <1>5
  <2>1. 1..(n + 1) \subseteq Leading(q)
    BY <1>1, <1>3, <1>5, <1>6
  <2>2. Cardinality(1..(n + 1)) = n + 1
    BY <1>5, FS_Interval
  <2> QED
    BY <1>4, <1>5, <2>1, <2>2, FS_Subset
<1>8. Leading(q) = 1..n
  <2>1. IsFiniteSet(1..n) /\ Cardinality(1..n) = n
    BY <1>5, FS_Interval
  <2> QED
    BY <1>7, <2>1, FS_Subset
<1>9. ASSUME n < Len(q)
      PROVE  q[n + 1].write
  <2>1. n + 1 \in 1..Len(q) /\ n + 1 \notin 1..n /\ \A j \in 1..(n + 1) : j \in 1..n \/ j = n + 1
    <3> HIDE DEF Leading
    <3>1. ASSUME NEW m \in Nat, m = n, m < Len(q)
          PROVE  m + 1 \in 1..Len(q) /\ m + 1 \notin 1..m /\ \A j \in 1..(m + 1) : j \in 1..m \/ j = m + 1
      BY <1>1, <3>1
    <3> QED
      BY <1>5, <1>9, <3>1
  <2>2. PICK j \in 1..(n + 1) : q[j].write
    BY <1>8, <2>1 DEF Leading
  <2>3. j \notin Leading(q)
    BY <2>2 DEF Leading
  <2>4. j = n + 1
    BY <1>8, <2>1, <2>2, <2>3
  <2> QED
    BY <2>2, <2>4
<1> QED
  BY <1>1, <1>4, <1>5, <1>8, <1>9

\* Permits that are handed on go to who waits for them, and none stays idle.
LEMMA HandedSound ==
  ASSUME NEW R, NEW W, NEW l, Sound(l, R, W)
  PROVE  Sound(Handed(l), R, W) /\ Awake(Handed(l))
<1> DEFINE n == Cardinality(Leading(l.queue))
           q == l.queue
<1>1. LockType(l) /\ q \in Seq(Waiter) /\ Len(q) \in Nat
  BY DEF Sound, LockType
<1>2. n \in 0..Len(q) /\ Leading(q) = 1..n /\ (n < Len(q) => q[n + 1].write)
  BY <1>1, LeadingIsPrefix
<1> HIDE DEF n
<1>3. \A i \in 1..Len(q) : q[i] \in Waiter /\ q[i].call \in Calls
  <2>1. \A i \in 1..Len(q) : q[i] \in Waiter
    BY <1>1
  <2> QED
    BY <2>1 DEF Waiter
<1>4. CASE l.writer # None \/ q = <<>>
  BY <1>4 DEF Handed, Awake
<1>5. CASE ~(l.writer # None \/ q = <<>>) /\ n > 0
  <2> DEFINE h == Handed(l)
             t == SubSeq(q, n + 1, Len(q))
             first == {q[i].call : i \in Leading(q)}
  <2>1. h = [readers |-> l.readers \cup first, writer |-> None, queue |-> t]
    BY <1>5 DEF Handed, n
  <2> HIDE DEF h
  <2>2. h.readers = l.readers \cup first /\ h.writer = None /\ h.queue = t
    BY <1>1, <1>5, <2>1 DEF LockType
  <2>3. /\ t \in Seq(Waiter) /\ Len(t) = Len(q) - n
        /\ \A i \in 1..(Len(q) - n) : t[i] = q[n + i]
    BY <1>1, <1>2, SubSeqProperties
  <2> HIDE DEF t
  <2>4. LockType(h)
    BY <1>1, <1>2, <1>3, <2>1, <2>3 DEF LockType
  <2>5. first \subseteq R /\ first # {}
    <3>1. \A i \in Leading(q) : ~q[i].write /\ i \in 1..Len(q)
      BY DEF Leading
    <3>2. 1 \in Leading(q)
      BY <1>2, <1>5
    <3> QED
      BY <3>1, <3>2 DEF Sound, Waiters
  <2>6. Holders(h, R, W)
    BY <2>2, <2>5 DEF Holders, Sound
  <2>7. \A i \in 1..Len(t) : n + i \in 1..Len(q) /\ t[i] = q[n + i] /\ n + i \notin Leading(q)
    BY <1>1, <1>2, <2>3
  <2>8. Waiters(h, R, W)
    <3>1. \A i \in 1..Len(t) : t[i].call \in IF t[i].write THEN W ELSE R
      BY <2>7 DEF Sound, Waiters
    <3>2. \A i \in 1..Len(t) : t[i].call \notin h.readers \cup {h.writer}
      <4> SUFFICES ASSUME NEW i \in 1..Len(t)
                   PROVE  t[i].call \notin first /\ t[i].call \notin l.readers \cup {None}
        BY <2>2
      <4>1. t[i].call \notin l.readers \cup {None}
        BY <1>5, <2>7 DEF Sound, Waiters
      <4>2. \A j \in Leading(q) : j \in 1..Len(q) /\ q[j].call # q[n + i].call
        BY <2>7 DEF Sound, Waiters, Leading
      <4> QED
        BY <2>7, <4>1, <4>2
    <3>3. \A i, j \in 1..Len(t) : t[i].call = t[j].call => i = j
      <4> SUFFICES ASSUME NEW i \in 1..Len(t), NEW j \in 1..Len(t), t[i].call = t[j].call
                   PROVE  i = j
        OBVIOUS
      <4>1. n + i = n + j
        BY <2>7 DEF Sound, Waiters
      <4> QED
        BY <1>2, <2>3, <4>1
    <3> QED
      BY <2>2, <3>1, <3>2, <3>3 DEF Waiters
  <2>9. Present(l) \subseteq Present(h)
    <3> SUFFICES ASSUME NEW i \in 1..Len(q)
                 PROVE  q[i].call \in Present(h)
      BY <1>5, <2>2 DEF Present
    <3>1. CASE i <= n
      BY <1>2, <2>2, <3>1 DEF Present
    <3>2. CASE i > n
      <4>1. i - n \in 1..Len(t) /\ t[i - n] = q[i]
        BY <1>1, <1>2, <2>3, <3>2
      <4> QED
        BY <2>2, <4>1 DEF Present
    <3> QED
      BY <1>1, <1>2, <3>1, <3>2
  <2>10. Awake(h)
    <3>1. t # <<>> => Len(t) # 0
      BY <2>3
    <3>2. t # <<>> => t[1].write
      BY <1>1, <1>2, <2>3, <3>1
    <3> QED
      BY <2>2, <2>5, <3>2 DEF Awake
  <2> QED
    BY <2>4, <2>6, <2>8, <2>9, <2>10 DEF Sound, h
<1>6. CASE ~(l.writer # None \/ q = <<>>) /\ ~(n > 0) /\ l.readers = {}
  <2> DEFINE h == Handed(l)
  <2>1. h = [readers |-> {}, writer |-> q[1].call, queue |-> Tail(q)]
    BY <1>6 DEF Handed, n
  <2> HIDE DEF h
  <2>2. h.readers = {} /\ h.writer = q[1].call /\ h.queue = Tail(q)
    BY <1>1, <1>6, <2>1 DEF LockType
  <2>3. 1 \in 1..Len(q) /\ q[1].write
    BY <1>1, <1>2, <1>6
  <2>4. /\ Tail(q) \in Seq(Waiter) /\ Len(Tail(q)) = Len(q) - 1
        /\ \A i \in 1..Len(Tail(q)) : i + 1 \in 1..Len(q) /\ Tail(q)[i] = q[i + 1]
    BY <1>1, <2>3
  <2>5. LockType(h)
    BY <1>1, <1>3, <2>1, <2>3, <2>4 DEF LockType
  <2>6. q[1].call \in W /\ q[1].call # None
    BY <1>3, <2>3, NamesAssumption DEF Sound, Waiters
  <2>7. Holders(h, R, W)
    BY <2>2, <2>6 DEF Holders
  <2>8. Waiters(h, R, W)
    <3>1. \A i \in 1..Len(Tail(q)) : Tail(q)[i].call \in IF Tail(q)[i].write THEN W ELSE R
      BY <2>4 DEF Sound, Waiters
    <3>2. \A i \in 1..Len(Tail(q)) : Tail(q)[i].call # q[1].call
      <4> SUFFICES ASSUME NEW i \in 1..Len(Tail(q)), Tail(q)[i].call = q[1].call
                   PROVE  FALSE
        OBVIOUS
      <4>1. i + 1 = 1
        BY <2>3, <2>4 DEF Sound, Waiters
      <4> QED
        BY <2>4, <4>1
    <3>3. \A i, j \in 1..Len(Tail(q)) : Tail(q)[i].call = Tail(q)[j].call => i = j
      <4> SUFFICES ASSUME NEW i \in 1..Len(Tail(q)), NEW j \in 1..Len(Tail(q)),
                          Tail(q)[i].call = Tail(q)[j].call
                   PROVE  i = j
        OBVIOUS
      <4>1. i + 1 = j + 1
        BY <2>4 DEF Sound, Waiters
      <4> QED
        BY <4>1
    <3> QED
      BY <2>2, <3>1, <3>2, <3>3 DEF Waiters
  <2>9. Present(l) \subseteq Present(h)
    <3> SUFFICES ASSUME NEW i \in 1..Len(q)
                 PROVE  q[i].call \in Present(h)
      BY <1>6 DEF Present
    <3>1. CASE i = 1
      BY <2>2, <2>6, <3>1 DEF Present
    <3>2. CASE i # 1
      <4>1. i - 1 \in 1..Len(Tail(q)) /\ Tail(q)[i - 1] = q[i]
        BY <1>1, <2>4, <3>2
      <4> QED
        BY <2>2, <4>1 DEF Present
    <3> QED
      BY <3>1, <3>2
  <2>10. Awake(h)
    BY <2>2, <2>6 DEF Awake
  <2> QED
    BY <2>5, <2>7, <2>8, <2>9, <2>10 DEF Sound, h
<1>7. CASE ~(l.writer # None \/ q = <<>>) /\ ~(n > 0) /\ l.readers # {}
  <2>1. Handed(l) = l
    BY <1>7 DEF Handed, n
  <2>2. q[1].write
    BY <1>1, <1>2, <1>7
  <2> QED
    BY <1>7, <2>1, <2>2 DEF Awake
<1> QED
  BY <1>4, <1>5, <1>6, <1>7

Distinct(q) == \A i, j \in 1..Len(q) : q[i].call = q[j].call => i = j

\* What is left of a queue when c has gone from it.
LEMMA WithoutCall ==
  ASSUME NEW c, NEW q \in Seq(Waiter), Distinct(q), NEW t, t = Without(q, c)
  PROVE  /\ t \in Seq(Waiter) /\ Distinct(t)
         /\ \A i \in 1..Len(t) : t[i].call # c /\ \E k \in 1..Len(q) : t[i] = q[k]
         /\ \A k \in 1..Len(q) : q[k].call # c => \E i \in 1..Len(t) : t[i] = q[k]
<1> DEFINE places == {i \in 1..Len(q) : q[i].call = c}
<1>1. Len(q) \in Nat
  OBVIOUS
<1>2. CASE places = {}
  <2>1. t = q
    BY <1>2 DEF Without
  <2> QED
    BY <1>2, <2>1
<1>3. CASE places # {}
  <2> DEFINE p == CHOOSE i \in places : TRUE
  <2>1. p \in 1..Len(q) /\ q[p].call = c /\ t = RemoveAt(q, p)
    BY <1>3 DEF Without
  <2> HIDE DEF p
  <2> DEFINE a == SubSeq(q, 1, p - 1)
             b == SubSeq(q, p + 1, Len(q))
  <2>2. /\ a \in Seq(Waiter) /\ Len(a) = p - 1
        /\ \A i \in 1..(p - 1) : a[i] = q[i]
    BY <1>1, <2>1, SubSeqProperties
  <2>3. /\ b \in Seq(Waiter) /\ Len(b) = Len(q) - p
        /\ \A i \in 1..(Len(q) - p) : b[i] = q[p + i]
    BY <1>1, <2>1, SubSeqProperties
  <2>4. t = a \o b
    BY <2>1 DEF RemoveAt
  <2> HIDE DEF a, b
  <2>5. /\ t \in Seq(Waiter) /\ Len(t) = Len(q) - 1
        /\ \A i \in 1..(Len(q) - 1) : t[i] = IF i <= p - 1 THEN a[i] ELSE b[i - (p - 1)]
    <3>1. /\ t \in Seq(Waiter) /\ Len(t) = Len(a) + Len(b)
          /\ \A i \in 1..(Len(a) + Len(b)) : t[i] = IF i <= Len(a) THEN a[i] ELSE b[i - Len(a)]
      <4>1. a \in Seq(Waiter) /\ b \in Seq(Waiter)
        BY <2>2, <2>3
      <4>2. /\ a \o b \in Seq(Waiter) /\ Len(a \o b) = Len(a) + Len(b)
            /\ \A i \in 1..(Len(a) + Len(b)) :
                 (a \o b)[i] = IF i <= Len(a) THEN a[i] ELSE b[i - Len(a)]
        BY <4>1, ConcatProperties, Zenon
      <4> QED
        BY <2>4, <4>2
    <3>2. Len(a) + Len(b) = Len(q) - 1
      BY <1>1, <2>1, <2>2, <2>3
    <3> QED
      BY <2>2, <3>1, <3>2
  <2>6. ASSUME NEW i \in 1..Len(t)
        PROVE  IF i < p THEN t[i] = q[i] ELSE i + 1 \in 1..Len(q) /\ t[i] = q[i + 1]
    <3>1. CASE i < p
      <4>1. i \in 1..(Len(q) - 1) /\ i \in 1..(p - 1) /\ i <= p - 1
        BY <1>1, <2>1, <2>5, <3>1
      <4>2. t[i] = a[i]
        BY <2>5, <4>1
      <4>3. a[i] = q[i]
        BY <2>2, <4>1
      <4> QED
        BY <3>1, <4>2, <4>3
    <3>2. CASE i >= p
      <4>1. i - (p - 1) \in 1..(Len(q) - p) /\ p + (i - (p - 1)) = i + 1 /\ i + 1 \in 1..Len(q)
        BY <1>1, <2>1, <2>5, <3>2
      <4>2. t[i] = b[i - (p - 1)]
        BY <1>1, <2>1, <2>5, <3>2
      <4> QED
        BY <2>1, <2>3, <2>5, <3>2, <4>1, <4>2
    <3> QED
      BY <1>1, <2>1, <2>5, <3>1, <3>2
  <2>7. ASSUME NEW i \in 1..Len(t)
        PROVE  \E k \in 1..Len(q) : k # p /\ t[i] = q[k] /\ k = IF i < p THEN i ELSE i + 1
    BY <1>1, <2>1, <2>5, <2>6
  <2>8. \A k \in 1..Len(q) : k # p => q[k].call # c
    BY <2>1 DEF Distinct
  <2>9. Distinct(t)
    <3> SUFFICES ASSUME NEW i \in 1..Len(t), NEW j \in 1..Len(t), t[i].call = t[j].call
                 PROVE  i = j
      BY DEF Distinct
    <3>1. (IF i < p THEN i ELSE i + 1) = (IF j < p THEN j ELSE j + 1)
      BY <2>7 DEF Distinct
    <3> QED
      BY <1>1, <2>1, <2>5, <3>1
  <2>10. ASSUME NEW k \in 1..Len(q), q[k].call # c
         PROVE  \E i \in 1..Len(t) : t[i] = q[k]
    <3>1. CASE k < p
      BY <1>1, <2>1, <2>5, <2>6, <3>1
    <3>2. CASE k > p
      <4>1. k - 1 \in 1..Len(t) /\ ~(k - 1 < p) /\ (k - 1) + 1 = k
        BY <1>1, <2>1, <2>5, <3>2
      <4> QED
        BY <2>6, <4>1
    <3> QED
      BY <1>1, <2>1, <2>10, <3>1, <3>2
  <2>11. \A i \in 1..Len(t) : t[i].call # c /\ \E k \in 1..Len(q) : t[i] = q[k]
    BY <2>7, <2>8
  <2> QED
    BY <2>5, <2>9, <2>10, <2>11
<1> QED
  BY <1>2, <1>3

\* A call that asks for permits is present afterwards.
LEMMA AcquireSound ==
  ASSUME NEW R, NEW W, NEW l, Sound(l, R, W), R \cap W = {},
         NEW c \in Calls, c \notin Present(l), NEW write \in BOOLEAN
  PROVE  LET RR == IF write THEN R ELSE R \cup {c}
             WW == IF write THEN W \cup {c} ELSE W
         IN  Sound(Acquire(l, c, write), RR, WW) /\ Awake(Acquire(l, c, write))
<1> DEFINE RR == IF write THEN R ELSE R \cup {c}
           WW == IF write THEN W \cup {c} ELSE W
           w == [call |-> c, write |-> write]
           q == l.queue
           t == Append(q, w)
           m == [l EXCEPT !.queue = t]
<1>1. LockType(l) /\ q \in Seq(Waiter) /\ Len(q) \in Nat /\ w \in Waiter
  BY DEF Sound, LockType, Waiter
<1>2. /\ t \in Seq(Waiter) /\ Len(t) = Len(q) + 1
      /\ \A i \in 1..Len(t) : t[i] = IF i = Len(t) THEN w ELSE q[i]
      /\ \A i \in 1..Len(t) : i # Len(t) => i \in 1..Len(q)
      /\ Len(t) \in 1..Len(t)
      /\ \A i \in 1..Len(q) : i \in 1..Len(t) /\ i # Len(t)
  BY <1>1, AppendProperties
<1> HIDE DEF t
<1>3. /\ LockType(m)
      /\ m.readers = l.readers /\ m.writer = l.writer /\ m.queue = t
  BY <1>1, <1>2 DEF LockType
<1> HIDE DEF m
<1>4. Holders(m, RR, WW)
  BY <1>3 DEF Holders, Sound
<1>5. Waiters(m, RR, WW)
  <2>1. w.call = c /\ w.write = write
    OBVIOUS
  <2> HIDE DEF w
  <2>2. \A i \in 1..Len(q) :
          /\ q[i].call \in IF q[i].write THEN W ELSE R
          /\ q[i].call \notin l.readers \cup {l.writer}
          /\ q[i].call # c
    BY DEF Sound, Waiters, Present
  <2>3. c # l.writer /\ c \notin l.readers
    BY NamesAssumption DEF Present
  <2>4. \A i \in 1..Len(t) :
          /\ t[i].call \in IF t[i].write THEN WW ELSE RR
          /\ t[i].call \notin l.readers \cup {l.writer}
    BY <1>2, <2>1, <2>2, <2>3
  <2>5. \A i, j \in 1..Len(t) : t[i].call = t[j].call => i = j
    BY <1>2, <2>1, <2>2 DEF Sound, Waiters
  <2> QED
    BY <1>3, <2>4, <2>5 DEF Waiters
<1>6. RR \cup WW \subseteq Present(m)
  <2>1. Present(l) \subseteq Present(m)
    BY <1>2, <1>3 DEF Present
  <2>2. c \in Present(m)
    <3>1. t[Len(t)].call = c
      BY <1>2
    <3> QED
      BY <1>2, <1>3, <3>1 DEF Present
  <2> QED
    BY <2>1, <2>2 DEF Sound
<1>7. Sound(m, RR, WW)
  BY <1>3, <1>4, <1>5, <1>6 DEF Sound
<1>8. Acquire(l, c, write) = Handed(m)
  BY DEF Acquire, m, t
<1> QED
  BY <1>7, <1>8, HandedSound

\* A call that gives up its permits, or its place, is not there any more.
LEMMA ReleaseSound ==
  ASSUME NEW R, NEW W, NEW l, Sound(l, R, W), NEW c \in Calls
  PROVE  Sound(Release(l, c), R \ {c}, W \ {c}) /\ Awake(Release(l, c))
<1> DEFINE q == l.queue
           t == Without(q, c)
           m == [readers |-> l.readers \ {c},
                 writer |-> IF l.writer = c THEN None ELSE l.writer,
                 queue |-> t]
<1>1. LockType(l) /\ q \in Seq(Waiter) /\ Distinct(q)
  BY DEF Sound, LockType, Waiters, Distinct
<1>2. /\ t \in Seq(Waiter) /\ Distinct(t)
      /\ \A i \in 1..Len(t) : t[i].call # c /\ \E k \in 1..Len(q) : t[i] = q[k]
      /\ \A k \in 1..Len(q) : q[k].call # c => \E i \in 1..Len(t) : t[i] = q[k]
  BY <1>1, WithoutCall
<1> HIDE DEF t
<1>3. /\ m.readers = l.readers \ {c} /\ m.queue = t
      /\ m.writer = IF l.writer = c THEN None ELSE l.writer
  OBVIOUS
<1>4. LockType(m)
  BY <1>1, <1>2 DEF LockType
<1>5. Release(l, c) = Handed(m)
  BY DEF Release, t
<1> HIDE DEF m
<1>6. Holders(m, R \ {c}, W \ {c})
  BY <1>3 DEF Sound, Holders
<1>7. Waiters(m, R \ {c}, W \ {c})
  <2>1. \A i \in 1..Len(t) :
          /\ t[i].call \in IF t[i].write THEN W \ {c} ELSE R \ {c}
          /\ t[i].call \notin l.readers \cup {l.writer}
    BY <1>2 DEF Sound, Waiters
  <2>2. \A i \in 1..Len(t) : t[i].call # None
    <3>1. \A i \in 1..Len(q) : q[i] \in Waiter
      BY <1>1
    <3> QED
      BY <1>2, <3>1, NamesAssumption DEF Waiter
  <2> QED
    BY <1>2, <1>3, <2>1, <2>2 DEF Waiters, Distinct
<1>8. (R \ {c}) \cup (W \ {c}) \subseteq Present(m)
  <2> SUFFICES ASSUME NEW d \in Present(l), d # c
               PROVE  d \in Present(m)
    BY DEF Sound
  <2>1. CASE d \in l.readers \/ d \in {l.writer} \ {None}
    BY <1>3, <2>1 DEF Present
  <2>2. CASE \E i \in 1..Len(q) : q[i].call = d
    <3>1. PICK i \in 1..Len(q) : q[i].call = d
      BY <2>2
    <3>2. PICK k \in 1..Len(t) : t[k] = q[i]
      BY <1>2, <3>1
    <3> QED
      BY <1>3, <3>1, <3>2 DEF Present
  <2> QED
    BY <2>1, <2>2 DEF Present
<1>9. Sound(m, R \ {c}, W \ {c})
  BY <1>4, <1>6, <1>7, <1>8 DEF Sound
<1> QED
  BY <1>5, <1>9, HandedSound

\* Nobody else can take the permits of a writer.
LEMMA WriterStays ==
  ASSUME NEW l, l \in [readers : SUBSET Calls, writer : Calls \cup {None}, queue : Seq(Waiter)],
         l.writer # None, NEW c
  PROVE  /\ \A write \in BOOLEAN : Acquire(l, c, write).writer = l.writer
         /\ l.writer # c => Release(l, c).writer = l.writer
<1>1. \A write \in BOOLEAN : Acquire(l, c, write).writer = l.writer
  BY DEF Acquire, Handed
<1>2. l.writer # c => Release(l, c).writer = l.writer
  BY DEF Release, Handed
<1> QED
  BY <1>1, <1>2

-----------------------------------------------------------------------------
(* The invariant.                                                          *)

AtRead == {c \in Calls : pc[c] \in ReadAwaits}
AtWrite == {c \in Calls : pc[c] \in WriteAwaits}
LockInv == Sound(Lock, AtRead, AtWrite) /\ Awake(Lock)

Places == {"idle", "running", "native", "panic"} \cup ReadAwaits \cup WriteAwaits

\* TypeOK but for the lock.
Typed ==
  /\ registered \subseteq Tools
  /\ compiled \subseteq registered \cap WasmTools
  /\ pc \in [Calls -> Places]
  /\ request \in [Calls -> Tools \cup {List, None}]
  /\ jobs \in Seq(Calls)
  /\ threads \subseteq Calls /\ IsFiniteSet(threads) /\ Cardinality(threads) <= PoolSize
  /\ processes \subseteq Calls

\* What is known of the tool of a call where it is suspended.
Known ==
  \A c \in Calls :
    /\ pc[c] \in {"compile", "reading", "fetch", "running"} =>
         request[c] \in registered \cap WasmTools
    /\ pc[c] = "reading" => writer = c /\ request[c] \notin compiled
    /\ pc[c] = "fetch" => request[c] \in compiled
    /\ pc[c] # "panic"

Inv == Typed /\ LockInv /\ Known

LEMMA InitInv == Init => Inv
<1> SUFFICES ASSUME Init
             PROVE  Inv
  OBVIOUS
<1>1. Typed
  <2>1. IsFiniteSet(threads) /\ Cardinality(threads) = 0
    BY FS_EmptySet DEF Init
  <2>2. pc \in [Calls -> Places] /\ request \in [Calls -> Tools \cup {List, None}]
    BY DEF Init, Places
  <2>3. Cardinality(threads) <= PoolSize
    BY <2>1, PoolAssumption
  <2> QED
    BY <2>1, <2>2, <2>3 DEF Init, Typed
<1>2. LockInv
  <2>1. AtRead = {} /\ AtWrite = {}
    BY DEF Init, AtRead, AtWrite, ReadAwaits, WriteAwaits
  <2>2. Lock \in [readers : SUBSET Calls, writer : Calls \cup {None}, queue : Seq(Waiter)]
    BY DEF Init, Lock
  <2>3. Lock.readers = {} /\ Lock.writer = None /\ Lock.queue = <<>>
    BY DEF Init, Lock
  <2> QED
    BY <2>1, <2>2, <2>3 DEF LockInv, Sound, LockType, Holders, Waiters, Present, Awake
<1>3. Known
  BY DEF Init, Known
<1> QED
  BY <1>1, <1>2, <1>3 DEF Inv

-----------------------------------------------------------------------------
(* What a step does to the lock.                                           *)

\* Who has the lock for writing has it still.
WriterKept(c) == \A d \in Calls : d # c /\ writer = d => writer' = d

LEMMA LockedRecord ==
  ASSUME NEW l, LockType(l), Locked(l)
  PROVE  Lock' = l
  BY DEF LockType, Locked, Lock

LEMMA LockFields ==
  /\ Lock.readers = readers /\ Lock.writer = writer /\ Lock.queue = queue
  /\ (Lock.readers)' = readers' /\ (Lock.writer)' = writer' /\ (Lock.queue)' = queue'
  BY DEF Lock

\* The calls at awaits when c goes to place x.
LEMMA Moves ==
  ASSUME Typed, NEW c \in Calls, NEW x \in Places, pc' = [pc EXCEPT ![c] = x]
  PROVE  /\ AtRead' = IF x \in ReadAwaits THEN AtRead \cup {c} ELSE AtRead \ {c}
         /\ AtWrite' = IF x \in WriteAwaits THEN AtWrite \cup {c} ELSE AtWrite \ {c}
         /\ pc' \in [Calls -> Places]
  BY DEF Typed, AtRead, AtWrite

LEMMA Disjoint ==
  ASSUME Typed
  PROVE  AtRead \cap AtWrite = {} /\ ReadAwaits \cap WriteAwaits = {}
  BY DEF AtRead, AtWrite, ReadAwaits, WriteAwaits

\* Only calls at awaits are present.
LEMMA AbsentWhenElsewhere ==
  ASSUME NEW R, NEW W, NEW l, Sound(l, R, W), NEW c, c \notin R \cup W
  PROVE  c \notin Present(l)
  BY DEF Sound, Holders, Waiters, Present

LEMMA ReleasedLock ==
  ASSUME Inv, NEW c \in Calls, NEW x \in Places, pc' = [pc EXCEPT ![c] = x],
         x \notin ReadAwaits \cup WriteAwaits, Locked(Release(Lock, c))
  PROVE  LockInv' /\ WriterKept(c)
<1>1. Sound(Lock, AtRead, AtWrite) /\ LockType(Lock) /\ Typed
  BY DEF Inv, LockInv, Sound
<1>2. Sound(Release(Lock, c), AtRead \ {c}, AtWrite \ {c}) /\ Awake(Release(Lock, c))
  BY <1>1, ReleaseSound
<1>3. Lock' = Release(Lock, c)
  BY <1>2, LockedRecord DEF Sound
<1>4. AtRead' = AtRead \ {c} /\ AtWrite' = AtWrite \ {c}
  BY <1>1, Moves
<1>5. LockInv'
  BY <1>2, <1>3, <1>4 DEF LockInv
<1>6. WriterKept(c)
  BY <1>1, <1>3, WriterStays, LockFields, NamesAssumption DEF WriterKept, LockType
<1> QED
  BY <1>5, <1>6

LEMMA AcquiredLock ==
  ASSUME Inv, NEW c \in Calls, NEW x \in ReadAwaits, pc' = [pc EXCEPT ![c] = x],
         pc[c] = "idle", Locked(Acquire(Lock, c, FALSE))
  PROVE  LockInv' /\ WriterKept(c)
<1>1. Sound(Lock, AtRead, AtWrite) /\ LockType(Lock) /\ Typed
  BY DEF Inv, LockInv, Sound
<1>2. c \notin AtRead \cup AtWrite
  BY DEF AtRead, AtWrite, ReadAwaits, WriteAwaits
<1>3. c \notin Present(Lock)
  BY <1>1, <1>2, AbsentWhenElsewhere
<1>4. Sound(Acquire(Lock, c, FALSE), AtRead \cup {c}, AtWrite) /\ Awake(Acquire(Lock, c, FALSE))
  BY <1>1, <1>3, AcquireSound, Disjoint
<1>5. Lock' = Acquire(Lock, c, FALSE)
  BY <1>4, LockedRecord DEF Sound
<1>6. AtRead' = AtRead \cup {c} /\ AtWrite' = AtWrite
  <2>1. x \in Places /\ x \notin WriteAwaits
    BY <1>1, Disjoint DEF Places
  <2>2. AtRead' = AtRead \cup {c} /\ AtWrite' = AtWrite \ {c}
    BY <1>1, <2>1, Moves
  <2> QED
    BY <1>2, <2>2
<1>7. LockInv'
  BY <1>4, <1>5, <1>6 DEF LockInv
<1>8. WriterKept(c)
  BY <1>1, <1>5, WriterStays, LockFields, NamesAssumption DEF WriterKept, LockType
<1> QED
  BY <1>7, <1>8

LEMMA ReacquiredLock ==
  ASSUME Inv, NEW c \in Calls, NEW write \in BOOLEAN,
         NEW x \in IF write THEN WriteAwaits ELSE ReadAwaits,
         pc' = [pc EXCEPT ![c] = x], Locked(Acquire(Release(Lock, c), c, write))
  PROVE  LockInv' /\ WriterKept(c)
<1> DEFINE l == Release(Lock, c)
<1>1. Sound(Lock, AtRead, AtWrite) /\ LockType(Lock) /\ Typed
  BY DEF Inv, LockInv, Sound
<1>2. Sound(l, AtRead \ {c}, AtWrite \ {c})
  BY <1>1, ReleaseSound
<1>3. \A d \in Calls : d # c /\ writer = d => l.writer = d
  BY <1>1, WriterStays, LockFields, NamesAssumption DEF LockType
<1> HIDE DEF l
<1>4. c \notin Present(l) /\ (AtRead \ {c}) \cap (AtWrite \ {c}) = {}
  BY <1>1, <1>2, AbsentWhenElsewhere, Disjoint
<1>5. /\ Sound(Acquire(l, c, write),
               IF write THEN AtRead \ {c} ELSE (AtRead \ {c}) \cup {c},
               IF write THEN (AtWrite \ {c}) \cup {c} ELSE AtWrite \ {c})
      /\ Awake(Acquire(l, c, write))
  BY <1>2, <1>4, AcquireSound
<1>6. Lock' = Acquire(l, c, write)
  BY <1>5, LockedRecord DEF Sound, l
<1>7. /\ AtRead' = IF write THEN AtRead \ {c} ELSE (AtRead \ {c}) \cup {c}
      /\ AtWrite' = IF write THEN (AtWrite \ {c}) \cup {c} ELSE AtWrite \ {c}
  BY <1>1, Moves, Disjoint DEF Places
<1>8. LockInv'
  BY <1>5, <1>6, <1>7 DEF LockInv
<1>9. WriterKept(c)
  <2> SUFFICES ASSUME NEW d \in Calls, d # c, writer = d
               PROVE  writer' = d
    BY DEF WriterKept
  <2>1. l.writer = d /\ d # None
    BY <1>3, NamesAssumption
  <2>2. LockType(l)
    BY <1>2 DEF Sound
  <2>3. Acquire(l, c, write).writer = l.writer
    BY <2>1, <2>2, WriterStays DEF LockType
  <2> QED
    BY <1>6, <2>1, <2>3 DEF Lock
<1> QED
  BY <1>8, <1>9

\* A step that leaves the lock alone, and each call on its side of it.
LEMMA UntouchedLock ==
  ASSUME Inv, UNCHANGED lockVars, AtRead' = AtRead, AtWrite' = AtWrite
  PROVE  LockInv' /\ \A c \in Calls : WriterKept(c)
<1>1. Lock' = Lock
  BY DEF Lock, lockVars
<1>2. LockInv'
  BY <1>1 DEF Inv, LockInv
<1> QED
  BY <1>2 DEF WriterKept, lockVars

-----------------------------------------------------------------------------
(* The steps.                                                              *)

\* What is known of the other calls stays known when c moves.
LEMMA OthersKnown ==
  ASSUME Inv, NEW c \in Calls, NEW x \in Places \ {"panic"}, pc' = [pc EXCEPT ![c] = x],
         WriterKept(c),
         \A d \in Calls : d # c => request'[d] = request[d],
         registered' = registered, compiled \subseteq compiled',
         \A d \in Calls : d # c /\ pc[d] = "reading" => request[d] \notin compiled' \ compiled,
         x \in {"compile", "reading", "fetch", "running"} =>
           request'[c] \in registered \cap WasmTools,
         x = "reading" => writer' = c /\ request'[c] \notin compiled',
         x = "fetch" => request'[c] \in compiled'
  PROVE  Known'
<1>1. \A d \in Calls : pc'[d] = IF d = c THEN x ELSE pc[d]
  BY DEF Inv, Typed
<1> SUFFICES ASSUME NEW d \in Calls
             PROVE  /\ pc'[d] \in {"compile", "reading", "fetch", "running"} =>
                         request'[d] \in registered' \cap WasmTools
                    /\ pc'[d] = "reading" => writer' = d /\ request'[d] \notin compiled'
                    /\ pc'[d] = "fetch" => request'[d] \in compiled'
                    /\ pc'[d] # "panic"
  BY DEF Known
<1>2. CASE d = c
  BY <1>1, <1>2
<1>3. CASE d # c
  BY <1>1, <1>3 DEF Inv, Known, WriterKept
<1> QED
  BY <1>2, <1>3

\* A call is over.
LEMMA EndsTyped ==
  ASSUME Typed, NEW c \in Calls, Ends(c)
  PROVE  /\ pc' = [pc EXCEPT ![c] = "idle"]
         /\ request' \in [Calls -> Tools \cup {List, None}]
         /\ \A d \in Calls : d # c => request'[d] = request[d]
  BY DEF Ends, Typed

LEMMA FewerThreads ==
  ASSUME Typed, NEW c, threads' = threads \ {c}
  PROVE  threads' \subseteq Calls /\ IsFiniteSet(threads') /\ Cardinality(threads') <= PoolSize
<1>1. IsFiniteSet(threads') /\ Cardinality(threads') <= Cardinality(threads)
  BY FS_Subset DEF Typed
<1>2. Cardinality(threads) \in Nat /\ Cardinality(threads') \in Nat
  BY <1>1, FS_CardinalityType DEF Typed
<1> QED
  BY <1>1, <1>2, PoolAssumption DEF Typed

LEMMA DispatchInv ==
  ASSUME Inv, Dispatch
  PROVE  Inv'
<1>1. /\ Typed /\ jobs # <<>> /\ Cardinality(threads) < PoolSize
      /\ threads' = threads \cup {Head(jobs)} /\ jobs' = Tail(jobs)
      /\ UNCHANGED <<registered, compiled, pc, request, lockVars, processes>>
  BY DEF Inv, Dispatch
<1>2. Head(jobs) \in Calls /\ jobs' \in Seq(Calls)
  BY <1>1 DEF Typed
<1>3. IsFiniteSet(threads') /\ Cardinality(threads') <= PoolSize
  <2>1. /\ IsFiniteSet(threads')
        /\ \/ Cardinality(threads') = Cardinality(threads)
           \/ Cardinality(threads') = Cardinality(threads) + 1
    BY <1>1, FS_AddElement DEF Typed
  <2>2. Cardinality(threads) \in Nat
    BY <1>1, FS_CardinalityType DEF Typed
  <2> QED
    BY <1>1, <2>1, <2>2, PoolAssumption
<1>4. Typed'
  BY <1>1, <1>2, <1>3 DEF Typed
<1>5. LockInv'
  <2>1. AtRead' = AtRead /\ AtWrite' = AtWrite
    BY <1>1 DEF AtRead, AtWrite
  <2> QED
    BY <1>1, <2>1, UntouchedLock
<1>6. Known'
  BY <1>1 DEF Inv, Known, lockVars
<1> QED
  BY <1>4, <1>5, <1>6 DEF Inv

\* A job that nobody waits for, or a process, is over, and no call with it.
LEMMA LeftoverInv ==
  ASSUME Inv, NEW c,
         \/ threads' = threads \ {c} /\ UNCHANGED processes
         \/ processes' = processes \ {c} /\ UNCHANGED threads,
         UNCHANGED <<registered, compiled, pc, request, lockVars, jobs>>
  PROVE  Inv'
<1>1. Typed'
  <2>1. /\ threads' \subseteq Calls /\ IsFiniteSet(threads')
        /\ Cardinality(threads') <= PoolSize
    BY FewerThreads DEF Inv, Typed
  <2> QED
    BY <2>1 DEF Inv, Typed
<1>2. LockInv'
  <2>1. AtRead' = AtRead /\ AtWrite' = AtWrite
    BY DEF AtRead, AtWrite
  <2> QED
    BY <2>1, UntouchedLock
<1>3. Known'
  BY DEF Inv, Known, lockVars
<1> QED
  BY <1>1, <1>2, <1>3 DEF Inv

LEMMA BeginInv ==
  ASSUME Inv, NEW c \in Calls, NEW name \in Tools \cup {List}, Begin(c, name)
  PROVE  Inv'
<1> DEFINE x == IF name = List THEN "list" ELSE "lookup"
<1>1. /\ Typed /\ pc[c] = "idle" /\ pc' = [pc EXCEPT ![c] = x]
      /\ request' = [request EXCEPT ![c] = name]
      /\ Locked(Acquire(Lock, c, FALSE))
      /\ UNCHANGED <<registered, compiled, runVars>>
  BY DEF Begin, Inv
<1>2. x \in ReadAwaits /\ x \in {"list", "lookup"}
  BY DEF ReadAwaits
<1> HIDE DEF x
<1>3. LockInv' /\ WriterKept(c)
  BY <1>1, <1>2, AcquiredLock
<1>4. x \in Places \ {"panic"}
  BY <1>2 DEF Places, ReadAwaits
<1>5. Typed'
  BY <1>1, <1>4 DEF Typed, runVars
<1>6. Known'
  <2>1. \A d \in Calls : d # c => request'[d] = request[d]
    BY <1>1 DEF Typed
  <2> QED
    BY <1>1, <1>2, <1>3, <1>4, <2>1, OthersKnown
<1> QED
  BY <1>3, <1>5, <1>6 DEF Inv

\* A call is over and gives up what it has of the lock; its job may be over too.
LEMMA EndsInv ==
  ASSUME Inv, NEW c \in Calls, Ends(c), Locked(Release(Lock, c)),
         threads' = threads \/ threads' = threads \ {c},
         UNCHANGED <<registered, compiled, jobs, processes>>
  PROVE  Inv'
<1>1. /\ Typed /\ pc' = [pc EXCEPT ![c] = "idle"]
      /\ request' \in [Calls -> Tools \cup {List, None}]
      /\ \A d \in Calls : d # c => request'[d] = request[d]
  BY EndsTyped DEF Inv
<1>2. "idle" \in Places \ {"panic"} /\ "idle" \notin ReadAwaits \cup WriteAwaits
  BY DEF Places, ReadAwaits, WriteAwaits
<1>3. LockInv' /\ WriterKept(c)
  BY <1>1, <1>2, ReleasedLock
<1>4. Typed'
  <2>1. /\ threads' \subseteq Calls /\ IsFiniteSet(threads')
        /\ Cardinality(threads') <= PoolSize
    BY <1>1, FewerThreads DEF Typed
  <2> QED
    BY <1>1, <1>2, <2>1 DEF Typed
<1>5. Known'
  BY <1>1, <1>2, <1>3, OthersKnown
<1> QED
  BY <1>3, <1>4, <1>5 DEF Inv

\* A call is over that has nothing of the lock.
LEMMA EndsOutsideInv ==
  ASSUME Inv, NEW c \in Calls, Ends(c), pc[c] \in {"running", "native"},
         UNCHANGED <<registered, compiled, lockVars, jobs>>,
         threads' = threads \/ threads' = threads \ {c},
         processes' \subseteq processes
  PROVE  Inv'
<1>1. /\ Typed /\ pc' = [pc EXCEPT ![c] = "idle"]
      /\ request' \in [Calls -> Tools \cup {List, None}]
      /\ \A d \in Calls : d # c => request'[d] = request[d]
  BY EndsTyped DEF Inv
<1>2. "idle" \in Places \ {"panic"} /\ "idle" \notin ReadAwaits \cup WriteAwaits
  BY DEF Places, ReadAwaits, WriteAwaits
<1>3. LockInv' /\ WriterKept(c)
  <2>1. c \notin AtRead /\ c \notin AtWrite
    BY DEF AtRead, AtWrite, ReadAwaits, WriteAwaits
  <2>2. AtRead' = AtRead \ {c} /\ AtWrite' = AtWrite \ {c}
    BY <1>1, <1>2, Moves
  <2> QED
    BY <2>1, <2>2, UntouchedLock
<1>4. Typed'
  <2>1. /\ threads' \subseteq Calls /\ IsFiniteSet(threads')
        /\ Cardinality(threads') <= PoolSize
    BY <1>1, FewerThreads DEF Typed
  <2> QED
    BY <1>1, <1>2, <2>1 DEF Typed
<1>5. Known'
  BY <1>1, <1>2, <1>3, OthersKnown
<1> QED
  BY <1>3, <1>4, <1>5 DEF Inv

LEMMA RunsNativeInv ==
  ASSUME Inv, NEW c \in Calls, RunsNative(c)
  PROVE  Inv'
<1>1. /\ Typed /\ pc' = [pc EXCEPT ![c] = "native"] /\ processes' = processes \cup {c}
      /\ Locked(Release(Lock, c))
      /\ UNCHANGED <<registered, compiled, request, jobs, threads>>
  BY DEF RunsNative, Inv
<1>2. "native" \in Places \ {"panic"} /\ "native" \notin ReadAwaits \cup WriteAwaits
  BY DEF Places, ReadAwaits, WriteAwaits
<1>3. LockInv' /\ WriterKept(c)
  BY <1>1, <1>2, ReleasedLock
<1>4. Typed'
  BY <1>1, <1>2 DEF Typed
<1>5. Known'
  BY <1>1, <1>2, <1>3, OthersKnown
<1> QED
  BY <1>3, <1>4, <1>5 DEF Inv

LEMMA WantsModuleInv ==
  ASSUME Inv, NEW c \in Calls, WantsModule(c)
  PROVE  Inv'
<1>1. /\ Typed /\ pc' = [pc EXCEPT ![c] = "compile"]
      /\ request[c] \in registered \cap WasmTools
      /\ Locked(Acquire(Release(Lock, c), c, TRUE))
      /\ UNCHANGED <<registered, compiled, request, runVars>>
  BY DEF WantsModule, Inv
<1>2. "compile" \in Places \ {"panic"} /\ "compile" \in WriteAwaits
  BY DEF Places, WriteAwaits
<1>3. LockInv' /\ WriterKept(c)
  BY <1>1, <1>2, ReacquiredLock
<1>4. Typed'
  BY <1>1, <1>2 DEF Typed, runVars
<1>5. Known'
  BY <1>1, <1>2, <1>3, OthersKnown
<1> QED
  BY <1>3, <1>4, <1>5 DEF Inv

LEMMA ReadsFileInv ==
  ASSUME Inv, NEW c \in Calls, ReadsFile(c)
  PROVE  Inv'
<1>1. /\ Typed /\ pc[c] = "compile" /\ pc' = [pc EXCEPT ![c] = "reading"]
      /\ writer = c /\ request[c] \notin compiled
      /\ jobs' = Append(jobs, c)
      /\ UNCHANGED <<registered, compiled, request, lockVars, threads, processes>>
  BY DEF ReadsFile, Inv
<1>2. /\ "reading" \in Places \ {"panic"}
      /\ "reading" \in WriteAwaits /\ "reading" \notin ReadAwaits
      /\ "compile" \in WriteAwaits /\ "compile" \notin ReadAwaits
  BY DEF Places, ReadAwaits, WriteAwaits
<1>3. LockInv' /\ WriterKept(c) /\ writer' = c
  <2>1. c \notin AtRead /\ c \in AtWrite
    BY <1>1, <1>2 DEF AtRead, AtWrite
  <2>2. AtRead' = AtRead \ {c} /\ AtWrite' = AtWrite \cup {c}
    BY <1>1, <1>2, Moves
  <2> QED
    BY <1>1, <2>1, <2>2, UntouchedLock DEF lockVars
<1>4. Typed'
  BY <1>1, <1>2 DEF Typed
<1>5. Known'
  <2>1. request[c] \in registered \cap WasmTools
    BY <1>1 DEF Inv, Known
  <2> QED
    BY <1>1, <1>2, <1>3, <2>1, OthersKnown
<1> QED
  BY <1>3, <1>4, <1>5 DEF Inv

\* The module is there, and the lock is asked for again, for reading; only the holder
\* of the lock for writing may add one.
LEMMA DowngradesInv ==
  ASSUME Inv, NEW c \in Calls, pc[c] \in {"compile", "reading"}, writer = c, Downgrades(c),
         compiled' = compiled \cup {request[c]},
         threads' = threads \/ threads' = threads \ {c},
         UNCHANGED <<registered, request, jobs, processes>>
  PROVE  Inv'
<1>1. /\ Typed /\ pc' = [pc EXCEPT ![c] = "fetch"]
      /\ Locked(Acquire(Release(Lock, c), c, FALSE))
      /\ request[c] \in registered \cap WasmTools
  BY DEF Downgrades, Inv, Known
<1>2. "fetch" \in Places \ {"panic"} /\ "fetch" \in ReadAwaits
  BY DEF Places, ReadAwaits
<1>3. LockInv' /\ WriterKept(c)
  BY <1>1, <1>2, ReacquiredLock
<1>4. Typed'
  <2>1. /\ threads' \subseteq Calls /\ IsFiniteSet(threads')
        /\ Cardinality(threads') <= PoolSize
    BY <1>1, FewerThreads DEF Typed
  <2> QED
    BY <1>1, <1>2, <2>1 DEF Typed
<1>5. Known'
  <2>1. \A d \in Calls : pc[d] = "reading" => d = c
    BY DEF Inv, Known
  <2> QED
    BY <1>1, <1>2, <1>3, <2>1, OthersKnown
<1> QED
  BY <1>3, <1>4, <1>5 DEF Inv

LEMMA FetchesInv ==
  ASSUME Inv, NEW c \in Calls, Fetches(c)
  PROVE  Inv'
<1>1. pc[c] = "fetch" /\ request[c] \in compiled
  BY DEF Fetches, Inv, Known
<1>2. /\ Typed /\ pc' = [pc EXCEPT ![c] = "running"] /\ jobs' = Append(jobs, c)
      /\ Locked(Release(Lock, c))
      /\ UNCHANGED <<registered, compiled, request, threads, processes>>
  BY <1>1 DEF Fetches, Inv
<1>3. "running" \in Places \ {"panic"} /\ "running" \notin ReadAwaits \cup WriteAwaits
  BY DEF Places, ReadAwaits, WriteAwaits
<1>4. LockInv' /\ WriterKept(c)
  BY <1>2, <1>3, ReleasedLock
<1>5. Typed'
  BY <1>2, <1>3 DEF Typed
<1>6. Known'
  <2>1. request[c] \in registered \cap WasmTools
    BY <1>1 DEF Inv, Known
  <2> QED
    BY <1>2, <1>3, <1>4, <2>1, OthersKnown
<1> QED
  BY <1>4, <1>5, <1>6 DEF Inv

\* Every step keeps the invariant.
LEMMA NextInv == Inv /\ [Next]_vars => Inv'
<1> SUFFICES ASSUME Inv, [Next]_vars
             PROVE  Inv'
  OBVIOUS
<1>1. ASSUME NEW c \in Calls, ListSchemas(c) \/ Refuses(c)
      PROVE  Inv'
  BY <1>1, EndsInv DEF ListSchemas, Refuses, runVars
<1>2. ASSUME NEW c \in Calls, CompileFails(c)
      PROVE  Inv'
  BY <1>2, EndsInv DEF CompileFails
<1>3. ASSUME NEW c \in Calls, Dropped(c)
      PROVE  Inv'
  BY <1>3, EndsInv DEF Dropped, runVars
<1>4. ASSUME NEW c \in Calls, GuestReturns(c)
      PROVE  Inv'
  BY <1>4, EndsOutsideInv DEF GuestReturns
<1>5. ASSUME NEW c \in Calls, TimesOut(c)
      PROVE  Inv'
  BY <1>5, EndsOutsideInv DEF TimesOut, runVars
<1>6. ASSUME NEW c \in Calls, ProcessExits(c)
      PROVE  Inv'
  <2>1. CASE pc[c] = "native"
    BY <1>6, <2>1, EndsOutsideInv DEF ProcessExits
  <2>2. CASE pc[c] # "native"
    BY <1>6, <2>2, LeftoverInv DEF ProcessExits
  <2> QED
    BY <2>1, <2>2
<1>7. ASSUME NEW c \in Calls, OrphanEnds(c)
      PROVE  Inv'
  BY <1>7, LeftoverInv DEF OrphanEnds
<1>8. ASSUME NEW c \in Calls, Cached(c)
      PROVE  Inv'
  <2>1. compiled = compiled \cup {request[c]}
    BY <1>8 DEF Cached
  <2> QED
    BY <1>8, <2>1, DowngradesInv DEF Cached, runVars
<1>9. ASSUME NEW c \in Calls, Compiles(c)
      PROVE  Inv'
  <2>1. writer = c
    BY <1>9 DEF Compiles, Inv, Known
  <2> QED
    BY <1>9, <2>1, DowngradesInv DEF Compiles
<1>10. CASE UNCHANGED vars
  <2>1. AtRead' = AtRead /\ AtWrite' = AtWrite
    BY <1>10 DEF vars, AtRead, AtWrite
  <2>2. LockInv'
    BY <1>10, <2>1, UntouchedLock DEF vars
  <2> QED
    BY <1>10, <2>2 DEF vars, lockVars, runVars, Inv, Typed, Known
<1> QED
  BY <1>1, <1>2, <1>3, <1>4, <1>5, <1>6, <1>7, <1>8, <1>9, <1>10,
     DispatchInv, BeginInv, RunsNativeInv, WantsModuleInv, ReadsFileInv, FetchesInv
     DEF Next, Step

LEMMA Invariance == Spec => []Inv
<1> QED
  BY InitInv, NextInv, PTL DEF Spec

-----------------------------------------------------------------------------
(* Theorems.                                                               *)

\* Reads, compilations and runs stay well typed, and no more jobs run than there are
\* threads.
THEOREM TypeCorrect == Spec => []TypeOK
<1>1. Inv => TypeOK
  <2> SUFFICES ASSUME Inv
               PROVE  TypeOK
    OBVIOUS
  <2>1. readers \subseteq Calls /\ writer \in Calls \cup {None} /\ queue \in Seq(Waiter)
    BY LockFields DEF Inv, LockInv, Sound, LockType
  <2> QED
    BY <2>1 DEF Inv, Typed, TypeOK, Places, Waiter
<1> QED
  BY <1>1, Invariance, PTL

\* The lock of the registry is sound however calls are dropped: permits and places in
\* the queue belong to calls at an await for them, and no permit is idle.
THEOREM LockAlwaysSound == Spec => []LockSound
<1>1. Inv => LockSound
  <2> SUFFICES ASSUME Inv
               PROVE  LockSound
    OBVIOUS
  <2> DEFINE waiting == [i \in 1..Len(queue) |-> queue[i].call]
  <2>1. /\ readers \subseteq AtRead
        /\ writer # None => writer \in AtWrite /\ readers = {}
    BY LockFields DEF Inv, LockInv, Sound, Holders
  <2>2. \A i \in 1..Len(queue) :
          /\ queue[i].call \in AtRead \cup AtWrite
          /\ queue[i].call \notin readers \cup {writer}
    BY LockFields DEF Inv, LockInv, Sound, Waiters
  <2>3. \A i, j \in 1..Len(queue) : queue[i].call = queue[j].call => i = j
    BY LockFields DEF Inv, LockInv, Sound, Waiters
  <2>4. AtRead \cup AtWrite \subseteq
          readers \cup ({writer} \ {None}) \cup {queue[i].call : i \in 1..Len(queue)}
    BY LockFields DEF Inv, LockInv, Sound, Present
  <2>5. queue # <<>> => writer # None \/ (queue[1].write /\ readers # {})
    BY LockFields DEF Inv, LockInv, Awake
  <2>6. ToSet(waiting) = {queue[i].call : i \in 1..Len(queue)}
    BY DEF ToSet
  <2>7. queue \in Seq(Waiter)
    BY LockFields DEF Inv, LockInv, Sound, LockType
  <2>8. Len(waiting) = Len(queue)
    BY <2>7
  <2>9. \A i \in 1..Len(queue) : waiting[i] = queue[i].call
    OBVIOUS
  <2> HIDE DEF waiting
  <2>10. \A c \in Calls :
           /\ c \in readers => pc[c] \in ReadAwaits
           /\ c = writer => pc[c] \in WriteAwaits
           /\ pc[c] \in ReadAwaits \cup WriteAwaits <=> Holds(c) \/ c \in ToSet(waiting)
           /\ c \in ToSet(waiting) => ~Holds(c)
    BY <2>1, <2>2, <2>4, <2>6, NamesAssumption DEF AtRead, AtWrite, Holds
  <2>11. \A i, j \in 1..Len(waiting) : i # j => waiting[i] # waiting[j]
    BY <2>3, <2>8, <2>9
  <2> QED
    BY <2>1, <2>5, <2>10, <2>11 DEF LockSound, waiting
<1> QED
  BY <1>1, Invariance, PTL

\* unwrap() in execute never panics: a module that was there under the write lock is
\* there under the read lock.
THEOREM ModuleIsAlwaysThere == Spec => []ModuleIsThere
<1>1. Inv => ModuleIsThere
  BY DEF Inv, Known, ModuleIsThere
<1> QED
  BY <1>1, Invariance, PTL

\* A Wasm tool that is registered is compiled by one call at a time, and only until it
\* has a module.
THEOREM AlwaysCompiledOnce == Spec => []CompiledOnce
<1>1. Inv => CompiledOnce
  BY DEF Inv, Known, CompiledOnce
<1> QED
  BY <1>1, Invariance, PTL
-----------------------------------------------------------------------------
(* Freedom from deadlock.                                                  *)

\* The jobs that wait for a thread, and those in the pool.
Waiting == {jobs[i] : i \in 1..Len(jobs)}
Pooled == threads \cup Waiting

\* A job in the pool reads a file for the holder of the write lock, runs a module
\* for a call without any lock, or is left over: it never waits for the lock.  A call
\* that waits for its job has one, and one only.
JobsWanted ==
  /\ \A c \in Pooled : pc[c] \in {"reading", "running", "idle"}
  /\ \A c \in Calls : pc[c] \in {"reading", "running"} => c \in Pooled
  /\ Waiting \cap threads = {}
  /\ \A i, j \in 1..Len(jobs) : jobs[i] = jobs[j] => i = j

\* Something of the call c can go on now: it has the permits it asked for, its job has
\* a thread, or there is a timer that will end it (the guards of Step and TimesOut).
CanGoOn(c) ==
  \/ pc[c] \in ReadAwaits /\ c \in readers
  \/ pc[c] = "compile" /\ writer = c
  \/ pc[c] \in {"reading", "idle"} /\ c \in threads
  \/ pc[c] \in {"running", "native"}

\* While a call is under way there is always one that can go on, or a job that can be
\* given a thread: a compilation holds the lock while it waits for a thread of the pool
\* (ensure_compiled, mod.rs), and still the lock and the pool never wait for each
\* other, with one thread or many, whoever was dropped or timed out and whatever jobs
\* that left behind.
NeverStuck ==
  (\E c \in Calls : pc[c] # "idle") =>
    \/ \E c \in Calls : CanGoOn(c)
    \/ jobs # <<>> /\ Cardinality(threads) < PoolSize

\* The places p are those of a step that leaves the pool alone.
UntouchedBy(p) ==
  \A c \in Calls :
    \/ p[c] \in {pc[c], "idle"}
    \/ c \notin Pooled /\ p[c] \notin {"reading", "running"}

LEMMA PoolUntouched ==
  ASSUME JobsWanted, UNCHANGED <<jobs, threads>>,
         UntouchedBy(pc'), Typed
  PROVE  JobsWanted'
<1>1. Pooled' = Pooled /\ Waiting' = Waiting
  BY DEF Pooled, Waiting
<1>2. Pooled \subseteq Calls
  BY DEF Pooled, Waiting, Typed
<1> QED
  BY <1>1, <1>2 DEF JobsWanted, UntouchedBy

\* A call gives a job to the pool and waits for it.
LEMMA JobGiven ==
  ASSUME Typed, JobsWanted, NEW c \in Calls, c \notin Pooled,
         jobs' = Append(jobs, c), UNCHANGED threads,
         NEW x \in {"reading", "running"}, pc' = [pc EXCEPT ![c] = x]
  PROVE  JobsWanted'
<1>1. /\ Len(jobs') = Len(jobs) + 1 /\ Len(jobs) \in Nat
      /\ \A i \in 1..Len(jobs) : jobs'[i] = jobs[i]
      /\ jobs'[Len(jobs) + 1] = c
  BY DEF Typed
<1>2. Waiting' = Waiting \cup {c}
  BY <1>1 DEF Waiting
<1>3. Pooled' = Pooled \cup {c}
  BY <1>2 DEF Pooled
<1>4. \A d \in Calls : pc'[d] = IF d = c THEN x ELSE pc[d]
  BY DEF Typed
<1>5. Pooled \subseteq Calls
  BY DEF Pooled, Waiting, Typed
<1>6. \A i, j \in 1..Len(jobs') : jobs'[i] = jobs'[j] => i = j
  <2>1. \A i \in 1..Len(jobs) : jobs[i] # c
    BY DEF Pooled, Waiting
  <2> QED
    BY <1>1, <2>1 DEF JobsWanted
<1>7. Waiting' \cap threads' = {}
  BY <1>2 DEF JobsWanted, Pooled
<1>8. \A d \in Pooled' : pc'[d] \in {"reading", "running", "idle"}
  BY <1>3, <1>4, <1>5 DEF JobsWanted
<1>9. \A d \in Calls : pc'[d] \in {"reading", "running"} => d \in Pooled'
  BY <1>3, <1>4 DEF JobsWanted
<1> QED
  BY <1>6, <1>7, <1>8, <1>9 DEF JobsWanted

\* A job is over, and nobody waits for it.
LEMMA JobOver ==
  ASSUME Typed, JobsWanted, NEW c \in Calls, c \in threads,
         threads' = threads \ {c}, UNCHANGED jobs,
         NEW x, x \notin {"reading", "running"}, pc' = [pc EXCEPT ![c] = x]
  PROVE  JobsWanted'
<1>1. Waiting' = Waiting /\ Pooled' = Pooled \ {c}
  BY DEF Waiting, Pooled, JobsWanted
<1>2. \A d \in Calls : pc'[d] = IF d = c THEN x ELSE pc[d]
  BY DEF Typed
<1>3. Pooled \subseteq Calls
  BY DEF Pooled, Waiting, Typed
<1> QED
  BY <1>1, <1>2, <1>3 DEF JobsWanted

\* A job gets a thread.
LEMMA JobDispatched ==
  ASSUME Typed, JobsWanted, Dispatch
  PROVE  JobsWanted'
<1>1. /\ jobs \in Seq(Calls) /\ jobs # <<>> /\ jobs' = Tail(jobs)
      /\ threads' = threads \cup {Head(jobs)} /\ UNCHANGED pc
  BY DEF Typed, Dispatch
<1>2. /\ Len(jobs) \in Nat \ {0} /\ Len(jobs') = Len(jobs) - 1 /\ Head(jobs) = jobs[1]
      /\ \A i \in 1..Len(jobs') : jobs'[i] = jobs[i + 1] /\ i + 1 \in 1..Len(jobs)
  BY <1>1
<1>3. \A i \in 1..Len(jobs) : i = 1 \/ (i - 1 \in 1..Len(jobs') /\ jobs'[i - 1] = jobs[i])
  BY <1>1, <1>2
<1>4. Waiting = Waiting' \cup {Head(jobs)}
  BY <1>2, <1>3 DEF Waiting
<1>5. Pooled' = Pooled
  BY <1>1, <1>4 DEF Pooled
<1>6. \A i, j \in 1..Len(jobs') : jobs'[i] = jobs'[j] => i = j
  BY <1>2 DEF JobsWanted
<1>7. Head(jobs) \notin Waiting'
  BY <1>2 DEF JobsWanted, Waiting
<1>8. Waiting' \cap threads' = {}
  BY <1>1, <1>4, <1>7 DEF JobsWanted
<1> QED
  BY <1>1, <1>5, <1>6, <1>8 DEF JobsWanted

LEMMA InitJobs == Init => JobsWanted
  BY DEF Init, JobsWanted, Pooled, Waiting

\* Every step keeps the accounts of the pool.
LEMMA NextJobs == Inv /\ JobsWanted /\ [Next]_vars => JobsWanted'
<1> SUFFICES ASSUME Inv, JobsWanted, [Next]_vars
             PROVE  JobsWanted'
  OBVIOUS
<1>0. Typed
  BY DEF Inv
<1>a. ASSUME NEW c \in Calls, UNCHANGED <<jobs, threads>>,
             NEW x \in Places, pc' = [pc EXCEPT ![c] = x],
             x = "idle" \/ (c \notin Pooled /\ x \notin {"reading", "running"})
      PROVE  JobsWanted'
  <2>1. \A d \in Calls : pc'[d] = IF d = c THEN x ELSE pc[d]
    BY <1>0, <1>a DEF Typed
  <2>2. UntouchedBy(pc')
    BY <1>a, <2>1 DEF UntouchedBy
  <2> QED
    BY <1>0, <1>a, <2>2, PoolUntouched
<1>b. ASSUME NEW c \in Calls, pc[c] \notin {"reading", "running", "idle"}
      PROVE  c \notin Pooled
  BY <1>b DEF JobsWanted
<1>1. ASSUME NEW c \in Calls, NEW name \in Tools \cup {List}, Begin(c, name)
      PROVE  JobsWanted'
  <2>1. c \notin Pooled
    BY <1>0, <1>1 DEF Begin, Busy, ToSet, Pooled, Waiting, Typed
  <2>2. PICK x \in {"list", "lookup"} : pc' = [pc EXCEPT ![c] = x]
    BY <1>1 DEF Begin
  <2>3. x \in Places
    BY <2>2 DEF Places, ReadAwaits
  <2>4. UNCHANGED <<jobs, threads>>
    BY <1>1 DEF Begin, runVars
  <2> QED
    BY <1>a, <2>1, <2>2, <2>3, <2>4
<1>2. ASSUME NEW c \in Calls,
             ListSchemas(c) \/ Refuses(c) \/ TimesOut(c) \/ Dropped(c) \/ ProcessExits(c)
      PROVE  JobsWanted'
  <2>1. UNCHANGED <<jobs, threads>>
    BY <1>2 DEF ListSchemas, Refuses, TimesOut, Dropped, ProcessExits, runVars
  <2>2. Ends(c) \/ UNCHANGED pc
    BY <1>2 DEF ListSchemas, Refuses, TimesOut, Dropped, ProcessExits
  <2>3. CASE Ends(c)
    <3>1. "idle" \in Places
      BY DEF Places
    <3> QED
      BY <1>a, <2>1, <2>3, <3>1 DEF Ends
  <2>4. CASE UNCHANGED pc
    <3>1. UntouchedBy(pc')
      BY <2>4 DEF UntouchedBy
    <3> QED
      BY <1>0, <2>1, <3>1, PoolUntouched
  <2> QED
    BY <2>2, <2>3, <2>4
<1>3. ASSUME NEW c \in Calls, RunsNative(c) \/ WantsModule(c) \/ Cached(c)
      PROVE  JobsWanted'
  <2>1. PICK x \in {"native", "compile", "fetch"} : pc' = [pc EXCEPT ![c] = x]
    BY <1>3 DEF RunsNative, WantsModule, Cached, Downgrades
  <2>2. UNCHANGED <<jobs, threads>> /\ pc[c] \in {"lookup", "compile"}
    BY <1>3 DEF RunsNative, WantsModule, Cached, runVars
  <2>3. x \in Places
    BY <2>1 DEF Places, ReadAwaits, WriteAwaits
  <2> QED
    BY <1>a, <1>b, <2>1, <2>2, <2>3
<1>4. ASSUME NEW c \in Calls, ReadsFile(c)
      PROVE  JobsWanted'
  BY <1>0, <1>4, <1>b, JobGiven DEF ReadsFile
<1>5. ASSUME NEW c \in Calls, Fetches(c)
      PROVE  JobsWanted'
  <2>1. request[c] \in compiled /\ c \notin Pooled
    BY <1>5, <1>b DEF Fetches, Inv, Known
  <2> QED
    BY <1>0, <1>5, <2>1, JobGiven DEF Fetches
<1>6. ASSUME NEW c \in Calls, Compiles(c) \/ CompileFails(c) \/ GuestReturns(c) \/ OrphanEnds(c)
      PROVE  JobsWanted'
  <2>1. c \in threads /\ threads' = threads \ {c} /\ UNCHANGED jobs
    BY <1>6 DEF Compiles, CompileFails, GuestReturns, OrphanEnds
  <2>2. PICK x \in {"fetch", "idle"} : pc' = [pc EXCEPT ![c] = x]
    <3>1. CASE OrphanEnds(c)
      <4>1. pc' = [pc EXCEPT ![c] = "idle"]
        BY <1>0, <3>1 DEF OrphanEnds, Typed
      <4> QED
        BY <4>1
    <3>2. CASE Compiles(c) \/ CompileFails(c) \/ GuestReturns(c)
      BY <3>2 DEF Compiles, CompileFails, GuestReturns, Downgrades, Ends
    <3> QED
      BY <1>6, <3>1, <3>2
  <2> QED
    BY <1>0, <2>1, <2>2, JobOver
<1>7. CASE Dispatch
  BY <1>0, <1>7, JobDispatched
<1>8. CASE UNCHANGED vars
  <2>1. UntouchedBy(pc')
    BY <1>8 DEF vars, UntouchedBy
  <2>2. UNCHANGED <<jobs, threads>>
    BY <1>8 DEF vars, runVars
  <2> QED
    BY <1>0, <2>1, <2>2, PoolUntouched
<1> QED
  BY <1>1, <1>2, <1>3, <1>4, <1>5, <1>6, <1>7, <1>8 DEF Next, Step

\* The registry never deadlocks: some call or some job can always go on.
THEOREM RegistryNeverStuck == Spec => []NeverStuck
<1>1. Inv /\ JobsWanted /\ LockSound => NeverStuck
  <2> SUFFICES ASSUME Inv, JobsWanted, LockSound, NEW c \in Calls, pc[c] # "idle",
                      ~(jobs # <<>> /\ Cardinality(threads) < PoolSize)
               PROVE  \E d \in Calls : CanGoOn(d)
    BY DEF NeverStuck
  <2>0. Typed
    BY DEF Inv
  \* A job with a thread goes on, and a job without one waits for such a job.
  <2>1. ASSUME NEW d \in Pooled PROVE \E e \in Calls : CanGoOn(e)
    <3>1. PICK e \in Calls : e \in threads
      <4>1. CASE d \in threads
        BY <2>0, <4>1 DEF Typed
      <4>2. CASE d \notin threads
        <5>1. jobs # <<>>
          BY <2>0, <2>1, <4>2 DEF Pooled, Waiting, Typed
        <5>2. ~(Cardinality(threads) < PoolSize)
          BY <5>1
        <5>3. threads = {} => Cardinality(threads) = 0
          BY FS_EmptySet
        <5>4. threads # {}
          BY <5>2, <5>3, PoolAssumption
        <5> QED
          BY <2>0, <5>4 DEF Typed
      <4> QED
        BY <4>1, <4>2
    <3>2. pc[e] \in {"reading", "running", "idle"}
      BY <3>1 DEF JobsWanted, Pooled
    <3> QED
      BY <3>1, <3>2 DEF CanGoOn
  \* Who has permits goes on, or has a job.
  <2>2. ASSUME NEW d \in Calls, Holds(d) PROVE \E e \in Calls : CanGoOn(e)
    <3>1. CASE d \in readers
      BY <3>1 DEF LockSound, CanGoOn
    <3>2. CASE d = writer
      <4>1. pc[d] = "compile" \/ pc[d] = "reading"
        BY <3>2 DEF LockSound, WriteAwaits
      <4> QED
        BY <2>1, <3>2, <4>1 DEF JobsWanted, CanGoOn
    <3> QED
      BY <2>2, <3>1, <3>2 DEF Holds
  <2>3. CASE pc[c] \in {"running", "native"}
    BY <2>3 DEF CanGoOn
  <2>4. CASE pc[c] \in ReadAwaits \cup WriteAwaits
    <3>1. CASE Holds(c)
      BY <2>2, <3>1
    <3>2. CASE ~Holds(c)
      <4>1. queue # <<>>
        BY <2>4, <3>2 DEF LockSound, ToSet
      <4>2. writer # None \/ readers # {}
        BY <4>1 DEF LockSound
      <4>3. readers \subseteq Calls /\ writer \in Calls \cup {None}
        BY LockFields DEF Inv, LockInv, Sound, LockType
      <4>4. PICK d \in Calls : Holds(d)
        BY <4>2, <4>3 DEF Holds
      <4> QED
        BY <2>2, <4>4
    <3> QED
      BY <3>1, <3>2
  <2>5. pc[c] \in {"running", "native"} \cup ReadAwaits \cup WriteAwaits
    BY <2>0 DEF Typed, Places, Inv, Known
  <2> QED
    BY <2>3, <2>4, <2>5
<1>2. Spec => []JobsWanted
  BY InitJobs, NextJobs, Invariance, PTL DEF Spec
<1> QED
  BY <1>1, <1>2, Invariance, LockAlwaysSound, PTL
=============================================================================
