--------------------------- MODULE NativeTool_proofs ---------------------------
(***************************************************************************)
(* Theorems about the call of a native tool, for any definitions, sizes of *)
(* pipes, inputs and outputs, and limit of the answer.                     *)
(***************************************************************************)
EXTENDS NativeTool, FiniteSetTheorems, FunctionTheorems, TLAPS

\* The types on which the theorems rest.
Typed ==
  /\ def \in Definitions
  /\ args \in [1..Len(def) -> Values \cup {Absent}]
  /\ pc \in {"start", "writing", "waiting", "ok"} \cup Failures
  /\ child \in {"none", "choose", "read", "exited"} \cup Outputs
  /\ left \in [Outputs -> 0..MaxWritten]
  /\ pipe \in [Pipes -> Nat]
  /\ got \in [Outputs -> Nat]
  /\ output \in [Outputs -> Nat]

\* What the process writes is in the pipe or read, and it stops when it has written
\* all.
Conserved ==
  \A o \in Outputs :
    /\ got[o] + pipe[o] + left[o] <= MaxWritten
    /\ child = o => left[o] > 0

\* There is no process before spawn, and nothing in its pipes.
NoneAtStart ==
  pc = "start" =>
    /\ child = "none"
    /\ \A o \in Outputs : got[o] = 0 /\ pipe[o] = 0

Inv == Typed /\ Conserved /\ NoneAtStart /\ ArgumentsChecked /\ OutputBounded

LEMMA InitInv == Init => Inv
<1> SUFFICES ASSUME Init
             PROVE  Inv
  OBVIOUS
<1>1. Typed
  BY SizesAssumption DEF Init, Typed, Outputs, Pipes
<1>2. Conserved
  BY SizesAssumption DEF Init, Conserved, Outputs, Pipes
<1>3. NoneAtStart /\ ArgumentsChecked /\ OutputBounded
  BY DEF Init, NoneAtStart, ArgumentsChecked, Started, OutputBounded, Outputs, Pipes
<1> QED
  BY <1>1, <1>2, <1>3 DEF Inv

\* The arguments of a definition.
ArgDefs ==
  [ty : STRING, required : BOOLEAN, default : Values \cup {Absent},
   positional : BOOLEAN, is_stdin : BOOLEAN]

LEMMA ArgsOf ==
  ASSUME Typed
  PROVE  \A i \in 1..Len(def) : def[i] \in ArgDefs
<1>1. Definitions \subseteq Seq(ArgDefs)
  BY DefinitionsAssumption DEF ArgDefs
<1>2. def \in Seq(ArgDefs)
  BY <1>1 DEF Typed
<1> QED
  BY <1>2

\* validate_args accepts no argument of a wrong type and misses none that is required.
LEMMA ValidatedArgs ==
  ASSUME Typed, Valid(def, args), NEW i \in 1..Len(def), NEW v, v = Normalised(def, args)[i]
  PROVE  /\ v \in Values \cup {Absent}
         /\ v = Absent => ~def[i].required /\ def[i].default = Absent
         /\ v # Absent => HasType(v, def[i].ty) \/ v = def[i].default
<1>1. v = IF args[i] = Absent THEN def[i].default ELSE args[i]
  BY DEF Normalised
<1>2. IF args[i] = Absent THEN ~def[i].required ELSE HasType(args[i], def[i].ty)
  BY DEF Valid
<1>3. def[i].default \in Values \cup {Absent}
  <2>1. def[i] \in ArgDefs
    BY ArgsOf
  <2> QED
    BY <2>1 DEF ArgDefs
<1> QED
  BY <1>1, <1>2, <1>3 DEF Typed

LEMMA SpawnsInv ==
  ASSUME Inv, Spawns
  PROVE  Inv'
<1>1. /\ Typed /\ pc = "start" /\ Valid(def, args) /\ allowed
      /\ args' = Normalised(def, args)
      /\ pc' \in {"writing", "waiting"} /\ child' = "choose"
      /\ left' \in [Outputs -> 0..MaxWritten]
      /\ UNCHANGED <<def, allowed, pipe, got, output>>
  BY DEF Spawns, Inv
<1>2. args' \in [1..Len(def) -> Values \cup {Absent}]
  BY <1>1, ValidatedArgs DEF Normalised
<1>3. Typed'
  BY <1>1, <1>2 DEF Typed
<1>4. ArgumentsChecked'
  BY <1>1, ValidatedArgs DEF ArgumentsChecked
<1>5. Conserved'
  <2> SUFFICES ASSUME NEW o \in Outputs
               PROVE  got[o] + pipe[o] + left'[o] <= MaxWritten /\ child' # o
    BY <1>1 DEF Conserved
  <2>1. got[o] = 0 /\ pipe[o] = 0
    BY <1>1 DEF Inv, NoneAtStart
  <2>2. left'[o] \in 0..MaxWritten /\ child' # o
    BY <1>1 DEF Outputs
  <2> QED
    BY <2>1, <2>2, SizesAssumption
<1>6. NoneAtStart' /\ OutputBounded'
  BY <1>1 DEF NoneAtStart, OutputBounded
<1> QED
  BY <1>3, <1>4, <1>5, <1>6 DEF Inv

\* A step that leaves arguments and answer alone and keeps the bytes.
LEMMA StepInv ==
  ASSUME Inv, Unchanged, UNCHANGED output,
         Typed', Conserved',
         pc' = pc \/ pc' \notin {"start", "ok"},
         child' = child \/ child # "none",
         pc = "start" => UNCHANGED <<got, pipe>>
  PROVE  Inv'
<1>1. ArgumentsChecked'
  BY DEF Inv, ArgumentsChecked, Started, Unchanged
<1>2. OutputBounded'
  BY DEF Inv, OutputBounded
<1>3. NoneAtStart'
  BY DEF Inv, NoneAtStart
<1> QED
  BY <1>1, <1>2, <1>3 DEF Inv

\* The call ends without an answer.
LEMMA FailureInv ==
  ASSUME Inv, Unchanged, NEW how \in Failures, Return(how),
         UNCHANGED <<childVars, pipe, got, output>>
  PROVE  Inv'
<1>1. pc' = how /\ how \notin {"start", "ok"}
  BY DEF Return, Failures
<1>2. Typed'
  BY <1>1 DEF Inv, Typed, Unchanged, childVars
<1>3. Conserved'
  BY DEF Inv, Conserved, childVars
<1> QED
  BY <1>1, <1>2, <1>3, StepInv DEF childVars

\* Input is written: no output moves.
LEMMA WritesInv ==
  ASSUME Inv, Writes
  PROVE  Inv'
<1>1. pipe' = [pipe EXCEPT !["stdin"] = @ + 1] /\ Typed /\ Unchanged /\ pc = "writing"
      /\ UNCHANGED <<pc, child, filter, left, open, got, output>>
  BY DEF Writes, Inv, childVars
<1>2. Typed'
  BY <1>1 DEF Typed, Unchanged, Pipes
<1>3. \A o \in Outputs : pipe'[o] = pipe[o]
  BY <1>1 DEF Typed, Outputs, Pipes
<1>4. Conserved'
  BY <1>1, <1>3 DEF Inv, Conserved
<1> QED
  BY <1>1, <1>2, <1>4, StepInv

LEMMA WrittenInv ==
  ASSUME Inv, Written
  PROVE  Inv'
<1>1. /\ pc' = "waiting" /\ Unchanged
      /\ UNCHANGED <<child, left, pipe, got, output>>
  BY DEF Written, childVars
<1>2. Typed' /\ Conserved'
  BY <1>1 DEF Inv, Typed, Conserved, Unchanged
<1> QED
  BY <1>1, <1>2, StepInv

\* A byte goes from the pipe to us.
LEMMA CollectsInv ==
  ASSUME Inv, NEW o \in Outputs, Collects(o)
  PROVE  Inv'
<1>1. /\ Typed /\ Unchanged /\ pc = "waiting" /\ pipe[o] > 0
      /\ pipe' = [pipe EXCEPT ![o] = @ - 1] /\ got' = [got EXCEPT ![o] = @ + 1]
      /\ UNCHANGED <<pc, child, left, output>>
  BY DEF Collects, Inv, childVars
<1>2. o \in Pipes /\ Outputs \subseteq Pipes
  BY DEF Pipes
<1>3. pipe[o] \in Nat /\ got[o] \in Nat
  BY <1>1, <1>2 DEF Typed
<1>4. Typed'
  BY <1>1, <1>2, <1>3 DEF Typed, Unchanged
<1>5. \A p \in Outputs : got'[p] + pipe'[p] = got[p] + pipe[p]
  <2>1. got'[o] = got[o] + 1 /\ pipe'[o] = pipe[o] - 1
    BY <1>1, <1>2 DEF Typed
  <2>2. \A p \in Outputs : p # o => got'[p] = got[p] /\ pipe'[p] = pipe[p]
    BY <1>1, <1>2 DEF Typed
  <2> QED
    BY <1>3, <2>1, <2>2
<1>6. Conserved'
  BY <1>1, <1>5 DEF Inv, Conserved
<1> QED
  BY <1>1, <1>4, <1>6, StepInv

\* Both limits together: what stdout leaves of it is for stderr.
LEMMA TruncatedBound ==
  ASSUME NEW n \in Nat, NEW limit \in Nat, NEW s \in Truncate(n, limit)
  PROVE  s \in Nat /\ s <= 3 * limit + Suffix
<1>1. CASE n <= limit
  BY <1>1 DEF Truncate, Decoded, Suffix
<1>2. CASE ~(n <= limit)
  <2>1. PICK d \in limit..(3 * limit) : s = d + Suffix
    BY <1>2 DEF Truncate, Decoded
  <2> QED
    BY <2>1 DEF Suffix
<1> QED
  BY <1>1, <1>2

LEMMA AnswersInv ==
  ASSUME Inv, Answers
  PROVE  Inv'
<1>1. PICK out \in Truncate(got["stdout"], MaxOutput) :
        \E err \in Truncate(got["stderr"], Minus(MaxOutput, out)) :
          output' = [stdout |-> out, stderr |-> err]
  BY DEF Answers
<1>2. PICK err \in Truncate(got["stderr"], Minus(MaxOutput, out)) :
        output' = [stdout |-> out, stderr |-> err]
  BY <1>1
<1>3. /\ Typed /\ pc' = "ok" /\ Unchanged
      /\ UNCHANGED <<child, left, pipe, got>>
  BY DEF Answers, Inv, Return, childVars
<1>4. got["stdout"] \in Nat /\ got["stderr"] \in Nat
  BY <1>3 DEF Typed, Outputs
<1>5. out \in Nat /\ out <= 3 * MaxOutput + Suffix
  BY <1>4, SizesAssumption, TruncatedBound
<1>6. Minus(MaxOutput, out) \in Nat /\ Minus(MaxOutput, out) = IF out > MaxOutput THEN 0 ELSE MaxOutput - out
  BY <1>5, SizesAssumption DEF Minus
<1>7. err \in Nat /\ err <= 3 * Minus(MaxOutput, out) + Suffix
  BY <1>4, <1>6, TruncatedBound
<1>8. out + err <= 3 * MaxOutput + 2 * Suffix
  BY <1>5, <1>6, <1>7, SizesAssumption DEF Suffix
<1>9. output' \in [Outputs -> Nat] /\ output'["stdout"] = out /\ output'["stderr"] = err
  BY <1>2, <1>5, <1>7 DEF Outputs
<1>10. Typed' /\ Conserved' /\ NoneAtStart' /\ ArgumentsChecked'
  BY <1>3, <1>9 DEF Inv, Typed, Conserved, NoneAtStart, ArgumentsChecked, Started, Unchanged
<1>11. OutputBounded'
  BY <1>8, <1>9 DEF OutputBounded, Sum
<1> QED
  BY <1>10, <1>11 DEF Inv

-----------------------------------------------------------------------------
(* Steps of the process.                                                   *)

LEMMA ChoosesInv ==
  ASSUME Inv, Chooses
  PROVE  Inv'
<1>1. /\ Typed /\ child = "choose" /\ Unchanged
      /\ UNCHANGED <<pc, left, pipe, got, output>>
  BY DEF Chooses, Inv, pipeVars
<1>2. \/ child' \in {"read", "exited"}
      \/ \E o \in Outputs : left[o] > 0 /\ child' = o
  BY DEF Chooses
<1>3. Typed'
  BY <1>1, <1>2 DEF Typed, Unchanged
<1>4. Conserved'
  BY <1>1, <1>2 DEF Inv, Conserved, Outputs
<1> QED
  BY <1>1, <1>3, <1>4, StepInv

LEMMA ReadsInv ==
  ASSUME Inv, Reads
  PROVE  Inv'
<1>1. /\ Typed /\ child = "read" /\ child' = "choose" /\ Unchanged
      /\ pipe["stdin"] > 0 \/ "stdin" \notin open
      /\ pipe' = [pipe EXCEPT !["stdin"] = Minus(@, 1)]
      /\ UNCHANGED <<pc, left, got, output>>
  BY DEF Reads, Inv
<1>2. pc # "start"
  BY <1>1 DEF Inv, NoneAtStart
<1>3. pipe["stdin"] \in Nat
  BY <1>1 DEF Typed, Pipes
<1>4. Minus(pipe["stdin"], 1) \in Nat
  BY <1>3 DEF Minus
<1>5. Typed'
  BY <1>1, <1>4 DEF Typed, Unchanged
<1>6. \A o \in Outputs : pipe'[o] = pipe[o]
  BY <1>1 DEF Typed, Outputs, Pipes
<1>7. Conserved'
  BY <1>1, <1>6 DEF Inv, Conserved, Outputs
<1> QED
  BY <1>1, <1>2, <1>5, <1>7, StepInv

LEMMA PrintsInv ==
  ASSUME Inv, NEW o \in Outputs, Prints(o)
  PROVE  Inv'
<1>1. /\ Typed /\ child = o /\ child # "none" /\ Unchanged
      /\ UNCHANGED <<pc, got, output>>
  BY DEF Prints, Inv, Outputs
<1>2. pc # "start"
  BY <1>1 DEF Inv, NoneAtStart
<1>3. o \in Pipes /\ Outputs \subseteq Pipes
  BY DEF Pipes
<1>4. CASE o \in open
  <2>1. /\ pipe' = [pipe EXCEPT ![o] = @ + 1] /\ left' = [left EXCEPT ![o] = @ - 1]
        /\ child' = "choose"
    BY <1>4 DEF Prints
  <2>2. left[o] \in 0..MaxWritten /\ left[o] > 0 /\ pipe[o] \in Nat /\ got[o] \in Nat
    BY <1>1, <1>3 DEF Inv, Typed, Conserved
  <2>3. left[o] - 1 \in 0..MaxWritten /\ pipe[o] + 1 \in Nat
    BY <2>2, SizesAssumption
  <2>4. Typed'
    BY <1>1, <1>3, <2>1, <2>3 DEF Typed, Unchanged
  <2>5. Conserved'
    <3>1. pipe'[o] = pipe[o] + 1 /\ left'[o] = left[o] - 1
      BY <1>1, <1>3, <2>1 DEF Typed
    <3>2. \A p \in Outputs : p # o => pipe'[p] = pipe[p] /\ left'[p] = left[p]
      BY <1>1, <1>3, <2>1 DEF Typed
    <3>3. got[o] + pipe[o] + left[o] <= MaxWritten
      BY DEF Inv, Conserved
    <3>4. got[o] + pipe'[o] + left'[o] <= MaxWritten
      BY <2>2, <3>1, <3>3, SizesAssumption
    <3>5. \A p \in Outputs : child' # p
      BY <2>1 DEF Outputs
    <3> QED
      BY <1>1, <3>2, <3>4, <3>5 DEF Inv, Conserved
  <2> QED
    BY <1>1, <1>2, <2>4, <2>5, StepInv
<1>5. CASE o \notin open
  <2>1. child' = "exited" /\ UNCHANGED <<pipe, left>>
    BY <1>5 DEF Prints
  <2>2. Typed' /\ Conserved'
    BY <1>1, <2>1 DEF Inv, Typed, Conserved, Unchanged, Outputs
  <2> QED
    BY <1>1, <1>2, <2>1, <2>2, StepInv
<1> QED
  BY <1>4, <1>5

\* Every step of the call and of the process keeps the invariant.
LEMMA NextInv == Inv /\ [Next]_vars => Inv'
<1> SUFFICES ASSUME Inv, [Next]_vars
             PROVE  Inv'
  OBVIOUS
<1>1. CASE Refused
  <2>1. PICK how \in {"invalid", "denied", "failed"} : Return(how)
    BY <1>1 DEF Refused
  <2> QED
    BY <1>1, <2>1, FailureInv DEF Refused, Failures, Unchanged
<1>2. CASE WriteFails
  BY <1>2, FailureInv DEF WriteFails, Failures
<1>3. CASE TimesOut
  BY <1>3, FailureInv DEF TimesOut, Failures
<1>4. CASE Dropped
  BY <1>4, FailureInv DEF Dropped, Failures
<1>5. CASE UNCHANGED vars
  BY <1>5 DEF vars, childVars, pipeVars, Inv, Typed, Conserved, NoneAtStart,
              ArgumentsChecked, Started, OutputBounded, Sum
<1> QED
  BY <1>1, <1>2, <1>3, <1>4, <1>5, SpawnsInv, WritesInv, WrittenInv, CollectsInv,
     AnswersInv, ChoosesInv, ReadsInv, PrintsInv DEF Next, Call, Process

LEMMA Invariance == Spec => []Inv
<1> QED
  BY InitInv, NextInv, PTL DEF Spec

-----------------------------------------------------------------------------
(* The command line.                                                       *)

\* A finite set of numbers can be put in order: the place of a number is how many
\* are no greater.
LEMMA Ordered ==
  ASSUME NEW S \in SUBSET Nat, IsFiniteSet(S), NEW n \in Nat, n = Cardinality(S)
  PROVE  \E r \in [1..n -> S] : \A i, j \in 1..n : i < j => r[i] < r[j]
<1>0. \A x \in S : x \in Nat
  BY Zenon
<1>1. PICK rank : rank = [x \in S |-> Cardinality({y \in S : y <= x})]
  OBVIOUS
<1>2. ASSUME NEW x \in S
      PROVE  /\ IsFiniteSet({y \in S : y <= x}) /\ rank[x] \in 1..n
             /\ rank[x] = Cardinality({y \in S : y <= x})
  <2>1. PICK T : T = {y \in S : y <= x}
    OBVIOUS
  <2>2. T \in SUBSET S /\ x \in T
    BY <2>1
  <2>3. IsFiniteSet(T) /\ Cardinality(T) <= n
    BY <2>2, FS_Subset
  <2>4. Cardinality(T) \in Nat /\ Cardinality(T) # 0
    BY <2>2, <2>3, FS_CardinalityType, FS_EmptySet
  <2>5. Cardinality(T) \in 1..n
    BY <2>3, <2>4
  <2> QED
    BY <1>1, <2>1, <2>3, <2>5
<1>3. ASSUME NEW x \in S, NEW z \in S, x < z
      PROVE  rank[x] < rank[z]
  <2>1. PICK T : T = {y \in S : y <= x}
    OBVIOUS
  <2>2. PICK U : U = {y \in S : y <= z}
    OBVIOUS
  <2>3. T \in SUBSET U /\ z \in U /\ z \notin T
    <3>1. \A y \in S : y <= x => y <= z
      BY <1>0, <1>3
    <3>2. z <= z /\ ~(z <= x)
      BY <1>0, <1>3
    <3> QED
      BY <2>1, <2>2, <3>1, <3>2
  <2>4. IsFiniteSet(U) /\ rank[x] = Cardinality(T) /\ rank[z] = Cardinality(U)
    BY <1>2, <2>1, <2>2
  <2>5. Cardinality(T) <= Cardinality(U) /\ Cardinality(U) # Cardinality(T)
    <3>1. U # T
      BY <2>3
    <3> QED
      BY <2>3, <2>4, <3>1, FS_Subset, Zenon
  <2>6. rank[x] \in Nat /\ rank[z] \in Nat
    <3>1. rank[x] \in 1..n /\ rank[z] \in 1..n
      BY <1>2, Zenon
    <3> QED
      BY <3>1
  <2> QED
    BY <2>4, <2>5, <2>6
<1>4. \A x, z \in S : rank[x] = rank[z] => x = z
  <2> SUFFICES ASSUME NEW x \in S, NEW z \in S, rank[x] = rank[z], x # z
               PROVE  FALSE
    OBVIOUS
  <2>1. x < z \/ z < x
    BY <1>0
  <2>2. rank[x] \in Nat /\ rank[z] \in Nat
    <3>1. rank[x] \in 1..n /\ rank[z] \in 1..n
      BY <1>2, Zenon
    <3> QED
      BY <3>1
  <2> QED
    BY <1>3, <2>1, <2>2
<1>5. rank \in [S -> 1..n]
  BY <1>1, <1>2
<1>6. rank \in Injection(S, 1..n)
  BY <1>4, <1>5, Fun_IsInj
<1>7. IsFiniteSet(1..n) /\ Cardinality(1..n) = n
  BY FS_Interval
<1>8. rank \in Surjection(S, 1..n)
  BY <1>6, <1>7, FS_Injection
<1>9. \A i \in 1..n : \E x \in S : rank[x] = i
  BY <1>8, Fun_SurjectionProperties, ZenonT(30)
<1>10. PICK r : r = [i \in 1..n |-> CHOOSE x \in S : rank[x] = i]
  OBVIOUS
<1>11. \A i \in 1..n : r[i] \in S /\ rank[r[i]] = i
  BY <1>9, <1>10
<1>12. r \in [1..n -> S]
  BY <1>10, <1>11
<1>13. ASSUME NEW i \in 1..n, NEW j \in 1..n, i < j
       PROVE  r[i] < r[j]
  <2>1. r[i] \in S /\ r[j] \in S /\ rank[r[i]] = i /\ rank[r[j]] = j
    BY <1>11
  <2>2. ~(r[j] < r[i])
    <3> SUFFICES ASSUME r[j] < r[i]
                 PROVE  FALSE
      OBVIOUS
    <3>1. j < i
      BY <1>3, <2>1
    <3> QED
      BY <1>13, <3>1
  <2>3. r[j] # r[i]
    BY <1>13, <2>1
  <2>4. r[i] \in Nat /\ r[j] \in Nat
    BY <1>0, <2>1, Zenon
  <2> QED
    BY <2>2, <2>3, <2>4
<1> QED
  BY <1>12, <1>13

\* Places of an argument on a command line.
Places(line, i) == {j \in 1..Len(line) : line[j] = i}

\* In order, every argument of a set has one place, and nothing else has any.
LEMMA InOrderOnce ==
  ASSUME NEW m \in Nat, NEW S \in SUBSET (1..m)
  PROVE  /\ InOrder(S) \in Seq(1..m)
         /\ \A i \in S : \E j : Places(InOrder(S), i) = {j}
         /\ \A i : i \notin S => Places(InOrder(S), i) = {}
<1>1. IsFiniteSet(S) /\ S \subseteq Nat
  <2>1. IsFiniteSet(1..m)
    BY FS_Interval
  <2>2. IsFiniteSet(S)
    BY <2>1, FS_Subset, Zenon
  <2>3. S \subseteq Nat
    OBVIOUS
  <2> QED
    BY <2>2, <2>3
<1>2. PICK n \in Nat : n = Cardinality(S)
  BY <1>1, FS_CardinalityType
<1>3. PICK r : r = InOrder(S)
  OBVIOUS
<1>4. \E q \in [1..n -> S] : \A i, j \in 1..n : i < j => q[i] < q[j]
  BY <1>1, <1>2, Ordered
<1>5. r \in [1..n -> S] /\ \A i, j \in 1..n : i < j => r[i] < r[j]
  BY <1>2, <1>3, <1>4 DEF InOrder
<1>6. r \in Seq(1..m) /\ Len(r) = n
  <2>1. r \in [1..n -> 1..m]
    BY <1>5
  <2> QED
    BY <1>2, <2>1
<1>7. \A i, j \in 1..n : r[i] = r[j] => i = j
  <2> SUFFICES ASSUME NEW i \in 1..n, NEW j \in 1..n, r[i] = r[j], i # j
               PROVE  FALSE
    OBVIOUS
  <2>1. r[i] \in Nat /\ r[j] \in Nat
    BY <1>1, <1>5
  <2>2. i < j \/ j < i
    OBVIOUS
  <2> QED
    BY <1>5, <2>1, <2>2
<1>8. r \in Injection(1..n, S)
  BY <1>5, <1>7, Fun_IsInj
<1>9. Cardinality(1..n) = n
  BY <1>2, FS_Interval
<1>10. r \in Surjection(1..n, S)
  BY <1>1, <1>2, <1>8, <1>9, FS_Injection
<1>11. \A i \in S : \E j \in 1..n : r[j] = i
  BY <1>10, Fun_SurjectionProperties
<1>12. ASSUME NEW i \in S
       PROVE  \E j : Places(r, i) = {j}
  <2>1. PICK j \in 1..n : r[j] = i
    BY <1>11
  <2>2. Places(r, i) = {j}
    BY <1>6, <1>7, <2>1 DEF Places
  <2> QED
    BY <2>2
<1>13. ASSUME NEW i, i \notin S
       PROVE  Places(r, i) = {}
  BY <1>5, <1>6, <1>13 DEF Places
<1> QED
  BY <1>3, <1>6, <1>12, <1>13

\* An argument for the command line has one place on it, in the part that is for it.
LEMMA BuildArgvOnce ==
  ASSUME NEW d, NEW a, Len(d) \in Nat
  PROVE  /\ BuildArgv(d, a) \in Seq(1..Len(d))
         /\ \A i \in Positional(d, a) \cup Flags(d, a) :
              \E j : Places(BuildArgv(d, a), i) = {j}
         /\ \A i : i \notin Positional(d, a) \cup Flags(d, a) =>
              Places(BuildArgv(d, a), i) = {}
<1>1. PICK m \in Nat : m = Len(d)
  OBVIOUS
<1>2. PICK S \in SUBSET (1..m) : S = Positional(d, a)
  BY <1>1 DEF Positional
<1>3. PICK T \in SUBSET (1..m) : T = Flags(d, a)
  BY <1>1 DEF Flags
<1>4. S \cap T = {}
  BY <1>2, <1>3 DEF Positional, Flags
<1> DEFINE Once(line, U) ==
             /\ line \in Seq(1..m)
             /\ \A i \in U : \E j : Places(line, i) = {j}
             /\ \A i : i \notin U => Places(line, i) = {}
<1>5. PICK p : p = InOrder(S) /\ Once(p, S)
  <2>1. Once(InOrder(S), S)
    BY ONLY m \in Nat, S \in SUBSET (1..m), InOrderOnce
  <2> HIDE DEF Once
  <2> QED
    BY <2>1
<1>6. PICK q : q = InOrder(T) /\ Once(q, T)
  <2>1. Once(InOrder(T), T)
    BY ONLY m \in Nat, T \in SUBSET (1..m), InOrderOnce
  <2> HIDE DEF Once
  <2> QED
    BY <2>1
<1>7. PICK line : line = p \o q
  OBVIOUS
<1>8. BuildArgv(d, a) = line
  BY <1>2, <1>3, <1>5, <1>6, <1>7 DEF BuildArgv
<1>9. /\ line \in Seq(1..m)
      /\ Len(p) \in Nat /\ Len(q) \in Nat /\ Len(line) = Len(p) + Len(q)
      /\ \A j \in 1..Len(p) : line[j] = p[j]
      /\ \A j \in 1..Len(q) : line[Len(p) + j] = q[j]
  BY <1>5, <1>6, <1>7
<1>10. /\ \A i : \A j \in Places(p, i) : j \in Places(line, i)
       /\ \A i : \A k \in Places(q, i) : Len(p) + k \in Places(line, i)
       /\ \A i : \A j \in Places(line, i) :
            j \in Places(p, i) \/ \E k \in Places(q, i) : j = Len(p) + k
  <2>1. ASSUME NEW i, NEW j \in Places(p, i)
        PROVE  j \in Places(line, i)
    BY <1>9 DEF Places
  <2>2. ASSUME NEW i, NEW k \in Places(q, i)
        PROVE  Len(p) + k \in Places(line, i)
    <3>1. k \in 1..Len(q) /\ q[k] = i
      BY DEF Places
    <3>2. Len(p) + k \in 1..Len(line)
      BY <1>9, <3>1
    <3>3. line[Len(p) + k] = i
      BY <1>9, <3>1
    <3> QED
      BY <3>2, <3>3 DEF Places
  <2>3. ASSUME NEW i, NEW j \in Places(line, i), j \notin Places(p, i)
        PROVE  \E k \in Places(q, i) : j = Len(p) + k
    <3>1. j \in 1..Len(line) /\ line[j] = i
      BY DEF Places
    <3>2. ~(j <= Len(p))
      BY <1>9, <2>3, <3>1 DEF Places
    <3>3. j - Len(p) \in 1..Len(q) /\ j = Len(p) + (j - Len(p))
      BY <1>9, <3>1, <3>2
    <3>4. q[j - Len(p)] = i
      BY <1>9, <3>1, <3>3
    <3>5. j - Len(p) \in Places(q, i)
      BY <3>3, <3>4 DEF Places
    <3> QED
      BY <3>3, <3>5
  <2> QED
    BY <2>1, <2>2, <2>3
<1>11. /\ \A i \in S : \E j : Places(p, i) = {j}
       /\ \A i : i \notin S => Places(p, i) = {}
       /\ \A i \in T : \E j : Places(q, i) = {j}
       /\ \A i : i \notin T => Places(q, i) = {}
  BY <1>5, <1>6
<1>12. ASSUME NEW i \in S
       PROVE  \E j : Places(line, i) = {j}
  <2>1. PICK j : Places(p, i) = {j}
    BY <1>11
  <2>2. Places(q, i) = {}
    BY <1>4, <1>11
  <2>3. Places(line, i) = {j}
    BY <1>10, <2>1, <2>2
  <2> QED
    BY <2>3
<1>13. ASSUME NEW i \in T
       PROVE  \E j : Places(line, i) = {j}
  <2>1. PICK j : Places(q, i) = {j}
    BY <1>11
  <2>2. Places(p, i) = {}
    BY <1>4, <1>11
  <2>3. Len(p) + j \in Places(line, i)
    BY <1>10, <2>1
  <2>4. \A k \in Places(line, i) : k = Len(p) + j
    BY <1>10, <2>1, <2>2
  <2>5. Places(line, i) = {Len(p) + j}
    BY <2>3, <2>4
  <2> QED
    BY <2>5
<1>14. ASSUME NEW i, i \notin S \cup T
       PROVE  Places(line, i) = {}
  BY <1>10, <1>11, <1>14
<1> QED
  BY <1>1, <1>2, <1>3, <1>8, <1>9, <1>12, <1>13, <1>14

\* The command line is there with the process, and is that of its arguments; and what
\* Typed says too little about.
CommandLine ==
  /\ allowed \in BOOLEAN /\ filter \in BOOLEAN
  /\ toWrite \in 0..MaxInput
  /\ pipe \in [Pipes -> 0..PipeSize]
  /\ open = IF pc = "writing" THEN Pipes ELSE IF pc = "waiting" THEN Outputs ELSE {}
  /\ argv = IF Started THEN BuildArgv(def, args) ELSE <<>>

LEMMA CommandLineInit == Init => CommandLine
<1> SUFFICES ASSUME Init
             PROVE  CommandLine
  OBVIOUS
<1>1. allowed \in BOOLEAN /\ filter \in BOOLEAN
  BY DEF Init
<1>2. toWrite \in 0..MaxInput /\ pipe \in [Pipes -> 0..PipeSize]
  BY SizesAssumption DEF Init
<1>3. /\ open = IF pc = "writing" THEN Pipes ELSE IF pc = "waiting" THEN Outputs ELSE {}
      /\ argv = IF Started THEN BuildArgv(def, args) ELSE <<>>
  BY DEF Init, Started
<1> QED
  BY <1>1, <1>2, <1>3 DEF CommandLine

\* A step of the call that has a process, or of the process.
LEMMA CommandLineStep ==
  ASSUME CommandLine, Unchanged, child' # "none" <=> child # "none",
         filter' = filter, toWrite' \in 0..MaxInput,
         pipe' \in [Pipes -> 0..PipeSize],
         open' = IF pc' = "writing" THEN Pipes ELSE IF pc' = "waiting" THEN Outputs ELSE {}
  PROVE  CommandLine'
<1>1. UNCHANGED <<def, args, argv>> /\ allowed' \in BOOLEAN /\ filter' \in BOOLEAN
  BY DEF Unchanged, CommandLine
<1>2. Started' <=> Started
  BY DEF Started
<1>3. argv' = IF Started' THEN BuildArgv(def', args') ELSE <<>>
  BY <1>1, <1>2 DEF CommandLine
<1> QED
  BY <1>1, <1>3 DEF CommandLine

LEMMA CommandLineNext ==
  ASSUME Inv, CommandLine, [Next]_vars
  PROVE  CommandLine'
<1>0. Typed
  BY DEF Inv
<1>1. CASE UNCHANGED vars
  BY <1>1 DEF vars, childVars, pipeVars, CommandLine, Started
<1>2. ASSUME NEW how \in Failures \cup {"ok"}, Return(how), Unchanged,
             UNCHANGED <<toWrite, childVars, pipe>>
      PROVE  CommandLine'
  <2>1. pc' \notin {"writing", "waiting"} /\ open' = {}
    BY <1>2 DEF Return, Failures
  <2> QED
    BY <1>2, <2>1, CommandLineStep DEF CommandLine, childVars
<1>3. CASE Refused
  <2>1. PICK how \in {"invalid", "denied", "failed"} : Return(how)
    BY <1>3 DEF Refused
  <2> QED
    BY <1>2, <1>3, <2>1 DEF Refused, Failures, Unchanged
<1>4. CASE Spawns
  <2>1. /\ argv' = BuildArgv(def, args') /\ UNCHANGED <<def, allowed, pipe>>
        /\ filter' \in BOOLEAN /\ child' = "choose"
    BY <1>4 DEF Spawns
  <2>2. /\ toWrite' \in 0..MaxInput
        /\ open' = IF pc' = "writing" THEN Pipes ELSE IF pc' = "waiting" THEN Outputs ELSE {}
    BY <1>4 DEF Spawns, CommandLine
  <2>3. argv' = IF Started' THEN BuildArgv(def', args') ELSE <<>>
    BY <2>1 DEF Started
  <2> QED
    BY <2>1, <2>2, <2>3 DEF CommandLine
<1>5. CASE Writes
  <2>1. /\ toWrite > 0 /\ pipe["stdin"] < PipeSize /\ toWrite' = toWrite - 1
        /\ pipe' = [pipe EXCEPT !["stdin"] = @ + 1]
        /\ Unchanged /\ UNCHANGED <<pc, child, filter, open>>
    BY <1>5 DEF Writes, childVars
  <2>2. toWrite' \in 0..MaxInput /\ pipe["stdin"] + 1 \in 0..PipeSize
    BY <2>1, SizesAssumption DEF CommandLine, Pipes
  <2>3. pipe' \in [Pipes -> 0..PipeSize]
    BY <2>1, <2>2 DEF CommandLine
  <2> QED
    BY <2>1, <2>2, <2>3, CommandLineStep DEF CommandLine
<1>6. CASE WriteFails
  BY <1>2, <1>6 DEF WriteFails, Failures
<1>7. CASE Written
  <2>1. /\ pc = "writing" /\ pc' = "waiting" /\ open' = open \ {"stdin"}
        /\ Unchanged /\ UNCHANGED <<toWrite, child, filter, pipe>>
    BY <1>7 DEF Written, childVars
  <2>2. open' = Outputs
    BY <2>1 DEF CommandLine, Pipes, Outputs
  <2> QED
    BY <2>1, <2>2, CommandLineStep DEF CommandLine
<1>8. ASSUME NEW o \in Outputs, Collects(o)
      PROVE  CommandLine'
  <2>1. /\ pipe[o] > 0 /\ pipe' = [pipe EXCEPT ![o] = @ - 1]
        /\ Unchanged /\ UNCHANGED <<pc, toWrite, child, filter, open>>
    BY <1>8 DEF Collects, childVars
  <2>2. pipe[o] - 1 \in 0..PipeSize
    BY <2>1, SizesAssumption DEF CommandLine, Pipes
  <2>3. pipe' \in [Pipes -> 0..PipeSize]
    BY <2>1, <2>2 DEF CommandLine
  <2> QED
    BY <2>1, <2>3, CommandLineStep DEF CommandLine
<1>9. CASE Answers
  BY <1>2, <1>9 DEF Answers
<1>10. CASE TimesOut \/ Dropped
  BY <1>2, <1>10 DEF TimesOut, Dropped, Failures
<1>11. CASE Chooses
  <2>1. child = "choose" /\ child' \in {"read", "exited"} \cup Outputs
    BY <1>11 DEF Chooses
  <2>2. child # "none" /\ child' # "none"
    BY <2>1 DEF Outputs
  <2> QED
    BY <1>11, <2>2, CommandLineStep DEF Chooses, CommandLine, pipeVars
<1>12. CASE Reads
  <2>1. /\ child = "read" /\ child' = "choose"
        /\ pipe' = [pipe EXCEPT !["stdin"] = Minus(@, 1)]
        /\ Unchanged /\ UNCHANGED <<pc, toWrite, filter, open>>
    BY <1>12 DEF Reads
  <2>2. Minus(pipe["stdin"], 1) \in 0..PipeSize
    BY SizesAssumption DEF CommandLine, Pipes, Minus
  <2>3. pipe' \in [Pipes -> 0..PipeSize]
    BY <2>1, <2>2 DEF CommandLine
  <2> QED
    BY <2>1, <2>3, CommandLineStep DEF CommandLine
<1>13. ASSUME NEW o \in Outputs, Prints(o)
       PROVE  CommandLine'
  <2>1. /\ child = o /\ child # "none" /\ child' \in {"choose", "exited"}
        /\ Unchanged /\ UNCHANGED <<pc, toWrite, filter, open>>
    BY <1>13 DEF Prints, Outputs
  <2>2. CASE o \in open
    <3>1. pipe[o] < PipeSize /\ pipe' = [pipe EXCEPT ![o] = @ + 1]
      BY <1>13, <2>2 DEF Prints
    <3>2. pipe[o] + 1 \in 0..PipeSize
      BY <3>1, SizesAssumption DEF CommandLine, Pipes
    <3>3. pipe' \in [Pipes -> 0..PipeSize]
      BY <3>1, <3>2 DEF CommandLine
    <3> QED
      BY <2>1, <3>3, CommandLineStep DEF CommandLine
  <2>3. CASE o \notin open
    <3>1. pipe' = pipe
      BY <1>13, <2>3 DEF Prints
    <3> QED
      BY <2>1, <3>1, CommandLineStep DEF CommandLine
  <2> QED
    BY <2>2, <2>3
<1> QED
  BY <1>1, <1>3, <1>4, <1>5, <1>6, <1>7, <1>8, <1>9, <1>10, <1>11, <1>12, <1>13
     DEF Next, Call, Process

LEMMA AlwaysCommandLine == Spec => [](Inv /\ CommandLine)
<1> QED
  BY InitInv, NextInv, CommandLineInit, CommandLineNext, PTL DEF Spec

-----------------------------------------------------------------------------
(* Theorems.                                                               *)

\* No process runs for a binary that is not allowed or with arguments that
\* validate_args would not take, whatever the definition says.
THEOREM ArgumentsAlwaysChecked == Spec => []ArgumentsChecked
<1>1. Inv => ArgumentsChecked
  BY DEF Inv
<1> QED
  BY <1>1, Invariance, PTL

\* However much the process writes, and however it decodes, the answer is no longer
\* than three limits and two markers (spawn, truncate).  That it is no longer than the
\* limit, as the docs have it, is false.
THEOREM OutputAlwaysBounded == Spec => []OutputBounded
<1>1. Inv => OutputBounded
  BY DEF Inv
<1> QED
  BY <1>1, Invariance, PTL

\* Whatever the definition, an argument that says something is on the command line
\* once or is for the input, never both, and text for the input is piped if no other
\* argument is for the input (build_argv, run, which look for the argument that is
\* piped each in its own way); and every reachable state is well typed.  Nothing is
\* said for an argument that is for the input and is not text: it is lost.
THEOREM ArgumentsAlwaysDelivered == Spec => []ArgumentsDelivered
<1>1. Inv /\ CommandLine => ArgumentsDelivered
  <2> SUFFICES ASSUME Inv, CommandLine
               PROVE  ArgumentsDelivered
    OBVIOUS
  <2>0. Typed
    BY DEF Inv
  <2>1. Len(def) \in Nat
    <3>1. Definitions \subseteq Seq(ArgDefs)
      BY DefinitionsAssumption DEF ArgDefs
    <3>2. def \in Seq(ArgDefs)
      BY <2>0, <3>1 DEF Typed
    <3> QED
      BY <3>2
  <2>2. TypeOK
    <3>1. argv \in Seq(1..Len(def))
      <4>1. BuildArgv(def, args) \in Seq(1..Len(def))
        BY <2>1, BuildArgvOnce, Zenon
      <4>2. argv = BuildArgv(def, args) \/ argv = <<>>
        BY DEF CommandLine
      <4>3. CASE argv = <<>>
        BY <2>1, <4>3
      <4> QED
        BY <4>1, <4>2, <4>3, Zenon
    <3>2. got \in [Outputs -> 0..MaxWritten]
      <4>1. ASSUME NEW o \in Outputs
            PROVE  got[o] \in 0..MaxWritten
        <5>1. /\ got[o] \in Nat /\ pipe[o] \in Nat /\ left[o] \in Nat
              /\ got[o] + pipe[o] + left[o] <= MaxWritten
          BY <2>0 DEF Typed, Inv, Conserved, Pipes
        <5> QED
          BY <5>1, SizesAssumption
      <4> QED
        BY <2>0, <4>1 DEF Typed
    <3> QED
      BY <2>0, <3>1, <3>2 DEF Typed, CommandLine, TypeOK
  <2>3. ASSUME Started, NEW i \in 1..Len(def)
        PROVE  IF def[i].is_stdin
                 THEN /\ OnCommandLine(i) = 0
                      /\ Deliveries(i) <= 1
                      /\ StdinArgs(def) = {i} /\ args[i] = "string" => Deliveries(i) = 1
                 ELSE Deliveries(i) = IF Says(i) THEN 1 ELSE 0
    <3>1. argv = BuildArgv(def, args)
      BY <2>3 DEF CommandLine
    <3>2. PICK n : n = OnCommandLine(i)
      OBVIOUS
    <3>3. Deliveries(i) = n + (IF i \in Piped(def, args) THEN 1 ELSE 0)
      BY <3>2 DEF Deliveries
    <3>4. n = Cardinality(Places(BuildArgv(def, args), i))
      BY <3>1, <3>2 DEF Places, OnCommandLine
    <3>5. CASE i \in Positional(def, args) \cup Flags(def, args)
      <4>1. n = 1
        <5>1. PICK j : Places(BuildArgv(def, args), i) = {j}
          BY <2>1, <3>5, BuildArgvOnce, Zenon
        <5> QED
          BY <3>4, <5>1, FS_Singleton
      <4>2. ~def[i].is_stdin /\ i \notin Piped(def, args)
        BY <3>5 DEF Positional, Flags, Piped, StdinArgs
      <4>3. Says(i)
        BY <3>5 DEF Positional, Flags, Says
      <4> QED
        BY <3>3, <4>1, <4>2, <4>3
    <3>6. CASE i \notin Positional(def, args) \cup Flags(def, args)
      <4>1. n = 0
        BY <2>1, <3>4, <3>6, BuildArgvOnce, FS_EmptySet, Zenon
      <4>2. CASE def[i].is_stdin
        <5>1. StdinArgs(def) = {i} /\ args[i] = "string" => i \in Piped(def, args)
          BY <2>1 DEF Piped
        <5> QED
          BY <3>2, <3>3, <4>1, <4>2, <5>1
      <4>3. CASE ~def[i].is_stdin
        <5>1. ~Says(i) /\ i \notin Piped(def, args)
          BY <3>6, <4>3 DEF Positional, Flags, Says, Piped, StdinArgs
        <5> QED
          BY <3>3, <4>1, <4>3, <5>1
      <4> QED
        BY <4>2, <4>3
    <3> QED
      BY <3>5, <3>6
  <2> QED
    BY <2>2, <2>3 DEF ArgumentsDelivered
<1> QED
  BY <1>1, AlwaysCommandLine, PTL

-----------------------------------------------------------------------------
(* Who blocks whom.                                                        *)

\* A call that writes or waits has its process, and a filter that writes has read all.
FilterReads ==
  /\ pc \in {"writing", "waiting"} => child # "none"
  /\ filter /\ child \in Outputs => InputOver

LEMMA FilterReadsNext ==
  ASSUME Inv, CommandLine, FilterReads, [Next]_vars
  PROVE  FilterReads'
<1>0. Outputs = {"stdout", "stderr"} /\ "stdin" \in Pipes
  BY DEF Outputs, Pipes
<1>1. ASSUME UNCHANGED <<child, filter>>, pc' = pc \/ pc' \notin {"writing", "waiting"} \/ pc = "writing",
             InputOver => InputOver'
      PROVE  FilterReads'
  BY <1>1 DEF FilterReads
<1>2. CASE UNCHANGED vars
  BY <1>2 DEF vars, childVars, pipeVars, FilterReads, InputOver
<1>3. ASSUME NEW how \in Failures \cup {"ok"}, Return(how), UNCHANGED <<childVars, pipe>>
      PROVE  FilterReads'
  BY <1>1, <1>3 DEF Return, Failures, InputOver, childVars
<1>4. CASE Refused
  <2>1. PICK how \in {"invalid", "denied", "failed"} : Return(how)
    BY <1>4 DEF Refused
  <2> QED
    BY <1>3, <1>4, <2>1 DEF Refused, Failures
<1>5. CASE Spawns
  BY <1>0, <1>5 DEF Spawns, FilterReads
<1>6. CASE Writes
  <2>1. "stdin" \in open
    BY <1>6 DEF Writes, CommandLine, Pipes
  <2> QED
    BY <1>1, <1>6, <2>1 DEF Writes, InputOver, childVars
<1>7. CASE WriteFails \/ Answers \/ TimesOut \/ Dropped
  BY <1>3, <1>7 DEF WriteFails, Answers, TimesOut, Dropped, Failures
<1>8. CASE Written
  BY <1>1, <1>8 DEF Written, InputOver, childVars
<1>9. ASSUME NEW o \in Outputs, Collects(o)
      PROVE  FilterReads'
  <2>1. pipe'["stdin"] = pipe["stdin"] /\ UNCHANGED <<pc, child, filter, open>>
    BY <1>0, <1>9 DEF Collects, childVars, CommandLine
  <2> QED
    BY <1>1, <2>1 DEF InputOver
<1>10. CASE Chooses
  <2>1. UNCHANGED <<pc, filter, pipe, open>>
    BY <1>10 DEF Chooses, pipeVars
  <2>2. \/ child' \in {"read", "exited"}
        \/ child' \in Outputs /\ (filter => InputOver)
    <3>1. CASE child' \in {"read", "exited"}
      BY <3>1
    <3>2. CASE child' \notin {"read", "exited"}
      <4>1. child' \in Outputs
        BY <1>10, <3>2 DEF Chooses
      <4>2. filter => InputOver
        BY <1>10, <3>2 DEF Chooses
      <4> QED
        BY <4>1, <4>2
    <3> QED
      BY <3>1, <3>2
  <2>3. InputOver' <=> InputOver
    BY <2>1 DEF InputOver
  <2>4. child' # "none" /\ (filter' /\ child' \in Outputs => InputOver')
    BY <1>0, <2>1, <2>2, <2>3
  <2> QED
    BY <2>4 DEF FilterReads
<1>11. CASE Reads
  BY <1>0, <1>11 DEF Reads, FilterReads
<1>12. ASSUME NEW o \in Outputs, Prints(o)
       PROVE  FilterReads'
  BY <1>0, <1>12 DEF Prints, FilterReads
<1> QED
  BY <1>2, <1>4, <1>5, <1>6, <1>7, <1>8, <1>9, <1>10, <1>11, <1>12 DEF Next, Call, Process

\* Call and process can always go on, but for one way to block each other: input is
\* written to a process that has filled an output and is no filter (spawn).
THEOREM OnlyOutputAlwaysBlocks == Spec => []OnlyOutputBlocks
<1>1. Init => FilterReads
  BY DEF Init, FilterReads, Outputs
<1>2. Inv /\ CommandLine /\ FilterReads => OnlyOutputBlocks
  <2> SUFFICES ASSUME Inv, CommandLine, FilterReads,
                      pc \in {"writing", "waiting"}, ~CanGoOn
               PROVE  /\ pc = "writing" /\ ~filter
                      /\ \E o \in Outputs : child = o /\ pipe[o] = PipeSize
    BY DEF OnlyOutputBlocks
  <2>1. /\ child \in {"choose", "read", "exited"} \cup Outputs
        /\ \A p \in Pipes : pipe[p] \in 0..PipeSize
        /\ \A o \in Outputs : left[o] \in Nat
    BY DEF Inv, Typed, CommandLine, FilterReads
  <2>2. "stdin" \in Pipes /\ Outputs \subseteq Pipes /\ "stdin" \notin Outputs
    BY DEF Pipes, Outputs
  <2>3. child # "choose"
    <3>1. CASE \A o \in Outputs : left[o] = 0
      <4>1. Sum(left) = 0
        BY <3>1 DEF Sum, Outputs
      <4> QED
        BY <4>1 DEF CanGoOn
    <3>2. CASE ~ \A o \in Outputs : left[o] = 0
      BY <2>1, <3>2 DEF CanGoOn
    <3> QED
      BY <3>1, <3>2
  <2>4. CASE pc = "waiting"
    <3>1. child # "exited" /\ \A o \in Outputs : pipe[o] = 0
      BY <2>1, <2>2, <2>4 DEF CanGoOn
    <3>2. "stdin" \notin open
      BY <2>2, <2>4 DEF CommandLine
    <3>3. child \in Outputs
      BY <2>1, <2>3, <3>1, <3>2 DEF CanGoOn
    <3> QED
      BY <3>1, <3>3, SizesAssumption DEF CanGoOn
  <2>5. CASE pc = "writing"
    <3>1. child # "exited" /\ pipe["stdin"] = PipeSize
      BY <2>1, <2>2, <2>5, SizesAssumption DEF CanGoOn
    <3>2. child \in Outputs
      BY <2>1, <2>3, <3>1, SizesAssumption DEF CanGoOn
    <3>3. ~InputOver
      BY <3>1, SizesAssumption DEF InputOver
    <3>4. ~filter
      BY <3>2, <3>3 DEF FilterReads
    <3>5. pipe[child] = PipeSize
      BY <2>1, <2>2, <3>2, SizesAssumption DEF CanGoOn
    <3> QED
      BY <2>5, <3>2, <3>4, <3>5
  <2> QED
    BY <2>4, <2>5
<1>3. Inv /\ CommandLine /\ FilterReads /\ [Next]_vars => FilterReads'
  BY FilterReadsNext
<1> QED
  BY <1>1, <1>2, <1>3, AlwaysCommandLine, PTL DEF Spec
-----------------------------------------------------------------------------
(* Processes that outlive their call.                                      *)

CallOver == pc \in {"ok"} \cup Failures

\* Steps the process may still make when nobody writes to it or reads from it: what
\* is in its input, each byte read after a choice, then a last attempt to write.
StepsLeft ==
  IF child = "choose" THEN 2 * pipe["stdin"] + 2
  ELSE IF child = "read" THEN IF pipe["stdin"] = 0 THEN 3 ELSE 2 * pipe["stdin"] + 1
  ELSE IF child \in Outputs THEN 1
  ELSE 0

ExitNearer == StepsLeft \in Nat /\ StepsLeft' \in Nat /\ StepsLeft' < StepsLeft

\* A process that nobody kills is never blocked once its call has answered, failed,
\* timed out or been dropped, and then every step there is brings it nearer to its
\* exit, however much it still had to read and to write (run of native_executor.rs,
\* whose timeout drops the future and not the process).
ProcessesWindDown ==
  /\ [](CallOver /\ child \notin {"none", "exited"} => CanGoOn)
  /\ [][CallOver => CallOver' /\ ExitNearer]_vars

\* After the call there are only the steps of the process.
LEMMA OnlyProcess ==
  ASSUME CallOver, Next
  PROVE  Process /\ CallOver'
<1>1. pc \notin {"start", "writing", "waiting"}
  BY DEF CallOver, Failures
<1>2. Process
  BY <1>1 DEF Next, Refused, Spawns, Call, Writes, WriteFails, Written, Collects, Answers,
              TimesOut, Dropped
<1>3. pc' = pc
  BY <1>2 DEF Process, Chooses, Reads, Prints
<1> QED
  BY <1>2, <1>3 DEF CallOver

LEMMA ProcessWindsDown ==
  ASSUME Inv, CommandLine, CallOver, Process
  PROVE  ExitNearer
<1> USE DEF ExitNearer
<1> DEFINE n == pipe["stdin"]
<1>1. open = {}
  BY DEF CallOver, Failures, CommandLine
<1>2. n \in Nat
  BY DEF Inv, Typed, Pipes
<1>3. "choose" \notin Outputs /\ "read" \notin Outputs /\ "exited" \notin Outputs
  BY DEF Outputs
<1>4. CASE Chooses
  <2>1. child = "choose" /\ pipe' = pipe
    BY <1>4 DEF Chooses, pipeVars
  <2>2. StepsLeft = 2 * n + 2
    BY <2>1 DEF StepsLeft
  <2>3. CASE child' = "read" /\ n # 0
    <3>1. StepsLeft' = 2 * n + 1
      BY <2>1, <2>3 DEF StepsLeft
    <3> QED
      BY <1>2, <2>2, <3>1
  <2>4. CASE child' \in Outputs \cup {"exited"}
    <3>1. StepsLeft' \in {0, 1}
      BY <1>3, <2>4 DEF StepsLeft
    <3> QED
      BY <1>2, <2>2, <3>1
  <2> QED
    BY <1>1, <1>4, <2>3, <2>4 DEF Chooses, InputOver
<1>5. CASE Reads
  <2>1. child = "read" /\ child' = "choose" /\ pipe' = [pipe EXCEPT !["stdin"] = Minus(@, 1)]
    BY <1>5 DEF Reads
  <2>2. pipe'["stdin"] = Minus(n, 1)
    BY <2>1 DEF Inv, Typed, Pipes
  <2>3. StepsLeft' = 2 * Minus(n, 1) + 2
    BY <2>1, <2>2 DEF StepsLeft
  <2>4. StepsLeft = IF n = 0 THEN 3 ELSE 2 * n + 1
    BY <2>1 DEF StepsLeft
  <2> QED
    BY <1>2, <2>3, <2>4 DEF Minus
<1>6. CASE \E o \in Outputs : Prints(o)
  <2>1. child \in Outputs /\ child' = "exited"
    BY <1>1, <1>6 DEF Prints
  <2>2. StepsLeft = 1 /\ StepsLeft' = 0
    BY <1>3, <2>1 DEF StepsLeft
  <2> QED
    BY <2>2
<1> QED
  BY <1>4, <1>5, <1>6 DEF Process

\* Every process ends whose call is over, if only it goes on.
THEOREM ProcessesAlwaysWindDown == Spec => ProcessesWindDown
<1>1. ASSUME Inv, CommandLine, CallOver, child \notin {"none", "exited"}
      PROVE  CanGoOn
  <2>1. open = {}
    BY <1>1 DEF CallOver, Failures, CommandLine
  <2>2. CASE child = "choose"
    <3>1. \A o \in Outputs : left[o] \in Nat
      BY <1>1 DEF Inv, Typed
    <3>2. CASE \A o \in Outputs : left[o] = 0
      <4>1. Sum(left) = 0
        BY <3>2 DEF Sum, Outputs
      <4> QED
        BY <2>2, <4>1 DEF CanGoOn
    <3>3. CASE ~ \A o \in Outputs : left[o] = 0
      BY <2>2, <3>1, <3>3 DEF CanGoOn
    <3> QED
      BY <3>2, <3>3
  <2>3. CASE child = "read"
    BY <2>1, <2>3 DEF CanGoOn
  <2>4. CASE child \in Outputs
    BY <2>1, <2>4 DEF CanGoOn
  <2> QED
    BY <1>1, <2>2, <2>3, <2>4 DEF Inv, Typed
<1>2. ASSUME Inv, CommandLine, CallOver, Next
      PROVE  CallOver' /\ ExitNearer
  BY <1>2, OnlyProcess, ProcessWindsDown
<1>3. Inv /\ CommandLine /\ [Next]_vars =>
        [CallOver => CallOver' /\ ExitNearer]_vars
  BY <1>2
<1>4. Inv /\ CommandLine => (CallOver /\ child \notin {"none", "exited"} => CanGoOn)
  BY <1>1
<1> QED
  BY <1>3, <1>4, AlwaysCommandLine, PTL DEF Spec, ProcessesWindDown
=============================================================================
