------------------------ MODULE CognitionCalls_proofs ------------------------
(***************************************************************************)
(* Theorems about one call of the orchestrator to the cognition engine,    *)
(* for any number of retries, any timeout and either number of models.     *)
(***************************************************************************)
EXTENDS CognitionCalls, FiniteSetTheorems, WellFoundedInduction, TLAPS

\* TypeOK but for the clock, with the order in which the models are asked.
Typed ==
  /\ models \in {<<"primary">>, <<"primary", "fallback">>}
  /\ accepted \subseteq Models
  /\ attempt \in Attempts
  /\ status \in Codes
  /\ request \in [Attempts -> {"none", "sent", "gone"} \union Models \union Codes]
  /\ calls \in [Models -> Nat]
  /\ unheard \in Nat
  /\ \A i \in Attempts : request[i] = "fallback" => models = <<"primary", "fallback">>

\* The requests for which model m may have been asked.
Reached(m) ==
  {i \in Attempts :
     request[i] \notin {"none", "sent"} \union (IF m = "fallback" THEN {"primary"} ELSE {})}

\* The requests for which model m must have been asked: it is at work on them, or
\* they were answered for want of a model that answers.
Exhausted(m) ==
  {i \in Attempts :
     \/ IsRetryable(request[i])
     \/ request[i] = "fallback"
     \/ request[i] = "primary" /\ m = "primary"}

\* The requests that with_retry is done with and that ended without an answer it
\* retries.
Unheard ==
  {i \in Attempts :
     /\ i < attempt \/ (pc = "failed" /\ IsRetryable(status) /\ i = attempt)
     /\ ~IsRetryable(request[i])}

AtMost == \A m \in Models : calls[m] <= Cardinality(Reached(m))

AtLeast ==
  rpc = "complete" =>
    \A m \in ToSet(models) : calls[m] >= Cardinality(Exhausted(m))

Heard ==
  /\ Cardinality(Unheard) <= unheard
  /\ pc = "failed" /\ IsRetryable(status) => attempt = MaxRetries
  /\ pc = "failed" => status # "ok"

\* A request that was not sent yet.
Unsent ==
  /\ pc = "start" => attempt = 0
  /\ \A i \in Attempts :
       i > attempt \/ (i = attempt /\ pc \in {"start", "backoff"}) => request[i] = "none"

Inv == Typed /\ Unsent /\ AtMost /\ AtLeast /\ Heard

-----------------------------------------------------------------------------
(* Powers of two.                                                          *)

\* Every nonempty set of naturals has a least member.
LEMMA Least ==
  ASSUME NEW T, T \subseteq Nat, T # {}
  PROVE  \E x \in T : \A y \in T : x <= y
<1>1. \E x \in T : \A y \in T : <<y, x>> \notin OpToRel(<, Nat)
  BY NatLessThanWellFounded, WFMin
<1>2. ASSUME NEW x \in T, NEW y \in T, <<y, x>> \notin OpToRel(<, Nat)
      PROVE  x <= y
  <2>1. <<y, x>> \in Nat \X Nat /\ ~(y < x)
    BY <1>2 DEF OpToRel
  <2> QED
    BY <2>1
<1> QED
  BY <1>1, <1>2

\* Induction, for a set in the place of a predicate.
LEMMA Induct ==
  ASSUME NEW S, 0 \in S, \A n \in Nat : n \in S => n + 1 \in S
  PROVE  Nat \subseteq S
<1> SUFFICES ASSUME Nat \ S # {}
             PROVE  FALSE
  OBVIOUS
<1>1. PICK x \in Nat \ S : \A y \in Nat \ S : x <= y
  BY Least
<1>2. x # 0
  BY <1>1
<1>3. x - 1 \in Nat /\ x - 1 \in S
  BY <1>1, <1>2
<1> QED
  BY <1>1, <1>3

\* The first n + 1 powers, as a function that needs no recursion.
FirstPowers(n) ==
  {g \in [0 .. n -> Nat] : g[0] = 1 /\ \A i \in 1 .. n : g[i] = 2 * g[i - 1]}

LEMMA FirstPowersExist == \A n \in Nat : FirstPowers(n) # {}
<1> DEFINE S == {n \in Nat : FirstPowers(n) # {}}
<1>1. 0 \in S
  <2>1. [i \in 0 .. 0 |-> 1] \in FirstPowers(0)
    BY DEF FirstPowers
  <2> QED
    BY <2>1
<1>2. ASSUME NEW n \in Nat, n \in S
      PROVE  n + 1 \in S
  <2>1. PICK g \in FirstPowers(n) : TRUE
    BY <1>2
  <2>2. /\ g \in [0 .. n -> Nat]
        /\ g[0] = 1
        /\ \A i \in 1 .. n : g[i] = 2 * g[i - 1]
    BY <2>1 DEF FirstPowers
  <2> DEFINE h == [i \in 0 .. n + 1 |-> IF i <= n THEN g[i] ELSE 2 * g[n]]
  <2>3. h \in [0 .. n + 1 -> Nat]
    BY <2>2
  <2>4. h[0] = 1 /\ \A i \in 1 .. n + 1 : h[i] = 2 * h[i - 1]
    BY <2>2
  <2>5. h \in FirstPowers(n + 1)
    BY <2>3, <2>4 DEF FirstPowers
  <2> QED
    BY <2>5
<1> HIDE DEF S
<1>3. Nat \subseteq S
  BY <1>1, <1>2, Induct
<1> QED
  BY <1>3 DEF S

LEMMA FirstPowersAgree ==
  ASSUME NEW m \in Nat, NEW n \in Nat, m <= n,
         NEW g \in FirstPowers(m), NEW h \in FirstPowers(n)
  PROVE  \A i \in 0 .. m : g[i] = h[i]
<1> DEFINE S == {i \in Nat : i <= m => g[i] = h[i]}
<1>0. /\ g[0] = 1 /\ \A i \in 1 .. m : g[i] = 2 * g[i - 1]
      /\ h[0] = 1 /\ \A i \in 1 .. n : h[i] = 2 * h[i - 1]
  BY DEF FirstPowers
<1>1. 0 \in S
  BY <1>0
<1>2. ASSUME NEW i \in Nat, i \in S
      PROVE  i + 1 \in S
  <2> SUFFICES ASSUME i + 1 <= m
               PROVE  g[i + 1] = h[i + 1]
    OBVIOUS
  <2>1. i + 1 \in 1 .. m /\ i + 1 \in 1 .. n /\ (i + 1) - 1 = i
    OBVIOUS
  <2>2. g[i] = h[i]
    BY <1>2
  <2>3. g[i + 1] = 2 * g[i] /\ h[i + 1] = 2 * h[i]
    BY <1>0, <2>1
  <2> QED
    BY <2>2, <2>3
<1> HIDE DEF S
<1>3. Nat \subseteq S
  BY <1>1, <1>2, Induct
<1> QED
  BY <1>3 DEF S

\* PowerOfTwo is the function its definition asks for: there is one.
LEMMA PowerOfTwoDef ==
  PowerOfTwo = [n \in Nat |-> IF n = 0 THEN 1 ELSE 2 * PowerOfTwo[n - 1]]
<1> DEFINE First[n \in Nat] == CHOOSE g \in FirstPowers(n) : TRUE
           F == [n \in Nat |-> First[n][n]]
<1>1. \A n \in Nat : First[n] \in FirstPowers(n)
  BY FirstPowersExist
<1>2. F[0] = 1
  BY <1>1 DEF FirstPowers
<1>3. ASSUME NEW n \in Nat, n # 0
      PROVE  F[n] = 2 * F[n - 1]
  <2>1. n \in 1 .. n /\ n - 1 \in Nat /\ n - 1 <= n /\ n - 1 \in 0 .. n - 1
    BY <1>3
  <2>2. First[n][n] = 2 * First[n][n - 1]
    BY <1>1, <2>1 DEF FirstPowers
  <2>3. First[n - 1][n - 1] = First[n][n - 1]
    BY <1>1, <2>1, FirstPowersAgree
  <2> QED
    BY <2>1, <2>2, <2>3
<1> HIDE DEF First
<1>4. F = [n \in Nat |-> IF n = 0 THEN 1 ELSE 2 * F[n - 1]]
  BY <1>2, <1>3
<1> HIDE DEF F
<1>5. \E f : f = [n \in Nat |-> IF n = 0 THEN 1 ELSE 2 * f[n - 1]]
  BY <1>4
<1> QED
  BY <1>5 DEF PowerOfTwo

LEMMA Powers ==
  /\ PowerOfTwo[0] = 1
  /\ \A n \in Nat : PowerOfTwo[n] \in Nat /\ PowerOfTwo[n + 1] = 2 * PowerOfTwo[n]
<1>1. \A n \in Nat : PowerOfTwo[n] = IF n = 0 THEN 1 ELSE 2 * PowerOfTwo[n - 1]
  BY PowerOfTwoDef
<1>2. ASSUME NEW n \in Nat
      PROVE  PowerOfTwo[n + 1] = 2 * PowerOfTwo[n]
  <2>1. n + 1 \in Nat /\ n + 1 # 0 /\ (n + 1) - 1 = n
    OBVIOUS
  <2> QED
    BY <1>1, <2>1
<1> DEFINE S == {n \in Nat : PowerOfTwo[n] \in Nat}
<1>3. 0 \in S
  BY <1>1
<1>4. ASSUME NEW n \in Nat, n \in S
      PROVE  n + 1 \in S
  BY <1>2, <1>4
<1> HIDE DEF S
<1>5. Nat \subseteq S
  BY <1>3, <1>4, Induct
<1> QED
  BY <1>1, <1>2, <1>5 DEF S

-----------------------------------------------------------------------------
(* Counting attempts.                                                      *)

LEMMA AttemptsFinite ==
  IsFiniteSet(Attempts) /\ Cardinality(Attempts) = MaxRetries + 1
  BY RetryAssumption, FS_Interval DEF Attempts

\* A set of attempts that loses members, and one that gains at most one.
LEMMA Fewer ==
  ASSUME NEW S \in SUBSET Attempts, NEW T \in SUBSET S
  PROVE  Cardinality(T) \in Nat /\ Cardinality(S) \in Nat
         /\ Cardinality(T) <= Cardinality(S)
<1>1. IsFiniteSet(S)
  BY AttemptsFinite, FS_Subset
<1>2. IsFiniteSet(T) /\ Cardinality(T) <= Cardinality(S)
  BY <1>1, FS_Subset
<1> QED
  BY <1>1, <1>2, FS_CardinalityType

LEMMA OneMore ==
  ASSUME NEW S \in SUBSET Attempts, NEW i \in Attempts,
         NEW T \in SUBSET (S \cup {i})
  PROVE  /\ Cardinality(T) \in Nat /\ Cardinality(S) \in Nat
         /\ Cardinality(T) <= Cardinality(S) + 1
         /\ i \notin S => Cardinality(S \cup {i}) = Cardinality(S) + 1
<1>1. IsFiniteSet(S)
  BY AttemptsFinite, FS_Subset
<1>2. /\ IsFiniteSet(S \cup {i})
      /\ Cardinality(S \cup {i}) = IF i \in S THEN Cardinality(S) ELSE Cardinality(S) + 1
  BY <1>1, FS_AddElement
<1>3. IsFiniteSet(T) /\ Cardinality(T) <= Cardinality(S \cup {i})
  BY <1>2, FS_Subset
<1>4. Cardinality(S) \in Nat /\ Cardinality(T) \in Nat
  BY <1>1, <1>3, FS_CardinalityType
<1> QED
  BY <1>2, <1>3, <1>4

-----------------------------------------------------------------------------
(* The steps.                                                              *)

LEMMA InitInv == Init => Inv
<1> SUFFICES ASSUME Init
             PROVE  Inv
  OBVIOUS
<1>1. Typed
  BY RetryAssumption DEF Init, Typed, Attempts, Codes, Models
<1>2. Reached("primary") = {} /\ Reached("fallback") = {}
      /\ Unheard = {} /\ \A m \in ToSet(models) : Exhausted(m) = {}
  BY <1>1 DEF Init, Reached, Unheard, Exhausted, IsRetryable, Attempts
<1>3. AtMost
  BY <1>2, FS_EmptySet DEF Init, AtMost, Models
<1>4. ToSet(models) \subseteq Models
  BY DEF Init, ToSet, Models
<1>5. AtLeast
  BY <1>2, <1>4, FS_EmptySet DEF Init, AtLeast, Models
<1>6. Heard
  BY <1>2, FS_EmptySet DEF Init, Heard
<1>7. Unsent
  BY DEF Init, Unsent
<1> QED
  BY <1>1, <1>3, <1>5, <1>6, <1>7 DEF Inv

LEMMA ModelsAsked == Typed => ToSet(models) \subseteq Models
  BY DEF Typed, ToSet, Models

\* The end of an attempt, heard or not: no request changes, and the attempt is
\* counted unless the engine's answer was worth a retry.
LEMMA EndsInv ==
  ASSUME Inv, NEW code \in Codes, Ends(code), pc = "waiting",
         \/ unheard' = unheard + 1
         \/ unheard' = unheard /\ request[attempt] = code
  PROVE  Inv'
<1>1. UNCHANGED <<rpc, models, accepted, request, calls>>
  BY DEF Ends, config, engine
<1>2. attempt \in Attempts /\ unheard \in Nat
  BY DEF Inv, Typed
<1>3. status' = code /\ attempt' \in {attempt, attempt + 1}
  BY DEF Ends
<1>4. attempt' = attempt + 1 => attempt < MaxRetries /\ IsRetryable(code) /\ pc' = "backoff"
  BY <1>2 DEF Ends, Retries, Attempts
<1>5. attempt' = attempt =>
        pc' \in {"done", "failed"} /\ ~Retries(code) /\ (pc' = "failed" => code # "ok")
  BY <1>2 DEF Ends, Attempts
<1>6. Typed'
  <2>1. attempt' \in Attempts
    BY <1>2, <1>3, <1>4, RetryAssumption DEF Attempts
  <2> QED
    BY <2>1, <1>1, <1>2, <1>3 DEF Inv, Typed
<1>7. AtMost' /\ AtLeast'
  BY <1>1 DEF Inv, AtMost, AtLeast, Reached, Exhausted
<1>8. Cardinality(Unheard') <= unheard'
  <2>1. Unheard \in SUBSET Attempts /\ Unheard' \in SUBSET (Unheard \cup {attempt})
    BY <1>1, <1>2, <1>3, <1>4, <1>5, RetryAssumption DEF Unheard, Attempts
  <2>2. Cardinality(Unheard) <= unheard
    BY DEF Inv, Heard
  <2>3. CASE unheard' = unheard + 1
    <3>1. /\ Cardinality(Unheard') \in Nat /\ Cardinality(Unheard) \in Nat
          /\ Cardinality(Unheard') <= Cardinality(Unheard) + 1
      BY <1>2, <2>1, OneMore
    <3> QED
      BY <1>2, <2>2, <2>3, <3>1
  <2>4. CASE unheard' = unheard /\ request[attempt] = code
    <3>1. Unheard' \in SUBSET Unheard
      BY <1>1, <1>2, <1>3, <1>4, <1>5, <2>4, RetryAssumption DEF Unheard, Attempts
    <3> QED
      BY <1>2, <2>1, <2>2, <2>4, <3>1, Fewer
  <2> QED
    BY <2>3, <2>4
<1>9. Heard'
  BY <1>2, <1>3, <1>4, <1>5, <1>8, RetryAssumption
     DEF Heard, Retries, IsRetryable, Attempts
<1>10. Unsent'
  BY <1>1, <1>2, <1>3, <1>4, <1>5, RetryAssumption DEF Inv, Unsent, Attempts
<1> QED
  BY <1>6, <1>7, <1>9, <1>10 DEF Inv

\* A request goes out: nothing was asked for it, and it is not over.
LEMMA SendInv ==
  ASSUME Inv, Send(attempt), pc \in {"start", "backoff"},
         UNCHANGED <<rpc, models, accepted, attempt, status, unheard, calls>>
  PROVE  Inv'
<1>1. request' = [request EXCEPT ![attempt] = "sent"] /\ pc' = "waiting"
  BY DEF Send
<1>2. request[attempt] = "none" /\ attempt \in Attempts
  BY DEF Inv, Typed, Unsent
<1>3. Typed'
  BY <1>1 DEF Inv, Typed
<1>4. \A m : Reached(m)' = Reached(m) /\ Exhausted(m)' = Exhausted(m)
  BY <1>1, <1>2 DEF Inv, Typed, Reached, Exhausted, IsRetryable
<1>5. Unheard' = Unheard
  BY <1>1, <1>2, RetryAssumption DEF Inv, Typed, Unheard, Attempts
<1>6. Unsent'
  BY <1>1, <1>2, RetryAssumption DEF Inv, Typed, Unsent, Attempts
<1> QED
  BY <1>1, <1>3, <1>4, <1>5, <1>6 DEF Inv, AtMost, AtLeast, Heard

\* The engine is done with request i: it was cancelled, or is answered, with a code
\* worth a retry only after every model has failed.
LEMMA AnswerInv ==
  ASSUME Inv, NEW i \in Attempts, request[i] \in {"sent"} \union Models,
         NEW place \in {"gone"} \union Codes,
         request' = [request EXCEPT ![i] = place],
         UNCHANGED <<config, client, calls>>,
         rpc = "complete" /\ IsRetryable(place) =>
           \A m \in ToSet(models) : i \in Exhausted(m)
  PROVE  Inv'
<1>1. UNCHANGED <<rpc, models, accepted, pc, attempt, status, unheard, calls>>
  BY DEF config, client
<1>2. \A j \in Attempts : request'[j] = IF j = i THEN place ELSE request[j]
  BY DEF Inv, Typed
<1>3. Typed'
  BY <1>1, <1>2 DEF Inv, Typed, Codes
<1>4. Unsent'
  BY <1>1, <1>2 DEF Inv, Unsent, Models
<1>5. AtMost'
  <2> SUFFICES ASSUME NEW m \in Models
               PROVE  calls[m] <= Cardinality(Reached(m)')
    BY <1>1 DEF AtMost
  <2>1. Reached(m)' \in SUBSET Attempts /\ Reached(m) \in SUBSET Reached(m)'
    BY <1>2 DEF Reached, Codes, Models
  <2>2. /\ Cardinality(Reached(m)) \in Nat /\ Cardinality(Reached(m)') \in Nat
        /\ Cardinality(Reached(m)) <= Cardinality(Reached(m)')
    BY <2>1, Fewer
  <2>3. calls[m] \in Nat /\ calls[m] <= Cardinality(Reached(m))
    BY DEF Inv, Typed, AtMost
  <2> QED
    BY <2>2, <2>3
<1>6. AtLeast'
  <2> SUFFICES ASSUME rpc = "complete", NEW m \in ToSet(models)
               PROVE  calls[m] >= Cardinality(Exhausted(m)')
    BY <1>1 DEF AtLeast
  <2>1. Exhausted(m) \in SUBSET Attempts /\ Exhausted(m)' \in SUBSET Exhausted(m)
    BY <1>2 DEF Exhausted, IsRetryable, Codes, Models
  <2>2. /\ Cardinality(Exhausted(m)) \in Nat /\ Cardinality(Exhausted(m)') \in Nat
        /\ Cardinality(Exhausted(m)') <= Cardinality(Exhausted(m))
    BY <2>1, Fewer
  <2>3. calls[m] \in Nat /\ calls[m] >= Cardinality(Exhausted(m))
    BY ModelsAsked DEF Inv, Typed, AtLeast
  <2> QED
    BY <2>2, <2>3
<1>7. Heard'
  <2>1. Unheard \in SUBSET Attempts /\ Unheard' \in SUBSET Unheard
    BY <1>1, <1>2 DEF Unheard, IsRetryable, Models
  <2>2. /\ Cardinality(Unheard) \in Nat /\ Cardinality(Unheard') \in Nat
        /\ Cardinality(Unheard') <= Cardinality(Unheard)
    BY <2>1, Fewer
  <2> QED
    BY <1>1, <2>2 DEF Inv, Typed, Heard
<1> QED
  BY <1>3, <1>4, <1>5, <1>6, <1>7 DEF Inv

\* The engine asks the primary model for a request that came, or the fallback after
\* the primary model.
LEMMA AskInv ==
  ASSUME Inv, NEW i \in Attempts, NEW m \in Models, Ask(i, m),
         \/ m = "primary" /\ request[i] = "sent"
         \/ m = "fallback" /\ request[i] = "primary" /\ models = <<"primary", "fallback">>
  PROVE  Inv'
<1>1. UNCHANGED <<rpc, models, accepted, pc, attempt, status, unheard>>
  BY DEF Ask, config, client
<1>2. \A j \in Attempts : request'[j] = IF j = i THEN m ELSE request[j]
  BY DEF Inv, Typed, Ask
<1>3. \A n \in Models : calls'[n] = IF n = m THEN calls[n] + 1 ELSE calls[n]
  BY DEF Inv, Typed, Ask
<1>4. Typed'
  BY <1>1, <1>2 DEF Inv, Typed, Ask
<1>5. Unsent'
  BY <1>1, <1>2 DEF Inv, Unsent
<1>6. AtMost'
  <2> SUFFICES ASSUME NEW n \in Models
               PROVE  calls'[n] <= Cardinality(Reached(n)')
    BY DEF AtMost
  <2>1. calls[n] \in Nat /\ calls[n] <= Cardinality(Reached(n)) /\ Reached(n) \in SUBSET Attempts
    BY DEF Inv, Typed, AtMost, Reached
  <2>2. CASE n = m
    <3>1. i \notin Reached(n) /\ Reached(n)' = Reached(n) \union {i}
      BY <1>2, <2>2 DEF Reached, Models
    <3>2. Cardinality(Reached(n)) \in Nat
          /\ Cardinality(Reached(n)') = Cardinality(Reached(n)) + 1
      BY <2>1, <3>1, OneMore
    <3> QED
      BY <1>3, <2>1, <2>2, <3>2
  <2>3. CASE n # m
    <3>1. Reached(n)' = Reached(n)
      BY <1>2, <2>3 DEF Reached, Models
    <3> QED
      BY <1>3, <2>1, <2>3, <3>1
  <2> QED
    BY <2>2, <2>3
<1>7. AtLeast'
  <2> SUFFICES ASSUME rpc = "complete", NEW n \in ToSet(models)
               PROVE  calls'[n] >= Cardinality(Exhausted(n)')
    BY <1>1 DEF AtLeast
  <2>1. /\ n \in Models /\ calls[n] \in Nat /\ calls[n] >= Cardinality(Exhausted(n))
        /\ Exhausted(n) \in SUBSET Attempts
    BY ModelsAsked DEF Inv, Typed, AtLeast, Exhausted
  <2>2. CASE n = m
    <3>1. Exhausted(n)' \in SUBSET (Exhausted(n) \union {i})
      BY <1>2 DEF Exhausted
    <3>2. /\ Cardinality(Exhausted(n)) \in Nat /\ Cardinality(Exhausted(n)') \in Nat
          /\ Cardinality(Exhausted(n)') <= Cardinality(Exhausted(n)) + 1
      BY <2>1, <3>1, OneMore
    <3> QED
      BY <1>3, <2>1, <2>2, <3>2
  <2>3. CASE n # m
    <3>1. Exhausted(n)' = Exhausted(n)
      BY <1>2, <2>1, <2>3 DEF Exhausted, IsRetryable, Models
    <3> QED
      BY <1>3, <2>1, <2>3, <3>1
  <2> QED
    BY <2>2, <2>3
<1>8. Heard'
  <2>1. Unheard' = Unheard
    BY <1>1, <1>2 DEF Unheard, IsRetryable, Models
  <2> QED
    BY <1>1, <2>1 DEF Inv, Heard
<1> QED
  BY <1>4, <1>5, <1>6, <1>7, <1>8 DEF Inv

\* Every step of the client and of the engine keeps the counts.
LEMMA NextInv == Inv /\ [Next]_vars => Inv'
<1> SUFFICES ASSUME Inv, [Next]_vars
             PROVE  Inv'
  OBVIOUS
<1>0. Typed /\ Unsent
  BY DEF Inv
<1>1. CASE Calls
  <2>1. attempt = 0
    BY <1>0, <1>1 DEF Calls, Unsent
  <2> QED
    BY <1>1, <2>1, SendInv DEF Calls, config
<1>2. CASE Hears
  BY <1>0, <1>2, EndsInv DEF Hears, Typed
<1>3. CASE Breaks
  <2>1. PICK code \in {"unavailable", "unknown"} : Ends(code)
    BY <1>3 DEF Breaks
  <2>2. code \in Codes
    BY DEF Codes
  <2> QED
    BY <1>3, <2>1, <2>2, EndsInv DEF Breaks
<1>4. CASE TimesOut
  <2>1. PICK code \in {"cancelled", "deadline_exceeded"} : Ends(code)
    BY <1>4 DEF TimesOut
  <2>2. code \in Codes
    BY DEF Codes
  <2> QED
    BY <1>4, <2>1, <2>2, EndsInv DEF TimesOut
<1>5. CASE WakesUp
  BY <1>5, SendInv DEF WakesUp, config
<1>6. CASE Dropped
  BY <1>6 DEF Dropped, config, engine, Inv, Typed, Unsent, AtMost, AtLeast, Heard,
              Reached, Exhausted, Unheard
<1>7. CASE Tick
  BY <1>7 DEF Tick, config, engine, Inv, Typed, Unsent, AtMost, AtLeast, Heard,
              Reached, Exhausted, Unheard
<1>8. ASSUME NEW i \in Attempts, Complete(i)
      PROVE  Inv'
  BY <1>8, AskInv DEF Complete, Models
<1>9. ASSUME NEW i \in Attempts, CountTokens(i)
      PROVE  Inv'
  <2>1. PICK code \in {"ok", "unknown"} : Answer(i, code)
    BY <1>9 DEF CountTokens
  <2> QED
    BY <1>9, <2>1, AnswerInv DEF CountTokens, Answer, Codes
<1>10. ASSUME NEW i \in Attempts, Completes(i) \/ Refused(i)
       PROVE  Inv'
  <2>1. request[i] \in Models
    BY <1>0, <1>10 DEF Completes, Refused, Typed
  <2>2. PICK code \in {"ok", "unauthenticated"} : Answer(i, code)
    BY <1>10 DEF Completes, Refused
  <2> QED
    BY <2>1, <2>2, AnswerInv DEF Answer, Codes, IsRetryable
<1>11. ASSUME NEW i \in Attempts, Fails(i)
       PROVE  Inv'
  <2>1. /\ request[i] \in Models
        /\ request[i] = "fallback" => models = <<"primary", "fallback">>
        /\ models \in {<<"primary">>, <<"primary", "fallback">>}
    BY <1>0, <1>11 DEF Fails, Typed
  <2>2. CASE request[i] # Last(models)
    <3>1. request[i] = "primary" /\ models = <<"primary", "fallback">>
      BY <2>1, <2>2 DEF Last, Models
    <3> QED
      BY <1>11, <2>2, <3>1, AskInv DEF Fails, Models
  <2>3. CASE request[i] = Last(models)
    <3>1. \A m \in ToSet(models) : i \in Exhausted(m)
      BY <2>1, <2>3 DEF Last, ToSet, Exhausted
    <3> QED
      BY <1>11, <2>1, <2>3, <3>1, AnswerInv DEF Fails, Answer, Codes
  <2> QED
    BY <2>2, <2>3
<1>12. ASSUME NEW i \in Attempts, Cancels(i)
       PROVE  Inv'
  <2>1. ~IsRetryable("gone")
    BY DEF IsRetryable
  <2> QED
    BY <1>12, <2>1, AnswerInv DEF Cancels
<1>13. CASE UNCHANGED vars
  BY <1>13 DEF vars, config, client, engine, Inv, Typed, Unsent, AtMost, AtLeast, Heard,
               Reached, Exhausted, Unheard
<1> QED
  BY <1>1, <1>2, <1>3, <1>4, <1>5, <1>6, <1>7, <1>8, <1>9, <1>10, <1>11, <1>12, <1>13
     DEF Next, Client, Engine

LEMMA Invariance == Spec => []Inv
<1> QED
  BY InitInv, NextInv, PTL DEF Spec

-----------------------------------------------------------------------------
(* Time.                                                                   *)

\* The time that n requests without an answer take, with the backoffs after them.
Spent(n) == n * RequestTimeout + PowerOfTwo[n] - 1

LEMMA SpentGrows ==
  /\ Spent(0) = 0
  /\ \A n \in Nat :
       /\ Spent(n) \in Int
       /\ Spent(n + 1) = Spent(n) + RequestTimeout + PowerOfTwo[n]
<1>1. Spent(0) = 0
  BY Powers, TimeoutAssumption DEF Spent
<1> SUFFICES ASSUME NEW n \in Nat
             PROVE  /\ Spent(n) \in Int
                    /\ Spent(n + 1) = Spent(n) + RequestTimeout + PowerOfTwo[n]
  BY <1>1
<1>2. (n + 1) * RequestTimeout = n * RequestTimeout + RequestTimeout
      /\ n * RequestTimeout \in Int
  BY TimeoutAssumption
<1>3. PowerOfTwo[n] \in Nat /\ PowerOfTwo[n + 1] = 2 * PowerOfTwo[n]
  BY Powers
<1> QED
  BY <1>2, <1>3, TimeoutAssumption DEF Spent

LEMMA SpentMonotone == \A m \in Nat : \A n \in 0 .. m : Spent(n) <= Spent(m)
<1> DEFINE S == {m \in Nat : \A n \in 0 .. m : Spent(n) <= Spent(m)}
<1>1. 0 \in S
  BY SpentGrows
<1>2. ASSUME NEW m \in Nat, m \in S
      PROVE  m + 1 \in S
  <2> SUFFICES ASSUME NEW n \in 0 .. m + 1
               PROVE  Spent(n) <= Spent(m + 1)
    OBVIOUS
  <2>1. Spent(m) \in Int /\ Spent(m + 1) = Spent(m) + RequestTimeout + PowerOfTwo[m]
        /\ Spent(m + 1) \in Int /\ Spent(n) \in Int /\ PowerOfTwo[m] \in Nat
    BY SpentGrows, Powers
  <2>2. n <= m => Spent(n) <= Spent(m)
    BY <1>2
  <2> HIDE DEF Spent
  <2>3. CASE n <= m
    BY <2>1, <2>2, <2>3, TimeoutAssumption
  <2>4. CASE n = m + 1
    BY <2>1, <2>4
  <2> QED
    BY <2>3, <2>4
<1> HIDE DEF S
<1>3. Nat \subseteq S
  BY <1>1, <1>2, Induct
<1> QED
  BY <1>3 DEF S

\* The time that has passed, and what is left of this await, have room in what
\* these attempts may take.
InTime ==
  /\ pc = "start" => attempt = 0 /\ elapsed = 0 /\ timer = 0
  /\ pc = "backoff" => elapsed + timer <= Spent(attempt)
  /\ elapsed + timer <= Spent(attempt) + RequestTimeout

Timed == TypeOK /\ InTime

LEMMA InitTimed == Init => Timed
<1> SUFFICES ASSUME Init
             PROVE  Timed
  OBVIOUS
<1>1. TypeOK
  BY RetryAssumption DEF Init, TypeOK, Attempts, Codes, Models, Over
<1>2. InTime
  BY SpentGrows, TimeoutAssumption DEF Init, InTime
<1> QED
  BY <1>1, <1>2 DEF Timed

\* The end of an attempt: the backoff has its place in the budget.
LEMMA EndsTimed ==
  ASSUME Timed, NEW code \in Codes, Ends(code), unheard' \in Nat, pc = "waiting"
  PROVE  Timed'
<1>0. attempt \in Nat /\ attempt <= MaxRetries /\ timer \in Nat /\ elapsed \in Nat
  BY RetryAssumption DEF Timed, TypeOK, Attempts
<1>1. UNCHANGED <<rpc, models, accepted, elapsed, request, calls>> /\ status' = code
  BY DEF Ends, config, engine
<1>2. CASE Retries(code)
  <2>1. /\ attempt' = attempt + 1 /\ attempt < MaxRetries /\ pc' = "backoff"
        /\ timer' = Backoff(attempt + 1)
    BY <1>2 DEF Ends, Retries
  <2>2. timer' = PowerOfTwo[attempt] /\ PowerOfTwo[attempt] \in Nat
    <3>1. (attempt + 1) - 1 = attempt
      BY <1>0
    <3> QED
      BY <1>0, <2>1, <3>1, Powers DEF Backoff
  <2>3. attempt' \in Attempts
    BY <1>0, <2>1, RetryAssumption DEF Attempts
  <2>4. TypeOK'
    BY <1>1, <2>1, <2>2, <2>3 DEF Timed, TypeOK
  <2>5. elapsed + timer <= Spent(attempt) + RequestTimeout
    BY DEF Timed, InTime
  <2>6. Spent(attempt') = Spent(attempt) + RequestTimeout + PowerOfTwo[attempt]
        /\ Spent(attempt) \in Int
    BY <1>0, <2>1, SpentGrows
  <2>7. elapsed' + timer' <= Spent(attempt')
    BY <1>0, <1>1, <2>2, <2>5, <2>6, TimeoutAssumption
  <2>8. elapsed' + timer' <= Spent(attempt') + RequestTimeout
    BY <1>0, <1>1, <2>2, <2>6, <2>7, TimeoutAssumption
  <2>9. InTime'
    BY <2>1, <2>7, <2>8 DEF InTime, Spent
  <2> QED
    BY <2>4, <2>9 DEF Timed
<1>3. CASE ~Retries(code)
  <2>1. pc' \in {"done", "failed"} /\ UNCHANGED <<attempt, timer>>
    BY <1>3 DEF Ends
  <2>2. TypeOK'
    BY <1>1, <2>1 DEF Timed, TypeOK, Over
  <2>3. InTime'
    BY <1>1, <2>1 DEF Timed, InTime, Spent
  <2> QED
    BY <2>2, <2>3 DEF Timed
<1> QED
  BY <1>2, <1>3

\* A request goes out with a whole timeout, when nothing is left of the backoff.
LEMMA SendTimed ==
  ASSUME Timed, pc \in {"start", "backoff"}, timer = 0, Send(attempt),
         UNCHANGED <<config, attempt, status, elapsed, unheard, calls>>
  PROVE  Timed'
<1>0. attempt \in Nat /\ elapsed \in Nat /\ attempt \in Attempts
  BY RetryAssumption DEF Timed, TypeOK, Attempts
<1>1. TypeOK'
  BY TimeoutAssumption DEF Timed, TypeOK, Send, config
<1>2. elapsed <= Spent(attempt)
  BY <1>0, SpentGrows DEF Timed, InTime
<1>3. elapsed' + timer' <= Spent(attempt') + RequestTimeout
  <2>1. Spent(attempt') = Spent(attempt) /\ Spent(attempt) \in Int
        /\ elapsed' = elapsed /\ timer' = RequestTimeout
    BY <1>0, SpentGrows DEF Send
  <2> QED
    BY <1>0, <1>2, <2>1, TimeoutAssumption
<1>4. InTime'
  BY <1>3 DEF InTime, Send, Spent
<1> QED
  BY <1>1, <1>4 DEF Timed

\* The engine does not touch the clock.
LEMMA EngineTimed ==
  ASSUME Timed, Engine
  PROVE  Timed'
<1>1. PICK i \in Attempts :
        Complete(i) \/ CountTokens(i) \/ Completes(i) \/ Refused(i) \/ Fails(i) \/ Cancels(i)
  BY DEF Engine
<1>2. UNCHANGED <<config, client>>
  BY <1>1 DEF Complete, CountTokens, Completes, Refused, Fails, Cancels, Ask, Answer, client
<1>3. /\ request' \in [Attempts -> {"none", "sent", "gone"} \union Models \union Codes]
      /\ calls' \in [Models -> Nat]
  <2>1. /\ request \in [Attempts -> {"none", "sent", "gone"} \union Models \union Codes]
        /\ calls \in [Models -> Nat]
    BY DEF Timed, TypeOK
  <2>2. \/ \E m \in Models : Ask(i, m)
        \/ \E code \in Codes : Answer(i, code)
        \/ Cancels(i)
    BY <1>1 DEF Complete, CountTokens, Completes, Refused, Fails, Models, Codes
  <2>3. CASE \E m \in Models : Ask(i, m)
    BY <2>1, <2>3 DEF Ask
  <2>4. CASE \E code \in Codes : Answer(i, code)
    BY <2>1, <2>4 DEF Answer
  <2>5. CASE Cancels(i)
    BY <2>1, <2>5 DEF Cancels
  <2> QED
    BY <2>2, <2>3, <2>4, <2>5
<1>4. TypeOK'
  BY <1>2, <1>3 DEF Timed, TypeOK, config, client
<1>5. InTime'
  BY <1>2 DEF Timed, InTime, Spent, client
<1> QED
  BY <1>4, <1>5 DEF Timed

LEMMA NextTimed == Timed /\ [Next]_vars => Timed'
<1> SUFFICES ASSUME Timed, [Next]_vars
             PROVE  Timed'
  OBVIOUS
<1>0. unheard \in Nat /\ attempt \in Attempts /\ timer \in Nat /\ elapsed \in Nat
  BY DEF Timed, TypeOK
<1>1. CASE Calls
  <2>1. attempt = 0 /\ timer = 0
    BY <1>1 DEF Calls, Timed, InTime
  <2> QED
    BY <1>1, <2>1, SendTimed DEF Calls
<1>2. CASE Hears
  BY <1>0, <1>2, EndsTimed DEF Hears
<1>3. CASE Breaks
  <2>1. PICK code \in {"unavailable", "unknown"} : Ends(code)
    BY <1>3 DEF Breaks
  <2> QED
    BY <1>0, <1>3, <2>1, EndsTimed DEF Breaks, Codes
<1>4. CASE TimesOut
  <2>1. PICK code \in {"cancelled", "deadline_exceeded"} : Ends(code)
    BY <1>4 DEF TimesOut
  <2> QED
    BY <1>0, <1>4, <2>1, EndsTimed DEF TimesOut, Codes
<1>5. CASE WakesUp
  BY <1>5, SendTimed DEF WakesUp
<1>6. CASE Dropped
  BY <1>6 DEF Dropped, Timed, TypeOK, InTime, Spent, Over, config, engine
<1>7. CASE Tick
  <2>1. /\ timer' = timer - 1 /\ elapsed' = elapsed + 1
        /\ UNCHANGED <<config, pc, attempt, status, unheard, engine>>
        /\ timer' \in Nat /\ elapsed' \in Nat /\ pc # "start"
        /\ elapsed' + timer' = elapsed + timer
    BY <1>0, <1>7 DEF Tick
  <2>2. TypeOK'
    BY <2>1 DEF Timed, TypeOK, config, engine
  <2>3. Spent(attempt)' = Spent(attempt)
    BY <2>1 DEF Spent
  <2>4. InTime'
    BY <2>1, <2>3 DEF Timed, InTime
  <2> QED
    BY <2>2, <2>4 DEF Timed
<1>8. CASE Engine
  BY <1>8, EngineTimed
<1>9. CASE UNCHANGED vars
  BY <1>9 DEF vars, config, client, engine, Timed, TypeOK, InTime, Spent
<1> QED
  BY <1>1, <1>2, <1>3, <1>4, <1>5, <1>6, <1>7, <1>8, <1>9 DEF Next, Client

-----------------------------------------------------------------------------
(* Theorems.                                                               *)

\* However requests are lost, given up and retried, no model is asked more often
\* than requests were sent, nor more than MaxRetries + 1 times
\* (with_retry over _complete_with_fallback).
THEOREM WorkIsBounded == Spec => []WorkBounded
<1>1. Inv => WorkBounded
  <2> SUFFICES ASSUME Inv, NEW m \in Models
               PROVE  /\ calls[m] <= Cardinality({i \in Attempts : request[i] # "none"})
                      /\ calls[m] <= MaxRetries + 1
    BY DEF WorkBounded
  <2> DEFINE Sent == {i \in Attempts : request[i] # "none"}
  <2>1. Sent \in SUBSET Attempts /\ Reached(m) \in SUBSET Sent
    BY DEF Reached
  <2>2. Attempts \in SUBSET Attempts
    OBVIOUS
  <2>3. /\ Cardinality(Sent) \in Nat /\ Cardinality(Reached(m)) \in Nat
        /\ Cardinality(Reached(m)) <= Cardinality(Sent)
    BY <2>1, Fewer
  <2>4. Cardinality(Sent) <= MaxRetries + 1
    BY <2>1, <2>2, Fewer, AttemptsFinite
  <2>5. calls[m] \in Nat /\ calls[m] <= Cardinality(Reached(m))
    BY DEF Inv, Typed, AtMost
  <2> QED
    BY <2>3, <2>4, <2>5, RetryAssumption
<1> QED
  BY <1>1, Invariance, PTL

\* No request follows one that the client was told is refused: is_retryable does
\* not count UNAUTHENTICATED in.
THEOREM RefusalAlwaysEndsCall == Spec => []RefusalEndsCall
<1>1. Inv => RefusalEndsCall
  <2> SUFFICES ASSUME Inv
               PROVE  RefusalEndsCall
    OBVIOUS
  <2> DEFINE Refusals == {i \in Attempts : i < attempt /\ request[i] = "unauthenticated"}
  <2>1. Unheard \in SUBSET Attempts /\ Refusals \in SUBSET Unheard
    BY DEF Unheard, IsRetryable
  <2>2. /\ Cardinality(Unheard) \in Nat /\ Cardinality(Refusals) \in Nat
        /\ Cardinality(Refusals) <= Cardinality(Unheard)
    BY <2>1, Fewer
  <2> QED
    BY <2>2 DEF Inv, Typed, Heard, RefusalEndsCall
<1> QED
  BY <1>1, Invariance, PTL

\* A completion that fails for want of an answer was worth MaxRetries + 1 requests,
\* and every model was asked for each of them that the engine answered: neither a
\* retry of the client nor the fallback of the engine is skipped.
THEOREM AllAreTried == Spec => []TriedAll
<1>1. Inv => TriedAll
  <2> SUFFICES ASSUME Inv, pc = "failed", status \notin {"unauthenticated", "cancelled"}
               PROVE  /\ attempt = MaxRetries
                      /\ rpc = "complete" =>
                           \A m \in ToSet(models) : calls[m] >= MaxRetries + 1 - unheard
    BY DEF TriedAll
  <2>1. IsRetryable(status) /\ attempt = MaxRetries
    BY DEF Inv, Typed, Heard, IsRetryable, Codes
  <2> SUFFICES ASSUME rpc = "complete", NEW m \in ToSet(models)
               PROVE  calls[m] >= MaxRetries + 1 - unheard
    BY <2>1
  <2>2. Attempts \ Unheard \in SUBSET Exhausted(m)
    BY <2>1, RetryAssumption DEF Unheard, Exhausted, Attempts
  <2>3. Unheard \in SUBSET Attempts /\ Exhausted(m) \in SUBSET Attempts
    BY DEF Unheard, Exhausted
  <2>4. Cardinality(Attempts \ Unheard) = MaxRetries + 1 - Cardinality(Unheard)
    <3>1. Cardinality(Attempts \ Unheard) = Cardinality(Attempts) - Cardinality(Attempts \intersect Unheard)
      BY AttemptsFinite, FS_Difference
    <3>2. Attempts \intersect Unheard = Unheard
      BY <2>3
    <3>3. Cardinality(Attempts \ Unheard) = Cardinality(Attempts) - Cardinality(Unheard)
      BY <3>1, <3>2, Zenon
    <3>4. Cardinality(Unheard) \in Nat
      BY <2>3, Fewer
    <3> QED
      BY <3>3, <3>4, AttemptsFinite, RetryAssumption
  <2>5. /\ Cardinality(Attempts \ Unheard) \in Nat /\ Cardinality(Exhausted(m)) \in Nat
        /\ Cardinality(Attempts \ Unheard) <= Cardinality(Exhausted(m))
    BY <2>2, <2>3, Fewer
  <2>6. Cardinality(Unheard) \in Nat
    BY <2>3, Fewer
  <2>7. calls[m] \in Nat /\ calls[m] >= Cardinality(Exhausted(m)) /\ unheard \in Nat
        /\ Cardinality(Unheard) <= unheard
    BY ModelsAsked DEF Inv, Typed, AtLeast, Heard
  <2> QED
    BY <2>4, <2>5, <2>6, <2>7, RetryAssumption
<1> QED
  BY <1>1, Invariance, PTL

\* A call takes no longer than every timeout and every backoff together, whatever is
\* lost and whenever it is answered (with_retry, request_timeout_secs, max_retries).
THEOREM TimeIsBounded == Spec => []TimeBounded
<1>1. Timed => TimeBounded
  <2> SUFFICES ASSUME Timed
               PROVE  TimeBounded
    OBVIOUS
  <2>1. /\ attempt \in 0 .. MaxRetries /\ attempt \in Nat
        /\ timer \in Nat /\ elapsed \in Nat
    BY RetryAssumption DEF Timed, TypeOK, Attempts
  <2>2. elapsed + timer <= Spent(attempt) + RequestTimeout
    BY DEF Timed, InTime
  <2>3. Spent(attempt) <= Spent(MaxRetries)
    BY <2>1, SpentMonotone, RetryAssumption
  <2>4. Spent(attempt) \in Int /\ Spent(MaxRetries) \in Int /\ RequestTimeout \in Nat
    BY <2>1, SpentGrows, RetryAssumption, TimeoutAssumption
  <2>5. elapsed <= Spent(MaxRetries) + RequestTimeout
    BY <2>1, <2>2, <2>3, <2>4
  <2>6. /\ (MaxRetries + 1) * RequestTimeout = MaxRetries * RequestTimeout + RequestTimeout
        /\ MaxRetries * RequestTimeout \in Int
        /\ PowerOfTwo[MaxRetries] \in Nat
    BY RetryAssumption, TimeoutAssumption, Powers
  <2>7. elapsed <= (MaxRetries + 1) * RequestTimeout + PowerOfTwo[MaxRetries] - 1
    BY <2>1, <2>5, <2>6, TimeoutAssumption DEF Spent
  <2> QED
    BY <2>7 DEF TimeBounded, Timed
<1> QED
  BY <1>1, InitTimed, NextTimed, PTL DEF Spec
-----------------------------------------------------------------------------
(* Termination.                                                            *)

\* What with_retry may still do: attempts, awaits of this one, time to wait.
AttemptsLeft == MaxRetries - attempt
AwaitsLeft == IF pc = "start" THEN 2 ELSE IF pc = "backoff" THEN 1 ELSE 0

\* with_retry is over, or this measure gets smaller, in the lexicographic order.
ClientWindsDown ==
  \/ pc' \in Over
  \/ AttemptsLeft' < AttemptsLeft
  \/ /\ AttemptsLeft' = AttemptsLeft
     /\ \/ AwaitsLeft' < AwaitsLeft
        \/ AwaitsLeft' = AwaitsLeft /\ timer' < timer

\* What the engine may still do for the request of attempt i.
StepsLeft(i) ==
  IF request[i] = "sent" THEN 3
  ELSE IF request[i] = "primary" THEN 2
  ELSE IF request[i] = "fallback" THEN 1
  ELSE 0

EngineWindsDown ==
  \E i \in Attempts :
    /\ StepsLeft(i)' < StepsLeft(i)
    /\ \A j \in Attempts \ {i} : StepsLeft(j)' = StepsLeft(j)

\* Retries over fallbacks, on both sides of a channel that loses requests and answers,
\* come to an end: every step brings with_retry nearer to its own, or the engine
\* nearer to the end of one request while the client stands still.  The engine never
\* gives the client more to do, nor a request that is over anything, also when it is
\* still at work on requests that the client has given up (with_retry,
\* cognition_client/mod.rs:208, and _complete_with_fallback, llm_client.py).
CallsWindDown ==
  [][/\ AttemptsLeft \in Nat /\ timer \in Nat
     /\ \/ pc \notin Over /\ ClientWindsDown
        \/ UNCHANGED client /\ EngineWindsDown]_vars

\* An attempt ends.
LEMMA EndsWindsDown ==
  ASSUME attempt \in Nat, NEW code, Ends(code)
  PROVE  ClientWindsDown
<1>1. CASE Retries(code)
  <2>1. attempt' = attempt + 1
    BY <1>1 DEF Ends
  <2>2. AttemptsLeft' < AttemptsLeft
    BY <2>1, RetryAssumption DEF AttemptsLeft
  <2> QED
    BY <2>2 DEF ClientWindsDown
<1>2. CASE ~Retries(code)
  BY <1>2 DEF Ends, ClientWindsDown, Over
<1> QED
  BY <1>1, <1>2

\* The engine makes a step for the request of attempt i.
LEMMA RequestWindsDown ==
  ASSUME Typed, NEW i \in Attempts, NEW x, request' = [request EXCEPT ![i] = x],
         \/ request[i] = "sent" /\ x # "sent"
         \/ request[i] = "primary" /\ x \notin {"sent", "primary"}
         \/ request[i] = "fallback" /\ x \notin {"sent", "primary", "fallback"}
  PROVE  EngineWindsDown
<1>1. request'[i] = x /\ \A j \in Attempts \ {i} : request'[j] = request[j]
  BY DEF Typed
<1>2. StepsLeft(i)' < StepsLeft(i)
  BY <1>1 DEF StepsLeft
<1>3. \A j \in Attempts \ {i} : StepsLeft(j)' = StepsLeft(j)
  BY <1>1 DEF StepsLeft
<1> QED
  BY <1>2, <1>3 DEF EngineWindsDown

LEMMA ClientStepsDown ==
  ASSUME Timed, Client
  PROVE  pc \notin Over /\ ClientWindsDown
<1>0. attempt \in Nat /\ timer \in Nat
  BY RetryAssumption DEF Timed, TypeOK, Attempts
<1>1. pc \notin Over
  BY DEF Client, Calls, Hears, Breaks, TimesOut, WakesUp, Dropped, Tick, Over
<1>2. CASE Calls \/ WakesUp
  <2>1. AwaitsLeft' < AwaitsLeft
    BY <1>2 DEF Calls, WakesUp, Send, AwaitsLeft
  <2>2. AttemptsLeft' = AttemptsLeft
    BY <1>2 DEF Calls, WakesUp, AttemptsLeft
  <2> QED
    BY <1>1, <2>1, <2>2 DEF ClientWindsDown
<1>3. CASE Hears \/ Breaks \/ TimesOut
  <2>1. PICK code : Ends(code)
    BY <1>3 DEF Hears, Breaks, TimesOut
  <2> QED
    BY <1>0, <1>1, <2>1, EndsWindsDown
<1>4. CASE Dropped
  BY <1>1, <1>4 DEF Dropped, ClientWindsDown, Over
<1>5. CASE Tick
  <2>1. timer' < timer
    BY <1>0, <1>5 DEF Tick
  <2>2. AttemptsLeft' = AttemptsLeft /\ AwaitsLeft' = AwaitsLeft
    BY <1>5 DEF Tick, AttemptsLeft, AwaitsLeft
  <2> QED
    BY <1>1, <2>1, <2>2 DEF ClientWindsDown
<1> QED
  BY <1>2, <1>3, <1>4, <1>5 DEF Client

LEMMA EngineStepsDown ==
  ASSUME Inv, Engine
  PROVE  UNCHANGED client /\ EngineWindsDown
<1> USE DEF Inv
<1>1. PICK i \in Attempts :
        Complete(i) \/ CountTokens(i) \/ Completes(i) \/ Refused(i) \/ Fails(i) \/ Cancels(i)
  BY DEF Engine
<1>2. UNCHANGED client
  BY <1>1 DEF Complete, CountTokens, Completes, Refused, Fails, Cancels, Ask, Answer
<1>3. CASE Complete(i)
  BY <1>3, RequestWindsDown DEF Complete, Ask
<1>4. ASSUME NEW code \in Codes, Answer(i, code),
             request[i] = "sent" \/ request[i] = "primary" \/ request[i] = "fallback"
      PROVE  EngineWindsDown
  <2>1. code \notin {"sent", "primary", "fallback"}
    BY <1>4 DEF Codes
  <2>2. request' = [request EXCEPT ![i] = code]
    BY <1>4 DEF Answer
  <2> QED
    BY <1>4, <2>1, <2>2, RequestWindsDown
<1>5. CASE CountTokens(i)
  <2>1. PICK code \in {"ok", "unknown"} : Answer(i, code)
    BY <1>5 DEF CountTokens
  <2>2. code \in Codes /\ request[i] = "sent"
    BY <1>5, <2>1 DEF CountTokens, Codes
  <2> QED
    BY <1>2, <1>4, <2>1, <2>2
<1>6. CASE Completes(i) \/ Refused(i)
  <2>1. PICK code \in {"ok", "unauthenticated"} : Answer(i, code)
    BY <1>6 DEF Completes, Refused
  <2>2. code \in Codes
    BY <2>1 DEF Codes
  <2>3. request[i] = "primary" \/ request[i] = "fallback"
    BY <1>6 DEF Completes, Refused, Typed, Models
  <2> QED
    BY <1>2, <1>4, <2>1, <2>2, <2>3
<1>7. CASE Fails(i)
  <2>0. request[i] = "primary" \/ request[i] = "fallback"
    BY <1>7 DEF Fails, Models
  <2>1. CASE request[i] # Last(models)
    <3>1. ASSUME request[i] = "fallback"
          PROVE  FALSE
      <4>1. models = <<"primary", "fallback">>
        BY <3>1 DEF Typed
      <4>2. Last(models) = "fallback"
        BY <4>1 DEF Last
      <4> QED
        BY <2>1, <3>1, <4>2
    <3>2. request[i] = "primary"
      BY <2>0, <3>1
    <3>3. request' = [request EXCEPT ![i] = "fallback"]
      BY <1>7, <2>1 DEF Fails, Ask
    <3> QED
      BY <1>2, <3>2, <3>3, RequestWindsDown
  <2>2. CASE request[i] = Last(models)
    <3>1. Answer(i, "unavailable") /\ "unavailable" \in Codes
      BY <1>7, <2>2 DEF Fails, Codes
    <3> QED
      BY <1>2, <1>4, <2>0, <3>1
  <2> QED
    BY <2>1, <2>2
<1>8. CASE Cancels(i)
  BY <1>8, RequestWindsDown DEF Cancels, Models
<1> QED
  BY <1>1, <1>2, <1>3, <1>5, <1>6, <1>7, <1>8

\* A call to the engine, and what it leaves the engine to do, cannot go on for ever.
THEOREM CallsAlwaysWindDown == Spec => CallsWindDown
<1>1. ASSUME Inv, Timed, Next
      PROVE  /\ AttemptsLeft \in Nat /\ timer \in Nat
             /\ \/ pc \notin Over /\ ClientWindsDown
                \/ UNCHANGED client /\ EngineWindsDown
  <2>1. AttemptsLeft \in Nat /\ timer \in Nat
    BY <1>1, RetryAssumption DEF Timed, TypeOK, Attempts, AttemptsLeft
  <2> QED
    BY <1>1, <2>1, ClientStepsDown, EngineStepsDown DEF Next
<1>2. Inv /\ Timed /\ [Next]_vars =>
        [/\ AttemptsLeft \in Nat /\ timer \in Nat
         /\ \/ pc \notin Over /\ ClientWindsDown
            \/ UNCHANGED client /\ EngineWindsDown]_vars
  BY <1>1
<1> QED
  BY <1>2, Invariance, InitTimed, NextTimed, PTL DEF Spec, CallsWindDown
=============================================================================
