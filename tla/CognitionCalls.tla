---------------------------- MODULE CognitionCalls ----------------------------
(***************************************************************************)
(* One call of the orchestrator to the cognition engine: with_retry of     *)
(* cognition_client/mod.rs, which sends a request, hears an answer, an     *)
(* error or nothing, backs off and tries again; and the engine's own       *)
(* fallback (llm_client.py, service.py), which asks up to two models for   *)
(* each request and may still be at work on one that the client gave up.   *)
(***************************************************************************)
EXTENDS Integers, FiniteSets, SequencesExt

CONSTANTS
  MaxRetries,     \* max_retries
  RequestTimeout  \* request_timeout_secs, in units of the first backoff

ASSUME RetryAssumption == MaxRetries \in Nat
ASSUME TimeoutAssumption == RequestTimeout \in Nat \ {0}

VARIABLES
  rpc,       \* the RPC called
  models,    \* models_to_try
  accepted,  \* models whose provider accepts the API key
  pc,        \* the await of with_retry, or how it ended
  attempt,
  status,    \* the code of the last attempt
  timer,     \* time left in this await
  elapsed,   \* time since the call began
  request,   \* where each attempt's request is
  calls,     \* acompletion calls made of each model
  unheard    \* attempts that ended without an answer of the engine

config == <<rpc, models, accepted>>
client == <<pc, attempt, status, timer, elapsed, unheard>>
engine == <<request, calls>>
vars == <<config, client, engine>>

Models == {"primary", "fallback"}
Attempts == 0 .. MaxRetries
Codes == {"ok", "unavailable", "resource_exhausted", "deadline_exceeded", "unknown",
          "unauthenticated", "cancelled"}
Over == {"done", "failed", "dropped"}

TypeOK ==
  /\ rpc \in {"complete", "count_tokens"}
  /\ models \in {<<"primary">>, <<"primary", "fallback">>}
  /\ accepted \subseteq Models
  /\ pc \in {"start", "waiting", "backoff"} \union Over
  /\ attempt \in Attempts
  /\ status \in Codes
  /\ timer \in Nat /\ elapsed \in Nat
  /\ request \in [Attempts -> {"none", "sent", "gone"} \union Models \union Codes]
  /\ calls \in [Models -> Nat]
  /\ unheard \in Nat

Init ==
  /\ rpc \in {"complete", "count_tokens"}
  /\ models \in {<<"primary">>, <<"primary", "fallback">>}
  /\ accepted \in SUBSET Models
  /\ pc = "start" /\ attempt = 0 /\ status = "ok"
  /\ timer = 0 /\ elapsed = 0 /\ unheard = 0
  /\ request = [i \in Attempts |-> "none"]
  /\ calls = [m \in Models |-> 0]

-----------------------------------------------------------------------------
(* with_retry.                                                             *)

\* Fault: an authentication error is retried.
IsRetryableAuth(code) ==
  code \in {"unavailable", "resource_exhausted", "deadline_exceeded", "unknown",
            "unauthenticated"}

\* RESOURCE_EXHAUSTED does not occur: complete turns a RateLimitError of the last
\* model into AllModelsFailedError.
IsRetryable(code) ==
  code \in {"unavailable", "resource_exhausted", "deadline_exceeded", "unknown"}

\* 2u64.pow(n).
PowerOfTwo[n \in Nat] == IF n = 0 THEN 1 ELSE 2 * PowerOfTwo[n - 1]

\* Fault: the exponent is not reduced by one.
BackoffLong(n) == PowerOfTwo[n]

\* 200 ms times this, before the n-th retry.
Backoff(n) == PowerOfTwo[n - 1]

\* The request of attempt n goes out, and its timeout runs.
Send(n) ==
  /\ request' = [request EXCEPT ![n] = "sent"]
  /\ pc' = "waiting"
  /\ timer' = RequestTimeout

Calls ==
  /\ pc = "start"
  /\ Send(0)
  /\ UNCHANGED <<config, attempt, status, elapsed, unheard, calls>>

Retries(code) == IsRetryable(code) /\ attempt < MaxRetries

\* The attempt ends with this code: answer, retry later, or give up.
Ends(code) ==
  /\ status' = code
  /\ IF Retries(code)
     THEN /\ attempt' = attempt + 1
          /\ timer' = Backoff(attempt + 1)
          /\ pc' = "backoff"
     ELSE /\ pc' = IF code = "ok" THEN "done" ELSE "failed"
          /\ UNCHANGED <<attempt, timer>>
  /\ UNCHANGED <<config, elapsed, engine>>

\* The engine's answer to this attempt.
Hears ==
  /\ pc = "waiting"
  /\ request[attempt] \in Codes
  /\ Ends(request[attempt])
  /\ UNCHANGED unheard

\* The channel breaks, or the engine is not reached: tonic says UNAVAILABLE or
\* UNKNOWN, wherever the request is.
Breaks ==
  /\ pc = "waiting"
  /\ \E code \in {"unavailable", "unknown"} : Ends(code)
  /\ unheard' = unheard + 1

\* Fault: the endpoint is built without a timeout.
TimesOutNever == FALSE

\* The endpoint's timeout.  tonic says CANCELLED or DEADLINE_EXCEEDED.
TimesOut ==
  /\ pc = "waiting" /\ timer = 0
  /\ \E code \in {"cancelled", "deadline_exceeded"} : Ends(code)
  /\ unheard' = unheard + 1

WakesUp ==
  /\ pc = "backoff" /\ timer = 0
  /\ Send(attempt)
  /\ UNCHANGED <<config, attempt, status, elapsed, unheard, calls>>

\* The turn that made the call is dropped.
Dropped ==
  /\ pc \in {"waiting", "backoff"}
  /\ pc' = "dropped"
  /\ UNCHANGED <<config, attempt, status, timer, elapsed, unheard, engine>>

Tick ==
  /\ pc \in {"waiting", "backoff"} /\ timer > 0
  /\ timer' = timer - 1 /\ elapsed' = elapsed + 1
  /\ UNCHANGED <<config, pc, attempt, status, unheard, engine>>

-----------------------------------------------------------------------------
(* The engine.                                                             *)

\* The engine asks model m for request i.
Ask(i, m) ==
  /\ request' = [request EXCEPT ![i] = m]
  /\ calls' = [calls EXCEPT ![m] = @ + 1]
  /\ UNCHANGED <<config, client>>

Answer(i, code) ==
  /\ request' = [request EXCEPT ![i] = code]
  /\ UNCHANGED <<config, client, calls>>

\* Complete: the primary model is asked.
Complete(i) ==
  /\ rpc = "complete" /\ request[i] = "sent"
  /\ Ask(i, "primary")

\* CountTokens answers, or raises what grpc reports as UNKNOWN.
CountTokens(i) ==
  /\ rpc = "count_tokens" /\ request[i] = "sent"
  /\ \E code \in {"ok", "unknown"} : Answer(i, code)

\* The model answers with content.
Completes(i) ==
  /\ request[i] \in accepted
  /\ Answer(i, "ok")

\* AuthError is raised at once.
Refused(i) ==
  /\ request[i] \in Models \ accepted
  /\ Answer(i, "unauthenticated")

\* Fault: a failure of the primary model is passed on.
FailsAtOnce(i) ==
  /\ request[i] \in Models
  /\ Answer(i, "unavailable")

\* Fault: after the last model the engine begins again.
FailsRound(i) ==
  /\ request[i] \in Models
  /\ Ask(i, IF request[i] # Last(models) THEN "fallback" ELSE "primary")

\* The model fails otherwise, or has nothing to say: the next one is asked, and
\* after the last AllModelsFailedError is raised whatever the error was.
Fails(i) ==
  /\ request[i] \in Models
  /\ IF request[i] # Last(models) THEN Ask(i, "fallback")
     ELSE Answer(i, "unavailable")

\* The client waits for attempt i no more and has reset its stream: the handler
\* is cancelled, or the request never arrives.
Cancels(i) ==
  /\ i < attempt \/ pc \in Over
  /\ request[i] \in {"sent"} \union Models
  /\ request' = [request EXCEPT ![i] = "gone"]
  /\ UNCHANGED <<config, client, calls>>

Client == Calls \/ Hears \/ Breaks \/ TimesOut \/ WakesUp \/ Dropped \/ Tick

Engine ==
  \E i \in Attempts :
    Complete(i) \/ CountTokens(i) \/ Completes(i) \/ Refused(i) \/ Fails(i) \/ Cancels(i)

Next == Client \/ Engine

\* Time passes and the task is polled; nothing is expected of the engine.
Spec ==
  /\ Init /\ [][Next]_vars
  /\ WF_vars(Tick \/ TimesOut \/ WakesUp)

-----------------------------------------------------------------------------
(* Properties.                                                             *)

\* Retries of the client over fallbacks of the engine: the call asks each model
\* at most once per request sent, and sends at most MaxRetries + 1, however
\* requests are lost and given up while the engine works on them.
WorkBounded ==
  \A m \in Models :
    /\ calls[m] <= Cardinality({i \in Attempts : request[i] # "none"})
    /\ calls[m] <= MaxRetries + 1

\* The longest a turn waits for one call: every request's timeout and every
\* backoff (with_retry, cognition_client/mod.rs:208).  (With the types of all
\* variables, which bound the attempts.)
TimeBounded ==
  /\ TypeOK
  /\ elapsed <= (MaxRetries + 1) * RequestTimeout + PowerOfTwo[MaxRetries] - 1

\* A completion that fails for want of an answer has been tried MaxRetries + 1
\* times, and each model it may use was asked by every request but those that
\* nobody answered: the fallback is not skipped, nor a retry.
TriedAll ==
  pc = "failed" /\ status \notin {"unauthenticated", "cancelled"} =>
    /\ attempt = MaxRetries
    /\ rpc = "complete" =>
         \A m \in ToSet(models) : calls[m] >= MaxRetries + 1 - unheard

\* A rejected key ends the call: of the requests before the current one, those
\* that the engine refused all went unheard, whenever it refused them.
RefusalEndsCall ==
  Cardinality({i \in Attempts : i < attempt /\ request[i] = "unauthenticated"}) <= unheard

\* with_retry returns, or is dropped.
CallEnds == pc = "waiting" ~> pc \in Over
=============================================================================
