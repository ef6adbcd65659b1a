----------------------------- MODULE GatewayProxy -----------------------------
(***************************************************************************)
(* The api-gateway's calls to one downstream service:                      *)
(* ProxyService.proxyRequest under CircuitBreakerService, RetryService and *)
(* TimeoutService, with the fallbacks of createServiceFallback.            *)
(*                                                                         *)
(* The requests in flight share one circuit and one cached answer and      *)
(* interleave at every await: the wait for an attempt's answer and the     *)
(* wait between two attempts, each of any length.  What runs between two   *)
(* awaits is one step.  The clock counts what the circuit and the cache    *)
(* compare with it.                                                        *)
(***************************************************************************)
EXTENDS CircuitBreaker, FiniteSets

CONSTANTS Requests,
          MaxRetries, CacheTimeout,
          NoData,        \* nothing cached
          MaxTime,       \* bound: the clock
          MaxRestarts    \* bound: restarts of the gateway

ASSUME GatewayAssumption ==
  /\ IsFiniteSet(Requests)
  /\ MaxRetries \in Nat /\ CacheTimeout \in Nat
  /\ MaxTime \in Nat /\ MaxRestarts \in Nat
  /\ NoData \notin Nat

VARIABLES
  now,
  circuit,    \* circuits.get(`proxy-${serviceName}`)
  cachedAt,   \* when the cached catalogue was stored, or NoData
  req,        \* what each request is doing
  restarts

vars == <<now, circuit, cachedAt, req, restarts>>

Fallbacks == {"cached", "default", "unavailable"}
Answers   == {"none", "ok", "clientError", "lost"} \cup Fallbacks

\* catalogue: a GET to products-service, whose answer is cached; attempts: the
\* calls made; late: calls abandoned by their timeout and not answered yet.
Request == [pc : {"new", "waiting", "backoff", "done"}, catalogue : BOOLEAN,
            attempts : 0..(MaxRetries + 1), late : Nat, answer : Answers]

NotMade == [pc |-> "new", catalogue |-> FALSE, attempts |-> 0, late |-> 0, answer |-> "none"]

Init ==
  /\ now = 0 /\ restarts = 0
  /\ circuit = NoCircuit /\ cachedAt = NoData
  /\ req = [r \in Requests |-> NotMade]

-------------------------------------------------------------------------------
(* The fallback *)

Expired == cachedAt # NoData /\ now - cachedAt > CacheTimeout

FallbackAnswer(catalogue) ==
  IF ~ catalogue THEN "unavailable"
  ELSE IF cachedAt = NoData \/ Expired THEN "default" ELSE "cached"

\* An expired entry is deleted by the read that finds it expired.
CacheAfter(catalogue) == IF catalogue /\ Expired THEN NoData ELSE cachedAt

Put(r, pc, catalogue, attempts, late, answer) ==
  req' = [req EXCEPT ![r] = [pc |-> pc, catalogue |-> catalogue, attempts |-> attempts,
                             late |-> late, answer |-> answer]]

-------------------------------------------------------------------------------
(* A request *)

\* The circuit lets the request through to its first attempt, or it falls back.
Ask(r) ==
  /\ req[r].pc = "new"
  /\ \E catalogue \in BOOLEAN :
       IF Refusing(circuit, now)
       THEN /\ Put(r, "done", catalogue, 0, 0, FallbackAnswer(catalogue))
            /\ circuit' = circuit /\ cachedAt' = CacheAfter(catalogue)
       ELSE /\ Put(r, "waiting", catalogue, 1, 0, "none")
            /\ circuit' = OnEntry(circuit) /\ cachedAt' = cachedAt
  /\ UNCHANGED <<now, restarts>>

Succeeds(r) ==
  /\ req[r].pc = "waiting"
  /\ cachedAt' = IF req[r].catalogue THEN now ELSE cachedAt
  /\ circuit' = OnSuccess(circuit)
  /\ Put(r, "done", req[r].catalogue, req[r].attempts, req[r].late, "ok")
  /\ UNCHANGED <<now, restarts>>

\* Mutant: a 4xx counts like any other error.
ClientErrorCounted(r) ==
  /\ req[r].pc = "waiting"
  /\ circuit' = OnFailure(circuit, now)
  /\ Put(r, "done", req[r].catalogue, req[r].attempts, req[r].late, "clientError")
  /\ UNCHANGED <<now, cachedAt, restarts>>

\* A 4xx of the service goes back to the client past the retries and the circuit.
ClientError(r) ==
  /\ req[r].pc = "waiting"
  /\ Put(r, "done", req[r].catalogue, req[r].attempts, req[r].late, "clientError")
  /\ UNCHANGED <<now, circuit, cachedAt, restarts>>

\* Mutants: one attempt too many, and one too few.
RetryableOnceMore(r) == req[r].attempts <= MaxRetries + 1
RetryableOnceLess(r) == req[r].attempts < MaxRetries
Retryable(r) == req[r].attempts <= MaxRetries

\* Mutant: every failed attempt counts, as the flowchart of README.md draws it.
AttemptFailedCounted(r, late) ==
  /\ circuit' = OnFailure(circuit, now)
  /\ IF Retryable(r)
     THEN /\ Put(r, "backoff", req[r].catalogue, req[r].attempts, late, "none")
          /\ cachedAt' = cachedAt
     ELSE /\ Put(r, "done", req[r].catalogue, req[r].attempts, late,
                 FallbackAnswer(req[r].catalogue))
          /\ cachedAt' = CacheAfter(req[r].catalogue)

\* The attempt failed: another one later, or the failure is the circuit's and
\* the fallback answers.
AttemptFailed(r, late) ==
  IF Retryable(r)
  THEN /\ Put(r, "backoff", req[r].catalogue, req[r].attempts, late, "none")
       /\ UNCHANGED <<circuit, cachedAt>>
  ELSE /\ circuit' = OnFailure(circuit, now)
       /\ Put(r, "done", req[r].catalogue, req[r].attempts, late,
              FallbackAnswer(req[r].catalogue))
       /\ cachedAt' = CacheAfter(req[r].catalogue)

\* A 5xx, or a network error.
Fails(r) ==
  /\ req[r].pc = "waiting"
  /\ AttemptFailed(r, req[r].late)
  /\ UNCHANGED <<now, restarts>>

\* The timeout wins the race; the call goes on without anyone waiting for it.
TimesOut(r) ==
  /\ req[r].pc = "waiting"
  /\ AttemptFailed(r, req[r].late + 1)
  /\ UNCHANGED <<now, restarts>>

\* The next attempt, whatever the circuit's state is by now.
Retry(r) ==
  /\ req[r].pc = "backoff"
  /\ Put(r, "waiting", req[r].catalogue, req[r].attempts + 1, req[r].late, "none")
  /\ UNCHANGED <<now, circuit, cachedAt, restarts>>

\* An abandoned call is answered; a catalogue still goes to the cache.
LateAnswer(r) ==
  /\ req[r].late > 0
  /\ Put(r, req[r].pc, req[r].catalogue, req[r].attempts, req[r].late - 1, req[r].answer)
  /\ cachedAt' = cachedAt \/ (req[r].catalogue /\ cachedAt' = now)
  /\ UNCHANGED <<now, circuit, restarts>>

-------------------------------------------------------------------------------
Tick ==
  /\ now < MaxTime
  /\ now' = now + 1
  /\ UNCHANGED <<circuit, cachedAt, req, restarts>>

\* Circuits and cache live in memory, and so do the requests.
Restart ==
  /\ restarts < MaxRestarts
  /\ restarts' = restarts + 1
  /\ circuit' = NoCircuit /\ cachedAt' = NoData
  /\ req' = [r \in Requests |->
               IF req[r].pc \in {"waiting", "backoff"}
               THEN [pc |-> "done", catalogue |-> req[r].catalogue,
                     attempts |-> req[r].attempts, late |-> 0, answer |-> "lost"]
               ELSE [pc |-> req[r].pc, catalogue |-> req[r].catalogue,
                     attempts |-> req[r].attempts, late |-> 0, answer |-> req[r].answer]]
  /\ UNCHANGED now

AttemptEnds(r) == Succeeds(r) \/ ClientError(r) \/ Fails(r) \/ TimesOut(r)

Next ==
  \/ \E r \in Requests : Ask(r) \/ AttemptEnds(r) \/ Retry(r) \/ LateAnswer(r)
  \/ Tick \/ Restart

Spec == Init /\ [][Next]_vars

-------------------------------------------------------------------------------
(* Properties *)

TypeOK ==
  /\ now \in Nat /\ restarts \in 0..MaxRestarts
  /\ circuit \in Circuit /\ cachedAt \in Nat \cup {NoData}
  /\ req \in [Requests -> Request]

\* The circuit is closed exactly while fewer than FailureThreshold failures
\* are counted: so one failure of a half-open circuit opens it again, whatever
\* answers came back in between and in which order, and one success makes the
\* next FailureThreshold - 1 failures harmless.
ClosedBelowThreshold == ClosedBelow(circuit)

\* Only requests whose every attempt ended in a 5xx, a network error or a
\* timeout count against the service, and each of them once: no 4xx, no fallback
\* of an open circuit, no attempt that a later one makes good.  The circuit is
\* around the retries (proxy.service.ts:46); README.md:119-125 draws it inside
\* them, with a failure counted at each failed attempt, which this excludes.
Exhausted == {r \in Requests : req[r].answer \in Fallbacks /\ req[r].attempts > 0}
FailuresAreExhaustedRequests == circuit.failureCount <= Cardinality(Exhausted)

\* A request that falls back either never reached the service or used up all
\* its attempts; one that answers for the service has called it.
AnswersExplained ==
  \A r \in Requests :
    /\ req[r].answer \in Fallbacks => req[r].attempts \in {0, MaxRetries + 1}
    /\ req[r].answer \in {"ok", "clientError"} => req[r].attempts > 0
===============================================================================
