---------------------------- MODULE GatewayHealth ----------------------------
(***************************************************************************)
(* The health checks of the api-gateway: HealthCheckService probes every   *)
(* downstream service through a circuit of its own, for the endpoints      *)
(* /health/services and /health/ready, and remembers the last result of    *)
(* each for /health/services/:serviceName.                                 *)
(*                                                                         *)
(* Checks overlap; a probe ends by an answer or by its timeout, in any     *)
(* order.  Times are relative to now: a Tick brings the end of each open   *)
(* circuit's wait nearer by one.                                           *)
(***************************************************************************)
EXTENDS CircuitBreaker, FiniteSets

CONSTANTS Services, Checks, MaxOutages   \* bound: how often a service goes down

ASSUME HealthAssumption == IsFiniteSet(Services) /\ MaxOutages \in Nat

VARIABLES
  circuit,      \* circuits.get(`health-${serviceName}`), of each service
  healthCache,  \* the status last stored of each service, or "unknown"
  probe,        \* probe[c][s]: what check c knows of service s
  up,           \* which services answer (the environment)
  seenUp,       \* history: the services that were up at some time of check c
  outages       \* history: how often each service went down

vars == <<circuit, healthCache, probe, up, seenUp, outages>>

\* "sent": on its way to a service that is up; "doubtful": the service was down
\* at some time since, so it may or may not be answered; then the result.
Pending == {"sent", "doubtful"}
Results == {"healthy", "unhealthy"}
Probes  == {"none"} \cup Pending \cup Results

Idle(c)    == \A s \in Services : probe[c][s] = "none"
Settled(c) == \A s \in Services : probe[c][s] \in Results

Init ==
  /\ circuit = [s \in Services |-> NoCircuit]
  /\ healthCache = [s \in Services |-> "unknown"]
  /\ probe = [c \in Checks |-> [s \in Services |-> "none"]]
  /\ up = [s \in Services |-> TRUE]
  /\ seenUp = [c \in Checks |-> {}]
  /\ outages = [s \in Services |-> 0]

\* Only the comparison with the threshold looks at the count: failures above
\* it are not told apart.
Capped(k) ==
  [state |-> k.state, nextAttemptTime |-> k.nextAttemptTime,
   failureCount |-> IF k.failureCount > FailureThreshold THEN FailureThreshold
                    ELSE k.failureCount]

-------------------------------------------------------------------------------
(* checkAllServices *)

Turned == {s \in Services : Refusing(circuit[s], 0)}

\* Every service is probed unless its circuit refuses, which throws and counts
\* as unhealthy at once.
CheckAll(c) ==
  /\ Idle(c)
  /\ probe' = [probe EXCEPT ![c] = [s \in Services |->
                 IF s \in Turned THEN "unhealthy" ELSE IF up[s] THEN "sent" ELSE "doubtful"]]
  /\ circuit' = [s \in Services |-> IF s \in Turned THEN circuit[s] ELSE OnEntry(circuit[s])]
  /\ healthCache' = [s \in Services |-> IF s \in Turned THEN "unhealthy" ELSE healthCache[s]]
  /\ seenUp' = [seenUp EXCEPT ![c] = {s \in Services : up[s]}]
  /\ UNCHANGED <<up, outages>>

Conclude(c, s, result, k) ==
  /\ probe' = [probe EXCEPT ![c][s] = result]
  /\ circuit' = [circuit EXCEPT ![s] = k]
  /\ healthCache' = [healthCache EXCEPT ![s] = result]
  /\ UNCHANGED <<up, seenUp, outages>>

\* The service answers 2xx in time.
ProbeSucceeds(c, s) ==
  /\ probe[c][s] \in Pending /\ up[s]
  /\ Conclude(c, s, "healthy", OnSuccess(circuit[s]))

\* Mutant: the timeout applies to every probe of the check at once.
ProbeFailsTogether(c, s) ==
  /\ probe[c][s] = "doubtful"
  /\ probe' = [probe EXCEPT ![c] = [t \in Services |-> "unhealthy"]]
  /\ circuit' = [circuit EXCEPT ![s] = Capped(OnFailure(circuit[s], 0))]
  /\ healthCache' = [t \in Services |-> "unhealthy"]
  /\ UNCHANGED <<up, seenUp, outages>>

\* Mutant: only a success is remembered.
ProbeFailsUnstored(c, s) ==
  /\ probe[c][s] = "doubtful"
  /\ probe' = [probe EXCEPT ![c][s] = "unhealthy"]
  /\ circuit' = [circuit EXCEPT ![s] = Capped(OnFailure(circuit[s], 0))]
  /\ UNCHANGED <<healthCache, up, seenUp, outages>>

\* Any other answer, an error or the timeout.  The circuit counts it and calls
\* its fallback, which throws.
ProbeFails(c, s) ==
  /\ probe[c][s] = "doubtful"
  /\ Conclude(c, s, "unhealthy", Capped(OnFailure(circuit[s], 0)))

\* allSettled: the response is built when the last probe has ended.
Respond(c) ==
  /\ Settled(c)
  /\ probe' = [probe EXCEPT ![c] = [s \in Services |-> "none"]]
  /\ seenUp' = [seenUp EXCEPT ![c] = {}]
  /\ UNCHANGED <<circuit, healthCache, up, outages>>

\* HealthController.getServiceHealth
ServiceHealth(s) == healthCache[s]

\* HealthController.getServicesHealth
OverallStatus(c) ==
  IF \A s \in Services : probe[c][s] = "healthy" THEN "healthy"
  ELSE IF \E s \in Services : probe[c][s] = "healthy" THEN "degraded"
  ELSE "unhealthy"

\* HealthService.getHealthStatus, for getReadyStatus: never "unhealthy"
\* Mutant: one healthy service is enough.
HealthStatusOfAny(c) ==
  IF \E s \in Services : probe[c][s] = "healthy" THEN "healthy" ELSE "degraded"
HealthStatus(c) ==
  IF \E s \in Services : probe[c][s] = "unhealthy" THEN "degraded" ELSE "healthy"

Ready(c) == HealthStatus(c) = "healthy"

-------------------------------------------------------------------------------
(* The services and time *)

GoesDown(s) ==
  /\ up[s] /\ outages[s] < MaxOutages
  /\ up' = [up EXCEPT ![s] = FALSE]
  /\ outages' = [outages EXCEPT ![s] = @ + 1]
  /\ probe' = [c \in Checks |->
                 IF probe[c][s] = "sent" THEN [probe[c] EXCEPT ![s] = "doubtful"] ELSE probe[c]]
  /\ UNCHANGED <<circuit, healthCache, seenUp>>

ComesUp(s) ==
  /\ ~ up[s]
  /\ up' = [up EXCEPT ![s] = TRUE]
  /\ seenUp' = [c \in Checks |-> IF Idle(c) THEN {} ELSE seenUp[c] \cup {s}]
  /\ UNCHANGED <<circuit, healthCache, probe, outages>>

Tick ==
  /\ \E s \in Services : circuit[s].nextAttemptTime > 0
  /\ circuit' = [s \in Services |->
       [state |-> circuit[s].state, failureCount |-> circuit[s].failureCount,
        nextAttemptTime |-> IF circuit[s].nextAttemptTime = 0 THEN 0
                            ELSE circuit[s].nextAttemptTime - 1]]
  /\ UNCHANGED <<healthCache, probe, up, seenUp, outages>>

ProbeEnds(c, s) == ProbeSucceeds(c, s) \/ ProbeFails(c, s)

Next ==
  \/ \E c \in Checks : CheckAll(c) \/ Respond(c) \/ \E s \in Services : ProbeEnds(c, s)
  \/ \E s \in Services : GoesDown(s) \/ ComesUp(s)
  \/ Tick

Spec == Init /\ [][Next]_vars

\* Probes end by their timeout, responses are sent, time passes, and somebody
\* (a load balancer, a scraper) keeps asking.
FairSpec ==
  /\ Spec
  /\ WF_vars(Tick)
  /\ \A c \in Checks : WF_vars(CheckAll(c) \/ Respond(c))
  /\ \A c \in Checks, s \in Services : WF_vars(ProbeEnds(c, s))

-------------------------------------------------------------------------------
(* Properties *)

TypeOK ==
  /\ circuit \in [Services -> Circuit]
  /\ healthCache \in [Services -> {"unknown"} \cup Results]
  /\ probe \in [Checks -> [Services -> Probes]]
  /\ up \in [Services -> BOOLEAN]
  /\ seenUp \in [Checks -> SUBSET Services]
  /\ outages \in [Services -> 0..MaxOutages]

\* Each circuit is closed exactly below its threshold, however the probes of
\* overlapping checks end.
CircuitsClosedBelow == \A s \in Services : ClosedBelow(circuit[s])

\* "ready", or overall "healthy", is answered only if every service was up at
\* some time during this very check: no remembered status and no refusing
\* circuit stands in for one.
ReadyIsFresh ==
  \A c \in Checks :
    Settled(c) /\ (Ready(c) \/ OverallStatus(c) = "healthy") => seenUp[c] = Services

\* A service that never failed is not called unhealthy because others did, its
\* circuit stays closed, and it keeps the overall status from being unhealthy.
NoFalseAlarm ==
  \A s \in Services : outages[s] = 0 =>
    /\ ServiceHealth(s) # "unhealthy" /\ circuit[s].state = "CLOSED"
    /\ \A c \in Checks : probe[c][s] # "unhealthy"
    /\ \A c \in Checks : Settled(c) => OverallStatus(c) # "unhealthy"

\* A service that is up for good is reported healthy for good, although its
\* circuit was open and late probes of the outage may still fail ...
Recovery == \A s \in Services : <>[]up[s] => <>[](ServiceHealth(s) = "healthy")

\* ... and one that is down for good is reported unhealthy for good, although
\* half-open circuits let probes through again and again.
Detection == \A s \in Services : <>[](~ up[s]) => <>[](ServiceHealth(s) = "unhealthy")
===============================================================================
