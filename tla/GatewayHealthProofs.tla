-------------------------- MODULE GatewayHealthProofs --------------------------
(***************************************************************************)
(* The safety of the gateway's health checks for any services, any number  *)
(* of overlapping checks and any threshold.                                *)
(*                                                                         *)
(* ReadyIsFresh and NoFalseAlarm speak of ended probes.  The inductive     *)
(* invariant adds what holds of the ones still under way: a probe that can *)
(* end well saw its service up, and no probe of a service that never went  *)
(* down can end badly.                                                     *)
(***************************************************************************)
EXTENDS GatewayHealth, CircuitBreakerProofs

Fresh ==
  \A c \in Checks, s \in Services :
    (probe[c][s] \in {"sent", "healthy"} \/ (probe[c][s] = "doubtful" /\ up[s]))
      => s \in seenUp[c]

Calm ==
  \A s \in Services : outages[s] = 0 =>
    /\ up[s] /\ circuit[s].state = "CLOSED" /\ healthCache[s] # "unhealthy"
    /\ \A c \in Checks : probe[c][s] \notin {"doubtful", "unhealthy"}

IInv == TypeOK /\ CircuitsClosedBelow /\ Fresh /\ Calm

-------------------------------------------------------------------------------
(* Circuits *)

\* Capping the count changes neither the type nor the comparison.
LEMMA CappedKeeps ==
  ASSUME NEW k \in Circuit, ClosedBelow(k)
  PROVE  Capped(k) \in Circuit /\ ClosedBelow(Capped(k))
<1>1. k.failureCount \in Nat /\ k.nextAttemptTime \in Nat /\ k.state \in {"CLOSED", "OPEN", "HALF_OPEN"}
  BY DEF Circuit
<1>2. CASE k.failureCount > FailureThreshold
  <2>1. Capped(k) = [state |-> k.state, nextAttemptTime |-> k.nextAttemptTime,
                     failureCount |-> FailureThreshold]
    BY <1>2 DEF Capped
  <2>2. ~ (k.failureCount < FailureThreshold)
    BY <1>1, <1>2, CircuitAssumption
  <2>3. k.state # "CLOSED"
    BY <2>2 DEF ClosedBelow
  <2> QED  BY <1>1, <2>1, <2>3, CircuitAssumption DEF Circuit, ClosedBelow
<1>3. CASE ~ (k.failureCount > FailureThreshold)
  <2>1. Capped(k) = [state |-> k.state, nextAttemptTime |-> k.nextAttemptTime,
                     failureCount |-> k.failureCount]
    BY <1>3 DEF Capped
  <2> QED  BY <1>1, <2>1 DEF Circuit, ClosedBelow
<1> QED  BY <1>2, <1>3

\* Time passes for a circuit without touching its state or count.
LEMMA TickKeeps ==
  ASSUME NEW k \in Circuit, ClosedBelow(k),
         NEW j, j = [state |-> k.state, failureCount |-> k.failureCount,
                     nextAttemptTime |-> IF k.nextAttemptTime = 0 THEN 0
                                         ELSE k.nextAttemptTime - 1]
  PROVE  j \in Circuit /\ ClosedBelow(j) /\ j.state = k.state
<1>1. k.failureCount \in Nat /\ k.nextAttemptTime \in Nat /\ k.state \in {"CLOSED", "OPEN", "HALF_OPEN"}
  BY DEF Circuit
<1>2. (IF k.nextAttemptTime = 0 THEN 0 ELSE k.nextAttemptTime - 1) \in Nat
  BY <1>1
<1> QED  BY <1>1, <1>2 DEF Circuit, ClosedBelow

-------------------------------------------------------------------------------
(* The inductive invariant *)

\* The invariant holds at first.
LEMMA InitInv == Init => IInv
<1> SUFFICES ASSUME Init PROVE IInv
  OBVIOUS
<1>1. NoCircuit \in Circuit /\ ClosedBelow(NoCircuit) /\ NoCircuit.state = "CLOSED"
  BY CircuitAssumption DEF NoCircuit, Circuit, ClosedBelow
<1>2. TypeOK
  BY <1>1, HealthAssumption DEF Init, TypeOK, Probes, Results, Pending
<1>3. CircuitsClosedBelow
  BY <1>1 DEF Init, CircuitsClosedBelow
<1>4. Fresh
  BY DEF Init, Fresh
<1>5. Calm
  BY <1>1 DEF Init, Calm
<1> QED  BY <1>2, <1>3, <1>4, <1>5 DEF IInv

\* The step that ends one probe keeps everything that it does not touch; what
\* it writes must fit.
LEMMA ConcludeStep ==
  ASSUME IInv, NEW c \in Checks, NEW s \in Services, NEW result \in Results, NEW k \in Circuit,
         ClosedBelow(k), Conclude(c, s, result, k),
         result = "healthy" => s \in seenUp[c],
         outages[s] = 0 => (result = "healthy" /\ k.state = "CLOSED")
  PROVE  IInv'
<1> USE DEF IInv, TypeOK
<1>1. /\ \A d \in Checks, t \in Services : probe'[d][t] = IF d = c /\ t = s THEN result ELSE probe[d][t]
      /\ \A t \in Services : circuit'[t] = IF t = s THEN k ELSE circuit[t]
      /\ \A t \in Services : healthCache'[t] = IF t = s THEN result ELSE healthCache[t]
      /\ up' = up /\ seenUp' = seenUp /\ outages' = outages
  BY DEF Conclude
<1>2. TypeOK'
  <2>1. probe' \in [Checks -> [Services -> Probes]]
    BY DEF Conclude, Probes
  <2>2. circuit' \in [Services -> Circuit]
    BY DEF Conclude
  <2>3. healthCache' \in [Services -> {"unknown"} \cup Results]
    BY DEF Conclude
  <2> QED  BY <2>1, <2>2, <2>3, <1>1
<1>3. CircuitsClosedBelow'
  BY <1>1 DEF CircuitsClosedBelow
<1>4. Fresh'
  BY <1>1 DEF Fresh, Results
<1>5. Calm'
  BY <1>1 DEF Calm
<1> QED  BY <1>2, <1>3, <1>4, <1>5

\* Every step keeps it.
LEMMA StepInv == IInv /\ [Next]_vars => IInv'
<1> SUFFICES ASSUME IInv, [Next]_vars PROVE IInv'
  OBVIOUS
<1> USE DEF IInv
<1>t. /\ circuit \in [Services -> Circuit] /\ up \in [Services -> BOOLEAN]
      /\ \A s \in Services : ClosedBelow(circuit[s])
  BY DEF TypeOK, CircuitsClosedBelow
<1>1. ASSUME NEW c \in Checks, CheckAll(c) PROVE IInv'
  <2>1. /\ \A d \in Checks, s \in Services : d # c => probe'[d][s] = probe[d][s]
        /\ \A d \in Checks : d # c => seenUp'[d] = seenUp[d]
        /\ seenUp'[c] = {s \in Services : up[s]}
        /\ \A s \in Services : probe'[c][s] =
             IF s \in Turned THEN "unhealthy" ELSE IF up[s] THEN "sent" ELSE "doubtful"
        /\ \A s \in Services : circuit'[s] = IF s \in Turned THEN circuit[s] ELSE OnEntry(circuit[s])
        /\ \A s \in Services : healthCache'[s] = IF s \in Turned THEN "unhealthy" ELSE healthCache[s]
        /\ up' = up /\ outages' = outages
    BY <1>1 DEF CheckAll, TypeOK
  <2>2. \A s \in Services : circuit'[s] \in Circuit /\ ClosedBelow(circuit'[s])
    BY <2>1, <1>t, EntryStep
  <2>3. \A s \in Services : circuit[s].state = "CLOSED" =>
          s \notin Turned /\ circuit'[s] = circuit[s]
    BY <2>1 DEF Turned, Refusing, OnEntry
  <2>4. TypeOK'
    <3>1. probe' \in [Checks -> [Services -> Probes]]
      BY <1>1 DEF CheckAll, TypeOK, Probes, Pending, Results
    <3>2. circuit' \in [Services -> Circuit]
      BY <1>1, <2>2 DEF CheckAll
    <3>3. healthCache' \in [Services -> {"unknown"} \cup Results]
      BY <1>1 DEF CheckAll, TypeOK, Results
    <3>4. seenUp' \in [Checks -> SUBSET Services]
      BY <1>1 DEF CheckAll, TypeOK
    <3> QED  BY <3>1, <3>2, <3>3, <3>4, <2>1 DEF TypeOK
  <2>5. CircuitsClosedBelow'
    BY <2>2 DEF CircuitsClosedBelow
  <2>6. Fresh'
    BY <2>1 DEF Fresh
  <2>7. Calm'
    BY <2>1, <2>3 DEF Calm
  <2> QED  BY <2>4, <2>5, <2>6, <2>7
<1>2. ASSUME NEW c \in Checks, NEW s \in Services, ProbeSucceeds(c, s) PROVE IInv'
  <2>1. /\ probe[c][s] \in Pending /\ up[s] /\ Conclude(c, s, "healthy", OnSuccess(circuit[s]))
    BY <1>2 DEF ProbeSucceeds
  <2>2. s \in seenUp[c]
    BY <2>1 DEF Fresh, Pending
  <2>3. /\ OnSuccess(circuit[s]) \in Circuit /\ ClosedBelow(OnSuccess(circuit[s]))
        /\ OnSuccess(circuit[s]).state = "CLOSED"
    BY <1>t, SuccessStep DEF OnSuccess
  <2> QED  BY <2>1, <2>2, <2>3, ConcludeStep DEF Results
<1>3. ASSUME NEW c \in Checks, NEW s \in Services, ProbeFails(c, s) PROVE IInv'
  <2> DEFINE k == Capped(OnFailure(circuit[s], 0))
  <2>1. probe[c][s] = "doubtful" /\ Conclude(c, s, "unhealthy", k)
    BY <1>3 DEF ProbeFails
  <2>2. outages[s] # 0
    BY <2>1 DEF Calm
  <2>3. OnFailure(circuit[s], 0) \in Circuit /\ ClosedBelow(OnFailure(circuit[s], 0))
    BY <1>t, FailureCounted
  <2>4. k \in Circuit /\ ClosedBelow(k)
    BY <2>3, CappedKeeps
  <2> HIDE DEF k
  <2> QED  BY <2>1, <2>2, <2>4, ConcludeStep DEF Results
<1>4. ASSUME NEW c \in Checks, Respond(c) PROVE IInv'
  <2>1. /\ \A d \in Checks, s \in Services : probe'[d][s] = IF d = c THEN "none" ELSE probe[d][s]
        /\ \A d \in Checks : d # c => seenUp'[d] = seenUp[d]
        /\ UNCHANGED <<circuit, healthCache, up, outages>>
    BY <1>4 DEF Respond, TypeOK
  <2>2. TypeOK'
    <3>1. probe' \in [Checks -> [Services -> Probes]]
      BY <1>4 DEF Respond, TypeOK, Probes
    <3>2. seenUp' \in [Checks -> SUBSET Services]
      BY <1>4 DEF Respond, TypeOK
    <3> QED  BY <3>1, <3>2, <2>1 DEF TypeOK
  <2>3. CircuitsClosedBelow'
    BY <2>1 DEF CircuitsClosedBelow
  <2>4. Fresh'
    BY <2>1 DEF Fresh
  <2>5. Calm'
    BY <2>1 DEF Calm
  <2> QED  BY <2>2, <2>3, <2>4, <2>5
<1>5. ASSUME NEW s \in Services, GoesDown(s) PROVE IInv'
  <2>1. /\ \A d \in Checks, t \in Services : probe'[d][t] =
             IF t = s /\ probe[d][t] = "sent" THEN "doubtful" ELSE probe[d][t]
        /\ \A t \in Services : up'[t] = IF t = s THEN FALSE ELSE up[t]
        /\ \A t \in Services : t # s => outages'[t] = outages[t]
        /\ outages[s] < MaxOutages /\ outages'[s] = outages[s] + 1 /\ outages[s] \in Nat
        /\ UNCHANGED <<circuit, healthCache, seenUp>>
    BY <1>5, HealthAssumption DEF GoesDown, TypeOK
  <2>2. TypeOK'
    <3>1. probe' \in [Checks -> [Services -> Probes]]
      BY <1>5 DEF GoesDown, TypeOK, Probes, Pending
    <3>2. up' \in [Services -> BOOLEAN]
      BY <1>5 DEF GoesDown, TypeOK
    <3>3. outages' \in [Services -> 0..MaxOutages]
      <4>1. outages[s] + 1 \in 0..MaxOutages
        BY <2>1, HealthAssumption
      <4> QED  BY <1>5, <4>1 DEF GoesDown, TypeOK
    <3> QED  BY <3>1, <3>2, <3>3, <2>1 DEF TypeOK
  <2>3. CircuitsClosedBelow'
    BY <2>1 DEF CircuitsClosedBelow
  <2>4. Fresh'
    BY <2>1 DEF Fresh
  <2>5. outages'[s] # 0
    BY <2>1
  <2>6. Calm'
    BY <2>1, <2>5 DEF Calm
  <2> QED  BY <2>2, <2>3, <2>4, <2>6
<1>6. ASSUME NEW s \in Services, ComesUp(s) PROVE IInv'
  <2>1. /\ \A t \in Services : up'[t] = IF t = s THEN TRUE ELSE up[t]
        /\ \A d \in Checks : seenUp'[d] = IF Idle(d) THEN {} ELSE seenUp[d] \cup {s}
        /\ UNCHANGED <<circuit, healthCache, probe, outages>>
    BY <1>6 DEF ComesUp, TypeOK
  <2>2. TypeOK'
    <3>1. up' \in [Services -> BOOLEAN]
      BY <1>6 DEF ComesUp, TypeOK
    <3>2. seenUp' \in [Checks -> SUBSET Services]
      BY <1>6 DEF ComesUp, TypeOK
    <3> QED  BY <3>1, <3>2, <2>1 DEF TypeOK
  <2>3. CircuitsClosedBelow'
    BY <2>1 DEF CircuitsClosedBelow
  <2>4. Fresh'
    <3> SUFFICES ASSUME NEW d \in Checks, NEW t \in Services,
                        probe[d][t] \in {"sent", "healthy"} \/ (probe[d][t] = "doubtful" /\ up'[t])
                 PROVE  t \in seenUp'[d]
      BY <2>1 DEF Fresh
    <3>1. ~ Idle(d)
      BY DEF Idle
    <3>2. CASE t = s
      BY <2>1, <3>1, <3>2
    <3>3. CASE t # s
      BY <2>1, <3>1, <3>3 DEF Fresh
    <3> QED  BY <3>2, <3>3
  <2>5. Calm'
    BY <2>1 DEF Calm
  <2> QED  BY <2>2, <2>3, <2>4, <2>5
<1>7. CASE Tick
  <2>1. /\ \A s \in Services : circuit'[s] \in Circuit /\ ClosedBelow(circuit'[s])
                               /\ circuit'[s].state = circuit[s].state
        /\ UNCHANGED <<healthCache, probe, up, seenUp, outages>>
    BY <1>7, <1>t, TickKeeps DEF Tick
  <2>2. circuit' \in [Services -> Circuit]
    BY <1>7, <2>1 DEF Tick
  <2>3. TypeOK'
    BY <2>1, <2>2 DEF TypeOK
  <2>4. CircuitsClosedBelow'
    BY <2>1 DEF CircuitsClosedBelow
  <2>5. Fresh'
    BY <2>1 DEF Fresh
  <2>6. Calm'
    BY <2>1 DEF Calm
  <2> QED  BY <2>3, <2>4, <2>5, <2>6
<1>8. CASE UNCHANGED vars
  BY <1>8 DEF vars, TypeOK, CircuitsClosedBelow, Fresh, Calm
<1> QED  BY <1>1, <1>2, <1>3, <1>4, <1>5, <1>6, <1>7, <1>8 DEF Next, ProbeEnds

\* The invariant holds of every behaviour.
LEMMA Invariance == Spec => []IInv
BY InitInv, StepInv, PTL DEF Spec

-------------------------------------------------------------------------------
\* The variables of the health checks keep their types.
THEOREM HealthTypes == Spec => []TypeOK
<1>1. IInv => TypeOK
  BY DEF IInv
<1> QED  BY Invariance, <1>1, PTL

\* Every circuit of a health check is closed exactly below its threshold.
THEOREM HealthCircuits == Spec => []CircuitsClosedBelow
<1>1. IInv => CircuitsClosedBelow
  BY DEF IInv
<1> QED  BY Invariance, <1>1, PTL

\* A "ready" gateway has seen every service up during the check that says so.
THEOREM ReadyMeansSeen == Spec => []ReadyIsFresh
<1>1. IInv => ReadyIsFresh
  <2> SUFFICES ASSUME IInv, NEW c \in Checks, Settled(c),
                      Ready(c) \/ OverallStatus(c) = "healthy"
               PROVE  seenUp[c] = Services
    BY DEF ReadyIsFresh
  <2>1. \A s \in Services : probe[c][s] = "healthy"
    <3>1. CASE Ready(c)
      BY <3>1 DEF Ready, HealthStatus, Settled, Results
    <3>2. CASE OverallStatus(c) = "healthy"
      BY <3>2 DEF OverallStatus
    <3> QED  BY <3>1, <3>2
  <2>2. \A s \in Services : s \in seenUp[c]
    BY <2>1 DEF IInv, Fresh
  <2>3. seenUp[c] \subseteq Services
    BY DEF IInv, TypeOK
  <2> QED  BY <2>2, <2>3
<1> QED  BY Invariance, <1>1, PTL

\* A service that never went down is never called unhealthy.
THEOREM NoAlarmWithoutOutage == Spec => []NoFalseAlarm
<1>1. IInv => NoFalseAlarm
  <2> SUFFICES ASSUME IInv, NEW s \in Services, outages[s] = 0
               PROVE  /\ ServiceHealth(s) # "unhealthy" /\ circuit[s].state = "CLOSED"
                      /\ \A c \in Checks : probe[c][s] # "unhealthy"
                      /\ \A c \in Checks : Settled(c) => OverallStatus(c) # "unhealthy"
    BY DEF NoFalseAlarm
  <2>1. /\ ServiceHealth(s) # "unhealthy" /\ circuit[s].state = "CLOSED"
        /\ \A c \in Checks : probe[c][s] # "unhealthy"
    BY DEF IInv, Calm, ServiceHealth
  <2>2. ASSUME NEW c \in Checks, Settled(c) PROVE OverallStatus(c) # "unhealthy"
    <3>1. probe[c][s] = "healthy"
      BY <2>1, <2>2 DEF Settled, Results
    <3> QED  BY <3>1 DEF OverallStatus
  <2> QED  BY <2>1, <2>2
<1> QED  BY Invariance, <1>1, PTL
===============================================================================
