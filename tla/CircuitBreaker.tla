---------------------------- MODULE CircuitBreaker ----------------------------
(***************************************************************************)
(* The circuit of CircuitBreakerService: what one circuit is and what the  *)
(* service does to it, at time t.  The proxy and the health checks of the  *)
(* gateway each keep one circuit per downstream service, with options of   *)
(* their own.                                                              *)
(***************************************************************************)
EXTENDS Naturals

CONSTANTS FailureThreshold, ResetTimeout

ASSUME CircuitAssumption == FailureThreshold \in Nat \ {0} /\ ResetTimeout \in Nat

Circuit == [state : {"CLOSED", "OPEN", "HALF_OPEN"}, failureCount : Nat, nextAttemptTime : Nat]

NoCircuit == [state |-> "CLOSED", failureCount |-> 0, nextAttemptTime |-> 0]

\* Mutant: the reset timeout is not looked at.
RefusingForever(c, t) == c.state = "OPEN"
Refusing(c, t) == c.state = "OPEN" /\ t < c.nextAttemptTime

OnEntry(c) ==
  IF c.state = "OPEN"
  THEN [state |-> "HALF_OPEN", failureCount |-> c.failureCount,
        nextAttemptTime |-> c.nextAttemptTime]
  ELSE c

\* Mutant: closing the circuit keeps the count.
OnSuccessCounting(c) ==
  [state |-> "CLOSED", failureCount |-> c.failureCount, nextAttemptTime |-> c.nextAttemptTime]
OnSuccess(c) ==
  [state |-> "CLOSED", failureCount |-> 0, nextAttemptTime |-> c.nextAttemptTime]

OnFailure(c, t) ==
  LET n == c.failureCount + 1 IN
  IF n >= FailureThreshold
  THEN [state |-> "OPEN", failureCount |-> n, nextAttemptTime |-> t + ResetTimeout]
  ELSE [state |-> c.state, failureCount |-> n, nextAttemptTime |-> c.nextAttemptTime]

\* What the operations keep of a circuit: it is closed exactly while its count
\* is below the threshold.
ClosedBelow(c) == (c.state = "CLOSED") <=> (c.failureCount < FailureThreshold)
===============================================================================
