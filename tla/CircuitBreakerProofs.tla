------------------------- MODULE CircuitBreakerProofs -------------------------
(***************************************************************************)
(* What the operations on a circuit preserve, for the modules that keep    *)
(* one: stated for any circuit at any time.                                *)
(***************************************************************************)
EXTENDS CircuitBreaker, TLAPS

\* Letting a call in changes no count, and a half-open circuit is not closed.
LEMMA EntryStep ==
  ASSUME NEW c \in Circuit, ClosedBelow(c)
  PROVE  /\ OnEntry(c) \in Circuit /\ ClosedBelow(OnEntry(c))
         /\ OnEntry(c).failureCount = c.failureCount
<1>1. CASE c.state = "OPEN"  BY <1>1 DEF OnEntry, Circuit, ClosedBelow
<1>2. CASE c.state # "OPEN"  BY <1>2 DEF OnEntry
<1>3. QED  BY <1>1, <1>2

\* A success closes the circuit and clears its count.
LEMMA SuccessStep ==
  ASSUME NEW c \in Circuit
  PROVE  /\ OnSuccess(c) \in Circuit /\ ClosedBelow(OnSuccess(c))
         /\ OnSuccess(c).failureCount = 0
BY CircuitAssumption DEF OnSuccess, Circuit, ClosedBelow

\* A failure is counted, and opens the circuit exactly at the threshold.
LEMMA FailureCounted ==
  ASSUME NEW c \in Circuit, NEW t \in Nat, ClosedBelow(c)
  PROVE  /\ OnFailure(c, t) \in Circuit /\ ClosedBelow(OnFailure(c, t))
         /\ OnFailure(c, t).failureCount = c.failureCount + 1
<1>1. /\ c.state \in {"CLOSED", "OPEN", "HALF_OPEN"}
      /\ c.failureCount \in Nat /\ c.nextAttemptTime \in Nat
  BY DEF Circuit
<1>2. CASE c.failureCount + 1 >= FailureThreshold
  BY <1>1, <1>2, CircuitAssumption DEF OnFailure, Circuit, ClosedBelow
<1>3. CASE c.failureCount + 1 < FailureThreshold
  <2>1. OnFailure(c, t) = [state |-> c.state, failureCount |-> c.failureCount + 1,
                           nextAttemptTime |-> c.nextAttemptTime]
    BY <1>1, <1>3, CircuitAssumption DEF OnFailure
  <2>2. c.state = "CLOSED"  BY <1>1, <1>3, CircuitAssumption DEF ClosedBelow
  <2>3. QED  BY <1>1, <1>3, <2>1, <2>2 DEF Circuit, ClosedBelow
<1>4. QED  BY <1>1, <1>2, <1>3, CircuitAssumption
===============================================================================
