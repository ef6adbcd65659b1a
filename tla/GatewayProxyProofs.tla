-------------------------- MODULE GatewayProxyProofs --------------------------
(***************************************************************************)
(* Proofs about GatewayProxy for any number of requests, any threshold and *)
(* any number of retries.  The invariant adds to the properties what the   *)
(* retry loop keeps of each request; a step of request r changes req[r]    *)
(* alone, so each lemma looks at r and at the circuit.                     *)
(***************************************************************************)
EXTENDS GatewayProxy, CircuitBreakerProofs, FiniteSetTheorems

\* What holds of a request between its steps.
LoopInv ==
  \A r \in Requests :
    /\ req[r].pc = "new" => req[r].attempts = 0 /\ req[r].answer = "none"
    /\ req[r].pc \in {"waiting", "backoff"} => req[r].attempts > 0 /\ req[r].answer = "none"
    /\ req[r].pc = "backoff" => req[r].attempts <= MaxRetries

GatewayInv ==
  LoopInv /\ ClosedBelowThreshold /\ AnswersExplained /\ FailuresAreExhaustedRequests

\* What a record put for request r must be like to keep the loop's invariant.
Fine(n) ==
  /\ n \in Request
  /\ n.pc \in {"waiting", "backoff"} => n.attempts > 0 /\ n.answer = "none"
  /\ n.pc = "backoff" => n.attempts <= MaxRetries
  /\ n.pc # "new"
  /\ n.answer \in Fallbacks => n.attempts \in {0, MaxRetries + 1}
  /\ n.answer \in {"ok", "clientError"} => n.attempts > 0

\* What CircuitBreakerProofs says of this circuit.
LEMMA CircuitSteps ==
  ASSUME TypeOK, ClosedBelowThreshold
  PROVE  /\ OnEntry(circuit) \in Circuit /\ ClosedBelow(OnEntry(circuit))
         /\ OnSuccess(circuit) \in Circuit /\ ClosedBelow(OnSuccess(circuit))
         /\ OnFailure(circuit, now) \in Circuit /\ ClosedBelow(OnFailure(circuit, now))
         /\ OnEntry(circuit).failureCount = circuit.failureCount
         /\ OnSuccess(circuit).failureCount = 0
         /\ OnFailure(circuit, now).failureCount = circuit.failureCount + 1
<1>1. circuit \in Circuit /\ now \in Nat /\ ClosedBelow(circuit)
  BY DEF TypeOK, ClosedBelowThreshold
<1>2. QED  BY <1>1, EntryStep, SuccessStep, FailureCounted

\* Putting a fine record keeps the type of req and what holds of requests.
LEMMA PutKeeps ==
  ASSUME TypeOK, LoopInv, AnswersExplained, NEW r \in Requests, NEW n,
         Fine(n), req' = [req EXCEPT ![r] = n]
  PROVE  req' \in [Requests -> Request] /\ LoopInv' /\ AnswersExplained'
<1>1. req \in [Requests -> Request] /\ n \in Request  BY DEF TypeOK, Fine
<1>2. req' \in [Requests -> Request] /\ req'[r] = n  BY <1>1
<1>3. \A s \in Requests \ {r} : req'[s] = req[s]  BY <1>1
<1>4. LoopInv'
  BY <1>2, <1>3 DEF LoopInv, Fine
<1>5. AnswersExplained'
  BY <1>2, <1>3 DEF AnswersExplained, Fine
<1>6. QED  BY <1>2, <1>4, <1>5

\* A request that starts or ends without a fallback after calls leaves the
\* exhausted ones as they were.
LEMMA ExhaustedKept ==
  ASSUME TypeOK, NEW r \in Requests, NEW n, req' = [req EXCEPT ![r] = n],
         (n.answer \in Fallbacks /\ n.attempts > 0) <=>
         (req[r].answer \in Fallbacks /\ req[r].attempts > 0)
  PROVE  Exhausted' = Exhausted
<1>1. req'[r] = n /\ \A s \in Requests \ {r} : req'[s] = req[s]  BY DEF TypeOK
<1>2. QED  BY <1>1 DEF Exhausted

\* The exhausted requests are finitely many.
LEMMA ExhaustedFinite ==
  /\ IsFiniteSet(Exhausted) /\ Cardinality(Exhausted) \in Nat
  /\ IsFiniteSet(Exhausted') /\ Cardinality(Exhausted') \in Nat
<1>1. Exhausted \subseteq Requests /\ Exhausted' \subseteq Requests  BY DEF Exhausted
<1>2. IsFiniteSet(Exhausted) /\ IsFiniteSet(Exhausted')
  BY <1>1, GatewayAssumption, FS_Subset
<1>3. QED  BY <1>2, FS_CardinalityType

\* A request that uses up its attempts is one more of them.
LEMMA ExhaustedGrows ==
  ASSUME TypeOK, NEW r \in Requests, NEW n, req' = [req EXCEPT ![r] = n],
         n.answer \in Fallbacks /\ n.attempts > 0, req[r].answer = "none"
  PROVE  Cardinality(Exhausted') = Cardinality(Exhausted) + 1
<1>1. req'[r] = n /\ \A s \in Requests \ {r} : req'[s] = req[s]  BY DEF TypeOK
<1>2. r \notin Exhausted  BY DEF Exhausted, Fallbacks
<1>3. Exhausted' = Exhausted \cup {r}  BY <1>1 DEF Exhausted
<1>4. QED  BY <1>2, <1>3, ExhaustedFinite, FS_AddElement

-------------------------------------------------------------------------------
(* Each step keeps the invariant *)

\* The answer of a fallback is one, and reading the cache leaves a time or
\* nothing in it.
LEMMA FallbackForms ==
  ASSUME TypeOK, NEW c \in BOOLEAN
  PROVE  /\ FallbackAnswer(c) \in Fallbacks
         /\ CacheAfter(c) \in Nat \cup {NoData}
<1>1. FallbackAnswer(c) \in Fallbacks  BY DEF FallbackAnswer, Fallbacks
<1>2. CacheAfter(c) \in Nat \cup {NoData}  BY DEF CacheAfter, TypeOK
<1>3. QED  BY <1>1, <1>2

\* A request is let in, or turned away by an open circuit.
LEMMA AskStep ==
  ASSUME TypeOK, GatewayInv, NEW r \in Requests, Ask(r)
  PROVE  TypeOK' /\ GatewayInv'
<1>1. PICK c \in BOOLEAN :
        IF Refusing(circuit, now)
        THEN /\ Put(r, "done", c, 0, 0, FallbackAnswer(c))
             /\ circuit' = circuit /\ cachedAt' = CacheAfter(c)
        ELSE /\ Put(r, "waiting", c, 1, 0, "none")
             /\ circuit' = OnEntry(circuit) /\ cachedAt' = cachedAt
  BY DEF Ask
<1>2. /\ req[r].pc = "new" /\ req[r].answer = "none" /\ req[r].attempts = 0
      /\ now' = now /\ restarts' = restarts
  BY DEF Ask, GatewayInv, LoopInv
<1>3. MaxRetries \in Nat  BY GatewayAssumption
<1>4. CASE Refusing(circuit, now)
  <2> DEFINE n == [pc |-> "done", catalogue |-> c, attempts |-> 0, late |-> 0,
                   answer |-> FallbackAnswer(c)]
  <2>1. req' = [req EXCEPT ![r] = n]  BY <1>1, <1>4 DEF Put
  <2>2. Fine(n)
    <3>1. n \in Request  BY <1>3, FallbackForms DEF Request, Answers
    <3>2. n.answer \notin {"ok", "clientError"}  BY FallbackForms DEF Fallbacks
    <3>3. QED  BY <3>1, <3>2 DEF Fine
  <2>3. Exhausted' = Exhausted
    <3>1. ~ (n.attempts > 0) /\ ~ (req[r].attempts > 0)  BY <1>2
    <3>2. QED  BY <2>1, <3>1, ExhaustedKept
  <2>4. req' \in [Requests -> Request] /\ LoopInv' /\ AnswersExplained'
    BY <2>1, <2>2, PutKeeps DEF GatewayInv
  <2>5. TypeOK'  BY <1>1, <1>2, <1>4, <2>4, FallbackForms DEF TypeOK
  <2>6. ClosedBelowThreshold' /\ FailuresAreExhaustedRequests'
    BY <1>1, <1>4, <2>3 DEF GatewayInv, ClosedBelowThreshold, FailuresAreExhaustedRequests
  <2>7. QED  BY <2>4, <2>5, <2>6 DEF GatewayInv
<1>5. CASE ~ Refusing(circuit, now)
  <2> DEFINE n == [pc |-> "waiting", catalogue |-> c, attempts |-> 1, late |-> 0,
                   answer |-> "none"]
  <2>1. req' = [req EXCEPT ![r] = n]  BY <1>1, <1>5 DEF Put
  <2>2. Fine(n)  BY <1>3 DEF Fine, Request, Answers, Fallbacks
  <2>3. Exhausted' = Exhausted
    <3>1. n.answer \notin Fallbacks /\ req[r].answer \notin Fallbacks
      BY <1>2 DEF Fallbacks
    <3>2. QED  BY <2>1, <3>1, ExhaustedKept
  <2>4. req' \in [Requests -> Request] /\ LoopInv' /\ AnswersExplained'
    BY <2>1, <2>2, PutKeeps DEF GatewayInv
  <2>5. circuit' = OnEntry(circuit) /\ cachedAt' = cachedAt  BY <1>1, <1>5
  <2>6. TypeOK'  BY <1>2, <2>4, <2>5, CircuitSteps DEF TypeOK, GatewayInv
  <2>7. ClosedBelowThreshold'
    BY <2>5, CircuitSteps DEF ClosedBelowThreshold, GatewayInv
  <2>8. FailuresAreExhaustedRequests'
    BY <2>3, <2>5, CircuitSteps DEF FailuresAreExhaustedRequests, GatewayInv
  <2>9. QED  BY <2>4, <2>6, <2>7, <2>8 DEF GatewayInv
<1>6. QED  BY <1>4, <1>5

\* The service answers in time.
LEMMA AnswerStep ==
  ASSUME TypeOK, GatewayInv, NEW r \in Requests, Succeeds(r) \/ ClientError(r)
  PROVE  TypeOK' /\ GatewayInv'
<1> DEFINE n(a) == [pc |-> "done", catalogue |-> req[r].catalogue,
                    attempts |-> req[r].attempts, late |-> req[r].late, answer |-> a]
<1>1. req[r].pc = "waiting"  BY DEF Succeeds, ClientError
<1>2. req[r].attempts > 0 /\ req[r].answer = "none"
  BY <1>1 DEF GatewayInv, LoopInv
<1>3. req[r] \in Request  BY DEF TypeOK
<1>4. ASSUME NEW a \in {"ok", "clientError"}, req' = [req EXCEPT ![r] = n(a)]
      PROVE  /\ req' \in [Requests -> Request] /\ LoopInv' /\ AnswersExplained'
             /\ Exhausted' = Exhausted
  <2>1. Fine(n(a))  BY <1>2, <1>3 DEF Fine, Request, Answers, Fallbacks
  <2>2. req' \in [Requests -> Request] /\ LoopInv' /\ AnswersExplained'
    BY <1>4, <2>1, PutKeeps DEF GatewayInv
  <2>3. n(a).answer \notin Fallbacks /\ req[r].answer \notin Fallbacks
    BY <1>2 DEF Fallbacks
  <2>4. Exhausted' = Exhausted  BY <1>4, <2>3, ExhaustedKept
  <2>5. QED  BY <2>2, <2>4
<1>5. CASE Succeeds(r)
  <2>1. req' = [req EXCEPT ![r] = n("ok")]  BY <1>5 DEF Succeeds, Put
  <2>2. /\ req' \in [Requests -> Request] /\ LoopInv' /\ AnswersExplained'
        /\ Exhausted' = Exhausted
    BY <1>4, <2>1
  <2>3. /\ circuit' = OnSuccess(circuit) /\ now' = now /\ restarts' = restarts
        /\ cachedAt' \in Nat \cup {NoData}
    BY <1>5 DEF Succeeds, TypeOK
  <2>4. TypeOK'  BY <2>2, <2>3, CircuitSteps DEF TypeOK, GatewayInv
  <2>5. ClosedBelowThreshold'
    BY <2>3, CircuitSteps DEF ClosedBelowThreshold, GatewayInv
  <2>6. FailuresAreExhaustedRequests'
    BY <2>3, CircuitSteps, ExhaustedFinite DEF FailuresAreExhaustedRequests, GatewayInv
  <2>7. QED  BY <2>2, <2>4, <2>5, <2>6 DEF GatewayInv
<1>6. CASE ClientError(r)
  <2>1. req' = [req EXCEPT ![r] = n("clientError")]  BY <1>6 DEF ClientError, Put
  <2>2. /\ req' \in [Requests -> Request] /\ LoopInv' /\ AnswersExplained'
        /\ Exhausted' = Exhausted
    BY <1>4, <2>1
  <2>3. circuit' = circuit /\ now' = now /\ restarts' = restarts /\ cachedAt' = cachedAt
    BY <1>6 DEF ClientError
  <2>4. TypeOK'  BY <2>2, <2>3 DEF TypeOK
  <2>5. ClosedBelowThreshold' /\ FailuresAreExhaustedRequests'
    BY <2>2, <2>3 DEF ClosedBelowThreshold, FailuresAreExhaustedRequests, GatewayInv
  <2>6. QED  BY <2>2, <2>4, <2>5 DEF GatewayInv
<1>7. QED  BY <1>5, <1>6

\* An attempt fails: the request backs off, or its failure is counted.
LEMMA FailureStep ==
  ASSUME TypeOK, GatewayInv, NEW r \in Requests, NEW l \in Nat,
         req[r].pc = "waiting", AttemptFailed(r, l), UNCHANGED <<now, restarts>>
  PROVE  TypeOK' /\ GatewayInv'
<1> DEFINE n(p, a) == [pc |-> p, catalogue |-> req[r].catalogue,
                       attempts |-> req[r].attempts, late |-> l, answer |-> a]
<1>1. req[r].attempts > 0 /\ req[r].answer = "none"
  BY DEF GatewayInv, LoopInv
<1>2. /\ req[r] \in Request /\ req[r].catalogue \in BOOLEAN
      /\ req[r].attempts \in 0..(MaxRetries + 1) /\ MaxRetries \in Nat
  BY GatewayAssumption DEF TypeOK, Request
<1>3. CASE Retryable(r)
  <2>1. /\ req' = [req EXCEPT ![r] = n("backoff", "none")]
        /\ circuit' = circuit /\ cachedAt' = cachedAt
    BY <1>3 DEF AttemptFailed, Put
  <2>2. Fine(n("backoff", "none"))
    BY <1>1, <1>2, <1>3 DEF Fine, Request, Answers, Fallbacks, Retryable
  <2>3. req' \in [Requests -> Request] /\ LoopInv' /\ AnswersExplained'
    BY <2>1, <2>2, PutKeeps DEF GatewayInv
  <2>4. n("backoff", "none").answer \notin Fallbacks /\ req[r].answer \notin Fallbacks
    BY <1>1 DEF Fallbacks
  <2>5. Exhausted' = Exhausted  BY <2>1, <2>4, ExhaustedKept
  <2>6. TypeOK'  BY <2>1, <2>3 DEF TypeOK
  <2>7. ClosedBelowThreshold' /\ FailuresAreExhaustedRequests'
    BY <2>1, <2>5 DEF ClosedBelowThreshold, FailuresAreExhaustedRequests, GatewayInv
  <2>8. QED  BY <2>3, <2>6, <2>7 DEF GatewayInv
<1>4. CASE ~ Retryable(r)
  <2> DEFINE a == FallbackAnswer(req[r].catalogue)
  <2>1. /\ req' = [req EXCEPT ![r] = n("done", a)]
        /\ circuit' = OnFailure(circuit, now) /\ cachedAt' = CacheAfter(req[r].catalogue)
    BY <1>4 DEF AttemptFailed, Put
  <2>2. a \in Fallbacks /\ cachedAt' \in Nat \cup {NoData}
    BY <1>2, <2>1, FallbackForms
  <2>3. req[r].attempts = MaxRetries + 1  BY <1>2, <1>4 DEF Retryable
  <2>4. Fine(n("done", a))
    <3>1. n("done", a) \in Request  BY <1>2, <2>2 DEF Request, Answers
    <3>2. n("done", a).answer \notin {"ok", "clientError"}  BY <2>2 DEF Fallbacks
    <3>3. QED  BY <2>3, <3>1, <3>2 DEF Fine
  <2>5. req' \in [Requests -> Request] /\ LoopInv' /\ AnswersExplained'
    BY <2>1, <2>4, PutKeeps DEF GatewayInv
  <2>6. Cardinality(Exhausted') = Cardinality(Exhausted) + 1
    <3>1. n("done", a).answer \in Fallbacks /\ n("done", a).attempts > 0
      BY <1>1, <2>2
    <3>2. QED  BY <1>1, <2>1, <3>1, ExhaustedGrows
  <2>7. TypeOK'  BY <2>1, <2>2, <2>5, CircuitSteps DEF TypeOK, GatewayInv
  <2>8. ClosedBelowThreshold'
    BY <2>1, CircuitSteps DEF ClosedBelowThreshold, GatewayInv
  <2>9. FailuresAreExhaustedRequests'
    <3>1. circuit'.failureCount = circuit.failureCount + 1
      BY <2>1, CircuitSteps DEF GatewayInv
    <3>2. circuit.failureCount <= Cardinality(Exhausted) /\ circuit.failureCount \in Nat
      BY DEF GatewayInv, FailuresAreExhaustedRequests, TypeOK, Circuit
    <3>3. QED  BY <2>6, <3>1, <3>2, ExhaustedFinite DEF FailuresAreExhaustedRequests
  <2>10. QED  BY <2>5, <2>7, <2>8, <2>9 DEF GatewayInv
<1>5. QED  BY <1>3, <1>4

\* The wait between two attempts is over.
LEMMA RetryStep ==
  ASSUME TypeOK, GatewayInv, NEW r \in Requests, Retry(r)
  PROVE  TypeOK' /\ GatewayInv'
<1> DEFINE n == [pc |-> "waiting", catalogue |-> req[r].catalogue,
                 attempts |-> req[r].attempts + 1, late |-> req[r].late, answer |-> "none"]
<1>1. /\ req' = [req EXCEPT ![r] = n]
      /\ UNCHANGED <<now, circuit, cachedAt, restarts>>
  BY DEF Retry, Put
<1>2. req[r].attempts <= MaxRetries /\ req[r].attempts > 0 /\ req[r].answer = "none"
  BY DEF Retry, GatewayInv, LoopInv
<1>3. /\ req[r].catalogue \in BOOLEAN /\ req[r].late \in Nat
      /\ req[r].attempts \in 0..(MaxRetries + 1) /\ MaxRetries \in Nat
  BY GatewayAssumption DEF TypeOK, Request
<1>4. Fine(n)  BY <1>2, <1>3 DEF Fine, Request, Answers, Fallbacks
<1>5. req' \in [Requests -> Request] /\ LoopInv' /\ AnswersExplained'
  BY <1>1, <1>4, PutKeeps DEF GatewayInv
<1>6. n.answer \notin Fallbacks /\ req[r].answer \notin Fallbacks
  BY <1>2 DEF Fallbacks
<1>7. Exhausted' = Exhausted  BY <1>1, <1>6, ExhaustedKept
<1>8. TypeOK'  BY <1>1, <1>5 DEF TypeOK
<1>9. ClosedBelowThreshold' /\ FailuresAreExhaustedRequests'
  BY <1>1, <1>7 DEF ClosedBelowThreshold, FailuresAreExhaustedRequests, GatewayInv
<1>10. QED  BY <1>5, <1>8, <1>9 DEF GatewayInv

\* An abandoned call is answered, whatever its request is doing by then.
LEMMA LateStep ==
  ASSUME TypeOK, GatewayInv, NEW r \in Requests, LateAnswer(r)
  PROVE  TypeOK' /\ GatewayInv'
<1> DEFINE n == [pc |-> req[r].pc, catalogue |-> req[r].catalogue,
                 attempts |-> req[r].attempts, late |-> req[r].late - 1,
                 answer |-> req[r].answer]
<1>1. /\ req' = [req EXCEPT ![r] = n]
      /\ UNCHANGED <<now, circuit, restarts>> /\ cachedAt' \in Nat \cup {NoData}
  BY DEF LateAnswer, Put, TypeOK
<1>2. req[r] \in Request /\ req[r].late > 0  BY DEF LateAnswer, TypeOK
<1>3. n \in Request  BY <1>2 DEF Request
<1>4. req' \in [Requests -> Request] /\ req'[r] = n
      /\ \A s \in Requests \ {r} : req'[s] = req[s]
  BY <1>1, <1>3 DEF TypeOK
<1>5. \A s \in Requests : /\ req'[s].pc = req[s].pc /\ req'[s].answer = req[s].answer
                          /\ req'[s].attempts = req[s].attempts
  BY <1>4
<1>6. LoopInv' /\ AnswersExplained' /\ Exhausted' = Exhausted
  BY <1>5 DEF GatewayInv, LoopInv, AnswersExplained, Exhausted
<1>7. TypeOK'  BY <1>1, <1>4 DEF TypeOK
<1>8. ClosedBelowThreshold' /\ FailuresAreExhaustedRequests'
  BY <1>1, <1>6 DEF ClosedBelowThreshold, FailuresAreExhaustedRequests, GatewayInv
<1>9. QED  BY <1>6, <1>7, <1>8 DEF GatewayInv

\* A restart drops what is in flight and starts from a closed circuit.
LEMMA RestartStep ==
  ASSUME TypeOK, GatewayInv, Restart
  PROVE  TypeOK' /\ GatewayInv'
<1>1. /\ circuit' = NoCircuit /\ cachedAt' = NoData /\ now' = now
      /\ restarts' \in 0..MaxRestarts
  BY GatewayAssumption DEF Restart, TypeOK
<1>2. ASSUME NEW s \in Requests
      PROVE  /\ req'[s] \in Request
             /\ req'[s].pc \in {"new", "done"}
             /\ req'[s].pc = "new" => req'[s].attempts = 0 /\ req'[s].answer = "none"
             /\ req'[s].attempts = req[s].attempts
             /\ req'[s].answer \in {req[s].answer, "lost"}
  <2>1. req[s] \in Request  BY DEF TypeOK
  <2>2. CASE req[s].pc \in {"waiting", "backoff"}
    <3>1. req'[s] = [pc |-> "done", catalogue |-> req[s].catalogue,
                     attempts |-> req[s].attempts, late |-> 0, answer |-> "lost"]
      BY <2>2 DEF Restart
    <3>2. QED  BY <2>1, <3>1 DEF Request, Answers
  <2>3. CASE req[s].pc \notin {"waiting", "backoff"}
    <3>1. req'[s] = [pc |-> req[s].pc, catalogue |-> req[s].catalogue,
                     attempts |-> req[s].attempts, late |-> 0, answer |-> req[s].answer]
      BY <2>3 DEF Restart
    <3>2. QED  BY <2>1, <2>3, <3>1 DEF Request, GatewayInv, LoopInv
  <2>4. QED  BY <2>2, <2>3
<1>3. TypeOK'
  <2>1. req' \in [Requests -> Request]  BY <1>2 DEF Restart
  <2>2. NoCircuit \in Circuit  BY DEF NoCircuit, Circuit
  <2>3. QED  BY <1>1, <2>1, <2>2 DEF TypeOK
<1>4. LoopInv'  BY <1>2 DEF LoopInv
<1>5. AnswersExplained'
  BY <1>2 DEF AnswersExplained, GatewayInv, Fallbacks
<1>6. ClosedBelowThreshold' /\ FailuresAreExhaustedRequests'
  BY <1>1, CircuitAssumption, ExhaustedFinite
  DEF NoCircuit, ClosedBelow, ClosedBelowThreshold, FailuresAreExhaustedRequests
<1>7. QED  BY <1>3, <1>4, <1>5, <1>6 DEF GatewayInv

\* Nothing moves but the clock, or nothing at all.
LEMMA IdleStep ==
  ASSUME TypeOK, GatewayInv, Tick \/ UNCHANGED vars
  PROVE  TypeOK' /\ GatewayInv'
<1>1. UNCHANGED <<circuit, cachedAt, req, restarts>> /\ now' \in Nat
  BY DEF Tick, vars, TypeOK
<1>2. Exhausted' = Exhausted  BY <1>1 DEF Exhausted
<1>3. QED
  BY <1>1, <1>2 DEF TypeOK, GatewayInv, LoopInv, ClosedBelowThreshold, AnswersExplained,
                    FailuresAreExhaustedRequests

-------------------------------------------------------------------------------
(* The theorems *)

\* The initial state has the invariant.
LEMMA GatewayInit == Init => TypeOK /\ GatewayInv
<1> SUFFICES ASSUME Init PROVE TypeOK /\ GatewayInv  OBVIOUS
<1>1. TypeOK
  BY GatewayAssumption DEF Init, TypeOK, Request, Circuit, Answers, NotMade, NoCircuit
<1>2. LoopInv /\ AnswersExplained
  BY DEF Init, NotMade, LoopInv, AnswersExplained, Fallbacks
<1>3. ClosedBelowThreshold /\ FailuresAreExhaustedRequests
  BY CircuitAssumption, GatewayAssumption, ExhaustedFinite
  DEF Init, NoCircuit, ClosedBelow, ClosedBelowThreshold, FailuresAreExhaustedRequests
<1>4. QED  BY <1>1, <1>2, <1>3 DEF GatewayInv

\* The invariant is inductive.
LEMMA GatewayStep == TypeOK /\ GatewayInv /\ [Next]_vars => TypeOK' /\ GatewayInv'
<1> SUFFICES ASSUME TypeOK, GatewayInv, [Next]_vars PROVE TypeOK' /\ GatewayInv'
  OBVIOUS
<1>1. ASSUME NEW r \in Requests, Ask(r) PROVE TypeOK' /\ GatewayInv'
  BY <1>1, AskStep
<1>2. ASSUME NEW r \in Requests, AttemptEnds(r) PROVE TypeOK' /\ GatewayInv'
  <2>1. CASE Succeeds(r) \/ ClientError(r)  BY <2>1, AnswerStep
  <2>2. req[r].late \in Nat  BY DEF TypeOK, Request
  <2>3. CASE Fails(r)  BY <2>2, <2>3, FailureStep DEF Fails
  <2>4. CASE TimesOut(r)
    <3>1. req[r].late + 1 \in Nat  BY <2>2
    <3>2. QED  BY <2>4, <3>1, FailureStep DEF TimesOut
  <2>5. QED  BY <1>2, <2>1, <2>3, <2>4 DEF AttemptEnds
<1>3. ASSUME NEW r \in Requests, Retry(r) PROVE TypeOK' /\ GatewayInv'
  BY <1>3, RetryStep
<1>4. ASSUME NEW r \in Requests, LateAnswer(r) PROVE TypeOK' /\ GatewayInv'
  BY <1>4, LateStep
<1>5. CASE Tick \/ UNCHANGED vars  BY <1>5, IdleStep
<1>6. CASE Restart  BY <1>6, RestartStep
<1>7. QED  BY <1>1, <1>2, <1>3, <1>4, <1>5, <1>6 DEF Next

\* The invariant holds throughout.
LEMMA GatewaySafe == Spec => [](TypeOK /\ GatewayInv)
<1>1. Spec => [](TypeOK /\ GatewayInv)
  BY GatewayInit, GatewayStep, PTL DEF Spec
<1>2. QED  BY <1>1

\* Every variable of the gateway keeps its type: in particular no request makes
\* more than MaxRetries + 1 attempts.
THEOREM GatewayTypes == Spec => []TypeOK
BY GatewaySafe, PTL

\* The circuit is closed exactly while its failures are below the threshold.
THEOREM CircuitConsistent == Spec => []ClosedBelowThreshold
<1>1. GatewayInv => ClosedBelowThreshold  BY DEF GatewayInv
<1>2. QED  BY <1>1, GatewaySafe, PTL

\* Nothing but a request that failed in all its attempts counts as a failure.
THEOREM FailuresExplained == Spec => []FailuresAreExhaustedRequests
<1>1. GatewayInv => FailuresAreExhaustedRequests  BY DEF GatewayInv
<1>2. QED  BY <1>1, GatewaySafe, PTL

\* A fallback answers only a request that no attempt, or every attempt, was
\* made for.
THEOREM AnswersAreExplained == Spec => []AnswersExplained
<1>1. GatewayInv => AnswersExplained  BY DEF GatewayInv
<1>2. QED  BY <1>1, GatewaySafe, PTL
===============================================================================
