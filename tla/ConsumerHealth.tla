---------------------------- MODULE ConsumerHealth ----------------------------
(***************************************************************************)
(* The metrics that the payment consumer keeps in memory and the health    *)
(* rule of ConsumerMetricsController.  PaymentPipeline says what a         *)
(* delivery does to the payments; here it only takes time and ends well or *)
(* badly.  The worker takes one message at a time (prefetch 1), and the    *)
(* HTTP requests of the controller come in between, while a message is in  *)
(* hand too.                                                               *)
(***************************************************************************)
EXTENDS Integers, Sequences, FiniteSets

CONSTANTS Window,            \* 5 minutes in the code
          MinSuccessRate,    \* 90 in the code
          MaxFailures,       \* 100 in the code
          None,              \* no message in hand, or nothing processed yet
          MaxNow, MaxMessages  \* bounds

ASSUME ConsumerAssumption ==
  /\ Window \in Nat \ {0} /\ MinSuccessRate \in 0..100 /\ MaxFailures \in Nat \ {0}
  /\ MaxNow \in Nat /\ MaxMessages \in Nat
  /\ None \notin Nat

VARIABLES
  metrics,    \* totalProcessed, totalSuccess, totalFailed, lastProcessedAt, startedAt, average
  totalTime,  \* totalProcessingTime
  job,        \* the startTime of the message in hand, or None
  now,
  done,       \* history: [ok, took, at] of each message ended since the reset or start
  carried     \* history: the time the message in hand had taken at the last reset

vars == <<metrics, totalTime, job, now, done, carried>>

NoMetrics(t) ==
  [totalProcessed |-> 0, totalSuccess |-> 0, totalFailed |-> 0,
   lastProcessedAt |-> None, startedAt |-> t, average |-> 0]

\* Math.round of a quotient of naturals
Rounded(a, b) == (2 * a + b) \div (2 * b)

Init ==
  /\ metrics = NoMetrics(0) /\ totalTime = 0
  /\ job = None /\ now = 0
  /\ done = <<>> /\ carried = 0

-------------------------------------------------------------------------------
Begin ==
  /\ job = None /\ metrics.totalProcessed < MaxMessages
  /\ job' = now
  /\ UNCHANGED <<metrics, totalTime, now, done, carried>>

\* Mutant: the mean of the means.
UpdatedByMean(m, ok, took) ==
  [totalProcessed |-> m.totalProcessed + 1,
   totalSuccess |-> IF ok THEN m.totalSuccess + 1 ELSE m.totalSuccess,
   totalFailed |-> IF ok THEN m.totalFailed ELSE m.totalFailed + 1,
   lastProcessedAt |-> now, startedAt |-> m.startedAt,
   average |-> Rounded(m.average * m.totalProcessed + took, m.totalProcessed + 1)]

\* updateMetrics
Updated(m, ok, took) ==
  [totalProcessed |-> m.totalProcessed + 1,
   totalSuccess |-> IF ok THEN m.totalSuccess + 1 ELSE m.totalSuccess,
   totalFailed |-> IF ok THEN m.totalFailed ELSE m.totalFailed + 1,
   lastProcessedAt |-> now, startedAt |-> m.startedAt,
   average |-> Rounded(totalTime + took, m.totalProcessed + 1)]

\* The message is processed, or any step of it throws and is counted once.
End(ok) ==
  /\ job # None
  /\ metrics' = Updated(metrics, ok, now - job)
  /\ totalTime' = totalTime + (now - job)
  /\ job' = None
  /\ done' = Append(done, [ok |-> ok, took |-> now - job, at |-> now])
  /\ UNCHANGED <<now, carried>>

\* Mutant: the accumulator survives the reset.
ResetCountersOnly ==
  /\ metrics' = NoMetrics(now)
  /\ done' = <<>>
  /\ carried' = IF job = None THEN 0 ELSE now - job
  /\ UNCHANGED <<totalTime, job, now>>

\* resetMetrics; the message in hand keeps its startTime.
Reset ==
  /\ metrics' = NoMetrics(now) /\ totalTime' = 0
  /\ done' = <<>>
  /\ carried' = IF job = None THEN 0 ELSE now - job
  /\ UNCHANGED <<job, now>>

\* The process ends with whatever it has in hand, and a new one starts.
Restart ==
  /\ metrics' = NoMetrics(now) /\ totalTime' = 0
  /\ job' = None
  /\ done' = <<>> /\ carried' = 0
  /\ now' = now

Tick ==
  /\ now < MaxNow
  /\ now' = now + 1
  /\ UNCHANGED <<metrics, totalTime, job, done, carried>>

Next == Begin \/ (\E ok \in BOOLEAN : End(ok)) \/ Reset \/ Restart \/ Tick

Spec == Init /\ [][Next]_vars

-------------------------------------------------------------------------------
(* What the controller answers *)

IsProcessing ==
  metrics.lastProcessedAt = None \/ metrics.lastProcessedAt > now - Window

\* Mutant: the boundary is excluded.
AboveSuccessRate ==
  metrics.totalProcessed > 0 =>
    100 * metrics.totalSuccess > MinSuccessRate * metrics.totalProcessed

\* An idle consumer has a rate of 100.
HasGoodSuccessRate ==
  metrics.totalProcessed > 0 =>
    100 * metrics.totalSuccess >= MinSuccessRate * metrics.totalProcessed

HasLowFailures == metrics.totalFailed < MaxFailures

\* getHealth
Health ==
  IF ~ IsProcessing /\ metrics.totalProcessed > 0 THEN "unhealthy"
  ELSE IF ~ HasGoodSuccessRate \/ ~ HasLowFailures THEN "degraded"
  ELSE "healthy"

-------------------------------------------------------------------------------
(* Properties *)

TypeOK ==
  /\ metrics \in [totalProcessed : Nat, totalSuccess : Nat, totalFailed : Nat,
                  lastProcessedAt : Nat \cup {None}, startedAt : Nat, average : Nat]
  /\ totalTime \in Nat /\ carried \in Nat /\ now \in 0..MaxNow
  /\ job \in Nat \cup {None}

Ended(ok) == Cardinality({i \in DOMAIN done : done[i].ok = ok})

\* The time spent on the messages of history h, together.
Spent(h) ==
  LET t[i \in 0..Len(h)] == IF i = 0 THEN 0 ELSE t[i - 1] + h[i].took
  IN  t[Len(h)]

\* The metrics describe the messages ended since the last reset or start, and
\* none of before, whatever was in hand when they were reset: their number by
\* outcome, the time of the last one, and their mean duration, rounded once.
MetricsDescribeHistory ==
  /\ metrics.totalProcessed = Len(done)
  /\ metrics.totalSuccess = Ended(TRUE) /\ metrics.totalFailed = Ended(FALSE)
  /\ metrics.lastProcessedAt = IF done = <<>> THEN None ELSE done[Len(done)].at
  /\ done # <<>> => metrics.average = Rounded(Spent(done), Len(done))

\* What each answer of /consumer-metrics/health says about those messages:
\* "unhealthy" that the last one ended a window ago or more (and so never of a
\* consumer that has processed nothing); "healthy" that one ended since, or none
\* at all, that enough of them succeeded and that few failed.
HealthMeans ==
  LET Recent == {i \in DOMAIN done : done[i].at > now - Window}
      Good   == Ended(TRUE) * 100 >= MinSuccessRate * Len(done)
      Few    == Ended(FALSE) < MaxFailures
  IN
  /\ Health = "unhealthy" <=> (done # <<>> /\ Recent = {})
  /\ Health = "healthy" <=> (done = <<>> \/ (Recent # {} /\ Good /\ Few))

\* Messages never overlap, so the time spent on them since the last reset fits
\* into the time since then, but for what the message in hand at the reset had
\* taken before it: its whole duration is counted after.
BusyTimeWithinUptime == totalTime <= (now - metrics.startedAt) + carried
===============================================================================
