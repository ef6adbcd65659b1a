------------------------- MODULE ConsumerHealthProofs -------------------------
(***************************************************************************)
(* What holds of the consumer's metrics for every bound: their types, that *)
(* every message counted succeeded or failed, and that the time spent fits *)
(* into the uptime.  BusyTimeWithinUptime is not inductive: while a        *)
(* message is in hand, the time it has taken so far must fit as well.      *)
(* The second part shows that the counters describe the history and what   *)
(* the answers of the health rule say about it.                            *)
(***************************************************************************)
EXTENDS ConsumerHealth, SequenceTheorems, FiniteSetTheorems, WellFoundedInduction, TLAPS

\* What is kept of the clock: nothing started in the future, and the time spent,
\* with what the message in hand has taken so far, fits into the uptime.
BusyInv ==
  /\ metrics.startedAt <= now
  /\ job = None => totalTime <= (now - metrics.startedAt) + carried
  /\ job # None =>
       job <= now /\ totalTime + (now - job) <= (now - metrics.startedAt) + carried

CountInv == metrics.totalProcessed = metrics.totalSuccess + metrics.totalFailed

IInv == TypeOK /\ CountInv /\ BusyInv

\* A rounded mean of naturals is a natural.
LEMMA RoundedIsNat ==
  ASSUME NEW a \in Nat, NEW b \in Nat \ {0}
  PROVE  Rounded(a, b) \in Nat
<1>1. 2 * a + b \in Nat /\ 2 * b \in Nat \ {0}
  OBVIOUS
<1> QED  BY <1>1, Z3 DEF Rounded

\* The invariant holds at first.
LEMMA InitInv == Init => IInv
BY ConsumerAssumption DEF Init, IInv, TypeOK, CountInv, BusyInv, NoMetrics

\* Fresh metrics are well typed and count nothing.
LEMMA Fresh ==
  ASSUME NEW t \in Nat, NEW m, m = NoMetrics(t)
  PROVE  /\ m \in [totalProcessed : Nat, totalSuccess : Nat, totalFailed : Nat,
                  lastProcessedAt : Nat \cup {None}, startedAt : Nat, average : Nat]
         /\ m.totalProcessed = m.totalSuccess + m.totalFailed
         /\ m.startedAt = t
BY DEF NoMetrics

\* Every step keeps the invariant.
LEMMA StepInv == IInv /\ [Next]_vars => IInv'
<1> SUFFICES ASSUME IInv, [Next]_vars PROVE IInv'
  OBVIOUS
<1> USE DEF IInv
<1>t. /\ totalTime \in Nat /\ carried \in Nat /\ now \in Nat /\ job \in Nat \cup {None}
      /\ metrics.totalProcessed \in Nat /\ metrics.totalSuccess \in Nat
      /\ metrics.totalFailed \in Nat /\ metrics.startedAt \in Nat /\ now <= MaxNow
  BY ConsumerAssumption DEF TypeOK
<1>1. CASE Begin
  <2>1. UNCHANGED <<metrics, totalTime, now, carried>> /\ job = None /\ job' = now
    BY <1>1 DEF Begin
  <2>2. TypeOK'
    BY <2>1, <1>t DEF TypeOK
  <2>3. CountInv'
    BY <2>1 DEF CountInv
  <2>4. BusyInv'
    <3>1. job' # None
      BY <2>1, <1>t, ConsumerAssumption
    <3> QED  BY <2>1, <3>1, <1>t DEF BusyInv
  <2> QED  BY <2>2, <2>3, <2>4
<1>2. ASSUME NEW ok \in BOOLEAN, End(ok) PROVE IInv'
  <2> DEFINE took == now - job
  <2>1. /\ job # None /\ job' = None /\ now' = now /\ carried' = carried
        /\ totalTime' = totalTime + took /\ metrics' = Updated(metrics, ok, took)
    BY <1>2 DEF End
  <2>2. job \in Nat /\ job <= now /\ took \in Nat
    BY <2>1, <1>t DEF BusyInv
  <2>3. Rounded(totalTime + took, metrics.totalProcessed + 1) \in Nat
    <3>1. totalTime + took \in Nat /\ metrics.totalProcessed + 1 \in Nat \ {0}
      BY <2>2, <1>t
    <3> HIDE DEF took
    <3> QED  BY <3>1, RoundedIsNat
  <2>4. /\ metrics'.totalProcessed = metrics.totalProcessed + 1
        /\ metrics'.lastProcessedAt = now /\ metrics'.startedAt = metrics.startedAt
        /\ metrics'.average = Rounded(totalTime + took, metrics.totalProcessed + 1)
        /\ ok => metrics'.totalSuccess = metrics.totalSuccess + 1
                 /\ metrics'.totalFailed = metrics.totalFailed
        /\ ~ ok => metrics'.totalSuccess = metrics.totalSuccess
                   /\ metrics'.totalFailed = metrics.totalFailed + 1
    BY <2>1 DEF Updated
  <2>5. metrics' \in [totalProcessed : Nat, totalSuccess : Nat, totalFailed : Nat,
                  lastProcessedAt : Nat \cup {None}, startedAt : Nat, average : Nat]
    <3> HIDE DEF took
    <3>1. CASE ok
      BY <3>1, <2>1, <2>3, <1>t DEF Updated
    <3>2. CASE ~ ok
      BY <3>2, <2>1, <2>3, <1>t DEF Updated
    <3> QED  BY <3>1, <3>2
  <2>6. TypeOK'
    BY <2>1, <2>2, <2>5, <1>t DEF TypeOK
  <2>7. CountInv'
    BY <2>4, <1>t DEF CountInv
  <2>8. BusyInv'
    BY <2>1, <2>2, <2>4, <1>t DEF BusyInv
  <2> QED  BY <2>6, <2>7, <2>8
<1>3. CASE Reset
  <2>1. /\ metrics' = NoMetrics(now) /\ totalTime' = 0 /\ job' = job /\ now' = now
        /\ carried' = IF job = None THEN 0 ELSE now - job
    BY <1>3 DEF Reset
  <2>f. /\ metrics' \in [totalProcessed : Nat, totalSuccess : Nat, totalFailed : Nat,
                  lastProcessedAt : Nat \cup {None}, startedAt : Nat, average : Nat]
        /\ metrics'.totalProcessed = metrics'.totalSuccess + metrics'.totalFailed
        /\ metrics'.startedAt = now
    BY <2>1, <1>t, Fresh
  <2>2. job # None => job \in Nat /\ job <= now
    BY <1>t DEF BusyInv
  <2>3. carried' \in Nat
    BY <2>1, <2>2, <1>t
  <2>4. TypeOK'
    BY <2>1, <2>3, <1>t, <2>f DEF TypeOK
  <2>5. CountInv'
    BY <2>1, <1>t, <2>f DEF CountInv
  <2>6. BusyInv'
    BY <2>1, <2>2, <2>3, <1>t, <2>f DEF BusyInv
  <2> QED  BY <2>4, <2>5, <2>6
<1>4. CASE Restart
  <2>1. /\ metrics' = NoMetrics(now) /\ totalTime' = 0 /\ job' = None /\ now' = now
        /\ carried' = 0
    BY <1>4 DEF Restart
  <2>f. /\ metrics' \in [totalProcessed : Nat, totalSuccess : Nat, totalFailed : Nat,
                  lastProcessedAt : Nat \cup {None}, startedAt : Nat, average : Nat]
        /\ metrics'.totalProcessed = metrics'.totalSuccess + metrics'.totalFailed
        /\ metrics'.startedAt = now
    BY <2>1, <1>t, Fresh
  <2>2. TypeOK'
    BY <2>1, <1>t, <2>f DEF TypeOK
  <2>3. CountInv'
    BY <2>1, <1>t, <2>f DEF CountInv
  <2>4. BusyInv'
    BY <2>1, <1>t, <2>f DEF BusyInv
  <2> QED  BY <2>2, <2>3, <2>4
<1>5. CASE Tick
  <2>1. now < MaxNow /\ now' = now + 1 /\ UNCHANGED <<metrics, totalTime, job, carried>>
    BY <1>5 DEF Tick
  <2>2. TypeOK'
    BY <2>1, <1>t, ConsumerAssumption DEF TypeOK
  <2>3. CountInv'
    BY <2>1 DEF CountInv
  <2>4. BusyInv'
    BY <2>1, <1>t DEF BusyInv
  <2> QED  BY <2>2, <2>3, <2>4
<1>6. CASE UNCHANGED vars
  BY <1>6 DEF vars, TypeOK, CountInv, BusyInv
<1> QED  BY <1>1, <1>2, <1>3, <1>4, <1>5, <1>6 DEF Next

\* The invariant holds of every behaviour.
LEMMA Invariance == Spec => []IInv
BY InitInv, StepInv, PTL DEF Spec

\* The metrics keep their types: in particular no duration is ever negative.
THEOREM MetricsTypes == Spec => []TypeOK
<1>1. IInv => TypeOK
  BY DEF IInv
<1> QED  BY Invariance, <1>1, PTL

\* The time spent on messages since the last reset fits into the time since it,
\* but for what the message in hand at the reset had taken before.
THEOREM BusyTimeFits == Spec => []BusyTimeWithinUptime
<1>1. IInv => BusyTimeWithinUptime
  <2> SUFFICES ASSUME IInv PROVE BusyTimeWithinUptime
    OBVIOUS
  <2>1. /\ totalTime \in Nat /\ carried \in Nat /\ now \in Nat /\ job \in Nat \cup {None}
        /\ metrics.startedAt \in Nat
    BY ConsumerAssumption DEF IInv, TypeOK
  <2> QED  BY <2>1 DEF IInv, BusyInv, BusyTimeWithinUptime
<1> QED  BY Invariance, <1>1, PTL

-------------------------------------------------------------------------------
(* Sums over the history *)

\* The recursion Spent stands for, as a condition on a function.
Sums(t, h, n) == t = [i \in 0..n |-> IF i = 0 THEN 0 ELSE t[i - 1] + h[i].took]

\* Whatever the history, its partial sums exist: otherwise there is a least
\* length for which they do not, and one more term extends those before it.
LEMMA SumsExist ==
  ASSUME NEW h, NEW n \in Nat
  PROVE  \E t : Sums(t, h, n)
<1> DEFINE Bad == {m \in Nat : ~ \E t : Sums(t, h, m)}
<1> SUFFICES ASSUME n \in Bad PROVE FALSE
  OBVIOUS
<1>1. PICK m \in Bad : \A k \in Bad : ~ <<k, m>> \in OpToRel(<, Nat)
  <2>1. Bad \subseteq Nat /\ Bad # {}
    OBVIOUS
  <2> HIDE DEF Bad
  <2> QED  BY <2>1, NatLessThanWellFounded, WFMin
<1>2. m # 0
  <2> SUFFICES ASSUME m = 0 PROVE FALSE
    OBVIOUS
  <2>1. [i \in 0..0 |-> 0] = [i \in 0..0 |-> IF i = 0 THEN 0 ELSE [j \in 0..0 |-> 0][i - 1] + h[i].took]
    OBVIOUS
  <2>2. Sums([i \in 0..0 |-> 0], h, 0)
    BY <2>1 DEF Sums
  <2> QED  BY <2>2
<1>3. m - 1 \in Nat /\ m - 1 \notin Bad
  <2>1. m \in Nat /\ m - 1 \in Nat /\ m - 1 < m
    BY <1>2
  <2>2. <<m - 1, m>> \in OpToRel(<, Nat)
    BY <2>1 DEF OpToRel
  <2> QED  BY <1>1, <2>1, <2>2
<1>4. PICK t : Sums(t, h, m - 1)
  BY <1>3
<1> DEFINE u == [i \in 0..m |-> IF i < m THEN t[i] ELSE t[m - 1] + h[m].took]
<1>5. ASSUME NEW i \in 0..m PROVE u[i] = IF i = 0 THEN 0 ELSE u[i - 1] + h[i].took
  <2>1. CASE i = 0
    BY <2>1, <1>2, <1>4 DEF Sums
  <2>2. CASE i # 0 /\ i < m
    <3>1. t[i] = t[i - 1] + h[i].took
      BY <2>2, <1>4, <1>3 DEF Sums
    <3> QED  BY <2>2, <3>1
  <2>3. CASE i = m
    BY <2>3, <1>2
  <2> QED  BY <2>1, <2>2, <2>3
<1>6. Sums(u, h, m)
  <2>1. u = [i \in 0..m |-> IF i = 0 THEN 0 ELSE u[i - 1] + h[i].took]
    BY <1>5
  <2> QED  BY <2>1 DEF Sums
<1> QED  BY <1>1, <1>6

\* Two histories agree on their first m messages.
SameUpTo(g, h, m) == \A i \in 1..m : g[i] = h[i]

\* Partial sums of histories that agree so far agree: a least disagreement
\* would have none before it.
LEMMA SumsAgree ==
  ASSUME NEW g, NEW h, NEW t, NEW u, NEW m \in Nat,
         Sums(t, g, m), Sums(u, h, m + 1), SameUpTo(g, h, m)
  PROVE  u[m + 1] = t[m] + h[m + 1].took
<1>n. PICK n \in Nat : n = m + 1
  OBVIOUS
<1>s. Sums(u, h, n) /\ m <= n /\ \A i \in 1..m : g[i] = h[i]
  BY <1>n DEF SameUpTo
<1> DEFINE Bad == {k \in 0..m : t[k] # u[k]}
<1>0. SUFFICES ASSUME m \in Bad PROVE FALSE
  <2>1. t[m] = u[m]
    BY <1>0
  <2>2. n \in 0..n /\ n # 0 /\ n - 1 = m
    BY <1>n
  <2>3. u[n] = u[n - 1] + h[n].took
    BY <1>s, <2>2 DEF Sums
  <2> QED  BY <2>1, <2>2, <2>3, <1>n
<1>1. PICK k \in Bad : \A j \in Bad : ~ <<j, k>> \in OpToRel(<, Nat)
  <2>1. Bad \subseteq Nat /\ Bad # {}
    BY <1>0
  <2> HIDE DEF Bad
  <2> QED  BY <2>1, NatLessThanWellFounded, WFMin
<1>r. k \in 0..m /\ k \in 0..n /\ t[k] # u[k]
  BY <1>s
<1> HIDE DEF Bad
<1>2. k # 0
  BY <1>r, <1>s DEF Sums
<1>3. k - 1 \in 0..m /\ k - 1 \notin Bad
  <2>1. k \in Nat /\ k - 1 \in 0..m /\ k - 1 \in Nat /\ k - 1 < k
    BY <1>2, <1>r
  <2>2. <<k - 1, k>> \in OpToRel(<, Nat)
    BY <2>1 DEF OpToRel
  <2> QED  BY <1>1, <2>1, <2>2
<1>4. t[k] = t[k - 1] + g[k].took /\ u[k] = u[k - 1] + h[k].took /\ g[k] = h[k]
  <2>1. k \in 1..m
    BY <1>2, <1>r
  <2>2. t[k] = t[k - 1] + g[k].took
    BY <1>2, <1>r, <1>s DEF Sums
  <2>3. u[k] = u[k - 1] + h[k].took
    BY <1>2, <1>r, <1>s DEF Sums
  <2> QED  BY <2>1, <2>2, <2>3, <1>s
<1>5. t[k - 1] = u[k - 1]
  BY <1>3 DEF Bad
<1> QED  BY <1>4, <1>5, <1>r

\* Spent is the last of the partial sums.
LEMMA SpentIs ==
  ASSUME NEW h
  PROVE  Spent(h) = (CHOOSE t : Sums(t, h, Len(h)))[Len(h)]
BY Zenon DEF Spent, Sums

\* No message has taken no time.
LEMMA SpentEmpty == Spent(<<>>) = 0
<1>1. PICK t : t = CHOOSE u : Sums(u, <<>>, Len(<<>>))
  OBVIOUS
<1>2. Sums(t, <<>>, Len(<<>>))
  BY <1>1, SumsExist, Len(<<>>) \in Nat, Zenon
<1>3. t[0] = 0
  BY <1>2 DEF Sums
<1> QED  BY <1>1, <1>3, SpentIs

\* One message more adds its time.
LEMMA SpentExtends ==
  ASSUME NEW g, NEW h, NEW n \in Nat, n = Len(g), Len(h) = n + 1, SameUpTo(g, h, n)
  PROVE  Spent(h) = Spent(g) + h[n + 1].took
<1>1. PICK t : t = CHOOSE v : Sums(v, g, n)
  OBVIOUS
<1>2. PICK u : u = CHOOSE v : Sums(v, h, n + 1)
  OBVIOUS
<1>3. n + 1 \in Nat
  OBVIOUS
<1>4. Sums(t, g, n) /\ Sums(u, h, n + 1)
  BY <1>1, <1>2, <1>3, SumsExist, Zenon
<1>5. Spent(g) = t[n] /\ Spent(h) = u[n + 1]
  BY <1>1, <1>2, SpentIs, Zenon
<1>6. u[n + 1] = t[n] + h[n + 1].took
  BY <1>4, SumsAgree, SMT
<1> QED  BY <1>5, <1>6

\* An appended message adds its time.
LEMMA SpentAppend ==
  ASSUME NEW T, NEW h \in Seq(T), NEW d \in T
  PROVE  Spent(Append(h, d)) = Spent(h) + d.took
<1>1. PICK e : e = Append(h, d)
  OBVIOUS
<1>2. PICK n : n = Len(h)
  OBVIOUS
<1>3. n \in Nat /\ Len(e) = n + 1 /\ e[n + 1] = d
  BY <1>1, <1>2
<1>4. SameUpTo(h, e, n)
  BY <1>1, <1>2 DEF SameUpTo
<1>5. Spent(e) = Spent(h) + e[n + 1].took
  BY <1>2, <1>3, <1>4, SpentExtends, Zenon
<1> QED  BY <1>1, <1>3, <1>5

Outcomes == [ok : BOOLEAN, took : Nat, at : Nat]

\* An appended message is one more of its outcome and none of the other.
LEMMA EndedAppend ==
  ASSUME NEW h \in Seq(Outcomes), NEW d \in Outcomes, NEW b \in BOOLEAN
  PROVE  Cardinality({i \in DOMAIN Append(h, d) : Append(h, d)[i].ok = b})
           = Cardinality({i \in DOMAIN h : h[i].ok = b}) + (IF d.ok = b THEN 1 ELSE 0)
<1> DEFINE n == Len(h)
           e == Append(h, d)
           C == {i \in DOMAIN h : h[i].ok = b}
           D == {i \in DOMAIN e : e[i].ok = b}
<1> SUFFICES Cardinality(D) = Cardinality(C) + (IF d.ok = b THEN 1 ELSE 0)
  OBVIOUS
<1>1. n \in Nat /\ DOMAIN h = 1..n /\ DOMAIN e = 1..(n + 1)
  OBVIOUS
<1>2. e[n + 1] = d /\ \A i \in 1..n : e[i] = h[i]
  OBVIOUS
<1>3. IsFiniteSet(C)
  <2>1. IsFiniteSet(1..n)
    BY <1>1, FS_Interval
  <2> QED  BY <1>1, <2>1, FS_Subset
<1>4. n + 1 \notin C
  BY <1>1
<1>5. D = IF d.ok = b THEN C \cup {n + 1} ELSE C
  <2> HIDE DEF n, e
  <2>1. \A i \in 1..(n + 1) : i \in 1..n \/ i = n + 1
    BY <1>1
  <2>2. 1..n \subseteq 1..(n + 1) /\ n + 1 \in 1..(n + 1)
    BY <1>1
  <2> QED  BY <1>1, <1>2, <2>1, <2>2
<1> HIDE DEF n, C, D
<1>6. Cardinality(C) \in Nat
  BY <1>3, FS_CardinalityType
<1>7. CASE d.ok = b
  <2>1. Cardinality(C \cup {n + 1}) = Cardinality(C) + 1
    BY <1>3, <1>4, FS_AddElement
  <2> QED  BY <1>5, <1>7, <2>1
<1>8. CASE d.ok # b
  BY <1>5, <1>6, <1>8
<1> QED  BY <1>7, <1>8

-------------------------------------------------------------------------------
(* The metrics and their history *)

\* The messages since the reset are well formed, and the last one is the latest.
HistoryTypes ==
  /\ done \in Seq(Outcomes)
  /\ \A i \in DOMAIN done : done[i].at <= done[Len(done)].at /\ done[i].at <= now

\* The accumulator is the time spent, which is why the mean is rounded once.
SumInv == MetricsDescribeHistory /\ totalTime = Spent(done)

HistoryInv == HistoryTypes /\ SumInv

\* A history without messages has no outcomes.
LEMMA EndedEmpty ==
  ASSUME NEW b
  PROVE  Cardinality({i \in DOMAIN <<>> : <<>>[i].ok = b}) = 0
<1>1. {i \in DOMAIN <<>> : <<>>[i].ok = b} = {}
  OBVIOUS
<1> QED  BY <1>1, FS_EmptySet

\* Fresh metrics describe the empty history.
LEMMA FreshHistory ==
  metrics = NoMetrics(now) /\ totalTime = 0 /\ done = <<>> => HistoryInv
<1> SUFFICES ASSUME metrics = NoMetrics(now), totalTime = 0, done = <<>> PROVE HistoryInv
  OBVIOUS
<1>1. HistoryTypes
  BY DEF HistoryTypes
<1>2. Ended(TRUE) = 0 /\ Ended(FALSE) = 0
  BY EndedEmpty DEF Ended
<1>3. MetricsDescribeHistory
  BY <1>2 DEF MetricsDescribeHistory, NoMetrics
<1>4. totalTime = Spent(done)
  BY SpentEmpty
<1> QED  BY <1>1, <1>3, <1>4 DEF HistoryInv, SumInv

\* A history that stays as it is, with its metrics, stays described.
LEMMA HistoryKept ==
  ASSUME HistoryInv, UNCHANGED <<metrics, totalTime, done>>, now \in Nat, now' \in Nat,
         now <= now'
  PROVE  HistoryInv'
<1>1. HistoryTypes'
  <2>1. \A i \in DOMAIN done : done[i] \in Outcomes
    BY DEF HistoryInv, HistoryTypes
  <2>2. \A i \in DOMAIN done : done[i].at \in Nat
    BY <2>1 DEF Outcomes
  <2> QED  BY <2>2 DEF HistoryInv, HistoryTypes
<1>2. SumInv'
  BY DEF HistoryInv, SumInv, MetricsDescribeHistory, Ended
<1> QED  BY <1>1, <1>2 DEF HistoryInv

\* A message that ends is added to the metrics and to the history alike.
LEMMA EndKeepsHistory ==
  ASSUME IInv, HistoryInv, NEW ok \in BOOLEAN, End(ok)
  PROVE  HistoryInv'
<1> DEFINE d == [ok |-> ok, took |-> now - job, at |-> now]
<1>1. /\ job # None /\ now' = now /\ totalTime' = totalTime + (now - job)
      /\ metrics' = Updated(metrics, ok, now - job) /\ done' = Append(done, d)
  BY DEF End
<1>2. now \in Nat /\ now - job \in Nat
  BY <1>1, ConsumerAssumption DEF IInv, TypeOK, BusyInv
<1>3. d \in Outcomes /\ done \in Seq(Outcomes)
  BY <1>2 DEF Outcomes, HistoryInv, HistoryTypes
<1>4. /\ Len(done) \in Nat /\ Len(done') = Len(done) + 1 /\ done' # <<>>
      /\ done'[Len(done')] = d /\ \A i \in DOMAIN done : done'[i] = done[i]
      /\ \A i \in DOMAIN done' : i \in DOMAIN done \/ i = Len(done')
      /\ DOMAIN done = 1..Len(done) /\ done' \in Seq(Outcomes)
  <2> HIDE DEF d
  <2> QED  BY <1>1, <1>3
<1>5. d.ok = ok /\ d.took = now - job /\ d.at = now
  OBVIOUS
<1> HIDE DEF d
<1>6. HistoryTypes'
  <2> SUFFICES ASSUME NEW i \in DOMAIN done'
               PROVE  done'[i].at <= done'[Len(done')].at /\ done'[i].at <= now'
    BY <1>4 DEF HistoryTypes
  <2>1. CASE i \in DOMAIN done
    BY <2>1, <1>1, <1>4, <1>5 DEF HistoryInv, HistoryTypes
  <2>2. CASE i = Len(done')
    BY <2>2, <1>1, <1>2, <1>4, <1>5
  <2> QED  BY <1>4, <2>1, <2>2
<1>7. totalTime' = Spent(done')
  BY <1>1, <1>3, <1>5, SpentAppend DEF HistoryInv, SumInv
<1>8. /\ Ended(TRUE)' = Ended(TRUE) + (IF ok = TRUE THEN 1 ELSE 0)
      /\ Ended(FALSE)' = Ended(FALSE) + (IF ok = FALSE THEN 1 ELSE 0)
  <2>1. ASSUME NEW b \in BOOLEAN
        PROVE  Ended(b)' = Ended(b) + (IF d.ok = b THEN 1 ELSE 0)
    <3>1. Ended(b)' = Cardinality({i \in DOMAIN Append(done, d) : Append(done, d)[i].ok = b})
      BY <1>1 DEF Ended
    <3> QED  BY <1>3, <3>1, EndedAppend, Zenon DEF Ended
  <2> QED  BY <2>1, <1>5
<1>9. /\ metrics.totalProcessed = Len(done)
      /\ metrics.totalSuccess = Ended(TRUE) /\ metrics.totalFailed = Ended(FALSE)
      /\ metrics.totalSuccess \in Nat /\ metrics.totalFailed \in Nat
  BY DEF HistoryInv, SumInv, MetricsDescribeHistory, IInv, TypeOK
<1>10. /\ metrics'.totalProcessed = metrics.totalProcessed + 1
       /\ metrics'.totalSuccess = metrics.totalSuccess + (IF ok = TRUE THEN 1 ELSE 0)
       /\ metrics'.totalFailed = metrics.totalFailed + (IF ok = FALSE THEN 1 ELSE 0)
       /\ metrics'.lastProcessedAt = now
       /\ metrics'.average = Rounded(totalTime', Len(done'))
  <2>1. /\ metrics'.totalProcessed = metrics.totalProcessed + 1
        /\ metrics'.totalSuccess = IF ok THEN metrics.totalSuccess + 1 ELSE metrics.totalSuccess
        /\ metrics'.totalFailed = IF ok THEN metrics.totalFailed ELSE metrics.totalFailed + 1
        /\ metrics'.lastProcessedAt = now
        /\ metrics'.average = Rounded(totalTime + (now - job), metrics.totalProcessed + 1)
    BY <1>1 DEF Updated
  <2>2. totalTime + (now - job) = totalTime' /\ metrics.totalProcessed + 1 = Len(done')
    BY <1>1, <1>4, <1>9
  <2>3. metrics'.average = Rounded(totalTime', Len(done'))
    BY <2>1, <2>2, Zenon
  <2>4. metrics.totalSuccess \in Nat /\ metrics.totalFailed \in Nat
    BY DEF IInv, TypeOK
  <2>5. CASE ok = TRUE
    BY <2>1, <2>3, <2>4, <2>5
  <2>6. CASE ok = FALSE
    BY <2>1, <2>3, <2>4, <2>6
  <2> QED  BY <2>5, <2>6
<1>11. MetricsDescribeHistory'
  BY <1>4, <1>5, <1>7, <1>8, <1>9, <1>10 DEF MetricsDescribeHistory
<1> QED  BY <1>6, <1>7, <1>11 DEF HistoryInv, SumInv

\* Every step keeps the metrics what the history says.
LEMMA HistoryStep == IInv /\ IInv' /\ HistoryInv /\ [Next]_vars => HistoryInv'
<1> SUFFICES ASSUME IInv, IInv', HistoryInv, [Next]_vars PROVE HistoryInv'
  OBVIOUS
<1>n. now \in Nat /\ now' \in Nat
  BY ConsumerAssumption DEF IInv, TypeOK
<1>1. CASE Begin
  BY <1>1, <1>n, HistoryKept DEF Begin
<1>2. ASSUME NEW ok \in BOOLEAN, End(ok) PROVE HistoryInv'
  BY <1>2, EndKeepsHistory
<1>3. CASE Reset \/ Restart
  <2>1. (metrics = NoMetrics(now) /\ totalTime = 0 /\ done = <<>>)'
    BY <1>3 DEF Reset, Restart
  <2> QED  BY <2>1, FreshHistory, PTL
<1>4. CASE Tick
  BY <1>4, <1>n, HistoryKept DEF Tick
<1>5. CASE UNCHANGED vars
  BY <1>5, <1>n, HistoryKept DEF vars
<1> QED  BY <1>1, <1>2, <1>3, <1>4, <1>5 DEF Next

\* The two invariants hold of every behaviour.
LEMMA HistoryInvariance == Spec => [](IInv /\ HistoryInv)
<1>1. Init => HistoryInv
  BY FreshHistory DEF Init
<1>2. IInv /\ HistoryInv /\ [Next]_vars => (IInv /\ HistoryInv)'
  BY StepInv, HistoryStep
<1> QED  BY InitInv, <1>1, <1>2, PTL DEF Spec

\* The metrics describe the messages ended since the last reset or start, and
\* none of before, whatever was in hand when they were reset.
THEOREM MetricsAreHistory == Spec => []MetricsDescribeHistory
<1>1. IInv /\ HistoryInv => MetricsDescribeHistory
  BY DEF HistoryInv, SumInv
<1> QED  BY HistoryInvariance, <1>1, PTL

\* What "healthy" and "unhealthy" say about those messages: that the last one is
\* recent is that any is, since it is the latest.
THEOREM HealthIsTrue == Spec => []HealthMeans
<1>1. ASSUME IInv, HistoryInv PROVE HealthMeans
  <2> DEFINE Recent == {i \in DOMAIN done : done[i].at > now - Window}
             n == Len(done)
  <2>1. /\ metrics.totalProcessed = n
        /\ metrics.totalSuccess = Ended(TRUE) /\ metrics.totalFailed = Ended(FALSE)
        /\ metrics.lastProcessedAt = IF done = <<>> THEN None ELSE done[n].at
        /\ metrics.totalSuccess \in Nat /\ metrics.totalFailed \in Nat
    BY <1>1 DEF HistoryInv, SumInv, MetricsDescribeHistory, IInv, TypeOK
  <2>2. /\ now \in Nat /\ Window \in Nat /\ MinSuccessRate \in Nat /\ MaxFailures \in Nat
        /\ None \notin Nat
    BY <1>1, ConsumerAssumption DEF IInv, TypeOK
  <2>3. /\ done \in Seq(Outcomes)
        /\ \A i \in DOMAIN done : done[i].at <= done[n].at
    BY <1>1 DEF HistoryInv, HistoryTypes
  <2>4. n \in Nat /\ DOMAIN done = 1..n /\ (done = <<>> <=> n = 0)
    BY <2>3
  <2>5. \A i \in DOMAIN done : done[i].at \in Nat
    <3>1. \A i \in DOMAIN done : done[i] \in Outcomes
      BY <2>3
    <3> QED  BY <3>1 DEF Outcomes
  <2>6. CASE done = <<>>
    <3>1. Recent = {}
      BY <2>4, <2>6
    <3>2. Health = "healthy"
      <4>1. metrics.totalProcessed = 0
        BY <2>1, <2>4, <2>6
      <4>2. metrics.totalFailed = 0
        BY <1>1, <4>1 DEF IInv, CountInv, TypeOK
      <4> QED  BY <4>1, <4>2, ConsumerAssumption DEF Health, IsProcessing, HasGoodSuccessRate, HasLowFailures
    <3> QED  BY <2>6, <3>1, <3>2 DEF HealthMeans
  <2>7. CASE done # <<>>
    <3>1. n > 0 /\ n \in DOMAIN done /\ metrics.lastProcessedAt = done[n].at
      BY <2>1, <2>4, <2>7
    <3>2. IsProcessing <=> Recent # {}
      <4>1. IsProcessing <=> done[n].at > now - Window
        BY <2>2, <2>5, <3>1 DEF IsProcessing
      <4>2. Recent # {} => done[n].at > now - Window
        BY <2>2, <2>3, <2>5, <3>1
      <4> QED  BY <4>1, <4>2, <3>1
    <3>3. HasGoodSuccessRate <=> Ended(TRUE) * 100 >= MinSuccessRate * n
      <4>1. metrics.totalSuccess \in Nat
        BY <1>1 DEF IInv, TypeOK
      <4>2. 100 * metrics.totalSuccess = metrics.totalSuccess * 100
        BY <4>1
      <4>3. HasGoodSuccessRate <=> 100 * metrics.totalSuccess >= MinSuccessRate * n
        BY <2>1, <3>1 DEF HasGoodSuccessRate
      <4>4. metrics.totalSuccess * 100 = Ended(TRUE) * 100
        BY <2>1, Zenon
      <4> QED  BY <4>2, <4>3, <4>4, Zenon
    <3>4. HasLowFailures <=> Ended(FALSE) < MaxFailures
      BY <2>1 DEF HasLowFailures
    <3>5. metrics.totalProcessed > 0
      BY <2>1, <3>1
    <3> HIDE DEF Recent
    <3>6. Health = IF Recent = {} THEN "unhealthy"
                   ELSE IF ~ HasGoodSuccessRate \/ ~ HasLowFailures THEN "degraded" ELSE "healthy"
      BY <3>2, <3>5 DEF Health
    <3>7. Health = "unhealthy" <=> Recent = {}
      BY <3>6
    <3>8. Health = "healthy" <=> Recent # {} /\ HasGoodSuccessRate /\ HasLowFailures
      BY <3>6
    <3> QED  BY <2>7, <3>3, <3>4, <3>7, <3>8 DEF HealthMeans, Recent
  <2> QED  BY <2>6, <2>7
<1> QED  BY HistoryInvariance, <1>1, PTL
===============================================================================
