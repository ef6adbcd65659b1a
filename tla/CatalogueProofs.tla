--------------------------- MODULE CatalogueProofs ---------------------------
(***************************************************************************)
(* Proofs about Catalogue for any requests, retries and faults.            *)
(***************************************************************************)
EXTENDS Catalogue, FiniteSetTheorems, SequenceTheorems, WellFoundedInduction, TLAPS

-------------------------------------------------------------------------------
(* Types *)

Ops     == {"list", "create"}
Answers == {"none", "ok", "created", "refused", "unavailable", "default", "cached",
            "unauthorized", "lost"}
Results == {"ok", "created", "refused", "error"}
RequestRecord ==
  [op : Ops \cup {"none"}, seller : BOOLEAN,
   phase : {"new", "waiting", "backoff", "answered"}, attempt : 0..(MaxRetries + 1),
   answer : Answers, list : Nat \cup {None}]
CallRecord == [at : {"none", "sent", "replied"}, result : Results \cup {None}, list : Nat]

TypeOK ==
  /\ products \in Seq(Requests) /\ now \in Nat
  /\ cache # None => cache \in [list : Nat, at : Nat]
  /\ req \in [Requests -> RequestRecord]
  /\ call \in [Requests -> [Attempts -> CallRecord]]
  /\ seen \in [Requests -> [made : SUBSET Requests, list : Nat \cup {None}]]
  /\ cut \in [Requests -> Nat] /\ overlapped \in BOOLEAN

\* No list is longer than the table.
Shown ==
  /\ cache # None => cache.list <= Len(products)
  /\ \A r \in Requests : req[r].list # None => req[r].list <= Len(products)
  /\ \A r \in Requests, n \in Attempts : call[r][n].list <= Len(products)

Replied(r, n) == call[r][n].at = "replied"

RequestInv ==
  \A r \in Requests :
    /\ req[r].op = "none" <=> req[r].phase = "new"
    /\ req[r].phase = "new" => \A n \in Attempts : call[r][n].at = "none"
    /\ req[r].phase # "answered" => req[r].answer = "none" /\ req[r].list = None
    /\ req[r].op # "list" => req[r].list = None
    /\ req[r].answer = "ok" => req[r].op = "list" /\ req[r].list # None
    /\ req[r].answer = "created" => req[r].op = "create"
    /\ req[r].phase = "backoff" => req[r].attempt \in 1..MaxRetries
    /\ req[r].phase = "waiting" => req[r].attempt \in Attempts
    /\ \A n \in Attempts : Replied(r, n) =>
         call[r][n].result \in IF req[r].op = "list" THEN {"ok", "error"}
                                                     ELSE {"created", "refused", "error"}

Types == TypeOK /\ Shown /\ RequestInv

-------------------------------------------------------------------------------
(* What the gateway's steps change *)

\* A step for r alone leaves the other requests as they are.
OnlyRequest(r) ==
  req' \in [Requests -> RequestRecord] /\ \A s \in Requests \ {r} : req'[s] = req[s]

\* r has, for what q asks, a call under way: its attempt n.
Waits(r, q, n) ==
  /\ OnlyRequest(r) /\ cache' = cache
  /\ req'[r].op = q.op /\ req'[r].seller = q.seller
  /\ req'[r].phase = "waiting" /\ req'[r].attempt = n
  /\ req'[r].answer = "none" /\ req'[r].list = None
  /\ call' = [call EXCEPT ![r][n] = [at |-> "sent", result |-> None, list |-> 0]]
  /\ overlapped' = (overlapped \/ (q.op = "list" /\ \E s \in Lists : UnderWay(s) # {}))

\* r waits for its next attempt, or was answered without the service.
EndsUnserved(r, q) ==
  /\ OnlyRequest(r)
  /\ req'[r].op = q.op /\ req'[r].seller = q.seller
  /\ \/ /\ req'[r].phase = "backoff" /\ req'[r].attempt \in 1..MaxRetries
        /\ req'[r].answer = "none" /\ req'[r].list = None /\ cache' = cache
     \/ /\ req'[r].phase = "answered"
        /\ req'[r].answer \in {"unavailable", "default", "cached", "unauthorized"}
        /\ \/ req'[r].list = None
           \/ q.op = "list" /\ cache # None /\ req'[r].list = cache.list
        /\ cache' \in {cache, None}

\* What Put leaves of r and of the other requests.
LEMMA PutForm ==
  ASSUME TypeOK, NEW r \in Requests, NEW q, q.op \in Ops, q.seller \in BOOLEAN,
         NEW phase \in {"waiting", "backoff", "answered"}, NEW n \in 0..(MaxRetries + 1),
         NEW a, a.answer \in Answers, a.list \in Nat \cup {None}, Put(r, q, phase, n, a)
  PROVE  /\ OnlyRequest(r)
         /\ req'[r].op = q.op /\ req'[r].seller = q.seller /\ req'[r].phase = phase
         /\ req'[r].attempt = n /\ req'[r].answer = a.answer /\ req'[r].list = a.list
<1> DEFINE row == [op |-> q.op, seller |-> q.seller, phase |-> phase, attempt |-> n,
                   answer |-> a.answer, list |-> a.list]
<1>1. row \in RequestRecord  BY DEF RequestRecord
<1>2. req' = [req EXCEPT ![r] = row]  BY DEF Put
<1>3. req \in [Requests -> RequestRecord]  BY DEF TypeOK
<1>4. /\ row.op = q.op /\ row.seller = q.seller /\ row.phase = phase /\ row.attempt = n
      /\ row.answer = a.answer /\ row.list = a.list
  OBVIOUS
<1> HIDE DEF row
<1>5. req'[r] = row /\ req' \in [Requests -> RequestRecord]
      /\ \A s \in Requests \ {r} : req'[s] = req[s]
  BY <1>1, <1>2, <1>3
<1>6. QED  BY <1>4, <1>5 DEF OnlyRequest

\* What a fallback answers, and what it leaves of the cache.
LEMMA FallbackForm ==
  ASSUME TypeOK, NEW op \in Ops
  PROVE  /\ Fallback(op).answer \in {"unavailable", "default", "cached"}
         /\ Fallback(op).list \in Nat \cup {None}
         /\ \/ Fallback(op).list = None
            \/ op = "list" /\ cache # None /\ Fallback(op).list = cache.list
         /\ CacheAfter(op) \in {cache, None}
  BY DEF TypeOK, Fallback, CacheAfter, Ops

\* A request that falls back.
LEMMA FallsBackForm ==
  ASSUME TypeOK, NEW r \in Requests, NEW q, q.op \in Ops, q.seller \in BOOLEAN,
         NEW n \in 0..(MaxRetries + 1), Put(r, q, "answered", n, Fallback(q.op)),
         cache' = CacheAfter(q.op)
  PROVE  EndsUnserved(r, q)
<1> DEFINE a == Fallback(q.op)
<1>1. /\ a.answer \in {"unavailable", "default", "cached"} /\ a.list \in Nat \cup {None}
      /\ a.list = None \/ (q.op = "list" /\ cache # None /\ a.list = cache.list)
      /\ cache' \in {cache, None}
  BY FallbackForm
<1>2. a.answer \in Answers  BY <1>1 DEF Answers
<1>3. Put(r, q, "answered", n, a)  OBVIOUS
<1> HIDE DEF a
<1>4. /\ OnlyRequest(r)
      /\ req'[r].op = q.op /\ req'[r].seller = q.seller /\ req'[r].phase = "answered"
      /\ req'[r].answer = a.answer /\ req'[r].list = a.list
  BY <1>1, <1>2, <1>3, PutForm
<1>5. QED  BY <1>1, <1>4 DEF EndsUnserved

\* An attempt that failed.
LEMMA FailedForm ==
  ASSUME TypeOK, NEW r \in Requests, NEW q, q.op \in Ops, q.seller \in BOOLEAN,
         NEW n \in Attempts, AttemptFailed(r, q, n)
  PROVE  EndsUnserved(r, q)
<1>1. n \in 0..(MaxRetries + 1) /\ MaxRetries \in Nat
  BY CatalogueAssumption DEF Attempts
<1>2. CASE n <= MaxRetries
  <2> DEFINE a == NoAnswer
  <2>1. a.answer = "none" /\ a.list = None  BY DEF NoAnswer
  <2>2. a.answer \in Answers  BY <2>1 DEF Answers
  <2>3. Put(r, q, "backoff", n, a) /\ cache' = cache  BY <1>2 DEF AttemptFailed
  <2> HIDE DEF a
  <2>4. /\ OnlyRequest(r)
        /\ req'[r].op = q.op /\ req'[r].seller = q.seller /\ req'[r].phase = "backoff"
        /\ req'[r].attempt = n /\ req'[r].answer = a.answer /\ req'[r].list = a.list
    BY <1>1, <2>1, <2>2, <2>3, PutForm
  <2>5. n \in 1..MaxRetries  BY <1>1, <1>2 DEF Attempts
  <2>6. QED  BY <2>1, <2>3, <2>4, <2>5 DEF EndsUnserved
<1>3. CASE ~ (n <= MaxRetries)
  BY <1>1, <1>3, FallsBackForm DEF AttemptFailed
<1>4. QED  BY <1>2, <1>3

\* A request whose token is refused.
LEMMA UnauthorizedForm ==
  ASSUME TypeOK, NEW r \in Requests, NEW q, q.op \in Ops, q.seller \in BOOLEAN,
         NEW n \in 0..(MaxRetries + 1), Unauthorized(r, q, n)
  PROVE  EndsUnserved(r, q) /\ call' = call /\ overlapped' = overlapped
<1> DEFINE a == [answer |-> "unauthorized", list |-> None]
<1>1. a.answer = "unauthorized" /\ a.list = None  OBVIOUS
<1>2. a.answer \in Answers  BY <1>1 DEF Answers
<1>3. /\ Put(r, q, "answered", n, a) /\ cache' = cache
      /\ call' = call /\ overlapped' = overlapped
  BY DEF Unauthorized
<1> HIDE DEF a
<1>4. /\ OnlyRequest(r)
      /\ req'[r].op = q.op /\ req'[r].seller = q.seller /\ req'[r].phase = "answered"
      /\ req'[r].answer = a.answer /\ req'[r].list = a.list
  BY <1>1, <1>2, <1>3, PutForm
<1>5. QED  BY <1>1, <1>3, <1>4 DEF EndsUnserved

\* An attempt that starts reaches the service or fails at once.
LEMMA AttemptForm ==
  ASSUME TypeOK, NEW r \in Requests, NEW q, q.op \in Ops, q.seller \in BOOLEAN,
         NEW n \in Attempts, Attempt(r, q, n)
  PROVE  \/ Waits(r, q, n)
         \/ EndsUnserved(r, q) /\ call' = call /\ overlapped' = overlapped
<1>1. n \in 0..(MaxRetries + 1) /\ MaxRetries \in Nat
  BY CatalogueAssumption DEF Attempts
<1>2. CASE AttemptFailed(r, q, n) /\ UNCHANGED <<call, overlapped>>
  BY <1>2, FailedForm
<1>3. CASE Put(r, q, "waiting", n, NoAnswer) /\ cache' = cache
           /\ call' = [call EXCEPT ![r][n] = [at |-> "sent", result |-> None, list |-> 0]]
           /\ overlapped' = (overlapped \/ (q.op = "list" /\ \E s \in Lists : UnderWay(s) # {}))
  <2> DEFINE a == NoAnswer
  <2>1. a.answer = "none" /\ a.list = None  BY DEF NoAnswer
  <2>2. a.answer \in Answers  BY <2>1 DEF Answers
  <2>3. Put(r, q, "waiting", n, a)  BY <1>3
  <2> HIDE DEF a
  <2>4. /\ OnlyRequest(r)
        /\ req'[r].op = q.op /\ req'[r].seller = q.seller /\ req'[r].phase = "waiting"
        /\ req'[r].attempt = n /\ req'[r].answer = a.answer /\ req'[r].list = a.list
    BY <1>1, <2>1, <2>2, <2>3, PutForm
  <2>5. QED  BY <1>3, <2>1, <2>4 DEF Waits
<1>4. QED  BY <1>2, <1>3 DEF Attempt

\* A new request.
LEMMA AskForm ==
  ASSUME TypeOK, NEW r \in Requests, Ask(r)
  PROVE  /\ req[r].phase = "new"
         /\ \E q \in [op : Ops, seller : BOOLEAN] :
              \/ Waits(r, q, 1)
              \/ EndsUnserved(r, q) /\ call' = call /\ overlapped' = overlapped
         /\ seen' = [seen EXCEPT ![r] = [made |-> {c \in Creates : req[c].answer = "created"},
                                         list |-> Longest]]
         /\ UNCHANGED <<products, now, cut>>
<1>1. 1 \in Attempts /\ 0 \in 0..(MaxRetries + 1)  BY CatalogueAssumption DEF Attempts
<1>2. PICK op \in Ops, seller \in BOOLEAN :
        LET q == [NotMade EXCEPT !.op = op, !.seller = seller] IN
        \/ Attempt(r, q, 1)
        \/ Unauthorized(r, q, 0)
        \/ /\ Put(r, q, "answered", 0, Fallback(op)) /\ cache' = CacheAfter(op)
           /\ UNCHANGED <<call, overlapped>>
  BY DEF Ask, Ops
<1> DEFINE q == [NotMade EXCEPT !.op = op, !.seller = seller]
           p == [op |-> op, seller |-> seller]
<1>3. q.op = op /\ q.seller = seller  BY DEF NotMade
<1>4. p \in [op : Ops, seller : BOOLEAN] /\ p.op = op /\ p.seller = seller  OBVIOUS
<1>5. \/ Attempt(r, q, 1)
      \/ Unauthorized(r, q, 0)
      \/ /\ Put(r, q, "answered", 0, Fallback(q.op)) /\ cache' = CacheAfter(q.op)
         /\ call' = call /\ overlapped' = overlapped
  BY <1>2, <1>3
<1> HIDE DEF q, p
<1>6. \/ Waits(r, q, 1)
      \/ EndsUnserved(r, q) /\ call' = call /\ overlapped' = overlapped
  <2>1. CASE Attempt(r, q, 1)  BY <1>1, <1>3, <2>1, AttemptForm
  <2>2. CASE Unauthorized(r, q, 0)  BY <1>1, <1>3, <2>2, UnauthorizedForm
  <2>3. CASE Put(r, q, "answered", 0, Fallback(q.op)) /\ cache' = CacheAfter(q.op)
             /\ call' = call /\ overlapped' = overlapped
    BY <1>1, <1>3, <2>3, FallsBackForm
  <2>4. QED  BY <1>5, <2>1, <2>2, <2>3
<1>7. \/ Waits(r, p, 1)
      \/ EndsUnserved(r, p) /\ call' = call /\ overlapped' = overlapped
  BY <1>3, <1>4, <1>6 DEF Waits, EndsUnserved
<1>8. QED  BY <1>4, <1>7 DEF Ask

\* A retry.
LEMMA RetryForm ==
  ASSUME Types, NEW r \in Requests, Retry(r)
  PROVE  /\ req[r].phase = "backoff" /\ req[r].attempt + 1 \in Attempts
         /\ \/ Waits(r, req[r], req[r].attempt + 1)
            \/ EndsUnserved(r, req[r]) /\ call' = call /\ overlapped' = overlapped
         /\ UNCHANGED <<products, now, seen, cut>>
<1>1. /\ req[r].phase = "backoff" /\ req[r] \in RequestRecord
      /\ UNCHANGED <<products, now, seen, cut>>
  BY DEF Retry, Types, TypeOK
<1>2. req[r].op \in Ops /\ req[r].seller \in BOOLEAN /\ req[r].attempt \in 1..MaxRetries
  BY <1>1 DEF Types, RequestInv, RequestRecord
<1>3. req[r].attempt + 1 \in Attempts /\ req[r].attempt + 1 \in 0..(MaxRetries + 1)
  BY <1>2, CatalogueAssumption DEF Attempts
<1>4. CASE Attempt(r, req[r], req[r].attempt + 1)
  BY <1>1, <1>2, <1>3, <1>4, AttemptForm DEF Types
<1>5. CASE Unauthorized(r, req[r], req[r].attempt + 1)
  BY <1>1, <1>2, <1>3, <1>5, UnauthorizedForm DEF Types
<1>6. QED  BY <1>1, <1>3, <1>4, <1>5 DEF Retry

\* A timeout.
LEMMA TimesOutForm ==
  ASSUME Types, NEW r \in Requests, TimesOut(r)
  PROVE  /\ req[r].phase = "waiting" /\ req[r].attempt \in Attempts
         /\ EndsUnserved(r, req[r])
         /\ cut' = [cut EXCEPT ![r] = @ + 1]
         /\ UNCHANGED <<products, now, call, seen, overlapped>>
<1>1. req[r].phase = "waiting" /\ req[r] \in RequestRecord
  BY DEF TimesOut, Types, TypeOK
<1>2. req[r].op \in Ops /\ req[r].seller \in BOOLEAN /\ req[r].attempt \in Attempts
  BY <1>1 DEF Types, RequestInv, RequestRecord
<1>3. EndsUnserved(r, req[r])
  BY <1>2, FailedForm DEF TimesOut, Types
<1>4. QED  BY <1>1, <1>2, <1>3 DEF TimesOut

\* r is answered what the service replied to its attempt n.
Answered(r, n) ==
  /\ OnlyRequest(r) /\ req'[r].op = req[r].op /\ req'[r].seller = req[r].seller
  /\ req'[r].phase = "answered" /\ req'[r].answer = call[r][n].result
  /\ req'[r].list = (IF req[r].op = "list" THEN call[r][n].list ELSE None)
  /\ call[r][n].result \in (IF req[r].op = "list" THEN {"ok"} ELSE {"created", "refused"})

\* A reply: it is the answer, a failed attempt, or nobody waits for it.
LEMMA ArrivesForm ==
  ASSUME Types, NEW r \in Requests, NEW n \in Attempts, Arrives(r, n)
  PROVE  /\ Replied(r, n) /\ req[r].op \in Ops
         /\ \/ Awaited(r, n) /\ Answered(r, n) /\ cache' = Stored(r, n)
            \/ /\ Awaited(r, n) /\ call[r][n].result = "error"
               /\ EndsUnserved(r, req[r])
            \/ ~ Awaited(r, n) /\ req' = req /\ cache' = Stored(r, n)
         /\ call' = [call EXCEPT ![r][n] = NoCall]
         /\ UNCHANGED <<products, now, seen, cut, overlapped>>
<1>1. /\ Replied(r, n) /\ req[r] \in RequestRecord /\ call[r][n] \in CallRecord
      /\ call' = [call EXCEPT ![r][n] = NoCall]
      /\ UNCHANGED <<products, now, seen, cut, overlapped>>
  BY DEF Arrives, Types, TypeOK, Replied
<1>2. /\ req[r].op \in Ops /\ req[r].seller \in BOOLEAN
      /\ n \in 0..(MaxRetries + 1)
      /\ call[r][n].result \in IF req[r].op = "list" THEN {"ok", "error"}
                                                     ELSE {"created", "refused", "error"}
  <2>1. req[r].phase # "new"  BY <1>1 DEF Types, RequestInv, Replied
  <2>2. req[r].op # "none"  BY <2>1 DEF Types, RequestInv
  <2>3. n \in 0..(MaxRetries + 1)  BY CatalogueAssumption DEF Attempts
  <2>4. QED  BY <1>1, <2>2, <2>3 DEF Types, RequestInv, RequestRecord
<1>3. CASE Awaited(r, n) /\ call[r][n].result # "error"
  <2> DEFINE a == [answer |-> call[r][n].result,
                   list   |-> IF req[r].op = "list" THEN call[r][n].list ELSE None]
  <2>1. a.answer = call[r][n].result
        /\ a.list = (IF req[r].op = "list" THEN call[r][n].list ELSE None)
    OBVIOUS
  <2>2. a.answer \in Answers /\ a.list \in Nat \cup {None}
    <3>1. call[r][n].result \in Answers
      BY <1>2, <1>3 DEF Answers
    <3>2. call[r][n].list \in Nat  BY <1>1 DEF CallRecord
    <3>3. QED  BY <3>1, <3>2, <2>1
  <2>3. Put(r, req[r], "answered", n, a) /\ cache' = Stored(r, n)
    BY <1>3 DEF Arrives
  <2> HIDE DEF a
  <2>4. /\ OnlyRequest(r) /\ req'[r].op = req[r].op /\ req'[r].seller = req[r].seller
        /\ req'[r].phase = "answered" /\ req'[r].answer = a.answer /\ req'[r].list = a.list
    BY <1>2, <2>2, <2>3, PutForm DEF Types
  <2>5. Answered(r, n)  BY <1>2, <1>3, <2>1, <2>4 DEF Answered
  <2>6. QED  BY <1>1, <1>2, <1>3, <2>3, <2>5
<1>4. CASE Awaited(r, n) /\ call[r][n].result = "error"
  <2>1. AttemptFailed(r, req[r], n)  BY <1>4 DEF Arrives
  <2>2. EndsUnserved(r, req[r])  BY <1>2, <2>1, FailedForm DEF Types
  <2>3. QED  BY <1>1, <1>2, <1>4, <2>2
<1>5. CASE ~ Awaited(r, n)  BY <1>1, <1>2, <1>5 DEF Arrives
<1>6. QED  BY <1>3, <1>4, <1>5

-------------------------------------------------------------------------------
(* Operators *)

\* One call changes.
LEMMA CallChanged ==
  ASSUME call \in [Requests -> [Attempts -> CallRecord]], NEW r \in Requests,
         NEW n \in Attempts, NEW c \in CallRecord, call' = [call EXCEPT ![r][n] = c]
  PROVE  /\ call' \in [Requests -> [Attempts -> CallRecord]]
         /\ call'[r][n] = c
         /\ \A s \in Requests, m \in Attempts : <<s, m>> # <<r, n>> => call'[s][m] = call[s][m]
<1>1. \A s \in Requests : call'[s] = IF s = r THEN [call[r] EXCEPT ![n] = c] ELSE call[s]
  OBVIOUS
<1>2. call[r] \in [Attempts -> CallRecord]  OBVIOUS
<1>3. [call[r] EXCEPT ![n] = c] \in [Attempts -> CallRecord]  BY <1>2
<1>4. QED  BY <1>1, <1>2, <1>3

\* The table only grows, at its end.
LEMMA TableGrows ==
  ASSUME TypeOK, products' = products \/ \E r \in Requests : products' = Append(products, r)
  PROVE  /\ products' \in Seq(Requests) /\ Len(products) \in Nat /\ Len(products') \in Nat
         /\ Len(products) <= Len(products')
         /\ \A i \in 1..Len(products) : products'[i] = products[i]
         /\ \A c \in Requests : MadeBy(c) \subseteq MadeBy(c)'
<1>1. products \in Seq(Requests) /\ Len(products) \in Nat  BY DEF TypeOK
<1>2. CASE products' = products  BY <1>1, <1>2 DEF MadeBy
<1>3. CASE \E r \in Requests : products' = Append(products, r)
  <2>1. PICK r \in Requests : products' = Append(products, r)  BY <1>3
  <2>2. products' \in Seq(Requests) /\ Len(products') = Len(products) + 1
        /\ \A i \in 1..Len(products) : products'[i] = products[i]
    BY <1>1, <2>1
  <2>3. QED  BY <1>1, <2>2 DEF MadeBy
<1>4. QED  BY <1>2, <1>3

\* A new row is its maker's and nobody else's.
LEMMA RowAdded ==
  ASSUME TypeOK, NEW r \in Requests, products' = Append(products, r)
  PROVE  /\ Len(products) + 1 \notin MadeBy(r)
         /\ MadeBy(r)' = MadeBy(r) \cup {Len(products) + 1}
         /\ \A c \in Requests \ {r} : MadeBy(c)' = MadeBy(c)
  BY DEF TypeOK, MadeBy

\* What CHOOSE picks for the largest of a bounded set of numbers exists.
LEMMA MaxIsIn ==
  ASSUME NEW S \in SUBSET Nat, S # {}, NEW b \in Nat, \A x \in S : x <= b
  PROVE  Max(S) \in S /\ \A x \in S : x <= Max(S)
<1> DEFINE R == OpToRel(<, Nat)
           T == {t \in Nat : \A x \in S : x <= t}
<1>1. PICK m \in T : \A t \in T : ~ (<<t, m>> \in R)
  <2>1. IsWellFoundedOn(R, Nat)  BY NatLessThanWellFounded
  <2>2. T \subseteq Nat /\ T # {}  OBVIOUS
  <2> HIDE DEF R, T
  <2>3. QED  BY <2>1, <2>2, WFMin
<1>2. \A t \in T : ~ (t < m)  BY <1>1 DEF OpToRel
<1>3. m \in S
  <2> SUFFICES ASSUME m \notin S PROVE FALSE  OBVIOUS
  <2>1. PICK x \in S : TRUE  OBVIOUS
  <2>2. \A y \in S : y <= m - 1  OBVIOUS
  <2>3. m - 1 \in Nat  BY <2>1, <2>2
  <2>4. m - 1 \in T /\ m - 1 < m  BY <2>2, <2>3
  <2>5. QED  BY <1>2, <2>4
<1>4. m \in S /\ \A y \in S : m >= y  BY <1>3
<1> HIDE DEF R, T
<1>5. QED  BY <1>4 DEF Max

\* The longest list answered is one of those answered.
LEMMA LongestIs ==
  ASSUME Types
  PROVE  /\ Longest \in Nat \cup {None}
         /\ Longest # None => \E s \in Lists : req[s].list = Longest
         /\ \A s \in Lists : req[s].list # None => Longest # None /\ req[s].list <= Longest
<1> DEFINE answered == {req[r].list : r \in Lists} \ {None}
<1>1. answered \subseteq Nat  BY DEF Types, TypeOK, RequestRecord, Lists
<1>2. Len(products) \in Nat /\ \A x \in answered : x <= Len(products)
  BY DEF Types, TypeOK, Shown, Lists
<1>3. answered # {} => Max(answered) \in answered /\ \A x \in answered : x <= Max(answered)
  <2> HIDE DEF answered
  <2>1. QED  BY <1>1, <1>2, MaxIsIn
<1>4. Longest = IF answered = {} THEN None ELSE Max(answered)  BY DEF Longest
<1>5. \A s \in Lists : req[s].list # None => req[s].list \in answered  OBVIOUS
<1>6. \A x \in answered : \E s \in Lists : req[s].list = x  OBVIOUS
<1> HIDE DEF answered
<1>7. QED  BY <1>1, <1>3, <1>4, <1>5, <1>6, CatalogueAssumption

-------------------------------------------------------------------------------
(* Types in every step *)

\* Types hold at first.
LEMMA TypesInit == Init => Types
<1> SUFFICES ASSUME Init PROVE Types  OBVIOUS
<1>1. NotMade \in RequestRecord
  BY CatalogueAssumption DEF NotMade, RequestRecord, Answers, Ops
<1>2. NoCall \in CallRecord  BY DEF NoCall, CallRecord
<1>3. [made |-> {}, list |-> None] \in [made : SUBSET Requests, list : Nat \cup {None}]
  OBVIOUS
<1>4. TypeOK
  <2>1. req \in [Requests -> RequestRecord]  BY <1>1 DEF Init
  <2>2. call \in [Requests -> [Attempts -> CallRecord]]  BY <1>2 DEF Init
  <2>3. seen \in [Requests -> [made : SUBSET Requests, list : Nat \cup {None}]]
    BY <1>3 DEF Init
  <2>4. cut \in [Requests -> Nat]  BY DEF Init
  <2>5. products \in Seq(Requests)  BY DEF Init
  <2>6. now \in Nat /\ cache = None /\ overlapped \in BOOLEAN  BY DEF Init
  <2>7. QED  BY <2>1, <2>2, <2>3, <2>4, <2>5, <2>6 DEF TypeOK
<1>5. Shown  BY DEF Init, Shown, NotMade, NoCall
<1>6. RequestInv  BY DEF Init, RequestInv, NotMade, NoCall, Replied
<1>7. QED  BY <1>4, <1>5, <1>6 DEF Types

\* What is asked for is asked once.
Asked(r, q) == q.op \in Ops /\ (req[r].phase = "new" \/ q.op = req[r].op)

\* A step drops calls but starts none.
DropsCalls ==
  /\ call' \in [Requests -> [Attempts -> CallRecord]]
  /\ \A s \in Requests, m \in Attempts : call'[s][m] \in {call[s][m], NoCall}

\* A call that starts keeps types.
LEMMA WaitsTypes ==
  ASSUME Types, NEW r \in Requests, NEW q, NEW n \in Attempts, Waits(r, q, n), Asked(r, q),
         UNCHANGED products, now' \in Nat, cut' \in [Requests -> Nat],
         seen' \in [Requests -> [made : SUBSET Requests, list : Nat \cup {None}]]
  PROVE  Types'
<1> DEFINE c == [at |-> "sent", result |-> None, list |-> 0]
<1>1. c \in CallRecord  BY DEF CallRecord
<1>2. c.at = "sent" /\ c.list = 0  OBVIOUS
<1>3. call' = [call EXCEPT ![r][n] = c]  BY DEF Waits
<1> HIDE DEF c
<1>4. /\ call' \in [Requests -> [Attempts -> CallRecord]]
      /\ call'[r][n] = c
      /\ \A s \in Requests, m \in Attempts : <<s, m>> # <<r, n>> => call'[s][m] = call[s][m]
  BY <1>1, <1>3, CallChanged DEF Types, TypeOK
<1>5. TypeOK'
  <2>1. overlapped' \in BOOLEAN  BY DEF Waits, Types, TypeOK
  <2>2. QED  BY <1>4, <2>1 DEF Types, TypeOK, Waits, OnlyRequest
<1>6. Shown'
  <2>1. Len(products) \in Nat  BY DEF Types, TypeOK
  <2>2. \A s \in Requests : req'[s].list # None => req'[s].list <= Len(products)
    BY DEF Types, Shown, Waits, OnlyRequest
  <2>3. ASSUME NEW s \in Requests, NEW m \in Attempts
        PROVE  call'[s][m].list <= Len(products)
    <3>1. CASE s = r /\ m = n  BY <1>2, <1>4, <2>1, <3>1
    <3>2. CASE ~ (s = r /\ m = n)
      <4>1. call'[s][m] = call[s][m]  BY <1>4, <3>2
      <4>2. QED  BY <4>1 DEF Types, Shown
    <3>3. QED  BY <3>1, <3>2
  <2>4. cache' # None => cache'.list <= Len(products)
    <3>1. cache' = cache  BY DEF Waits
    <3>2. QED  BY <3>1 DEF Types, Shown
  <2>5. QED  BY <2>2, <2>3, <2>4 DEF Shown
<1>7. RequestInv'
  <2> SUFFICES ASSUME NEW s \in Requests
               PROVE  /\ req'[s].op = "none" <=> req'[s].phase = "new"
                      /\ req'[s].phase = "new" => \A m \in Attempts : call'[s][m].at = "none"
                      /\ req'[s].phase # "answered" => req'[s].answer = "none" /\ req'[s].list = None
                      /\ req'[s].op # "list" => req'[s].list = None
                      /\ req'[s].answer = "ok" => req'[s].op = "list" /\ req'[s].list # None
                      /\ req'[s].answer = "created" => req'[s].op = "create"
                      /\ req'[s].phase = "backoff" => req'[s].attempt \in 1..MaxRetries
                      /\ req'[s].phase = "waiting" => req'[s].attempt \in Attempts
                      /\ \A m \in Attempts : Replied(s, m)' =>
                           call'[s][m].result \in IF req'[s].op = "list" THEN {"ok", "error"}
                                                  ELSE {"created", "refused", "error"}
    BY DEF RequestInv
  <2>1. CASE s # r
    <3>1. req'[s] = req[s] /\ \A m \in Attempts : call'[s][m] = call[s][m]
      BY <1>4, <2>1 DEF Waits, OnlyRequest
    <3>2. QED  BY <3>1 DEF Types, RequestInv, Replied
  <2>2. CASE s = r
    <3>1. \A m \in Attempts : Replied(r, m)' =>
            /\ call'[r][m] = call[r][m] /\ Replied(r, m) /\ req[r].phase # "new"
      BY <1>2, <1>4 DEF Replied, Types, RequestInv
    <3>2. QED  BY <2>2, <3>1 DEF Types, RequestInv, Waits, Asked, Ops
  <2>3. QED  BY <2>1, <2>2
<1>8. QED  BY <1>5, <1>6, <1>7 DEF Types

\* A request that ends without the service, or backs off, keeps types.
LEMMA EndsTypes ==
  ASSUME Types, NEW r \in Requests, NEW q, EndsUnserved(r, q), Asked(r, q), DropsCalls,
         UNCHANGED <<products, overlapped>>, now' \in Nat, cut' \in [Requests -> Nat],
         seen' \in [Requests -> [made : SUBSET Requests, list : Nat \cup {None}]]
  PROVE  Types'
<1>1. \A s \in Requests, m \in Attempts :
        call'[s][m] = call[s][m] \/ (call'[s][m].at = "none" /\ call'[s][m].list = 0)
  BY DEF DropsCalls, NoCall
<1>2. Len(products) \in Nat  BY DEF Types, TypeOK
<1>5. TypeOK'
  BY DEF Types, TypeOK, EndsUnserved, OnlyRequest, DropsCalls
<1>6. Shown'
  <2>1. \A s \in Requests : req'[s].list # None => req'[s].list <= Len(products)
    BY DEF Types, Shown, EndsUnserved, OnlyRequest
  <2>2. \A s \in Requests, m \in Attempts : call'[s][m].list <= Len(products)
    BY <1>1, <1>2 DEF Types, Shown
  <2>3. QED  BY <2>1, <2>2 DEF Types, Shown, EndsUnserved
<1>7. RequestInv'
  <2> SUFFICES ASSUME NEW s \in Requests
               PROVE  /\ req'[s].op = "none" <=> req'[s].phase = "new"
                      /\ req'[s].phase = "new" => \A m \in Attempts : call'[s][m].at = "none"
                      /\ req'[s].phase # "answered" => req'[s].answer = "none" /\ req'[s].list = None
                      /\ req'[s].op # "list" => req'[s].list = None
                      /\ req'[s].answer = "ok" => req'[s].op = "list" /\ req'[s].list # None
                      /\ req'[s].answer = "created" => req'[s].op = "create"
                      /\ req'[s].phase = "backoff" => req'[s].attempt \in 1..MaxRetries
                      /\ req'[s].phase = "waiting" => req'[s].attempt \in Attempts
                      /\ \A m \in Attempts : Replied(s, m)' =>
                           call'[s][m].result \in IF req'[s].op = "list" THEN {"ok", "error"}
                                                  ELSE {"created", "refused", "error"}
    BY DEF RequestInv
  <2>0. \A m \in Attempts : Replied(s, m)' => call'[s][m] = call[s][m] /\ Replied(s, m)
    BY <1>1 DEF Replied
  <2>1. CASE s # r
    <3>1. req'[s] = req[s]  BY <2>1 DEF EndsUnserved, OnlyRequest
    <3>2. QED  BY <1>1, <2>0, <3>1 DEF Types, RequestInv
  <2>2. CASE s = r
    <3>1. \A m \in Attempts : Replied(r, m)' => req[r].phase # "new"
      BY <2>0, <2>2 DEF Types, RequestInv, Replied
    <3>2. req'[r].op = q.op /\ q.op \in Ops
      /\ \/ /\ req'[r].phase = "backoff" /\ req'[r].attempt \in 1..MaxRetries
            /\ req'[r].answer = "none" /\ req'[r].list = None
         \/ /\ req'[r].phase = "answered"
            /\ req'[r].answer \in {"unavailable", "default", "cached", "unauthorized"}
            /\ req'[r].list = None \/ q.op = "list"
      BY DEF EndsUnserved, Asked
    <3>3. \A m \in Attempts : Replied(s, m)' =>
                           call'[s][m].result \in IF req'[s].op = "list" THEN {"ok", "error"}
                                                  ELSE {"created", "refused", "error"}
      BY <2>0, <2>2, <3>1, <3>2 DEF Types, RequestInv, Asked
    <3>4. QED  BY <2>2, <3>2, <3>3 DEF Ops
  <2>3. QED  BY <2>1, <2>2
<1>8. QED  BY <1>5, <1>6, <1>7 DEF Types

\* A reply arrives, and it is the answer or nobody waits for it.
LEMMA ArrivedTypes ==
  ASSUME Types, NEW r \in Requests, NEW n \in Attempts, Replied(r, n),
         Answered(r, n) \/ req' = req, cache' = Stored(r, n),
         call' = [call EXCEPT ![r][n] = NoCall],
         UNCHANGED <<products, now, seen, cut, overlapped>>
  PROVE  Types'
<1>1. NoCall \in CallRecord /\ NoCall.at = "none" /\ NoCall.list = 0
  BY DEF NoCall, CallRecord
<1>2. /\ call' \in [Requests -> [Attempts -> CallRecord]]
      /\ \A s \in Requests, m \in Attempts : call'[s][m] \in {call[s][m], NoCall}
  <2>1. /\ call' \in [Requests -> [Attempts -> CallRecord]]
        /\ call'[r][n] = NoCall
        /\ \A s \in Requests, m \in Attempts : <<s, m>> # <<r, n>> => call'[s][m] = call[s][m]
    BY <1>1, CallChanged DEF Types, TypeOK
  <2>2. QED  BY <2>1
<1>3. /\ call[r][n].list \in Nat /\ call[r][n].list <= Len(products) /\ Len(products) \in Nat
      /\ req[r].phase # "new"
  BY DEF Types, TypeOK, CallRecord, Shown, RequestInv, Replied
<1>4. req' \in [Requests -> RequestRecord] /\ \A s \in Requests \ {r} : req'[s] = req[s]
  BY DEF Types, TypeOK, Answered, OnlyRequest
<1>5. /\ cache' # None => cache' \in [list : Nat, at : Nat]
      /\ cache' # None => cache'.list <= Len(products)
  <2>1. now \in Nat  BY DEF Types, TypeOK
  <2>2. QED  BY <1>3, <2>1 DEF Types, TypeOK, Shown, Stored
<1>6. TypeOK'  BY <1>2, <1>4, <1>5 DEF Types, TypeOK
<1>7. Shown'
  <2>1. ASSUME NEW s \in Requests, req'[s].list # None
        PROVE  req'[s].list <= Len(products)
    BY <1>3, <1>4, <2>1 DEF Types, Shown, Answered
  <2>2. ASSUME NEW s \in Requests, NEW m \in Attempts
        PROVE  call'[s][m].list <= Len(products)
    BY <1>1, <1>2, <1>3 DEF Types, Shown
  <2>3. QED  BY <1>5, <2>1, <2>2 DEF Shown
<1>8. RequestInv'
  <2> SUFFICES ASSUME NEW s \in Requests
               PROVE  /\ req'[s].op = "none" <=> req'[s].phase = "new"
                      /\ req'[s].phase = "new" => \A m \in Attempts : call'[s][m].at = "none"
                      /\ req'[s].phase # "answered" => req'[s].answer = "none" /\ req'[s].list = None
                      /\ req'[s].op # "list" => req'[s].list = None
                      /\ req'[s].answer = "ok" => req'[s].op = "list" /\ req'[s].list # None
                      /\ req'[s].answer = "created" => req'[s].op = "create"
                      /\ req'[s].phase = "backoff" => req'[s].attempt \in 1..MaxRetries
                      /\ req'[s].phase = "waiting" => req'[s].attempt \in Attempts
                      /\ \A m \in Attempts : Replied(s, m)' =>
                           call'[s][m].result \in IF req'[s].op = "list" THEN {"ok", "error"}
                                                  ELSE {"created", "refused", "error"}
    BY DEF RequestInv
  <2>1. \A m \in Attempts : Replied(s, m)' => call'[s][m] = call[s][m] /\ Replied(s, m)
    BY <1>1, <1>2 DEF Replied
  <2>2. \A m \in Attempts : call[s][m].at = "none" => call'[s][m].at = "none"
    BY <1>1, <1>2
  <2>3. CASE req'[s] = req[s]  BY <2>1, <2>2, <2>3 DEF Types, RequestInv
  <2>4. CASE s = r /\ Answered(r, n)
    <3>1. /\ req'[r].op = req[r].op /\ req'[r].phase = "answered"
          /\ req'[r].answer = call[r][n].result
          /\ req'[r].list = (IF req[r].op = "list" THEN call[r][n].list ELSE None)
          /\ call[r][n].result \in (IF req[r].op = "list" THEN {"ok"} ELSE {"created", "refused"})
      BY <2>4 DEF Answered
    <3>2. req[r].op \in Ops /\ (req[r].op # "list" => req[r].op = "create")
      BY <1>3 DEF Types, TypeOK, RequestInv, RequestRecord, Ops
    <3>3. \A m \in Attempts : Replied(s, m)' =>
                           call'[s][m].result \in IF req'[s].op = "list" THEN {"ok", "error"}
                                                  ELSE {"created", "refused", "error"}
      BY <2>1, <2>4, <3>1 DEF Types, RequestInv
    <3>4. call[r][n].list # None  BY <1>3, CatalogueAssumption
    <3>5. QED  BY <2>4, <3>1, <3>2, <3>3, <3>4 DEF Ops
  <2>5. QED  BY <1>4, <2>3, <2>4
<1>9. QED  BY <1>6, <1>7, <1>8 DEF Types

\* What a step of products-service does: it replies to attempt n of r.
Served(r, n) ==
  /\ call[r][n].at = "sent"
  /\ \E result \in Results, list \in Nat :
       /\ Replies(r, n, result, list) /\ list <= Len(products')
       /\ result \in IF req[r].op = "list" THEN {"ok", "error"} ELSE {"created", "refused", "error"}
  /\ products' = products \/ products' = Append(products, r)
  /\ cut' \in [Requests -> Nat]
  /\ UNCHANGED <<now, cache, req, seen, overlapped>>

\* A reply of products-service keeps types.
LEMMA ServedTypes ==
  ASSUME Types, NEW r \in Requests, NEW n \in Attempts, Served(r, n)
  PROVE  Types'
<1>1. PICK result \in Results, list \in Nat :
        /\ Replies(r, n, result, list) /\ list <= Len(products')
        /\ result \in IF req[r].op = "list" THEN {"ok", "error"} ELSE {"created", "refused", "error"}
  BY DEF Served
<1> DEFINE c == [at |-> "replied", result |-> result, list |-> list]
<1>2. c \in CallRecord /\ c.at = "replied" /\ c.result = result /\ c.list = list
  BY DEF CallRecord
<1>3. call' = [call EXCEPT ![r][n] = c]  BY <1>1 DEF Replies
<1> HIDE DEF c
<1>4. /\ call' \in [Requests -> [Attempts -> CallRecord]]
      /\ call'[r][n] = c
      /\ \A s \in Requests, m \in Attempts : <<s, m>> # <<r, n>> => call'[s][m] = call[s][m]
  BY <1>2, <1>3, CallChanged DEF Types, TypeOK
<1>5. /\ products' \in Seq(Requests) /\ Len(products) \in Nat /\ Len(products') \in Nat
      /\ Len(products) <= Len(products')
  BY TableGrows DEF Served, Types
<1>6. UNCHANGED <<now, cache, req, seen, overlapped>> /\ cut' \in [Requests -> Nat]
      /\ call[r][n].at = "sent"
  BY DEF Served
<1>7. TypeOK'  BY <1>4, <1>5, <1>6 DEF Types, TypeOK
<1>8. Shown'
  <2>1. ASSUME NEW s \in Requests, req[s].list # None PROVE req[s].list <= Len(products')
    <3>1. req[s].list \in Nat /\ req[s].list <= Len(products)
      BY <2>1 DEF Types, TypeOK, Shown, RequestRecord
    <3>2. QED  BY <1>5, <3>1
  <2>2. ASSUME NEW s \in Requests, NEW m \in Attempts
        PROVE  call'[s][m].list <= Len(products')
    <3>1. CASE s = r /\ m = n  BY <1>1, <1>2, <1>4, <3>1
    <3>2. CASE ~ (s = r /\ m = n)
      <4>1. call'[s][m] = call[s][m]  BY <1>4, <3>2
      <4>2. call[s][m].list \in Nat /\ call[s][m].list <= Len(products)
        BY DEF Types, TypeOK, Shown, CallRecord
      <4>3. QED  BY <1>5, <4>1, <4>2
    <3>3. QED  BY <3>1, <3>2
  <2>3. ASSUME cache # None PROVE cache.list <= Len(products')
    <3>1. cache.list \in Nat /\ cache.list <= Len(products)
      BY <2>3 DEF Types, TypeOK, Shown
    <3>2. QED  BY <1>5, <3>1
  <2>4. QED  BY <1>6, <2>1, <2>2, <2>3 DEF Shown
<1>9. RequestInv'
  <2>1. ASSUME NEW s \in Requests, NEW m \in Attempts, call'[s][m].at = "replied"
        PROVE  call'[s][m].result \in IF req[s].op = "list" THEN {"ok", "error"}
                                                         ELSE {"created", "refused", "error"}
    <3>1. CASE s = r /\ m = n  BY <1>1, <1>2, <1>4, <3>1
    <3>2. CASE ~ (s = r /\ m = n)
      <4>1. call'[s][m] = call[s][m]  BY <1>4, <3>2
      <4>2. QED  BY <2>1, <4>1 DEF Types, RequestInv, Replied
    <3>3. QED  BY <3>1, <3>2
  <2>2. ASSUME NEW s \in Requests, NEW m \in Attempts, req[s].phase = "new"
        PROVE  call'[s][m].at = "none"
    <3>1. call[s][m].at = "none" /\ s # r
      BY <1>6, <2>2 DEF Types, RequestInv
    <3>2. QED  BY <1>4, <3>1
  <2>3. QED  BY <1>6, <2>1, <2>2 DEF Types, RequestInv, Replied
<1>10. QED  BY <1>7, <1>8, <1>9 DEF Types

\* Every step of products-service is one.
LEMMA ServiceForm ==
  ASSUME Types, NEW r \in Requests, NEW n \in Attempts,
         FindAllActive(r, n) \/ Insert(r, n) \/ DatabaseError(r, n)
  PROVE  Served(r, n) /\ req[r].op \in Ops
<1>1. call[r][n].at = "sent"  BY DEF FindAllActive, Insert, DatabaseError
<1>2. req[r].op \in Ops
  <2>1. req[r].phase # "new"  BY <1>1 DEF Types, RequestInv
  <2>2. QED  BY <2>1 DEF Types, TypeOK, RequestInv, RequestRecord
<1>3. products \in Seq(Requests) /\ Len(products) \in Nat /\ cut \in [Requests -> Nat]
  BY DEF Types, TypeOK
<1>4. CASE FindAllActive(r, n)
  <2>1. /\ req[r].op = "list" /\ Replies(r, n, "ok", Len(products)) /\ products' = products
        /\ cut' = cut /\ UNCHANGED <<now, cache, req, seen, overlapped>>
    BY <1>4 DEF FindAllActive
  <2>2. "ok" \in Results /\ Len(products) <= Len(products')  BY <1>3, <2>1 DEF Results
  <2>3. QED  BY <1>1, <1>2, <1>3, <2>1, <2>2 DEF Served
<1>5. CASE Insert(r, n)
  <2>1. /\ req[r].op = "create" /\ cut' = cut /\ UNCHANGED <<now, cache, req, seen, overlapped>>
        /\ products' = products \/ products' = Append(products, r)
        /\ Replies(r, n, "created", 0) \/ Replies(r, n, "refused", 0)
    BY <1>5 DEF Insert
  <2>2. Len(products') \in Nat /\ 0 <= Len(products')  BY <1>3, <2>1
  <2>3. QED  BY <1>1, <1>2, <1>3, <2>1, <2>2 DEF Served, Results
<1>6. CASE DatabaseError(r, n)
  <2>1. /\ cut' = [cut EXCEPT ![r] = @ + 1] /\ UNCHANGED <<now, cache, req, seen, overlapped>>
        /\ products' = products \/ products' = Append(products, r)
        /\ Replies(r, n, "error", 0)
    BY <1>6 DEF DatabaseError
  <2>2. Len(products') \in Nat /\ 0 <= Len(products')  BY <1>3, <2>1
  <2>3. cut' \in [Requests -> Nat]  BY <1>3, <2>1
  <2>4. QED  BY <1>1, <1>2, <1>3, <2>1, <2>2, <2>3 DEF Served, Results
<1>7. QED  BY <1>2, <1>4, <1>5, <1>6

Broken(r) == req[r].phase \in {"waiting", "backoff"}

\* What a restart of the gateway leaves.
LEMMA RestartForm ==
  ASSUME TypeOK, GatewayRestart
  PROVE  /\ req' \in [Requests -> RequestRecord]
         /\ \A r \in Requests : ~ Broken(r) => req'[r] = req[r]
         /\ \A r \in Requests : Broken(r) =>
              /\ req'[r].op = req[r].op /\ req'[r].seller = req[r].seller
              /\ req'[r].list = req[r].list
              /\ req'[r].phase = "answered" /\ req'[r].answer = "lost"
         /\ call' \in [Requests -> [Attempts -> CallRecord]]
         /\ \A r \in Requests, n \in Attempts :
              call'[r][n] = IF req[r].op = "list" THEN NoCall ELSE call[r][n]
         /\ cut' \in [Requests -> Nat]
         /\ \A r \in Requests : cut'[r] = IF Broken(r) THEN cut[r] + 1 ELSE cut[r]
         /\ cache' = None
         /\ UNCHANGED <<products, now, seen, overlapped>>
<1> DEFINE lost(r) == [req[r] EXCEPT !.phase = "answered", !.answer = "lost"]
<1>1. req \in [Requests -> RequestRecord] /\ cut \in [Requests -> Nat]
      /\ call \in [Requests -> [Attempts -> CallRecord]]
  BY DEF TypeOK
<1>2. ASSUME NEW r \in Requests
      PROVE  /\ lost(r) \in RequestRecord
             /\ lost(r).op = req[r].op /\ lost(r).seller = req[r].seller
             /\ lost(r).list = req[r].list
             /\ lost(r).phase = "answered" /\ lost(r).answer = "lost"
  <2>1. req[r] \in RequestRecord  BY <1>1
  <2>2. QED  BY <2>1 DEF RequestRecord, Answers
<1>3. req' = [r \in Requests |-> IF Broken(r) THEN lost(r) ELSE req[r]]
  BY DEF GatewayRestart, Broken
<1> HIDE DEF lost
<1>4. /\ req' \in [Requests -> RequestRecord]
      /\ \A r \in Requests : req'[r] = IF Broken(r) THEN lost(r) ELSE req[r]
  BY <1>1, <1>2, <1>3
<1>5. NoCall \in CallRecord  BY DEF NoCall, CallRecord
<1>6. call' = [r \in Requests |->
                [n \in Attempts |-> IF req[r].op = "list" THEN NoCall ELSE call[r][n]]]
  BY DEF GatewayRestart
<1>7. /\ call' \in [Requests -> [Attempts -> CallRecord]]
      /\ \A r \in Requests, n \in Attempts :
           call'[r][n] = IF req[r].op = "list" THEN NoCall ELSE call[r][n]
  <2>1. \A r \in Requests, n \in Attempts : call[r][n] \in CallRecord  BY <1>1
  <2>2. QED  BY <1>5, <1>6, <2>1
<1>8. cut' = [r \in Requests |-> IF Broken(r) THEN cut[r] + 1 ELSE cut[r]]
  BY DEF GatewayRestart, Broken
<1>9. /\ cut' \in [Requests -> Nat]
      /\ \A r \in Requests : cut'[r] = IF Broken(r) THEN cut[r] + 1 ELSE cut[r]
  BY <1>1, <1>8
<1>10. cache' = None /\ UNCHANGED <<products, now, seen, overlapped>>
  BY DEF GatewayRestart
<1>11. QED  BY <1>2, <1>4, <1>7, <1>9, <1>10

\* A restart of the gateway keeps types.
LEMMA RestartTypes == ASSUME Types, GatewayRestart PROVE Types'
<1>1. /\ req' \in [Requests -> RequestRecord]
      /\ \A r \in Requests : ~ Broken(r) => req'[r] = req[r]
      /\ \A r \in Requests : Broken(r) =>
           /\ req'[r].op = req[r].op /\ req'[r].list = req[r].list
           /\ req'[r].phase = "answered" /\ req'[r].answer = "lost"
      /\ call' \in [Requests -> [Attempts -> CallRecord]]
      /\ \A r \in Requests, n \in Attempts :
           call'[r][n] = IF req[r].op = "list" THEN NoCall ELSE call[r][n]
      /\ cut' \in [Requests -> Nat]
      /\ cache' = None
      /\ UNCHANGED <<products, now, seen, overlapped>>
  BY RestartForm DEF Types
<1>2. NoCall.at = "none" /\ NoCall.list = 0  BY DEF NoCall
<1>3. Len(products) \in Nat  BY DEF Types, TypeOK
<1>4. TypeOK'  BY <1>1 DEF Types, TypeOK
<1>5. Shown'  BY <1>1, <1>2, <1>3 DEF Types, Shown
<1>6. RequestInv'
  <2> SUFFICES ASSUME NEW s \in Requests
               PROVE  /\ req'[s].op = "none" <=> req'[s].phase = "new"
                      /\ req'[s].phase = "new" => \A m \in Attempts : call'[s][m].at = "none"
                      /\ req'[s].phase # "answered" => req'[s].answer = "none" /\ req'[s].list = None
                      /\ req'[s].op # "list" => req'[s].list = None
                      /\ req'[s].answer = "ok" => req'[s].op = "list" /\ req'[s].list # None
                      /\ req'[s].answer = "created" => req'[s].op = "create"
                      /\ req'[s].phase = "backoff" => req'[s].attempt \in 1..MaxRetries
                      /\ req'[s].phase = "waiting" => req'[s].attempt \in Attempts
                      /\ \A m \in Attempts : Replied(s, m)' =>
                           call'[s][m].result \in IF req'[s].op = "list" THEN {"ok", "error"}
                                                  ELSE {"created", "refused", "error"}
    BY DEF RequestInv
  <2>1. \A m \in Attempts : Replied(s, m)' => call'[s][m] = call[s][m] /\ Replied(s, m)
    BY <1>1, <1>2 DEF Replied
  <2>2. \A m \in Attempts : call[s][m].at = "none" => call'[s][m].at = "none"
    BY <1>1, <1>2
  <2>3. CASE ~ Broken(s)
    <3>1. req'[s] = req[s]  BY <1>1, <2>3
    <3>2. QED  BY <2>1, <2>2, <3>1 DEF Types, RequestInv
  <2>4. CASE Broken(s)
    <3>1. /\ req'[s].op = req[s].op /\ req'[s].list = req[s].list
          /\ req'[s].phase = "answered" /\ req'[s].answer = "lost" /\ req[s].phase # "new"
      BY <1>1, <2>4 DEF Broken
    <3>2. QED  BY <2>1, <3>1 DEF Types, RequestInv
  <2>5. QED  BY <2>3, <2>4
<1>7. QED  BY <1>4, <1>5, <1>6 DEF Types

\* What one call less leaves.
LEMMA DropForm ==
  ASSUME Types, NEW r \in Requests, NEW n \in Attempts, call' = [call EXCEPT ![r][n] = NoCall]
  PROVE  /\ DropsCalls /\ call'[r][n] = NoCall
         /\ \A s \in Requests, m \in Attempts : <<s, m>> # <<r, n>> => call'[s][m] = call[s][m]
<1>1. NoCall \in CallRecord  BY DEF NoCall, CallRecord
<1>2. /\ call' \in [Requests -> [Attempts -> CallRecord]]
      /\ call'[r][n] = NoCall
      /\ \A s \in Requests, m \in Attempts : <<s, m>> # <<r, n>> => call'[s][m] = call[s][m]
  BY <1>1, CallChanged DEF Types, TypeOK
<1>3. QED  BY <1>2 DEF DropsCalls

\* Leaving the calls alone starts none.
LEMMA SameDrops == ASSUME Types, call' = call PROVE DropsCalls
  BY DEF Types, TypeOK, DropsCalls

\* What a new request notes of the past.
LEMMA SeenForm ==
  ASSUME Types, NEW r \in Requests,
         seen' = [seen EXCEPT ![r] = [made |-> {c \in Creates : req[c].answer = "created"},
                                      list |-> Longest]]
  PROVE  /\ seen' \in [Requests -> [made : SUBSET Requests, list : Nat \cup {None}]]
         /\ seen'[r].made = {c \in Creates : req[c].answer = "created"}
         /\ seen'[r].list = Longest
         /\ \A s \in Requests \ {r} : seen'[s] = seen[s]
<1> DEFINE made == {c \in Creates : req[c].answer = "created"}
           row  == [made |-> made, list |-> Longest]
<1>1. made \in SUBSET Requests  BY DEF Creates
<1>2. Longest \in Nat \cup {None}  BY LongestIs
<1>3. row \in [made : SUBSET Requests, list : Nat \cup {None}]
      /\ row.made = made /\ row.list = Longest
  BY <1>1, <1>2
<1>4. seen' = [seen EXCEPT ![r] = row]  OBVIOUS
<1>5. seen \in [Requests -> [made : SUBSET Requests, list : Nat \cup {None}]]
  BY DEF Types, TypeOK
<1> HIDE DEF made, row
<1>6. /\ seen' \in [Requests -> [made : SUBSET Requests, list : Nat \cup {None}]]
      /\ seen'[r] = row /\ \A s \in Requests \ {r} : seen'[s] = seen[s]
  BY <1>3, <1>4, <1>5
<1>7. QED  BY <1>3, <1>6 DEF made

\* Every step keeps types.
LEMMA TypesStep == Types /\ [Next]_vars => Types'
<1> SUFFICES ASSUME Types, [Next]_vars PROVE Types'  OBVIOUS
<1> USE DEF Types
<1>0. now \in Nat /\ cut \in [Requests -> Nat]
      /\ seen \in [Requests -> [made : SUBSET Requests, list : Nat \cup {None}]]
  BY DEF TypeOK
<1>1. ASSUME NEW r \in Requests, Ask(r) PROVE Types'
  <2>1. PICK q \in [op : Ops, seller : BOOLEAN] :
          \/ Waits(r, q, 1)
          \/ EndsUnserved(r, q) /\ call' = call /\ overlapped' = overlapped
    BY <1>1, AskForm
  <2>2. /\ req[r].phase = "new" /\ UNCHANGED <<products, now, cut>>
        /\ seen' \in [Requests -> [made : SUBSET Requests, list : Nat \cup {None}]]
    BY <1>1, AskForm, SeenForm
  <2>3. Asked(r, q) /\ 1 \in Attempts
    BY <2>2, CatalogueAssumption DEF Asked, Attempts
  <2>4. CASE Waits(r, q, 1)  BY <1>0, <2>2, <2>3, <2>4, WaitsTypes
  <2>5. CASE EndsUnserved(r, q) /\ call' = call /\ overlapped' = overlapped
    BY <1>0, <2>2, <2>3, <2>5, SameDrops, EndsTypes
  <2>6. QED  BY <2>1, <2>4, <2>5
<1>2. ASSUME NEW r \in Requests, TimesOut(r) PROVE Types'
  <2>1. /\ EndsUnserved(r, req[r]) /\ req[r].phase = "waiting"
        /\ cut' = [cut EXCEPT ![r] = @ + 1]
        /\ UNCHANGED <<products, now, call, seen, overlapped>>
    BY <1>2, TimesOutForm
  <2>2. Asked(r, req[r]) /\ cut' \in [Requests -> Nat]
    BY <1>0, <2>1 DEF Asked, TypeOK, RequestInv, RequestRecord
  <2>3. QED  BY <1>0, <2>1, <2>2, SameDrops, EndsTypes
<1>3. ASSUME NEW r \in Requests, Retry(r) PROVE Types'
  <2>1. /\ req[r].phase = "backoff" /\ req[r].attempt + 1 \in Attempts
        /\ \/ Waits(r, req[r], req[r].attempt + 1)
           \/ EndsUnserved(r, req[r]) /\ call' = call /\ overlapped' = overlapped
        /\ UNCHANGED <<products, now, seen, cut>>
    BY <1>3, RetryForm
  <2>2. Asked(r, req[r])
    BY <2>1 DEF Asked, TypeOK, RequestInv, RequestRecord
  <2>3. QED  BY <1>0, <2>1, <2>2, SameDrops, EndsTypes, WaitsTypes
<1>4. ASSUME NEW r \in Requests, NEW n \in Attempts, Arrives(r, n) PROVE Types'
  <2>1. /\ Replied(r, n) /\ req[r].op \in Ops
        /\ \/ Awaited(r, n) /\ Answered(r, n) /\ cache' = Stored(r, n)
           \/ EndsUnserved(r, req[r])
           \/ ~ Awaited(r, n) /\ req' = req /\ cache' = Stored(r, n)
        /\ call' = [call EXCEPT ![r][n] = NoCall]
        /\ UNCHANGED <<products, now, seen, cut, overlapped>>
    BY <1>4, ArrivesForm
  <2>2. CASE EndsUnserved(r, req[r])
    <3>1. Asked(r, req[r])  BY <2>1 DEF Asked
    <3>2. QED  BY <1>0, <2>1, <2>2, <3>1, DropForm, EndsTypes
  <2>3. QED  BY <2>1, <2>2, ArrivedTypes
<1>5. ASSUME NEW r \in Requests, NEW n \in Attempts,
             FindAllActive(r, n) \/ Insert(r, n) \/ DatabaseError(r, n)
      PROVE  Types'
  BY <1>5, ServiceForm, ServedTypes
<1>6. CASE Tick  BY <1>0, <1>6 DEF Tick, TypeOK, Shown, RequestInv, Replied
<1>7. CASE GatewayRestart  BY <1>7, RestartTypes
<1>8. CASE UNCHANGED vars  BY <1>8 DEF vars, TypeOK, Shown, RequestInv, Replied
<1>9. QED  BY <1>1, <1>2, <1>3, <1>4, <1>5, <1>6, <1>7, <1>8 DEF Next

-------------------------------------------------------------------------------
(* What a list holds *)

\* What the steps of the gateway have in common: nothing is made, what a request
\* asked and was told stays, and it is told only what was replied to it.
Gateway ==
  /\ products' = products
  /\ \A s \in Requests :
       /\ req[s].op # "none" =>
            req'[s].op = req[s].op /\ req'[s].seller = req[s].seller /\ seen'[s] = seen[s]
       /\ req[s].op = "none" =>
            \/ seen'[s] = seen[s] /\ req'[s] = req[s]
            \/ /\ seen'[s].made = {c \in Creates : req[c].answer = "created"}
               /\ seen'[s].list = Longest
       /\ req'[s].answer \in {"ok", "created"} =>
            \/ req'[s] = req[s]
            \/ \E n \in Attempts : /\ Replied(s, n) /\ call[s][n].result = req'[s].answer
                                   /\ req[s].op = "list" => req'[s].list = call[s][n].list
       /\ req[s].list # None => req'[s].list = req[s].list
       /\ \A n \in Attempts : Replied(s, n)' => call'[s][n] = call[s][n]

\* A request that ends without the service, or waits for a new attempt.
LEMMA MovesGateway ==
  ASSUME Types, NEW r \in Requests, NEW q, q.seller = req[r].seller \/ req[r].op = "none",
         Asked(r, q),
         (\E n \in Attempts : Waits(r, q, n)) \/ (EndsUnserved(r, q) /\ DropsCalls),
         req[r].phase # "answered", products' = products,
         \/ req[r].phase # "new" /\ seen' = seen
         \/ /\ req[r].phase = "new"
            /\ seen' = [seen EXCEPT ![r] = [made |-> {c \in Creates : req[c].answer = "created"},
                                            list |-> Longest]]
  PROVE  Gateway
<1>1. /\ OnlyRequest(r) /\ req'[r].op = q.op /\ req'[r].seller = q.seller
      /\ req'[r].answer \notin {"ok", "created"}
  BY DEF Waits, EndsUnserved
<1>2. /\ req[r].list = None /\ (req[r].op = "none" <=> req[r].phase = "new")
      /\ (req[r].op # "none" => q.op = req[r].op)
  BY DEF Types, RequestInv, Asked
<1>3. ASSUME NEW s \in Requests, NEW m \in Attempts, call'[s][m].at = "replied"
      PROVE  call'[s][m] = call[s][m]
  <2>1. CASE DropsCalls  BY <1>3, <2>1 DEF DropsCalls, NoCall
  <2>2. CASE \E n \in Attempts : Waits(r, q, n)
    <3>1. PICK n \in Attempts : Waits(r, q, n)  BY <2>2
    <3> DEFINE c == [at |-> "sent", result |-> None, list |-> 0]
    <3>2. c \in CallRecord /\ c.at = "sent"  BY DEF CallRecord
    <3>3. call' = [call EXCEPT ![r][n] = c]  BY <3>1 DEF Waits
    <3> HIDE DEF c
    <3>4. /\ call'[r][n] = c
          /\ <<s, m>> # <<r, n>> => call'[s][m] = call[s][m]
      BY <3>2, <3>3, CallChanged DEF Types, TypeOK
    <3>5. QED  BY <1>3, <3>2, <3>4
  <2>3. QED  BY <2>1, <2>2
<1>4. \A s \in Requests :
        /\ s # r => seen'[s] = seen[s]
        /\ req[s].op # "none" => seen'[s] = seen[s]
        /\ s = r /\ req[s].op = "none" =>
             /\ seen'[s].made = {c \in Creates : req[c].answer = "created"}
             /\ seen'[s].list = Longest
  <2>1. CASE req[r].phase # "new" /\ seen' = seen  BY <1>2, <2>1
  <2>2. CASE ~ (req[r].phase # "new" /\ seen' = seen)
    <3>1. /\ seen'[r].made = {c \in Creates : req[c].answer = "created"}
          /\ seen'[r].list = Longest /\ \A s \in Requests \ {r} : seen'[s] = seen[s]
      BY <2>2, SeenForm
    <3>2. req[r].op = "none"  BY <1>2, <2>2
    <3>3. QED  BY <3>1, <3>2
  <2>3. QED  BY <2>1, <2>2
<1>5. \A s \in Requests \ {r} : req'[s] = req[s]  BY <1>1 DEF OnlyRequest
<1>6. QED  BY <1>1, <1>2, <1>3, <1>4, <1>5 DEF Gateway, Replied

\* Every step is one of the gateway or a reply of products-service.
LEMMA GatewaySteps ==
  ASSUME Types, [Next]_vars
  PROVE  \/ Gateway
         \/ \E r \in Requests, n \in Attempts :
              FindAllActive(r, n) \/ Insert(r, n) \/ DatabaseError(r, n)
<1>1. ASSUME NEW r \in Requests, Ask(r) PROVE Gateway
  <2>1. PICK q \in [op : Ops, seller : BOOLEAN] :
          \/ Waits(r, q, 1)
          \/ EndsUnserved(r, q) /\ call' = call /\ overlapped' = overlapped
    BY <1>1, AskForm DEF Types
  <2>2. /\ req[r].phase = "new" /\ products' = products
        /\ seen' = [seen EXCEPT ![r] = [made |-> {c \in Creates : req[c].answer = "created"},
                                        list |-> Longest]]
    BY <1>1, AskForm DEF Types
  <2>3. /\ Asked(r, q) /\ 1 \in Attempts /\ req[r].op = "none" /\ req[r].phase # "answered"
        /\ (Waits(r, q, 1) \/ (EndsUnserved(r, q) /\ DropsCalls))
    <3>1. Waits(r, q, 1) \/ (EndsUnserved(r, q) /\ DropsCalls)  BY <2>1, SameDrops
    <3>2. 1 \in Attempts  BY CatalogueAssumption DEF Attempts
    <3>3. Asked(r, q) /\ req[r].op = "none" /\ req[r].phase # "answered"
      BY <2>2 DEF Asked, Types, RequestInv
    <3>4. QED  BY <3>1, <3>2, <3>3
  <2>4. QED  BY <2>2, <2>3, MovesGateway
<1>2. ASSUME NEW r \in Requests, TimesOut(r) PROVE Gateway
  <2>1. /\ EndsUnserved(r, req[r]) /\ req[r].phase = "waiting"
        /\ UNCHANGED <<products, now, call, seen, overlapped>>
    BY <1>2, TimesOutForm
  <2>2. Asked(r, req[r])
    BY <2>1 DEF Asked, Types, TypeOK, RequestInv, RequestRecord
  <2>3. DropsCalls  BY <2>1, SameDrops
  <2>4. QED  BY <2>1, <2>2, <2>3, MovesGateway
<1>3. ASSUME NEW r \in Requests, Retry(r) PROVE Gateway
  <2>1. /\ req[r].phase = "backoff" /\ req[r].attempt + 1 \in Attempts
        /\ \/ Waits(r, req[r], req[r].attempt + 1)
           \/ EndsUnserved(r, req[r]) /\ call' = call /\ overlapped' = overlapped
        /\ UNCHANGED <<products, now, seen, cut>>
    BY <1>3, RetryForm
  <2>2. Asked(r, req[r])
    BY <2>1 DEF Asked, Types, TypeOK, RequestInv, RequestRecord
  <2>3. (\E n \in Attempts : Waits(r, req[r], n)) \/ (EndsUnserved(r, req[r]) /\ DropsCalls)
    BY <2>1, SameDrops
  <2>4. QED  BY <2>1, <2>2, <2>3, MovesGateway
<1>4. ASSUME NEW r \in Requests, NEW n \in Attempts, Arrives(r, n) PROVE Gateway
  <2>1. /\ Replied(r, n) /\ req[r].op \in Ops
        /\ \/ Awaited(r, n) /\ Answered(r, n) /\ cache' = Stored(r, n)
           \/ Awaited(r, n) /\ EndsUnserved(r, req[r])
           \/ ~ Awaited(r, n) /\ req' = req /\ cache' = Stored(r, n)
        /\ call' = [call EXCEPT ![r][n] = NoCall]
        /\ UNCHANGED <<products, now, seen, cut, overlapped>>
    BY <1>4, ArrivesForm
  <2>2. DropsCalls  BY <2>1, DropForm
  <2>3. CASE Awaited(r, n) /\ EndsUnserved(r, req[r])
    <3>1. Asked(r, req[r]) /\ req[r].phase \notin {"answered", "new"}
      BY <2>1, <2>3 DEF Asked, Awaited
    <3>2. QED  BY <2>1, <2>2, <2>3, <3>1, MovesGateway
  <2>4. CASE (Awaited(r, n) /\ Answered(r, n)) \/ req' = req
    <3>1. ASSUME NEW s \in Requests, NEW m \in Attempts, Replied(s, m)'
          PROVE  call'[s][m] = call[s][m]
      BY <2>2, <3>1 DEF DropsCalls, NoCall, Replied
    <3>2. ASSUME Awaited(r, n), Answered(r, n)
          PROVE  /\ req[r].list = None /\ req'[r].op = req[r].op
                 /\ req'[r].seller = req[r].seller
                 /\ call[r][n].result = req'[r].answer
                 /\ req[r].op = "list" => req'[r].list = call[r][n].list
                 /\ \A s \in Requests \ {r} : req'[s] = req[s]
      BY <3>2 DEF Awaited, Answered, OnlyRequest, Types, RequestInv
    <3>3. \A s \in Requests : req'[s] = req[s] \/ (s = r /\ Awaited(r, n) /\ Answered(r, n))
      BY <2>4, <3>2
    <3>4. req[r].op # "none"  BY <2>1 DEF Ops
    <3>5. QED  BY <2>1, <3>1, <3>2, <3>3, <3>4 DEF Gateway
  <2>5. QED  BY <2>1, <2>3, <2>4
<1>5. CASE GatewayRestart
  <2>1. /\ \A s \in Requests : ~ Broken(s) => req'[s] = req[s]
        /\ \A s \in Requests : Broken(s) =>
             /\ req'[s].op = req[s].op /\ req'[s].seller = req[s].seller
             /\ req'[s].list = req[s].list /\ req'[s].answer = "lost"
        /\ \A s \in Requests, n \in Attempts :
             call'[s][n] = IF req[s].op = "list" THEN NoCall ELSE call[s][n]
        /\ UNCHANGED <<products, now, seen, overlapped>>
    BY <1>5, RestartForm DEF Types
  <2>2. \A s \in Requests, n \in Attempts : Replied(s, n)' => call'[s][n] = call[s][n]
    BY <2>1 DEF Replied, NoCall
  <2>3. \A s \in Requests : Broken(s) => req[s].op # "none"
    BY DEF Broken, Types, RequestInv
  <2>4. QED  BY <2>1, <2>2, <2>3 DEF Gateway
<1>6. CASE Tick  BY <1>6 DEF Tick, Gateway
<1>7. CASE UNCHANGED vars  BY <1>7 DEF vars, Gateway
<1>8. QED  BY <1>1, <1>2, <1>3, <1>4, <1>5, <1>6, <1>7 DEF Next

\* What products-service replies, and what it says of the table.
LEMMA ReplyForm ==
  ASSUME Types, NEW r \in Requests, NEW n \in Attempts,
         FindAllActive(r, n) \/ Insert(r, n) \/ DatabaseError(r, n)
  PROVE  /\ call[r][n].at = "sent" /\ call'[r][n].at = "replied"
         /\ \A s \in Requests, m \in Attempts : <<s, m>> # <<r, n>> => call'[s][m] = call[s][m]
         /\ \/ /\ call'[r][n].result = "ok" /\ products' = products /\ req[r].op = "list"
               /\ call'[r][n].list = Len(products) /\ cut' = cut
            \/ /\ call'[r][n].result = "created" /\ products' = Append(products, r)
               /\ req[r].op = "create" /\ req[r].seller /\ cut' = cut
            \/ /\ call'[r][n].result = "refused" /\ products' = products /\ cut' = cut
            \/ /\ call'[r][n].result = "error" /\ cut' = [cut EXCEPT ![r] = @ + 1]
               /\ \/ products' = products
                  \/ products' = Append(products, r) /\ req[r].op = "create" /\ req[r].seller
         /\ UNCHANGED <<now, cache, req, seen, overlapped>>
<1>1. ASSUME NEW result \in Results, NEW list \in Nat, Replies(r, n, result, list)
      PROVE  /\ call'[r][n].at = "replied" /\ call'[r][n].result = result
             /\ call'[r][n].list = list
             /\ \A s \in Requests, m \in Attempts :
                  <<s, m>> # <<r, n>> => call'[s][m] = call[s][m]
  <2> DEFINE c == [at |-> "replied", result |-> result, list |-> list]
  <2>1. c \in CallRecord /\ c.at = "replied" /\ c.result = result /\ c.list = list
    BY DEF CallRecord
  <2>2. call' = [call EXCEPT ![r][n] = c]  BY <1>1 DEF Replies
  <2> HIDE DEF c
  <2>3. /\ call'[r][n] = c
        /\ \A s \in Requests, m \in Attempts : <<s, m>> # <<r, n>> => call'[s][m] = call[s][m]
    BY <2>1, <2>2, CallChanged DEF Types, TypeOK
  <2>4. QED  BY <2>1, <2>3
<1>2. "ok" \in Results /\ "created" \in Results /\ "refused" \in Results /\ "error" \in Results
      /\ 0 \in Nat /\ Len(products) \in Nat
  BY DEF Results, Types, TypeOK
<1>3. CASE FindAllActive(r, n)  BY <1>1, <1>2, <1>3 DEF FindAllActive
<1>4. CASE Insert(r, n)  BY <1>1, <1>2, <1>4 DEF Insert
<1>5. CASE DatabaseError(r, n)
  <2>1. Replies(r, n, "error", 0)  BY <1>5 DEF DatabaseError
  <2>2. /\ call'[r][n].at = "replied" /\ call'[r][n].result = "error"
        /\ \A s \in Requests, m \in Attempts :
                  <<s, m>> # <<r, n>> => call'[s][m] = call[s][m]
    BY <1>1, <1>2, <2>1
  <2>3. QED  BY <1>5, <2>2 DEF DatabaseError
<1>6. QED  BY <1>3, <1>4, <1>5

\* Who has products: nobody but sellers who asked for one, and everybody who was
\* told so, or to whom products-service replied so.
MadeInv ==
  \A r \in Requests :
    /\ ~ (req[r].op = "create" /\ req[r].seller) => MadeBy(r) = {}
    /\ req[r].answer = "created" => MadeBy(r) # {}
    /\ \A n \in Attempts : Replied(r, n) /\ call[r][n].result = "created" => MadeBy(r) # {}
    /\ \A c \in seen[r].made : MadeBy(c) # {}

\* The first rows of the table hold what made asks for.
Holds(rows, list, made) == list <= Len(rows) /\ \A c \in made : \E i \in 1..list : rows[i] = c

ListInv ==
  \A r \in Lists :
    /\ req[r].answer = "ok" => Holds(products, req[r].list, seen[r].made)
    /\ \A n \in Attempts : Replied(r, n) /\ call[r][n].result = "ok" =>
         Holds(products, call[r][n].list, seen[r].made)
    /\ seen[r].list # None => \E s \in Lists : req[s].list = seen[r].list

\* Nobody has a product at first.
LEMMA MadeInit == Init => MadeInv
  BY DEF Init, MadeInv, MadeBy, NotMade, NoCall, Replied

\* There is no list at first.
LEMMA ListInit == Init => ListInv
  BY DEF Init, ListInv, Lists, NotMade

\* Every step keeps who has products.
LEMMA MadeStep == Types /\ MadeInv /\ [Next]_vars => MadeInv'
<1> SUFFICES ASSUME Types, MadeInv, [Next]_vars PROVE MadeInv'  OBVIOUS
<1>1. CASE Gateway
  <2> SUFFICES ASSUME NEW r \in Requests
               PROVE  /\ ~ (req'[r].op = "create" /\ req'[r].seller) => MadeBy(r)' = {}
                      /\ req'[r].answer = "created" => MadeBy(r)' # {}
                      /\ \A n \in Attempts :
                           Replied(r, n)' /\ call'[r][n].result = "created" => MadeBy(r)' # {}
                      /\ \A c \in seen'[r].made : MadeBy(c)' # {}
    BY DEF MadeInv
  <2>1. \A c \in Requests : MadeBy(c)' = MadeBy(c)  BY <1>1 DEF Gateway, MadeBy
  <2>2. ~ (req'[r].op = "create" /\ req'[r].seller) => MadeBy(r) = {}
    <3>1. CASE req[r].op = "none"  BY <3>1 DEF MadeInv
    <3>2. CASE req[r].op # "none"  BY <1>1, <3>2 DEF MadeInv, Gateway
    <3>3. QED  BY <3>1, <3>2
  <2>3. req'[r].answer = "created" => MadeBy(r) # {}
    BY <1>1 DEF MadeInv, Gateway
  <2>4. \A n \in Attempts : Replied(r, n)' /\ call'[r][n].result = "created" => MadeBy(r) # {}
    BY <1>1 DEF MadeInv, Gateway, Replied
  <2>5. ASSUME NEW c \in seen'[r].made PROVE c \in Requests /\ MadeBy(c) # {}
    <3>1. CASE seen'[r] = seen[r]  BY <3>1 DEF MadeInv, Types, TypeOK
    <3>2. CASE seen'[r].made = {d \in Creates : req[d].answer = "created"}
      BY <3>2 DEF MadeInv, Creates
    <3>3. QED  BY <1>1, <3>1, <3>2 DEF Gateway
  <2>6. QED  BY <2>1, <2>2, <2>3, <2>4, <2>5
<1>2. ASSUME NEW r \in Requests, NEW n \in Attempts,
             FindAllActive(r, n) \/ Insert(r, n) \/ DatabaseError(r, n)
      PROVE  MadeInv'
  <2>1. /\ call[r][n].at = "sent" /\ call'[r][n].at = "replied"
        /\ \A s \in Requests, m \in Attempts : <<s, m>> # <<r, n>> => call'[s][m] = call[s][m]
        /\ call'[r][n].result = "created" => products' = Append(products, r)
        /\ \/ products' = products
           \/ products' = Append(products, r) /\ req[r].op = "create" /\ req[r].seller
        /\ UNCHANGED <<now, cache, req, seen, overlapped>>
    BY <1>2, ReplyForm
  <2>2. \A c \in Requests : MadeBy(c) \subseteq MadeBy(c)'
    BY <2>1, TableGrows DEF Types
  <2>3. \A c \in Requests :
          MadeBy(c)' # MadeBy(c) => c = r /\ req[r].op = "create" /\ req[r].seller
    <3>1. CASE products' = products  BY <3>1 DEF MadeBy
    <3>2. CASE products' = Append(products, r) /\ req[r].op = "create" /\ req[r].seller
      BY <3>2, RowAdded DEF Types
    <3>3. QED  BY <2>1, <3>1, <3>2
  <2>4. call'[r][n].result = "created" => MadeBy(r)' # {}
    BY <2>1, RowAdded DEF Types
  <2> SUFFICES ASSUME NEW s \in Requests
               PROVE  /\ ~ (req'[s].op = "create" /\ req'[s].seller) => MadeBy(s)' = {}
                      /\ req'[s].answer = "created" => MadeBy(s)' # {}
                      /\ \A m \in Attempts :
                           Replied(s, m)' /\ call'[s][m].result = "created" => MadeBy(s)' # {}
                      /\ \A c \in seen'[s].made : MadeBy(c)' # {}
    BY DEF MadeInv
  <2>5. ASSUME NEW m \in Attempts, Replied(s, m)', call'[s][m].result = "created"
        PROVE  MadeBy(s)' # {}
    <3>1. CASE s = r /\ m = n  BY <2>4, <2>5, <3>1
    <3>2. CASE ~ (s = r /\ m = n)
      <4>1. call'[s][m] = call[s][m]  BY <2>1, <3>2
      <4>2. QED  BY <2>2, <2>5, <4>1 DEF MadeInv, Replied
    <3>3. QED  BY <3>1, <3>2
  <2>6. \A c \in seen'[s].made : MadeBy(c)' # {}
    BY <2>1, <2>2 DEF MadeInv, Types, TypeOK
  <2>7. req'[s] = req[s]  BY <2>1
  <2>8. /\ ~ (req[s].op = "create" /\ req[s].seller) => MadeBy(s)' = {}
        /\ req[s].answer = "created" => MadeBy(s)' # {}
    BY <2>2, <2>3 DEF MadeInv
  <2>9. QED  BY <2>5, <2>6, <2>7, <2>8
<1>3. QED  BY <1>1, <1>2, GatewaySteps

\* A list holds what it held when the table has grown.
LEMMA HoldsGrows ==
  ASSUME TypeOK, products' = products \/ \E r \in Requests : products' = Append(products, r),
         NEW list \in Nat, NEW made, Holds(products, list, made)
  PROVE  Holds(products', list, made)
<1>1. /\ Len(products) \in Nat /\ Len(products') \in Nat /\ Len(products) <= Len(products')
      /\ \A i \in 1..Len(products) : products'[i] = products[i]
  BY TableGrows
<1>2. \A i \in 1..list : products'[i] = products[i]  BY <1>1 DEF Holds
<1>3. \A c \in made : \E i \in 1..list : products'[i] = c  BY <1>2 DEF Holds
<1>4. list <= Len(products')  BY <1>1 DEF Holds
<1>5. QED  BY <1>3, <1>4 DEF Holds

\* Every step keeps what lists hold.
LEMMA ListStep == Types /\ MadeInv /\ ListInv /\ [Next]_vars => ListInv'
<1> SUFFICES ASSUME Types, MadeInv, ListInv, [Next]_vars PROVE ListInv'  OBVIOUS
<1>1. CASE Gateway
  <2> SUFFICES ASSUME NEW r \in Requests, req'[r].op = "list"
               PROVE  /\ req'[r].answer = "ok" => Holds(products', req'[r].list, seen'[r].made)
                      /\ \A n \in Attempts : Replied(r, n)' /\ call'[r][n].result = "ok" =>
                           Holds(products', call'[r][n].list, seen'[r].made)
                      /\ seen'[r].list # None => \E s \in Lists' : req'[s].list = seen'[r].list
    BY DEF ListInv, Lists
  <2>1. ASSUME NEW list, NEW made, Holds(products, list, made) PROVE Holds(products', list, made)
    BY <1>1, <2>1 DEF Gateway, Holds
  <2>2. ASSUME NEW s \in Lists, req[s].list # None PROVE s \in Lists' /\ req'[s].list = req[s].list
    BY <1>1, <2>2 DEF Gateway, Lists
  <2>3. CASE req[r].op = "none"
    <3>1. req[r].phase = "new"  BY <2>3 DEF Types, RequestInv
    <3>2. req[r].answer = "none" /\ \A n \in Attempts : ~ Replied(r, n)
      BY <3>1 DEF Types, RequestInv, Replied
    <3>3. req'[r].answer # "ok" /\ \A n \in Attempts : ~ Replied(r, n)'
      <4>1. req'[r] # req[r]  BY <2>3
      <4>2. req'[r].answer # "ok"  BY <1>1, <3>2, <4>1 DEF Gateway
      <4>3. QED  BY <1>1, <3>2, <4>2 DEF Gateway, Replied
    <3>4. seen'[r].list # None => \E s \in Lists : req[s].list = seen'[r].list
      <4>1. seen'[r].list = Longest  BY <1>1, <2>3 DEF Gateway
      <4>2. QED  BY <4>1, LongestIs
    <3>5. QED  BY <2>2, <3>3, <3>4
  <2>4. CASE req[r].op # "none"
    <3>1. r \in Lists /\ seen'[r] = seen[r]  BY <1>1, <2>4 DEF Gateway, Lists
    <3>2. req'[r].answer = "ok" => Holds(products, req'[r].list, seen[r].made)
      BY <1>1, <3>1 DEF Gateway, ListInv, Lists
    <3>3. \A n \in Attempts : Replied(r, n)' /\ call'[r][n].result = "ok" =>
            Holds(products, call'[r][n].list, seen[r].made)
      BY <1>1, <3>1 DEF Gateway, ListInv, Replied
    <3>4. seen[r].list # None => \E s \in Lists' : req'[s].list = seen[r].list
      BY <2>2, <3>1 DEF ListInv
    <3>5. QED  BY <2>1, <3>1, <3>2, <3>3, <3>4
  <2>5. QED  BY <2>3, <2>4
<1>2. ASSUME NEW r \in Requests, NEW n \in Attempts,
             FindAllActive(r, n) \/ Insert(r, n) \/ DatabaseError(r, n)
      PROVE  ListInv'
  <2>1. /\ call[r][n].at = "sent" /\ call'[r][n].at = "replied"
        /\ \A s \in Requests, m \in Attempts : <<s, m>> # <<r, n>> => call'[s][m] = call[s][m]
        /\ call'[r][n].result = "ok" => /\ products' = products
                                        /\ call'[r][n].list = Len(products)
        /\ products' = products \/ products' = Append(products, r)
        /\ UNCHANGED <<now, cache, req, seen, overlapped>>
    BY <1>2, ReplyForm
  <2>2. Lists' = Lists  BY <2>1 DEF Lists
  <2>3. ASSUME NEW list \in Nat, NEW made, Holds(products, list, made) PROVE Holds(products', list, made)
    BY <2>1, <2>3, HoldsGrows DEF Types
  <2>4. ASSUME NEW s \in Lists, req[s].answer = "ok" PROVE Holds(products', req[s].list, seen[s].made)
    <3>1. Holds(products, req[s].list, seen[s].made)  BY <2>4 DEF ListInv
    <3>2. req[s].list \in Nat
      BY <2>4 DEF Types, TypeOK, RequestInv, RequestRecord, Lists
    <3>3. QED  BY <2>3, <3>1, <3>2
  <2>5. ASSUME NEW s \in Lists, NEW m \in Attempts, Replied(s, m)', call'[s][m].result = "ok"
        PROVE  Holds(products', call'[s][m].list, seen[s].made)
    <3>1. CASE s = r /\ m = n
      <4>1. ASSUME NEW c \in seen[s].made PROVE \E i \in 1..Len(products) : products[i] = c
        <5>1. c \in Requests /\ MadeBy(c) # {}  BY DEF MadeInv, Types, TypeOK, Lists
        <5>2. DOMAIN products = 1..Len(products)  BY DEF Types, TypeOK
        <5>3. QED  BY <5>1, <5>2 DEF MadeBy
      <4>2. Len(products) \in Nat  BY DEF Types, TypeOK
      <4>3. QED  BY <2>1, <2>5, <3>1, <4>1, <4>2 DEF Holds
    <3>2. CASE ~ (s = r /\ m = n)
      <4>1. call'[s][m] = call[s][m]  BY <2>1, <3>2 DEF Lists
      <4>2. Holds(products, call[s][m].list, seen[s].made)
        BY <2>5, <4>1 DEF ListInv, Replied
      <4>3. call[s][m].list \in Nat  BY DEF Types, TypeOK, CallRecord, Lists
      <4>4. QED  BY <2>1, <4>1, <4>2, <4>3, <2>3 DEF Holds
    <3>3. QED  BY <3>1, <3>2
  <2>6. QED  BY <2>1, <2>2, <2>4, <2>5 DEF ListInv
<1>3. QED  BY <1>1, <1>2, GatewaySteps

-------------------------------------------------------------------------------
(* The order of lists *)

NotOlder(list) == \A r \in Lists : req[r].list # None => req[r].list <= list

\* As long as no two calls for the list overlapped there is at most one, what it
\* brings is as new as the cache and as every answer, and so is the cache.
OneListCall ==
  \A r \in Lists, n \in Attempts, s \in Lists, m \in Attempts :
    call[r][n].at # "none" /\ call[s][m].at # "none" => r = s /\ n = m
NewReplies ==
  \A r \in Lists, n \in Attempts : Replied(r, n) /\ call[r][n].result = "ok" =>
    NotOlder(call[r][n].list) /\ (cache # None => cache.list <= call[r][n].list)
NewCache == cache # None => NotOlder(cache.list)
NeverBack ==
  \A r \in Lists : req[r].list # None /\ seen[r].list # None => req[r].list >= seen[r].list

OrderInv == ~ overlapped => OneListCall /\ NewReplies /\ NewCache /\ NeverBack

\* The order of lists holds at first.
LEMMA OrderInit == Init => OrderInv
  BY DEF Init, OrderInv, OneListCall, NewReplies, NewCache, NeverBack, Lists, NotMade

\* The order of lists is what the property says.
LEMMA OrderIs == OrderInv => ListsNeverGoBack
  BY DEF OrderInv, NeverBack, ListsNeverGoBack

\* The list answered that a request had to look back to when it asked, or has.
LEMMA SeenWasAnswered ==
  ASSUME Types, ListInv, Gateway, NEW r \in Requests, req'[r].op = "list", seen'[r].list # None
  PROVE  \E s \in Lists : req[s].list = seen'[r].list
<1>1. CASE req[r].op # "none"
  <2>1. r \in Lists /\ seen'[r] = seen[r]  BY <1>1 DEF Gateway, Lists
  <2>2. QED  BY <2>1 DEF ListInv
<1>2. CASE req[r].op = "none"
  <2>1. seen'[r].list = Longest  BY <1>2 DEF Gateway
  <2>2. QED  BY <2>1, LongestIs
<1>3. QED  BY <1>1, <1>2

\* The types of lists, wherever they are kept.
LEMMA ListTypes ==
  ASSUME Types
  PROVE  /\ \A r \in Requests : req[r].list # None =>
              req[r].list \in Nat /\ req[r].list <= Len(products) /\ r \in Lists
         /\ cache # None => cache.list \in Nat /\ cache.list <= Len(products)
         /\ \A r \in Requests, n \in Attempts : call[r][n].list \in Nat
         /\ \A r \in Requests : seen[r].list # None => seen[r].list \in Nat
         /\ Len(products) \in Nat
         /\ \A r \in Requests, n \in Attempts : call[r][n].at # "none" => req[r].op # "none"
<1>1. \A r \in Requests : req[r].list # None =>
        req[r].list \in Nat /\ req[r].list <= Len(products) /\ r \in Lists
  BY DEF Types, TypeOK, Shown, RequestInv, RequestRecord, Lists
<1>2. cache # None => cache.list \in Nat /\ cache.list <= Len(products)
  BY DEF Types, TypeOK, Shown
<1>3. \A r \in Requests, n \in Attempts : call[r][n].list \in Nat
  BY DEF Types, TypeOK, CallRecord
<1>4. \A r \in Requests, n \in Attempts : call[r][n].at # "none" => req[r].op # "none"
  BY DEF Types, RequestInv
<1>5. Len(products) \in Nat /\ \A r \in Requests : seen[r].list # None => seen[r].list \in Nat
  BY DEF Types, TypeOK
<1>6. QED  BY <1>1, <1>2, <1>3, <1>4, <1>5

\* A call for the list that starts is the only one.
LEMMA OrderWaits ==
  ASSUME Types, ListInv, OrderInv, Gateway, NEW r \in Requests, NEW q, NEW n \in Attempts,
         Waits(r, q, n), Asked(r, q)
  PROVE  OrderInv'
<1> SUFFICES ASSUME ~ overlapped' PROVE OneListCall' /\ NewReplies' /\ NewCache' /\ NeverBack'
  BY DEF OrderInv
<1> DEFINE c == [at |-> "sent", result |-> None, list |-> 0]
<1>1. c \in CallRecord /\ c.at = "sent"  BY DEF CallRecord
<1>2. call' = [call EXCEPT ![r][n] = c]  BY DEF Waits
<1> HIDE DEF c
<1>3. /\ call'[r][n] = c
      /\ \A s \in Requests, m \in Attempts : <<s, m>> # <<r, n>> => call'[s][m] = call[s][m]
  BY <1>1, <1>2, CallChanged DEF Types, TypeOK
<1>4. /\ ~ overlapped
      /\ q.op = "list" => \A s \in Lists, m \in Attempts : call[s][m].at = "none"
  BY DEF Waits, UnderWay
<1>5. OneListCall /\ NewReplies /\ NewCache /\ NeverBack  BY <1>4 DEF OrderInv
<1>6. /\ cache' = cache /\ req'[r].op = q.op /\ req'[r].list = None
      /\ \A s \in Requests \ {r} : req'[s] = req[s]
  BY DEF Waits, OnlyRequest
<1>7. ASSUME NEW s \in Lists', NEW m \in Attempts, call'[s][m].at # "none"
      PROVE  /\ s \in Requests
             /\ (s = r /\ m = n /\ q.op = "list") \/ (s \in Lists /\ call'[s][m] = call[s][m])
  <2>1. s \in Requests /\ req'[s].op = "list"  BY DEF Lists
  <2>2. CASE s = r /\ m = n  BY <1>6, <2>1, <2>2
  <2>3. CASE ~ (s = r /\ m = n)
    <3>1. call'[s][m] = call[s][m]  BY <1>3, <2>1, <2>3
    <3>2. req[s].op # "none"  BY <1>7, <2>1, <3>1, ListTypes
    <3>3. req[s].op = "list"  BY <2>1, <3>2 DEF Gateway
    <3>4. QED  BY <2>1, <3>1, <3>3 DEF Lists
  <2>4. QED  BY <2>2, <2>3
<1>8. OneListCall'
  <2> SUFFICES ASSUME NEW s1 \in Lists', NEW m1 \in Attempts, NEW s2 \in Lists', NEW m2 \in Attempts,
                      call'[s1][m1].at # "none", call'[s2][m2].at # "none"
               PROVE  s1 = s2 /\ m1 = m2
    BY DEF OneListCall
  <2>1. CASE q.op = "list"  BY <1>4, <1>7, <2>1
  <2>2. CASE q.op # "list"  BY <1>5, <1>7, <2>2 DEF OneListCall
  <2>3. QED  BY <2>1, <2>2
<1>9. ASSUME NEW list, NotOlder(list) PROVE NotOlder(list)'
  BY <1>6, <1>9 DEF NotOlder, Lists
<1>10. NewCache'
  BY <1>5, <1>6 DEF NewCache, NotOlder, Lists
<1>11. NewReplies'
  <2> SUFFICES ASSUME NEW s \in Lists', NEW m \in Attempts, Replied(s, m)', call'[s][m].result = "ok"
               PROVE  /\ NotOlder(call[s][m].list)' /\ call'[s][m] = call[s][m]
                      /\ cache # None => cache.list <= call[s][m].list
    BY <1>6 DEF NewReplies, NotOlder
  <2>1. s \in Lists /\ call'[s][m] = call[s][m]
    BY <1>1, <1>3, <1>7 DEF Replied
  <2>2. NotOlder(call[s][m].list) /\ (cache # None => cache.list <= call[s][m].list)
    BY <1>5, <2>1 DEF NewReplies, Replied
  <2>3. QED  BY <1>6, <2>1, <2>2 DEF NotOlder, Lists
<1>12. NeverBack'
  <2> SUFFICES ASSUME NEW s \in Lists', req'[s].list # None, seen'[s].list # None
               PROVE  req'[s].list >= seen'[s].list
    BY DEF NeverBack
  <2>1. s \in Requests /\ s # r /\ req'[s] = req[s]  BY <1>6 DEF Lists
  <2>2. s \in Lists /\ seen'[s] = seen[s]  BY <2>1, ListTypes DEF Gateway, Lists
  <2>3. QED  BY <1>5, <2>1, <2>2 DEF NeverBack
<1>13. QED  BY <1>8, <1>10, <1>11, <1>12

\* A request that ends with the cached list ends with one as new as any.
LEMMA OrderEnds ==
  ASSUME Types, ListInv, OrderInv, Gateway, NEW r \in Requests, NEW q,
         EndsUnserved(r, q), DropsCalls, Asked(r, q), req[r].list = None,
         overlapped' = overlapped
  PROVE  OrderInv'
<1> SUFFICES ASSUME ~ overlapped PROVE OneListCall' /\ NewReplies' /\ NewCache' /\ NeverBack'
  BY DEF OrderInv
<1>1. OneListCall /\ NewReplies /\ NewCache /\ NeverBack  BY DEF OrderInv
<1>2. /\ req'[r].op = q.op /\ cache' \in {cache, None}
      /\ \A s \in Requests \ {r} : req'[s] = req[s]
      /\ req'[r].list = None \/ (cache # None /\ req'[r].list = cache.list)
  BY DEF EndsUnserved, OnlyRequest
<1>3. ASSUME NEW s \in Lists', NEW m \in Attempts, call'[s][m].at # "none"
      PROVE  s \in Requests /\ s \in Lists /\ call'[s][m] = call[s][m]
  <2>1. s \in Requests /\ req'[s].op = "list"  BY DEF Lists
  <2>2. call'[s][m] = call[s][m]  BY <1>3, <2>1 DEF DropsCalls, NoCall
  <2>3. req[s].op # "none"  BY <1>3, <2>1, <2>2, ListTypes
  <2>4. req[s].op = "list"  BY <2>1, <2>3 DEF Gateway
  <2>5. QED  BY <2>1, <2>2, <2>4 DEF Lists
<1>4. OneListCall'  BY <1>1, <1>3 DEF OneListCall
<1>5. ASSUME NEW s \in Requests, req'[s].list # None
      PROVE  \/ s \in Lists /\ req'[s].list = req[s].list
             \/ s = r /\ cache # None /\ req'[s].list = cache.list
  <2>1. CASE s = r  BY <1>2, <1>5, <2>1
  <2>2. CASE s # r  BY <1>2, <1>5, <2>2, ListTypes
  <2>3. QED  BY <2>1, <2>2
<1>6. NewCache'
  <2> SUFFICES ASSUME cache' # None, NEW s \in Lists', req'[s].list # None
               PROVE  req'[s].list <= cache'.list
    BY DEF NewCache, NotOlder
  <2>1. cache' = cache /\ s \in Requests  BY <1>2 DEF Lists
  <2>2. cache.list \in Nat  BY <2>1, ListTypes
  <2>3. QED  BY <1>1, <1>5, <2>1, <2>2 DEF NewCache, NotOlder
<1>7. NewReplies'
  <2> SUFFICES ASSUME NEW s \in Lists', NEW m \in Attempts, Replied(s, m)', call'[s][m].result = "ok"
               PROVE  /\ \A t \in Lists' : req'[t].list # None => req'[t].list <= call'[s][m].list
                      /\ cache' # None => cache'.list <= call'[s][m].list
    BY DEF NewReplies, NotOlder
  <2>1. s \in Requests /\ s \in Lists /\ call'[s][m] = call[s][m]  BY <1>3 DEF Replied
  <2>2. NotOlder(call[s][m].list) /\ (cache # None => cache.list <= call[s][m].list)
    BY <1>1, <2>1 DEF NewReplies, Replied
  <2>3. ASSUME NEW t \in Lists', req'[t].list # None PROVE req'[t].list <= call[s][m].list
    <3>1. t \in Requests  BY DEF Lists
    <3>2. QED  BY <1>5, <2>2, <2>3, <3>1 DEF NotOlder
  <2>4. QED  BY <1>2, <2>1, <2>2, <2>3
<1>8. NeverBack'
  <2> SUFFICES ASSUME NEW s \in Lists', req'[s].list # None, seen'[s].list # None
               PROVE  req'[s].list >= seen'[s].list
    BY DEF NeverBack
  <2>1. s \in Requests /\ req'[s].op = "list"  BY DEF Lists
  <2>2. CASE s = r /\ cache # None /\ req'[s].list = cache.list
    <3>1. PICK t \in Lists : req[t].list = seen'[s].list  BY <2>1, SeenWasAnswered
    <3>2. req[t].list # None  BY <3>1
    <3>3. req[t].list <= cache.list  BY <1>1, <2>2, <3>2 DEF NewCache, NotOlder
    <3>4. cache.list \in Nat /\ req[t].list \in Nat  BY <2>2, <3>2, ListTypes DEF Lists
    <3>5. QED  BY <2>2, <3>1, <3>3, <3>4
  <2>3. CASE s # r
    <3>1. req'[s] = req[s] /\ s \in Lists  BY <1>2, <2>1, <2>3 DEF Lists
    <3>2. seen'[s] = seen[s]  BY <3>1 DEF Gateway, Lists
    <3>3. QED  BY <1>1, <3>1, <3>2 DEF NeverBack
  <2>4. s = r => cache # None /\ req'[s].list = cache.list  BY <1>2
  <2>5. QED  BY <2>2, <2>3, <2>4
<1>9. QED  BY <1>4, <1>6, <1>7, <1>8

\* The one reply under way, or the last, is as new as any.
LEMMA OrderArrives ==
  ASSUME Types, ListInv, OrderInv, Gateway, NEW r \in Requests, NEW n \in Attempts,
         Replied(r, n), Answered(r, n) \/ req' = req, cache' = Stored(r, n),
         call' = [call EXCEPT ![r][n] = NoCall],
         UNCHANGED <<products, now, seen, cut, overlapped>>
  PROVE  OrderInv'
<1> SUFFICES ASSUME ~ overlapped PROVE OneListCall' /\ NewReplies' /\ NewCache' /\ NeverBack'
  BY DEF OrderInv
<1>1. OneListCall /\ NewReplies /\ NewCache /\ NeverBack  BY DEF OrderInv
<1>2. /\ call'[r][n] = NoCall /\ NoCall.at = "none"
      /\ \A s \in Requests, m \in Attempts : <<s, m>> # <<r, n>> => call'[s][m] = call[s][m]
  BY DropForm DEF NoCall
<1>3. /\ \A s \in Requests \ {r} : req'[s] = req[s]
      /\ req'[r].op = req[r].op
      /\ \/ req'[r].list = req[r].list
         \/ req[r].op = "list" /\ call[r][n].result = "ok" /\ req'[r].list = call[r][n].list
  <2>1. CASE req' = req  BY <2>1
  <2>2. CASE Answered(r, n)
    <3>1. req[r].op # "list" => req'[r].list = req[r].list
      BY <2>2 DEF Answered, Types, RequestInv
    <3>2. QED  BY <2>2, <3>1 DEF Answered, OnlyRequest
  <2>3. QED  BY <2>1, <2>2
<1>4. Lists' = Lists  BY <1>3 DEF Lists
<1>5. OneListCall'  BY <1>1, <1>2, <1>4 DEF OneListCall, Lists
<1>6. ASSUME NEW s \in Lists, NEW m \in Attempts, Replied(s, m)'
      PROVE  Replied(s, m) /\ call'[s][m] = call[s][m] /\ r \notin Lists
  <2>1. s \in Requests /\ <<s, m>> # <<r, n>>  BY <1>2, <1>6 DEF Replied, Lists
  <2>2. call'[s][m] = call[s][m] /\ Replied(s, m)  BY <1>2, <1>6, <2>1 DEF Replied
  <2>3. r \notin Lists  BY <1>1, <2>1, <2>2 DEF OneListCall, Replied
  <2>4. QED  BY <2>2, <2>3
<1>7. CASE req[r].op = "list" /\ call[r][n].result = "ok"
  <2> DEFINE l == call[r][n].list
  <2>1. r \in Lists /\ l \in Nat /\ NotOlder(l)
    BY <1>1, <1>7, ListTypes DEF NewReplies, Lists
  <2>2. cache' = [list |-> l, at |-> now]  BY <1>7 DEF Stored
  <2>3. cache'.list = l  BY <2>2
  <2>4. \A s \in Lists : req'[s].list # None => req'[s].list <= l
    <3> SUFFICES ASSUME NEW s \in Lists, req'[s].list # None PROVE req'[s].list <= l
      OBVIOUS
    <3>1. req'[s].list = req[s].list \/ req'[s].list = l  BY <1>3 DEF Lists
    <3>2. QED  BY <2>1, <3>1 DEF NotOlder
  <2>5. NewCache'  BY <1>4, <2>3, <2>4 DEF NewCache, NotOlder
  <2>6. NewReplies'  BY <1>4, <1>6, <2>1 DEF NewReplies
  <2>7. NeverBack'
    <3> SUFFICES ASSUME NEW s \in Lists, req'[s].list # None, seen[s].list # None
                 PROVE  req'[s].list >= seen[s].list
      BY <1>4 DEF NeverBack
    <3>1. CASE req'[s].list = req[s].list  BY <1>1, <3>1 DEF NeverBack
    <3>2. CASE s = r /\ req'[s].list = l
      <4>1. PICK t \in Lists : req[t].list = seen[s].list  BY DEF ListInv
      <4>2. req[t].list # None /\ req[t].list \in Nat  BY <4>1, ListTypes DEF Lists
      <4>3. req[t].list <= l  BY <2>1, <4>2 DEF NotOlder
      <4>4. QED  BY <2>1, <3>2, <4>1, <4>2, <4>3
    <3>3. QED  BY <1>3, <3>1, <3>2 DEF Lists
  <2>8. QED  BY <1>5, <2>5, <2>6, <2>7
<1>8. CASE ~ (req[r].op = "list" /\ call[r][n].result = "ok")
  <2>1. cache' = cache /\ \A s \in Requests : req'[s].list = req[s].list
    BY <1>3, <1>8 DEF Stored
  <2>2. NewCache'  BY <1>1, <1>4, <2>1 DEF NewCache, NotOlder, Lists
  <2>3. NewReplies'
    <3> SUFFICES ASSUME NEW s \in Lists, NEW m \in Attempts, Replied(s, m)', call'[s][m].result = "ok"
                 PROVE  /\ \A t \in Lists : req[t].list # None => req[t].list <= call'[s][m].list
                        /\ cache # None => cache.list <= call'[s][m].list
      BY <1>4, <2>1 DEF NewReplies, NotOlder, Lists
    <3>1. QED  BY <1>1, <1>6 DEF NewReplies, NotOlder
  <2>4. NeverBack'  BY <1>1, <1>4, <2>1 DEF NeverBack, Lists
  <2>5. QED  BY <1>5, <2>2, <2>3, <2>4
<1>9. QED  BY <1>7, <1>8

\* The whole table is as new as any list.
LEMMA OrderServed ==
  ASSUME Types, OrderInv, NEW r \in Requests, NEW n \in Attempts,
         FindAllActive(r, n) \/ Insert(r, n) \/ DatabaseError(r, n)
  PROVE  OrderInv'
<1> SUFFICES ASSUME ~ overlapped' PROVE OneListCall' /\ NewReplies' /\ NewCache' /\ NeverBack'
  BY DEF OrderInv
<1>1. /\ call[r][n].at = "sent"
      /\ \A s \in Requests, m \in Attempts : <<s, m>> # <<r, n>> => call'[s][m] = call[s][m]
      /\ call'[r][n].result = "ok" => call'[r][n].list = Len(products)
      /\ UNCHANGED <<now, cache, req, seen, overlapped>>
  BY ReplyForm
<1>2. OneListCall /\ NewReplies /\ NewCache /\ NeverBack  BY <1>1 DEF OrderInv
<1>3. Lists' = Lists  BY <1>1 DEF Lists
<1>4. NewCache' /\ NeverBack'  BY <1>1, <1>2, <1>3 DEF NewCache, NeverBack, NotOlder
<1>5. OneListCall'
  <2>1. \A s \in Requests, m \in Attempts : call'[s][m].at # "none" => call[s][m].at # "none"
    BY <1>1
  <2>2. QED  BY <1>2, <1>3, <2>1 DEF OneListCall, Lists
<1>6. NewReplies'
  <2> SUFFICES ASSUME NEW s \in Lists, NEW m \in Attempts, Replied(s, m)', call'[s][m].result = "ok"
               PROVE  /\ \A t \in Lists : req[t].list # None => req[t].list <= call'[s][m].list
                      /\ cache # None => cache.list <= call'[s][m].list
    BY <1>1, <1>3 DEF NewReplies, NotOlder
  <2>1. CASE s = r /\ m = n  BY <1>1, <2>1, ListTypes DEF Lists
  <2>2. CASE ~ (s = r /\ m = n)
    <3>1. call'[s][m] = call[s][m]  BY <1>1, <2>2 DEF Lists
    <3>2. QED  BY <1>2, <3>1 DEF NewReplies, NotOlder, Replied
  <2>3. QED  BY <2>1, <2>2
<1>7. QED  BY <1>4, <1>5, <1>6

\* A restart forgets the cache and every call for the list.
LEMMA OrderRestart == ASSUME Types, OrderInv, GatewayRestart PROVE OrderInv'
<1> SUFFICES ASSUME ~ overlapped' PROVE OneListCall' /\ NewReplies' /\ NewCache' /\ NeverBack'
  BY DEF OrderInv
<1>1. /\ \A s \in Requests : req'[s].op = req[s].op /\ req'[s].list = req[s].list
      /\ \A s \in Requests, m \in Attempts :
           call'[s][m] = IF req[s].op = "list" THEN NoCall ELSE call[s][m]
      /\ cache' = None
      /\ UNCHANGED <<products, now, seen, overlapped>>
  BY RestartForm DEF Types
<1>2. Lists' = Lists /\ NeverBack  BY <1>1 DEF Lists, OrderInv
<1>3. \A s \in Lists, m \in Attempts : call'[s][m].at = "none"  BY <1>1 DEF Lists, NoCall
<1>4. OneListCall' /\ NewReplies'  BY <1>2, <1>3 DEF OneListCall, NewReplies, Replied
<1>5. NewCache' /\ NeverBack'  BY <1>1, <1>2 DEF NewCache, NeverBack, Lists
<1>6. QED  BY <1>4, <1>5

\* Every step keeps the order of lists.
LEMMA OrderStep == Types /\ ListInv /\ OrderInv /\ [Next]_vars => OrderInv'
<1> SUFFICES ASSUME Types, ListInv, OrderInv, [Next]_vars PROVE OrderInv'  OBVIOUS
<1>0. \/ Gateway
      \/ \E r \in Requests, n \in Attempts :
           FindAllActive(r, n) \/ Insert(r, n) \/ DatabaseError(r, n)
  BY GatewaySteps
<1>1. CASE \E r \in Requests, n \in Attempts :
             FindAllActive(r, n) \/ Insert(r, n) \/ DatabaseError(r, n)
  BY <1>1, OrderServed
<1>2. ASSUME Gateway, NEW r \in Requests, Ask(r) PROVE OrderInv'
  <2>1. PICK q \in [op : Ops, seller : BOOLEAN] :
          \/ Waits(r, q, 1)
          \/ EndsUnserved(r, q) /\ call' = call /\ overlapped' = overlapped
    BY <1>2, AskForm DEF Types
  <2>2. req[r].phase = "new"  BY <1>2, AskForm DEF Types
  <2>3. Asked(r, q) /\ 1 \in Attempts /\ req[r].list = None
    <3>1. 1 \in Attempts  BY CatalogueAssumption DEF Attempts
    <3>2. QED  BY <2>2, <3>1 DEF Asked, Types, RequestInv
  <2>4. QED  BY <1>2, <2>1, <2>3, SameDrops, OrderWaits, OrderEnds
<1>3. ASSUME Gateway, NEW r \in Requests, TimesOut(r) PROVE OrderInv'
  <2>1. /\ EndsUnserved(r, req[r]) /\ req[r].phase = "waiting"
        /\ UNCHANGED <<products, now, call, seen, overlapped>>
    BY <1>3, TimesOutForm
  <2>2. Asked(r, req[r]) /\ req[r].list = None
    BY <2>1 DEF Asked, Types, TypeOK, RequestInv, RequestRecord
  <2>3. QED  BY <1>3, <2>1, <2>2, SameDrops, OrderEnds
<1>4. ASSUME Gateway, NEW r \in Requests, Retry(r) PROVE OrderInv'
  <2>1. /\ req[r].phase = "backoff" /\ req[r].attempt + 1 \in Attempts
        /\ \/ Waits(r, req[r], req[r].attempt + 1)
           \/ EndsUnserved(r, req[r]) /\ call' = call /\ overlapped' = overlapped
    BY <1>4, RetryForm
  <2>2. Asked(r, req[r]) /\ req[r].list = None
    BY <2>1 DEF Asked, Types, TypeOK, RequestInv, RequestRecord
  <2>3. QED  BY <1>4, <2>1, <2>2, SameDrops, OrderWaits, OrderEnds
<1>5. ASSUME Gateway, NEW r \in Requests, NEW n \in Attempts, Arrives(r, n) PROVE OrderInv'
  <2>1. /\ Replied(r, n) /\ req[r].op \in Ops
        /\ \/ Awaited(r, n) /\ Answered(r, n) /\ cache' = Stored(r, n)
           \/ Awaited(r, n) /\ EndsUnserved(r, req[r])
           \/ ~ Awaited(r, n) /\ req' = req /\ cache' = Stored(r, n)
        /\ call' = [call EXCEPT ![r][n] = NoCall]
        /\ UNCHANGED <<products, now, seen, cut, overlapped>>
    BY <1>5, ArrivesForm
  <2>2. CASE Awaited(r, n) /\ EndsUnserved(r, req[r])
    <3>1. Asked(r, req[r]) /\ req[r].list = None
      BY <2>1, <2>2 DEF Asked, Awaited, Types, RequestInv
    <3>2. DropsCalls  BY <2>1, DropForm
    <3>3. QED  BY <1>5, <2>1, <2>2, <3>1, <3>2, OrderEnds
  <2>3. QED  BY <1>5, <2>1, <2>2, OrderArrives
<1>6. CASE Tick
  BY <1>6 DEF Tick, OrderInv, OneListCall, NewReplies, NewCache, NeverBack, Lists, NotOlder, Replied
<1>7. CASE GatewayRestart  BY <1>7, OrderRestart
<1>8. CASE UNCHANGED vars
  BY <1>8 DEF vars, OrderInv, OneListCall, NewReplies, NewCache, NeverBack, Lists, NotOlder, Replied
<1>9. CASE Gateway /\ Next
  BY <1>1, <1>2, <1>3, <1>4, <1>5, <1>6, <1>7, <1>9 DEF Next
<1>10. QED  BY <1>0, <1>1, <1>8, <1>9

-------------------------------------------------------------------------------
(* How many products a request makes *)

\* The attempts that were given up and have yet to reach the table.
GivenUp(r) == {n \in Attempts : call[r][n].at = "sent" /\ ~ Awaited(r, n)}

\* The request has its product and is told so, or is about to be.
Succeeds(r) ==
  \/ req[r].answer = "created"
  \/ \E n \in Attempts : Awaited(r, n) /\ Replied(r, n) /\ call[r][n].result = "created"
Success(r) == IF Succeeds(r) THEN 1 ELSE 0

\* Each product, made or still to come, is that of an attempt that was cut off,
\* or of the one that succeeds.
Counted(r) == Cardinality(MadeBy(r)) + Cardinality(GivenUp(r)) <= cut[r] + Success(r)
CountInv == \A r \in Creates : Counted(r)

\* Nothing is to be counted at first.
LEMMA CountInit == Init => CountInv
  BY DEF Init, CountInv, Creates, NotMade

\* What is counted is finite.
LEMMA CountTypes ==
  ASSUME Types, NEW r \in Requests
  PROVE  /\ IsFiniteSet(MadeBy(r)) /\ Cardinality(MadeBy(r)) \in Nat
         /\ IsFiniteSet(GivenUp(r)) /\ Cardinality(GivenUp(r)) \in Nat
         /\ cut[r] \in Nat /\ Success(r) \in {0, 1}
<1>1. IsFiniteSet(MadeBy(r))
  <2>1. MadeBy(r) \subseteq 1..Len(products) /\ Len(products) \in Nat
    BY DEF Types, TypeOK, MadeBy
  <2>2. IsFiniteSet(1..Len(products))  BY <2>1, FS_Interval
  <2>3. QED  BY <2>1, <2>2, FS_Subset
<1>2. IsFiniteSet(GivenUp(r))
  <2>1. IsFiniteSet(Attempts)  BY CatalogueAssumption, FS_Interval DEF Attempts
  <2>2. GivenUp(r) \subseteq Attempts  BY DEF GivenUp
  <2>3. QED  BY <2>1, <2>2, FS_Subset
<1>3. cut[r] \in Nat /\ Success(r) \in {0, 1}  BY DEF Types, TypeOK, Success
<1>4. QED  BY <1>1, <1>2, <1>3, FS_CardinalityType

\* A step that makes nothing and gives nothing up.
LEMMA CountKept ==
  ASSUME Types, Types', NEW r \in Requests, Counted(r), MadeBy(r)' = MadeBy(r),
         GivenUp(r)' \subseteq GivenUp(r),
         cut'[r] + Success(r)' >= cut[r] + Success(r)
  PROVE  Counted(r)'
<1>1. /\ IsFiniteSet(GivenUp(r)) /\ Cardinality(GivenUp(r)) \in Nat
      /\ Cardinality(MadeBy(r)) \in Nat /\ cut[r] \in Nat /\ Success(r) \in Nat
  BY CountTypes
<1>2. cut'[r] \in Nat /\ Success(r)' \in Nat /\ Cardinality(GivenUp(r)') \in Nat
  <2>1. cut'[r] \in Nat /\ Success(r)' \in Nat  BY DEF Types, TypeOK, Success
  <2>2. IsFiniteSet(GivenUp(r)')  BY <1>1, FS_Subset
  <2>3. QED  BY <2>1, <2>2, FS_CardinalityType
<1>3. Cardinality(GivenUp(r)') <= Cardinality(GivenUp(r))  BY <1>1, FS_Subset
<1>4. QED  BY <1>1, <1>2, <1>3 DEF Counted

\* A request that has made nothing and has no call under way.
LEMMA CountNothing ==
  ASSUME Types', NEW r \in Requests, MadeBy(r)' = {}, GivenUp(r)' = {}
  PROVE  Counted(r)'
<1>1. cut'[r] \in Nat /\ Success(r)' \in Nat  BY DEF Types, TypeOK, Success
<1>2. QED  BY <1>1, FS_EmptySet DEF Counted

\* The attempt in hand is cut off: either it had made nothing, or it succeeded.
LEMMA CountCutOff ==
  ASSUME Types, Types', NEW r \in Requests, Counted(r), MadeBy(r)' = MadeBy(r),
         req[r].phase = "waiting", req'[r].phase # "waiting",
         \A m \in Attempts : call'[r][m] = call[r][m], cut'[r] = cut[r] + 1
  PROVE  Counted(r)'
<1> DEFINE n == req[r].attempt
<1>1. /\ IsFiniteSet(GivenUp(r)) /\ Cardinality(GivenUp(r)) \in Nat
      /\ Cardinality(MadeBy(r)) \in Nat /\ cut[r] \in Nat /\ Success(r) \in {0, 1}
  BY CountTypes
<1>2. Success(r)' \in {0, 1}  BY DEF Success
<1>3. req[r].answer # "created"  BY DEF Types, RequestInv
<1>4. CASE Success(r) = 1
  <2>1. PICK m \in Attempts : Awaited(r, m) /\ Replied(r, m)
    BY <1>3, <1>4 DEF Success, Succeeds
  <2>2. call[r][n].at = "replied" /\ m = n  BY <2>1 DEF Awaited, Replied
  <2>3. GivenUp(r)' \subseteq GivenUp(r)  BY <2>2 DEF GivenUp, Awaited
  <2>4. cut'[r] + Success(r)' >= cut[r] + Success(r)  BY <1>1, <1>2, <1>4
  <2>5. QED  BY <2>3, <2>4, CountKept
<1>5. CASE Success(r) = 0
  <2>1. GivenUp(r)' \subseteq GivenUp(r) \cup {n}  BY DEF GivenUp, Awaited
  <2>2. /\ IsFiniteSet(GivenUp(r) \cup {n})
        /\ Cardinality(GivenUp(r) \cup {n}) <= Cardinality(GivenUp(r)) + 1
        /\ Cardinality(GivenUp(r) \cup {n}) \in Nat
    BY <1>1, FS_AddElement
  <2>3. Cardinality(GivenUp(r)') <= Cardinality(GivenUp(r) \cup {n})
        /\ Cardinality(GivenUp(r)') \in Nat
    BY <2>1, <2>2, FS_Subset, FS_CardinalityType
  <2>4. QED  BY <1>1, <1>2, <1>5, <2>2, <2>3 DEF Counted
<1>6. QED  BY <1>1, <1>4, <1>5

\* A step for another request.
LEMMA CountOther ==
  ASSUME Types, Types', NEW s \in Requests, Counted(s), MadeBy(s)' = MadeBy(s),
         req'[s] = req[s], \A m \in Attempts : call'[s][m] = call[s][m], cut'[s] = cut[s]
  PROVE  Counted(s)'
<1>1. GivenUp(s)' = GivenUp(s)  BY DEF GivenUp, Awaited
<1>2. Success(s)' = Success(s)  BY DEF Success, Succeeds, Awaited, Replied
<1>3. cut[s] \in Nat /\ Success(s) \in Nat  BY CountTypes
<1>4. cut'[s] + Success(s)' >= cut[s] + Success(s)  BY <1>2, <1>3
<1>5. QED  BY <1>1, <1>4, CountKept

\* An attempt that starts, or fails before it does.
LEMMA CountBackoff ==
  ASSUME Types, Types', NEW r \in Requests, Counted(r), MadeBy(r)' = MadeBy(r),
         req[r].phase = "backoff", cut'[r] = cut[r],
         \/ \E n \in Attempts : Waits(r, req[r], n)
         \/ EndsUnserved(r, req[r]) /\ call' = call
  PROVE  Counted(r)'
<1>1. Success(r) = 0
  BY DEF Success, Succeeds, Awaited, Types, RequestInv
<1>2. GivenUp(r)' \subseteq GivenUp(r)
  <2>1. CASE \E n \in Attempts : Waits(r, req[r], n)
    <3>1. PICK n \in Attempts : Waits(r, req[r], n)  BY <2>1
    <3> DEFINE c == [at |-> "sent", result |-> None, list |-> 0]
    <3>2. c \in CallRecord  BY DEF CallRecord
    <3>3. call' = [call EXCEPT ![r][n] = c]  BY <3>1 DEF Waits
    <3> HIDE DEF c
    <3>4. \A m \in Attempts : m # n => call'[r][m] = call[r][m]
      BY <3>2, <3>3, CallChanged DEF Types, TypeOK
    <3>5. req'[r].phase = "waiting" /\ req'[r].attempt = n  BY <3>1 DEF Waits
    <3>6. QED  BY <3>4, <3>5 DEF GivenUp, Awaited
  <2>2. CASE EndsUnserved(r, req[r]) /\ call' = call
    BY <2>2 DEF GivenUp, Awaited
  <2>3. QED  BY <2>1, <2>2
<1>3. cut[r] \in Nat /\ Success(r)' \in Nat  BY CountTypes DEF Success
<1>4. cut'[r] + Success(r)' >= cut[r] + Success(r)  BY <1>1, <1>3
<1>5. QED  BY <1>2, <1>4, CountKept

\* A reply that arrives.
LEMMA CountArrives ==
  ASSUME Types, Types', NEW r \in Requests, NEW n \in Attempts, Counted(r), Arrives(r, n)
  PROVE  Counted(r)'
<1>1. /\ Replied(r, n)
      /\ \/ Awaited(r, n) /\ Answered(r, n)
         \/ Awaited(r, n) /\ call[r][n].result = "error" /\ EndsUnserved(r, req[r])
         \/ ~ Awaited(r, n) /\ req' = req
      /\ call' = [call EXCEPT ![r][n] = NoCall]
      /\ products' = products /\ cut' = cut
  BY ArrivesForm
<1>2. call'[r][n].at = "none" /\ \A m \in Attempts : m # n => call'[r][m] = call[r][m]
  <2>1. /\ call'[r][n] = NoCall
        /\ \A s \in Requests, m \in Attempts : <<s, m>> # <<r, n>> => call'[s][m] = call[s][m]
    BY <1>1, DropForm
  <2>2. QED  BY <2>1 DEF NoCall
<1>3. MadeBy(r)' = MadeBy(r)  BY <1>1 DEF MadeBy
<1>4. req'[r].phase = "waiting" => req'[r] = req[r]
  BY <1>1 DEF Answered, EndsUnserved
<1>5. GivenUp(r)' \subseteq GivenUp(r)
  <2> SUFFICES ASSUME NEW m \in GivenUp(r)' PROVE m \in GivenUp(r)  OBVIOUS
  <2>1. m \in Attempts /\ call'[r][m].at = "sent" /\ ~ Awaited(r, m)'  BY DEF GivenUp
  <2>2. m # n /\ call'[r][m] = call[r][m]  BY <1>2, <2>1
  <2>3. ~ Awaited(r, m)  BY <1>1, <2>1, <2>2 DEF Awaited
  <2>4. QED  BY <2>1, <2>2, <2>3 DEF GivenUp
<1>6. Succeeds(r) => Succeeds(r)'
  <2>1. CASE Awaited(r, n) /\ Answered(r, n)
    <3>1. req[r].answer # "created"  BY <2>1 DEF Awaited, Types, RequestInv
    <3>2. Succeeds(r) => call[r][n].result = "created"
      BY <2>1, <3>1 DEF Succeeds, Awaited
    <3>3. QED  BY <2>1, <3>2 DEF Answered, Succeeds
  <2>2. CASE Awaited(r, n) /\ call[r][n].result = "error"
    BY <2>2 DEF Succeeds, Awaited, Types, RequestInv
  <2>3. CASE ~ Awaited(r, n) /\ req' = req
    BY <1>2, <2>3 DEF Succeeds, Awaited, Replied
  <2>4. QED  BY <1>1, <2>1, <2>2, <2>3
<1>7. cut[r] \in Nat  BY CountTypes
<1>8. cut'[r] + Success(r)' >= cut[r] + Success(r)  BY <1>1, <1>6, <1>7 DEF Success
<1>9. QED  BY <1>3, <1>5, <1>8, CountKept

\* A reply of products-service: what it makes was given up, or is awaited.
LEMMA CountServed ==
  ASSUME Types, Types', NEW r \in Requests, NEW n \in Attempts, Counted(r),
         FindAllActive(r, n) \/ Insert(r, n) \/ DatabaseError(r, n)
  PROVE  Counted(r)'
<1>1. /\ call[r][n].at = "sent" /\ call'[r][n].at = "replied"
      /\ \A m \in Attempts : m # n => call'[r][m] = call[r][m]
      /\ \/ call'[r][n].result # "created" /\ products' = products /\ cut'[r] >= cut[r]
         \/ call'[r][n].result = "created" /\ products' = Append(products, r) /\ cut' = cut
         \/ products' = Append(products, r) /\ cut' = [cut EXCEPT ![r] = @ + 1]
      /\ req' = req
  <2>1. cut[r] \in Nat /\ cut \in [Requests -> Nat]  BY DEF Types, TypeOK
  <2>2. QED  BY <2>1, ReplyForm
<1>2. /\ IsFiniteSet(MadeBy(r)) /\ Cardinality(MadeBy(r)) \in Nat
      /\ IsFiniteSet(GivenUp(r)) /\ Cardinality(GivenUp(r)) \in Nat
      /\ cut[r] \in Nat /\ Success(r) \in {0, 1} /\ cut \in [Requests -> Nat]
  BY CountTypes DEF Types, TypeOK
<1>3. GivenUp(r)' = GivenUp(r) \ {n}
  BY <1>1 DEF GivenUp, Awaited
<1>4. Succeeds(r) => Succeeds(r)'
  BY <1>1 DEF Succeeds, Awaited, Replied
<1>5. Success(r)' \in {0, 1} /\ Success(r) <= Success(r)'
  BY <1>4 DEF Success
<1>6. CASE products' = products /\ cut'[r] >= cut[r]
  <2>1. MadeBy(r)' = MadeBy(r) /\ GivenUp(r)' \subseteq GivenUp(r)  BY <1>3, <1>6 DEF MadeBy
  <2>2. cut'[r] \in Nat  BY DEF Types, TypeOK
  <2>3. cut'[r] + Success(r)' >= cut[r] + Success(r)  BY <1>2, <1>5, <1>6, <2>2
  <2>4. QED  BY <2>1, <2>3, CountKept
<1>7. CASE products' = Append(products, r)
  <2>1. Cardinality(MadeBy(r)') = Cardinality(MadeBy(r)) + 1
    <3> DEFINE i == Len(products) + 1
    <3>1. i \notin MadeBy(r) /\ MadeBy(r)' = MadeBy(r) \cup {i}
      BY <1>7, RowAdded DEF Types
    <3> HIDE DEF i
    <3>2. QED  BY <1>2, <3>1, FS_AddElement
  <2>2. CASE cut' = [cut EXCEPT ![r] = @ + 1]
    <3>1. GivenUp(r)' \subseteq GivenUp(r) /\ cut'[r] = cut[r] + 1  BY <1>2, <1>3, <2>2
    <3>2. Cardinality(GivenUp(r)') <= Cardinality(GivenUp(r)) /\ Cardinality(GivenUp(r)') \in Nat
      BY <1>2, <3>1, FS_Subset, FS_CardinalityType
    <3>3. QED  BY <1>2, <1>5, <2>1, <3>1, <3>2 DEF Counted
  <2>3. CASE call'[r][n].result = "created" /\ cut' = cut
    <3>1. CASE Awaited(r, n)
      <4>1. Success(r) = 0
        <5>1. req[r].answer # "created"  BY <3>1 DEF Awaited, Types, RequestInv
        <5>2. QED  BY <1>1, <3>1, <5>1 DEF Success, Succeeds, Awaited, Replied
      <4>2. Success(r)' = 1
        <5>1. Awaited(r, n)' /\ Replied(r, n)'  BY <1>1, <3>1 DEF Awaited, Replied
        <5>2. QED  BY <2>3, <5>1 DEF Success, Succeeds
      <4>3. GivenUp(r)' = GivenUp(r)  BY <1>3, <3>1 DEF GivenUp
      <4>4. QED  BY <1>2, <2>1, <2>3, <4>1, <4>2, <4>3 DEF Counted
    <3>2. CASE ~ Awaited(r, n)
      <4>1. n \in GivenUp(r)  BY <1>1, <3>2 DEF GivenUp
      <4>2. Cardinality(GivenUp(r)') = Cardinality(GivenUp(r)) - 1
        BY <1>2, <1>3, <4>1, FS_RemoveElement
      <4>3. QED  BY <1>2, <1>5, <2>1, <2>3, <4>2 DEF Counted
    <3>3. QED  BY <3>1, <3>2
  <2>4. products' # products
    BY <1>7 DEF Types, TypeOK
  <2>5. QED  BY <1>1, <2>2, <2>3, <2>4
<1>8. QED  BY <1>1, <1>2, <1>6, <1>7

\* Every step keeps the count.
LEMMA CountStep == Types /\ Types' /\ MadeInv /\ CountInv /\ [Next]_vars => CountInv'
<1> SUFFICES ASSUME Types, Types', MadeInv, CountInv, [Next]_vars PROVE CountInv'  OBVIOUS
<1> USE DEF CountInv
<1>0. cut \in [Requests -> Nat] /\ req \in [Requests -> RequestRecord]  BY DEF Types, TypeOK
<1>1. ASSUME NEW r \in Requests, Ask(r) PROVE CountInv'
  <2>1. PICK q \in [op : Ops, seller : BOOLEAN] :
          \/ Waits(r, q, 1)
          \/ EndsUnserved(r, q) /\ call' = call /\ overlapped' = overlapped
    BY <1>1, AskForm DEF Types
  <2>2. req[r].phase = "new" /\ products' = products /\ cut' = cut
    BY <1>1, AskForm DEF Types
  <2>3. MadeBy(r)' = {}
    BY <2>2 DEF MadeInv, Types, RequestInv, MadeBy
  <2>4. /\ GivenUp(r)' = {}
        /\ \A s \in Requests \ {r}, m \in Attempts : call'[s][m] = call[s][m]
    <3>0. \A m \in Attempts : call[r][m].at = "none"  BY <2>2 DEF Types, RequestInv
    <3>1. CASE Waits(r, q, 1)
      <4> DEFINE c == [at |-> "sent", result |-> None, list |-> 0]
      <4>1. c \in CallRecord  BY DEF CallRecord
      <4>2. call' = [call EXCEPT ![r][1] = c]  BY <3>1 DEF Waits
      <4> HIDE DEF c
      <4>3. 1 \in Attempts  BY CatalogueAssumption DEF Attempts
      <4>4. \A s \in Requests, m \in Attempts : <<s, m>> # <<r, 1>> => call'[s][m] = call[s][m]
        BY <4>1, <4>2, <4>3, CallChanged DEF Types, TypeOK
      <4>5. req'[r].phase = "waiting" /\ req'[r].attempt = 1  BY <3>1 DEF Waits
      <4>6. QED  BY <3>0, <4>4, <4>5 DEF GivenUp, Awaited
    <3>2. CASE call' = call  BY <3>0, <3>2 DEF GivenUp
    <3>3. QED  BY <2>1, <3>1, <3>2
  <2>5. \A s \in Requests \ {r} : req'[s] = req[s]
    BY <2>1 DEF Waits, EndsUnserved, OnlyRequest
  <2> SUFFICES ASSUME NEW s \in Creates' PROVE Counted(s)'  OBVIOUS
  <2>6. CASE s = r  BY <2>3, <2>4, <2>6, CountNothing
  <2>7. CASE s # r
    <3>1. s \in Creates /\ s \in Requests /\ req'[s] = req[s]  BY <2>5, <2>7 DEF Creates
    <3>2. MadeBy(s)' = MadeBy(s) /\ cut'[s] = cut[s]  BY <2>2 DEF MadeBy
    <3>3. QED  BY <2>4, <2>7, <3>1, <3>2, CountOther
  <2>8. QED  BY <2>6, <2>7
<1>2. ASSUME NEW r \in Requests, \A s \in Requests \ {r} : req'[s] = req[s],
             \A s \in Requests \ {r}, m \in Attempts : call'[s][m] = call[s][m],
             \A s \in Requests \ {r} : MadeBy(s)' = MadeBy(s) /\ cut'[s] = cut[s],
             req'[r].op = req[r].op, r \in Creates => Counted(r)'
      PROVE  CountInv'
  <2> SUFFICES ASSUME NEW s \in Creates' PROVE Counted(s)'  OBVIOUS
  <2>1. s \in Creates /\ s \in Requests  BY <1>2 DEF Creates
  <2>2. CASE s = r  BY <1>2, <2>1, <2>2
  <2>3. CASE s # r  BY <1>2, <2>1, <2>3, CountOther
  <2>4. QED  BY <2>2, <2>3
<1>3. ASSUME NEW r \in Requests, TimesOut(r) PROVE CountInv'
  <2>1. /\ EndsUnserved(r, req[r]) /\ req[r].phase = "waiting"
        /\ cut' = [cut EXCEPT ![r] = @ + 1]
        /\ UNCHANGED <<products, now, call, seen, overlapped>>
    BY <1>3, TimesOutForm
  <2>2. /\ \A s \in Requests \ {r} : req'[s] = req[s]
        /\ req'[r].op = req[r].op /\ req'[r].phase # "waiting"
    BY <2>1 DEF EndsUnserved, OnlyRequest
  <2>3. cut'[r] = cut[r] + 1 /\ \A s \in Requests \ {r} : cut'[s] = cut[s]  BY <1>0, <2>1
  <2>4. \A s \in Requests : MadeBy(s)' = MadeBy(s)  BY <2>1 DEF MadeBy
  <2>5. r \in Creates => Counted(r)'  BY <2>1, <2>2, <2>3, <2>4, CountCutOff
  <2>6. QED  BY <1>2, <2>1, <2>2, <2>3, <2>4, <2>5
<1>4. ASSUME NEW r \in Requests, Retry(r) PROVE CountInv'
  <2>1. /\ req[r].phase = "backoff" /\ req[r].attempt + 1 \in Attempts
        /\ \/ Waits(r, req[r], req[r].attempt + 1)
           \/ EndsUnserved(r, req[r]) /\ call' = call /\ overlapped' = overlapped
        /\ UNCHANGED <<products, now, seen, cut>>
    BY <1>4, RetryForm
  <2>2. \A s \in Requests \ {r} : req'[s] = req[s]
    BY <2>1 DEF Waits, EndsUnserved, OnlyRequest
  <2>3. req'[r].op = req[r].op  BY <2>1 DEF Waits, EndsUnserved
  <2>4. \A s \in Requests : MadeBy(s)' = MadeBy(s)  BY <2>1 DEF MadeBy
  <2>5. \A s \in Requests \ {r}, m \in Attempts : call'[s][m] = call[s][m]
    <3>1. CASE call' = call  BY <3>1
    <3>2. CASE Waits(r, req[r], req[r].attempt + 1)
      <4> DEFINE c == [at |-> "sent", result |-> None, list |-> 0]
                 n == req[r].attempt + 1
      <4>1. c \in CallRecord  BY DEF CallRecord
      <4>2. call' = [call EXCEPT ![r][n] = c]  BY <3>2 DEF Waits
      <4>3. n \in Attempts  BY <2>1
      <4> HIDE DEF c, n
      <4>4. QED  BY <4>1, <4>2, <4>3, CallChanged DEF Types, TypeOK
    <3>3. QED  BY <2>1, <3>1, <3>2
  <2>6. r \in Creates => Counted(r)'  BY <2>1, <2>4, CountBackoff
  <2>7. QED  BY <1>2, <2>1, <2>2, <2>3, <2>4, <2>5, <2>6
<1>5. ASSUME NEW r \in Requests, NEW n \in Attempts, Arrives(r, n) PROVE CountInv'
  <2>1. /\ Answered(r, n) \/ EndsUnserved(r, req[r]) \/ req' = req
        /\ call' = [call EXCEPT ![r][n] = NoCall]
        /\ products' = products /\ cut' = cut
    BY <1>5, ArrivesForm
  <2>2. (\A s \in Requests \ {r} : req'[s] = req[s]) /\ req'[r].op = req[r].op
    BY <2>1 DEF Answered, EndsUnserved, OnlyRequest
  <2>3. \A s \in Requests \ {r}, m \in Attempts : call'[s][m] = call[s][m]
    BY <2>1, DropForm
  <2>4. \A s \in Requests : MadeBy(s)' = MadeBy(s)  BY <2>1 DEF MadeBy
  <2>5. r \in Creates => Counted(r)'  BY <1>5, CountArrives
  <2>6. QED  BY <1>2, <2>1, <2>2, <2>3, <2>4, <2>5
<1>6. ASSUME NEW r \in Requests, NEW n \in Attempts,
             FindAllActive(r, n) \/ Insert(r, n) \/ DatabaseError(r, n)
      PROVE  CountInv'
  <2>1. /\ \A s \in Requests, m \in Attempts : <<s, m>> # <<r, n>> => call'[s][m] = call[s][m]
        /\ products' = products \/ products' = Append(products, r)
        /\ cut' = cut \/ cut' = [cut EXCEPT ![r] = @ + 1]
        /\ req' = req
    BY <1>6, ReplyForm
  <2>2. \A s \in Requests \ {r} : MadeBy(s)' = MadeBy(s)
    <3>1. CASE products' = products  BY <3>1 DEF MadeBy
    <3>2. CASE products' = Append(products, r)  BY <3>2, RowAdded DEF Types
    <3>3. QED  BY <2>1, <3>1, <3>2
  <2>3. \A s \in Requests \ {r} : cut'[s] = cut[s]  BY <1>0, <2>1
  <2>4. r \in Creates => Counted(r)'  BY <1>6, CountServed
  <2>5. QED  BY <1>2, <2>1, <2>2, <2>3, <2>4
<1>7. CASE GatewayRestart
  <2>1. /\ \A s \in Requests : ~ Broken(s) => req'[s] = req[s]
        /\ \A s \in Requests : Broken(s) =>
             req'[s].op = req[s].op /\ req'[s].phase = "answered" /\ req'[s].answer = "lost"
        /\ \A s \in Requests, m \in Attempts :
             call'[s][m] = IF req[s].op = "list" THEN NoCall ELSE call[s][m]
        /\ \A s \in Requests : cut'[s] = IF Broken(s) THEN cut[s] + 1 ELSE cut[s]
        /\ products' = products
    BY <1>7, RestartForm DEF Types
  <2> SUFFICES ASSUME NEW s \in Creates' PROVE Counted(s)'  OBVIOUS
  <2>2. s \in Creates /\ s \in Requests /\ req[s].op = "create"  BY <2>1 DEF Creates
  <2>3. MadeBy(s)' = MadeBy(s) /\ \A m \in Attempts : call'[s][m] = call[s][m]
    BY <2>1, <2>2 DEF MadeBy
  <2>4. CASE ~ Broken(s)  BY <2>1, <2>2, <2>3, <2>4, CountOther
  <2>5. CASE req[s].phase = "waiting"
    <3>1. cut'[s] = cut[s] + 1 /\ req'[s].phase # "waiting"  BY <2>1, <2>2, <2>5 DEF Broken
    <3>2. QED  BY <2>2, <2>3, <2>5, <3>1, CountCutOff
  <2>6. CASE req[s].phase = "backoff"
    <3>1. cut'[s] = cut[s] + 1 /\ req'[s].phase # "waiting"  BY <2>1, <2>2, <2>6 DEF Broken
    <3>2. GivenUp(s)' \subseteq GivenUp(s)  BY <2>3, <2>6, <3>1 DEF GivenUp, Awaited
    <3>3. cut[s] \in Nat /\ Success(s) \in {0, 1} /\ Success(s)' \in {0, 1}
      BY <2>2, CountTypes DEF Success
    <3>4. cut'[s] + Success(s)' >= cut[s] + Success(s)  BY <3>1, <3>3
    <3>5. QED  BY <2>2, <2>3, <3>2, <3>4, CountKept
  <2>7. QED  BY <2>4, <2>5, <2>6 DEF Broken
<1>8. CASE UNCHANGED <<products, req, call, cut>>
  <2> SUFFICES ASSUME NEW s \in Creates' PROVE Counted(s)'  OBVIOUS
  <2>1. s \in Creates /\ s \in Requests  BY <1>8 DEF Creates
  <2>2. MadeBy(s)' = MadeBy(s)  BY <1>8 DEF MadeBy
  <2>3. QED  BY <1>8, <2>1, <2>2, CountOther
<1>9. (Tick \/ UNCHANGED vars) => UNCHANGED <<products, req, call, cut>>  BY DEF Tick, vars
<1>10. QED  BY <1>1, <1>3, <1>4, <1>5, <1>6, <1>7, <1>8, <1>9 DEF Next

-------------------------------------------------------------------------------
(* Theorems *)

CatalogueInv == Types /\ MadeInv /\ ListInv /\ OrderInv /\ CountInv

\* The invariant holds in every run.
LEMMA CatalogueInductive == Spec => []CatalogueInv
<1>1. Init => CatalogueInv
  BY TypesInit, MadeInit, ListInit, OrderInit, CountInit DEF CatalogueInv
<1>2. CatalogueInv /\ [Next]_vars => CatalogueInv'
  BY TypesStep, MadeStep, ListStep, OrderStep, CountStep DEF CatalogueInv
<1>3. QED  BY <1>1, <1>2, PTL DEF Spec

\* Whatever is repeated, given up or restarted, requests, calls, the cache and
\* the table keep their form, and no list is longer than the table
\* (products.service.ts, proxy.service.ts).
THEOREM CatalogueTypes == Spec => [](TypeOK /\ Shown)
<1>1. CatalogueInv => TypeOK /\ Shown  BY DEF CatalogueInv, Types
<1>2. QED  BY <1>1, CatalogueInductive, PTL

\* A list that the service answers holds every product whose maker had been told
\* so before the list was asked for (ProductsService.findAllActive).
THEOREM CurrentLists == Spec => []ListsAreCurrent
<1>1. CatalogueInv => ListsAreCurrent
  BY DEF CatalogueInv, ListInv, Holds, ListsAreCurrent
<1>2. QED  BY <1>1, CatalogueInductive, PTL

\* As long as no two calls for the list overlap, no list is older than one
\* answered before it was asked for, the cached ones included
\* (ProxyService.proxyRequest and its cache fallback).
THEOREM OrderedLists == Spec => []ListsNeverGoBack
<1>1. CatalogueInv => ListsNeverGoBack  BY OrderIs DEF CatalogueInv
<1>2. QED  BY <1>1, CatalogueInductive, PTL

\* A POST of a product that the gateway repeats makes at most one product more
\* than its attempts that were cut off (ProductsService.create, RetryService).
THEOREM ProductsAreCounted == Spec => []CreatedCounted
<1>1. CatalogueInv => CreatedCounted
  <2> SUFFICES ASSUME CatalogueInv, NEW r \in Creates
               PROVE  /\ req[r].answer = "created" => MadeBy(r) # {}
                      /\ req[r].phase = "answered" =>
                           Cardinality(MadeBy(r)) <=
                             cut[r] + (IF req[r].answer = "created" THEN 1 ELSE 0)
                      /\ ~ req[r].seller => MadeBy(r) = {}
    BY DEF CreatedCounted
  <2>1. r \in Requests /\ Types /\ MadeInv /\ Counted(r)
    BY DEF CatalogueInv, CountInv, Creates
  <2>2. /\ Cardinality(MadeBy(r)) \in Nat /\ Cardinality(GivenUp(r)) \in Nat /\ cut[r] \in Nat
        /\ Success(r) \in {0, 1}
    BY <2>1, CountTypes
  <2>3. req[r].phase = "answered" =>
          Success(r) = IF req[r].answer = "created" THEN 1 ELSE 0
    BY DEF Success, Succeeds, Awaited
  <2>4. QED  BY <2>1, <2>2, <2>3 DEF MadeInv, Counted
<1>2. QED  BY <1>1, CatalogueInductive, PTL
===============================================================================
