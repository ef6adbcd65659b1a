------------------------------ MODULE Catalogue ------------------------------
(***************************************************************************)
(* The products of products-service as the users of the api-gateway see    *)
(* them: the list of products, which the gateway's ProductsController also *)
(* answers from its cache when the service does not, and new products,     *)
(* whose POST the gateway repeats when an attempt failed.                  *)
(*                                                                         *)
(* A call the gateway gave up still inserts, and its answer still goes to  *)
(* the cache.  GatewayProxy says when the circuit refuses; here it may     *)
(* refuse any request.  Products are never changed or removed and are      *)
(* always active, so a list is the number of products it holds.  Names,    *)
(* prices and the lists by seller are left out.                            *)
(***************************************************************************)
EXTENDS Naturals, Sequences, FiniteSets, FiniteSetsExt

CONSTANTS Requests,
          MaxRetries,    \* 4 in the code
          CacheTimeout,
          MaxTime,       \* bound: the clock
          MaxCut,        \* bound: lost answers, failing calls, restarts
          None

Attempts == 1..(MaxRetries + 1)

ASSUME CatalogueAssumption ==
  /\ IsFiniteSet(Requests)
  /\ MaxRetries \in Nat /\ CacheTimeout \in Nat /\ MaxTime \in Nat /\ MaxCut \in Nat
  /\ None \notin Nat

VARIABLES
  products,    \* the table: the request that made each product, oldest first
  now,
  cache,       \* what the gateway keeps of GET /products: [list, at], or None
  req,         \* each request: [op, seller, phase, attempt, answer, list]
  call,        \* call[r][n]: where attempt n of r is: [at, result, list]
  seen,        \* history: what had been answered when r was made: [made, list]
  cut,         \* history: attempts of r cut off by a timeout, a failure or a restart
  overlapped   \* history: two calls for the list were under way at once

vars == <<products, now, cache, req, call, seen, cut, overlapped>>

NoCall  == [at |-> "none", result |-> None, list |-> 0]
NotMade == [op |-> "none", seller |-> FALSE, phase |-> "new", attempt |-> 0,
            answer |-> "none", list |-> None]

Lists       == {r \in Requests : req[r].op = "list"}
Creates     == {r \in Requests : req[r].op = "create"}
UnderWay(r) == {n \in Attempts : call[r][n].at # "none"}
Cuts        == MapThenSumSet(LAMBDA r : cut[r], Requests)

\* The longest list answered so far, or None.
Longest ==
  LET answered == {req[r].list : r \in Lists} \ {None} IN
  IF answered = {} THEN None ELSE Max(answered)

Init ==
  /\ products = <<>> /\ now = 0 /\ cache = None
  /\ req = [r \in Requests |-> NotMade]
  /\ call = [r \in Requests |-> [n \in Attempts |-> NoCall]]
  /\ seen = [r \in Requests |-> [made |-> {}, list |-> None]]
  /\ cut = [r \in Requests |-> 0]
  /\ overlapped = FALSE

-------------------------------------------------------------------------------
(* The gateway *)

NoAnswer == [answer |-> "none", list |-> None]

Put(r, q, phase, n, a) ==
  req' = [req EXCEPT ![r] = [op |-> q.op, seller |-> q.seller, phase |-> phase, attempt |-> n,
                             answer |-> a.answer, list |-> a.list]]

Expired == cache # None /\ now - cache.at > CacheTimeout

\* The cached list while it is fresh, or else an empty default, for which no
\* list was read.  An expired entry is deleted.
Fallback(op) ==
  IF op = "create" THEN [answer |-> "unavailable", list |-> None]
  ELSE IF cache = None \/ Expired THEN [answer |-> "default", list |-> None]
  ELSE [answer |-> "cached", list |-> cache.list]
CacheAfter(op) == IF op = "list" /\ Expired THEN None ELSE cache

AttemptFailed(r, q, n) ==
  IF n <= MaxRetries
  THEN Put(r, q, "backoff", n, NoAnswer) /\ cache' = cache
  ELSE Put(r, q, "answered", n, Fallback(q.op)) /\ cache' = CacheAfter(q.op)

\* A guard refuses the token: the gateway's, before anything is called, or that
\* of the service, on any attempt.
Unauthorized(r, q, n) ==
  /\ q.op = "create"
  /\ Put(r, q, "answered", n, [answer |-> "unauthorized", list |-> None])
  /\ UNCHANGED <<cache, call, overlapped>>

\* Attempt n reaches the service, or it does not get there.
Attempt(r, q, n) ==
  \/ /\ Put(r, q, "waiting", n, NoAnswer)
     /\ call' = [call EXCEPT ![r][n] = [at |-> "sent", result |-> None, list |-> 0]]
     /\ overlapped' = (overlapped \/ (q.op = "list" /\ \E s \in Lists : UnderWay(s) # {}))
     /\ cache' = cache
  \/ AttemptFailed(r, q, n) /\ UNCHANGED <<call, overlapped>>

\* Anyone asks for the list; a new product needs a token, and products-service
\* makes it for a seller only.  The circuit may refuse either.
Ask(r) ==
  /\ req[r].phase = "new"
  /\ \E op \in {"list", "create"}, seller \in BOOLEAN :
       LET q == [NotMade EXCEPT !.op = op, !.seller = seller] IN
       /\ op = "list" => ~ seller
       /\ \/ Attempt(r, q, 1)
          \/ Unauthorized(r, q, 0)
          \/ /\ Put(r, q, "answered", 0, Fallback(op)) /\ cache' = CacheAfter(op)
             /\ UNCHANGED <<call, overlapped>>
  /\ seen' = [seen EXCEPT ![r] = [made |-> {c \in Creates : req[c].answer = "created"},
                                  list |-> Longest]]
  /\ UNCHANGED <<products, now, cut>>

Awaited(r, n) == req[r].phase = "waiting" /\ req[r].attempt = n

\* Mutant: a list that is cached already is not replaced.
StoredOnce(r, n) ==
  IF cache = None /\ req[r].op = "list" /\ call[r][n].result = "ok"
  THEN [list |-> call[r][n].list, at |-> now]
  ELSE cache

\* Every list that arrives is cached, awaited or not.
Stored(r, n) ==
  IF req[r].op = "list" /\ call[r][n].result = "ok"
  THEN [list |-> call[r][n].list, at |-> now]
  ELSE cache

\* A reply arrives: it is the answer, unless it is a 5xx or was given up.
Arrives(r, n) ==
  /\ call[r][n].at = "replied"
  /\ \/ /\ Awaited(r, n) /\ call[r][n].result # "error"
        /\ Put(r, req[r], "answered", n,
               [answer |-> call[r][n].result,
                list   |-> IF req[r].op = "list" THEN call[r][n].list ELSE None])
        /\ cache' = Stored(r, n)
     \/ /\ Awaited(r, n) /\ call[r][n].result = "error"
        /\ AttemptFailed(r, req[r], n)
     \/ /\ ~ Awaited(r, n)
        /\ req' = req /\ cache' = Stored(r, n)
  /\ call' = [call EXCEPT ![r][n] = NoCall]
  /\ UNCHANGED <<products, now, seen, cut, overlapped>>

TimesOut(r) ==
  /\ req[r].phase = "waiting" /\ Cuts < MaxCut
  /\ AttemptFailed(r, req[r], req[r].attempt)
  /\ cut' = [cut EXCEPT ![r] = @ + 1]
  /\ UNCHANGED <<products, now, call, seen, overlapped>>

\* The next attempt.
Retry(r) ==
  /\ req[r].phase = "backoff"
  /\ Attempt(r, req[r], req[r].attempt + 1) \/ Unauthorized(r, req[r], req[r].attempt + 1)
  /\ UNCHANGED <<products, now, seen, cut>>

\* The cache goes with the gateway, and so does whoever waits for a reply; a
\* product that is being made is made.
GatewayRestart ==
  LET broken == {r \in Requests : req[r].phase \in {"waiting", "backoff"}} IN
  /\ Cuts < MaxCut /\ broken # {}
  /\ req' = [r \in Requests |->
               IF r \in broken
               THEN [req[r] EXCEPT !.phase = "answered", !.answer = "lost"] ELSE req[r]]
  /\ call' = [r \in Requests |->
                [n \in Attempts |-> IF req[r].op = "list" THEN NoCall ELSE call[r][n]]]
  /\ cut' = [r \in Requests |-> IF r \in broken THEN cut[r] + 1 ELSE cut[r]]
  /\ cache' = None
  /\ UNCHANGED <<products, now, seen, overlapped>>

Tick ==
  /\ now < MaxTime
  /\ now' = now + 1
  /\ UNCHANGED <<products, cache, req, call, seen, cut, overlapped>>

-------------------------------------------------------------------------------
(* products-service *)

Replies(r, n, result, list) ==
  call' = [call EXCEPT ![r][n] = [at |-> "replied", result |-> result, list |-> list]]

\* Mutant: the row is saved before the role is looked at.
InsertFirst(r, n) ==
  /\ call[r][n].at = "sent" /\ req[r].op = "create"
  /\ products' = Append(products, r)
  /\ IF req[r].seller THEN Replies(r, n, "created", 0) ELSE Replies(r, n, "refused", 0)
  /\ UNCHANGED <<now, cache, req, seen, cut, overlapped>>

Insert(r, n) ==
  /\ call[r][n].at = "sent" /\ req[r].op = "create"
  /\ IF req[r].seller
     THEN products' = Append(products, r) /\ Replies(r, n, "created", 0)
     ELSE products' = products /\ Replies(r, n, "refused", 0)
  /\ UNCHANGED <<now, cache, req, seen, cut, overlapped>>

\* Mutant: findOne for find: the oldest product only.
FindFirst(r, n) ==
  /\ call[r][n].at = "sent" /\ req[r].op = "list"
  /\ Replies(r, n, "ok", IF products = <<>> THEN 0 ELSE 1)
  /\ UNCHANGED <<products, now, cache, req, seen, cut, overlapped>>

FindAllActive(r, n) ==
  /\ call[r][n].at = "sent" /\ req[r].op = "list"
  /\ Replies(r, n, "ok", Len(products))
  /\ UNCHANGED <<products, now, cache, req, seen, cut, overlapped>>

\* The query fails (500), an insert perhaps after it took effect.
DatabaseError(r, n) ==
  /\ call[r][n].at = "sent" /\ Cuts < MaxCut
  /\ Replies(r, n, "error", 0)
  /\ \/ products' = products
     \/ req[r].op = "create" /\ req[r].seller /\ products' = Append(products, r)
  /\ cut' = [cut EXCEPT ![r] = @ + 1]
  /\ UNCHANGED <<now, cache, req, seen, overlapped>>

-------------------------------------------------------------------------------
Next ==
  \/ \E r \in Requests :
       \/ Ask(r) \/ TimesOut(r) \/ Retry(r)
       \/ \E n \in Attempts :
            Arrives(r, n) \/ FindAllActive(r, n) \/ Insert(r, n) \/ DatabaseError(r, n)
  \/ Tick \/ GatewayRestart

Spec == Init /\ [][Next]_vars

-------------------------------------------------------------------------------
(* Properties *)

\* A list that the service answers holds every product whose maker had been
\* told so before the list was asked for, whatever was repeated in between.
ListsAreCurrent ==
  \A r \in Lists : req[r].answer = "ok" =>
    \A c \in seen[r].made : \E i \in 1..req[r].list : products[i] = c

\* No list, answered or cached, is older than one that anyone was answered
\* before it was asked for, as long as no two calls for the list overlapped
\* (the reply of an older call replaces a newer cached list).
ListsNeverGoBack ==
  ~ overlapped =>
    \A r \in Lists : req[r].list # None /\ seen[r].list # None => req[r].list >= seen[r].list

\* A seller who is told that a product was made has it, once but for the
\* attempts that were cut off; who is told anything else has none but through
\* those, and a buyer has none at all.
MadeBy(r) == {i \in DOMAIN products : products[i] = r}
CreatedCounted ==
  \A r \in Creates :
    /\ req[r].answer = "created" => MadeBy(r) # {}
    /\ req[r].phase = "answered" =>
         Cardinality(MadeBy(r)) <= cut[r] + (IF req[r].answer = "created" THEN 1 ELSE 0)
    /\ ~ req[r].seller => MadeBy(r) = {}
===============================================================================
