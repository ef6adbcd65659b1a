# A formal model of the marketplace microservices

TLA+ modules, TLC configurations and TLAPS proofs for the marketplace
(api-gateway, users-service, products-service, checkout-service,
payments-service, RabbitMQ). Every definition that models code is listed, with
the lines it models, in the `map` of `PROJECT.json`.

## 1. The system

| Component | State it keeps | Operations | Talks to | What makes it hard | Model |
|---|---|---|---|---|---|
| **Payment processing** (`payments-service/src/payments`) | `payments` table; `orderId` is *not* unique | `processPayment`, `findByOrderId` | the fake gateway, Postgres | redelivery between any two awaits, an approval whose row was not written | `PaymentPipeline`, `Settlement` |
| **Payment consumer, RabbitMQ topology** (`payments-service/src/events`) | main, retry and dead letter queue, `x-death` headers, one channel | consume callback, `subscribeToQueue`, `connect`, `disconnect` | payment processing | at-least-once delivery, retries counted by the broker, expiries, crashes, lost channels, no reconnect | `PaymentPipeline` |
| **DLQ administration** (`events/dlq`) | none of its own | stats, peek, reprocess, reprocess-all, discard, purge | the worker's channel and queues | loops of get and reply beside the worker, publish-then-ack | `DlqAdmin` |
| **Consumer metrics, health** | in-memory counters | update, reset, health rule | consumer | resets beside a message in hand, divisions and comparisons at their edges | `ConsumerHealth` |
| **Cart** (`checkout-service/src/cart`) | `carts`, `cart_items` | `addItem`, `getCart`, `removeItem` | products-service over HTTP | no transaction, no lock, no unique column: requests interleave at every await | `Checkout`, `Shopping` |
| **Orders** (`checkout-service/src/orders`, `events`) | `orders`, one channel | `checkout`, lists | cart, RabbitMQ | three writes and a publish, each can be the last | `Checkout`, `Shopping` |
| **Gateway proxy** (`api-gateway/src/proxy`, `common`) | a circuit per service, a cache | `proxyRequest` | every service | requests share a circuit; timeouts, retries, late answers; a given-up call runs on beside its repetition | `GatewayProxy`, `OrderFlow`, `Catalogue` |
| **Gateway health** (`api-gateway/src/health`, `common/health`) | a second set of circuits, a cache | probes, aggregation, readiness | every service | checks overlap, a remembered status goes stale, open circuits answer for services | `GatewayHealth` |
| **Gateway routes** (`api-gateway/src/checkout`, `products`) | none | cart, checkout, orders, products | the proxy | one click is several attempts | `OrderFlow`, `Catalogue` |
| **Token guards** (`JwtAuthGuard` of gateway and services) | none | accept or refuse a token | | the service looks at the token again on every attempt | `OrderFlow`, `Catalogue`: may refuse |
| **Session and role guards, throttler** | none (library state) | header and role checks, rate limit | | | not modelled: stateless, or the library's |
| **Registration, login** (`users-service/src/auth`, `api-gateway/src/auth`) | `users`, unique e-mail | `register`, `login` | Postgres, the gateway's proxy | look-up, then insert; attempts abandoned by the gateway run on beside their repetition | `Registration` |
| **Catalogue** (`products-service`) | `products`; the gateway's cached list | `create`, list, reads by id and by seller | Postgres, the gateway's proxy | a repeated `POST`, a cached list beside a changing table | `Catalogue` |
| **Metrics, logging, Terminus, bootstrap** | Prometheus counters | | | | not modelled: I/O, wiring |

How they interact: the gateway forwards HTTP requests; a checkout saves an order,
completes the cart and publishes a `PaymentOrderMessage`; the consumer of
payments-service takes it from `payment_queue`, one at a time, and
`processPayment` records the gateway's decision. A failed attempt is rejected
into `payment_queue.retry` and comes back after 30 s; after three rejections one
more failure sends it to `payment_queue.dlq`, which an administrator inspects.

What makes each part correct:

* **Pipeline** - one payment per order; the decision is the gateway's and never
  changes; an order is charged at most once after it is decided; no order gets
  lost; a gateway rejection is not a failure; the DLQ holds only orders whose
  attempts are used up; everything ends somewhere.
* **DLQ administration** - the above still holds when an administrator puts
  messages back; loops end; answers are true.
* **Cart and orders** - the rules of `checkout-service/docs/specs/03` and `04`.
* **One click of the user** - it costs the user one payment at most, a refusal
  means that it cost nothing, an accepted add is in the cart once, and every
  click is answered - up to what the gateway's given-up attempts do meanwhile.
* **Catalogue** - a list holds every product announced before it was asked for,
  and no list goes back behind an earlier one; a new product is there once.
* **Gateway** - the circuit counts what it should, opens and closes when it
  should; fallbacks answer only when there is no answer.
* **Health checks** - "ready" and "healthy" speak of services seen up during the
  check; an outage of one service is not blamed on another; outages and
  recoveries are noticed for good.
* **Consumer metrics** - they describe the messages since the last reset, and the
  health rule says of those what it is meant to.
* **Registration** - one account per e-mail, whatever is repeated or abandoned;
  what a client is told is true of the table.

## 2. Modules

```
Settlement  <--- refinement ---  PaymentPipeline  <--- EXTENDS ---  DlqAdmin
                                                                      ^
                                                        PaymentPipelineProofs

CircuitBreaker  <--- EXTENDS ---  GatewayProxy, GatewayHealth
      ^                                 ^            ^
CircuitBreakerProofs  <-- EXTENDS -- GatewayProxyProofs, GatewayHealthProofs

Shopping  <--- refinement ---  Checkout  <--- EXTENDS ---  OrderFlow
                                                               ^
                                                        OrderFlowProofs

ConsumerHealth  <--- EXTENDS ---  ConsumerHealthProofs
Registration    <--- EXTENDS ---  RegistrationProofs
Catalogue       <--- EXTENDS ---  CatalogueProofs
```

Each component has an `MC` module for TLC beside it.

Each module's operators marked `Mutant:` are wrong variants of the definition
that follows them (a dropped guard, a missing write). None of them occurs in a
specification; `PROJECT.json` pairs each with a property that must fail when it
replaces the right one.

### PaymentPipeline

| State | Code |
|---|---|
| `main`, `retry`, `dlq` | the three queues `subscribeToQueue` declares, in order; a message is its order, the rejections `getRetryCount` reads from `x-death`, and whether the main queue's last death of it was an expiry |
| `link`, `pc`, `job` | the channel; which `await` the consume callback is in; the message it holds |
| `row`, `verdict` | the locals `payment` and `result` of `processPayment` |
| `payments` | the table |
| `charges`, `failures`, `dropped`, `sent` | history: approvals of the gateway, failed attempts, messages the broker dropped, published orders |

`Deliver`, `FindPayment`, `InsertPayment`, `CallGateway`, `UpdatePayment`,
`Acknowledge`, `Reject`, `DeadLetter` are the callback between two awaits.
`DatabaseError` fails any of the three database calls, before or after the write
took effect. `LinkLost`, `ReplyLost`, `ReplyOnClosedChannel`, `Crash`, `Start`,
`StartWithoutBroker` are the ways the process and its connection come and go:
an unacknowledged message goes back to the head of the queue; a handler whose
channel is gone goes on, and its `ack` throws, its `nack` throws out of the
`catch`, and the unhandled rejection ends the process; nothing reconnects.

RabbitMQ's own rules are modelled from the arguments the code declares its
queues with: a message that expires in the main queue is dead-lettered without a
rejection, and the broker drops a message that would go round a cycle in which
nothing rejected it (`RetryExpires`, `MainExpires`). Such orders are collected
in `dropped`; `NoSilentLoss` says that they are the only ones lost. The main
queue's length limit (10000) and TTL (one day) lead to the same action.

`ValidMessage` keeps the only check of `validateMessage` a message of
checkout-service can fail (a total of 0, which a failed rebuild can leave). Amounts are
cents; the gateway's rules are `AmountLimit` and `.99`. One worker runs, as in
the repository's scripts: two replicas would process two orders at once.

### Settlement

The abstract promise: an order has no payment, a pending one, then a decided one
with the decision of the rules, which never changes. `PaymentPipeline!Abstract`
maps the table to it; queues, worker, crashes and retries are stutters.

### DlqAdmin

Extends the pipeline with one administrative request at a time on the worker's
channel. A message that was got stays at the head of `dlq` with `admin.holding`
set; `PutBack` (nack with requeue) releases it there, which is where RabbitMQ
puts it, and the next `Get` gets it again. `PublishBack` is the publish without
headers followed by the ack; `AckOfReprocessLost` cuts them apart.

### Checkout

One user, several HTTP requests in flight. `req[r]` holds which `await` request
`r` is in and its locals (`cart`, `existing`, `total`, ...); an item is a record
of the table. `FindCart` is `findActiveCartEntity` with the branch each operation
takes on its answer (with the items as read then), `ReadCart`/`WriteTotal` are
`rebuildCartResponse`. `Restart`, `LoseChannel` and `channel` give what
`RabbitmqService` may meet; `Publish` answers 201 in each case, as the code does.

`overlapped` is history: two requests were in flight together at some time.
`Orderly` (nothing overlapped, nothing was cut off) is the condition under which
the documented rules of carts and totals hold. What it excludes is real: the
code has neither transactions nor locks (see the disagreements below).

### Shopping

What the cart and the checkout promise, without rows and awaits: a quantity of
each product, and orders that keep the contents and the price of the cart they
were made of. `Checkout!Abstract` maps the tables to it: the user's cart is the
active one until it has an order (the row of the order is where a checkout takes
effect, one step before the cart is completed), and the contents of an order are
the items of its cart, so nothing may touch those afterwards. Requests one at a
time, none of which was cut off, implement it (`ImplementsShopping`): this contains that there is one active
cart, one item per product that sums the accepted adds, at most one order per
cart, and that its total is the sum of all its items.

### OrderFlow

Composes the gateway's loop with `Checkout`. The user clicks one thing after the
other; click `k` is proxied as the attempts `<<k, 1>>, <<k, 2>>, ...`, each of
them a request of `Checkout`. `Attempt` reaches the service or fails on the way;
`TakeAnswer` passes a 2xx or 4xx on and counts a 5xx as a failed attempt;
`TimesOut` gives the attempt up (its request runs on); `Retry` is the next one;
`TurnedAway` and `TokenExpired` are the two guards; `GatewayRestart` loses the
click under way; `ServiceStep` is any step of `Checkout` but an arrival. `lost`
counts the attempts of a click whose end nobody waited for.

A click of the user that does not wait for the one before is not modelled here:
overlapping requests are `Checkout`'s subject. Payment is `PaymentPipeline`'s:
the order of a message is charged once, and `published` is the sequence of the
messages, so that an order published again would be one message more; what a click
costs is what it publishes.

### Catalogue

The list of products through the gateway, with its cache, and new products.
`Ask` is the routes of the gateway's `ProductsController`, `Attempt`, `Arrives`,
`TimesOut`, `Retry` the proxy's loop with `Fallback` at its end, `Insert` and
`FindAllActive` the handlers of products-service. Every list that arrives is
cached (`Stored`), also when its attempt was given up. No operation changes or
removes a product, so a list is represented by how many of them it holds.

### CircuitBreaker

The circuit of `CircuitBreakerService` as a record and what the steps of
`executeWithCircuitBreaker` do to it: `Refusing` (open and before
`nextAttemptTime`), `OnEntry` (open becomes half-open), `OnSuccess`, `OnFailure`.
A half-open circuit lets every call through, as in the code, and `OnSuccess`
closes a circuit in any state.

### GatewayProxy

Requests to one service. `Ask` is the synchronous part of `proxyRequest` up to
the first call; an attempt ends by an answer (`Succeeds`, `ClientError`,
`Fails`) or by its timeout (`TimesOut`), which leaves the call running
(`LateAnswer` may still fill the cache); `Retry` ends a backoff. The waits have
any length; `now` is what `nextAttemptTime` and the cache's age are compared
with. `catalogue` marks a GET to products-service, the only one with a cached
fallback.

### GatewayHealth

`CheckAll` starts the probes of one call of `checkAllServices`; each ends by
`ProbeSucceeds` or `ProbeFails`, which write the circuit and `healthCache`; when
all have ended, `Respond` sends what `OverallStatus` (`/health/services`) and
`Ready` (`/health/ready`) make of them, while `ServiceHealth`
(`/health/services/:serviceName`) only reads the cache. A probe is `doubtful`
once its service was down at some time since it was sent: only then may it fail,
and then also when the service is back. `seenUp[c]` is history: the services
that were up at some time during check `c`.

Times are relative to now (`nextAttemptTime` counts down), and failures above
the threshold are not told apart (`Capped`), so outages and recoveries may
repeat for ever without a clock that ends. `ProxyService` uses circuits named
after services, the health checks circuits named `health-*`: they share code,
not state.

### ConsumerHealth

The counters of `PaymentConsumerService` and the rule of
`ConsumerMetricsController.getHealth` as one operator per comparison
(`IsProcessing`, `HasGoodSuccessRate`, `HasLowFailures`). `Begin` and `End` are
the two ends of `processPaymentOrder`, `Reset` may fall in between, `Restart`
loses the counters with the process. `averageProcessingTime` is rounded as
`Math.round` rounds; rates are compared by cross-multiplication. History
variables hold the messages since the reset, which is what the counters are
compared with.

### Registration

`register` of users-service is `Find`, then (the hash being an await) `Save`, one
`call[c][n]` per attempt `n` of client `c`. The gateway's side is `Ask`,
`TimesOut`, `FailedAttempt`, `Retry`: a given-up attempt's call runs on beside
its repetition. `Ends` delivers a handler's answer if it is still awaited.
`DatabaseError` fails a call before or after its insert, `Crash` ends all of
them. The owner of a row is the client whose password it holds; each row carries
the attempt that inserted it, as it has an id of its own in the code, so that two
rows of one client would be two.

Left out: malformed bodies (400, before any state), and calls of logins that
were given up, which only read. A client registers once and logs in afterwards.
The circuit may refuse any request here; `GatewayProxy` says when it does.

## 3. Runs

| Run | Bounds | Shows |
|---|---|---|
| `pipeline` | 3 orders (approved, `.99`, invalid), MaxRetries 1, 2 database errors, 2 breaks, 1 expiry; fairness | `TypeOK`, `OnePaymentPerOrder`, `DecisionRespected`, `NoSilentLoss`, `DlqMeansExhausted`, `RejectionIsNotFailure`, `AttemptsBounded`, `SettledForever`, `ImplementsSettlement`, `EventuallyResolved` |
| `dlq_beside_worker` | 2 orders (approved, invalid), MaxRetries 0, 2 requests, 1 error, 1 break, 1 expiry, peek limit 2; fairness | `NoAdminLoss`, `ReprocessAllComplete`, `ReprocessKeepsDecision`, `RequestsEnd` |
| `dlq_notfound` | 2 invalid orders, 1 request, nothing fails | *violated*: `NotFoundMeansAbsent` |
| `checkout_serial` | 2 products, quantities 1-2, 4 requests one at a time, 1 failure | `TotalIsSum`, `ImplementsShopping` |
| `checkout_CheckoutAsksForPayment` | 3 requests one at a time, nothing fails | *violated* |
| `flow` | 1 product, 2 clicks, 1 retry, 2 requests at a time, 1 failure of the service, 1 lost attempt; fairness | `MessageMatchesOrder`, `ChargedOnce`, `RefusalsAreTrue`, `AddsCounted`, `CompletedStays`, `ClicksAnswered` |
| `flow_OneOrderPerClick` | as `flow`, without failures of the service | *violated* |
| `catalogue` | 3 requests, 1 retry, 1 cut, cache timeout 1, clock to 2 | `ListsAreCurrent`, `ListsNeverGoBack`, `CreatedCounted` |
| `gateway` | 3 requests, threshold 2, 1 retry, 1 restart, reset timeout 2, clock to 4 | `TypeOK`, `ClosedBelowThreshold`, `FailuresAreExhaustedRequests`, `AnswersExplained` |
| `health` | 2 services, 2 overlapping checks, threshold 2, 1 outage of each; fairness | `ReadyIsFresh`, `NoFalseAlarm`, `Recovery`, `Detection` |
| `consumer` | 5 messages, clock to 5, window 2, success rate 50 %, 2 failures | `MetricsDescribeHistory`, `HealthMeans`, `BusyTimeWithinUptime` |
| `registration` | 2 clients after one e-mail, MaxRetries 2, 1 fault | `OneAccountPerEmail`, `AnswersAreTrue`, `ConflictExplained`, `RaceCostsOneAttempt` |

**Bounds.** One order's handling meets another's only through the queues, the
table and the worker, and no step looks at more than one order: three orders are
there for the three branches of the rules. Two errors and two breaks let a retry
fail and a recovery be interrupted; the proofs below remove these bounds for the
pipeline. `MaxRetries` 1 and, in the DLQ runs, 0 only shorten the way to the
DLQ. One at a time, four requests fill a cart (with both products, or one twice),
change or order it, and start the next one. In `flow` the first click gives the
cart that the second one's two attempts can meet in; with one retry an attempt
and its repetition overlap, or the last attempt fails; a failure and a loss
together let the repetition meet what a cut off attempt left behind. In
`catalogue` two requests may be lists around the making of a product, or two
lists around a third, and the cache can be fresh, expired, or filled by a reply
nobody waited for. In `gateway` three requests and threshold 2 let a circuit open
and be met by one request under way and by a new one. In `health` the second
check can run while the first still waits for a probe of the outage, and
threshold 2 lets a circuit open, refuse, half-open and open again (a service that
stays down is probed for ever). In `consumer` the limits are smaller than the
code's (five minutes, 90 %, 100) so that each comparison is met below, at and
above its edge. In `registration` each client makes up to three attempts: the
race costs one, and two more show that it costs no further one.

**Deadlock** is checked in `health` and `consumer`, whose systems never stop.
Elsewhere each bound lets the system stop (all orders settled, all requests
made, the clock at its end).

**Symmetry** is used for requests and clients in runs of safety and action
properties only.

**Fairness.** `PaymentPipeline`: weak fairness of the handler (an awaited call
returns or fails) and of the retry queue's timer. Nothing is assumed of
restarts: `EventuallyResolved` is conditional on a worker that is connected from
some point on, because nothing in the code reconnects. `DlqAdmin`: the same and
the progress of a request under way. `OrderFlow`: each event loop
makes progress, so a handler's awaited calls return or fail, an answer that was
sent arrives, and a delay before a retry ends (a timer); nothing is assumed of the
user, of timeouts, or of restarts. `GatewayHealth`: a probe ends, by its
answer or its ten-second timer; a settled check is answered; time passes; and each
of the checks is asked for again and again, as a load balancer or a scraper
does. No property assumes that other requests are made, that services answer, or
that faults stop other than by their bounds.

### Disagreements with the documentation

Three have a run that shows them and are quoted in `PROJECT.json` (`findings`): a
search of the DLQ never gets past its head; a checkout whose publish failed
answers 201; a checkout that was given up and repeated is ordered and sent to be
paid twice. Met while modelling, without a run of their own:

* overlapping requests of one user may leave two active carts, two items of one
  product, an add that does not count, or two orders of one cart
  (`checkout-service/docs/specs/03`, `04`);
* a rebuild that fails (`cart.service.ts:132`) leaves an active cart with a total
  that is not its sum (`docs/specs/03`), and the next checkout orders it at that
  price;
* an add that failed after its write is repeated by the gateway and counts twice
  (`AddsCounted` bounds how often);
* a success of a request that was already under way closes an open circuit before
  its 30 seconds are over (`circuit-breaker.service.ts:85`, `README.md:123`);
* the cached list is no fallback once it is five minutes old
  (`cache.fallback.ts:15`, `README.md:129`);
* the reply of an older call for the list may replace a newer one in the cache,
  which is why `ListsNeverGoBack` speaks of calls that did not overlap;
* peeking lists the head of the DLQ `limit` times, for the same reason as the
  search: every message is put back before the next get;
* the flowchart of the resilience (`README.md:119-125`) counts a failure of the
  circuit after each failed attempt, and only then goes back to the retry; the
  code has the retries inside the circuit (`proxy.service.ts:46`), so that a
  request counts once, when all its attempts have failed: with three failures to
  open it, an outage takes fifteen failed attempts, not three. The property
  `FailuresAreExhaustedRequests` states what the code does, and its mutant
  `AttemptFailedCounted` is the flowchart;
* the gateway makes five attempts (`maxRetries: 4` retries), where `README.md`
  says up to four;
* a registration whose first attempt was given up after it stored the user is
  answered 409 for its own account (`ConflictExplained` says that this is the
  only case); two registrations at once of one e-mail make one of them a 500,
  which the gateway retries into a 409;
* `consumer-metrics.controller.ts` speaks of consecutive failures, and counts all
  since the reset; `totalRetries` is reported and never incremented.

## 4. Proofs

All theorems hold for every value of the constants that satisfies the module's
named assumptions. TLC checked each inductive invariant first. A strengthening, or
a type invariant, that a theorem proves for all instances has no run of its own
(`HandlerInv`, the types of the health checks and of the consumer's metrics).

`PaymentPipelineProofs` (from `PipelineAssumption` and `NoJobAssumption`: any
orders, amounts, `MaxRetries` and bounds): `TypeOK`, `OnePaymentPerOrder`,
`DecisionRespected`, `HandlerInv`, `NoSilentLoss`, `SettledForever`,
`ImplementsSettlement`, `DlqMeansExhausted`, `RejectionIsNotFailure` and
`AttemptsBounded`; and, of `DlqAdmin` (`AdminAssumption` too: any requests and any
peek limit), `NoAdminLoss`, `ReprocessAllComplete`, `ReprocessKeepsDecision`,
the table invariant, `SettledForever` and `Settlement` beside an administrator.

The argument: `OnePaymentPerOrder` is not inductive, since an insert relies on a
lookup some steps earlier. `HandlerInv` says what the handler knows at each
`pc`: at `insert` the order still has no row; at `gateway` and `update` the row
in hand exists, is the order's and is pending; at `update` the verdict in hand
is the gateway's; at `ack` the order is decided. With `TypeOK` these form
`TableInv = HandlerInv /\ OnePaymentPerOrder /\ DecisionRespected`, which is
inductive because there is one worker, it changes the table only at `insert` and
`update`, and every failure makes it forget what it holds. `NoSilentLoss` adds
the queues: each step that takes a message from one place puts it in another,
and an ack needs a decided order (`HandlerInv` at `ack`). `SettledForever` and
the refinement are action properties of the same invariant: only `update`
changes a row, and the row it changes is pending.

The retries relate what a message carries to what happened to its order, which
no single state shows. `Provenance` says of every message, wherever it is, that
the rejections it counts are failed attempts of its order, and that one in the
DLQ has used up `MaxRetries` of them (`DeadLettersAreExhausted`).
`RejectionsDoNotFail` follows the three ways an attempt fails. For
`AttemptsAreBounded`, an order that was sent is in exactly one place, so that its
attempts are those its one message counts; a break is the only thing that may
have repeated one without the count, and each is charged to the bound.

The administrator's steps either leave the table and the history alone (they are
steps of queues) or are steps of the pipeline, so the pipeline's invariants carry
over (`AdminKeepsTable`, `AdminRefinement`). `AdminInv` adds what an
administrative request knows between its two calls: while it holds a message,
that one is the head of the DLQ (`HoldInv`), and reprocess-all finds a message for
each iteration it has left, since between its count and its end only its own
steps and expiries take messages out (`SweepInv`).

`CircuitBreakerProofs`: each operation keeps a circuit's type and `ClosedBelow`
(closed exactly while its count is below the threshold); the two next modules
cite it.

`GatewayProxyProofs` (`GatewayAssumption`: any requests, threshold, retries):
`TypeOK`, `ClosedBelowThreshold`, `FailuresAreExhaustedRequests` and
`AnswersExplained`. The strengthening `LoopInv` says what the retry loop keeps of
a request (one under way has no answer and at least one attempt; one backing off
has attempts left); each step changes one request, and a counted failure adds
that request to `Exhausted`.

`GatewayHealthProofs` (`HealthAssumption`: any services, any number of
overlapping checks): `TypeOK`, `CircuitsClosedBelow`, `ReadyIsFresh` and
`NoFalseAlarm`. The last two speak of probes that have ended; `Fresh` and `Calm`
add the ones under way: a probe that can end well saw its service up during its
check, and no probe of a service that never went down is doubtful.

`ConsumerHealthProofs`: `TypeOK`, `BusyTimeWithinUptime`,
`MetricsDescribeHistory` and `HealthMeans`. The invariant
`BusyInv` bounds the busy time by what is already past of the uptime, leaving
the message in hand, which began no later than now, its own stretch of it;
`CountInv` says that the outcomes add up to the total. `HistoryInv` adds that the
messages ended are well formed and the last of them is the latest, and that the
total time is their sum (`Spent`). A sum over a history of any length needs
induction over data, which is done first-order: partial sums exist and agree,
since of the places where they did not, one would be the least (`WFMin` for `<`).

`OrderFlowProofs`, first part, of `Checkout` alone (`CheckoutAssumption`: any
requests in flight, finitely many products, prices and faults; `None` is no row
of `cart_items` and no id): `MessageMatchesOrder` and `CompletedStays`. `CheckoutInv` says, for
each `await`, what the tables still hold of what a request read before it: its
cart and its order are rows, the order is of that cart and at that total, and from the
publish on the cart is completed; and that no two requests hold one order, and
none that is to be published is named by a message already, so that the message
the publish appends is the only one of its order. It looks into no total. `HistoryInv` is
for the clicks: a request that left an order without its 201 met a counted fault,
and requests that never overlapped publish one order of a cart.

Then what holds of requests one at a time, `TotalIsSum` and `ImplementsShopping`.
`ItemsInv` is true whatever overlaps: the rows are finitely many, numbered, of
carts that exist, and the row a request holds is of its cart and product. `SerialInv`
holds while the requests are orderly: what the one request at work has read is
still so (`AtWork`), a cart has one item of a product (`OneItemEach`), one cart is
active and every other one has an order, but for the one being completed
(`OneCart`, `Completing`), and each total, but for the one being rebuilt, is its
items' sum (`TotalsOK`). The mapping to `Shopping`: the write of an item is `Add`,
its deletion `Remove`, the insert of the order `PlaceOrder`; everything else, also
the completion of the cart after it, is a stutter.

Sums over sets of rows need induction over data, which is done first-order, like
the partial sums of `ConsumerHealthProofs`: `MapThenSumSet` is a `CHOOSE` of a function on the
subsets; that one exists, and that two agree, is shown by a least counterexample
(the strict subsets of a finite set are well-founded, `WFMin`). From there a sum
loses a member's value with the member (`SumTakesOut`), and the sum over a cart's
items is the sum over products of the amounts of each (`SumByPlace`), which is how
a cart of rows and a cart of quantities cost the same.

Second part, of `OrderFlow` (`FlowAssumption` too: any clicks, retries and lost
attempts):
the gateway's behaviours are behaviours of `Checkout` (`FlowImplementsCheckout`),
so its theorems carry over, and `ChargedOnce` and `RefusalsAreTrue`. The
strengthening `Accounted` says what a click knows of its attempts: while none of
its answers got lost, every attempt but the one it waits for, or was answered by,
never ran or ended without success, hence published nothing.

Third part: `AddsCounted`, whose two bounds relate the rows, through the requests
that wrote them, to the clicks that asked for them. An account `w` (`Counted`)
gives every add that wrote the row it went into. Its writers are the adds
that got past their write, at least those answered with success (`WritersOK`); a
row counts no more than went into it, also the version of it that a request holds
from an earlier read (`SharesOK`: an update writes that version plus its own
quantity, so an overlap may lose an add but never counts one twice); and as long
as nothing overlapped and nothing was removed, the rows hold all of it (`AllThere`). `Told`
says that the attempts of a click asked what it asks, and that its success is
that of its last one. What is left are the writers no click was told of:
`Spoiled` are the adds that may have written, or still may, and that no click
waits for or got its success from; each has cost a fault or a lost answer
(`SpoiledPaid`), since an attempt ends with an error only by a fault and is
given up only with a loss, and one attempt at a time is waited for. A sum by
shares (`SumByShare`) and one by places (`SumByPlace`) then give the upper bound, one over a
larger set (`SumGrows`) the lower. The account sums over the requests, so this
part of the proof takes them from `FlowAssumption`, finitely many.

`RegistrationProofs` (`RegistrationAssumption`: any clients, e-mails, retries):
`OneAccountPerEmail`, `AnswersAreTrue`, `ConflictExplained`,
`RaceCostsOneAttempt`. The strengthenings say, per client, what a client that
never asked left untouched, what each answer implies of the table (`AnswersInv`),
that a stored row of a registration still under way, or a running call nobody
waits for, has cost a lost attempt (`LossInv`), and that a registration past its
first attempt without a loss finds the e-mail taken (`RaceInv`).

`CatalogueProofs` (`CatalogueAssumption`: any requests, retries, cuts and cache
timeout): `TypeOK` with `Shown` (a list shows no product that is not there),
`ListsAreCurrent`, `ListsNeverGoBack` and `CreatedCounted`. A list is stale when
an older reply overwrites a newer one, so the invariant `CatalogueInv` has to say
of every reply on its way, of the cache, and of every answer how they are
ordered. `ListInv`: a reply holds what had been announced when its request was
made, as long as it is younger than the cache's timeout. `OrderInv`, while no two
calls for the list overlapped: at most one such call runs, and its reply, or the
cache once it is filled, is as new as every answer given. `CountInv`: the
products made and the attempts cut off account for each other. That a set of
numbers has a greatest element is proved from the well-foundedness of `<`.

Only model-checked: all liveness (`EventuallyResolved`, `RequestsEnd`,
`ClicksAnswered`, `Recovery`, `Detection`), since fairness and `ENABLED` are out of
the prover's reach. Every other property of the passing runs is a theorem.
No module declares a RECURSIVE operator.

## 5. Plan

1. *Done*: the components above, their composition behind the gateway, and the
   proofs of section 4.
2. *Left to model*: several workers on one queue, where a lookup and an insert of
   two of them interleave (the repository's scripts start one).
3. *Left to prove*: nothing but liveness, which stays with TLC.

**Not modelled**, because there is no state of the program to go wrong: the
session and role guards look at a header or a claim; the throttler's counters
and decision are the library's; `UsersService`, the order lists, the order and
the product by id and the lists by seller are single reads; the metrics services,
logging and Terminus endpoints only report; `main.ts` and the `*.module.ts` files
are wiring. The retry of a broker connection at the start is one step
(`StartWithoutBroker` when it fails for good).
