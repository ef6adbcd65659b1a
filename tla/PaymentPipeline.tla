--------------------------- MODULE PaymentPipeline ---------------------------
(***************************************************************************)
(* The payment pipeline of payments-service: the RabbitMQ queues that      *)
(* RabbitmqService.subscribeToQueue declares, the consume callback with    *)
(* prefetch 1, PaymentConsumerService.processPaymentOrder,                 *)
(* PaymentsService.processPayment step by step (every await is a point     *)
(* where the process may die, the connection drop or the database fail),   *)
(* the fake gateway and the payments table.                                *)
(*                                                                         *)
(* A message is the order it pays, the number of rejections its x-death    *)
(* header counts, and whether the main queue's last death of it was an     *)
(* expiry.  Amounts are cents.  The service's counters (consumer metrics,  *)
(* Prometheus) are left out: nothing here reads them.                      *)
(***************************************************************************)
EXTENDS Naturals, Sequences

CONSTANTS Orders,        \* orders checkout-service publishes, once each
          Amount,        \* cents of each order
          MaxRetries,    \* options.maxRetries ?? 3
          NoJob,         \* "the worker holds no message"
          MaxFaults,     \* bound: database errors
          MaxBreaks,     \* bound: process deaths and connection losses
          MaxExpiries    \* bound: messages the main queue or the DLQ drop

ASSUME PipelineAssumption ==
  /\ Amount \in [Orders -> Nat]
  /\ MaxRetries \in Nat /\ MaxFaults \in Nat
  /\ MaxBreaks \in Nat /\ MaxExpiries \in Nat

Message == [order : Orders, retries : 0..MaxRetries, expired : BOOLEAN]

ASSUME NoJobAssumption == NoJob \notin Message

VARIABLES
  sent,      \* orders published so far
  main,      \* payment_queue: sequence of ready messages
  retry,     \* payment_queue.retry
  dlq,       \* payment_queue.dlq
  dropped,   \* history: orders the broker dropped a message of
  link,      \* the worker's channel is open
  pc,        \* where the worker is
  job,       \* the message it handles; the broker holds it unacknowledged
             \* exactly while link is up
  row,       \* index of the Payment entity the handler holds
  verdict,   \* the gateway's answer the handler holds
  payments,  \* the payments table: sequence of rows
  charges,   \* history: gateway approvals per order
  failures,  \* history: failed processing attempts per order
  faults, breaks, expiries   \* how much of each bound is used

brokerVars  == <<sent, main, retry, dlq, dropped>>
handlerVars == <<job, row, verdict>>
tableVars   == <<payments, charges>>
boundVars   == <<faults, breaks, expiries>>
vars == <<sent, main, retry, dlq, dropped, link, pc, job, row, verdict,
          payments, charges, failures, faults, breaks, expiries>>

AmountLimit == 1000000

\* FakePaymentGatewayService.process
GatewayDecision(cents) ==
  IF cents > AmountLimit \/ cents % 100 = 99 THEN "rejected" ELSE "approved"

\* PaymentConsumerService.validateMessage; checkout fills every other field.
ValidMessage(o) == Amount[o] > 0

Fresh(o)    == [order |-> o, retries |-> 0, expired |-> FALSE]
\* Mutant: published anew instead of rejected, so nothing counts it.
RejectedUncounted(m) == Fresh(m.order)
Rejected(m) == [order |-> m.order, retries |-> m.retries + 1, expired |-> FALSE]
Expired(m)  == [order |-> m.order, retries |-> m.retries, expired |-> TRUE]

Final   == {"approved", "rejected"}
NoRow   == 0
NoVerdict == [status |-> "none", txn |-> 0]
Verdict == {NoVerdict} \cup [status : Final, txn : Nat]
Row     == [order : Orders, status : {"pending"} \cup Final, txn : Nat]

Idle    == {"down", "idle"}
Working == {"find", "insert", "gateway", "update", "ack", "failed"}

Unacked == link /\ pc \in Working

In(q, o)   == \E i \in DOMAIN q : q[i].order = o
Held(o)    == In(main, o) \/ In(retry, o) \/ In(dlq, o) \/ (Unacked /\ job.order = o)
Settled(o) == \E i \in DOMAIN payments : payments[i].order = o /\ payments[i].status \in Final

Init ==
  /\ sent = {} /\ dropped = {}
  /\ main = <<>> /\ retry = <<>> /\ dlq = <<>>
  /\ link = TRUE /\ pc = "idle"
  /\ job = NoJob /\ row = NoRow /\ verdict = NoVerdict
  /\ payments = <<>>
  /\ charges = [o \in Orders |-> 0] /\ failures = [o \in Orders |-> 0]
  /\ faults = 0 /\ breaks = 0 /\ expiries = 0

-------------------------------------------------------------------------------
(* The broker *)

\* checkout-service publishes the order's message and the broker routes it.
Publish(o) ==
  /\ o \notin sent
  /\ sent' = sent \cup {o}
  /\ main' = Append(main, Fresh(o))
  /\ UNCHANGED <<retry, dlq, dropped, link, pc, handlerVars, tableVars, failures, boundVars>>

\* Mutant: the retry queue dead-letters into itself.
RetryExpiresIntoRetry ==
  /\ retry # <<>>
  /\ retry' = Append(Tail(retry), Head(retry))
  /\ UNCHANGED <<sent, main, dlq, dropped, link, pc, handlerVars, tableVars, failures, boundVars>>

\* The retry queue's TTL: the head goes back to the main exchange, unless its
\* whole cycle holds no rejection; the broker then drops it.
RetryExpires ==
  /\ retry # <<>>
  /\ retry' = Tail(retry)
  /\ IF Head(retry).expired
     THEN main' = main /\ dropped' = dropped \cup {Head(retry).order}
     ELSE main' = Append(main, Head(retry)) /\ dropped' = dropped
  /\ UNCHANGED <<sent, dlq, link, pc, handlerVars, tableVars, failures, boundVars>>

\* The main queue's TTL or its length limit: the head is dead-lettered without
\* a rejection; one that was in the retry queue before completes a cycle.
MainExpires ==
  /\ main # <<>> /\ expiries < MaxExpiries
  /\ expiries' = expiries + 1
  /\ main' = Tail(main)
  /\ IF Head(main).retries > 0
     THEN retry' = retry /\ dropped' = dropped \cup {Head(main).order}
     ELSE retry' = Append(retry, Expired(Head(main))) /\ dropped' = dropped
  /\ UNCHANGED <<sent, dlq, link, pc, handlerVars, tableVars, failures, faults, breaks>>

\* The DLQ's TTL: it has no dead-letter exchange of its own.
DlqExpires ==
  /\ dlq # <<>> /\ expiries < MaxExpiries
  /\ expiries' = expiries + 1
  /\ dlq' = Tail(dlq)
  /\ dropped' = dropped \cup {Head(dlq).order}
  /\ UNCHANGED <<sent, main, retry, link, pc, handlerVars, tableVars, failures, faults, breaks>>

-------------------------------------------------------------------------------
(* The worker *)

Forget == job' = NoJob /\ row' = NoRow /\ verdict' = NoVerdict

\* processPaymentOrder threw for the message in hand.
Fail(m) ==
  /\ failures' = [failures EXCEPT ![m.order] = @ + 1]
  /\ pc' = "failed" /\ row' = NoRow /\ verdict' = NoVerdict

\* The consume callback starts on the head of the main queue; an invalid
\* message throws before processPayment.
Deliver ==
  /\ link /\ pc = "idle" /\ main # <<>>
  /\ job' = Head(main) /\ main' = Tail(main)
  /\ IF ValidMessage(Head(main).order)
     THEN pc' = "find" /\ UNCHANGED <<row, verdict, failures>>
     ELSE Fail(Head(main))
  /\ UNCHANGED <<sent, retry, dlq, dropped, link, tableVars, boundVars>>

\* Mutant: the lookup misses the pending row an earlier attempt left.
FindDecidedPayment ==
  /\ pc = "find"
  /\ IF Settled(job.order) THEN pc' = "ack" ELSE pc' = "insert"
  /\ row' = NoRow
  /\ UNCHANGED <<brokerVars, link, job, verdict, tableVars, failures, boundVars>>

\* Mutant: a decided payment is processed again.
FindAnyPayment ==
  /\ pc = "find"
  /\ \/ ~ In(payments, job.order) /\ pc' = "insert" /\ row' = NoRow
     \/ \E i \in DOMAIN payments :
          payments[i].order = job.order /\ pc' = "gateway" /\ row' = i
  /\ UNCHANGED <<brokerVars, link, job, verdict, tableVars, failures, boundVars>>

\* Mutant: a pending payment counts as one already processed.
FindPendingAsDone ==
  /\ pc = "find"
  /\ IF In(payments, job.order) THEN pc' = "ack" ELSE pc' = "insert"
  /\ row' = NoRow
  /\ UNCHANGED <<brokerVars, link, job, verdict, tableVars, failures, boundVars>>

\* findOne by orderId: no row, a decided one (nothing more to do), a pending one.
FindPayment ==
  /\ pc = "find"
  /\ \/ ~ In(payments, job.order) /\ pc' = "insert" /\ row' = NoRow
     \/ \E i \in DOMAIN payments :
          /\ payments[i].order = job.order
          /\ IF payments[i].status # "pending"
             THEN pc' = "ack" /\ row' = NoRow
             ELSE pc' = "gateway" /\ row' = i
  /\ UNCHANGED <<brokerVars, link, job, verdict, tableVars, failures, boundVars>>

\* Mutant: the row is created with a status that is already final.
InsertedApproved(o) == Append(payments, [order |-> o, status |-> "approved", txn |-> 0])
Inserted(o) == Append(payments, [order |-> o, status |-> "pending", txn |-> 0])

InsertPayment ==
  /\ pc = "insert"
  /\ payments' = Inserted(job.order)
  /\ row' = Len(payments) + 1
  /\ pc' = "gateway"
  /\ UNCHANGED <<brokerVars, link, job, verdict, charges, failures, boundVars>>

\* The gateway decides; each approval is a new transaction.
CallGateway ==
  /\ pc = "gateway"
  /\ LET d == GatewayDecision(Amount[job.order])
         c == charges[job.order] + 1
     IN  IF d = "approved"
         THEN /\ charges' = [charges EXCEPT ![job.order] = c]
              /\ verdict' = [status |-> d, txn |-> c]
         ELSE /\ charges' = charges
              /\ verdict' = [status |-> d, txn |-> 0]
  /\ pc' = "update"
  /\ UNCHANGED <<brokerVars, link, job, row, payments, failures, boundVars>>

\* Mutant: the gateway's transaction id is not copied to the row.
DecidedWithoutTransaction(p) == [order |-> p.order, status |-> verdict.status, txn |-> 0]
Decided(p) == [order |-> p.order, status |-> verdict.status, txn |-> verdict.txn]
Updated    == [payments EXCEPT ![row] = Decided(@)]

\* Mutant: a gateway rejection is thrown to the consumer.
UpdatePaymentThrowing ==
  /\ pc = "update"
  /\ payments' = Updated
  /\ IF verdict.status = "rejected"
     THEN Fail(job)
     ELSE pc' = "ack" /\ row' = NoRow /\ verdict' = NoVerdict /\ failures' = failures
  /\ UNCHANGED <<brokerVars, link, job, charges, boundVars>>

UpdatePayment ==
  /\ pc = "update"
  /\ payments' = Updated
  /\ pc' = "ack" /\ row' = NoRow /\ verdict' = NoVerdict
  /\ UNCHANGED <<brokerVars, link, job, charges, failures, boundVars>>

\* A database call fails: the caller sees the error, and a write may have
\* been committed before it.
DatabaseError ==
  /\ pc \in {"find", "insert", "update"} /\ faults < MaxFaults
  /\ faults' = faults + 1
  /\ \/ payments' = payments
     \/ pc = "insert" /\ payments' = Inserted(job.order)
     \/ pc = "update" /\ payments' = Updated
  /\ Fail(job)
  /\ UNCHANGED <<brokerVars, link, job, charges, breaks, expiries>>

Acknowledge ==
  /\ pc = "ack" /\ link
  /\ pc' = "idle" /\ Forget
  /\ UNCHANGED <<brokerVars, link, tableVars, failures, boundVars>>

\* Mutant: nobody looks at the retry count.
RejectAlways ==
  /\ pc = "failed" /\ link
  /\ retry' = Append(retry, Rejected(job))
  /\ pc' = "idle" /\ Forget
  /\ UNCHANGED <<sent, main, dlq, dropped, link, tableVars, failures, boundVars>>

\* nack without requeue: the rejection is counted and the message delayed.
Reject ==
  /\ pc = "failed" /\ link /\ job.retries < MaxRetries
  /\ retry' = Append(retry, Rejected(job))
  /\ pc' = "idle" /\ Forget
  /\ UNCHANGED <<sent, main, dlq, dropped, link, tableVars, failures, boundVars>>

\* Mutant: one rejection too early.
DeadLetterEarly ==
  /\ pc = "failed" /\ link /\ job.retries + 1 >= MaxRetries
  /\ dlq' = Append(dlq, job)
  /\ pc' = "idle" /\ Forget
  /\ UNCHANGED <<sent, main, retry, dropped, link, tableVars, failures, boundVars>>

\* Retries used up: publish to the DLQ, then ack.
DeadLetter ==
  /\ pc = "failed" /\ link /\ job.retries >= MaxRetries
  /\ dlq' = Append(dlq, job)
  /\ pc' = "idle" /\ Forget
  /\ UNCHANGED <<sent, main, retry, dropped, link, tableVars, failures, boundVars>>

-------------------------------------------------------------------------------
(* Failures of the process and of its connection *)

\* What the broker does with the unacknowledged message.
Requeue == main' = IF Unacked THEN <<job>> \o main ELSE main

\* The connection drops; the handler goes on with what it has.
LinkLost ==
  /\ link /\ pc # "down" /\ breaks < MaxBreaks
  /\ breaks' = breaks + 1 /\ link' = FALSE
  /\ Requeue
  /\ UNCHANGED <<sent, retry, dlq, dropped, pc, handlerVars, tableVars, failures, faults, expiries>>

\* The connection drops on the reply the handler just wrote: the broker sees
\* nothing of it, or only the publish to the DLQ that went ahead of the ack.
ReplyLost ==
  /\ link /\ pc \in {"ack", "failed"} /\ breaks < MaxBreaks
  /\ breaks' = breaks + 1 /\ link' = FALSE
  /\ Requeue
  /\ \/ dlq' = dlq
     \/ pc = "failed" /\ job.retries >= MaxRetries /\ dlq' = Append(dlq, job)
  /\ pc' = "idle" /\ Forget
  /\ UNCHANGED <<sent, retry, dropped, tableVars, failures, faults, expiries>>

\* ack and nack throw on a closed channel: the callback's promise is rejected
\* and nobody handles it, which ends the process.
ReplyOnClosedChannel ==
  /\ ~ link /\ pc \in {"ack", "failed"}
  /\ pc' = "down" /\ Forget
  /\ UNCHANGED <<brokerVars, link, tableVars, failures, boundVars>>

\* The process dies, or is stopped, anywhere.
Crash ==
  /\ pc # "down" /\ breaks < MaxBreaks
  /\ breaks' = breaks + 1 /\ link' = FALSE
  /\ Requeue
  /\ pc' = "down" /\ Forget
  /\ UNCHANGED <<sent, retry, dlq, dropped, tableVars, failures, faults, expiries>>

\* The service is started again and subscribes.
Start ==
  /\ pc = "down"
  /\ pc' = "idle" /\ link' = TRUE
  /\ UNCHANGED <<brokerVars, handlerVars, tableVars, failures, boundVars>>

\* Started while the broker is away, it gives up subscribing and stays up.
StartWithoutBroker ==
  /\ pc = "down" /\ breaks < MaxBreaks
  /\ breaks' = breaks + 1
  /\ pc' = "idle" /\ link' = FALSE
  /\ UNCHANGED <<brokerVars, handlerVars, tableVars, failures, faults, expiries>>

-------------------------------------------------------------------------------
Environment == (\E o \in Orders : Publish(o)) \/ MainExpires \/ DlqExpires
Handler ==
  \/ Deliver \/ FindPayment \/ InsertPayment \/ CallGateway \/ UpdatePayment
  \/ Acknowledge \/ Reject \/ DeadLetter \/ ReplyOnClosedChannel
Disturbance == DatabaseError \/ LinkLost \/ ReplyLost \/ Crash

Next == Environment \/ RetryExpires \/ Handler \/ Disturbance \/ Start \/ StartWithoutBroker

Spec == Init /\ [][Next]_vars

\* The worker takes its next step and the retry queue's timer fires; nobody
\* promises to restart a dead process or to reopen a lost connection.
FairSpec == Spec /\ WF_vars(Handler) /\ WF_vars(RetryExpires)

-------------------------------------------------------------------------------
(* Properties *)

TypeOK ==
  /\ sent \in SUBSET Orders /\ dropped \in SUBSET Orders
  /\ main \in Seq(Message) /\ retry \in Seq(Message) /\ dlq \in Seq(Message)
  /\ link \in BOOLEAN /\ pc \in Idle \cup Working
  /\ pc \in Idle => job = NoJob
  /\ pc \in Working => job \in Message
  /\ row \in Nat /\ verdict \in Verdict
  /\ payments \in Seq(Row)
  /\ charges \in [Orders -> Nat] /\ failures \in [Orders -> Nat]
  /\ faults \in 0..MaxFaults /\ breaks \in 0..MaxBreaks /\ expiries \in 0..MaxExpiries

\* The table never holds two payments of one order, whatever is redelivered,
\* retried or cut off between findOne and save (the orderId column is not
\* unique: only the order of the handler's steps keeps this).
OnePaymentPerOrder ==
  \A i, j \in DOMAIN payments : payments[i].order = payments[j].order => i = j

\* A decided payment has the status the gateway's rules give for the order's
\* amount; the approved ones, and no others, name a transaction, and it is one
\* the gateway made for that order.
DecisionRespected ==
  \A i \in DOMAIN payments :
    LET p == payments[i] IN
    /\ p.status \in Final => p.status = GatewayDecision(Amount[p.order])
    /\ p.status = "approved" <=> p.txn > 0
    /\ p.txn <= charges[p.order]

\* No order is lost silently: what was published is in a queue, with the
\* worker, decided, or dropped by the broker's own expiry rules.
NoSilentLoss ==
  \A o \in sent : Held(o) \/ Settled(o) \/ o \in dropped

\* A message reaches the DLQ only after MaxRetries rejections and one more
\* failed attempt: neither a redelivery nor a gateway rejection counts as one.
DlqMeansExhausted ==
  \A i \in DOMAIN dlq :
    dlq[i].retries = MaxRetries /\ failures[dlq[i].order] > MaxRetries

\* A gateway rejection is an outcome, not a failure: processing a valid order
\* fails only by a database error, and a message is delayed at most once for
\* each failure of its order.
RejectionIsNotFailure ==
  /\ \A o \in Orders : ValidMessage(o) => failures[o] <= faults
  /\ \A i \in DOMAIN retry : retry[i].retries <= failures[retry[i].order]

\* No order is tried and failed more than MaxRetries + 1 times, except for
\* the attempts whose reply a dead process or connection took with it.
AttemptsBounded ==
  \A o \in Orders : failures[o] <= MaxRetries + 1 + breaks

\* A decided payment stays as it is: no redelivery changes its status or its
\* transaction, and the gateway is not asked to approve the order again.
DecidedOnce ==
  \A o \in Orders :
    Settled(o) =>
      /\ charges'[o] = charges[o]
      /\ \A i \in DOMAIN payments : payments[i].order = o => payments'[i] = payments[i]
SettledForever == [][DecidedOnce]_vars

\* If the worker is up and connected from some point on, every published order
\* ends up decided, in the DLQ, or dropped by the broker.
Consuming == link /\ pc # "down"
Resolved(o) == Settled(o) \/ In(dlq, o) \/ o \in dropped
EventuallyResolved == <>[]Consuming => \A o \in Orders : (o \in sent) ~> Resolved(o)

\* What the handler relies on between its steps, and why the three properties
\* above survive them: the inductive strengthening.  The row found to be
\* missing is still missing when it is inserted; the row in hand is the order's
\* and still pending; the verdict in hand is the gateway's; and the handler
\* acknowledges only an order that is decided.
HandlerInv ==
  /\ pc = "insert" => ~ In(payments, job.order)
  /\ pc \in {"gateway", "update"} =>
       /\ row \in DOMAIN payments
       /\ payments[row].order = job.order /\ payments[row].status = "pending"
  /\ pc = "update" =>
       /\ verdict.status = GatewayDecision(Amount[job.order])
       /\ verdict.status = "approved" <=> verdict.txn > 0
       /\ verdict.txn <= charges[job.order]
  /\ pc = "ack" => Settled(job.order)

\* The pipeline implements the abstract settlement of orders: a payment only
\* goes from none to pending to the gateway's decision.
PaymentOf(o) ==
  IF In(payments, o)
  THEN LET i == CHOOSE k \in DOMAIN payments : payments[k].order = o
       IN  [status |-> payments[i].status, txn |-> payments[i].txn]
  ELSE [status |-> "none", txn |-> 0]

Abstract == INSTANCE Settlement WITH
  Decision <- [o \in Orders |-> GatewayDecision(Amount[o])],
  payment  <- [o \in Orders |-> PaymentOf(o)]

ImplementsSettlement == Abstract!Spec
===============================================================================
