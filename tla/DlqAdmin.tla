------------------------------- MODULE DlqAdmin -------------------------------
(***************************************************************************)
(* The pipeline with the dead letter queue's administration (DlqService    *)
(* behind DlqController) running next to the worker, on the same channel.  *)
(*                                                                         *)
(* Every operation but purge is a loop of basic.get and of one reply to    *)
(* it.  A message that was got and not yet replied to stays at the head of  *)
(* dlq with admin.holding TRUE: a nack with requeue, or the loss of the    *)
(* channel, puts it back exactly there, and the next get returns it again. *)
(* One administrative request runs at a time.                              *)
(***************************************************************************)
EXTENDS PaymentPipeline

CONSTANTS PeekLimit,     \* the limit query parameter of GET /dlq/messages
          MaxRequests    \* bound: administrative requests

ASSUME AdminAssumption == PeekLimit \in Nat /\ MaxRequests \in Nat

VARIABLES admin,         \* the request being served
          discarded,     \* history: orders an administrator removed a message of
          requests       \* how much of the bound is used

adminVars == <<admin, discarded, requests>>
allVars   == <<vars, adminVars>>

Loops   == {"peek", "reprocess", "reprocessAll", "discard"}
ByOrder == {"reprocess", "discard"}

\* op: the operation (and "none" between requests); target: the orderId of the
\* URL; left: iterations to go; count: messageCount as getStats returned it;
\* phase: "loop" before a get, "got" when its reply is awaited, "publish"
\* inside publishMessage, "done" when the response is on its way; found and
\* processed as in the code; present: history,
\* whether the target was in the queue when the operation counted it.
NoRequest == [op |-> "none", target |-> NoJob, left |-> 0, count |-> 0, phase |-> "done",
              holding |-> FALSE, found |-> FALSE, processed |-> 0,
              present |-> FALSE]

AdminInit ==
  /\ Init
  /\ admin = NoRequest /\ discarded = {} /\ requests = 0

Alive == link /\ pc # "down"

\* getStats, or the checkQueue of peek, opens the loop.
Open(op, t) ==
  /\ Alive /\ admin.op = "none" /\ requests < MaxRequests
  /\ requests' = requests + 1
  /\ admin' = [NoRequest EXCEPT
       !.op = op, !.target = t, !.phase = "loop", !.count = Len(dlq),
       !.left = IF op = "peek" THEN PeekLimit ELSE Len(dlq),
       !.present = op \in ByOrder /\ In(dlq, t)]
  /\ UNCHANGED <<vars, discarded>>

OpenRequest ==
  \/ \E op \in {"peek", "reprocessAll"} : Open(op, NoJob)
  \/ \E op \in ByOrder, t \in Orders : Open(op, t)

Get ==
  /\ Alive /\ admin.phase = "loop" /\ admin.left > 0
  /\ admin' = IF dlq = <<>>
              THEN [admin EXCEPT !.left = 0]
              ELSE [admin EXCEPT !.phase = "got", !.holding = TRUE]
  /\ UNCHANGED <<vars, discarded, requests>>

EndLoop ==
  /\ admin.phase = "loop" /\ admin.left = 0
  /\ admin' = [admin EXCEPT !.phase = "done"]
  /\ UNCHANGED <<vars, discarded, requests>>

Wanted == admin.op = "reprocessAll" \/ Head(dlq).order = admin.target

\* Mutant: the search goes on until it finds its message.
PutBackUncounted ==
  /\ Alive /\ admin.phase = "got"
  /\ admin.op = "peek" \/ ~ Wanted
  /\ admin' = [admin EXCEPT
       !.phase = "loop", !.holding = FALSE,
       !.left = IF admin.op = "peek" THEN @ - 1 ELSE @]
  /\ UNCHANGED <<vars, discarded, requests>>

\* nack with requeue: peek always, the search when the message is another's.
PutBack ==
  /\ Alive /\ admin.phase = "got"
  /\ admin.op = "peek" \/ ~ Wanted
  /\ admin' = [admin EXCEPT !.phase = "loop", !.holding = FALSE, !.left = @ - 1]
  /\ UNCHANGED <<vars, discarded, requests>>

\* The message of a reprocess enters publishMessage, which awaits the broker.
BeginPublish ==
  /\ admin.phase = "got" /\ admin.op \in {"reprocess", "reprocessAll"} /\ Wanted
  /\ admin' = [admin EXCEPT !.phase = "publish"]
  /\ UNCHANGED <<vars, discarded, requests>>

\* Mutant: the loop compares with a count that shrinks as it goes.
RepliedRecounting ==
  [admin EXCEPT
    !.holding = FALSE, !.found = admin.op = "reprocess", !.processed = @ + 1,
    !.phase = IF admin.op = "reprocess" THEN "done" ELSE "loop",
    !.left = IF @ > 1 THEN @ - 2 ELSE 0]

Replied ==
  [admin EXCEPT
    !.holding = FALSE, !.found = admin.op = "reprocess", !.processed = @ + 1,
    !.phase = IF admin.op = "reprocess" THEN "done" ELSE "loop",
    !.left = @ - 1]

\* Mutant: acked although publishMessage swallowed an error.
PublishBackFailing ==
  /\ Alive /\ admin.phase = "publish"
  /\ dlq' = Tail(dlq)
  /\ admin' = Replied
  /\ UNCHANGED <<sent, main, retry, dropped, link, pc, handlerVars, tableVars, failures, boundVars,
                 discarded, requests>>

\* publishMessage sends the content without the headers it was dead-lettered
\* with: the retry count restarts.
Republished(queue) == Append(queue, Fresh(Head(dlq).order))

\* Published, then acked.
PublishBack ==
  /\ Alive /\ admin.phase = "publish"
  /\ main' = Republished(main)
  /\ dlq' = Tail(dlq)
  /\ admin' = Replied
  /\ UNCHANGED <<sent, retry, dropped, link, pc, handlerVars, tableVars, failures, boundVars,
                 discarded, requests>>

Discard ==
  /\ Alive /\ admin.phase = "got" /\ admin.op = "discard" /\ Wanted
  /\ dlq' = Tail(dlq)
  /\ discarded' = discarded \cup {Head(dlq).order}
  /\ admin' = [admin EXCEPT !.holding = FALSE, !.found = TRUE, !.phase = "done"]
  /\ UNCHANGED <<sent, main, retry, dropped, link, pc, handlerVars, tableVars, failures,
                 boundVars, requests>>

Purge ==
  /\ Alive /\ admin.op = "none" /\ requests < MaxRequests
  /\ requests' = requests + 1
  /\ dlq' = <<>>
  /\ discarded' = discarded \cup {dlq[i].order : i \in DOMAIN dlq}
  /\ UNCHANGED <<sent, main, retry, dropped, link, pc, handlerVars, tableVars, failures,
                 boundVars, admin>>

Respond ==
  /\ admin.op # "none" /\ admin.phase = "done"
  /\ admin' = NoRequest
  /\ UNCHANGED <<vars, discarded, requests>>

AdminStep ==
  \/ OpenRequest \/ Get \/ EndLoop \/ PutBack \/ BeginPublish \/ PublishBack
  \/ Discard \/ Purge \/ Respond

-------------------------------------------------------------------------------
\* The worker's and the broker's steps go on; the TTL spares a held message.
PipelineStep ==
  /\ Environment \/ RetryExpires \/ Handler \/ DatabaseError \/ Start \/ StartWithoutBroker
  /\ admin.holding => ~ DlqExpires
  /\ admin' = IF pc' = "down" THEN NoRequest ELSE admin
  /\ UNCHANGED <<discarded, requests>>

\* Losing the channel ends a loop with an error, losing the process ends any
\* request, and the broker takes the held message back.
Interrupted ==
  /\ LinkLost \/ ReplyLost \/ Crash
  /\ admin' = IF admin.phase = "done" /\ pc' # "down" THEN admin ELSE NoRequest
  /\ UNCHANGED <<discarded, requests>>

\* The channel goes between the publish and the ack of a reprocess: the
\* message is in both queues.
AckOfReprocessLost ==
  /\ Alive /\ admin.phase = "publish" /\ breaks < MaxBreaks
  /\ breaks' = breaks + 1 /\ link' = FALSE
  /\ main' = Republished(IF Unacked THEN <<job>> \o main ELSE main)
  /\ admin' = NoRequest
  /\ UNCHANGED <<sent, retry, dlq, dropped, pc, handlerVars, tableVars, failures, faults, expiries,
                 discarded, requests>>

AdminNext == AdminStep \/ PipelineStep \/ Interrupted \/ AckOfReprocessLost

AdminSpec == AdminInit /\ [][AdminNext]_allVars

\* The worker, the retry timer and a request under way make progress; nobody
\* promises that a request is made.
Progress == Get \/ EndLoop \/ PutBack \/ BeginPublish \/ PublishBack \/ Discard \/ Respond
FairAdminSpec ==
  /\ AdminSpec
  /\ WF_allVars(PipelineStep /\ (Handler \/ RetryExpires))
  /\ WF_allVars(Progress)

-------------------------------------------------------------------------------
(* Properties *)

\* Administration loses no order either: whatever step of a reprocess is cut
\* off, the order stays queued, in hand or decided unless the broker dropped a
\* message of it or an administrator removed one.
NoAdminLoss ==
  \A o \in sent : Held(o) \/ Settled(o) \/ o \in dropped \/ o \in discarded

\* However often an order is put back on the main queue, once decided it is
\* neither changed nor charged again.
ReprocessKeepsDecision == [][DecidedOnce]_allVars

\* A reprocess-all that runs to its end has put back as many messages as it
\* counted, unless the broker's TTL took some from the queue.
ReprocessAllComplete ==
  (admin.op = "reprocessAll" /\ admin.phase = "done" /\ expiries = 0) =>
     admin.processed = admin.count

\* What DlqController answers: a message is "not found in DLQ" only when it is
\* not there (or came after the search had counted the messages).
NotFoundMeansAbsent ==
  (admin.op \in ByOrder /\ admin.phase = "done" /\ ~ admin.found) =>
     ~ (admin.present /\ In(dlq, admin.target))

\* A request ends, whatever else goes on (by its answer or its error).
RequestsEnd == (admin.op # "none") ~> (admin.op = "none")
===============================================================================
