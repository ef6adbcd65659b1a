------------------------ MODULE PaymentPipelineProofs ------------------------
(***************************************************************************)
(* Theorems of PaymentPipeline, for every set of orders, every amount and   *)
(* every retry limit, and of DlqAdmin, for any number of administrative    *)
(* requests beside the worker.  The part about the pipeline uses nothing   *)
(* of DlqAdmin.                                                            *)
(***************************************************************************)
EXTENDS DlqAdmin, SequenceTheorems, TLAPS

-------------------------------------------------------------------------------
(* Sequences as queues: what In says of each way a queue changes. *)

\* Appending at the tail adds exactly the appended element's order.
LEMMA InAppend ==
  ASSUME NEW S, NEW q \in Seq(S), NEW m, NEW o
  PROVE  In(Append(q, m), o) <=> In(q, o) \/ m.order = o
<1>1. /\ DOMAIN Append(q, m) = 1..Len(q) + 1
      /\ Append(q, m)[Len(q) + 1] = m
      /\ \A i \in 1..Len(q) : Append(q, m)[i] = q[i]
      /\ DOMAIN q = 1..Len(q) /\ Len(q) \in Nat
  OBVIOUS
<1>2. QED  BY <1>1 DEF In

\* A queue holds what its head and its tail hold.
LEMMA InTail ==
  ASSUME NEW S, NEW q \in Seq(S), q # <<>>, NEW o
  PROVE  In(q, o) <=> Head(q).order = o \/ In(Tail(q), o)
<1>1. /\ Len(q) \in Nat /\ Len(q) > 0
      /\ DOMAIN q = 1..Len(q) /\ Head(q) = q[1]
      /\ DOMAIN Tail(q) = 1..Len(q) - 1
      /\ \A i \in 1..Len(q) - 1 : Tail(q)[i] = q[i + 1]
  OBVIOUS
<1>2. ASSUME NEW i \in 1..Len(q), q[i].order = o
      PROVE  Head(q).order = o \/ In(Tail(q), o)
  <2>1. CASE i = 1  BY <1>1, <1>2, <2>1
  <2>2. CASE i # 1
    <3>1. i - 1 \in 1..Len(q) - 1 /\ Tail(q)[i - 1] = q[i]  BY <1>1, <2>2
    <3>2. QED  BY <1>1, <1>2, <3>1 DEF In
  <2>3. QED  BY <2>1, <2>2
<1>3. ASSUME NEW i \in 1..Len(q) - 1, Tail(q)[i].order = o
      PROVE  \E k \in 1..Len(q) : q[k].order = o
  <2>1. i + 1 \in 1..Len(q) /\ q[i + 1].order = o  BY <1>1, <1>3
  <2>2. QED  BY <2>1
<1>4. QED  BY <1>1, <1>2, <1>3 DEF In

\* Requeueing at the head adds exactly the requeued element's order.
LEMMA InRequeue ==
  ASSUME NEW S, NEW q \in Seq(S), NEW m \in S, NEW o
  PROVE  In(<<m>> \o q, o) <=> m.order = o \/ In(q, o)
<1>1. /\ Len(q) \in Nat /\ DOMAIN q = 1..Len(q)
      /\ <<m>> \o q \in Seq(S) /\ Len(<<m>> \o q) = Len(q) + 1
      /\ (<<m>> \o q)[1] = m
      /\ \A i \in 1..Len(q) : (<<m>> \o q)[i + 1] = q[i]
  BY ConcatProperties
<1>2. DOMAIN (<<m>> \o q) = 1..Len(q) + 1  BY <1>1
<1>3. <<m>> \o q # <<>> /\ Head(<<m>> \o q) = m  BY <1>1
<1>4. Tail(<<m>> \o q) = q
  <2>1. Tail(<<m>> \o q) \in Seq(S) /\ Len(Tail(<<m>> \o q)) = Len(q)
        /\ \A i \in 1..Len(q) : Tail(<<m>> \o q)[i] = q[i]
    BY <1>1, <1>3, HeadTailProperties
  <2>2. QED  BY <2>1, SeqEqual
<1>5. QED  BY <1>1, <1>3, <1>4, InTail

-------------------------------------------------------------------------------
(* Types *)

\* A row appended to the table, or updated in place, is a row.
LEMMA InsertedType ==
  ASSUME TypeOK, NEW o \in Orders
  PROVE  /\ Inserted(o) \in Seq(Row)
         /\ Len(Inserted(o)) = Len(payments) + 1
         /\ Inserted(o)[Len(payments) + 1] = [order |-> o, status |-> "pending", txn |-> 0]
         /\ \A i \in 1..Len(payments) : Inserted(o)[i] = payments[i]
<1>1. [order |-> o, status |-> "pending", txn |-> 0] \in Row  BY DEF Row
<1>2. payments \in Seq(Row)  BY DEF TypeOK
<1>3. QED  BY <1>1, <1>2 DEF Inserted

\* The fields of a row of the table.
LEMMA RowType ==
  ASSUME TypeOK, NEW i \in DOMAIN payments
  PROVE  /\ payments[i].order \in Orders
         /\ payments[i].status \in {"pending"} \cup Final
         /\ payments[i].txn \in Nat
<1>1. payments \in Seq(Row) /\ DOMAIN payments = 1..Len(payments)  BY DEF TypeOK
<1>2. payments[i] \in Row  BY <1>1, ElementOfSeq
<1>3. QED  BY <1>2 DEF Row

\* Deciding the row in hand changes that row alone, and not its order.
LEMMA UpdatedType ==
  ASSUME TypeOK, row \in DOMAIN payments, verdict.status \in Final, verdict.txn \in Nat
  PROVE  /\ Updated \in Seq(Row)
         /\ Len(Updated) = Len(payments)
         /\ Updated[row] = Decided(payments[row])
         /\ Updated[row].order = payments[row].order
         /\ \A i \in DOMAIN payments \ {row} : Updated[i] = payments[i]
<1>1. payments \in Seq(Row) /\ DOMAIN payments = 1..Len(payments)  BY DEF TypeOK
<1>2. payments[row] \in Row  BY <1>1, ElementOfSeq
<1>3. Decided(payments[row]) \in Row /\ Decided(payments[row]).order = payments[row].order
  BY <1>2 DEF Row, Decided
<1>4. Updated = [payments EXCEPT ![row] = Decided(payments[row])]  BY DEF Updated
<1>5. QED  BY <1>1, <1>3, <1>4, ExceptSeq

\* A fresh message, and a message that is rejected or expires, is a message.
LEMMA MessageForms ==
  /\ \A o \in Orders : Fresh(o) \in Message /\ Fresh(o).order = o
  /\ \A m \in Message :
       /\ m.order \in Orders
       /\ Expired(m) \in Message /\ Expired(m).order = m.order
       /\ m.retries < MaxRetries => Rejected(m) \in Message
       /\ Rejected(m).order = m.order
BY PipelineAssumption DEF Message, Fresh, Expired, Rejected

\* Requeueing leaves a queue of messages.
LEMMA RequeueType ==
  ASSUME TypeOK, Requeue
  PROVE  main' \in Seq(Message)
<1>1. CASE Unacked
  <2>1. job \in Message /\ main \in Seq(Message)  BY <1>1 DEF TypeOK, Unacked
  <2>2. QED  BY <1>1, <2>1, ConcatProperties DEF Requeue
<1>2. CASE ~ Unacked  BY <1>2 DEF TypeOK, Requeue
<1>3. QED  BY <1>1, <1>2

\* Types are kept by every step that starts from the handler's invariant
\* (which is what makes the row and the verdict of an update meaningful).
LEMMA TypeStep == TypeOK /\ HandlerInv /\ [Next]_vars => TypeOK'
<1> SUFFICES ASSUME TypeOK, HandlerInv, [Next]_vars
             PROVE  TypeOK'
  OBVIOUS
<1> USE PipelineAssumption, NoJobAssumption, MessageForms DEF TypeOK, Idle, Working
<1>1. ASSUME NEW o \in Orders, Publish(o) PROVE TypeOK'
  BY <1>1 DEF Publish, handlerVars, tableVars, boundVars
<1>2. CASE RetryExpires
  <2>1. Head(retry) \in Message /\ retry' \in Seq(Message)
    BY <1>2, HeadTailProperties DEF RetryExpires
  <2>2. main' \in Seq(Message) /\ dropped' \in SUBSET Orders
    <3>1. Append(main, Head(retry)) \in Seq(Message) /\ Head(retry).order \in Orders
      BY <2>1
    <3>2. CASE Head(retry).expired  BY <1>2, <3>1, <3>2 DEF RetryExpires
    <3>3. CASE ~ Head(retry).expired
      <4>1. main' = Append(main, Head(retry)) /\ dropped' = dropped
        BY <1>2, <3>3, Zenon DEF RetryExpires
      <4>2. QED  BY <3>1, <4>1
    <3>4. QED  BY <3>2, <3>3
  <2>3. QED  BY <1>2, <2>1, <2>2 DEF RetryExpires, handlerVars, tableVars, boundVars
<1>3. CASE MainExpires
  <2>1. Head(main) \in Message /\ main' \in Seq(Message)
    BY <1>3, HeadTailProperties DEF MainExpires
  <2>2. retry' \in Seq(Message) /\ dropped' \in SUBSET Orders
    <3>1. Append(retry, Expired(Head(main))) \in Seq(Message) /\ Head(main).order \in Orders
      BY <2>1
    <3>2. CASE Head(main).retries > 0  BY <1>3, <3>1, <3>2 DEF MainExpires
    <3>3. CASE ~ Head(main).retries > 0  BY <1>3, <3>1, <3>3 DEF MainExpires
    <3>4. QED  BY <3>2, <3>3
  <2>3. expiries' \in 0..MaxExpiries  BY <1>3 DEF MainExpires
  <2>4. QED  BY <1>3, <2>1, <2>2, <2>3 DEF MainExpires, handlerVars, tableVars
<1>4. CASE DlqExpires
  BY <1>4, HeadTailProperties DEF DlqExpires, handlerVars, tableVars
<1>5. CASE Deliver
  <2>1. Head(main) \in Message /\ Tail(main) \in Seq(Message) /\ Head(main).order \in Orders
    BY <1>5, HeadTailProperties DEF Deliver
  <2>2. failures' \in [Orders -> Nat] /\ row' \in Nat /\ verdict' \in Verdict
        /\ pc' \in {"find", "failed"}
    <3>1. CASE ValidMessage(Head(main).order)  BY <1>5, <3>1 DEF Deliver
    <3>2. CASE ~ ValidMessage(Head(main).order)
      <4>1. Fail(Head(main))  BY <1>5, <3>2 DEF Deliver
      <4>2. QED  BY <2>1, <4>1 DEF Fail, NoRow, Verdict
    <3>3. QED  BY <3>1, <3>2
  <2>3. QED  BY <1>5, <2>1, <2>2 DEF Deliver, tableVars, boundVars
<1>6. CASE FindPayment
  BY <1>6 DEF FindPayment, NoRow, brokerVars, tableVars, boundVars
<1>7. CASE InsertPayment
  <2>1. payments' \in Seq(Row)  BY <1>7, InsertedType DEF InsertPayment
  <2>2. row' \in Nat  BY <1>7 DEF InsertPayment
  <2>3. QED  BY <1>7, <2>1, <2>2 DEF InsertPayment, brokerVars, boundVars
<1>8. CASE CallGateway
  <2>1. job.order \in Orders /\ charges[job.order] + 1 \in Nat  BY <1>8 DEF CallGateway
  <2>2. charges' \in [Orders -> Nat] /\ verdict' \in Verdict
    <3>1. CASE GatewayDecision(Amount[job.order]) = "approved"
      <4>1. /\ charges' = [charges EXCEPT ![job.order] = charges[job.order] + 1]
            /\ verdict' = [status |-> "approved", txn |-> charges[job.order] + 1]
        BY <1>8, <3>1 DEF CallGateway
      <4>2. QED  BY <2>1, <4>1 DEF Verdict, Final
    <3>2. CASE GatewayDecision(Amount[job.order]) = "rejected"
      BY <1>8, <2>1, <3>2 DEF CallGateway, Verdict, Final
    <3>3. QED  BY <3>1, <3>2 DEF GatewayDecision
  <2>3. QED  BY <1>8, <2>2 DEF CallGateway, brokerVars, boundVars
<1>9. CASE UpdatePayment
  <2>1. row \in DOMAIN payments /\ verdict.status \in Final /\ verdict.txn \in Nat
    BY <1>9 DEF UpdatePayment, HandlerInv, GatewayDecision, Final, Verdict, NoVerdict
  <2>2. payments' \in Seq(Row)  BY <1>9, <2>1, UpdatedType DEF UpdatePayment
  <2>3. QED  BY <1>9, <2>2 DEF UpdatePayment, NoRow, Verdict, brokerVars, boundVars
<1>10. CASE DatabaseError
  <2>1. job \in Message /\ job.order \in Orders  BY <1>10 DEF DatabaseError
  <2>2. payments' \in Seq(Row)
    <3>1. CASE payments' = payments  BY <3>1
    <3>2. CASE payments' = Inserted(job.order)  BY <2>1, <3>2, InsertedType
    <3>3. CASE pc = "update" /\ payments' = Updated
      <4>1. row \in DOMAIN payments /\ verdict.status \in Final /\ verdict.txn \in Nat
        BY <3>3 DEF HandlerInv, GatewayDecision, Final, Verdict, NoVerdict
      <4>2. QED  BY <3>3, <4>1, UpdatedType
    <3>4. QED  BY <1>10, <3>1, <3>2, <3>3 DEF DatabaseError
  <2>3. faults' \in 0..MaxFaults  BY <1>10 DEF DatabaseError
  <2>4. QED  BY <1>10, <2>1, <2>2, <2>3 DEF DatabaseError, Fail, NoRow, Verdict, brokerVars
<1>11. CASE Acknowledge
  BY <1>11 DEF Acknowledge, Forget, NoRow, Verdict, brokerVars, tableVars, boundVars
<1>12. CASE Reject
  BY <1>12 DEF Reject, Forget, NoRow, Verdict, tableVars, boundVars
<1>13. CASE DeadLetter
  BY <1>13 DEF DeadLetter, Forget, NoRow, Verdict, tableVars, boundVars
<1>14. CASE LinkLost
  <2>1. main' \in Seq(Message)  BY <1>14, RequeueType DEF LinkLost
  <2>2. breaks' \in 0..MaxBreaks  BY <1>14 DEF LinkLost
  <2>3. QED  BY <1>14, <2>1, <2>2 DEF LinkLost, handlerVars, tableVars
<1>15. CASE ReplyLost
  <2>1. main' \in Seq(Message)  BY <1>15, RequeueType DEF ReplyLost
  <2>2. breaks' \in 0..MaxBreaks  BY <1>15 DEF ReplyLost
  <2>3. dlq' \in Seq(Message)
    <3>1. job \in Message  BY <1>15 DEF ReplyLost
    <3>2. Append(dlq, job) \in Seq(Message)  BY <3>1
    <3>3. dlq' = dlq \/ dlq' = Append(dlq, job)  BY <1>15 DEF ReplyLost
    <3>4. QED  BY <3>2, <3>3
  <2>4. QED  BY <1>15, <2>1, <2>2, <2>3 DEF ReplyLost, Forget, NoRow, Verdict, tableVars
<1>16. CASE ReplyOnClosedChannel
  BY <1>16 DEF ReplyOnClosedChannel, Forget, NoRow, Verdict, brokerVars, tableVars, boundVars
<1>17. CASE Crash
  <2>1. main' \in Seq(Message)  BY <1>17, RequeueType DEF Crash
  <2>2. breaks' \in 0..MaxBreaks  BY <1>17 DEF Crash
  <2>3. QED  BY <1>17, <2>1, <2>2 DEF Crash, Forget, NoRow, Verdict, tableVars
<1>18. CASE Start
  BY <1>18 DEF Start, brokerVars, handlerVars, tableVars, boundVars
<1>19. CASE StartWithoutBroker
  <2>1. breaks' \in 0..MaxBreaks  BY <1>19 DEF StartWithoutBroker
  <2>2. QED  BY <1>19, <2>1 DEF StartWithoutBroker, brokerVars, handlerVars, tableVars
<1>20. CASE UNCHANGED vars
  BY <1>20 DEF vars
<1>21. QED
  BY <1>1, <1>2, <1>3, <1>4, <1>5, <1>6, <1>7, <1>8, <1>9, <1>10, <1>11, <1>12, <1>13,
     <1>14, <1>15, <1>16, <1>17, <1>18, <1>19, <1>20
     DEF Next, Environment, Handler, Disturbance

-------------------------------------------------------------------------------
(* The payments table *)

TableInv == HandlerInv /\ OnePaymentPerOrder /\ DecisionRespected

\* Inserting the row of an order that has none.
LEMMA InsertKeepsTable ==
  ASSUME TypeOK, OnePaymentPerOrder, DecisionRespected,
         NEW o \in Orders, ~ In(payments, o),
         payments' = Inserted(o), charges' = charges
  PROVE  OnePaymentPerOrder' /\ DecisionRespected'
<1> DEFINE n == Len(payments) + 1
<1>1. /\ DOMAIN payments = 1..Len(payments) /\ Len(payments) \in Nat
      /\ DOMAIN payments' = 1..n
      /\ payments'[n] = [order |-> o, status |-> "pending", txn |-> 0]
      /\ \A i \in 1..Len(payments) : payments'[i] = payments[i]
  BY InsertedType DEF TypeOK
<1>2. \A i \in 1..Len(payments) : payments[i].order # o  BY <1>1 DEF In
<1>3. OnePaymentPerOrder'
  <2> SUFFICES ASSUME NEW i \in 1..n, NEW j \in 1..n, payments'[i].order = payments'[j].order
               PROVE  i = j
    BY <1>1 DEF OnePaymentPerOrder
  <2>1. CASE i \in 1..Len(payments) /\ j \in 1..Len(payments)
    BY <1>1, <2>1 DEF OnePaymentPerOrder
  <2>2. CASE i = n \/ j = n
    <3>1. payments'[n].order = o  BY <1>1
    <3>2. QED  BY <1>1, <1>2, <2>2, <3>1
  <2>3. QED  BY <1>1, <2>1, <2>2
<1>4. DecisionRespected'
  <2> SUFFICES ASSUME NEW i \in 1..n
               PROVE  /\ payments'[i].status \in Final =>
                            payments'[i].status = GatewayDecision(Amount[payments'[i].order])
                      /\ payments'[i].status = "approved" <=> payments'[i].txn > 0
                      /\ payments'[i].txn <= charges'[payments'[i].order]
    BY <1>1 DEF DecisionRespected
  <2>1. CASE i \in 1..Len(payments)  BY <1>1, <2>1 DEF DecisionRespected
  <2>2. CASE i = n
    <3>1. charges[o] \in Nat  BY DEF TypeOK
    <3>2. QED  BY <1>1, <2>2, <3>1 DEF Final
  <2>3. QED  BY <1>1, <2>1, <2>2
<1>5. QED  BY <1>3, <1>4

\* Deciding the pending row in hand with the verdict in hand.
LEMMA UpdateKeepsTable ==
  ASSUME TypeOK, TableInv, pc = "update", payments' = Updated,
         charges' = charges, job' = job
  PROVE  OnePaymentPerOrder' /\ DecisionRespected' /\ Settled(job.order)'
         /\ row \in DOMAIN payments
         /\ verdict.status \in Final /\ verdict.txn \in Nat
<1>1. /\ row \in DOMAIN payments /\ payments[row].order = job.order
      /\ verdict.status = GatewayDecision(Amount[job.order])
      /\ verdict.status = "approved" <=> verdict.txn > 0
      /\ verdict.txn <= charges[job.order]
  BY DEF TableInv, HandlerInv
<1>2. verdict.status \in Final /\ verdict.txn \in Nat
  BY <1>1 DEF TypeOK, Verdict, NoVerdict, GatewayDecision, Final
<1>3. /\ DOMAIN payments = 1..Len(payments) /\ DOMAIN payments' = DOMAIN payments
      /\ payments'[row] = Decided(payments[row])
      /\ payments'[row].order = job.order
      /\ \A i \in DOMAIN payments \ {row} : payments'[i] = payments[i]
  BY <1>1, <1>2, UpdatedType DEF TypeOK
<1>4. payments'[row].status = verdict.status /\ payments'[row].txn = verdict.txn
  BY <1>3 DEF Decided
<1>5. \A i \in DOMAIN payments : payments'[i].order = payments[i].order
  BY <1>1, <1>3
<1>6. OnePaymentPerOrder'  BY <1>3, <1>5 DEF TableInv, OnePaymentPerOrder
<1>7. DecisionRespected'
  <2> SUFFICES ASSUME NEW i \in DOMAIN payments
               PROVE  /\ payments'[i].status \in Final =>
                            payments'[i].status = GatewayDecision(Amount[payments'[i].order])
                      /\ payments'[i].status = "approved" <=> payments'[i].txn > 0
                      /\ payments'[i].txn <= charges'[payments'[i].order]
    BY <1>3 DEF DecisionRespected
  <2>1. CASE i = row  BY <1>1, <1>3, <1>4, <2>1
  <2>2. CASE i # row  BY <1>3, <2>2 DEF TableInv, DecisionRespected
  <2>3. QED  BY <2>1, <2>2
<1>8. Settled(job.order)'
  <2>1. payments'[row].order = job.order /\ payments'[row].status \in Final
        /\ row \in DOMAIN payments'
    BY <1>1, <1>2, <1>3, <1>4
  <2>2. QED  BY <2>1 DEF Settled
<1>9. QED  BY <1>1, <1>2, <1>6, <1>7, <1>8

\* Steps that leave the handler where it is, or end its work, leave the table
\* and so its invariant alone.
LEMMA OutsideTheTable ==
  ASSUME TableInv, UNCHANGED tableVars,
         UNCHANGED <<pc, handlerVars>> \/ pc' \in {"idle", "down", "failed", "find"}
  PROVE  TableInv'
<1>1. OnePaymentPerOrder' /\ DecisionRespected'
  BY DEF TableInv, tableVars, OnePaymentPerOrder, DecisionRespected
<1>2. CASE UNCHANGED <<pc, handlerVars>>
  BY <1>1, <1>2 DEF TableInv, HandlerInv, tableVars, handlerVars, In, Settled
<1>3. CASE pc' \in {"idle", "down", "failed", "find"}
  BY <1>1, <1>3 DEF TableInv, HandlerInv
<1>4. QED  BY <1>2, <1>3

\* The table's invariant is inductive.
LEMMA TableStep == TypeOK /\ TableInv /\ [Next]_vars => TableInv'
<1> SUFFICES ASSUME TypeOK, TableInv, [Next]_vars
             PROVE  TableInv'
  OBVIOUS
<1>1. CASE Environment \/ RetryExpires
  BY <1>1, OutsideTheTable
     DEF Environment, Publish, RetryExpires, MainExpires, DlqExpires
<1>2. CASE Deliver
  BY <1>2, OutsideTheTable DEF Deliver, Fail
<1>3. CASE FindPayment
  <2>1. OnePaymentPerOrder' /\ DecisionRespected' /\ payments' = payments /\ job' = job
    BY <1>3 DEF FindPayment, TableInv, tableVars, OnePaymentPerOrder, DecisionRespected
  <2>2. CASE ~ In(payments, job.order) /\ pc' = "insert"
    BY <2>1, <2>2 DEF TableInv, HandlerInv, In
  <2>3. ASSUME NEW i \in DOMAIN payments, payments[i].order = job.order,
               IF payments[i].status # "pending"
               THEN pc' = "ack" /\ row' = NoRow
               ELSE pc' = "gateway" /\ row' = i
        PROVE  HandlerInv'
    <3>1. payments[i].status \in {"pending"} \cup Final
      BY RowType
    <3>2. CASE payments[i].status = "pending"
      BY <2>1, <2>3, <3>2 DEF HandlerInv
    <3>3. CASE payments[i].status \in Final
      <4>1. Settled(job.order)'  BY <2>1, <2>3, <3>3 DEF Settled
      <4>2. pc' = "ack"  BY <2>3, <3>3 DEF Final
      <4>3. QED  BY <4>1, <4>2 DEF HandlerInv
    <3>4. QED  BY <3>1, <3>2, <3>3
  <2>4. QED  BY <1>3, <2>1, <2>2, <2>3 DEF FindPayment, TableInv
<1>4. CASE InsertPayment
  <2>1. job.order \in Orders  BY <1>4, MessageForms DEF InsertPayment, TypeOK, Working
  <2>2. OnePaymentPerOrder' /\ DecisionRespected'
    BY <1>4, <2>1, InsertKeepsTable DEF InsertPayment, TableInv, HandlerInv
  <2>3. /\ row' \in DOMAIN payments' /\ payments'[row'].order = job.order
        /\ payments'[row'].status = "pending"
    <3>1. row' = Len(payments) + 1 /\ payments' = Inserted(job.order) /\ Len(payments) \in Nat
      BY <1>4 DEF InsertPayment, TypeOK
    <3>2. payments' \in Seq(Row) /\ Len(payments') = Len(payments) + 1
          /\ payments'[row'] = [order |-> job.order, status |-> "pending", txn |-> 0]
      BY <2>1, <3>1, InsertedType
    <3>3. row' \in DOMAIN payments'  BY <3>1, <3>2
    <3>4. QED  BY <3>2, <3>3
  <2>4. QED  BY <1>4, <2>2, <2>3 DEF InsertPayment, TableInv, HandlerInv
<1>5. CASE CallGateway
  <2>1. job.order \in Orders /\ charges[job.order] \in Nat
    BY <1>5, MessageForms DEF CallGateway, TypeOK, Working
  <2>2. /\ payments' = payments /\ job' = job /\ row' = row /\ pc' = "update"
        /\ \A o \in Orders : charges[o] <= charges'[o]
        /\ verdict'.status = GatewayDecision(Amount[job.order])
        /\ verdict'.status = "approved" <=> verdict'.txn > 0
        /\ verdict'.txn <= charges'[job.order]
    <3>1. CASE GatewayDecision(Amount[job.order]) = "approved"
      <4>1. /\ charges' = [charges EXCEPT ![job.order] = charges[job.order] + 1]
            /\ verdict' = [status |-> "approved", txn |-> charges[job.order] + 1]
        BY <1>5, <3>1 DEF CallGateway
      <4>2. QED  BY <1>5, <2>1, <3>1, <4>1 DEF CallGateway, TypeOK
    <3>2. CASE GatewayDecision(Amount[job.order]) # "approved"
      <4>1. /\ charges' = charges
            /\ verdict' = [status |-> GatewayDecision(Amount[job.order]), txn |-> 0]
        BY <1>5, <3>2 DEF CallGateway
      <4>2. QED  BY <1>5, <2>1, <3>2, <4>1 DEF CallGateway, TypeOK
    <3>3. QED  BY <3>1, <3>2
  <2>3. DecisionRespected'
    <3> SUFFICES ASSUME NEW i \in DOMAIN payments
                 PROVE  payments[i].txn <= charges'[payments[i].order]
      BY <2>2 DEF TableInv, DecisionRespected
    <3>1. payments[i].order \in Orders /\ payments[i].txn \in Nat
          /\ payments[i].txn <= charges[payments[i].order]
      BY RowType DEF TableInv, DecisionRespected
    <3>2. charges'[payments[i].order] \in Nat /\ charges[payments[i].order] \in Nat
      BY <1>5, <3>1, TypeStep DEF Next, Handler, TypeOK, TableInv
    <3>3. QED  BY <2>2, <3>1, <3>2
  <2>4. QED  BY <1>5, <2>2, <2>3 DEF CallGateway, TableInv, HandlerInv, OnePaymentPerOrder
<1>6. CASE UpdatePayment
  <2>1. OnePaymentPerOrder' /\ DecisionRespected' /\ Settled(job.order)'
    BY <1>6, UpdateKeepsTable DEF UpdatePayment
  <2>2. QED  BY <1>6, <2>1 DEF UpdatePayment, TableInv, HandlerInv
<1>7. CASE DatabaseError
  <2>1. pc' = "failed" /\ charges' = charges /\ job' = job  BY <1>7 DEF DatabaseError, Fail
  <2>2. CASE payments' = payments  BY <2>1, <2>2, OutsideTheTable DEF tableVars
  <2>3. CASE pc = "insert" /\ payments' = Inserted(job.order)
    <3>1. job.order \in Orders  BY <2>3, MessageForms DEF TypeOK, Working
    <3>2. OnePaymentPerOrder' /\ DecisionRespected'
      BY <2>1, <2>3, <3>1, InsertKeepsTable DEF TableInv, HandlerInv
    <3>3. QED  BY <2>1, <3>2 DEF TableInv, HandlerInv
  <2>4. CASE pc = "update" /\ payments' = Updated
    <3>1. OnePaymentPerOrder' /\ DecisionRespected'  BY <2>1, <2>4, UpdateKeepsTable
    <3>2. QED  BY <2>1, <3>1 DEF TableInv, HandlerInv
  <2>5. QED  BY <1>7, <2>2, <2>3, <2>4 DEF DatabaseError
<1>8. CASE Acknowledge \/ Reject \/ DeadLetter \/ ReplyOnClosedChannel
  BY <1>8, OutsideTheTable DEF Acknowledge, Reject, DeadLetter, ReplyOnClosedChannel
<1>9. CASE LinkLost \/ ReplyLost \/ Crash
  BY <1>9, OutsideTheTable DEF LinkLost, ReplyLost, Crash
<1>10. CASE Start \/ StartWithoutBroker
  BY <1>10, OutsideTheTable DEF Start, StartWithoutBroker
<1>11. CASE UNCHANGED vars
  BY <1>11, OutsideTheTable DEF vars, tableVars, handlerVars
<1>12. QED
  BY <1>1, <1>2, <1>3, <1>4, <1>5, <1>6, <1>7, <1>8, <1>9, <1>10, <1>11
     DEF Next, Handler, Disturbance

\* A row keeps its place and its order; a decided row keeps everything.
LEMMA RowsStay ==
  ASSUME TypeOK, TableInv, [Next]_vars, NEW i \in DOMAIN payments
  PROVE  /\ i \in DOMAIN payments'
         /\ payments'[i].order = payments[i].order
         /\ payments[i].status \in Final => payments'[i] = payments[i]
<1>1. payments \in Seq(Row) /\ i \in 1..Len(payments) /\ Len(payments) \in Nat
  BY DEF TypeOK
<1>2. CASE payments' = payments  BY <1>2
<1>3. CASE pc = "insert" /\ payments' = Inserted(job.order)
  <2>1. job.order \in Orders  BY <1>3, MessageForms DEF TypeOK, Working
  <2>2. payments' \in Seq(Row) /\ Len(payments') = Len(payments) + 1 /\ payments'[i] = payments[i]
    BY <1>1, <1>3, <2>1, InsertedType
  <2>3. QED  BY <1>1, <2>2
<1>4. CASE pc = "update" /\ payments' = Updated
  <2>1. /\ row \in DOMAIN payments /\ verdict.status \in Final /\ verdict.txn \in Nat
        /\ payments[row].status \notin Final
    BY <1>4 DEF TableInv, HandlerInv, TypeOK, Verdict, NoVerdict, GatewayDecision, Final
  <2>2. /\ payments' \in Seq(Row) /\ Len(payments') = Len(payments)
        /\ payments'[row].order = payments[row].order
        /\ i # row => payments'[i] = payments[i]
    BY <1>4, <2>1, UpdatedType
  <2>3. i \in DOMAIN payments'  BY <1>1, <2>2
  <2>4. QED  BY <2>1, <2>2, <2>3
<1>5. QED
  BY <1>2, <1>3, <1>4
     DEF Next, Environment, Handler, Disturbance, vars, tableVars, Publish, RetryExpires,
         MainExpires, DlqExpires, Deliver, FindPayment, InsertPayment, CallGateway,
         UpdatePayment, DatabaseError, Acknowledge, Reject, DeadLetter, LinkLost, ReplyLost,
         ReplyOnClosedChannel, Crash, Start, StartWithoutBroker

\* Hence a decided order stays decided.
LEMMA SettledStays ==
  ASSUME TypeOK, TableInv, [Next]_vars, NEW o, Settled(o)
  PROVE  Settled(o)'
BY RowsStay DEF Settled

-------------------------------------------------------------------------------
(* Nothing is lost silently *)

\* What a queue change means for the orders it holds, for the three queues.
LEMMA QueueChanges ==
  ASSUME TypeOK, NEW q \in Seq(Message), NEW o
  PROVE  /\ \A m : In(Append(q, m), o) <=> In(q, o) \/ m.order = o
         /\ q # <<>> => (In(q, o) <=> Head(q).order = o \/ In(Tail(q), o))
         /\ q # <<>> => Head(q) \in Message
         /\ \A m \in Message : In(<<m>> \o q, o) <=> m.order = o \/ In(q, o)
BY InAppend, InTail, InRequeue, HeadTailProperties

\* Requeueing keeps what the queue held and adds the unacknowledged message.
LEMMA RequeueKeeps ==
  ASSUME TypeOK, Requeue, NEW o, In(main, o) \/ (Unacked /\ job.order = o)
  PROVE  In(main', o)
<1>1. CASE Unacked
  <2>1. job \in Message /\ main \in Seq(Message) /\ main' = <<job>> \o main
    BY <1>1 DEF Unacked, TypeOK, Requeue
  <2>2. QED  BY <2>1, QueueChanges
<1>2. CASE ~ Unacked  BY <1>2 DEF Requeue
<1>3. QED  BY <1>1, <1>2

\* Every step keeps an order that is queued, in hand, decided or dropped so.
LEMMA AccountedStep ==
  ASSUME TypeOK, TableInv, [Next]_vars, NEW o, Held(o) \/ Settled(o) \/ o \in dropped
  PROVE  (Held(o) \/ Settled(o) \/ o \in dropped)'
<1>0. main \in Seq(Message) /\ retry \in Seq(Message) /\ dlq \in Seq(Message)  BY DEF TypeOK
<1>1. CASE Settled(o)  BY <1>1, SettledStays
<1>2. CASE o \in dropped
  BY <1>2 DEF Next, Environment, Handler, Disturbance, vars, brokerVars, Publish, RetryExpires,
         MainExpires, DlqExpires, Deliver, FindPayment, InsertPayment, CallGateway,
         UpdatePayment, DatabaseError, Acknowledge, Reject, DeadLetter, LinkLost, ReplyLost,
         ReplyOnClosedChannel, Crash, Start, StartWithoutBroker
<1>3. CASE Held(o)
  <2>1. CASE \E p \in Orders : Publish(p)
    <3>1. PICK p \in Orders : Publish(p)  BY <2>1
    <3>2. In(main, o) => In(main', o)  BY <1>0, <3>1, QueueChanges DEF Publish
    <3>3. UNCHANGED <<retry, dlq, link, pc, job>>  BY <3>1 DEF Publish, handlerVars
    <3>4. QED  BY <1>3, <3>2, <3>3 DEF Held, Unacked, In
  <2>2. CASE RetryExpires
    <3>1. UNCHANGED <<dlq, link, pc, job>>  BY <2>2 DEF RetryExpires, handlerVars
    <3>2. /\ retry # <<>> /\ retry' = Tail(retry)
          /\ \/ main' = main /\ dropped' = dropped \cup {Head(retry).order}
             \/ main' = Append(main, Head(retry))
      BY <2>2, Zenon DEF RetryExpires
    <3>3. In(main, o) => In(main', o)
      <4>1. CASE main' = main  BY <4>1
      <4>2. CASE main' = Append(main, Head(retry))  BY <1>0, <4>2, QueueChanges
      <4>3. QED  BY <3>2, <4>1, <4>2
    <3>4. In(retry, o) => In(retry', o) \/ In(main', o) \/ o \in dropped'
      <4>1. In(retry, o) => In(retry', o) \/ Head(retry).order = o
        BY <1>0, <3>2, QueueChanges
      <4>2. CASE main' = Append(main, Head(retry))  BY <1>0, <4>1, <4>2, QueueChanges
      <4>3. CASE dropped' = dropped \cup {Head(retry).order}  BY <4>1, <4>3
      <4>4. QED  BY <3>2, <4>2, <4>3
    <3>5. QED  BY <1>3, <3>1, <3>3, <3>4 DEF Held, Unacked, In
  <2>3. CASE MainExpires
    <3>1. UNCHANGED <<dlq, link, pc, job>>  BY <2>3 DEF MainExpires, handlerVars
    <3>2. /\ main # <<>> /\ main' = Tail(main)
          /\ \/ retry' = retry /\ dropped' = dropped \cup {Head(main).order}
             \/ retry' = Append(retry, Expired(Head(main)))
      BY <2>3, Zenon DEF MainExpires
    <3>3. In(retry, o) => In(retry', o)
      <4>1. CASE retry' = retry  BY <4>1
      <4>2. CASE retry' = Append(retry, Expired(Head(main)))  BY <1>0, <4>2, QueueChanges
      <4>3. QED  BY <3>2, <4>1, <4>2
    <3>4. In(main, o) => In(main', o) \/ In(retry', o) \/ o \in dropped'
      <4>1. In(main, o) => In(main', o) \/ Head(main).order = o
        BY <1>0, <3>2, QueueChanges
      <4>2. CASE retry' = Append(retry, Expired(Head(main)))
        <5>1. Expired(Head(main)).order = Head(main).order
          BY <1>0, <3>2, QueueChanges, MessageForms
        <5>2. QED  BY <1>0, <4>1, <4>2, <5>1, QueueChanges
      <4>3. CASE dropped' = dropped \cup {Head(main).order}  BY <4>1, <4>3
      <4>4. QED  BY <3>2, <4>2, <4>3
    <3>5. QED  BY <1>3, <3>1, <3>3, <3>4 DEF Held, Unacked, In
  <2>4. CASE DlqExpires
    <3>1. UNCHANGED <<main, retry, link, pc, job>>  BY <2>4 DEF DlqExpires, handlerVars
    <3>2. In(dlq, o) => In(dlq', o) \/ o \in dropped'
      BY <1>0, <2>4, QueueChanges DEF DlqExpires
    <3>3. QED  BY <1>3, <3>1, <3>2 DEF Held, Unacked, In
  <2>5. CASE Deliver
    <3>1. UNCHANGED <<retry, dlq, link>> /\ link /\ job' = Head(main)  BY <2>5 DEF Deliver
    <3>2. pc' \in Working  BY <2>5 DEF Deliver, Fail, Working
    <3>3. In(main, o) => In(main', o) \/ job'.order = o
      BY <1>0, <2>5, QueueChanges DEF Deliver
    <3>4. ~ Unacked  BY <2>5 DEF Deliver, Unacked, Working
    <3>5. QED  BY <1>3, <3>1, <3>2, <3>3, <3>4 DEF Held, Unacked, In
  <2>6. CASE FindPayment \/ InsertPayment \/ CallGateway \/ UpdatePayment \/ DatabaseError
    <3>1. UNCHANGED <<main, retry, dlq, link, job>> /\ pc' \in Working
      BY <2>6 DEF FindPayment, InsertPayment, CallGateway, UpdatePayment, DatabaseError, Fail,
                  brokerVars, Working
    <3>2. QED  BY <1>3, <3>1 DEF Held, Unacked, In
  <2>7. CASE Acknowledge
    <3>1. UNCHANGED <<main, retry, dlq>>  BY <2>7 DEF Acknowledge, brokerVars
    <3>2. Settled(job.order)  BY <2>7 DEF Acknowledge, TableInv, HandlerInv
    <3>3. CASE job.order = o  BY <3>2, <3>3, SettledStays
    <3>4. CASE job.order # o  BY <1>3, <3>1, <3>4 DEF Held, In
    <3>5. QED  BY <3>3, <3>4
  <2>8. CASE Reject
    <3>1. job \in Message  BY <2>8 DEF Reject, TypeOK, Working
    <3>2. UNCHANGED <<main, dlq>>  BY <2>8 DEF Reject
    <3>3. In(retry, o) \/ job.order = o => In(retry', o)
      BY <1>0, <2>8, <3>1, QueueChanges, MessageForms DEF Reject
    <3>4. QED  BY <1>3, <3>2, <3>3 DEF Held, In
  <2>9. CASE DeadLetter
    <3>1. UNCHANGED <<main, retry>>  BY <2>9 DEF DeadLetter
    <3>2. In(dlq, o) \/ job.order = o => In(dlq', o)
      BY <1>0, <2>9, QueueChanges DEF DeadLetter
    <3>3. QED  BY <1>3, <3>1, <3>2 DEF Held, In
  <2>10. CASE LinkLost \/ ReplyLost \/ Crash
    <3>1. Requeue /\ retry' = retry  BY <2>10 DEF LinkLost, ReplyLost, Crash
    <3>2. In(dlq, o) => In(dlq', o)
      <4>1. dlq' = dlq \/ dlq' = Append(dlq, job)  BY <2>10 DEF LinkLost, ReplyLost, Crash
      <4>2. CASE dlq' = dlq  BY <4>2
      <4>3. CASE dlq' = Append(dlq, job)  BY <1>0, <4>3, QueueChanges
      <4>4. QED  BY <4>1, <4>2, <4>3
    <3>3. In(main, o) \/ (Unacked /\ job.order = o) => In(main', o)  BY <3>1, RequeueKeeps
    <3>4. QED  BY <1>3, <3>1, <3>2, <3>3 DEF Held, In
  <2>11. CASE ReplyOnClosedChannel \/ Start \/ StartWithoutBroker
    <3>1. UNCHANGED <<main, retry, dlq>> /\ ~ Unacked
      BY <2>11 DEF ReplyOnClosedChannel, Start, StartWithoutBroker, brokerVars, Unacked, Working
    <3>2. QED  BY <1>3, <3>1 DEF Held, In
  <2>12. CASE UNCHANGED vars
    BY <1>3, <2>12 DEF vars, Held, Unacked, In
  <2>13. QED
    BY <2>1, <2>2, <2>3, <2>4, <2>5, <2>6, <2>7, <2>8, <2>9, <2>10, <2>11, <2>12
       DEF Next, Environment, Handler, Disturbance
<1>4. QED  BY <1>1, <1>2, <1>3

\* An order is known as sent from the step on that queues its message.
LEMMA SentStep ==
  ASSUME TypeOK, [Next]_vars, NEW o \in sent'
  PROVE  o \in sent \/ Held(o)'
<1> SUFFICES ASSUME o \notin sent PROVE Held(o)'
  OBVIOUS
<1>1. PICK p \in Orders : Publish(p)
  BY DEF Next, Environment, Handler, Disturbance, vars, brokerVars, RetryExpires,
         MainExpires, DlqExpires, Deliver, FindPayment, InsertPayment, CallGateway,
         UpdatePayment, DatabaseError, Acknowledge, Reject, DeadLetter, LinkLost, ReplyLost,
         ReplyOnClosedChannel, Crash, Start, StartWithoutBroker
<1>2. o = p /\ main' = Append(main, Fresh(o))  BY <1>1 DEF Publish
<1>3. In(main', o)  BY <1>1, <1>2, QueueChanges, MessageForms DEF TypeOK
<1>4. QED  BY <1>3 DEF Held, In

\* Every step accounts for every order sent.
LEMMA NoLossStep ==
  ASSUME TypeOK, TableInv, NoSilentLoss, [Next]_vars
  PROVE  NoSilentLoss'
BY SentStep, AccountedStep DEF NoSilentLoss

-------------------------------------------------------------------------------
(* What the retry counts count *)

Messages(q) == {q[i] : i \in DOMAIN q}

\* The messages of a queue after each way it changes.
LEMMA MessagesOf ==
  ASSUME NEW q \in Seq(Message)
  PROVE  /\ Messages(q) \subseteq Message
         /\ \A m : Messages(Append(q, m)) = Messages(q) \cup {m}
         /\ q # <<>> => Head(q) \in Messages(q) /\ Messages(Tail(q)) \subseteq Messages(q)
         /\ \A m \in Message : Messages(<<m>> \o q) = Messages(q) \cup {m}
<1>1. DOMAIN q = 1..Len(q) /\ Len(q) \in Nat /\ \A i \in 1..Len(q) : q[i] \in Message
  OBVIOUS
<1>2. ASSUME NEW m PROVE Messages(Append(q, m)) = Messages(q) \cup {m}
  <2>1. /\ DOMAIN Append(q, m) = 1..Len(q) + 1
        /\ Append(q, m)[Len(q) + 1] = m
        /\ \A i \in 1..Len(q) : Append(q, m)[i] = q[i]
    OBVIOUS
  <2>2. QED  BY <1>1, <2>1 DEF Messages
<1>3. ASSUME q # <<>> PROVE Head(q) \in Messages(q) /\ Messages(Tail(q)) \subseteq Messages(q)
  <2>1. /\ Len(q) > 0 /\ Head(q) = q[1]
        /\ DOMAIN Tail(q) = 1..Len(q) - 1
        /\ \A i \in 1..Len(q) - 1 : Tail(q)[i] = q[i + 1]
    BY <1>3
  <2>2. \A i \in 1..Len(q) - 1 : i + 1 \in 1..Len(q)  BY <1>1
  <2>3. 1 \in 1..Len(q)  BY <1>1, <2>1
  <2>4. QED  BY <1>1, <2>1, <2>2, <2>3 DEF Messages
<1>4. ASSUME NEW m \in Message PROVE Messages(<<m>> \o q) = Messages(q) \cup {m}
  <2> DEFINE s == <<m>> \o q
  <2>1. /\ s \in Seq(Message) /\ Len(s) = Len(q) + 1 /\ s[1] = m
        /\ \A i \in 1..Len(q) : s[i + 1] = q[i]
    BY <1>1, ConcatProperties
  <2>2. DOMAIN s = 1..Len(q) + 1  BY <2>1
  <2> HIDE DEF s
  <2>3. ASSUME NEW i \in 1..Len(q) + 1 PROVE s[i] \in Messages(q) \cup {m}
    <3>1. CASE i = 1  BY <2>1, <3>1
    <3>2. CASE i # 1
      <4>1. i - 1 \in 1..Len(q) /\ s[(i - 1) + 1] = q[i - 1] /\ (i - 1) + 1 = i
        BY <1>1, <2>1, <3>2
      <4>2. QED  BY <1>1, <4>1 DEF Messages
    <3>3. QED  BY <3>1, <3>2
  <2>4. \A i \in 1..Len(q) : i + 1 \in 1..Len(q) + 1  BY <1>1
  <2>5. 1 \in 1..Len(q) + 1  BY <1>1
  <2>6. Messages(s) = Messages(q) \cup {m}
    BY <1>1, <2>1, <2>2, <2>3, <2>4, <2>5 DEF Messages
  <2>7. QED  BY <2>6 DEF s
<1>5. Messages(q) \subseteq Message  BY <1>1 DEF Messages
<1>6. QED  BY <1>2, <1>3, <1>4, <1>5

\* The fields of a message.
LEMMA MessageType ==
  \A m \in Message : m.order \in Orders /\ m.retries \in 0..MaxRetries /\ m.retries \in Nat
BY PipelineAssumption DEF Message

\* Where a message of the main or the retry queue comes from: it was in one of
\* them, the broker took it back from the worker, checkout-service published
\* it, or the worker rejected it.
Kept(m) == \E n \in Messages(main) \cup Messages(retry) : n.order = m.order /\ n.retries = m.retries
Returned(m)  == Unacked /\ m = job /\ ~ link' /\ breaks' = breaks + 1 /\ failures' = failures
                /\ pc' \in {pc, "idle", "down"} /\ job.order = m.order
Published(m) == m.order \in sent' \ sent /\ m.retries = 0 /\ failures' = failures
                /\ UNCHANGED <<link, pc, job, breaks>>
Delayed(m)   == Unacked /\ pc = "failed" /\ pc' = "idle" /\ m.order = job.order
                /\ m.retries = job.retries + 1 /\ UNCHANGED <<link, breaks, failures>>

\* Every message of a step's end is one of its start, one that is sent, or one that moved.
LEMMA Provenance ==
  ASSUME TypeOK, [Next]_vars, NEW m \in Messages(main') \cup Messages(retry')
  PROVE  Kept(m) \/ Returned(m) \/ Published(m) \/ Delayed(m)
<1>0. main \in Seq(Message) /\ retry \in Seq(Message)  BY DEF TypeOK
<1>1. CASE \E o \in Orders : Publish(o)
  <2>1. PICK o \in Orders : Publish(o)  BY <1>1
  <2>2. /\ o \notin sent /\ o \in sent' /\ main' = Append(main, Fresh(o))
        /\ UNCHANGED <<retry, link, pc, job, breaks, failures>>
    BY <2>1 DEF Publish, handlerVars, boundVars
  <2>3. m \in Messages(main) \cup Messages(retry) \cup {Fresh(o)}  BY <1>0, <2>2, MessagesOf
  <2>4. CASE m = Fresh(o)
    <3>1. m.order = o /\ m.retries = 0  BY <2>4 DEF Fresh
    <3>2. QED  BY <2>2, <3>1 DEF Published
  <2>5. CASE m # Fresh(o)  BY <2>3, <2>5 DEF Kept
  <2>6. QED  BY <2>4, <2>5
<1>2. CASE RetryExpires
  <2>1. /\ retry # <<>> /\ retry' = Tail(retry)
        /\ main' = main \/ main' = Append(main, Head(retry))
    BY <1>2, Zenon DEF RetryExpires
  <2>2. Messages(retry') \subseteq Messages(retry) /\ Head(retry) \in Messages(retry)
    BY <1>0, <2>1, MessagesOf
  <2>3. Messages(main') \subseteq Messages(main) \cup {Head(retry)}
    <3>1. CASE main' = main  BY <3>1
    <3>2. CASE main' = Append(main, Head(retry))  BY <1>0, <3>2, MessagesOf
    <3>3. QED  BY <2>1, <3>1, <3>2
  <2>4. QED  BY <2>2, <2>3 DEF Kept
<1>3. CASE MainExpires
  <2>1. /\ main # <<>> /\ main' = Tail(main)
        /\ retry' = retry \/ retry' = Append(retry, Expired(Head(main)))
    BY <1>3, Zenon DEF MainExpires
  <2>2. /\ Messages(main') \subseteq Messages(main)
        /\ Messages(retry') \subseteq Messages(retry) \cup {Expired(Head(main))}
    <3>1. CASE retry' = retry  BY <1>0, <2>1, <3>1, MessagesOf
    <3>2. CASE retry' = Append(retry, Expired(Head(main)))  BY <1>0, <2>1, <3>2, MessagesOf
    <3>3. QED  BY <2>1, <3>1, <3>2
  <2>3. Head(main) \in Messages(main) /\ Expired(Head(main)).order = Head(main).order
        /\ Expired(Head(main)).retries = Head(main).retries
    BY <1>0, <2>1, MessagesOf DEF Expired
  <2>4. QED  BY <2>2, <2>3 DEF Kept
<1>4. CASE Deliver
  <2>1. main # <<>> /\ main' = Tail(main) /\ retry' = retry  BY <1>4 DEF Deliver
  <2>2. m \in Messages(main) \cup Messages(retry)  BY <1>0, <2>1, MessagesOf
  <2>3. QED  BY <2>2 DEF Kept
<1>5. CASE Reject
  <2>1. /\ retry' = Append(retry, Rejected(job)) /\ Unacked /\ pc = "failed" /\ pc' = "idle"
        /\ UNCHANGED <<main, link, breaks, failures>>
    BY <1>5 DEF Reject, boundVars, Unacked, Working
  <2>2. m \in Messages(main) \cup Messages(retry) \cup {Rejected(job)}  BY <1>0, <2>1, MessagesOf
  <2>3. CASE m = Rejected(job)
    <3>1. m.order = job.order /\ m.retries = job.retries + 1  BY <2>3 DEF Rejected
    <3>2. QED  BY <2>1, <3>1 DEF Delayed
  <2>4. CASE m # Rejected(job)  BY <2>2, <2>4 DEF Kept
  <2>5. QED  BY <2>3, <2>4
<1>6. CASE LinkLost \/ ReplyLost \/ Crash
  <2>1. /\ Requeue /\ ~ link' /\ breaks' = breaks + 1 /\ failures' = failures /\ retry' = retry
        /\ pc' \in {pc, "idle", "down"}
    BY <1>6 DEF LinkLost, ReplyLost, Crash
  <2>2. CASE Unacked
    <3>1. main' = <<job>> \o main /\ job \in Message  BY <2>1, <2>2 DEF Requeue, Unacked, TypeOK
    <3>2. m \in Messages(main) \cup Messages(retry) \cup {job}  BY <1>0, <2>1, <3>1, MessagesOf
    <3>3. CASE m = job  BY <2>1, <2>2, <3>3 DEF Returned
    <3>4. CASE m # job  BY <3>2, <3>4 DEF Kept
    <3>5. QED  BY <3>3, <3>4
  <2>3. CASE ~ Unacked  BY <2>1, <2>3 DEF Requeue, Kept
  <2>4. QED  BY <2>2, <2>3
<1>7. CASE UNCHANGED <<main, retry>>  BY <1>7 DEF Kept
<1>8. QED
  BY <1>1, <1>2, <1>3, <1>4, <1>5, <1>6, <1>7
     DEF Next, Environment, Handler, Disturbance, vars, brokerVars, DlqExpires, FindPayment,
         InsertPayment, CallGateway, UpdatePayment, DatabaseError, Acknowledge, DeadLetter,
         ReplyOnClosedChannel, Start, StartWithoutBroker
\* The message in hand is the one of the step before, or the head of the main
\* queue; and nobody comes to fail, or to hold an unacknowledged message, but so.
LEMMA HandStep ==
  ASSUME TypeOK, [Next]_vars, pc' \in Working
  PROVE  \/ pc \in Working /\ job' = job /\ (link' => link) /\ (pc = "failed" => pc' = "failed")
         \/ job' \in Messages(main) /\ pc = "idle" /\ link /\ link'
<1>0. main \in Seq(Message)  BY DEF TypeOK
<1>1. CASE Deliver
  BY <1>0, <1>1, MessagesOf DEF Deliver
<1>2. CASE FindPayment \/ InsertPayment \/ CallGateway \/ UpdatePayment \/ DatabaseError
  BY <1>2 DEF FindPayment, InsertPayment, CallGateway, UpdatePayment, DatabaseError, Working
<1>3. CASE Environment \/ RetryExpires \/ LinkLost \/ UNCHANGED vars
  BY <1>3 DEF Environment, Publish, MainExpires, DlqExpires, RetryExpires, LinkLost, handlerVars, vars
<1>4. CASE Acknowledge \/ Reject \/ DeadLetter \/ ReplyOnClosedChannel \/ ReplyLost \/ Crash
           \/ Start \/ StartWithoutBroker
  BY <1>4 DEF Acknowledge, Reject, DeadLetter, ReplyOnClosedChannel, ReplyLost, Crash, Start,
              StartWithoutBroker, Working
<1>5. QED  BY <1>1, <1>2, <1>3, <1>4 DEF Next, Handler, Disturbance

\* A step fails at most one attempt, of the message it ends with in hand: by a
\* database error, or because the message just delivered is not valid.
FailsInHand ==
  /\ pc' = "failed" /\ job' \in Message
  /\ failures' = [failures EXCEPT ![job'.order] = failures[job'.order] + 1]
  /\ UNCHANGED <<link, breaks, dlq>>
  /\ \/ job' = job /\ pc \in {"find", "insert", "update"} /\ faults' = faults + 1
     \/ job' \in Messages(main) /\ link /\ pc = "idle" /\ ~ ValidMessage(job'.order)
          /\ faults' = faults

\* A step counts a failure only for the message in hand.
LEMMA FailuresStep ==
  ASSUME TypeOK, [Next]_vars
  PROVE  \/ FailsInHand
         \/ failures' = failures /\ faults' = faults
              /\ (pc' = "failed" => pc = "failed" /\ job' = job)
<1>0. main \in Seq(Message)  BY DEF TypeOK
<1>1. CASE Deliver
  <2>1. /\ job' = Head(main) /\ Head(main) \in Messages(main) /\ Head(main) \in Message
        /\ link /\ pc = "idle" /\ UNCHANGED <<link, dlq, breaks, faults>>
    BY <1>0, <1>1, MessagesOf DEF Deliver, boundVars
  <2>2. CASE ValidMessage(Head(main).order)
    <3>1. pc' = "find" /\ failures' = failures  BY <1>1, <2>2 DEF Deliver
    <3>2. QED  BY <2>1, <3>1
  <2>3. CASE ~ ValidMessage(Head(main).order)
    <3>1. Fail(Head(main))  BY <1>1, <2>3 DEF Deliver
    <3>2. QED  BY <2>1, <2>3, <3>1 DEF Fail, FailsInHand
  <2>4. QED  BY <2>2, <2>3
<1>2. CASE DatabaseError
  <2>1. /\ Fail(job) /\ job \in Message /\ job' = job /\ pc \in {"find", "insert", "update"}
        /\ faults' = faults + 1 /\ UNCHANGED <<link, dlq, breaks>>
    BY <1>2 DEF DatabaseError, TypeOK, Working, brokerVars
  <2>2. QED  BY <2>1 DEF Fail, FailsInHand
<1>3. CASE FindPayment \/ InsertPayment \/ CallGateway \/ UpdatePayment
  BY <1>3 DEF FindPayment, InsertPayment, CallGateway, UpdatePayment, boundVars
<1>4. CASE Environment \/ RetryExpires \/ LinkLost \/ UNCHANGED vars
  BY <1>4 DEF Environment, Publish, MainExpires, DlqExpires, RetryExpires, LinkLost, handlerVars,
              boundVars, vars
<1>5. CASE Acknowledge \/ Reject \/ DeadLetter \/ ReplyOnClosedChannel \/ ReplyLost \/ Crash
           \/ Start \/ StartWithoutBroker
  BY <1>5 DEF Acknowledge, Reject, DeadLetter, ReplyOnClosedChannel, ReplyLost, Crash, Start,
              StartWithoutBroker, boundVars
<1>6. QED  BY <1>1, <1>2, <1>3, <1>4, <1>5 DEF Next, Handler, Disturbance

\* Failures are never forgotten.
LEMMA FailuresGrow ==
  ASSUME TypeOK, [Next]_vars, NEW o \in Orders
  PROVE  failures[o] \in Nat /\ failures'[o] \in Nat /\ failures[o] <= failures'[o]
<1>1. failures \in [Orders -> Nat]  BY DEF TypeOK
<1>2. CASE failures' = failures  BY <1>1, <1>2
<1>3. CASE FailsInHand
  <2>1. job'.order \in Orders  BY <1>3, MessageType DEF FailsInHand
  <2>2. QED  BY <1>1, <1>3, <2>1 DEF FailsInHand
<1>4. QED  BY <1>2, <1>3, FailuresStep

\* A message is delayed at most once for each failure of its order, and the
\* one in hand after a failed attempt was delayed less often than its order
\* failed; the dead letter queue then holds messages that failed once more than
\* they may be delayed.
CountInv ==
  /\ \A m \in Messages(main) \cup Messages(retry) : m.retries <= failures[m.order]
  /\ pc \in Working => job.retries <= failures[job.order]
  /\ pc = "failed" => job.retries < failures[job.order]
  /\ DlqMeansExhausted
  /\ \A o \in Orders : ValidMessage(o) => failures[o] <= faults

\* Every step keeps what the retry counts count.
LEMMA CountStep == TypeOK /\ TypeOK' /\ CountInv /\ [Next]_vars => CountInv'
<1> SUFFICES ASSUME TypeOK, TypeOK', CountInv, [Next]_vars
             PROVE  CountInv'
  OBVIOUS
<1>0. /\ main \in Seq(Message) /\ retry \in Seq(Message) /\ dlq \in Seq(Message)
      /\ Messages(main) \cup Messages(retry) \subseteq Message
      /\ pc \in Working => job \in Message
  BY MessagesOf DEF TypeOK
<1>1. ASSUME NEW m \in Messages(main') \cup Messages(retry')
      PROVE  m.retries <= failures'[m.order]
  <2>1. CASE Kept(m)
    <3>1. PICK n \in Messages(main) \cup Messages(retry) : n.order = m.order /\ n.retries = m.retries
      BY <2>1 DEF Kept
    <3>2. n \in Message /\ n.retries <= failures[n.order]  BY <1>0, <3>1 DEF CountInv
    <3>3. QED  BY <3>1, <3>2, MessageType, FailuresGrow
  <2>2. CASE Returned(m)
    BY <2>2 DEF Returned, Unacked, CountInv
  <2>3. CASE Published(m)
    <3>1. m.order \in Orders /\ m.retries = 0
      BY <1>1, <2>3, MessagesOf, MessageType DEF Published, TypeOK
    <3>2. QED  BY <3>1, FailuresGrow
  <2>4. CASE Delayed(m)
    <3>1. /\ job \in Message /\ job.retries < failures[job.order] /\ m.order = job.order
          /\ m.retries = job.retries + 1 /\ failures' = failures
      BY <1>0, <2>4 DEF Delayed, Unacked, CountInv
    <3>2. job.retries \in Nat /\ failures[job.order] \in Nat  BY <3>1, MessageType DEF TypeOK
    <3>3. QED  BY <3>1, <3>2
  <2>5. QED  BY <1>1, <2>1, <2>2, <2>3, <2>4, Provenance
<1>2. ASSUME pc' \in Working PROVE job'.retries <= failures'[job'.order]
  <2>1. job' \in Message /\ job'.retries <= failures[job'.order]
    BY <1>0, <1>2, HandStep DEF CountInv
  <2>2. QED  BY <2>1, MessageType, FailuresGrow
<1>3. ASSUME pc' = "failed" PROVE job'.retries < failures'[job'.order]
  <2>1. CASE FailsInHand
    <3>1. /\ job' \in Message /\ job'.order \in Orders
          /\ failures'[job'.order] = failures[job'.order] + 1
      BY <2>1, MessageType DEF FailsInHand, TypeOK
    <3>2. job'.retries <= failures[job'.order]
      BY <1>0, <2>1 DEF FailsInHand, CountInv, Working
    <3>3. job'.retries \in Nat /\ failures[job'.order] \in Nat  BY <3>1, MessageType DEF TypeOK
    <3>4. QED  BY <3>1, <3>2, <3>3
  <2>2. CASE failures' = failures /\ pc = "failed" /\ job' = job
    BY <2>2 DEF CountInv
  <2>3. QED  BY <1>3, <2>1, <2>2, FailuresStep
<1>4. DlqMeansExhausted'
  <2>1. \A m \in Messages(dlq) : m \in Message /\ m.retries = MaxRetries
                                 /\ failures[m.order] > MaxRetries
    BY <1>0, MessagesOf DEF CountInv, DlqMeansExhausted, Messages
  <2>2. Messages(dlq') \subseteq Messages(dlq) \cup
          {m \in {job} : pc = "failed" /\ job.retries >= MaxRetries}
    <3>1. CASE dlq' = dlq  BY <3>1
    <3>2. CASE dlq # <<>> /\ dlq' = Tail(dlq)  BY <1>0, <3>2, MessagesOf
    <3>3. CASE pc = "failed" /\ job.retries >= MaxRetries /\ dlq' = Append(dlq, job)
      BY <1>0, <3>3, MessagesOf
    <3>4. QED
      BY <3>1, <3>2, <3>3
         DEF Next, Environment, Handler, Disturbance, vars, brokerVars, Publish, RetryExpires,
             MainExpires, DlqExpires, Deliver, FindPayment, InsertPayment, CallGateway,
             UpdatePayment, DatabaseError, Acknowledge, Reject, DeadLetter, LinkLost, ReplyLost,
             ReplyOnClosedChannel, Crash, Start, StartWithoutBroker
  <2>3. ASSUME NEW m \in Messages(dlq')
        PROVE  m.retries = MaxRetries /\ failures'[m.order] > MaxRetries
    <3>1. CASE m \in Messages(dlq)
      <4>1. /\ m.order \in Orders /\ m.retries = MaxRetries /\ failures[m.order] > MaxRetries
            /\ failures[m.order] <= failures'[m.order]
            /\ failures[m.order] \in Nat /\ failures'[m.order] \in Nat /\ MaxRetries \in Nat
        BY <2>1, <3>1, MessageType, FailuresGrow, PipelineAssumption
      <4>2. QED  BY <4>1
    <3>2. CASE m = job /\ pc = "failed" /\ job.retries >= MaxRetries
      <4>1. /\ job \in Message /\ job.order \in Orders /\ job.retries \in 0..MaxRetries
            /\ job.retries < failures[job.order]
            /\ failures[job.order] <= failures'[job.order]
            /\ failures[job.order] \in Nat /\ failures'[job.order] \in Nat
        BY <1>0, <3>2, MessageType, FailuresGrow DEF CountInv, Working
      <4>2. QED  BY <3>2, <4>1, PipelineAssumption
    <3>3. QED  BY <2>2, <2>3, <3>1, <3>2
  <2>4. QED  BY <2>3 DEF DlqMeansExhausted, Messages
<1>5. ASSUME NEW o \in Orders, ValidMessage(o) PROVE failures'[o] <= faults'
  <2>1. failures \in [Orders -> Nat] /\ faults \in Nat /\ failures[o] <= faults
    BY <1>5, PipelineAssumption DEF TypeOK, CountInv
  <2>2. CASE FailsInHand
    <3>1. job'.order \in Orders  BY <2>2, MessageType DEF FailsInHand
    <3>2. CASE o = job'.order
      <4>1. faults' = faults + 1 /\ failures'[o] = failures[o] + 1
        BY <1>5, <2>1, <2>2, <3>2 DEF FailsInHand
      <4>2. QED  BY <2>1, <4>1
    <3>3. CASE o # job'.order
      <4>1. faults' \in {faults, faults + 1} /\ failures'[o] = failures[o]
        BY <2>1, <2>2, <3>1, <3>3 DEF FailsInHand
      <4>2. QED  BY <2>1, <4>1
    <3>4. QED  BY <3>2, <3>3
  <2>3. CASE failures' = failures /\ faults' = faults  BY <2>1, <2>3
  <2>4. QED  BY <2>2, <2>3, FailuresStep
<1>6. \A o \in Orders : ValidMessage(o)' = ValidMessage(o)  BY DEF ValidMessage
<1>7. QED  BY <1>1, <1>2, <1>3, <1>4, <1>5, <1>6 DEF CountInv

-------------------------------------------------------------------------------
(* How often an order is tried *)

OncePerOrder(q) == \A i, j \in DOMAIN q : q[i].order = q[j].order => i = j

\* A queue with one message of each order keeps that when a message leaves, or
\* when one of an order it does not hold comes.
LEMMA OnceChanges ==
  ASSUME NEW q \in Seq(Message), OncePerOrder(q)
  PROVE  /\ \A m : ~ In(q, m.order) => OncePerOrder(Append(q, m))
         /\ q # <<>> => OncePerOrder(Tail(q)) /\ ~ In(Tail(q), Head(q).order)
         /\ \A m \in Message : ~ In(q, m.order) => OncePerOrder(<<m>> \o q)
<1>1. DOMAIN q = 1..Len(q) /\ Len(q) \in Nat
  OBVIOUS
<1>2. ASSUME NEW m, ~ In(q, m.order) PROVE OncePerOrder(Append(q, m))
  <2>1. /\ DOMAIN Append(q, m) = 1..Len(q) + 1
        /\ Append(q, m)[Len(q) + 1] = m
        /\ \A i \in 1..Len(q) : Append(q, m)[i] = q[i]
    OBVIOUS
  <2>2. \A i \in 1..Len(q) : q[i].order # m.order  BY <1>1, <1>2 DEF In
  <2>3. \A i \in 1..Len(q) + 1 : i \in 1..Len(q) \/ i = Len(q) + 1  BY <1>1
  <2>4. QED  BY <1>1, <2>1, <2>2, <2>3 DEF OncePerOrder
<1>3. ASSUME q # <<>> PROVE OncePerOrder(Tail(q)) /\ ~ In(Tail(q), Head(q).order)
  <2>1. /\ Len(q) > 0 /\ Head(q) = q[1]
        /\ DOMAIN Tail(q) = 1..Len(q) - 1
        /\ \A i \in 1..Len(q) - 1 : Tail(q)[i] = q[i + 1]
    BY <1>3
  <2>2. 1 \in 1..Len(q) /\ \A i \in 1..Len(q) - 1 : i + 1 \in 1..Len(q) /\ i + 1 # 1
    BY <1>1, <2>1
  <2>3. ~ In(Tail(q), Head(q).order)  BY <1>1, <2>1, <2>2 DEF OncePerOrder, In
  <2>4. ASSUME NEW i \in 1..Len(q) - 1, NEW j \in 1..Len(q) - 1,
               Tail(q)[i].order = Tail(q)[j].order
        PROVE  i = j
    <3>1. i + 1 = j + 1  BY <1>1, <2>1, <2>2, <2>4 DEF OncePerOrder
    <3>2. QED  BY <3>1
  <2>5. QED  BY <2>1, <2>3, <2>4 DEF OncePerOrder
<1>4. ASSUME NEW m \in Message, ~ In(q, m.order) PROVE OncePerOrder(<<m>> \o q)
  <2> DEFINE s == <<m>> \o q
  <2>1. /\ s \in Seq(Message) /\ Len(s) = Len(q) + 1 /\ s[1] = m
        /\ \A i \in 1..Len(q) : s[i + 1] = q[i]
    BY <1>1, ConcatProperties
  <2>2. DOMAIN s = 1..Len(q) + 1  BY <2>1
  <2> HIDE DEF s
  <2>3. \A i \in 1..Len(q) + 1 : i = 1 \/ (i - 1 \in 1..Len(q) /\ s[i] = q[i - 1])
    <3>1. ASSUME NEW i \in 1..Len(q) + 1, i # 1 PROVE i - 1 \in 1..Len(q) /\ s[i] = q[i - 1]
      <4>1. i - 1 \in 1..Len(q) /\ (i - 1) + 1 = i  BY <1>1, <3>1
      <4>2. QED  BY <2>1, <4>1
    <3>2. QED  BY <3>1
  <2>4. \A i \in 1..Len(q) : q[i].order # m.order  BY <1>1, <1>4 DEF In
  <2>5. ASSUME NEW i \in 1..Len(q) + 1, NEW j \in 1..Len(q) + 1, s[i].order = s[j].order
        PROVE  i = j
    <3>1. CASE i = 1 \/ j = 1  BY <2>1, <2>3, <2>4, <2>5, <3>1
    <3>2. CASE i # 1 /\ j # 1
      <4>1. i - 1 = j - 1  BY <1>1, <2>3, <2>5, <3>2 DEF OncePerOrder
      <4>2. QED  BY <4>1
    <3>3. QED  BY <3>1, <3>2
  <2>6. OncePerOrder(s)  BY <2>2, <2>5 DEF OncePerOrder
  <2>7. QED  BY <2>6 DEF s
<1>5. QED  BY <1>2, <1>3, <1>4

\* Outside the dead letter queue every order has one message at most: in the
\* main queue, in the retry queue, or unacknowledged.
OneLive ==
  /\ OncePerOrder(main) /\ OncePerOrder(retry)
  /\ \A o \in Orders : ~ (In(main, o) /\ In(retry, o))
  /\ Unacked => ~ In(main, job.order) /\ ~ In(retry, job.order)

\* An order that was not published has no message and no attempt.
Unknown ==
  \A o \in Orders \ sent :
    /\ ~ In(main, o) /\ ~ In(retry, o) /\ failures[o] = 0
    /\ pc \in Working => job.order # o

\* The queues, the link and the place of the worker stay, or the worker only
\* goes on, with the message it has or without one.
LEMMA LiveKept ==
  ASSUME OneLive, UNCHANGED <<main, retry>>, Unacked' => Unacked /\ job' = job
  PROVE  OneLive'
BY DEF OneLive, OncePerOrder, In

\* Every step keeps orders sent once in one place.
LEMMA OneLiveStep == TypeOK /\ OneLive /\ Unknown /\ [Next]_vars => OneLive'
<1> SUFFICES ASSUME TypeOK, OneLive, Unknown, [Next]_vars
             PROVE  OneLive'
  OBVIOUS
<1>0. /\ main \in Seq(Message) /\ retry \in Seq(Message)
      /\ OncePerOrder(main) /\ OncePerOrder(retry)
      /\ \A o \in Orders : ~ (In(main, o) /\ In(retry, o))
      /\ Unacked => ~ In(main, job.order) /\ ~ In(retry, job.order) /\ job \in Message
      /\ \A m \in Message : m.order \in Orders
  BY MessageType DEF TypeOK, OneLive, Unacked
<1>1. CASE \E o \in Orders : Publish(o)
  <2>1. PICK o \in Orders : Publish(o)  BY <1>1
  <2>2. /\ main' = Append(main, Fresh(o)) /\ Fresh(o).order = o
        /\ UNCHANGED <<retry, link, pc, job>>
        /\ ~ In(main, o) /\ ~ In(retry, o) /\ (pc \in Working => job.order # o)
    BY <2>1 DEF Publish, handlerVars, Unknown, Fresh
  <2>3. OncePerOrder(main') /\ \A p : In(main', p) <=> In(main, p) \/ p = o
    BY <1>0, <2>2, OnceChanges, QueueChanges
  <2>4. retry' = retry /\ Unacked' = Unacked /\ job' = job  BY <2>2 DEF Unacked
  <2>5. QED  BY <1>0, <2>2, <2>3, <2>4 DEF OneLive, OncePerOrder, In, Unacked
<1>2. CASE RetryExpires
  <2>1. /\ retry # <<>> /\ retry' = Tail(retry)
        /\ main' = main \/ main' = Append(main, Head(retry))
        /\ UNCHANGED <<link, pc, job>>
    BY <1>2, Zenon DEF RetryExpires, handlerVars
  <2> DEFINE o == Head(retry).order
  <2>2. /\ OncePerOrder(retry') /\ ~ In(retry', o) /\ o \in Orders
        /\ \A p : In(retry, p) <=> p = o \/ In(retry', p)
    BY <1>0, <2>1, OnceChanges, QueueChanges
  <2>3. ~ In(main, o)  BY <1>0, <2>2
  <2>4. OncePerOrder(main') /\ \A p : In(main', p) => In(main, p) \/ p = o
    <3>1. CASE main' = main  BY <1>0, <3>1
    <3>2. CASE main' = Append(main, Head(retry))
      BY <1>0, <2>3, <3>2, OnceChanges, QueueChanges
    <3>3. QED  BY <2>1, <3>1, <3>2
  <2>5. Unacked' = Unacked /\ job' = job  BY <2>1 DEF Unacked
  <2> HIDE DEF o
  <2>6. /\ \A p \in Orders : ~ (In(main', p) /\ In(retry', p))
        /\ Unacked' => ~ In(main', job'.order) /\ ~ In(retry', job'.order)
    BY <1>0, <2>2, <2>4, <2>5
  <2>7. QED  BY <2>2, <2>4, <2>6 DEF OneLive, OncePerOrder, In
<1>3. CASE MainExpires
  <2>1. /\ main # <<>> /\ main' = Tail(main)
        /\ retry' = retry \/ retry' = Append(retry, Expired(Head(main)))
        /\ UNCHANGED <<link, pc, job>>
    BY <1>3, Zenon DEF MainExpires, handlerVars
  <2> DEFINE o == Head(main).order
  <2>2. /\ OncePerOrder(main') /\ ~ In(main', o) /\ o \in Orders /\ Expired(Head(main)).order = o
        /\ \A p : In(main, p) <=> p = o \/ In(main', p)
    BY <1>0, <2>1, OnceChanges, QueueChanges DEF Expired
  <2>3. ~ In(retry, o)  BY <1>0, <2>2
  <2>4. OncePerOrder(retry') /\ \A p : In(retry', p) => In(retry, p) \/ p = o
    <3>1. CASE retry' = retry  BY <1>0, <3>1
    <3>2. CASE retry' = Append(retry, Expired(Head(main)))
      BY <1>0, <2>2, <2>3, <3>2, OnceChanges, QueueChanges
    <3>3. QED  BY <2>1, <3>1, <3>2
  <2>5. Unacked' = Unacked /\ job' = job  BY <2>1 DEF Unacked
  <2> HIDE DEF o
  <2>6. /\ \A p \in Orders : ~ (In(main', p) /\ In(retry', p))
        /\ Unacked' => ~ In(main', job'.order) /\ ~ In(retry', job'.order)
    BY <1>0, <2>2, <2>4, <2>5
  <2>7. QED  BY <2>2, <2>4, <2>6 DEF OneLive, OncePerOrder, In
<1>4. CASE Deliver
  <2>1. main # <<>> /\ main' = Tail(main) /\ retry' = retry /\ job' = Head(main)
    BY <1>4 DEF Deliver
  <2>2. /\ OncePerOrder(main') /\ ~ In(main', job'.order) /\ job'.order \in Orders
        /\ \A p : In(main, p) <=> p = job'.order \/ In(main', p)
    BY <1>0, <2>1, OnceChanges, QueueChanges
  <2>3. /\ \A p \in Orders : ~ (In(main', p) /\ In(retry', p))
        /\ ~ In(retry', job'.order)
    BY <1>0, <2>1, <2>2
  <2>4. OncePerOrder(retry')  BY <1>0, <2>1
  <2>5. QED  BY <2>2, <2>3, <2>4 DEF OneLive, OncePerOrder, In
<1>5. CASE Reject
  <2>1. /\ retry' = Append(retry, Rejected(job)) /\ Unacked /\ ~ Unacked' /\ main' = main
        /\ Rejected(job).order = job.order
    BY <1>5 DEF Reject, Unacked, Working, Rejected
  <2>2. OncePerOrder(retry') /\ \A p : In(retry', p) <=> In(retry, p) \/ p = job.order
    BY <1>0, <2>1, OnceChanges, QueueChanges
  <2>3. \A p \in Orders : ~ (In(main', p) /\ In(retry', p))
    BY <1>0, <2>1, <2>2
  <2>4. OncePerOrder(main')  BY <1>0, <2>1
  <2>5. QED  BY <2>1, <2>2, <2>3, <2>4 DEF OneLive, OncePerOrder, In
<1>6. CASE LinkLost \/ ReplyLost \/ Crash
  <2>1. Requeue /\ retry' = retry /\ ~ Unacked'
    BY <1>6 DEF LinkLost, ReplyLost, Crash, Unacked
  <2>2. CASE Unacked
    <3>1. main' = <<job>> \o main  BY <2>1, <2>2 DEF Requeue
    <3>2. OncePerOrder(main') /\ \A p : In(main', p) <=> p = job.order \/ In(main, p)
      BY <1>0, <2>2, <3>1, OnceChanges, QueueChanges
    <3>3. \A p \in Orders : ~ (In(main', p) /\ In(retry', p))
      BY <1>0, <2>1, <2>2, <3>2
    <3>4. OncePerOrder(retry')  BY <1>0, <2>1
    <3>5. QED  BY <2>1, <3>2, <3>3, <3>4 DEF OneLive, OncePerOrder, In
  <2>3. CASE ~ Unacked  BY <2>1, <2>3, LiveKept DEF Requeue
  <2>4. QED  BY <2>2, <2>3
<1>7. CASE FindPayment \/ InsertPayment \/ CallGateway \/ UpdatePayment \/ DatabaseError
  <2>1. UNCHANGED <<main, retry, link, job>> /\ pc \in Working
    BY <1>7 DEF FindPayment, InsertPayment, CallGateway, UpdatePayment, DatabaseError, brokerVars,
                Working
  <2>2. QED  BY <2>1, LiveKept DEF Unacked
<1>8. CASE DlqExpires \/ Acknowledge \/ DeadLetter \/ ReplyOnClosedChannel \/ Start
           \/ StartWithoutBroker \/ UNCHANGED vars
  <2>1. UNCHANGED <<main, retry>> /\ (Unacked' => Unacked /\ job' = job)
    BY <1>8 DEF DlqExpires, Acknowledge, DeadLetter, ReplyOnClosedChannel, Start,
                StartWithoutBroker, brokerVars, handlerVars, vars, Unacked, Working
  <2>2. QED  BY <2>1, LiveKept
<1>9. QED
  BY <1>1, <1>2, <1>3, <1>4, <1>5, <1>6, <1>7, <1>8
     DEF Next, Environment, Handler, Disturbance

\* An order that was not sent is nowhere.
LEMMA UnknownStep == TypeOK /\ Unknown /\ [Next]_vars => Unknown'
<1> SUFFICES ASSUME TypeOK, Unknown, [Next]_vars, NEW o \in Orders, o \notin sent'
             PROVE  /\ ~ In(main', o) /\ ~ In(retry', o) /\ failures'[o] = 0
                    /\ pc' \in Working => job'.order # o
  BY DEF Unknown
<1>1. o \notin sent
  BY DEF Next, Environment, Handler, Disturbance, vars, brokerVars, Publish, RetryExpires,
         MainExpires, DlqExpires, Deliver, FindPayment, InsertPayment, CallGateway,
         UpdatePayment, DatabaseError, Acknowledge, Reject, DeadLetter, LinkLost, ReplyLost,
         ReplyOnClosedChannel, Crash, Start, StartWithoutBroker
<1>2. /\ \A m \in Messages(main) \cup Messages(retry) : m.order # o
      /\ failures[o] = 0 /\ (pc \in Working => job.order # o)
  BY <1>1 DEF Unknown, Messages, In
<1>3. ASSUME NEW m \in Messages(main') \cup Messages(retry') PROVE m.order # o
  BY <1>1, <1>2, <1>3, Provenance DEF Kept, Returned, Published, Delayed, Unacked
<1>4. pc' \in Working => job'.order # o  BY <1>2, HandStep
<1>5. failures'[o] = 0
  <2>1. CASE FailsInHand
    <3>1. job'.order # o /\ job'.order \in Orders
      BY <1>4, <2>1, MessageType DEF FailsInHand, Working
    <3>2. QED  BY <1>2, <2>1, <3>1 DEF FailsInHand, TypeOK
  <2>2. CASE failures' = failures  BY <1>2, <2>2
  <2>3. QED  BY <2>1, <2>2, FailuresStep
<1>6. QED  BY <1>3, <1>4, <1>5 DEF In, Messages

\* The failures of an order, with the attempt that still runs although its
\* connection is gone and the broker has the message back.
Cut(o) ==
  IF ~ link /\ pc \in {"find", "insert", "gateway", "update"} /\ job.order = o THEN 1 ELSE 0
Tried(o) == failures[o] + Cut(o)

\* An order has failed once for each of the rejections its message counts, but
\* for the attempts a lost connection or process took with it.
AttemptsInv ==
  /\ \A m \in Messages(main) \cup Messages(retry) : Tried(m.order) <= m.retries + breaks
  /\ Unacked => Tried(job.order) <= job.retries + breaks + (IF pc = "failed" THEN 1 ELSE 0)
  /\ \A o \in Orders : Tried(o) <= MaxRetries + 1 + breaks

\* The number of times an order was tried is a number.
LEMMA TriedType ==
  ASSUME TypeOK, NEW o \in Orders
  PROVE  Cut(o) \in {0, 1} /\ Tried(o) \in Nat
<1>1. Cut(o) \in {0, 1}  BY DEF Cut
<1>2. failures[o] \in Nat  BY DEF TypeOK
<1>3. QED  BY <1>1, <1>2 DEF Tried

\* The same after the step.
LEMMA TriedTypeNext ==
  ASSUME TypeOK', NEW o \in Orders
  PROVE  Cut(o)' \in {0, 1} /\ Tried(o)' \in Nat
<1>1. Cut(o)' \in {0, 1}  BY DEF Cut
<1>2. failures'[o] \in Nat  BY DEF TypeOK
<1>3. QED  BY <1>1, <1>2 DEF Tried

\* Connection breaks are never forgotten.
LEMMA BreaksGrow ==
  ASSUME TypeOK, [Next]_vars
  PROVE  breaks' = breaks \/ breaks' = breaks + 1
BY DEF Next, Environment, Handler, Disturbance, vars, boundVars, Publish, RetryExpires,
       MainExpires, DlqExpires, Deliver, FindPayment, InsertPayment, CallGateway,
       UpdatePayment, DatabaseError, Acknowledge, Reject, DeadLetter, LinkLost, ReplyLost,
       ReplyOnClosedChannel, Crash, Start, StartWithoutBroker

\* An order is tried once more only by losing the connection in the middle of
\* an attempt, or by failing one with the connection up.
LEMMA TriedStep ==
  ASSUME TypeOK, TypeOK', [Next]_vars, NEW o \in Orders
  PROVE  \/ Tried(o)' <= Tried(o)
         \/ breaks' = breaks + 1 /\ Tried(o)' <= Tried(o) + 1
         \/ FailsInHand /\ link' /\ job'.order = o /\ Tried(o)' = Tried(o) + 1
<1>0. /\ failures \in [Orders -> Nat] /\ Cut(o) \in {0, 1} /\ Tried(o) \in Nat
      /\ Cut(o)' \in {0, 1} /\ Tried(o)' \in Nat
  BY TriedType, TriedTypeNext DEF TypeOK
<1>1. CASE FailsInHand
  <2>1. job'.order \in Orders /\ Cut(o)' = 0 /\ link' = link  BY <1>1, MessageType DEF FailsInHand, Cut
  <2>2. CASE job'.order # o
    <3>1. failures'[o] = failures[o]  BY <1>0, <1>1, <2>1, <2>2 DEF FailsInHand
    <3>2. QED  BY <1>0, <2>1, <3>1 DEF Tried
  <2>3. CASE job'.order = o /\ link
    <3>1. failures'[o] = failures[o] + 1 /\ Cut(o) = 0
      BY <1>0, <1>1, <2>3 DEF FailsInHand, Cut
    <3>2. QED  BY <1>0, <1>1, <2>1, <2>3, <3>1 DEF Tried
  <2>4. CASE job'.order = o /\ ~ link
    <3>1. failures'[o] = failures[o] + 1 /\ Cut(o) = 1
      BY <1>0, <1>1, <2>4 DEF FailsInHand, Cut
    <3>2. QED  BY <1>0, <2>1, <3>1 DEF Tried
  <2>5. QED  BY <2>2, <2>3, <2>4
<1>2. CASE failures' = failures
  <2>1. CASE breaks' = breaks + 1  BY <1>0, <1>2, <2>1 DEF Tried
  <2>2. CASE breaks' = breaks
    <3>1. Cut(o)' = 1 => Cut(o) = 1
      <4>1. SUFFICES ASSUME ~ link', pc' \in {"find", "insert", "gateway", "update"}, job'.order = o
                     PROVE  ~ link /\ pc \in {"find", "insert", "gateway", "update"} /\ job.order = o
        BY DEF Cut
      <4>2. pc \in Working /\ job' = job
        BY <4>1, HandStep DEF Working
      <4>3. ~ link /\ pc \in {"find", "insert", "gateway", "update"}
        BY <1>2, <2>2, <4>1, <4>2
           DEF Next, Environment, Handler, Disturbance, vars, boundVars, Publish, RetryExpires,
               MainExpires, DlqExpires, Deliver, FindPayment, InsertPayment, CallGateway,
               UpdatePayment, DatabaseError, Fail, Acknowledge, Reject, DeadLetter, LinkLost, ReplyLost,
               ReplyOnClosedChannel, Crash, Start, StartWithoutBroker, TypeOK
      <4>4. QED  BY <4>1, <4>2, <4>3
    <3>2. QED  BY <1>0, <1>2, <3>1 DEF Tried
  <2>3. QED  BY <2>1, <2>2, BreaksGrow
<1>3. QED  BY <1>1, <1>2, FailuresStep

\* Every step keeps the bound on attempts.
LEMMA AttemptsStep ==
  TypeOK /\ TypeOK' /\ OneLive' /\ Unknown /\ AttemptsInv /\ [Next]_vars => AttemptsInv'
<1> SUFFICES ASSUME TypeOK, TypeOK', OneLive', Unknown, AttemptsInv, [Next]_vars
             PROVE  AttemptsInv'
  OBVIOUS
<1>0. /\ main \in Seq(Message) /\ retry \in Seq(Message)
      /\ Messages(main) \cup Messages(retry) \subseteq Message
      /\ pc \in Working => job \in Message
      /\ breaks \in Nat /\ breaks' \in Nat /\ breaks' \in {breaks, breaks + 1}
  BY MessagesOf, BreaksGrow, PipelineAssumption DEF TypeOK
<1>a. \A o \in Orders : Tried(o) \in Nat /\ Tried(o)' \in Nat
  BY TriedType, TriedTypeNext
\* Where the order of a message outside the hand is not the one just failed.
<1>1. ASSUME NEW m \in Messages(main') \cup Messages(retry')
      PROVE  Tried(m.order)' <= m.retries + breaks'
  <2>0. m \in Message /\ m.order \in Orders /\ m.retries \in Nat
    BY <1>1, MessagesOf, MessageType DEF TypeOK
  <2>1. ~ (FailsInHand /\ link' /\ job'.order = m.order)
    <3>1. SUFFICES ASSUME FailsInHand, link', job'.order = m.order PROVE FALSE
      OBVIOUS
    <3>2. Unacked'  BY <3>1 DEF FailsInHand, Unacked, Working
    <3>3. QED  BY <1>1, <3>1, <3>2 DEF OneLive, In, Messages
  <2>2. Tried(m.order)' <= Tried(m.order) + (breaks' - breaks)
    BY <1>0, <1>a, <2>0, <2>1, TriedStep
  <2>3. CASE Kept(m)
    <3>1. Tried(m.order) <= m.retries + breaks  BY <2>3 DEF Kept, AttemptsInv
    <3>2. QED  BY <1>0, <1>a, <2>0, <2>2, <3>1
  <2>4. CASE Returned(m)
    <3>1. /\ Tried(m.order) <= m.retries + breaks + (IF pc = "failed" THEN 1 ELSE 0)
          /\ breaks' = breaks + 1 /\ failures' = failures
      BY <2>4 DEF Returned, AttemptsInv
    <3>2. CASE pc = "failed"
      <4>1. Cut(m.order)' = 0 /\ Cut(m.order) = 0  BY <2>4, <3>2 DEF Returned, Unacked, Cut
      <4>2. Tried(m.order)' = Tried(m.order)  BY <3>1, <4>1 DEF Tried
      <4>3. QED  BY <1>0, <1>a, <2>0, <3>1, <3>2, <4>2
    <3>3. CASE pc # "failed"  BY <1>0, <1>a, <2>0, <2>2, <3>1, <3>3
    <3>4. QED  BY <3>2, <3>3
  <2>5. CASE Published(m)
    <3>1. failures[m.order] = 0 /\ Cut(m.order) = 0
      BY <2>0, <2>5 DEF Published, Unknown, Cut, Working
    <3>2. Tried(m.order)' = Tried(m.order)  BY <2>5 DEF Published, Tried, Cut
    <3>3. QED  BY <1>0, <2>0, <3>1, <3>2 DEF Tried
  <2>6. CASE Delayed(m)
    <3>1. Tried(m.order) <= job.retries + breaks + 1 /\ m.retries = job.retries + 1
      BY <2>6 DEF Delayed, AttemptsInv
    <3>2. job.retries \in Nat /\ Tried(m.order) \in Nat /\ Tried(m.order)' \in Nat
      BY <1>0, <1>a, <2>0, <2>6, MessageType DEF Delayed, Unacked
    <3>3. QED  BY <1>0, <2>2, <3>1, <3>2
  <2>7. QED  BY <1>1, <2>3, <2>4, <2>5, <2>6, Provenance
\* The message in hand after the step, as it stood before it.
<1>2. ASSUME pc' \in Working, link', NEW o, o = job'.order
      PROVE  /\ o \in Orders /\ job'.retries \in 0..MaxRetries
             /\ \/ pc = "failed" /\ pc' = "failed" /\ Tried(o) <= job'.retries + breaks + 1
                \/ Tried(o) <= job'.retries + breaks
  <2>1. job' \in Message /\ o \in Orders /\ job'.retries \in 0..MaxRetries
    BY <1>2, MessageType DEF TypeOK
  <2>2. CASE pc \in Working /\ job' = job /\ link /\ (pc = "failed" => pc' = "failed")
    <3>1. Tried(o) <= job.retries + breaks + (IF pc = "failed" THEN 1 ELSE 0)
      BY <1>2, <2>2 DEF AttemptsInv, Unacked
    <3>2. job.retries \in Nat /\ Tried(o) \in Nat
      BY <1>a, <2>1, <2>2, PipelineAssumption
    <3>3. QED  BY <1>0, <2>1, <2>2, <3>1, <3>2
  <2>3. CASE job' \in Messages(main)  BY <1>2, <2>1, <2>3 DEF AttemptsInv
  <2>4. QED  BY <1>2, <2>2, <2>3, HandStep
<1>3. ASSUME Unacked', NEW o, o = job'.order
      PROVE  Tried(o)' <= job'.retries + breaks' + (IF pc' = "failed" THEN 1 ELSE 0)
  <2>0. pc' \in Working /\ link'  BY <1>3 DEF Unacked
  <2>1. o \in Orders /\ job'.retries \in Nat
    BY <1>2, <1>3, <2>0, PipelineAssumption
  <2>2. CASE FailsInHand
    <3>1. pc # "failed" /\ pc' = "failed" /\ breaks' = breaks
      BY <2>2 DEF FailsInHand
    <3>2. Tried(o) <= job'.retries + breaks  BY <1>2, <1>3, <2>0, <3>1
    <3>3. Tried(o)' <= Tried(o) + 1
      BY <1>a, <2>1, <3>1, TriedStep
    <3>4. QED  BY <1>0, <1>a, <2>1, <3>1, <3>2, <3>3
  <2>3. CASE ~ FailsInHand
    <3>1. Tried(o)' <= Tried(o) + (breaks' - breaks)
      BY <1>0, <1>a, <2>1, <2>3, TriedStep
    <3>2. \/ pc' = "failed" /\ Tried(o) <= job'.retries + breaks + 1
          \/ Tried(o) <= job'.retries + breaks
      BY <1>2, <1>3, <2>0
    <3>3. Tried(o) \in Nat /\ Tried(o)' \in Nat  BY <1>a, <2>1
    <3>4. CASE pc' = "failed"  BY <1>0, <2>1, <3>1, <3>2, <3>3, <3>4
    <3>5. CASE pc' # "failed"  BY <1>0, <2>1, <3>1, <3>2, <3>3, <3>5
    <3>6. QED  BY <3>4, <3>5
  <2>4. QED  BY <2>2, <2>3
<1>4. ASSUME NEW o \in Orders
      PROVE  Tried(o)' <= MaxRetries + 1 + breaks'
  <2>0. Tried(o) <= MaxRetries + 1 + breaks /\ MaxRetries \in Nat
    BY PipelineAssumption DEF AttemptsInv
  <2>1. CASE FailsInHand /\ link' /\ job'.order = o /\ Tried(o)' = Tried(o) + 1
    <3>1. pc # "failed" /\ pc' \in Working /\ breaks' = breaks  BY <2>1 DEF FailsInHand, Working
    <3>2. Tried(o) <= job'.retries + breaks /\ job'.retries \in 0..MaxRetries
      BY <1>2, <2>1, <3>1
    <3>3. QED  BY <1>0, <1>a, <2>0, <2>1, <3>1, <3>2
  <2>2. CASE Tried(o)' <= Tried(o) + (breaks' - breaks)
    BY <1>0, <1>a, <2>0, <2>2
  <2>3. QED  BY <1>0, <1>a, <2>1, <2>2, TriedStep
<1>5. Unacked' => (Tried(job.order) <= job.retries + breaks + (IF pc = "failed" THEN 1 ELSE 0))'
  <2>1. PICK o : o = job'.order  OBVIOUS
  <2>2. Tried(o)' = Tried(job.order)'  BY <2>1 DEF Tried, Cut
  <2>3. QED  BY <1>3, <2>1, <2>2
<1>6. QED  BY <1>1, <1>4, <1>5 DEF AttemptsInv

-------------------------------------------------------------------------------
(* The theorems *)

SafeInv    == TypeOK /\ TableInv /\ NoSilentLoss
CountedInv == CountInv /\ OneLive /\ Unknown /\ AttemptsInv

\* The initial state has the invariant.
LEMMA SafeInit == Init => SafeInv /\ CountedInv
<1> SUFFICES ASSUME Init PROVE SafeInv /\ CountedInv
  OBVIOUS
<1>1. TypeOK
  BY PipelineAssumption DEF Init, TypeOK, Idle, Working, NoRow, Verdict
<1>2. TableInv /\ NoSilentLoss
  BY DEF Init, TableInv, HandlerInv, OnePaymentPerOrder, DecisionRespected, NoSilentLoss
<1>3. CountInv /\ OneLive /\ Unknown
  BY DEF Init, CountInv, DlqMeansExhausted, OneLive, OncePerOrder, Unknown, Messages, In, Unacked,
         Working
<1>4. AttemptsInv
  <2>1. \A o \in Orders : failures[o] = 0 /\ Cut(o) = 0  BY DEF Init, Cut
  <2>2. /\ Messages(main) = {} /\ Messages(retry) = {} /\ ~ Unacked /\ breaks = 0
    BY DEF Init, Messages, Unacked, Working
  <2>3. QED  BY <2>1, <2>2, PipelineAssumption DEF AttemptsInv, Tried
<1>5. QED  BY <1>1, <1>2, <1>3, <1>4 DEF SafeInv, CountedInv

\* The inductive invariants hold throughout.
LEMMA Safe == Spec => []SafeInv
<1>1. SafeInv /\ [Next]_vars => SafeInv'
  BY TypeStep, TableStep, NoLossStep DEF SafeInv, TableInv
<1>2. QED  BY SafeInit, <1>1, PTL DEF Spec

\* The counts are right in every run.
LEMMA Counted == Spec => []CountedInv
<1>1. SafeInv /\ SafeInv' /\ CountedInv /\ [Next]_vars => CountedInv'
  BY CountStep, OneLiveStep, UnknownStep, AttemptsStep DEF SafeInv, CountedInv
<1>2. QED  BY SafeInit, Safe, <1>1, PTL DEF Spec

\* Every variable of the pipeline keeps its type.
THEOREM TypeCorrect == Spec => []TypeOK
<1>1. SafeInv => TypeOK  BY DEF SafeInv
<1>2. QED  BY Safe, <1>1, PTL

\* The service never records two payments of one order.
THEOREM OnePayment == Spec => []OnePaymentPerOrder
<1>1. SafeInv => OnePaymentPerOrder  BY DEF SafeInv, TableInv
<1>2. QED  BY Safe, <1>1, PTL

\* What it records is what the gateway's rules decide, and an approval names
\* a transaction the gateway made for that order.
THEOREM Decisions == Spec => []DecisionRespected
<1>1. SafeInv => DecisionRespected  BY DEF SafeInv, TableInv
<1>2. QED  BY Safe, <1>1, PTL

\* The handler's steps find what the earlier ones left.
THEOREM HandlerConsistent == Spec => []HandlerInv
<1>1. SafeInv => HandlerInv  BY DEF SafeInv, TableInv
<1>2. QED  BY Safe, <1>1, PTL

\* A published order is queued, in hand, decided, or dropped by the broker's
\* expiry rules: no failure of the worker loses it.
THEOREM NothingLost == Spec => []NoSilentLoss
<1>1. SafeInv => NoSilentLoss  BY DEF SafeInv
<1>2. QED  BY Safe, <1>1, PTL

\* What the dead letter queue holds was rejected MaxRetries times and failed
\* once more.
THEOREM DeadLettersAreExhausted == Spec => []DlqMeansExhausted
<1>1. CountedInv => DlqMeansExhausted  BY DEF CountedInv, CountInv
<1>2. QED  BY Counted, <1>1, PTL

\* A valid order fails only by database errors, and is delayed only for them.
THEOREM RejectionsDoNotFail == Spec => []RejectionIsNotFailure
<1>1. CountedInv => RejectionIsNotFailure
  BY DEF CountedInv, CountInv, RejectionIsNotFailure, Messages
<1>2. QED  BY Counted, <1>1, PTL

\* No order fails more often than the retry limit and the lost replies allow.
THEOREM AttemptsAreBounded == Spec => []AttemptsBounded
<1>1. SafeInv /\ CountedInv => AttemptsBounded
  <2> SUFFICES ASSUME SafeInv, CountedInv, NEW o \in Orders
               PROVE  failures[o] <= MaxRetries + 1 + breaks
    BY DEF AttemptsBounded
  <2>1. failures[o] \in Nat /\ breaks \in Nat /\ MaxRetries \in Nat
    BY PipelineAssumption DEF SafeInv, TypeOK
  <2>2. Cut(o) \in {0, 1}  BY DEF Cut
  <2>3. failures[o] + Cut(o) <= MaxRetries + 1 + breaks
    BY DEF CountedInv, AttemptsInv, Tried
  <2>4. QED  BY <2>1, <2>2, <2>3
<1>2. QED  BY Safe, Counted, <1>1, PTL

\* No step changes a decided row or charges its order again.
LEMMA DecidedStep ==
  ASSUME TypeOK, TableInv, [Next]_vars
  PROVE  DecidedOnce
<1> SUFFICES ASSUME NEW o \in Orders, Settled(o)
             PROVE  /\ charges'[o] = charges[o]
                    /\ \A i \in DOMAIN payments :
                         payments[i].order = o => payments'[i] = payments[i]
  BY DEF DecidedOnce
<1>1. PICK k \in DOMAIN payments : payments[k].order = o /\ payments[k].status \in Final
  BY DEF Settled
<1>2. ASSUME NEW i \in DOMAIN payments, payments[i].order = o
      PROVE  payments'[i] = payments[i]
  <2>1. i = k  BY <1>1, <1>2 DEF TableInv, OnePaymentPerOrder
  <2>2. QED  BY <1>1, <2>1, RowsStay
<1>3. charges'[o] = charges[o]
  <2>1. CASE CallGateway
    <3>1. /\ row \in DOMAIN payments /\ payments[row].order = job.order
          /\ payments[row].status \notin Final
      BY <2>1 DEF CallGateway, TableInv, HandlerInv, Final
    <3>2. job.order # o  BY <1>1, <3>1 DEF TableInv, OnePaymentPerOrder
    <3>3. charges' = charges \/ charges' = [charges EXCEPT ![job.order] = charges[job.order] + 1]
      BY <2>1, Zenon DEF CallGateway
    <3>4. QED  BY <3>2, <3>3 DEF TypeOK
  <2>2. CASE ~ CallGateway
    <3>1. charges' = charges
      BY <2>2 DEF Next, Environment, Handler, Disturbance, vars, tableVars, Publish, RetryExpires,
         MainExpires, DlqExpires, Deliver, FindPayment, InsertPayment,
         UpdatePayment, DatabaseError, Acknowledge, Reject, DeadLetter, LinkLost, ReplyLost,
         ReplyOnClosedChannel, Crash, Start, StartWithoutBroker
    <3>2. QED  BY <3>1
  <2>3. QED  BY <2>1, <2>2
<1>4. QED  BY <1>2, <1>3

\* A decided payment is never changed and its order never charged again.
THEOREM DecidedForever == Spec => SettledForever
<1>1. SafeInv /\ [Next]_vars => [DecidedOnce]_vars
  BY DecidedStep DEF SafeInv
<1>2. QED  BY Safe, <1>1, PTL DEF Spec, SettledForever

-------------------------------------------------------------------------------
(* Refinement *)

\* With one row per order, the order's payment is what that row says.
LEMMA PaymentOfRow ==
  ASSUME OnePaymentPerOrder, NEW i \in DOMAIN payments, NEW o, payments[i].order = o
  PROVE  PaymentOf(o) = [status |-> payments[i].status, txn |-> payments[i].txn]
<1>1. In(payments, o)  BY DEF In
<1>2. (CHOOSE k \in DOMAIN payments : payments[k].order = o) = i
  BY DEF OnePaymentPerOrder
<1>3. QED  BY <1>1, <1>2 DEF PaymentOf

\* The same of the table after the step.
LEMMA PaymentOfRowNext ==
  ASSUME OnePaymentPerOrder', NEW i \in DOMAIN payments', NEW o, payments'[i].order = o
  PROVE  PaymentOf(o)' = [status |-> payments'[i].status, txn |-> payments'[i].txn]
<1>1. In(payments', o)  BY DEF In
<1>2. (CHOOSE k \in DOMAIN payments' : payments'[k].order = o) = i
  BY DEF OnePaymentPerOrder
<1>3. QED  BY <1>1, <1>2 DEF PaymentOf

Pay == [o \in Orders |-> PaymentOf(o)]

\* An order whose row a step leaves alone keeps its payment.
LEMMA PaymentKept ==
  ASSUME TypeOK, TableInv, TableInv', [Next]_vars, NEW o,
         \A i \in DOMAIN payments' : payments'[i].order = o =>
            i \in DOMAIN payments /\ payments'[i] = payments[i]
  PROVE  PaymentOf(o)' = PaymentOf(o)
<1>1. CASE In(payments, o)
  <2>1. PICK i \in DOMAIN payments : payments[i].order = o  BY <1>1 DEF In
  <2>2. i \in DOMAIN payments' /\ payments'[i].order = o  BY <2>1, RowsStay
  <2>3. payments'[i] = payments[i]  BY <2>2
  <2>4. PaymentOf(o) = [status |-> payments[i].status, txn |-> payments[i].txn]
    BY <2>1, PaymentOfRow DEF TableInv
  <2>5. PaymentOf(o)' = [status |-> payments'[i].status, txn |-> payments'[i].txn]
    BY <2>2, PaymentOfRowNext DEF TableInv
  <2>6. QED  BY <2>3, <2>4, <2>5
<1>2. CASE ~ In(payments, o)
  <2>1. ~ In(payments', o)  BY <1>2 DEF In
  <2>2. QED  BY <1>2, <2>1 DEF PaymentOf, In
<1>3. QED  BY <1>1, <1>2

\* An empty table is an abstract state without payments.
LEMMA RefinedInit == Init => Abstract!Init
<1> SUFFICES ASSUME Init, NEW o \in Orders
             PROVE  PaymentOf(o) = [status |-> "none", txn |-> 0]
  BY DEF Abstract!Init, Abstract!NoPayment
<1>1. ~ In(payments, o)  BY DEF Init, In
<1>2. QED  BY <1>1 DEF PaymentOf

\* Inserting the pending row opens the order's payment.
LEMMA InsertRefines ==
  ASSUME TypeOK, TableInv, TableInv', [Next]_vars,
         pc = "insert", payments' = Inserted(job.order), NEW p, p = job.order
  PROVE  Abstract!Open(p) /\ p \in Orders
<1> DEFINE n == Len(payments) + 1
<1>1. p \in Orders /\ ~ In(payments, p)
  BY MessageForms DEF TypeOK, Working, TableInv, HandlerInv
<1>2. /\ payments' \in Seq(Row) /\ Len(payments') = n /\ Len(payments) \in Nat
      /\ payments'[n] = [order |-> p, status |-> "pending", txn |-> 0]
      /\ \A i \in 1..Len(payments) : payments'[i] = payments[i]
      /\ DOMAIN payments = 1..Len(payments)
  BY <1>1, InsertedType DEF TypeOK
<1>3. DOMAIN payments' = 1..n /\ n \in 1..n  BY <1>2
<1>4. PaymentOf(p) = Abstract!NoPayment  BY <1>1 DEF PaymentOf, Abstract!NoPayment
<1>5. PaymentOf(p)' = Abstract!Pending
  BY <1>2, <1>3, PaymentOfRowNext DEF TableInv, Abstract!Pending
<1>6. ASSUME NEW o \in Orders \ {p} PROVE PaymentOf(o)' = PaymentOf(o)
  <2>1. \A i \in 1..n : payments'[i].order = o => i \in 1..Len(payments)  BY <1>2
  <2>2. QED  BY <1>2, <1>3, <2>1, PaymentKept
<1>7. Pay' = [Pay EXCEPT ![p] = Abstract!Pending]  BY <1>1, <1>5, <1>6 DEF Pay
<1>8. QED  BY <1>1, <1>4, <1>7 DEF Pay, Abstract!Open

\* Updating the row decides the order's payment.
LEMMA UpdateRefines ==
  ASSUME TypeOK, TableInv, TableInv', [Next]_vars, pc = "update", payments' = Updated,
         NEW p, p = job.order
  PROVE  Abstract!Decide(p) /\ p \in Orders
<1>1. /\ row \in DOMAIN payments /\ payments[row].order = p
      /\ payments[row].status = "pending"
      /\ verdict.status = GatewayDecision(Amount[p])
      /\ verdict.status = "approved" <=> verdict.txn > 0
      /\ p \in Orders
  BY MessageForms DEF TypeOK, Working, TableInv, HandlerInv
<1>2. verdict.status \in Final /\ verdict.txn \in Nat
  BY <1>1 DEF TypeOK, Verdict, NoVerdict, GatewayDecision, Final
<1>3. /\ DOMAIN payments' = DOMAIN payments
      /\ payments'[row] = Decided(payments[row]) /\ payments'[row].order = p
      /\ \A i \in DOMAIN payments \ {row} : payments'[i] = payments[i]
  BY <1>1, <1>2, UpdatedType DEF TypeOK
<1>4. PaymentOf(p) = Abstract!Pending
  <2>1. payments[row].txn = 0
    BY <1>1, RowType DEF TableInv, DecisionRespected
  <2>2. QED  BY <1>1, <2>1, PaymentOfRow DEF TableInv, Abstract!Pending
<1>5. PaymentOf(p)' = [status |-> verdict.status, txn |-> verdict.txn]
  BY <1>1, <1>3, PaymentOfRowNext DEF TableInv, Decided
<1>6. ASSUME NEW o \in Orders \ {p} PROVE PaymentOf(o)' = PaymentOf(o)
  BY <1>3, PaymentKept
<1>7. Pay' = [Pay EXCEPT ![p] = [status |-> GatewayDecision(Amount[p]), txn |-> verdict.txn]]
  BY <1>1, <1>5, <1>6 DEF Pay
<1>8. Pay[p] = Abstract!Pending /\ Pay'[p].txn = verdict.txn  BY <1>1, <1>4, <1>5 DEF Pay
<1>9. QED  BY <1>1, <1>2, <1>7, <1>8 DEF Pay, Abstract!Decide

\* Every step of the pipeline is an abstract step or leaves all payments alone.
LEMMA RefinedStep ==
  TypeOK /\ TableInv /\ TableInv' /\ [Next]_vars => [Abstract!Next]_Pay
<1> SUFFICES ASSUME TypeOK, TableInv, TableInv', [Next]_vars
             PROVE  [Abstract!Next]_Pay
  OBVIOUS
<1>1. CASE pc = "insert" /\ payments' = Inserted(job.order)
  <2>1. PICK p : p = job.order  OBVIOUS
  <2>2. QED  BY <1>1, <2>1, InsertRefines DEF Abstract!Next
<1>2. CASE pc = "update" /\ payments' = Updated
  <2>1. PICK p : p = job.order  OBVIOUS
  <2>2. QED  BY <1>2, <2>1, UpdateRefines DEF Abstract!Next
<1>3. CASE payments' = payments
  <2>1. \A o : PaymentOf(o)' = PaymentOf(o)  BY <1>3 DEF PaymentOf, In
  <2>2. QED  BY <2>1 DEF Pay
<1>4. QED
  BY <1>1, <1>2, <1>3
     DEF Next, Environment, Handler, Disturbance, vars, tableVars, Publish, RetryExpires,
         MainExpires, DlqExpires, Deliver, FindPayment, InsertPayment, CallGateway,
         UpdatePayment, DatabaseError, Acknowledge, Reject, DeadLetter, LinkLost, ReplyLost,
         ReplyOnClosedChannel, Crash, Start, StartWithoutBroker

\* The pipeline, with every crash, redelivery and retry, implements the
\* abstract settlement of orders.
THEOREM Refinement == Spec => ImplementsSettlement
<1>1. SafeInv /\ SafeInv' /\ [Next]_vars => [Abstract!Next]_Pay
  BY RefinedStep DEF SafeInv
<1>2. Spec => [][Abstract!Next]_Pay
  BY <1>1, Safe, PTL DEF Spec
<1>3. QED  BY RefinedInit, <1>2, PTL DEF Spec, ImplementsSettlement, Abstract!Spec, Pay

-------------------------------------------------------------------------------
(* The dead letter queue's administration beside the worker *)

Phases == {"loop", "got", "publish", "done"}
AdminRecord ==
  [op : {"none"} \cup Loops, target : Orders \cup {NoJob}, left : Nat, count : Nat,
   phase : Phases, holding : BOOLEAN, found : BOOLEAN, processed : Nat, present : BOOLEAN]

AdminTypeOK == admin \in AdminRecord /\ discarded \in SUBSET Orders

\* A message is held exactly while a reply to it is due; then it is there, and
\* the loop is in one of its iterations.
HoldInv ==
  /\ admin.holding <=> admin.phase \in {"got", "publish"}
  /\ admin.holding => admin.left > 0
  /\ admin.holding => dlq # <<>>
  /\ admin.op = "none" => admin.phase = "done"

\* While nothing but the administrator takes messages from the queue, a
\* reprocess-all finds one there for each iteration it has left.
SweepInv ==
  (admin.op = "reprocessAll" /\ expiries = 0) =>
    /\ admin.phase = "done" => admin.processed = admin.count
    /\ admin.phase # "done" =>
         admin.processed + admin.left = admin.count /\ admin.left <= Len(dlq)

AdminInv == AdminTypeOK /\ HoldInv /\ SweepInv

\* The administrative steps that change a queue: they leave the worker, the
\* table and the history of failures alone.
QueueStep == PublishBack \/ Discard \/ Purge \/ AckOfReprocessLost

\* An administrative step changes a queue or is one of the pipeline.
LEMMA AdminSteps ==
  ASSUME AdminNext
  PROVE  /\ QueueStep \/ [Next]_vars
         /\ QueueStep => UNCHANGED <<sent, retry, dropped, pc, handlerVars, tableVars, failures,
                                     faults, expiries>>
<1>1. QueueStep => UNCHANGED <<sent, retry, dropped, pc, handlerVars, tableVars, failures, faults,
                               expiries>>
  BY DEF QueueStep, PublishBack, Discard, Purge, AckOfReprocessLost, boundVars
<1>2. CASE OpenRequest \/ Get \/ EndLoop \/ PutBack \/ BeginPublish \/ Respond
  BY <1>1, <1>2 DEF OpenRequest, Open, Get, EndLoop, PutBack, BeginPublish, Respond
<1>3. CASE PipelineStep \/ Interrupted
  BY <1>1, <1>3 DEF PipelineStep, Interrupted, Next, Disturbance
<1>4. QED  BY <1>1, <1>2, <1>3 DEF AdminNext, AdminStep, QueueStep

\* What is at the head of the queue while it is held.
LEMMA HeldHead ==
  ASSUME TypeOK, HoldInv, admin.phase \in {"got", "publish"}
  PROVE  /\ dlq # <<>> /\ Head(dlq) \in Message /\ Head(dlq).order \in Orders
         /\ Fresh(Head(dlq).order) \in Message /\ Fresh(Head(dlq).order).order = Head(dlq).order
         /\ Tail(dlq) \in Seq(Message) /\ Len(Tail(dlq)) = Len(dlq) - 1
<1>1. dlq # <<>> /\ dlq \in Seq(Message)  BY DEF HoldInv, TypeOK
<1>2. QED  BY <1>1, HeadTailProperties, MessageForms

\* The administrative steps keep the pipeline's types.
LEMMA QueueTypes ==
  ASSUME TypeOK, HoldInv, QueueStep, AdminNext
  PROVE  TypeOK'
<1>1. UNCHANGED <<sent, retry, dropped, pc, handlerVars, tableVars, failures, faults, expiries>>
  BY AdminSteps
<1>2. main' \in Seq(Message) /\ dlq' \in Seq(Message)
  <2>1. CASE PublishBack
    BY <2>1, HeldHead DEF PublishBack, Republished, TypeOK
  <2>2. CASE Discard
    BY <2>2, HeldHead DEF Discard, TypeOK
  <2>3. CASE Purge
    BY <2>3 DEF Purge, TypeOK
  <2>4. CASE AckOfReprocessLost
    <3> DEFINE q == IF Unacked THEN <<job>> \o main ELSE main
    <3>1. q \in Seq(Message)
      <4>1. CASE Unacked
        <5>1. job \in Message /\ main \in Seq(Message)  BY <4>1 DEF TypeOK, Unacked
        <5>2. QED  BY <4>1, <5>1, ConcatProperties
      <4>2. CASE ~ Unacked  BY <4>2 DEF TypeOK
      <4>3. QED  BY <4>1, <4>2
    <3> HIDE DEF q
    <3>2. main' = Append(q, Fresh(Head(dlq).order)) /\ dlq' = dlq
      BY <2>4 DEF AckOfReprocessLost, Republished, q
    <3>3. Fresh(Head(dlq).order) \in Message
      BY <2>4, HeldHead DEF AckOfReprocessLost
    <3>4. QED  BY <3>1, <3>2, <3>3 DEF TypeOK
  <2>5. QED  BY <2>1, <2>2, <2>3, <2>4 DEF QueueStep
<1>3. breaks' \in 0..MaxBreaks /\ link' \in BOOLEAN
  <2>1. UNCHANGED <<breaks, link>> \/ (breaks < MaxBreaks /\ breaks' = breaks + 1 /\ link' = FALSE)
    BY DEF QueueStep, PublishBack, Discard, Purge, AckOfReprocessLost, boundVars
  <2>2. breaks \in 0..MaxBreaks /\ link \in BOOLEAN  BY DEF TypeOK
  <2>3. CASE UNCHANGED <<breaks, link>>  BY <2>2, <2>3
  <2>4. CASE breaks < MaxBreaks /\ breaks' = breaks + 1 /\ link' = FALSE
    <3>1. breaks' \in 0..MaxBreaks  BY <2>2, <2>4, PipelineAssumption
    <3>2. link' \in BOOLEAN  BY <2>4
    <3>3. QED  BY <3>1, <3>2
  <2>5. QED  BY <2>1, <2>3, <2>4
<1>4. QED  BY <1>1, <1>2, <1>3 DEF TypeOK, handlerVars, tableVars

\* The pipeline's types and its table survive the administration.
LEMMA AdminTableStep ==
  TypeOK /\ TableInv /\ HoldInv /\ [AdminNext]_allVars => TypeOK' /\ TableInv'
<1> SUFFICES ASSUME TypeOK, TableInv, HoldInv, [AdminNext]_allVars
             PROVE  TypeOK' /\ TableInv'
  OBVIOUS
<1>1. CASE [Next]_vars  BY <1>1, TypeStep, TableStep DEF TableInv
<1>2. CASE QueueStep /\ AdminNext
  BY <1>2, QueueTypes, AdminSteps, OutsideTheTable DEF handlerVars
<1>3. CASE UNCHANGED allVars  BY <1>1, <1>3 DEF allVars
<1>4. QED  BY <1>1, <1>2, <1>3, AdminSteps

\* The queue shrinks under a request only by its own steps and by expiry.
LEMMA DlqGrows ==
  ASSUME TypeOK, Next, ~ DlqExpires
  PROVE  /\ dlq # <<>> => dlq' # <<>>
         /\ Len(dlq) \in Nat /\ Len(dlq') \in Nat /\ Len(dlq') >= Len(dlq)
<1>1. dlq \in Seq(Message)  BY DEF TypeOK
<1>2. dlq' = dlq \/ dlq' = Append(dlq, job)
  BY DEF Next, Environment, Handler, Disturbance, brokerVars, Publish, RetryExpires,
         MainExpires, Deliver, FindPayment, InsertPayment, CallGateway,
         UpdatePayment, DatabaseError, Acknowledge, Reject, DeadLetter, LinkLost, ReplyLost,
         ReplyOnClosedChannel, Crash, Start, StartWithoutBroker
<1>3. CASE dlq' = dlq  BY <1>1, <1>3
<1>4. CASE dlq' = Append(dlq, job)
  <2>1. Len(dlq') = Len(dlq) + 1 /\ Len(dlq) \in Nat  BY <1>1, <1>4
  <2>2. dlq' # <<>>  BY <1>1, <1>4
  <2>3. QED  BY <2>1, <2>2
<1>5. QED  BY <1>2, <1>3, <1>4

\* Expiries are never forgotten.
LEMMA ExpiriesGrow ==
  ASSUME TypeOK, Next
  PROVE  /\ expiries \in Nat /\ expiries' \in Nat
         /\ expiries' = 0 => expiries = 0 /\ ~ DlqExpires
<1>1. expiries \in Nat  BY PipelineAssumption DEF TypeOK
<1>2. DlqExpires => expiries' = expiries + 1  BY DEF DlqExpires
<1>3. expiries' = expiries \/ expiries' = expiries + 1
  BY DEF Next, Environment, Handler, Disturbance, boundVars, Publish, RetryExpires,
         MainExpires, DlqExpires, Deliver, FindPayment, InsertPayment, CallGateway,
         UpdatePayment, DatabaseError, Acknowledge, Reject, DeadLetter, LinkLost, ReplyLost,
         ReplyOnClosedChannel, Crash, Start, StartWithoutBroker
<1>4. QED  BY <1>1, <1>2, <1>3

\* Between two requests nothing is held.
LEMMA NoRequestOK ==
  ASSUME admin' = NoRequest
  PROVE  /\ admin' \in AdminRecord /\ HoldInv' /\ SweepInv'
BY DEF NoRequest, AdminRecord, Phases, HoldInv, SweepInv

\* What the request under way knows of the queue holds after every step.
LEMMA AdminInvStep ==
  TypeOK /\ AdminInv /\ [AdminNext]_allVars => AdminInv'
<1> SUFFICES ASSUME TypeOK, AdminInv, [AdminNext]_allVars
             PROVE  AdminInv'
  OBVIOUS
<1>0. /\ admin \in AdminRecord /\ discarded \in SUBSET Orders
      /\ HoldInv /\ SweepInv /\ dlq \in Seq(Message) /\ Len(dlq) \in Nat
      /\ admin.left \in Nat /\ admin.processed \in Nat /\ admin.count \in Nat
      /\ admin.phase \in Phases
  BY DEF AdminInv, AdminTypeOK, AdminRecord, TypeOK
<1>1. CASE OpenRequest
  <2>1. PICK op \in Loops, t \in Orders \cup {NoJob} : Open(op, t)
    BY <1>1 DEF OpenRequest, Loops, ByOrder
  <2>2. /\ admin' = [op |-> op, target |-> t, left |-> IF op = "peek" THEN PeekLimit ELSE Len(dlq),
                     count |-> Len(dlq), phase |-> "loop", holding |-> FALSE, found |-> FALSE,
                     processed |-> 0, present |-> op \in ByOrder /\ In(dlq, t)]
        /\ dlq' = dlq /\ discarded' = discarded
    BY <2>1 DEF Open, NoRequest, vars
  <2>3. op # "none" /\ PeekLimit \in Nat /\ (op \in ByOrder /\ In(dlq, t)) \in BOOLEAN
    BY <2>1, AdminAssumption DEF Loops
  <2>4. admin' \in AdminRecord  BY <1>0, <2>1, <2>2, <2>3 DEF AdminRecord, Phases
  <2>5. HoldInv'  BY <2>2, <2>3 DEF HoldInv
  <2>6. SweepInv'  BY <1>0, <2>2 DEF SweepInv
  <2>7. QED  BY <1>0, <2>2, <2>4, <2>5, <2>6 DEF AdminInv, AdminTypeOK
<1>2. CASE Get
  <2>1. UNCHANGED <<dlq, expiries, discarded>> /\ admin.phase = "loop" /\ admin.left > 0
    BY <1>2 DEF Get, vars
  <2>2. CASE dlq = <<>>
    <3>1. admin' = [admin EXCEPT !.left = 0]  BY <1>2, <2>2 DEF Get
    <3>2. admin' \in AdminRecord /\ HoldInv'  BY <1>0, <2>1, <3>1 DEF AdminRecord, HoldInv
    <3>3. ~ (admin.op = "reprocessAll" /\ expiries = 0)
      BY <1>0, <2>1, <2>2 DEF SweepInv
    <3>4. SweepInv'  BY <1>0, <2>1, <3>1, <3>3 DEF SweepInv, AdminRecord
    <3>5. QED  BY <1>0, <2>1, <3>2, <3>4 DEF AdminInv, AdminTypeOK
  <2>3. CASE dlq # <<>>
    <3>1. admin' = [admin EXCEPT !.phase = "got", !.holding = TRUE]  BY <1>2, <2>3 DEF Get
    <3>2. admin' \in AdminRecord /\ HoldInv'
      BY <1>0, <2>1, <2>3, <3>1 DEF AdminRecord, HoldInv, Phases
    <3>3. SweepInv'  BY <1>0, <2>1, <3>1 DEF SweepInv, AdminRecord
    <3>4. QED  BY <1>0, <2>1, <3>2, <3>3 DEF AdminInv, AdminTypeOK
  <2>4. QED  BY <2>2, <2>3
<1>3. CASE EndLoop
  <2>1. /\ UNCHANGED <<dlq, expiries, discarded>> /\ admin.phase = "loop" /\ admin.left = 0
        /\ admin' = [admin EXCEPT !.phase = "done"]
    BY <1>3 DEF EndLoop, vars
  <2>2. admin' \in AdminRecord /\ HoldInv'  BY <1>0, <2>1 DEF AdminRecord, HoldInv, Phases
  <2>3. SweepInv'  BY <1>0, <2>1 DEF SweepInv, AdminRecord
  <2>4. QED  BY <1>0, <2>1, <2>2, <2>3 DEF AdminInv, AdminTypeOK
<1>4. CASE PutBack
  <2>1. /\ UNCHANGED <<dlq, expiries, discarded>> /\ admin.phase = "got"
        /\ admin.op # "reprocessAll"
        /\ admin' = [admin EXCEPT !.phase = "loop", !.holding = FALSE, !.left = admin.left - 1]
    BY <1>4 DEF PutBack, vars, Wanted
  <2>2. admin.op # "none" /\ admin.left - 1 \in Nat
    BY <1>0, <2>1 DEF HoldInv
  <2>3. admin' \in AdminRecord /\ HoldInv'
    BY <1>0, <2>1, <2>2 DEF AdminRecord, HoldInv, Phases
  <2>4. SweepInv'  BY <1>0, <2>1 DEF SweepInv, AdminRecord
  <2>5. QED  BY <1>0, <2>1, <2>3, <2>4 DEF AdminInv, AdminTypeOK
<1>5. CASE BeginPublish
  <2>1. /\ UNCHANGED <<dlq, expiries, discarded>> /\ admin.phase = "got"
        /\ admin' = [admin EXCEPT !.phase = "publish"]
    BY <1>5 DEF BeginPublish, vars
  <2>2. admin' \in AdminRecord /\ HoldInv'  BY <1>0, <2>1 DEF AdminRecord, HoldInv, Phases
  <2>3. SweepInv'  BY <1>0, <2>1 DEF SweepInv, AdminRecord
  <2>4. QED  BY <1>0, <2>1, <2>2, <2>3 DEF AdminInv, AdminTypeOK
<1>6. CASE PublishBack
  <2>1. /\ admin.phase = "publish" /\ dlq' = Tail(dlq) /\ UNCHANGED <<expiries, discarded>>
        /\ admin' = Replied
    BY <1>6 DEF PublishBack, boundVars
  <2>2. /\ admin.left > 0 /\ admin.op # "none" /\ Len(dlq') = Len(dlq) - 1
        /\ admin.left - 1 \in Nat
    BY <1>0, <2>1, HeldHead DEF HoldInv
  <2>3. /\ admin'.op = admin.op /\ admin'.holding = FALSE /\ admin'.count = admin.count
        /\ admin'.left = admin.left - 1 /\ admin'.processed = admin.processed + 1
        /\ admin'.phase \in {"done", "loop"}
        /\ admin.op # "reprocess" => admin'.phase = "loop"
    BY <1>0, <2>1 DEF Replied, AdminRecord
  <2>4. admin' \in AdminRecord
    <3>1. (admin.op = "reprocess") \in BOOLEAN /\ admin.processed + 1 \in Nat  BY <1>0
    <3>2. /\ admin'.found = (admin.op = "reprocess")
          /\ admin' = [admin EXCEPT !.holding = FALSE, !.found = admin'.found,
                         !.processed = admin.processed + 1, !.phase = admin'.phase,
                         !.left = admin.left - 1]
      BY <1>0, <2>1 DEF Replied, AdminRecord
    <3>3. QED  BY <1>0, <2>2, <2>3, <3>1, <3>2 DEF AdminRecord, Phases
  <2>5. HoldInv'  BY <2>2, <2>3 DEF HoldInv
  <2>6. SweepInv'
    <3> SUFFICES ASSUME admin.op = "reprocessAll", expiries = 0
                 PROVE  admin'.phase = "loop" /\ admin'.processed + admin'.left = admin'.count
                        /\ admin'.left <= Len(dlq')
      BY <2>1, <2>3 DEF SweepInv
    <3>1. admin.processed + admin.left = admin.count /\ admin.left <= Len(dlq)
      BY <1>0, <2>1 DEF SweepInv
    <3>2. QED  BY <1>0, <2>2, <2>3, <3>1
  <2>7. QED  BY <1>0, <2>1, <2>4, <2>5, <2>6 DEF AdminInv, AdminTypeOK
<1>7. CASE Discard
  <2>1. /\ admin.phase = "got" /\ admin.op = "discard" /\ expiries' = expiries
        /\ discarded' = discarded \cup {Head(dlq).order}
        /\ admin' = [admin EXCEPT !.holding = FALSE, !.found = TRUE, !.phase = "done"]
    BY <1>7 DEF Discard, boundVars
  <2>2. discarded' \in SUBSET Orders  BY <1>0, <2>1, HeldHead DEF AdminInv
  <2>3. admin' \in AdminRecord /\ HoldInv'  BY <1>0, <2>1 DEF AdminRecord, HoldInv, Phases
  <2>4. SweepInv'  BY <1>0, <2>1 DEF SweepInv, AdminRecord
  <2>5. QED  BY <2>2, <2>3, <2>4 DEF AdminInv, AdminTypeOK
<1>8. CASE Purge
  <2>1. /\ admin.op = "none" /\ UNCHANGED <<admin, expiries>>
        /\ discarded' = discarded \cup {dlq[i].order : i \in DOMAIN dlq}
    BY <1>8 DEF Purge, boundVars
  <2>2. \A i \in DOMAIN dlq : dlq[i].order \in Orders
    BY <1>0, MessagesOf, MessageType DEF Messages
  <2>3. discarded' \in SUBSET Orders  BY <1>0, <2>1, <2>2
  <2>4. HoldInv' /\ SweepInv'  BY <1>0, <2>1 DEF HoldInv, SweepInv
  <2>5. QED  BY <1>0, <2>1, <2>3, <2>4 DEF AdminInv, AdminTypeOK
<1>9. CASE Respond \/ AckOfReprocessLost
  <2>1. admin' = NoRequest /\ discarded' = discarded
    BY <1>9 DEF Respond, AckOfReprocessLost
  <2>2. QED  BY <1>0, <2>1, NoRequestOK DEF AdminInv, AdminTypeOK
<1>10. CASE PipelineStep
  <2>1. /\ Next /\ (admin.holding => ~ DlqExpires) /\ discarded' = discarded
        /\ admin' = NoRequest \/ admin' = admin
    BY <1>10 DEF PipelineStep, Next, Disturbance
  <2>2. CASE admin' = NoRequest
    BY <1>0, <2>1, <2>2, NoRequestOK DEF AdminInv, AdminTypeOK
  <2>3. CASE admin' = admin
    <3>1. HoldInv'  BY <1>0, <2>1, <2>3, DlqGrows DEF HoldInv
    <3>2. SweepInv'  BY <1>0, <2>1, <2>3, DlqGrows, ExpiriesGrow DEF SweepInv
    <3>3. QED  BY <1>0, <2>1, <2>3, <3>1, <3>2 DEF AdminInv, AdminTypeOK
  <2>4. QED  BY <2>1, <2>2, <2>3
<1>11. CASE Interrupted
  <2>1. /\ Next /\ ~ DlqExpires /\ discarded' = discarded
        /\ admin' = NoRequest \/ (admin' = admin /\ admin.phase = "done")
    BY <1>11 DEF Interrupted, Next, Disturbance, LinkLost, ReplyLost, Crash, DlqExpires
  <2>2. CASE admin' = NoRequest
    BY <1>0, <2>1, <2>2, NoRequestOK DEF AdminInv, AdminTypeOK
  <2>3. CASE admin' = admin /\ admin.phase = "done"
    <3>1. HoldInv'  BY <1>0, <2>3 DEF HoldInv
    <3>2. SweepInv'  BY <1>0, <2>1, <2>3, ExpiriesGrow DEF SweepInv
    <3>3. QED  BY <1>0, <2>1, <2>3, <3>1, <3>2 DEF AdminInv, AdminTypeOK
  <2>4. QED  BY <2>1, <2>2, <2>3
<1>12. CASE UNCHANGED allVars
  <2>1. UNCHANGED <<admin, discarded, dlq, expiries>>  BY <1>12 DEF allVars, vars, adminVars
  <2>2. QED  BY <1>0, <2>1 DEF AdminInv, AdminTypeOK, HoldInv, SweepInv
<1>13. QED
  BY <1>1, <1>2, <1>3, <1>4, <1>5, <1>6, <1>7, <1>8, <1>9, <1>10, <1>11, <1>12
     DEF AdminNext, AdminStep

-------------------------------------------------------------------------------
(* What the administration keeps *)

\* A reprocess queues the order again before it takes its message away, and
\* what a discard or a purge takes away is noted.
LEMMA NoAdminLossStep ==
  ASSUME TypeOK, TableInv, AdminInv, NoAdminLoss, [AdminNext]_allVars
  PROVE  NoAdminLoss'
<1> SUFFICES ASSUME NEW o \in sent'
             PROVE  (Held(o) \/ Settled(o) \/ o \in dropped \/ o \in discarded)'
  BY DEF NoAdminLoss
<1>0. main \in Seq(Message) /\ dlq \in Seq(Message) /\ HoldInv  BY DEF TypeOK, AdminInv
<1>1. o \in discarded => o \in discarded'
  BY DEF AdminNext, AdminStep, OpenRequest, Open, Get, EndLoop, PutBack, BeginPublish, PublishBack,
         Discard, Purge, Respond, PipelineStep, Interrupted, AckOfReprocessLost, allVars, adminVars
<1>2. CASE [Next]_vars
  <2>1. CASE o \in sent
    <3>1. Held(o) \/ Settled(o) \/ o \in dropped \/ o \in discarded  BY <2>1 DEF NoAdminLoss
    <3>2. QED  BY <1>1, <1>2, <3>1, AccountedStep
  <2>2. CASE o \notin sent  BY <1>2, <2>2, SentStep
  <2>3. QED  BY <2>1, <2>2
<1>3. CASE QueueStep /\ AdminNext
  <2>1. UNCHANGED <<sent, retry, dropped, pc, job, payments>>
    BY <1>3, AdminSteps DEF handlerVars, tableVars
  <2>2. Settled(o) => Settled(o)'  BY <2>1 DEF Settled
  <2>3. In(retry, o) => In(retry', o)  BY <2>1
  <2>4. ASSUME PublishBack
        PROVE  Held(o) => Held(o)'
    <3>1. /\ main' = Append(main, Fresh(Head(dlq).order)) /\ dlq' = Tail(dlq) /\ link' = link
      BY <2>4 DEF PublishBack, Republished
    <3>2. /\ dlq # <<>> /\ Fresh(Head(dlq).order).order = Head(dlq).order
      BY <1>0, <2>4, HeldHead DEF PublishBack
    <3>3. /\ In(main', o) <=> In(main, o) \/ Head(dlq).order = o
          /\ In(dlq, o) <=> Head(dlq).order = o \/ In(dlq', o)
      BY <1>0, <3>1, <3>2, QueueChanges
    <3>4. Unacked' = Unacked  BY <2>1, <3>1 DEF Unacked
    <3>5. QED  BY <2>1, <3>3, <3>4 DEF Held, In
  <2>5. ASSUME Discard
        PROVE  Held(o) => Held(o)' \/ o \in discarded'
    <3>1. /\ UNCHANGED <<main, link>> /\ dlq' = Tail(dlq) /\ dlq # <<>>
          /\ discarded' = discarded \cup {Head(dlq).order}
      BY <1>0, <2>5, HeldHead DEF Discard
    <3>2. In(dlq, o) <=> Head(dlq).order = o \/ In(dlq', o)
      BY <1>0, <3>1, QueueChanges
    <3>3. Unacked' = Unacked  BY <2>1, <3>1 DEF Unacked
    <3>4. QED  BY <2>1, <3>1, <3>2, <3>3 DEF Held, In
  <2>6. ASSUME Purge
        PROVE  Held(o) => Held(o)' \/ o \in discarded'
    <3>1. /\ UNCHANGED <<main, link>>
          /\ discarded' = discarded \cup {dlq[i].order : i \in DOMAIN dlq}
      BY <2>6 DEF Purge
    <3>2. In(dlq, o) => o \in discarded'  BY <3>1 DEF In
    <3>3. Unacked' = Unacked  BY <2>1, <3>1 DEF Unacked
    <3>4. QED  BY <2>1, <3>1, <3>2, <3>3 DEF Held, In
  <2>7. ASSUME AckOfReprocessLost
        PROVE  Held(o) => Held(o)'
    <3> DEFINE q == IF Unacked THEN <<job>> \o main ELSE main
    <3>1. q \in Seq(Message) /\ (In(main, o) \/ (Unacked /\ job.order = o) => In(q, o))
      <4>1. CASE Unacked
        <5>1. job \in Message  BY <4>1 DEF TypeOK, Unacked
        <5>2. QED  BY <1>0, <4>1, <5>1, ConcatProperties, QueueChanges
      <4>2. CASE ~ Unacked  BY <1>0, <4>2
      <4>3. QED  BY <4>1, <4>2
    <3> HIDE DEF q
    <3>2. main' = Append(q, Fresh(Head(dlq).order)) /\ dlq' = dlq
      BY <2>7 DEF AckOfReprocessLost, Republished, q
    <3>3. In(q, o) => In(main', o)  BY <3>1, <3>2, QueueChanges
    <3>4. QED  BY <2>1, <3>1, <3>2, <3>3 DEF Held, In
  <2>8. Held(o) \/ Settled(o) \/ o \in dropped \/ o \in discarded  BY <2>1 DEF NoAdminLoss
  <2>9. QED  BY <1>1, <1>3, <2>1, <2>2, <2>4, <2>5, <2>6, <2>7, <2>8 DEF QueueStep
<1>4. CASE UNCHANGED allVars  BY <1>2, <1>4 DEF allVars
<1>5. QED  BY <1>2, <1>3, <1>4, AdminSteps

\* An order that is put back starts to count anew, below its failures.
LEMMA AdminCountStep ==
  TypeOK /\ TypeOK' /\ CountInv /\ HoldInv /\ [AdminNext]_allVars => CountInv'
<1> SUFFICES ASSUME TypeOK, TypeOK', CountInv, HoldInv, [AdminNext]_allVars
             PROVE  CountInv'
  OBVIOUS
<1>1. CASE [Next]_vars  BY <1>1, CountStep
<1>2. CASE QueueStep /\ AdminNext
  <2>0. main \in Seq(Message) /\ dlq \in Seq(Message) /\ failures \in [Orders -> Nat]
    BY DEF TypeOK
  <2>1. UNCHANGED <<retry, pc, job, failures, faults>>  BY <1>2, AdminSteps DEF handlerVars
  <2>2. Messages(dlq') \subseteq Messages(dlq)
    <3>1. CASE dlq' = dlq  BY <3>1
    <3>2. CASE dlq # <<>> /\ dlq' = Tail(dlq)  BY <2>0, <3>2, MessagesOf
    <3>3. CASE dlq' = <<>>  BY <3>3 DEF Messages
    <3>4. QED
      BY <1>2, <3>1, <3>2, <3>3, HeldHead
         DEF QueueStep, PublishBack, Discard, Purge, AckOfReprocessLost
  <2>3. ASSUME NEW m \in Messages(main')
        PROVE  m \in Messages(main) \/ (Unacked /\ m = job) \/ (m.order \in Orders /\ m.retries = 0)
    <3>1. CASE PublishBack
      <4>1. main' = Append(main, Fresh(Head(dlq).order)) /\ Head(dlq).order \in Orders
        BY <3>1, HeldHead DEF PublishBack, Republished
      <4>2. m \in Messages(main) \cup {Fresh(Head(dlq).order)}  BY <2>0, <2>3, <4>1, MessagesOf
      <4>3. QED  BY <4>1, <4>2 DEF Fresh
    <3>2. CASE Discard \/ Purge  BY <2>3, <3>2 DEF Discard, Purge
    <3>3. CASE AckOfReprocessLost
      <4> DEFINE q == IF Unacked THEN <<job>> \o main ELSE main
      <4>1. q \in Seq(Message) /\ \A n \in Messages(q) : n \in Messages(main) \/ (Unacked /\ n = job)
        <5>1. CASE Unacked
          <6>1. job \in Message  BY <5>1 DEF TypeOK, Unacked
          <6>2. QED  BY <2>0, <5>1, <6>1, ConcatProperties, MessagesOf
        <5>2. CASE ~ Unacked  BY <2>0, <5>2
        <5>3. QED  BY <5>1, <5>2
      <4> HIDE DEF q
      <4>2. main' = Append(q, Fresh(Head(dlq).order)) /\ Head(dlq).order \in Orders
        BY <3>3, HeldHead DEF AckOfReprocessLost, Republished, q
      <4>3. m \in Messages(q) \cup {Fresh(Head(dlq).order)}  BY <2>3, <4>1, <4>2, MessagesOf
      <4>4. QED  BY <4>1, <4>2, <4>3 DEF Fresh
    <3>4. QED  BY <1>2, <3>1, <3>2, <3>3 DEF QueueStep
  <2>4. ASSUME NEW m \in Messages(main') \cup Messages(retry')
        PROVE  m.retries <= failures'[m.order]
    <3>1. CASE m.order \in Orders /\ m.retries = 0
      <4>1. failures[m.order] \in Nat  BY <2>0, <3>1
      <4>2. QED  BY <2>1, <3>1, <4>1
    <3>2. CASE m \in Messages(main) \cup Messages(retry)  BY <2>1, <3>2 DEF CountInv
    <3>3. CASE Unacked /\ m = job  BY <2>1, <3>3 DEF CountInv, Unacked
    <3>4. QED  BY <2>1, <2>3, <2>4, <3>1, <3>2, <3>3
  <2>5. DlqMeansExhausted'  BY <2>1, <2>2 DEF CountInv, DlqMeansExhausted, Messages
  <2>6. QED  BY <2>1, <2>4, <2>5 DEF CountInv, ValidMessage
<1>3. CASE UNCHANGED allVars  BY <1>1, <1>3 DEF allVars
<1>4. QED  BY <1>1, <1>2, <1>3, AdminSteps

SafeAdminInv == TypeOK /\ TableInv /\ AdminInv /\ NoAdminLoss

\* The invariant holds in every run.
LEMMA SafeAdmin == AdminSpec => []SafeAdminInv
<1>1. AdminInit => SafeAdminInv
  <2>1. AdminInit => TypeOK /\ TableInv  BY SafeInit DEF AdminInit, SafeInv
  <2>2. AdminInit => AdminInv
    BY DEF AdminInit, AdminInv, AdminTypeOK, AdminRecord, NoRequest, Phases, HoldInv, SweepInv
  <2>3. AdminInit => NoAdminLoss  BY DEF AdminInit, Init, NoAdminLoss
  <2>4. QED  BY <2>1, <2>2, <2>3 DEF SafeAdminInv
<1>2. SafeAdminInv /\ [AdminNext]_allVars => SafeAdminInv'
  BY AdminTableStep, AdminInvStep, NoAdminLossStep DEF SafeAdminInv, AdminInv
<1>3. QED  BY <1>1, <1>2, PTL DEF AdminSpec

\* However requests are cut off, no order is lost but those an administrator
\* removes and those the broker drops.
THEOREM AdminLosesNothing == AdminSpec => []NoAdminLoss
<1>1. SafeAdminInv => NoAdminLoss  BY DEF SafeAdminInv
<1>2. QED  BY SafeAdmin, <1>1, PTL

\* A reprocess-all that ends has moved every message it counted, unless the
\* broker's expiry took some.
THEOREM ReprocessAllMovesAll == AdminSpec => []ReprocessAllComplete
<1>1. SafeAdminInv => ReprocessAllComplete
  BY DEF SafeAdminInv, AdminInv, SweepInv, ReprocessAllComplete
<1>2. QED  BY SafeAdmin, <1>1, PTL

\* Orders put back after they were decided are neither decided again nor
\* charged again.
THEOREM ReprocessingKeepsDecisions == AdminSpec => ReprocessKeepsDecision
<1>1. SafeAdminInv /\ [AdminNext]_allVars => [DecidedOnce]_allVars
  <2> SUFFICES ASSUME SafeAdminInv, AdminNext
               PROVE  DecidedOnce
    BY DEF allVars
  <2>1. CASE [Next]_vars  BY <2>1, DecidedStep DEF SafeAdminInv
  <2>2. CASE QueueStep  BY <2>2, AdminSteps DEF DecidedOnce, tableVars
  <2>3. QED  BY <2>1, <2>2, AdminSteps
<1>2. QED  BY SafeAdmin, <1>1, PTL DEF AdminSpec, ReprocessKeepsDecision

\* A message that is put back and comes to the dead letter queue again has been
\* through all its retries again.
THEOREM AdminDeadLetters == AdminSpec => []DlqMeansExhausted
<1>1. AdminInit => CountInv  BY SafeInit DEF AdminInit, CountedInv
<1>2. SafeAdminInv /\ SafeAdminInv' /\ CountInv /\ [AdminNext]_allVars => CountInv'
  BY AdminCountStep DEF SafeAdminInv, AdminInv
<1>3. AdminSpec => []CountInv  BY SafeAdmin, <1>1, <1>2, PTL DEF AdminSpec
<1>4. CountInv => DlqMeansExhausted  BY DEF CountInv
<1>5. QED  BY <1>3, <1>4, PTL

\* The table keeps its invariants under administration ...
THEOREM AdminKeepsTable == AdminSpec => [](OnePaymentPerOrder /\ DecisionRespected)
<1>1. SafeAdminInv => OnePaymentPerOrder /\ DecisionRespected  BY DEF SafeAdminInv, TableInv
<1>2. QED  BY SafeAdmin, <1>1, PTL

\* ... and the whole still implements the abstract settlement of orders.
THEOREM AdminRefinement == AdminSpec => ImplementsSettlement
<1>1. SafeAdminInv /\ SafeAdminInv' /\ [AdminNext]_allVars => [Abstract!Next]_Pay
  <2> SUFFICES ASSUME SafeAdminInv, SafeAdminInv', [AdminNext]_allVars
               PROVE  [Abstract!Next]_Pay
    OBVIOUS
  <2>1. CASE [Next]_vars  BY <2>1, RefinedStep DEF SafeAdminInv
  <2>2. CASE QueueStep /\ AdminNext
    <3>1. payments' = payments  BY <2>2, AdminSteps DEF tableVars
    <3>2. \A o : PaymentOf(o)' = PaymentOf(o)  BY <3>1 DEF PaymentOf, In
    <3>3. QED  BY <3>2 DEF Pay
  <2>3. CASE UNCHANGED allVars  BY <2>1, <2>3 DEF allVars
  <2>4. QED  BY <2>1, <2>2, <2>3, AdminSteps
<1>2. AdminInit => Abstract!Init  BY RefinedInit DEF AdminInit
<1>3. AdminSpec => [][Abstract!Next]_Pay
  BY <1>1, SafeAdmin, PTL DEF AdminSpec
<1>4. QED  BY <1>2, <1>3, PTL DEF AdminSpec, ImplementsSettlement, Abstract!Spec, Pay
===============================================================================
