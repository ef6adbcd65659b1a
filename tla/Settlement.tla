------------------------------ MODULE Settlement ------------------------------
(***************************************************************************)
(* What the payments service promises about an order, without queues,      *)
(* workers, crashes or a database: an order has no payment, then a pending *)
(* one, then a decided one.  The decision is the one the gateway's rules   *)
(* give for the order's amount, an approval carries the number of one      *)
(* gateway transaction, and a decided payment never changes again.         *)
(* (The promises of payments-service/docs/specs/01-processamento-          *)
(* pagamento.md, RF03 and "Regras de Negócio".)                            *)
(***************************************************************************)
EXTENDS Naturals

CONSTANTS Orders,            \* identifiers of the orders to be paid
          Decision           \* [Orders -> Final], what the gateway's rules say

VARIABLE payment             \* [Orders -> [status, txn]]

NoPayment == [status |-> "none", txn |-> 0]
Pending   == [status |-> "pending", txn |-> 0]
Final     == {"approved", "rejected"}

Init == payment = [o \in Orders |-> NoPayment]

Open(o) ==
  /\ payment[o] = NoPayment
  /\ payment' = [payment EXCEPT ![o] = Pending]

\* An approval names a transaction (numbered from 1), a rejection none.
Decide(o) ==
  /\ payment[o] = Pending
  /\ \E t \in {payment'[o].txn} :
       /\ t \in Nat
       /\ Decision[o] = "approved" <=> t > 0
       /\ payment' = [payment EXCEPT ![o] = [status |-> Decision[o], txn |-> t]]

Next == \E o \in Orders : Open(o) \/ Decide(o)

Spec == Init /\ [][Next]_payment
===============================================================================
