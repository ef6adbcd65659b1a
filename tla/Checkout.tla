------------------------------- MODULE Checkout -------------------------------
(***************************************************************************)
(* checkout-service: the carts and orders of one user, under several HTTP  *)
(* requests of that user in flight at once (CartService and OrdersService, *)
(* with the publish of RabbitmqService at the end of a checkout).          *)
(*                                                                         *)
(* Every await of the code is a step, so requests interleave there; none   *)
(* of them opens a transaction or takes a lock, and no column is unique.   *)
(* A findOne with its eager items is one read.  Names and dates of rows    *)
(* are left out; prices are those of the products at the time of the add.  *)
(***************************************************************************)
EXTENDS Naturals, Sequences, FiniteSets, FiniteSetsExt

CONSTANTS Requests,      \* the requests the user makes
          Products, Price, Quantities,
          MaxInFlight,   \* how many of them overlap
          MaxFaults,     \* bound: database errors
          None           \* no cart, no item, no result yet

\* A row of cart_items.
CartItem == [id : Nat, cart : Nat, product : Products, price : Nat, quantity : Nat,
             subtotal : Nat]

ASSUME CheckoutAssumption ==
  /\ IsFiniteSet(Products) /\ None \notin CartItem /\ None \notin Nat
  /\ Price \in [Products -> Nat \ {0}]
  /\ Quantities \subseteq Nat \ {0}
  /\ MaxInFlight \in Nat /\ MaxFaults \in Nat

VARIABLES
  carts,      \* sequence of [status, total]; the index is the id
  items,      \* set of CartItem
  lastItem,   \* the last item id given
  orders,     \* sequence of [cart, total]
  published,  \* sequence of [order, amount]: the PaymentOrderMessages that
              \* reached the exchange, a repeated one included
  channel,    \* the RabbitMQ channel: "open", "absent" or "closed"
  req,        \* what each request is doing and holds in its locals
  overlapped, \* history: two requests were in flight at some time
  faults

tables == <<carts, items, lastItem, orders>>
vars   == <<tables, published, channel, req, overlapped, faults>>

Running  == {"product", "findCart", "createCart", "writeItem", "deleteItem", "readCart",
             "writeTotal", "saveOrder", "completeCart", "publish"}
InFlight == {r \in Requests : req[r].pc \in Running}

\* A request that has not been made: its operation, inputs and locals.
NotMade == [op |-> None, pc |-> "new", product |-> None, quantity |-> 0, target |-> 0,
            cart |-> None, existing |-> None, total |-> 0, order |-> 0, result |-> None]

ItemsOf(c)    == {i \in items : i.cart = c}
Sum(s)        == MapThenSumSet(LAMBDA i : i.subtotal, s)
ActiveCarts   == {c \in DOMAIN carts : carts[c].status = "active"}

Init ==
  /\ carts = <<>> /\ items = {} /\ lastItem = 0 /\ orders = <<>> /\ published = <<>>
  /\ channel \in {"open", "absent"}
  /\ req = [r \in Requests |-> NotMade]
  /\ overlapped = FALSE /\ faults = 0

-------------------------------------------------------------------------------
Goto(r, pc)     == req' = [req EXCEPT ![r].pc = pc]
Finish(r, res)  == req' = [req EXCEPT ![r].pc = "done", ![r].result = res]

Made(r, request) ==
  /\ req[r].pc = "new" /\ Cardinality(InFlight) < MaxInFlight
  /\ req' = [req EXCEPT ![r] = request]
  /\ overlapped' = (overlapped \/ InFlight # {})
  /\ UNCHANGED <<tables, published, channel, faults>>

\* What the user may ask for: the requests of CartController and OrdersController.
AddOf(p, q)  == [NotMade EXCEPT !.op = "add", !.pc = "product", !.product = p, !.quantity = q]
RemovalOf(t) == [NotMade EXCEPT !.op = "remove", !.pc = "findCart", !.target = t]
Plain(op)    == [NotMade EXCEPT !.op = op, !.pc = "findCart"]

Asked ==
  {AddOf(p, q) : p \in Products, q \in Quantities} \cup {RemovalOf(t) : t \in 1..lastItem}
  \cup {Plain(op) : op \in {"get", "checkout"}}

Arrive(r) == \E a \in Asked : Made(r, a)

\* ProductsClientService.findById: found and active, or the add is refused, or
\* products-service does not answer (503).
FindProduct(r) ==
  /\ req[r].pc = "product"
  /\ Goto(r, "findCart") \/ Finish(r, "refused") \/ Finish(r, "error")
  /\ UNCHANGED <<tables, published, channel, overlapped, faults>>

\* What a request does once findActiveCartEntity answered with no cart ...
WithoutCart(r) ==
  \/ req[r].op = "add" /\ Goto(r, "createCart")
  \/ req[r].op = "get" /\ Finish(r, "ok")
  \/ req[r].op \in {"remove", "checkout"} /\ Finish(r, "refused")

ItemsOfProduct(c, p) == {i \in ItemsOf(c) : i.product = p}
Existing(c, p) == LET same == ItemsOfProduct(c, p) IN IF same = {} THEN {None} ELSE same

\* ... and with cart c, whose items came with it.
WithCart(r, c) ==
  \/ /\ req[r].op = "add"
     /\ \E e \in Existing(c, req[r].product) :
          req' = [req EXCEPT ![r].pc = "writeItem", ![r].cart = c, ![r].existing = e]
  \/ /\ req[r].op = "get"
     /\ req' = [req EXCEPT ![r].pc = "readCart", ![r].cart = c]
  \/ /\ req[r].op = "remove"
     /\ \E i \in ItemsOf(c) : i.id = req[r].target
     /\ req' = [req EXCEPT ![r].pc = "deleteItem", ![r].cart = c]
  \/ /\ req[r].op = "remove"
     /\ \A i \in ItemsOf(c) : i.id # req[r].target
     /\ Finish(r, "refused")
  \/ /\ req[r].op = "checkout" /\ ItemsOf(c) # {}
     /\ req' = [req EXCEPT ![r].pc = "saveOrder", ![r].cart = c, ![r].total = carts[c].total]
  \/ /\ req[r].op = "checkout" /\ ItemsOf(c) = {}
     /\ Finish(r, "refused")

FindCart(r) ==
  /\ req[r].pc = "findCart"
  /\ \/ ActiveCarts = {} /\ WithoutCart(r)
     \/ \E c \in ActiveCarts : WithCart(r, c)
  /\ UNCHANGED <<tables, published, channel, overlapped, faults>>

CreateCart(r) ==
  /\ req[r].pc = "createCart"
  /\ carts' = Append(carts, [status |-> "active", total |-> 0])
  /\ req' = [req EXCEPT ![r].pc = "writeItem", ![r].cart = Len(carts) + 1]
  /\ UNCHANGED <<items, lastItem, orders, published, channel, overlapped, faults>>

NewItem(r) ==
  LET p == req[r].product IN
  [id |-> lastItem + 1, cart |-> req[r].cart, product |-> p, price |-> Price[p],
   quantity |-> req[r].quantity, subtotal |-> Price[p] * req[r].quantity]

\* Mutant: only the subtotal is updated.
WithSubtotalOnly(i, q) == [i EXCEPT !.subtotal = i.price * q]
WithQuantity(i, q) == [i EXCEPT !.quantity = q, !.subtotal = i.price * q]

\* The existing item is updated from the quantity read with the cart (a row
\* deleted meanwhile is not touched); otherwise a new item is inserted.
WriteItem(r) ==
  /\ req[r].pc = "writeItem"
  /\ LET e == req[r].existing IN
     IF e = None
     THEN items' = items \cup {NewItem(r)} /\ lastItem' = lastItem + 1
     ELSE /\ items' = {IF i.id = e.id THEN WithQuantity(i, e.quantity + req[r].quantity) ELSE i :
                         i \in items}
          /\ lastItem' = lastItem
  /\ Goto(r, "readCart")
  /\ UNCHANGED <<carts, orders, published, channel, overlapped, faults>>

\* Mutant: the cart is not rebuilt after the delete.
DeleteItemOnly(r) ==
  /\ req[r].pc = "deleteItem"
  /\ items' = {i \in items : i.id # req[r].target}
  /\ Finish(r, "ok")
  /\ UNCHANGED <<carts, lastItem, orders, published, channel, overlapped, faults>>

DeleteItem(r) ==
  /\ req[r].pc = "deleteItem"
  /\ items' = {i \in items : i.id # req[r].target}
  /\ Goto(r, "readCart")
  /\ UNCHANGED <<carts, lastItem, orders, published, channel, overlapped, faults>>

\* rebuildCartResponse: the total of the items as read ...
ReadCart(r) ==
  /\ req[r].pc = "readCart"
  /\ req' = [req EXCEPT ![r].pc = "writeTotal", ![r].total = Sum(ItemsOf(req[r].cart))]
  /\ UNCHANGED <<tables, published, channel, overlapped, faults>>

\* Mutant: the whole entity is saved, with the status it was found with.
WriteTotalAndStatus(r) ==
  /\ req[r].pc = "writeTotal"
  /\ carts' = [carts EXCEPT ![req[r].cart] = [status |-> "active", total |-> req[r].total]]
  /\ Finish(r, "ok")
  /\ UNCHANGED <<items, lastItem, orders, published, channel, overlapped, faults>>

\* ... is written to the cart, whatever its status is by then.
WriteTotal(r) ==
  /\ req[r].pc = "writeTotal"
  /\ carts' = [carts EXCEPT ![req[r].cart].total = req[r].total]
  /\ Finish(r, "ok")
  /\ UNCHANGED <<items, lastItem, orders, published, channel, overlapped, faults>>

\* Mutant: a publish is repeated, though the first one got through.
SentAgain(m) == IF channel = "open" THEN published \o <<m, m>> ELSE published

\* publishMessage returns whether or not there is a channel to publish on, and
\* swallows the error of a closed one.
Sent(m) == IF channel = "open" THEN Append(published, m) ELSE published

\* Mutant: the message is published before the cart is completed.
SaveOrderAndPublish(r) ==
  /\ req[r].pc = "saveOrder"
  /\ orders' = Append(orders, [cart |-> req[r].cart, total |-> req[r].total])
  /\ published' = Sent([order |-> Len(orders) + 1, amount |-> req[r].total])
  /\ req' = [req EXCEPT ![r].pc = "completeCart", ![r].order = Len(orders) + 1]
  /\ UNCHANGED <<carts, items, lastItem, channel, overlapped, faults>>

SaveOrder(r) ==
  /\ req[r].pc = "saveOrder"
  /\ orders' = Append(orders, [cart |-> req[r].cart, total |-> req[r].total])
  /\ req' = [req EXCEPT ![r].pc = "completeCart", ![r].order = Len(orders) + 1]
  /\ UNCHANGED <<carts, items, lastItem, published, channel, overlapped, faults>>

\* Mutant: the cart stays active.
CompleteNothing(r) ==
  /\ req[r].pc = "completeCart"
  /\ Goto(r, "publish")
  /\ UNCHANGED <<carts, items, lastItem, orders, published, channel, overlapped, faults>>

CompleteCart(r) ==
  /\ req[r].pc = "completeCart"
  /\ carts' = [carts EXCEPT ![req[r].cart].status = "completed"]
  /\ Goto(r, "publish")
  /\ UNCHANGED <<items, lastItem, orders, published, channel, overlapped, faults>>

\* Mutant: the amount is the cart's total at the time of the publish.
PublishCartTotal(r) ==
  /\ req[r].pc = "publish"
  /\ published' = Sent([order |-> req[r].order, amount |-> carts[req[r].cart].total])
  /\ Finish(r, "ok")
  /\ UNCHANGED <<tables, channel, overlapped, faults>>

\* Mutant: what follows the publish may throw.
PublishThrowing(r) ==
  /\ req[r].pc = "publish"
  /\ published' = Sent([order |-> req[r].order, amount |-> req[r].total])
  /\ Finish(r, "ok") \/ Finish(r, "error")
  /\ UNCHANGED <<tables, channel, overlapped, faults>>

\* The request answers 201 whatever became of the message.
Publish(r) ==
  /\ req[r].pc = "publish"
  /\ published' = Sent([order |-> req[r].order, amount |-> req[r].total])
  /\ Finish(r, "ok")
  /\ UNCHANGED <<tables, channel, overlapped, faults>>

\* A database call of the request fails and the request answers 500.
DatabaseError(r) ==
  /\ req[r].pc \in Running \ {"product", "publish"} /\ faults < MaxFaults
  /\ faults' = faults + 1
  /\ Finish(r, "error")
  /\ UNCHANGED <<tables, published, channel, overlapped>>

\* The process dies with whatever is in flight and is started again, with or
\* without a broker to connect to.
Restart ==
  /\ faults < MaxFaults
  /\ faults' = faults + 1
  /\ req' = [r \in Requests |-> IF r \in InFlight
                                THEN [req[r] EXCEPT !.pc = "done", !.result = "error"]
                                ELSE req[r]]
  /\ channel' \in {"open", "absent"}
  /\ UNCHANGED <<tables, published, overlapped>>

\* The broker goes away; the service never opens another channel.
LoseChannel ==
  /\ channel = "open"
  /\ channel' = "closed"
  /\ UNCHANGED <<tables, published, req, overlapped, faults>>

-------------------------------------------------------------------------------
Handle(r) ==
  \/ FindProduct(r) \/ FindCart(r) \/ CreateCart(r) \/ WriteItem(r) \/ DeleteItem(r)
  \/ ReadCart(r) \/ WriteTotal(r) \/ SaveOrder(r) \/ CompleteCart(r) \/ Publish(r)

Next ==
  \/ \E r \in Requests : Arrive(r) \/ Handle(r) \/ DatabaseError(r)
  \/ Restart \/ LoseChannel

Spec == Init /\ [][Next]_vars

-------------------------------------------------------------------------------
(* Properties that hold however the requests interleave *)

CartStatus == {"active", "completed"}

\* A completed cart is never active again: the total that a slower request
\* writes back does not carry the status it read.
CompletedStays ==
  [][\A c \in DOMAIN carts : carts[c].status = "completed" => carts'[c].status = "completed"]_vars

\* The payment asked for is the order's, and is asked for once: a published
\* message names an order that was saved with that amount, its cart is no longer
\* the active one by then, and no other message, equal or not, names the order.
MessageMatchesOrder ==
  \A i \in DOMAIN published :
    LET o == published[i].order IN
    /\ published[i].amount = orders[o].total
    /\ carts[orders[o].cart].status = "completed"
    /\ \A j \in DOMAIN published : published[j].order = o => i = j

-------------------------------------------------------------------------------
(* The rules of docs/specs/03 and 04, which hold of requests one at a time *)

\* So far no request was made while another was in flight, and none was cut off.
Orderly == ~ overlapped /\ faults = 0
Quiet   == InFlight = {}

\* What the items of a cart cost, at the prices of the time they were added.
Cost(c) == MapThenSumSet(LAMBDA i : i.price * i.quantity, ItemsOf(c))

\* Between requests a cart's total is what its items cost, also after the cart
\* was completed and others were made.
TotalIsSum == Orderly /\ Quiet => \A c \in DOMAIN carts : carts[c].total = Cost(c)

\* A checkout that answers 201 has asked for the payment of its order.
Accepted(op) == {r \in Requests : req[r].op = op /\ req[r].result = "ok"}
CheckoutAsksForPayment ==
  \A r \in Accepted("checkout") :
    \E i \in DOMAIN published : published[i].order = req[r].order

-------------------------------------------------------------------------------
(* One request at a time, the tables are the abstract cart and its orders *)

QuantityIn(cs, p) ==
  MapThenSumSet(LAMBDA i : i.quantity, {i \in items : i.cart \in cs /\ i.product = p})
Contents(cs) == [p \in Products |-> QuantityIn(cs, p)]

\* A cart is the user's until it has an order: an order takes effect with its
\* row, before the cart is completed.
Ordered == {orders[k].cart : k \in DOMAIN orders}

Abstract == INSTANCE Shopping WITH
  cart   <- Contents(ActiveCarts \ Ordered),
  placed <- [k \in DOMAIN orders |->
               [contents |-> Contents({orders[k].cart}), total |-> orders[k].total]]

\* Requests one at a time, none of which was cut off, do what the documentation
\* says of each: an accepted add counts once and in one item, a removal takes
\* the product out, the order has the contents and the price of the whole cart,
\* and nothing that follows changes either or orders the cart again.
ImplementsShopping ==
  Abstract!Init /\ [][Orderly' => [Abstract!Next]_(Abstract!shop)]_vars
===============================================================================
