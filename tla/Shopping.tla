------------------------------- MODULE Shopping -------------------------------
(***************************************************************************)
(* What the cart and the checkout promise a user, without requests, rows   *)
(* or awaits: a cart that holds a quantity of each product, and orders     *)
(* that each keep what was in the cart and what it cost at that moment.    *)
(* An add adds its quantity, a removal takes a product out, a checkout     *)
(* turns a cart that is not empty into an order and leaves an empty one.   *)
(* (The promises of checkout-service/docs/specs/03-gerenciamento-carrinho  *)
(* and 04-finalizacao-do-pedido.)                                          *)
(***************************************************************************)
EXTENDS Naturals, Sequences, FiniteSetsExt

CONSTANTS Products, Price, Quantities

VARIABLES
  cart,     \* [Products -> Nat], how many of each
  placed    \* sequence of [contents, total]

shop == <<cart, placed>>

Empty == [p \in Products |-> 0]

Init == cart = Empty /\ placed = <<>>

Add(p, q) ==
  /\ cart' = [cart EXCEPT ![p] = @ + q]
  /\ UNCHANGED placed

Remove(p) ==
  /\ cart[p] > 0
  /\ cart' = [cart EXCEPT ![p] = 0]
  /\ UNCHANGED placed

PlaceOrder ==
  /\ cart # Empty
  /\ placed' = Append(placed, [contents |-> cart,
                               total |-> MapThenSumSet(LAMBDA p : Price[p] * cart[p], Products)])
  /\ cart' = Empty

Next ==
  \/ \E p \in Products : Remove(p) \/ \E q \in Quantities : Add(p, q)
  \/ PlaceOrder

Spec == Init /\ [][Next]_shop
===============================================================================
