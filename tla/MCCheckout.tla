------------------------------ MODULE MCCheckout ------------------------------
(***************************************************************************)
(* Checkout for TLC: one user, two products of different prices.            *)
(***************************************************************************)
EXTENDS Checkout, TLC

CONSTANTS p1, p2

Prices == p1 :> 2 @@ p2 :> 3

\* The requests are alike until they are made.
AnyRequest == Permutations(Requests)
===============================================================================
