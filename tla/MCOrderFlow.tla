----------------------------- MODULE MCOrderFlow -----------------------------
(***************************************************************************)
(* OrderFlow for TLC: one user, one product.                                *)
(***************************************************************************)
EXTENDS OrderFlow, TLC

CONSTANTS p1

Prices == p1 :> 2

\* Every attempt of every click is a request of Checkout.
ClickAttempts == (1..NumClicks) \X (1..(MaxRetries + 1))
===============================================================================
