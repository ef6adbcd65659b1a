-------------------------- MODULE MCPaymentPipeline --------------------------
(***************************************************************************)
(* PaymentPipeline for TLC: three orders whose amounts take the branches of *)
(* the gateway's rules and of the validation.                               *)
(***************************************************************************)
EXTENDS PaymentPipeline, TLC

CONSTANTS o1, o2, o3

\* An order that is approved, one that ends in .99, and one checked out with
\* total 0, which the consumer's validation refuses.
EachOutcome == o1 :> 5000 @@ o2 :> 19999 @@ o3 :> 0
===============================================================================
