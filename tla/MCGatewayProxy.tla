---------------------------- MODULE MCGatewayProxy ----------------------------
(***************************************************************************)
(* GatewayProxy for TLC.                                                   *)
(***************************************************************************)
EXTENDS GatewayProxy, TLC

\* Requests are alike until they are made.
AnyRequest == Permutations(Requests)
===============================================================================
