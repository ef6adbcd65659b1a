--------------------------- MODULE MCConsumerHealth ---------------------------
(***************************************************************************)
(* ConsumerHealth for TLC.                                                 *)
(***************************************************************************)
EXTENDS ConsumerHealth
===============================================================================
