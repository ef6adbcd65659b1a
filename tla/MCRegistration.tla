---------------------------- MODULE MCRegistration ----------------------------
(***************************************************************************)
(* Registration for TLC: two clients after the same e-mail.                *)
(***************************************************************************)
EXTENDS Registration, TLC

AnyClient == Permutations(Clients)
===============================================================================
