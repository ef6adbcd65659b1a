----------------------------- MODULE MCCatalogue -----------------------------
(***************************************************************************)
(* Catalogue for TLC.                                                       *)
(***************************************************************************)
EXTENDS Catalogue, TLC

\* The requests are alike until they are made.
AnyRequest == Permutations(Requests)
===============================================================================
