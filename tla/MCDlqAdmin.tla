------------------------------ MODULE MCDlqAdmin ------------------------------
(***************************************************************************)
(* DlqAdmin for TLC: MaxRetries is 0 or 1 so that messages reach the DLQ    *)
(* after few steps.                                                         *)
(***************************************************************************)
EXTENDS DlqAdmin, TLC

CONSTANTS o1, o2

\* An order that is approved when the database lets it, and one whose message
\* never passes validation.
ApprovedAndInvalid == o1 :> 5000 @@ o2 :> 0

BothInvalid == o1 :> 0 @@ o2 :> 0
===============================================================================
