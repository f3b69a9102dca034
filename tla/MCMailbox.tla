----------------------------- MODULE MCMailbox ------------------------------
(***************************************************************************)
(* The instance of Mailbox that TLC checks.                                *)
(***************************************************************************)
EXTENDS Mailbox

CONSTANTS e1, e2, e3, e4
=============================================================================
