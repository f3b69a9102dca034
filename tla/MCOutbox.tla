------------------------------ MODULE MCOutbox ------------------------------
(***************************************************************************)
(* The instances of Outbox that TLC checks.                                *)
(***************************************************************************)
EXTENDS Outbox

CONSTANTS r1, o1, o2

Symmetry2 == Permutations({o1, o2})
=============================================================================
