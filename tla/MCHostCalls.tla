---------------------------- MODULE MCHostCalls -----------------------------
(***************************************************************************)
(* The instances of HostCalls that TLC checks.                             *)
(***************************************************************************)
EXTENDS HostCalls, TLC

CONSTANTS o1, o2

Symmetry == Permutations({o1, o2})
=============================================================================
