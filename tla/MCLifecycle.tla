---------------------------- MODULE MCLifecycle -----------------------------
(***************************************************************************)
(* The instance of Lifecycle that TLC checks.                              *)
(***************************************************************************)
EXTENDS Lifecycle

CONSTANTS h1, h2, h3
=============================================================================
