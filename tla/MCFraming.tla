----------------------------- MODULE MCFraming -----------------------------
(* Instances of Framing for TLC: every stream of up to STREAM bytes. *)
EXTENDS Framing
=============================================================================
