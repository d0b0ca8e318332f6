----------------------------- MODULE MCOutputs -----------------------------
(* Outputs with two relays, the two that must not stay on.                 *)
EXTENDS Outputs

MCOutput == {"auger", "igniter"}
=============================================================================
