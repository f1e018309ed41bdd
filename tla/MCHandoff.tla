----------------------------- MODULE MCHandoff -----------------------------
(* A small instance of Handoff: one handoff for an agent, one for all. *)
EXTENDS Handoff, TLC

CONSTANTS i1, i2, a1, a2, a3

OneForA1 == i1 :> a1 @@ i2 :> All
=============================================================================
