------------------------------ MODULE MCPrune ------------------------------
(* Prune on small instances. *)
EXTENDS Prune

CONSTANTS r1, r2, a1

MCRequest == {r1, r2}
OneRequest == {r1}
MCAlien == {a1}
NoAlien == {}
=============================================================================
