------------------------------- MODULE MCPool -------------------------------
(* Pool on small instances. *)
EXTENDS Pool

CONSTANTS here, there, f1, v1, p1, p2

MCDir == {here, there}
MCForeign == {f1}
MCOverlay == {v1}
MCProcess == {p1, p2}
=============================================================================
