---------------------------- MODULE MCDashboard ----------------------------
(* Dashboard on small instances. *)
EXTENDS Dashboard

CONSTANTS c1, c2

MCCred == {c1, c2}
=============================================================================
