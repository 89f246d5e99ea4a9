------------------------------ MODULE NodeLife ------------------------------
(***************************************************************************)
(* The life of a node as a listing shows it.  NodeLedger, and through it   *)
(* NodeManager, implements it; it is all that Observer assumes of the      *)
(* nodes it probes.                                                        *)
(***************************************************************************)
CONSTANTS Node

VARIABLES life

\* A node that is being created is off until its launch.
Life == {"absent", "off", "running", "deleting", "gone"}

\* What may become of a node next: it is defined, powered on and off,
\* condemned and removed, and a UUID lives once.
After(l) ==
    CASE l = "absent" -> {"off"}
      [] l = "off" -> {"running", "deleting"}
      [] l = "running" -> {"off", "deleting"}
      [] l = "deleting" -> {"gone"}
      [] OTHER -> {}

Init == life = [u \in Node |-> "absent"]

Next == \E u \in Node : \E l \in After(life[u]) : life' = [life EXCEPT ![u] = l]

Spec == Init /\ [][Next]_life
=============================================================================
