---------------------------- MODULE Provisioning ----------------------------
(***************************************************************************)
(* What NodeManager relies on of one guest, and what Guest implements: a   *)
(* guest gets on only while it is powered on, one marker after the other,  *)
(* whoever powers it off takes nothing from what it once reached, and what *)
(* is known of it is never more than that.                                 *)
(***************************************************************************)
EXTENDS GuestStatus

VARIABLES power, stage, answers

True == answers \subseteq Truth(stage)

Init == power = FALSE /\ stage = "blank" /\ True

Switch == power' = ~power /\ UNCHANGED stage

Prepares == power /\ stage = "blank" /\ stage' = "prepared" /\ UNCHANGED power

Starts == power /\ stage = "prepared" /\ stage' = "started" /\ UNCHANGED power

Next ==
    /\ Switch \/ Prepares \/ Starts \/ UNCHANGED <<power, stage>>
    /\ True'

Spec == Init /\ [][Next]_<<power, stage, answers>>
=============================================================================
