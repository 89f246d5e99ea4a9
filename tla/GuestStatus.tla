---------------------------- MODULE GuestStatus ----------------------------
(***************************************************************************)
(* What the dashboard can learn of a guest: "k3s-demo-guest status", as    *)
(* the observer reads it (observer.py, _observe).  Guest answers it, and   *)
(* NodeManager writes what it argues for into the record of the node.      *)
(***************************************************************************)

\* How far a guest ever got: its prepared marker was written, its started
\* marker was.
Stage == {"blank", "prepared", "started"}

\* "none" is no status, and every status that argues for no state: the guest
\* has no identity yet, or waits for its preparation.
Evidence == {"none", "prepare-failed", "prepared", "started"}

\* A marker that did not reach the disk is lost with the power, so a guest may
\* answer less than it once did.  It never answers more.
Truth(stage) ==
    {"none", "prepare-failed"}
        \cup (IF stage # "blank" THEN {"prepared"} ELSE {})
        \cup (IF stage = "started" THEN {"started"} ELSE {})
=============================================================================
