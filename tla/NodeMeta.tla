------------------------------ MODULE NodeMeta ------------------------------
(***************************************************************************)
(* The durable record of a node, src/k3s_kvm_demo/meta.py: libvirt domain  *)
(* metadata that is at once the provisioning state of the node and the     *)
(* proof that the domain and its two volumes are ours.                     *)
(*                                                                         *)
(* Kept: role, bootstrap, generation and state, the fields the lifecycle   *)
(* branches on.  The volume claims are functions of the node's UUID        *)
(* (names.py), so a node stands for its own two claims.  pool_uuid and     *)
(* scope_prefix are those of this deployment: domains outside the scope    *)
(* are the foreign domains of NodeManager.  created and error are data.    *)
(***************************************************************************)
EXTENDS Naturals

Role == {"server", "agent"}

State == {"creating", "booting", "configuring", "configured", "failed",
          "deleting"}

\* An operation was interrupted half-way and must be completed.
Incomplete == {"creating", "deleting"}

\* What launch recovery may power on again.
Retained == {"booting", "configuring", "configured"}

Metadata == [role : Role, bootstrap : BOOLEAN, generation : Nat, state : State]

\* The record a deploy defines the domain with.
Initial(role, bootstrap) ==
    [role |-> role, bootstrap |-> bootstrap, generation |-> 1,
     state |-> "creating"]

Advanced(m, state) == [m EXCEPT !.state = state]

Bumped(m) == [m EXCEPT !.generation = @ + 1]

\* The record that marks a node for deletion: every holder of the old
\* generation is cut off in the same write.
Condemned(m) == Advanced(Bumped(m), "deleting")
=============================================================================
