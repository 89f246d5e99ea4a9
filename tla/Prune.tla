------------------------------- MODULE Prune -------------------------------
(***************************************************************************)
(* "Prune nodes" (cluster.py prune_nodes, and the route in app.py that     *)
(* calls it): delete the Kubernetes Node objects that have no managed      *)
(* domain behind them, with kubectl commands that run inside a guest.      *)
(*                                                                         *)
(* A request lists the managed nodes, picks a server among them, lists the *)
(* Node objects through that server's guest agent, without a lock, and     *)
(* looks at each candidate again under the manager's lock, which it keeps  *)
(* while kubectl deletes it. Meanwhile nodes are deployed, join, are       *)
(* killed and lose power; the server may die under the request; a command  *)
(* outlives the request that gave up waiting for it, and takes effect      *)
(* later. Requests run beside one another, in the server's thread pool.    *)
(*                                                                         *)
(* Nodes are numbered in the order of their creation: names are drawn from *)
(* fresh UUIDs and never recycled (names.py), so a number is used once.    *)
(***************************************************************************)
EXTENDS Integers, FiniteSets

CONSTANTS
    MaxNodes,   \* bound on nodes ever deployed
    Alien,      \* names of Node objects this deployment could not have issued
    Request,    \* the requests to prune, one run of the route each
    None        \* nobody holds the lock; no server, no candidate

ASSUME PruneAssumption ==
    /\ MaxNodes \in Nat
    /\ Alien \cap Int = {}
    /\ None \notin Request /\ None \notin Alien /\ None \notin Int

Node == 1..MaxNodes

VARIABLES
    \* libvirt
    dom,        \* each node's domain
    servers,    \* the nodes that are control plane nodes
    configured, \* the nodes whose durable state is "configured"
    compatible, \* no domain has metadata of another version
    \* the cluster
    objects,    \* its Node objects
    commands,   \* the kubectl commands that run in guests
    \* the manager, and each request's progress
    lock,
    pc,
    alive,      \* the nodes of its snapshot
    server,     \* the node whose guest runs kubectl for it
    todo,       \* the names listed and not yet looked at
    candidate,  \* the one it looks at; None: it is listing
    reply,      \* what the command it waits for has come to
    deleted, failed, \* PruneResult
    stale       \* the objects that were stale when it began

libvirt == <<dom, servers, configured, compatible>>
cluster == <<objects, commands>>
results == <<deleted, failed>>
locals  == <<alive, server, todo, candidate, reply, results, stale>>
vars == <<libvirt, cluster, lock, pc, locals>>

Name == Node \cup Alien
Managed == {n \in Node : dom[n] \in {"on", "off"}}
Running == {n \in Node : dom[n] = "on"}
Gone == {n \in Node : dom[n] = "gone"}

\* The states in which a request waits for a guest's command, and those in
\* which it holds the lock.
Waiting == {"listing", "deleting"}
Holding == {"locked", "delete", "deleting"}

TypeOK ==
    /\ dom \in [Node -> {"unused", "on", "off", "gone"}]
    /\ servers \subseteq Node /\ configured \subseteq Node
    /\ compatible \in BOOLEAN
    /\ objects \subseteq Name
    /\ commands \subseteq [in : Node, delete : Name \cup {None}, for : Request]
    /\ lock \in Request \cup {None}
    /\ pc \in [Request -> {"idle", "list", "next", "done", "raised"}
                            \cup Waiting \cup Holding]
    /\ alive \in [Request -> SUBSET Node]
    /\ server \in [Request -> Node \cup {None}]
    /\ todo \in [Request -> SUBSET Name]
    /\ candidate \in [Request -> Name \cup {None}]
    /\ reply \in [Request -> {"none", "ok", "error"}]
    /\ deleted \in [Request -> SUBSET Name]
    /\ failed \in [Request -> SUBSET Name]
    /\ stale \in [Request -> SUBSET Node]
    /\ \A r \in Request : lock = r <=> pc[r] \in Holding

Init ==
    /\ dom = [n \in Node |-> "unused"] /\ servers = {} /\ configured = {}
    /\ compatible = TRUE /\ objects = {} /\ commands = {}
    /\ lock = None
    /\ pc = [r \in Request |-> "idle"]
    /\ alive = [r \in Request |-> {}] /\ server = [r \in Request |-> None]
    /\ todo = [r \in Request |-> {}] /\ candidate = [r \in Request |-> None]
    /\ reply = [r \in Request |-> "none"]
    /\ deleted = [r \in Request |-> {}] /\ failed = [r \in Request |-> {}]
    /\ stale = [r \in Request |-> {}]
-----------------------------------------------------------------------------
(***************************************************************************)
(* The nodes, and those who create and delete them under the same lock.    *)
(***************************************************************************)
\* Running, configured control plane nodes.
Usable == servers \cap configured \cap Running

\* plan and create: the first node bootstraps a cluster, others join it.
Deploy(n, isServer) ==
    /\ lock = None
    /\ dom[n] = "unused" /\ \A m \in 1..(n - 1) : dom[m] # "unused"
    /\ \/ Managed = {} /\ isServer /\ objects' = {}
       \/ Usable # {} /\ UNCHANGED objects
    /\ dom' = [dom EXCEPT ![n] = "on"]
    /\ servers' = IF isServer THEN servers \cup {n} ELSE servers
    /\ UNCHANGED <<configured, compatible, commands, lock, pc, locals>>

\* What runs in a guest ends with it, and the agent forgets what had run.
Stopped(n) ==
    /\ commands' = {c \in commands : c.in # n}
    /\ reply' = [r \in Request |-> IF server[r] = n THEN "none" ELSE reply[r]]
    /\ UNCHANGED <<servers, configured, compatible, objects, lock, pc, alive,
                   server, todo, candidate, results, stale>>

\* delete, and reset for each node.
Kill(n) ==
    /\ lock = None
    /\ n \in Managed /\ dom' = [dom EXCEPT ![n] = "gone"]
    /\ Stopped(n)

\* A node is retained when it loses power, and may be started again.
Power(n) ==
    /\ \/ dom[n] = "on" /\ dom' = [dom EXCEPT ![n] = "off"]
       \/ dom[n] = "off" /\ dom' = [dom EXCEPT ![n] = "on"]
    /\ Stopped(n)

\* k3s in a guest registers its Node object, or somebody else's machine does.
Join(n) ==
    /\ n \in Running \cup Alien
    /\ servers \cap Running # {}
    /\ objects' = objects \cup {n}
    /\ UNCHANGED <<libvirt, commands, lock, pc, locals>>

\* The observer's probes have come to pass (update_state, under the lock).
Configure(n) ==
    /\ lock = None
    /\ n \in Managed \cap objects
    /\ configured' = configured \cup {n}
    /\ UNCHANGED <<dom, servers, compatible, cluster, lock, pc, locals>>

\* An administrator defines a domain of an older version, or removes it.
Redefine ==
    /\ compatible' = ~compatible
    /\ UNCHANGED <<dom, servers, configured, cluster, lock, pc, locals>>
-----------------------------------------------------------------------------
(***************************************************************************)
(* A request. guestexec.run starts a command in the server's guest, polls  *)
(* until it has exited or the deadline has passed, and cannot stop it.     *)
(***************************************************************************)
Goto(r, label) == pc' = [pc EXCEPT ![r] = label]

\* prune_nodes is left, and its locals with it.
Leave(r, label) ==
    /\ Goto(r, label)
    /\ alive' = [alive EXCEPT ![r] = {}] /\ server' = [server EXCEPT ![r] = None]
    /\ todo' = [todo EXCEPT ![r] = {}] /\ candidate' = [candidate EXCEPT ![r] = None]
    /\ reply' = [reply EXCEPT ![r] = "none"]

\* By an exception: the lock is released if it is held, and what had been
\* deleted goes unreported.
Raise(r) ==
    /\ Leave(r, "raised")
    /\ lock' = IF pc[r] \in Holding THEN None ELSE lock
    /\ deleted' = [deleted EXCEPT ![r] = {}] /\ failed' = [failed EXCEPT ![r] = {}]
    /\ stale' = [stale EXCEPT ![r] = {}]
    /\ UNCHANGED libvirt

\* The route's snapshot, and pick_server: the oldest usable one. A request
\* that finds none does nothing more.
Snapshot(r) ==
    /\ pc[r] = "idle" /\ compatible
    /\ \E s \in Usable : /\ \A other \in Usable : s <= other
                        /\ server' = [server EXCEPT ![r] = s]
    /\ Goto(r, "list")
    /\ alive' = [alive EXCEPT ![r] = Managed]
    /\ stale' = [stale EXCEPT ![r] = objects \cap Gone]
    /\ UNCHANGED <<libvirt, cluster, lock, todo, candidate, reply, results>>

\* The command that a request starts: to delete its candidate, or to list.
Command(r) == [in |-> server[r], delete |-> candidate[r], for |-> r]

Start(r) ==
    /\ server[r] \in Running
    /\ \/ pc[r] = "list" /\ Goto(r, "listing")
       \/ pc[r] = "delete" /\ Goto(r, "deleting")
    /\ commands' = commands \cup {Command(r)}
    /\ reply' = [reply EXCEPT ![r] = "none"]
    /\ UNCHANGED <<libvirt, objects, lock, alive, server, todo, candidate, results, stale>>

\* In the guest, at last, and maybe with nobody waiting for it any more:
\* kubectl get reads the objects, or kubectl delete removes one, or they give
\* up. A deletion that is not seen to its end fails as well.
Runs(c) ==
    /\ commands' = commands \ {c}
    /\ \E ok \in BOOLEAN :
          /\ \/ c.delete = None /\ UNCHANGED objects
             \/ c.delete \in objects /\ objects' = objects \ {c.delete}
             \/ ~ok /\ UNCHANGED objects
          /\ \/ /\ pc[c.for] \in Waiting
                /\ reply' = [reply EXCEPT ![c.for] = IF ok THEN "ok" ELSE "error"]
                /\ todo' = IF c.delete = None /\ ok
                             THEN [todo EXCEPT ![c.for] = objects] ELSE todo
             \/ pc[c.for] \notin Waiting /\ UNCHANGED <<reply, todo>>
    /\ UNCHANGED <<libvirt, lock, pc, alive, server, candidate, results, stale>>

\* A poll returns the list, or kubectl get's failure (NoServerAvailable).
Listed(r) ==
    /\ pc[r] = "listing" /\ server[r] \in Running
    /\ \/ reply[r] = "ok" /\ Goto(r, "next") /\ UNCHANGED <<libvirt, lock, locals>>
       \/ reply[r] = "error" /\ Raise(r)
    /\ UNCHANGED cluster

\* The names that are not for this request to look at.
Skipped(r) == Alien \cup alive[r]

\* The next candidate, and with manager.lock.
Lock(r) ==
    /\ pc[r] = "next" /\ lock = None
    /\ \E n \in todo[r] \ Skipped(r) :
          /\ candidate' = [candidate EXCEPT ![r] = n]
          /\ todo' = [todo EXCEPT ![r] = @ \ {n}]
    /\ lock' = r /\ Goto(r, "locked")
    /\ UNCHANGED <<libvirt, cluster, alive, server, reply, results, stale>>

\* Another version's metadata ends the request (check_compatible).
Incompatible(r) ==
    pc[r] = "locked" /\ ~compatible /\ Raise(r) /\ UNCHANGED cluster

\* Mutant: the lock is not released on the way to the next candidate.
FoundKeepsLock(r) ==
    /\ pc[r] = "locked" /\ compatible
    /\ candidate[r] \in Managed
    /\ Goto(r, "next")
    /\ UNCHANGED <<libvirt, cluster, lock, locals>>

\* manager.get: a managed domain, whatever its power, is left alone ...
Found(r) ==
    /\ pc[r] = "locked" /\ compatible
    /\ candidate[r] \in Managed
    /\ Goto(r, "next") /\ lock' = None
    /\ UNCHANGED <<libvirt, cluster, locals>>

\* Mutant: the snapshot is trusted, nothing is looked at again.
NotLookedAt(r) ==
    /\ pc[r] = "locked" /\ compatible
    /\ Goto(r, "delete")
    /\ UNCHANGED <<libvirt, cluster, lock, locals>>

\* ... and NodeNotFound leads to the deletion.
NotFound(r) ==
    /\ pc[r] = "locked" /\ compatible
    /\ candidate[r] \notin Managed
    /\ Goto(r, "delete")
    /\ UNCHANGED <<libvirt, cluster, lock, locals>>

\* Mutant: a deletion that failed is dropped from the report.
DeletedIfOk(r) ==
    /\ pc[r] = "deleting" /\ server[r] \in Running
    /\ \/ reply[r] = "ok" /\ deleted' = [deleted EXCEPT ![r] = @ \cup {candidate[r]}]
       \/ reply[r] = "error" /\ UNCHANGED deleted
    /\ Goto(r, "next") /\ lock' = None
    /\ UNCHANGED <<libvirt, cluster, alive, server, todo, candidate, reply, failed, stale>>

\* A poll returns what became of the deletion, and the lock is released.
Deleted(r) ==
    /\ pc[r] = "deleting" /\ server[r] \in Running
    /\ \/ reply[r] = "ok" /\ UNCHANGED failed
          /\ deleted' = [deleted EXCEPT ![r] = @ \cup {candidate[r]}]
       \/ reply[r] = "error" /\ UNCHANGED deleted
          /\ failed' = [failed EXCEPT ![r] = @ \cup {candidate[r]}]
    /\ Goto(r, "next") /\ lock' = None
    /\ UNCHANGED <<libvirt, cluster, alive, server, todo, candidate, reply, stale>>

\* Mutant: the host waits for as long as the command takes.
NoDeadline(r) == FALSE /\ pc[r] \in Waiting /\ Raise(r) /\ UNCHANGED cluster

\* The deadline passes: before the command ends, or with its result in hand.
Deadline(r) ==
    pc[r] \in Waiting /\ Raise(r) /\ UNCHANGED cluster

\* A call to libvirt or to the agent fails; a command may have been started all
\* the same, its reply lost.
Fails(r) ==
    /\ pc[r] \in {"list"} \cup Waiting \cup Holding
    /\ Raise(r) /\ UNCHANGED objects
    /\ \/ UNCHANGED commands
       \/ /\ pc[r] \in {"list", "delete"} /\ server[r] \in Running
          /\ commands' = commands \cup {Command(r)}

\* The server's guest is not there to start a command.
Unreachable(r) ==
    /\ pc[r] \in {"list", "delete"} /\ server[r] \notin Running
    /\ Raise(r) /\ UNCHANGED cluster

Finish(r) ==
    /\ pc[r] = "next" /\ todo[r] \subseteq Skipped(r)
    /\ Leave(r, "done")
    /\ UNCHANGED <<libvirt, cluster, lock, results, stale>>
-----------------------------------------------------------------------------
(***************************************************************************)
(* assess_quorum: the advice shown beside the nodes, for the managed       *)
(* control plane nodes and those of them that run.                         *)
(***************************************************************************)
\* Mutant: half of them is taken for a quorum.
NeededHalf(count) == IF count > 0 THEN (count + 1) \div 2 ELSE 0

Needed(count) == IF count > 0 THEN count \div 2 + 1 ELSE 0

Warning(count, running) ==
    IF count > 0 /\ running < Needed(count) THEN "down"
    ELSE IF count > 1 /\ count % 2 = 0 THEN "even"
    ELSE "none"
-----------------------------------------------------------------------------
\* What a request does by itself, its deadlines included.
Step(r) ==
    \/ Start(r) \/ Listed(r)
    \/ Lock(r) \/ Incompatible(r) \/ Found(r) \/ NotFound(r)
    \/ Deleted(r) \/ Deadline(r) \/ Unreachable(r) \/ Finish(r)

Others ==
    \/ \E n \in Node : \/ \E isServer \in BOOLEAN : Deploy(n, isServer)
                       \/ Kill(n) \/ Power(n) \/ Configure(n)
    \/ \E n \in Name : Join(n)
    \/ Redefine
    \/ \E c \in commands : Runs(c)
    \/ \E r \in Request : Snapshot(r) \/ Fails(r)

Next == Others \/ \E r \in Request : Step(r)

Spec == Init /\ [][Next]_vars

\* A request's thread runs on, and run's deadline passes (an agent call has a
\* timeout of its own). Nobody else's progress is assumed: not that kubectl
\* ends, not that a guest runs.
FairSpec == Spec /\ \A r \in Request : WF_vars(Step(r))
-----------------------------------------------------------------------------
\* The Node object of a node whose domain is there, running or not, is never
\* deleted, nor is anybody else's: not by a request whose snapshot predates
\* the node, not by a command that takes effect long after its request gave up.
\* Only a new cluster begins without them.
MembersStay ==
    [][Managed # {} => objects \ objects' \subseteq Gone]_vars

\* What a request reports as deleted is no longer there, nor does it return; and
\* a request that comes to its end accounts for everything that was stale when
\* it began: it is gone, or reported as not removed.
DeletedIsGone == \A r \in Request : deleted[r] \cap objects = {}
StaleIsReported ==
    \A r \in Request : pc[r] = "done" => stale[r] \cap objects \subseteq failed[r]
ReportIsTrue == DeletedIsGone /\ StaleIsReported

\* A request comes to its end, and gives the lock back, though its commands
\* may never do.
PruneEnds ==
    \A r \in Request :
        pc[r] # "idle" ~> pc[r] \in {"done", "raised"} /\ lock # r

\* The failures that count control plane nodes survive: the largest number
\* that leaves more than half of them.
Tolerance(count) == CHOOSE f \in 0..count : 2 * (count - f) > count
                                            /\ 2 * (count - f - 1) <= count

\* The advice: "down" exactly when the running control plane nodes are no
\* majority of the managed ones, "even" exactly when one node less would
\* survive as many failures.
AdviceIsRight ==
    LET count == Cardinality(Managed \cap servers)
        running == Cardinality(Managed \cap servers \cap Running)
        warning == Warning(count, running)
    IN  /\ warning = "down" <=> count > 0 /\ 2 * running <= count
        /\ warning = "even" => Tolerance(count) = Tolerance(count - 1)
        /\ warning = "none" /\ count > 1 => Tolerance(count) > Tolerance(count - 1)
-----------------------------------------------------------------------------
(***************************************************************************)
(* The inductive invariant behind MembersStay and ReportIsTrue: what was   *)
(* not found under the lock is gone for good, so every deletion, late ones *)
(* included, is of a node that is gone.                                    *)
(***************************************************************************)
\* Names come from nodes that were deployed.
NamesInv ==
    /\ \A n \in Node : dom[n] = "unused" => n \notin objects
    /\ \A r \in Request, n \in Node : dom[n] = "unused" => n \notin todo[r]
    /\ \A r \in Request : pc[r] \in Holding =>
          candidate[r] \in Node /\ dom[candidate[r]] # "unused"

\* Only gone nodes are deleted.
GoneInv ==
    /\ \A r \in Request : /\ pc[r] \in {"delete", "deleting"} => candidate[r] \in Gone
                          /\ deleted[r] \subseteq Gone /\ stale[r] \subseteq Gone
    /\ \A c \in commands : c.delete # None => c.delete \in Gone

\* Whose a command is: before its own a request has none, and the reply it
\* waits for is about its candidate.
CommandInv ==
    /\ \A r \in Request :
          /\ pc[r] \in {"idle", "list", "listing"} => candidate[r] = None
          /\ pc[r] = "idle" => server[r] = None
    /\ \A c \in commands :
          /\ pc[c.for] \notin {"idle", "list", "next", "locked", "delete"}
          /\ pc[c.for] \in Waiting => c = Command(c.for) /\ reply[c.for] = "none"

\* What stale objects are left are ahead, at hand, or reported.
ProgressInv ==
    \A r \in Request :
        /\ stale[r] \cap alive[r] = {}
        /\ pc[r] = "listing" /\ reply[r] = "ok" => stale[r] \cap objects \subseteq todo[r]
        /\ pc[r] = "deleting" /\ reply[r] = "ok" => candidate[r] \notin objects
        /\ pc[r] \in {"next"} \cup Holding =>
              stale[r] \cap objects \subseteq todo[r] \cup failed[r] \cup {candidate[r]}
        /\ pc[r] = "next" => stale[r] \cap objects \subseteq todo[r] \cup failed[r]

Inv ==
    /\ TypeOK /\ NamesInv /\ GoneInv /\ CommandInv /\ ProgressInv
    /\ DeletedIsGone /\ StaleIsReported
-----------------------------------------------------------------------------
(***************************************************************************)
(* What is safe about PruneEnds.                                           *)
(***************************************************************************)
\* The way of a request, and from its end back to the lock for each candidate.
Place == [list |-> 1, listing |-> 2, locked |-> 3, delete |-> 4, deleting |-> 5,
          next |-> 6]

Nearer(r) ==
    \/ pc'[r] \in {"done", "raised"}
    \/ todo'[r] = todo[r] /\ Place[pc[r]] < Place[pc'[r]]
    \/ /\ pc[r] = "next" /\ pc'[r] = "locked"
       /\ todo'[r] \subseteq todo[r] /\ todo'[r] # todo[r]

\* Each step of a request brings it nearer its end: it takes up no candidate
\* twice, though some fail, and no step of another request, of a guest or of an
\* abandoned command puts it back, or gives it more to do once it was listed.
PruneAdvances ==
    [][\A r \in Request :
          pc[r] # "idle" =>
             IF Step(r) \/ Fails(r) THEN Nearer(r)
             ELSE pc'[r] = pc[r] /\ (pc[r] # "listing" => todo'[r] = todo[r])]_vars
=============================================================================
