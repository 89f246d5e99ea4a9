---------------------------- MODULE NodeManager ----------------------------
(***************************************************************************)
(* NodeManager (src/k3s_kvm_demo/libvirtctl.py): every libvirt mutation of *)
(* the dashboard, made under one lock by the threads that share it: HTTP   *)
(* requests (deploy, kill, reset), launch recovery and the observer        *)
(* (app.py, observer.py).  A node is a libvirt domain whose metadata       *)
(* claims two volumes; nothing else is persisted, so what a crash leaves   *)
(* behind is whatever the last libvirt call did.                           *)
(*                                                                         *)
(* One step is one libvirt mutation.  Each may succeed, raise without an   *)
(* effect, or take effect and raise (a lost reply); the process may also   *)
(* die between any two of them.  The reads before a mutation belong to its *)
(* step: the lock excludes every other mutation of ours, and what the      *)
(* environment may do meanwhile is a step of the environment.              *)
(***************************************************************************)
EXTENDS NodeMeta, GuestStatus, FiniteSets

CONSTANTS
    Node,       \* the UUIDs names.allocate may draw; each is drawn once
    None,       \* no domain, no node
    MaxNodes,   \* cfg.vm.max_nodes
    Autostart,  \* cfg.vm.autostart_on_launch
    Shareable,  \* nodes whose volumes a foreign domain may come to reference
    MaxFaults   \* bound on failed libvirt calls and process crashes

ASSUME ConstantsAssumption ==
    /\ None \notin Metadata \cup Node
    /\ MaxNodes \in Nat \ {0}
    /\ Autostart \in BOOLEAN
    /\ Shareable \subseteq Node
    /\ MaxFaults \in Nat

VARIABLES
    \* libvirt: survives the process
    meta,      \* Node -> the metadata of its defined domain, or None
    active,    \* domains that are not shut off
    overlay,   \* nodes whose overlay volume exists
    seedvol,   \* nodes whose seed volume exists
    uploaded,  \* nodes whose seed volume holds the whole seed image
    used,      \* UUIDs a domain was ever defined with
    cluster,   \* Node -> the bootstrap node of the cluster its seed names
    guest,     \* Node -> how far its guest ever got
    attached,  \* nodes with a volume that a foreign domain references
    \* the process: lost in a crash
    phase,     \* "down", the stages of startup, "serving"
    pc,        \* next libvirt call of the lock holder, or "idle"
    owner,     \* who holds the lock
    cur,       \* the node the lock holder works on
    batch,     \* nodes a reset has still to delete
    seen,      \* records of the sweeper's last list_nodes not yet acted on
    report,    \* Node -> guest status fetched and not yet applied
    faults     \* faults so far (bounds the model)

host == <<meta, active, overlay, seedvol, uploaded, used, cluster>>
world == <<guest, attached>>
holder == <<pc, owner, cur, batch>>
sweeper == <<phase, seen, report>>
vars == <<host, world, holder, sweeper, faults>>

CreatePC == {"overlay", "seed", "upload", "booting", "launch"}
DeletePC == {"check", "intent", "destroy", "recheck", "rmoverlay", "rmseed",
             "undefine"}
Phase == {"down", "cleaning", "starting", "serving"}
Owner == {"nobody", "deploy", "operator", "sweep"}
Record == [node : Node, generation : Nat, state : State, role : Role,
           bootstrap : BOOLEAN]

Managed == {u \in Node : meta[u] # None}
InState(u, states) == meta[u] # None /\ meta[u].state \in states
Running(u) == u \in active

\* list_nodes: taken without the lock, so its holder may act on it much later.
Snapshot == {[node |-> u, generation |-> meta[u].generation,
              state |-> meta[u].state, role |-> meta[u].role,
              bootstrap |-> meta[u].bootstrap] : u \in Managed}

TypeOK ==
    /\ meta \in [Node -> Metadata \cup {None}]
    /\ active \in SUBSET Node /\ overlay \in SUBSET Node
    /\ seedvol \in SUBSET Node /\ uploaded \in SUBSET Node
    /\ used \in SUBSET Node /\ attached \in SUBSET Node
    /\ cluster \in [Node -> Node]
    /\ guest \in [Node -> Stage]
    /\ phase \in Phase
    /\ pc \in CreatePC \cup DeletePC \cup {"idle"}
    /\ owner \in Owner
    /\ cur \in IF pc = "idle" THEN {None} ELSE Node
    /\ batch \in SUBSET Node
    /\ seen \in SUBSET Record
    /\ report \in [Node -> Evidence]
    /\ faults \in 0..MaxFaults

Init ==
    /\ meta = [u \in Node |-> None]
    /\ active = {} /\ overlay = {} /\ seedvol = {} /\ uploaded = {}
    /\ used = {} /\ attached = {}
    /\ cluster = [u \in Node |-> u]
    /\ guest = [u \in Node |-> "blank"]
    /\ phase = "down" /\ pc = "idle" /\ owner = "nobody"
    /\ cur = None /\ batch = {} /\ seen = {}
    /\ report = [u \in Node |-> "none"]
    /\ faults = 0
-----------------------------------------------------------------------------
(***************************************************************************)
(* The libvirt mutations, by their effect on the host.                     *)
(***************************************************************************)
DefineXML(u, m, c) ==
    /\ meta' = [meta EXCEPT ![u] = m]
    /\ used' = used \cup {u}
    /\ cluster' = [cluster EXCEPT ![u] = c]
    /\ UNCHANGED <<active, overlay, seedvol, uploaded>>

CreateOverlay(u) ==
    /\ overlay' = overlay \cup {u}
    /\ UNCHANGED <<meta, active, seedvol, uploaded, used, cluster>>

CreateSeed(u) ==
    /\ seedvol' = seedvol \cup {u}
    /\ UNCHANGED <<meta, active, overlay, uploaded, used, cluster>>

UploadSeed(u) ==
    /\ uploaded' = uploaded \cup {u}
    /\ UNCHANGED <<meta, active, overlay, seedvol, used, cluster>>

WriteMeta(u, m) ==
    /\ meta' = [meta EXCEPT ![u] = m]
    /\ UNCHANGED <<active, overlay, seedvol, uploaded, used, cluster>>

StartDomain(u) ==
    /\ active' = active \cup {u}
    /\ UNCHANGED <<meta, overlay, seedvol, uploaded, used, cluster>>

DestroyDomain(u) ==
    /\ active' = active \ {u}
    /\ UNCHANGED <<meta, overlay, seedvol, uploaded, used, cluster>>

DeleteOverlay(u) ==
    /\ overlay' = overlay \ {u}
    /\ UNCHANGED <<meta, active, seedvol, uploaded, used, cluster>>

DeleteSeed(u) ==
    /\ seedvol' = seedvol \ {u}
    /\ uploaded' = uploaded \ {u}
    /\ UNCHANGED <<meta, active, overlay, used, cluster>>

Undefine(u) ==
    /\ meta' = [meta EXCEPT ![u] = None]
    /\ UNCHANGED <<active, overlay, seedvol, uploaded, used, cluster>>

Hold(who, next, u, rest) ==
    owner' = who /\ pc' = next /\ cur' = u /\ batch' = rest

Release == Hold("nobody", "idle", None, {})

Goto(next) == Hold(owner, next, cur, batch)

\* One libvirt call: it succeeds, its reply is lost, or it is refused.
Attempt(effect, next, raised) ==
    \/ effect /\ next /\ UNCHANGED faults
    \/ /\ faults < MaxFaults /\ faults' = faults + 1
       /\ effect \/ UNCHANGED host
       /\ raised
-----------------------------------------------------------------------------
(***************************************************************************)
(* Deploy: create and launch once.                                         *)
(***************************************************************************)
Current(u, generation, state) ==
    /\ meta[u] # None
    /\ meta[u].generation = generation
    /\ meta[u].state = state

\* join_ready further narrows these, by evidence that may lapse at any time.
Usable ==
    {s \in Managed : meta[s].role = "server" /\ meta[s].state = "configured"
                     /\ Running(s)}

\* Mutant: bootstrap whenever no server is left.
PlanWithoutServers(u, role) ==
    IF role = "server" /\ ~\E s \in Managed : meta[s].role = "server"
    THEN {[bootstrap |-> TRUE, cluster |-> u]}
    ELSE {[bootstrap |-> FALSE, cluster |-> cluster[s]] : s \in Usable}

\* plan: elect the bootstrap, or resolve the cluster the new node joins.
Plan(u, role) ==
    IF role = "server" /\ Managed = {}
    THEN {[bootstrap |-> TRUE, cluster |-> u]}
    ELSE {[bootstrap |-> FALSE, cluster |-> cluster[s]] : s \in Usable}

\* A failure before the launch is undone, if what we defined is still as we
\* defined it; otherwise the node is left for reconciliation.
Compensate(u) ==
    IF /\ meta'[u] # None
       /\ meta'[u].generation = 1
       /\ meta'[u].state = "creating"
    THEN Hold("deploy", "check", u, {})
    ELSE Release

Deploy(role) ==
    /\ phase = "serving" /\ pc = "idle"
    /\ Cardinality(Managed) < MaxNodes
    /\ \E u \in Node \ used : \E p \in Plan(u, role) :
         Attempt(DefineXML(u, Initial(role, p.bootstrap), p.cluster),
                 Hold("deploy", "overlay", u, {}), Compensate(u))
    /\ UNCHANGED <<world, sweeper>>

\* The steps of _create that follow: each at its pc, to the next.
CreateStep(at, effect, next) ==
    /\ pc = at
    /\ Attempt(effect, next, Compensate(cur))
    /\ UNCHANGED <<world, sweeper>>

CreateVolumes ==
    \/ CreateStep("overlay", CreateOverlay(cur), Goto("seed"))
    \/ CreateStep("seed", CreateSeed(cur), Goto("upload"))
    \/ CreateStep("upload", UploadSeed(cur), Goto("booting"))

CommitLaunch ==
    CreateStep("booting", WriteMeta(cur, Advanced(meta[cur], "booting")),
               Goto("launch"))

\* launch_ready is set: a failed start retains the node and its volumes.
Launch ==
    /\ pc = "launch"
    /\ Attempt(StartDomain(cur), Release, Release)
    /\ UNCHANGED <<world, sweeper>>
-----------------------------------------------------------------------------
(***************************************************************************)
(* _delete: idempotent teardown, by kill, reset, compensation and sweep.   *)
(***************************************************************************)
\* A reset goes on to its next node; any exception ends the whole operation.
DeleteDone ==
    IF batch = {} THEN Release
    ELSE \E u \in batch : Hold(owner, "check", u, batch \ {u})

DeleteFault ==
    /\ pc \in {"check", "recheck"}
    /\ faults < MaxFaults /\ faults' = faults + 1
    /\ Release
    /\ UNCHANGED <<host, world, sweeper>>

\* Mutant: delete without recording the intent first.
CheckClaimsNoIntent ==
    /\ pc = "check"
    /\ IF meta[cur] = None THEN DeleteDone
       ELSE IF cur \in attached THEN Release ELSE Goto("destroy")
    /\ UNCHANGED <<host, world, sweeper, faults>>

\* Nothing is changed before every claim is checked.
CheckClaims ==
    /\ pc = "check"
    /\ \/ meta[cur] = None /\ DeleteDone
       \/ meta[cur] # None /\ cur \in attached /\ Release
       \/ /\ meta[cur] # None /\ cur \notin attached
          /\ Goto(IF meta[cur].state = "deleting" THEN "destroy" ELSE "intent")
    /\ UNCHANGED <<host, world, sweeper, faults>>

DeleteStep(at, effect, next) ==
    /\ pc = at
    /\ Attempt(effect, next, Release)
    /\ UNCHANGED <<world, sweeper>>

\* No destructive action follows an ambiguous intent write.
WriteIntent ==
    DeleteStep("intent", WriteMeta(cur, Condemned(meta[cur])), Goto("destroy"))

\* Mutant: a failed destroy is tolerated.
DestroyBestEffort ==
    /\ pc = "destroy"
    /\ Attempt(DestroyDomain(cur), Goto("recheck"), Goto("recheck"))
    /\ UNCHANGED <<world, sweeper>>

Destroy ==
    \/ Running(cur) /\ DeleteStep("destroy", DestroyDomain(cur), Goto("recheck"))
    \/ /\ pc = "destroy" /\ ~Running(cur) /\ Goto("recheck")
       /\ UNCHANGED <<host, world, sweeper, faults>>

\* Mutant: the references checked before the intent are trusted.
RecheckNothing ==
    /\ pc = "recheck" /\ Goto("rmoverlay")
    /\ UNCHANGED <<host, world, sweeper, faults>>

RecheckReferences ==
    /\ pc = "recheck"
    /\ IF cur \in attached THEN Release ELSE Goto("rmoverlay")
    /\ UNCHANGED <<host, world, sweeper, faults>>

\* Mutant: a volume that cannot be deleted is skipped.
RemoveVolumesBestEffort ==
    \/ /\ pc = "rmoverlay"
       /\ Attempt(DeleteOverlay(cur), Goto("rmseed"), Goto("rmseed"))
       /\ UNCHANGED <<world, sweeper>>
    \/ DeleteStep("rmseed", DeleteSeed(cur), Goto("undefine"))

RemoveVolumes ==
    \/ DeleteStep("rmoverlay", DeleteOverlay(cur), Goto("rmseed"))
    \/ DeleteStep("rmseed", DeleteSeed(cur), Goto("undefine"))

RemoveDomain == DeleteStep("undefine", Undefine(cur), DeleteDone)

\* get(name), then delete(uuid): the node may be gone by the time of delete.
Kill(u) ==
    /\ phase = "serving" /\ pc = "idle" /\ u \in used
    /\ Hold("operator", "check", u, {})
    /\ UNCHANGED <<host, world, sweeper, faults>>

Reset ==
    /\ phase = "serving" /\ pc = "idle"
    /\ \E u \in Managed : Hold("operator", "check", u, Managed \ {u})
    /\ UNCHANGED <<host, world, sweeper, faults>>
-----------------------------------------------------------------------------
(***************************************************************************)
(* Reconciliation: launch recovery once per start, then the observer's     *)
(* passes.  Both act on the records of an earlier listing.                 *)
(***************************************************************************)
NoReports == [u \in Node |-> "none"]

\* The observer's thread is inside the delete it started.
Sweeping == owner = "sweep"

Startup ==
    /\ phase = "down"
    /\ phase' = "cleaning"
    /\ seen' = {r \in Snapshot : r.state \in Incomplete}
    /\ UNCHANGED <<host, world, holder, report, faults>>

\* Mutant: clean up by UUID, without comparing generation and state.
CleanUpByUuid(r) ==
    /\ phase \in {"cleaning", "serving"} /\ pc = "idle"
    /\ r.state \in Incomplete
    /\ seen' = seen \ {r}
    /\ Hold("sweep", "check", r.node, {})
    /\ UNCHANGED <<host, world, phase, report, faults>>

\* Mutant: an interrupted deletion is left to the operator.
CleanUpCreating(r) ==
    /\ phase \in {"cleaning", "serving"} /\ pc = "idle"
    /\ r.state \in Incomplete
    /\ seen' = seen \ {r}
    /\ IF r.state = "creating" /\ Current(r.node, r.generation, r.state)
       THEN Hold("sweep", "check", r.node, {})
       ELSE UNCHANGED holder
    /\ UNCHANGED <<host, world, phase, report, faults>>

\* delete_if_current: the record decides only while it is still the truth.
CleanUp(r) ==
    /\ phase \in {"cleaning", "serving"} /\ pc = "idle"
    /\ r.state \in Incomplete
    /\ seen' = seen \ {r}
    /\ IF Current(r.node, r.generation, r.state)
       THEN Hold("sweep", "check", r.node, {})
       ELSE UNCHANGED holder
    /\ UNCHANGED <<host, world, phase, report, faults>>

\* Mutant: serve only once nothing is left to clean up.
CleanedUpAll ==
    /\ phase = "cleaning" /\ seen = {} /\ pc = "idle"
    /\ ~\E u \in Node : InState(u, Incomplete)
    /\ phase' = "serving"
    /\ UNCHANGED <<host, world, holder, seen, report, faults>>

CleanedUp ==
    /\ phase = "cleaning" /\ seen = {} /\ pc = "idle"
    /\ IF Autostart
       THEN phase' = "starting" /\ seen' = Snapshot
       ELSE phase' = "serving" /\ UNCHANGED seen
    /\ UNCHANGED <<host, world, holder, report, faults>>

\* Mutant: only the bootstrap goes first.
RankBootstrap(r) == IF r.bootstrap THEN 0 ELSE 1

\* The sort key of launch recovery: the bootstrap, the servers, the agents.
Rank(r) == IF r.role = "agent" THEN 2 ELSE IF r.bootstrap THEN 0 ELSE 1

\* start_if_current, once per record; an error is never replayed.
StartNext(r) ==
    /\ phase = "starting"
    /\ \A other \in seen : Rank(r) <= Rank(other)
    /\ seen' = seen \ {r}
    /\ IF /\ Current(r.node, r.generation, r.state)
          /\ r.state \in Retained
          /\ ~Running(r.node)
       THEN Attempt(StartDomain(r.node), TRUE, TRUE)
       ELSE UNCHANGED <<host, faults>>
    /\ UNCHANGED <<world, holder, phase, report>>

\* Mutant: serve only once every retained node runs.
ServeStarted ==
    /\ phase = "starting" /\ seen = {}
    /\ \A u \in Node : InState(u, Retained) => Running(u)
    /\ phase' = "serving"
    /\ UNCHANGED <<host, world, holder, seen, report, faults>>

Serve ==
    /\ phase = "starting" /\ seen = {}
    /\ phase' = "serving"
    /\ UNCHANGED <<host, world, holder, seen, report, faults>>

\* reconcile lists the nodes and drops what it knew of vanished ones.
Pass ==
    /\ phase = "serving" /\ seen = {} /\ ~Sweeping
    /\ Managed # {}
    /\ seen' = Snapshot
    /\ report' = [u \in Node |-> IF u \in Managed THEN report[u] ELSE "none"]
    /\ UNCHANGED <<host, world, holder, phase, faults>>

\* Nothing to act on: no status yet, or the node cannot be probed.
Skip(r) ==
    /\ phase = "serving" /\ ~Sweeping
    /\ r.state \notin Incomplete /\ report[r.node] = "none"
    /\ seen' = seen \ {r}
    /\ UNCHANGED <<host, world, holder, phase, report, faults>>

\* Mutant: the error code becomes the state.
TargetErrorCode(state, evidence) ==
    CASE evidence = "started" -> "configured"
      [] evidence = "prepare-failed" /\ state # "configured" -> evidence
      [] evidence = "prepared" /\ state # "configured" -> "configuring"
      [] OTHER -> state

\* Mutant: prepared counts as configured.
TargetPrepared(state, evidence) ==
    CASE evidence \in {"prepared", "started"} -> "configured"
      [] evidence = "prepare-failed" /\ state # "configured" -> "failed"
      [] OTHER -> state

\* The provisioning state a guest status argues for, as _observe derives it.
Target(state, evidence) ==
    CASE evidence = "started" -> "configured"
      [] evidence = "prepare-failed" /\ state # "configured" -> "failed"
      [] evidence = "prepared" /\ state # "configured" -> "configuring"
      [] OTHER -> state

\* Mutant: whoever still exists may be advanced.
MayAdvanceByUuid(r, new) == meta[r.node] # None

\* update_state: advance the durable state, unless the node moved on.
MayAdvance(r, new) ==
    /\ Current(r.node, r.generation, r.state)
    /\ r.state # "deleting"
    /\ ~(r.state = "configured" /\ new \in {"booting", "configuring", "failed"})

\* The rest of _observe: apply a status, fetched before or after the listing.
Advance(r) ==
    /\ phase = "serving" /\ ~Sweeping
    /\ r.state \notin Incomplete /\ report[r.node] # "none"
    /\ seen' = seen \ {r}
    /\ report' = [report EXCEPT ![r.node] = "none"]
    /\ LET new == Target(r.state, report[r.node])
       IN  IF new = r.state
           THEN UNCHANGED <<host, faults>>
           ELSE /\ pc = "idle"
                /\ IF MayAdvance(r, new)
                   THEN Attempt(WriteMeta(r.node, Advanced(meta[r.node], new)),
                                TRUE, TRUE)
                   ELSE UNCHANGED <<host, faults>>
    /\ UNCHANGED <<world, holder, phase>>

\* The guest answers, for better or worse, what Guest may answer.
Report(u) ==
    /\ phase = "serving" /\ Running(u) /\ report[u] = "none"
    /\ \E e \in Truth(guest[u]) : report' = [report EXCEPT ![u] = e]
    /\ UNCHANGED <<host, world, holder, phase, seen, faults>>
-----------------------------------------------------------------------------
(***************************************************************************)
(* The process ends, and what is not ours.                                 *)
(***************************************************************************)
Down ==
    /\ phase' = "down" /\ seen' = {} /\ report' = NoReports
    /\ Release
    /\ UNCHANGED <<host, world>>

\* A normal stop drains requests and the observer first; VMs keep running.
Stop == phase = "serving" /\ pc = "idle" /\ Down /\ UNCHANGED faults

Crash ==
    /\ phase # "down" /\ Down
    /\ faults < MaxFaults /\ faults' = faults + 1

\* The guest provisions itself from its seed, and may power off at any time.
GuestPrepares(u) ==
    /\ Running(u) /\ u \in uploaded /\ guest[u] = "blank"
    /\ guest' = [guest EXCEPT ![u] = "prepared"]
    /\ UNCHANGED <<host, attached, holder, sweeper, faults>>

GuestStarts(u) ==
    /\ Running(u) /\ guest[u] = "prepared"
    /\ guest' = [guest EXCEPT ![u] = "started"]
    /\ UNCHANGED <<host, attached, holder, sweeper, faults>>

PowerOff(u) ==
    /\ Running(u) /\ DestroyDomain(u)
    /\ UNCHANGED <<world, holder, sweeper, faults>>

\* The operator's manual: virsh start of a node that stayed shut off.
AdminStart(u) ==
    /\ InState(u, Retained \cup {"failed"}) /\ ~Running(u) /\ StartDomain(u)
    /\ UNCHANGED <<world, holder, sweeper, faults>>

\* Administrators cooperate: no disk is attached while volumes are removed.
Attach(u) ==
    /\ u \in Shareable \ attached /\ u \in overlay \cup seedvol
    /\ ~(cur = u /\ pc \in {"rmoverlay", "rmseed"})
    /\ attached' = attached \cup {u}
    /\ UNCHANGED <<host, guest, holder, sweeper, faults>>

Detach(u) ==
    /\ u \in attached
    /\ attached' = attached \ {u}
    /\ UNCHANGED <<host, guest, holder, sweeper, faults>>
-----------------------------------------------------------------------------
Create ==
    \/ \E role \in Role : Deploy(role)
    \/ CreateVolumes \/ CommitLaunch \/ Launch

Delete ==
    \/ CheckClaims \/ DeleteFault \/ WriteIntent \/ Destroy
    \/ RecheckReferences \/ RemoveVolumes \/ RemoveDomain

Recover ==
    \/ CleanedUp \/ Serve
    \/ \E r \in seen : StartNext(r)

Observe ==
    \/ Pass
    \/ \E r \in seen : Skip(r) \/ Advance(r)

Environment ==
    \E u \in Node : \/ GuestPrepares(u) \/ GuestStarts(u) \/ PowerOff(u)
                    \/ AdminStart(u) \/ Attach(u) \/ Detach(u)

Next ==
    \/ Create \/ Delete \/ Reset \/ Recover \/ Observe
    \/ \E u \in Node : Kill(u) \/ Report(u)
    \/ \E r \in seen : CleanUp(r)
    \/ Startup \/ Stop \/ Crash
    \/ Environment

Spec == Init /\ [][Next]_vars
-----------------------------------------------------------------------------
(***************************************************************************)
(* Properties.                                                             *)
(***************************************************************************)
\* Whatever failed or crashed, a volume is never left without the domain that
\* claims it: create defines first, _delete undefines last.
NoOrphanVolumes == overlay \cup seedvol \subseteq Managed

\* A node that is neither being created nor deleted still has both volumes
\* and a whole seed, so launch recovery may power it on at any later time.
RetainedIsComplete ==
    \A u \in Managed :
        meta[u].state \notin Incomplete => u \in overlay \cap seedvol \cap uploaded

\* No VM runs without its disks: neither launched before they are complete
\* nor still running while a delete removes them.
RunningHasDisks == active \subseteq Managed \cap overlay \cap seedvol \cap uploaded

\* "configured" is a fact about the guest, however stale the listing and the
\* status it was derived from.
ConfiguredIsProven ==
    \A u \in Managed : meta[u].state = "configured" => guest[u] = "started"

\* Deploys, kills and failures never leave nodes of two clusters behind:
\* nobody bootstraps while a node of an earlier cluster remains.
SingleCluster ==
    \A u, v \in Managed :
        /\ cluster[u] = cluster[v]
        /\ meta[u].bootstrap /\ meta[v].bootstrap => u = v

\* Launch recovery submits the start of every server before any worker's.
ServersBeforeWorkers ==
    phase = "starting" =>
        \A u \in Managed : \A r \in seen :
            meta[u].role = "agent" /\ u \notin {s.node : s \in seen}
                => r.role = "agent"

\* Automatic cleanup never takes a node that got as far as its launch, even
\* when the listing it acts on saw that node half-created.
SweepSparesLaunched ==
    [][\A u \in Node :
        (InState(u, State \ Incomplete) /\ (InState(u, {"deleting"}))')
            => owner = "operator"]_vars

\* A volume that a foreign domain references is never removed.
ReferencedVolumesKept ==
    [][\A u \in attached : /\ u \in overlay => u \in overlay'
                           /\ u \in seedvol => u \in seedvol']_vars

\* The promises of NodeLedger.
Status(u) == IF meta[u] # None THEN meta[u].state
             ELSE IF u \in used THEN "gone" ELSE "absent"

Ledger == INSTANCE NodeLedger WITH
    status <- [u \in Node |-> Status(u)],
    generation <- [u \in Node |-> IF meta[u] = None THEN 0 ELSE meta[u].generation],
    disks <- [u \in Node |-> {d \in {"overlay", "seed"} :
                 u \in IF d = "overlay" THEN overlay ELSE seedvol}],
    power <- active

LedgerSpec == Ledger!Spec

\* What is assumed of the guest of u, and the last that is known of it.
Guests(u) == INSTANCE Provisioning WITH
    power <- u \in active, stage <- guest[u], answers <- {report[u]}
-----------------------------------------------------------------------------
(***************************************************************************)
(* What makes those properties inductive: what the lock holder has already *)
(* established at each of its steps, although the lock does not stop the   *)
(* guests, the administrators or a crash.                                  *)
(***************************************************************************)
\* The pc says how far a create got.
CreateProgress ==
    /\ pc \in CreatePC => /\ cur \in Managed
                          /\ pc # "launch" => meta[cur].state = "creating"
                          /\ pc = "launch" => meta[cur].state \notin Incomplete
    /\ pc \in {"seed", "upload", "booting"} => cur \in overlay
    /\ pc \in {"upload", "booting"} => cur \in seedvol
    /\ pc = "booting" => cur \in uploaded

\* The pc says how far a delete got; the intent outlives the holder.
DeleteProgress ==
    /\ pc \in DeletePC \ {"check"} => cur \in Managed
    /\ pc \in DeletePC \ {"check", "intent"} => meta[cur].state = "deleting"
    /\ pc = "intent" => meta[cur].state # "deleting"
    /\ pc \in {"recheck", "rmoverlay", "rmseed", "undefine"} => cur \notin active
    /\ pc \in {"rmoverlay", "rmseed"} => cur \notin attached
    /\ pc \in {"rmseed", "undefine"} => cur \notin overlay
    /\ pc = "undefine" => cur \notin seedvol

\* Only an operator deletes more than one node, or a node past its creation.
Mandate ==
    owner # "operator" =>
        /\ batch = {}
        /\ pc \in {"check", "intent"} =>
               meta[cur] = None \/ meta[cur].state \in Incomplete

\* One bootstrap names the cluster of every node that remains.
ClusterInv ==
    \A u \in Managed : /\ u \in used
                       /\ meta[u].bootstrap => cluster[u] = u
                       /\ \A v \in Managed : cluster[u] = cluster[v]

\* A guest's answer is never better than the guest.
EvidenceInv == \A u \in Node : report[u] \in Truth(guest[u])

Inv ==
    /\ TypeOK
    /\ CreateProgress /\ DeleteProgress /\ Mandate
    /\ NoOrphanVolumes /\ RetainedIsComplete /\ RunningHasDisks
    /\ ClusterInv /\ EvidenceInv /\ ConfiguredIsProven
-----------------------------------------------------------------------------
(***************************************************************************)
(* Liveness.  The lock holder, the startup code and the observer's loop    *)
(* keep running while the process does; nothing is assumed of operators,   *)
(* guests or restarts.                                                     *)
(***************************************************************************)
Fairness ==
    /\ WF_vars(Create /\ pc # "idle") /\ WF_vars(Delete)
    /\ WF_vars(Recover)
    /\ WF_vars(Observe \/ \E r \in seen : CleanUp(r))

FairSpec == Spec /\ Fairness

\* The dashboard stays up, operators leave it alone, and administrators detach
\* what they attached to this node; other nodes may stay referenced for good.
Quiet(u) ==
    <>[](phase = "serving" /\ owner \notin {"deploy", "operator"} /\ u \notin attached)

\* A node does not stay half-created or half-deleted, whichever call failed or
\* wherever the process died: it is launched, or its removal is finished, even
\* while the cleanup of other nodes keeps failing.
InterruptedIsFinished ==
    \A u \in Node :
        Quiet(u) => (InState(u, Incomplete) ~> ~InState(u, Incomplete))

\* Startup reaches service unless the process dies: a node that cannot be
\* cleaned up or started does not hold it up.
StartupEnds == phase = "cleaning" ~> phase \in {"serving", "down"}
-----------------------------------------------------------------------------
(***************************************************************************)
(* The safety half of liveness: the measures that bring an operation and   *)
(* the startup to their ends, and that there is a step to take.            *)
(***************************************************************************)
\* The calls of an operation; a create that fails goes on as a delete.
Place == [overlay |-> 1, seed |-> 2, upload |-> 3, booting |-> 4, launch |-> 5,
          check |-> 6, intent |-> 7, destroy |-> 8, recheck |-> 9,
          rmoverlay |-> 10, rmseed |-> 11, undefine |-> 12]

Closer ==
    \/ batch' \subseteq batch /\ batch' # batch
    \/ batch' = batch /\ cur' = cur /\ Place[pc] < Place[pc']

\* An operation comes to its end: each of its steps, failures included, brings
\* it closer, and nobody else throws it back.
OperationsEnd ==
    [][pc # "idle" /\ pc' # "idle" =>
          IF Create \/ Delete THEN Closer ELSE UNCHANGED holder]_vars

\* A stage of startup comes to its end: each step takes a record off its listing,
\* whatever becomes of it, and nobody else touches that.
StartupAdvances ==
    [][phase' = phase /\ phase \in {"cleaning", "starting"} =>
          IF Recover \/ \E r \in seen : CleanUp(r)
          THEN \E r \in seen : seen' = seen \ {r}
          ELSE seen' = seen]_vars

\* It waits for nothing but the delete that it has begun itself, and there is
\* always a record that it can take up next.
StartupGoesOn ==
    /\ phase = "cleaning" => IF pc = "idle" THEN \A r \in seen : r.state \in Incomplete
                             ELSE owner = "sweep" /\ pc \in DeletePC
    /\ phase = "starting" =>
          /\ pc = "idle"
          /\ seen # {} => \E r \in seen : \A other \in seen : Rank(r) <= Rank(other)

\* Before service nobody but the sweep takes the lock.
StartupInv ==
    /\ pc # "idle" => owner # "nobody"
    /\ pc \in CreatePC => owner = "deploy"
    /\ phase \in {"down", "starting"} => pc = "idle"
    /\ phase # "serving" => owner \in {"nobody", "sweep"}
    /\ phase = "cleaning" => \A r \in seen : r.state \in Incomplete
=============================================================================
