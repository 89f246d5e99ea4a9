------------------------- MODULE NodeManagerProofs -------------------------
(***************************************************************************)
(* Proofs about NodeManager, for every set of nodes, node limit and number *)
(* of faults.                                                              *)
(***************************************************************************)
EXTENDS NodeManager, TLAPS

USE DEF host, world, holder, sweeper, Hold, Release, Goto
-----------------------------------------------------------------------------
(***************************************************************************)
(* The operators on metadata.                                              *)
(***************************************************************************)
\* A deploy defines a domain with a record of generation 1 in "creating".
LEMMA InitialFacts ==
    ASSUME NEW role \in Role, NEW bootstrap \in BOOLEAN
    PROVE  /\ Initial(role, bootstrap) \in Metadata
           /\ Initial(role, bootstrap).state = "creating"
           /\ Initial(role, bootstrap).generation = 1
           /\ Initial(role, bootstrap).bootstrap = bootstrap
BY DEF Initial, Metadata, State

\* Advancing a record changes its state only.
LEMMA AdvancedFacts ==
    ASSUME NEW m \in Metadata, NEW state \in State
    PROVE  /\ Advanced(m, state) \in Metadata
           /\ Advanced(m, state).state = state
           /\ Advanced(m, state).generation = m.generation
           /\ Advanced(m, state).bootstrap = m.bootstrap
BY DEF Advanced, Metadata

\* Bumping a record changes its generation only.
LEMMA BumpedFacts ==
    ASSUME NEW m \in Metadata
    PROVE  /\ Bumped(m) \in Metadata
           /\ Bumped(m).generation = m.generation + 1
           /\ Bumped(m).bootstrap = m.bootstrap
BY DEF Bumped, Metadata

\* Condemning a record is the one write that changes its generation.
LEMMA CondemnedFacts ==
    ASSUME NEW m \in Metadata
    PROVE  /\ Condemned(m) \in Metadata
           /\ Condemned(m).state = "deleting"
           /\ Condemned(m).generation = m.generation + 1
           /\ Condemned(m).bootstrap = m.bootstrap
<1>1. "deleting" \in State
    BY DEF State
<1>2. QED
    BY <1>1, BumpedFacts, AdvancedFacts DEF Condemned

\* A status argues for a provisioning state, never for an incomplete one.
LEMMA TargetFacts ==
    ASSUME NEW state \in State \ Incomplete, NEW evidence \in Evidence
    PROVE  /\ Target(state, evidence) \in State \ Incomplete
           /\ Target(state, evidence) # state =>
                 /\ state # "configured"
                 /\ Target(state, evidence) \in {"configuring", "configured", "failed"}
           /\ Target(state, evidence) = "configured" =>
                 state = "configured" \/ evidence = "started"
BY DEF Target, State, Incomplete, Evidence

\* A listing is a set of records.
LEMMA SnapshotType ==
    TypeOK => Snapshot \in SUBSET Record
BY DEF TypeOK, Snapshot, Record, Managed, Metadata

\* A deploy either founds a cluster on an empty host, or joins the cluster of
\* a managed node.
LEMMA PlanFacts ==
    ASSUME TypeOK, NEW u \in Node, NEW role \in Role, NEW p \in Plan(u, role)
    PROVE  \/ p = [bootstrap |-> TRUE, cluster |-> u] /\ Managed = {}
           \/ \E s \in Managed : p = [bootstrap |-> FALSE, cluster |-> cluster[s]]
<1>1. CASE role = "server" /\ Managed = {}
    BY <1>1 DEF Plan
<1>2. CASE ~(role = "server" /\ Managed = {})
    <2>1. PICK s \in Usable : p = [bootstrap |-> FALSE, cluster |-> cluster[s]]
        BY <1>2 DEF Plan
    <2>2. QED
        BY <2>1 DEF Usable
<1>3. QED
    BY <1>1, <1>2

\* A plan names a bootstrap flag and an existing cluster.
LEMMA PlanType ==
    ASSUME TypeOK, NEW u \in Node, NEW role \in Role, NEW p \in Plan(u, role)
    PROVE  p.bootstrap \in BOOLEAN /\ p.cluster \in Node
<1>1. cluster \in [Node -> Node]
    BY DEF TypeOK
<1>2. CASE p = [bootstrap |-> TRUE, cluster |-> u]
    BY <1>2
<1>3. ASSUME NEW s \in Node, p = [bootstrap |-> FALSE, cluster |-> cluster[s]]
      PROVE  p.bootstrap \in BOOLEAN /\ p.cluster \in Node
    BY <1>1, <1>3
<1>4. QED
    BY <1>2, <1>3, PlanFacts DEF Managed
-----------------------------------------------------------------------------
(***************************************************************************)
(* Type correctness.                                                       *)
(***************************************************************************)
\* The libvirt mutations keep the host well typed.
HostType ==
    /\ meta \in [Node -> Metadata \cup {None}]
    /\ active \in SUBSET Node /\ overlay \in SUBSET Node
    /\ seedvol \in SUBSET Node /\ uploaded \in SUBSET Node
    /\ used \in SUBSET Node
    /\ cluster \in [Node -> Node]

\* Every libvirt mutation keeps the host typed.
LEMMA EffectType ==
    ASSUME HostType, NEW u \in Node
    PROVE  /\ \A m \in Metadata, c \in Node : DefineXML(u, m, c) => HostType'
           /\ \A m \in Metadata : WriteMeta(u, m) => HostType'
           /\ CreateOverlay(u) => HostType'
           /\ CreateSeed(u) => HostType'
           /\ UploadSeed(u) => HostType'
           /\ StartDomain(u) => HostType'
           /\ DestroyDomain(u) => HostType'
           /\ DeleteOverlay(u) => HostType'
           /\ DeleteSeed(u) => HostType'
           /\ Undefine(u) => HostType'
           /\ UNCHANGED host => HostType'
BY DEF HostType, DefineXML, WriteMeta, CreateOverlay, CreateSeed, UploadSeed,
       StartDomain, DestroyDomain, DeleteOverlay, DeleteSeed, Undefine

\* What the process keeps is well typed.
ProcessType ==
    /\ phase \in Phase
    /\ pc \in CreatePC \cup DeletePC \cup {"idle"}
    /\ owner \in Owner
    /\ cur \in IF pc = "idle" THEN {None} ELSE Node
    /\ batch \in SUBSET Node
    /\ seen \in SUBSET Record
    /\ report \in [Node -> Evidence]
    /\ attached \in SUBSET Node
    /\ guest \in [Node -> Stage]

\* Type correctness, by the groups of variables that steps change.
LEMMA TypeParts ==
    /\ TypeOK <=> HostType /\ ProcessType /\ faults \in 0..MaxFaults
    /\ TypeOK' <=> HostType' /\ ProcessType' /\ faults' \in 0..MaxFaults
BY DEF TypeOK, HostType, ProcessType

\* A fault is one more, within the bound.
FaultStep == UNCHANGED faults \/ (faults < MaxFaults /\ faults' = faults + 1)

\* A failed call stays within the bound on faults.
LEMMA FaultType ==
    ASSUME faults \in 0..MaxFaults, FaultStep
    PROVE  faults' \in 0..MaxFaults
BY ConstantsAssumption DEF FaultStep

\* Every step of a create or a delete is typed by its own effect.
LEMMA CreateType ==
    ASSUME TypeOK, CreateProgress, Create
    PROVE  TypeOK'
<1>0. /\ HostType /\ ProcessType /\ faults \in 0..MaxFaults
      /\ "booting" \in State
    BY TypeParts DEF State
<1>1. ASSUME NEW role \in Role, Deploy(role)
      PROVE  TypeOK'
    <2>1. PICK u \in Node \ used : \E p \in Plan(u, role) :
              Attempt(DefineXML(u, Initial(role, p.bootstrap), p.cluster),
                      Hold("deploy", "overlay", u, {}), Compensate(u))
        BY <1>1 DEF Deploy
    <2>2. PICK p \in Plan(u, role) :
              Attempt(DefineXML(u, Initial(role, p.bootstrap), p.cluster),
                      Hold("deploy", "overlay", u, {}), Compensate(u))
        BY <2>1
    <2>3. p.cluster \in Node /\ Initial(role, p.bootstrap) \in Metadata
        BY PlanType, InitialFacts
    <2>4. HostType'
        BY <1>0, <2>2, <2>3, EffectType DEF Attempt
    <2>5. ProcessType'
        BY <1>0, <1>1, <2>2 DEF Attempt, Compensate, Deploy, ProcessType,
                                CreatePC, DeletePC, Owner
    <2>6. FaultStep
        BY <2>2 DEF Attempt, FaultStep
    <2>7. QED
        BY <1>0, <2>4, <2>5, <2>6, FaultType, TypeParts
<1>2. CASE CreateVolumes
    <2>1. cur \in Node
        BY <1>0, <1>2 DEF CreateVolumes, CreateStep, ProcessType
    <2>2. HostType'
        BY <1>0, <1>2, <2>1, EffectType DEF CreateVolumes, CreateStep, Attempt
    <2>3. ProcessType'
        BY <1>0, <1>2, <2>1 DEF CreateVolumes, CreateStep, Attempt, Compensate,
                          ProcessType, CreatePC, DeletePC, Owner
    <2>4. FaultStep
        BY <1>2 DEF CreateVolumes, CreateStep, Attempt, FaultStep
    <2>5. QED
        BY <1>0, <2>2, <2>3, <2>4, FaultType, TypeParts
<1>3. CASE CommitLaunch
    <2>1. cur \in Node /\ pc = "booting"
        BY <1>0, <1>3 DEF CommitLaunch, CreateStep, ProcessType
    <2>2. meta[cur] \in Metadata
        BY <1>0, <2>1 DEF CreateProgress, CreatePC, Managed, HostType
    <2>3. HostType'
        BY <1>0, <1>3, <2>1, <2>2, EffectType, AdvancedFacts
        DEF CommitLaunch, CreateStep, Attempt
    <2>4. ProcessType'
        BY <1>0, <1>3, <2>1 DEF CommitLaunch, CreateStep, Attempt, Compensate,
                          ProcessType, CreatePC, DeletePC, Owner
    <2>5. FaultStep
        BY <1>3 DEF CommitLaunch, CreateStep, Attempt, FaultStep
    <2>6. QED
        BY <1>0, <2>3, <2>4, <2>5, FaultType, TypeParts
<1>4. CASE Launch
    <2>1. cur \in Node
        BY <1>0, <1>4 DEF Launch, ProcessType
    <2>2. HostType'
        BY <1>0, <1>4, <2>1, EffectType DEF Launch, Attempt
    <2>3. ProcessType'
        BY <1>0, <1>4 DEF Launch, Attempt, ProcessType, CreatePC, DeletePC, Owner
    <2>4. FaultStep
        BY <1>4 DEF Launch, Attempt, FaultStep
    <2>5. QED
        BY <1>0, <2>2, <2>3, <2>4, FaultType, TypeParts
<1>5. QED
    BY <1>1, <1>2, <1>3, <1>4 DEF Create

\* The same for a delete.
LEMMA DeleteType ==
    ASSUME TypeOK, DeleteProgress, Delete
    PROVE  TypeOK'
<1>0. /\ HostType /\ ProcessType /\ faults \in 0..MaxFaults
      /\ pc # "idle" /\ cur \in Node
    BY TypeParts DEF ProcessType, Delete, CheckClaims, DeleteFault, WriteIntent,
       Destroy, RecheckReferences, RemoveVolumes, RemoveDomain, DeleteStep
<1>1. HostType'
    <2>1. CASE WriteIntent
        <3>1. meta[cur] \in Metadata
            BY <1>0, <2>1 DEF DeleteProgress, DeletePC, Managed, HostType,
                              WriteIntent, DeleteStep
        <3>2. QED
            BY <1>0, <2>1, <3>1, EffectType, CondemnedFacts
            DEF WriteIntent, DeleteStep, Attempt
    <2>2. CASE Destroy \/ RemoveVolumes \/ RemoveDomain
        BY <1>0, <2>2, EffectType
        DEF Destroy, RemoveVolumes, RemoveDomain, DeleteStep, Attempt
    <2>3. CASE CheckClaims \/ DeleteFault \/ RecheckReferences
        BY <1>0, <2>3, EffectType DEF CheckClaims, DeleteFault, RecheckReferences
    <2>4. QED
        BY <2>1, <2>2, <2>3 DEF Delete
<1>2. ProcessType'
    <2>1. CASE DeleteDone /\ UNCHANGED <<attached, guest, phase, seen, report>>
        BY <1>0, <2>1 DEF DeleteDone, ProcessType, DeletePC, CreatePC, Owner
    <2>2. CASE /\ UNCHANGED <<attached, guest, phase, seen, report>>
               /\ Release \/ \E next \in DeletePC : Goto(next)
        BY <1>0, <2>2 DEF ProcessType, DeletePC, CreatePC, Owner
    <2>3. QED
        BY <2>1, <2>2 DEF Delete, CheckClaims, DeleteFault, WriteIntent, Destroy,
           RecheckReferences, RemoveVolumes, RemoveDomain, DeleteStep, Attempt, DeletePC
<1>3. FaultStep
    BY DEF Delete, CheckClaims, DeleteFault, WriteIntent, Destroy, FaultStep,
           RecheckReferences, RemoveVolumes, RemoveDomain, DeleteStep, Attempt
<1>4. QED
    BY <1>0, <1>1, <1>2, <1>3, FaultType, TypeParts

\* Requests, launch recovery and the observer.
Request == Reset \/ \E u \in Node : Kill(u)

Sweep ==
    \/ Startup \/ Recover \/ Pass
    \/ \E r \in seen : CleanUp(r) \/ Skip(r) \/ Advance(r)

\* What happens to the process and around it.
World == Stop \/ Crash \/ Environment \/ \E u \in Node : Report(u)

\* A step is one of five groups, or a stutter.
LEMMA NextCases ==
    Next <=> Create \/ Delete \/ Request \/ Sweep \/ World
BY DEF Next, Request, Sweep, World, Observe

\* Advance either leaves the host alone, or writes one evidence-backed state
\* over a state that is still what the listing said.
LEMMA AdvanceFacts ==
    ASSUME TypeOK, NEW r \in seen, Advance(r)
    PROVE  /\ r.node \in Node /\ UNCHANGED <<world, holder, phase>>
           /\ \/ UNCHANGED <<host, faults>>
              \/ /\ pc = "idle"
                 /\ Current(r.node, r.generation, r.state)
                 /\ meta[r.node] \in Metadata
                 /\ meta[r.node].state \in {"booting", "configuring", "failed"}
                 /\ \E new \in {"configuring", "configured", "failed"} :
                       /\ new = "configured" => report[r.node] = "started"
                       /\ Attempt(WriteMeta(r.node, Advanced(meta[r.node], new)),
                                  TRUE, TRUE)
<1>1. /\ r \in Record /\ r.node \in Node /\ r.state \in State \ Incomplete
      /\ report[r.node] \in Evidence
    BY DEF TypeOK, Record, Advance
<1>. DEFINE new == Target(r.state, report[r.node])
<1>2. CASE new = r.state
    BY <1>1, <1>2 DEF Advance
<1>3. CASE new # r.state
    <2>1. /\ r.state \in {"booting", "configuring", "failed"}
          /\ new \in {"configuring", "configured", "failed"}
          /\ new = "configured" => report[r.node] = "started"
        BY <1>1, <1>3, TargetFacts DEF State, Incomplete
    <2>2. /\ pc = "idle"
          /\ IF MayAdvance(r, new)
             THEN Attempt(WriteMeta(r.node, Advanced(meta[r.node], new)), TRUE, TRUE)
             ELSE UNCHANGED <<host, faults>>
        BY <1>3 DEF Advance
    <2>3. MayAdvance(r, new) =>
              /\ Current(r.node, r.generation, r.state)
              /\ meta[r.node] \in Metadata /\ meta[r.node].state = r.state
        BY <1>1 DEF MayAdvance, Current, TypeOK
    <2>4. UNCHANGED <<world, holder, phase>>
        BY DEF Advance
    <2>. HIDE DEF new
    <2>5. QED
        BY <1>1, <2>1, <2>2, <2>3, <2>4
<1>4. QED
    BY <1>2, <1>3

\* start_if_current starts only what Retained lists, and only one domain.
LEMMA StartFacts ==
    ASSUME TypeOK, NEW r \in seen, StartNext(r)
    PROVE  /\ r.node \in Node /\ UNCHANGED <<world, holder, phase, report>>
           /\ \/ UNCHANGED <<host, faults>>
              \/ /\ InState(r.node, Retained)
                 /\ Attempt(StartDomain(r.node), TRUE, TRUE)
BY DEF TypeOK, Record, StartNext, Current, InState

\* Kill and Reset only take the lock.
LEMMA RequestType ==
    ASSUME TypeOK, Request
    PROVE  TypeOK'
BY DEF TypeOK, Request, Reset, Kill, Managed, DeletePC, Owner

\* Startup, recovery, the observer and the end of the process are typed.
LEMMA SweepType ==
    ASSUME TypeOK, Sweep
    PROVE  TypeOK'
<1>0. HostType /\ ProcessType /\ faults \in 0..MaxFaults /\ Snapshot \in SUBSET Record
    BY TypeParts, SnapshotType
<1>1. ASSUME NEW r \in seen, Advance(r)
      PROVE  TypeOK'
    <2>1. HostType'
        <3>1. CASE UNCHANGED host
            BY <1>0, <3>1, EffectType DEF ProcessType, Record
        <3>2. CASE ~UNCHANGED host
            <4>1. PICK new \in {"configuring", "configured", "failed"} :
                      /\ r.node \in Node /\ meta[r.node] \in Metadata
                      /\ Attempt(WriteMeta(r.node, Advanced(meta[r.node], new)),
                                 TRUE, TRUE)
                BY <1>1, <3>2, AdvanceFacts
            <4>2. Advanced(meta[r.node], new) \in Metadata
                BY <4>1, AdvancedFacts DEF State
            <4>3. QED
                BY <1>0, <3>2, <4>1, <4>2, EffectType DEF Attempt
        <3>3. QED
            BY <3>1, <3>2
    <2>2. ProcessType'
        <3>1. UNCHANGED <<world, holder, phase>>
            BY <1>1, AdvanceFacts
        <3>2. /\ seen' = seen \ {r}
              /\ report' = [report EXCEPT ![r.node] = "none"]
            BY <1>1 DEF Advance
        <3>3. QED
            BY <1>0, <3>1, <3>2 DEF ProcessType, Evidence
    <2>3. FaultStep
        BY <1>1, AdvanceFacts DEF Attempt, FaultStep
    <2>4. QED
        BY <1>0, <2>1, <2>2, <2>3, FaultType, TypeParts
<1>2. ASSUME NEW r \in seen, StartNext(r)
      PROVE  TypeOK'
    <2>1. HostType'
        BY <1>0, <1>2, StartFacts, EffectType DEF Attempt
    <2>2. ProcessType'
        BY <1>0, <1>2, StartFacts DEF ProcessType, StartNext
    <2>3. FaultStep
        BY <1>2, StartFacts DEF Attempt, FaultStep
    <2>4. QED
        BY <1>0, <2>1, <2>2, <2>3, FaultType, TypeParts
<1>3. ASSUME NEW r \in seen, CleanUp(r) \/ Skip(r)
      PROVE  TypeOK'
    BY <1>3 DEF TypeOK, CleanUp, Skip, Record, DeletePC, Owner
<1>4. CASE Startup \/ CleanedUp \/ Serve \/ Pass
    BY <1>0, <1>4 DEF TypeOK, Startup, CleanedUp, Serve, Pass, Phase, Evidence
<1>5. QED
    BY <1>1, <1>2, <1>3, <1>4 DEF Sweep, Recover

\* What is not ours is typed.
LEMMA WorldType ==
    ASSUME TypeOK, World
    PROVE  TypeOK'
<1>1. CASE Stop \/ Crash
    BY <1>1, ConstantsAssumption
    DEF TypeOK, Stop, Crash, Down, Phase, Owner, NoReports, Evidence
<1>2. CASE Environment
    BY <1>2 DEF TypeOK, Environment, GuestPrepares, GuestStarts, PowerOff,
       AdminStart, Attach, Detach, StartDomain, DestroyDomain, Stage
<1>3. ASSUME NEW u \in Node, Report(u)
      PROVE  TypeOK'
    BY <1>3 DEF TypeOK, Report, Truth, Evidence
<1>4. QED
    BY <1>1, <1>2, <1>3 DEF World
-----------------------------------------------------------------------------
(***************************************************************************)
(* Volumes, claims and running domains.                                    *)
(***************************************************************************)
Safe == NoOrphanVolumes /\ RetainedIsComplete /\ RunningHasDisks

\* The effects preserve Safe under what the lock holder knows at each.
LEMMA SafeEffects ==
    ASSUME HostType, Safe, NEW u \in Node
    PROVE  /\ \A m \in Metadata, c \in Node :
                  meta[u] = None /\ m.state = "creating" /\ DefineXML(u, m, c) => Safe'
           /\ \A m \in Metadata :
                  /\ meta[u] # None
                  /\ m.state \in Incomplete
                        \/ u \in overlay \cap seedvol \cap uploaded
                  /\ WriteMeta(u, m)
                  => Safe'
           /\ meta[u] # None =>
                  /\ CreateOverlay(u) => Safe'
                  /\ CreateSeed(u) => Safe'
                  /\ UploadSeed(u) => Safe'
           /\ InState(u, State \ Incomplete) /\ StartDomain(u) => Safe'
           /\ DestroyDomain(u) => Safe'
           /\ InState(u, {"deleting"}) /\ u \notin active =>
                  /\ DeleteOverlay(u) => Safe'
                  /\ DeleteSeed(u) => Safe'
                  /\ u \notin overlay \cup seedvol /\ Undefine(u) => Safe'
           /\ UNCHANGED host => Safe'
<1>. USE DEF Safe, NoOrphanVolumes, RetainedIsComplete, RunningHasDisks, Managed,
             HostType
<1>0. None \notin Metadata
    BY ConstantsAssumption
<1>1. \A m \in Metadata, c \in Node :
          meta[u] = None /\ m.state = "creating" /\ DefineXML(u, m, c) => Safe'
    BY <1>0 DEF DefineXML, Incomplete
<1>2. \A m \in Metadata :
          /\ meta[u] # None
          /\ m.state \in Incomplete \/ u \in overlay \cap seedvol \cap uploaded
          /\ WriteMeta(u, m)
          => Safe'
    BY <1>0 DEF WriteMeta
<1>3. meta[u] # None => /\ CreateOverlay(u) => Safe'
                        /\ CreateSeed(u) => Safe'
                        /\ UploadSeed(u) => Safe'
    BY DEF CreateOverlay, CreateSeed, UploadSeed
<1>4. InState(u, State \ Incomplete) /\ StartDomain(u) => Safe'
    BY DEF InState, StartDomain
<1>5. DestroyDomain(u) => Safe'
    BY DEF DestroyDomain
<1>6. InState(u, {"deleting"}) /\ u \notin active =>
          /\ DeleteOverlay(u) => Safe'
          /\ DeleteSeed(u) => Safe'
          /\ u \notin overlay \cup seedvol /\ Undefine(u) => Safe'
    BY DEF InState, Incomplete, DeleteOverlay, DeleteSeed, Undefine
<1>7. UNCHANGED host => Safe'
    OBVIOUS
<1>8. QED
    BY <1>1, <1>2, <1>3, <1>4, <1>5, <1>6, <1>7

\* A create reaches "booting" only with both volumes and a whole seed.
LEMMA CreateSafe ==
    ASSUME Inv, Create
    PROVE  Safe'
<1>0. /\ TypeOK /\ HostType /\ ProcessType /\ CreateProgress /\ Safe
      /\ \A u \in Node : meta[u] # None => u \in used
    BY TypeParts DEF Inv, Safe, ClusterInv, Managed
<1>1. ASSUME NEW role \in Role, Deploy(role)
      PROVE  Safe'
    <2>1. PICK u \in Node \ used : \E p \in Plan(u, role) :
              Attempt(DefineXML(u, Initial(role, p.bootstrap), p.cluster),
                      Hold("deploy", "overlay", u, {}), Compensate(u))
        BY <1>1 DEF Deploy
    <2>2. PICK p \in Plan(u, role) :
              Attempt(DefineXML(u, Initial(role, p.bootstrap), p.cluster),
                      Hold("deploy", "overlay", u, {}), Compensate(u))
        BY <2>1
    <2>3. /\ p.cluster \in Node /\ Initial(role, p.bootstrap) \in Metadata
          /\ Initial(role, p.bootstrap).state = "creating"
        BY <1>0, PlanType, InitialFacts
    <2>4. QED
        BY <1>0, <2>2, <2>3, SafeEffects DEF Attempt
<1>2. CASE CreateVolumes
    BY <1>0, <1>2, SafeEffects
    DEF CreateVolumes, CreateStep, Attempt, CreateProgress, CreatePC, Managed
<1>3. CASE CommitLaunch
    <2>1. /\ cur \in Node /\ meta[cur] \in Metadata /\ meta[cur] # None
          /\ cur \in overlay \cap seedvol \cap uploaded
        BY <1>0, <1>3 DEF CommitLaunch, CreateStep, CreateProgress, CreatePC,
                          Managed, HostType
    <2>2. Advanced(meta[cur], "booting") \in Metadata
        BY <2>1, AdvancedFacts DEF State
    <2>3. QED
        BY <1>0, <1>3, <2>1, <2>2, SafeEffects DEF CommitLaunch, CreateStep, Attempt
<1>4. CASE Launch
    <2>1. cur \in Node /\ InState(cur, State \ Incomplete)
        BY <1>0, <1>4 DEF Launch, CreateProgress, CreatePC, Managed, InState,
                          HostType, Metadata
    <2>2. QED
        BY <1>0, <1>4, <2>1, SafeEffects DEF Launch, Attempt
<1>5. QED
    BY <1>1, <1>2, <1>3, <1>4 DEF Create

\* A delete removes a volume only of a VM that is down, the claim last.
LEMMA DeleteSafe ==
    ASSUME Inv, Delete
    PROVE  Safe'
<1>0. /\ HostType /\ ProcessType /\ DeleteProgress /\ Safe
      /\ pc # "idle" /\ cur \in Node
    BY TypeParts DEF Inv, Safe, ProcessType, Delete, CheckClaims, DeleteFault,
       WriteIntent, Destroy, RecheckReferences, RemoveVolumes, RemoveDomain, DeleteStep
<1>1. CASE WriteIntent
    <2>1. meta[cur] \in Metadata /\ meta[cur] # None
        BY <1>0, <1>1 DEF DeleteProgress, DeletePC, Managed, HostType,
                          WriteIntent, DeleteStep
    <2>2. QED
        BY <1>0, <1>1, <2>1, SafeEffects, CondemnedFacts
        DEF WriteIntent, DeleteStep, Attempt, Incomplete
<1>2. CASE Destroy
    BY <1>0, <1>2, SafeEffects DEF Destroy, DeleteStep, Attempt
<1>3. CASE RemoveVolumes \/ RemoveDomain
    <2>1. InState(cur, {"deleting"}) /\ cur \notin active
        BY <1>0, <1>3 DEF DeleteProgress, DeletePC, Managed, InState,
                          RemoveVolumes, RemoveDomain, DeleteStep
    <2>2. RemoveDomain => cur \notin overlay \cup seedvol
        BY <1>0 DEF DeleteProgress, RemoveDomain, DeleteStep
    <2>3. QED
        BY <1>0, <1>3, <2>1, <2>2, SafeEffects
        DEF RemoveVolumes, RemoveDomain, DeleteStep, Attempt
<1>4. CASE CheckClaims \/ DeleteFault \/ RecheckReferences
    BY <1>0, <1>4, SafeEffects DEF CheckClaims, DeleteFault, RecheckReferences
<1>5. QED
    BY <1>1, <1>2, <1>3, <1>4 DEF Delete

\* Recovery starts, and the observer advances, only complete nodes.
LEMMA SweepSafe ==
    ASSUME Inv, Sweep \/ Request
    PROVE  Safe'
<1>0. TypeOK /\ HostType /\ Safe
    BY TypeParts DEF Inv, Safe
<1>1. ASSUME UNCHANGED host
      PROVE  Safe'
    BY <1>0, <1>1 DEF Safe, NoOrphanVolumes, RetainedIsComplete, RunningHasDisks, Managed
<1>2. ASSUME NEW r \in seen, Advance(r), ~UNCHANGED host
      PROVE  Safe'
    <2>1. PICK new \in {"configuring", "configured", "failed"} :
              /\ r.node \in Node /\ meta[r.node] \in Metadata
              /\ Current(r.node, r.generation, r.state)
              /\ meta[r.node].state \in {"booting", "configuring", "failed"}
              /\ Attempt(WriteMeta(r.node, Advanced(meta[r.node], new)), TRUE, TRUE)
        BY <1>0, <1>2, AdvanceFacts
    <2>2. Advanced(meta[r.node], new) \in Metadata
        BY <2>1, AdvancedFacts DEF State
    <2>3. meta[r.node] # None /\ r.node \in overlay \cap seedvol \cap uploaded
        BY <1>0, <2>1 DEF Current, Safe, RetainedIsComplete, Managed, Incomplete
    <2>4. WriteMeta(r.node, Advanced(meta[r.node], new))
        BY <1>2, <2>1 DEF Attempt
    <2>5. QED
        BY <1>0, <2>1, <2>2, <2>3, <2>4, SafeEffects
<1>3. ASSUME NEW r \in seen, StartNext(r), ~UNCHANGED host
      PROVE  Safe'
    <2>1. /\ r.node \in Node /\ InState(r.node, Retained) /\ StartDomain(r.node)
        BY <1>0, <1>3, StartFacts DEF Attempt
    <2>2. InState(r.node, State \ Incomplete)
        BY <2>1 DEF InState, Retained, State, Incomplete
    <2>3. QED
        BY <1>0, <2>1, <2>2, SafeEffects
<1>4. QED
    BY <1>1, <1>2, <1>3
    DEF Sweep, Request, Recover, Startup, CleanedUp, Serve, Pass, CleanUp, Skip,
        Reset, Kill

\* Guests and administrators do not disturb the volumes.
LEMMA WorldSafe ==
    ASSUME Inv, World
    PROVE  Safe'
<1>0. HostType /\ Safe
    BY TypeParts DEF Inv, Safe
<1>1. ASSUME UNCHANGED host
      PROVE  Safe'
    BY <1>0, <1>1 DEF Safe, NoOrphanVolumes, RetainedIsComplete, RunningHasDisks, Managed
<1>2. ASSUME NEW u \in Node, PowerOff(u)
      PROVE  Safe'
    BY <1>0, <1>2, SafeEffects DEF PowerOff
<1>3. ASSUME NEW u \in Node, AdminStart(u)
      PROVE  Safe'
    BY <1>0, <1>3, SafeEffects DEF AdminStart, InState, Retained, State, Incomplete
<1>4. QED
    BY <1>1, <1>2, <1>3
    DEF World, Stop, Crash, Down, Environment, GuestPrepares, GuestStarts, Attach,
        Detach, Report
-----------------------------------------------------------------------------
(***************************************************************************)
(* What the lock holder knows.                                             *)
(***************************************************************************)
Progress == CreateProgress /\ DeleteProgress /\ Mandate

\* Whoever lets go of the lock knows nothing any more.
LEMMA ReleaseProgress ==
    ASSUME Release
    PROVE  Progress'
BY DEF Progress, CreateProgress, DeleteProgress, Mandate, CreatePC, DeletePC

\* A failed create either goes on to delete its own node, or lets go.
LEMMA CompensateProgress ==
    ASSUME NEW u \in Node, Compensate(u)
    PROVE  Progress'
<1>1. CASE Release
    BY <1>1, ReleaseProgress
<1>2. CASE ~Release
    BY <1>2 DEF Compensate, Progress, CreateProgress, DeleteProgress, Mandate,
                CreatePC, DeletePC, Incomplete
<1>3. QED
    BY <1>1, <1>2

\* Every step of a create establishes what the next relies on.
LEMMA CreateKnows ==
    ASSUME Inv, Create
    PROVE  Progress'
<1>0. /\ TypeOK /\ HostType /\ ProcessType /\ Progress
      /\ None \notin Metadata
    BY TypeParts, ConstantsAssumption DEF Inv, Progress
<1>1. ASSUME NEW role \in Role, Deploy(role)
      PROVE  Progress'
    <2>1. PICK u \in Node \ used : \E p \in Plan(u, role) :
              Attempt(DefineXML(u, Initial(role, p.bootstrap), p.cluster),
                      Hold("deploy", "overlay", u, {}), Compensate(u))
        BY <1>1 DEF Deploy
    <2>2. PICK p \in Plan(u, role) :
              Attempt(DefineXML(u, Initial(role, p.bootstrap), p.cluster),
                      Hold("deploy", "overlay", u, {}), Compensate(u))
        BY <2>1
    <2>3. /\ Initial(role, p.bootstrap) \in Metadata
          /\ Initial(role, p.bootstrap).state = "creating"
        BY <1>0, PlanType, InitialFacts
    <2>4. CASE /\ DefineXML(u, Initial(role, p.bootstrap), p.cluster)
               /\ Hold("deploy", "overlay", u, {})
        <3>1. meta'[u] = Initial(role, p.bootstrap)
            BY <1>0, <2>4 DEF DefineXML, HostType
        <3>2. QED
            BY <1>0, <2>3, <2>4, <3>1 DEF Progress, CreateProgress, DeleteProgress,
               Mandate, CreatePC, DeletePC, Managed
    <2>5. QED
        BY <2>2, <2>4, CompensateProgress DEF Attempt
<1>2. CASE CreateVolumes
    <2>1. cur \in Node
        BY <1>0, <1>2 DEF CreateVolumes, CreateStep, ProcessType
    <2>2. CASE Compensate(cur)
        BY <2>1, <2>2, CompensateProgress
    <2>3. CASE ~Compensate(cur)
        BY <1>0, <1>2, <2>3
        DEF CreateVolumes, CreateStep, Attempt, Progress, CreateProgress,
            DeleteProgress, Mandate, CreatePC, DeletePC, Managed,
            CreateOverlay, CreateSeed, UploadSeed
    <2>4. QED
        BY <2>2, <2>3
<1>3. CASE CommitLaunch
    <2>1. /\ cur \in Node /\ meta[cur] \in Metadata
          /\ pc = "booting"
        BY <1>0, <1>3 DEF CommitLaunch, CreateStep, Progress, CreateProgress,
                          CreatePC, Managed, HostType
    <2>2. CASE Compensate(cur)
        BY <2>1, <2>2, CompensateProgress
    <2>3. CASE WriteMeta(cur, Advanced(meta[cur], "booting")) /\ Goto("launch")
        <3>1. /\ meta'[cur] \in Metadata /\ meta'[cur].state = "booting"
            BY <1>0, <2>1, <2>3, AdvancedFacts DEF WriteMeta, HostType, State
        <3>2. QED
            BY <1>0, <2>1, <2>3, <3>1 DEF Progress, CreateProgress, DeleteProgress,
               Mandate, CreatePC, DeletePC, Managed, Incomplete
    <2>4. QED
        BY <1>3, <2>2, <2>3 DEF CommitLaunch, CreateStep, Attempt
<1>4. CASE Launch
    BY <1>4, ReleaseProgress DEF Launch, Attempt
<1>5. QED
    BY <1>1, <1>2, <1>3, <1>4 DEF Create

\* Every step of a delete establishes what the next relies on.
LEMMA DeleteKnows ==
    ASSUME Inv, Delete
    PROVE  Progress'
<1>0. /\ HostType /\ ProcessType /\ Progress /\ None \notin Metadata
      /\ pc # "idle" /\ cur \in Node
    BY TypeParts, ConstantsAssumption
    DEF Inv, Progress, ProcessType, Delete, CheckClaims, DeleteFault, WriteIntent,
        Destroy, RecheckReferences, RemoveVolumes, RemoveDomain, DeleteStep
<1>1. CASE Release
    BY <1>1, ReleaseProgress
<1>2. ASSUME DeleteDone, ~Release
      PROVE  Progress'
    <2>1. /\ pc' = "check" /\ owner' = owner /\ batch # {}
        BY <1>2 DEF DeleteDone
    <2>2. owner = "operator"
        BY <1>0, <2>1 DEF Progress, Mandate
    <2>3. QED
        BY <2>1, <2>2 DEF Progress, CreateProgress, DeleteProgress, Mandate,
                          CreatePC, DeletePC
<1>3. CASE CheckClaims /\ ~Release /\ ~DeleteDone
    BY <1>0, <1>3 DEF CheckClaims, Progress, CreateProgress, DeleteProgress, Mandate,
                      CreatePC, DeletePC, Managed
<1>4. CASE WriteIntent /\ ~Release
    <2>1. meta[cur] \in Metadata /\ pc = "intent"
        BY <1>0, <1>4 DEF Progress, DeleteProgress, DeletePC, Managed, HostType,
                          WriteIntent, DeleteStep
    <2>2. WriteMeta(cur, Condemned(meta[cur])) /\ Goto("destroy")
        BY <1>4 DEF WriteIntent, DeleteStep, Attempt
    <2>3. meta'[cur] \in Metadata /\ meta'[cur].state = "deleting"
        BY <1>0, <2>1, <2>2, CondemnedFacts DEF WriteMeta, HostType
    <2>4. QED
        BY <1>0, <2>2, <2>3 DEF Progress, CreateProgress, DeleteProgress, Mandate,
           CreatePC, DeletePC, Managed
<1>5. CASE (Destroy \/ RecheckReferences) /\ ~Release
    BY <1>0, <1>5
    DEF Destroy, RecheckReferences, DeleteStep, Attempt, Progress, CreateProgress,
        DeleteProgress, Mandate, CreatePC, DeletePC, Managed, Running, DestroyDomain
<1>6. CASE RemoveVolumes /\ ~Release
    BY <1>0, <1>6
    DEF RemoveVolumes, DeleteStep, Attempt, Progress, CreateProgress,
        DeleteProgress, Mandate, CreatePC, DeletePC, Managed, DeleteOverlay, DeleteSeed
<1>7. QED
    BY <1>1, <1>2, <1>3, <1>4, <1>5, <1>6
    DEF Delete, DeleteFault, CheckClaims, RemoveDomain, DeleteStep, Attempt

\* A kill or a reset starts with the mandate of an operator.
LEMMA RequestKnows ==
    ASSUME Inv, Request
    PROVE  Progress'
BY DEF Request, Reset, Kill, Progress, CreateProgress, DeleteProgress, Mandate,
       CreatePC, DeletePC

\* What the lock holder knows depends on these variables only.
LEMMA SameProgress ==
    ASSUME Progress, UNCHANGED <<host, holder, attached>>
    PROVE  Progress'
BY DEF Progress, CreateProgress, DeleteProgress, Mandate, Managed

\* With the lock free there is nothing to know.
LEMMA IdleProgress ==
    ASSUME TypeOK, Progress, pc = "idle", UNCHANGED holder
    PROVE  Progress'
BY DEF Progress, CreateProgress, DeleteProgress, Mandate, CreatePC, DeletePC

\* Powering on a node that is not being deleted disturbs no delete.
LEMMA StartKnows ==
    ASSUME Inv, NEW u \in Node, InState(u, State \ {"deleting"}), StartDomain(u),
           UNCHANGED <<world, holder>>
    PROVE  Progress'
BY DEF Inv, InState, StartDomain, Progress, CreateProgress, DeleteProgress, Mandate,
       Managed, DeletePC

\* Automatic cleanup starts with an incomplete node only.
LEMMA SweepKnows ==
    ASSUME Inv, Sweep
    PROVE  Progress'
<1>0. TypeOK /\ Progress
    BY DEF Inv, Progress
<1>1. ASSUME NEW r \in seen, Advance(r)
      PROVE  Progress'
    BY <1>0, <1>1, AdvanceFacts, SameProgress, IdleProgress
<1>2. ASSUME NEW r \in seen, StartNext(r)
      PROVE  Progress'
    <2>1. r.node \in Node /\ UNCHANGED <<world, holder>>
        BY <1>0, <1>2, StartFacts
    <2>2. CASE UNCHANGED host
        BY <1>0, <2>1, <2>2, SameProgress
    <2>3. CASE ~UNCHANGED host
        <3>1. StartDomain(r.node) /\ InState(r.node, Retained)
            BY <1>0, <1>2, <2>3, StartFacts DEF Attempt
        <3>2. InState(r.node, State \ {"deleting"})
            BY <3>1 DEF InState, Retained, State
        <3>3. QED
            BY <2>1, <3>1, <3>2, StartKnows
    <2>4. QED
        BY <2>2, <2>3
<1>3. ASSUME NEW r \in seen, CleanUp(r)
      PROVE  Progress'
    <2>1. CASE Current(r.node, r.generation, r.state)
        <3>1. /\ pc' = "check" /\ cur' = r.node /\ batch' = {} /\ meta' = meta
              /\ meta[r.node].state \in Incomplete
            BY <1>3, <2>1 DEF CleanUp, Current
        <3>2. QED
            BY <3>1 DEF Progress, CreateProgress, DeleteProgress, Mandate,
                        CreatePC, DeletePC
    <2>2. CASE ~Current(r.node, r.generation, r.state)
        BY <1>0, <1>3, <2>2, SameProgress DEF CleanUp
    <2>3. QED
        BY <2>1, <2>2
<1>4. ASSUME UNCHANGED <<host, world, holder>>
      PROVE  Progress'
    BY <1>0, <1>4, SameProgress
<1>5. QED
    BY <1>1, <1>2, <1>3, <1>4
    DEF Sweep, Recover, Startup, CleanedUp, Serve, Pass, Skip

\* Nothing that is not ours refutes what the lock holder knows.
LEMMA WorldKnows ==
    ASSUME Inv, World
    PROVE  Progress'
<1>0. TypeOK /\ Progress
    BY DEF Inv, Progress
<1>1. CASE Stop \/ Crash
    BY <1>1, ReleaseProgress DEF Stop, Crash, Down
<1>2. ASSUME NEW u \in Node, AdminStart(u)
      PROVE  Progress'
    BY <1>2, StartKnows DEF AdminStart, InState, Retained, State
<1>3. ASSUME NEW u \in Node, PowerOff(u) \/ Attach(u) \/ Detach(u)
      PROVE  Progress'
    BY <1>0, <1>3 DEF PowerOff, Attach, Detach, DestroyDomain, Progress,
       CreateProgress, DeleteProgress, Mandate, Managed
<1>4. ASSUME UNCHANGED <<host, holder, attached>>
      PROVE  Progress'
    BY <1>0, <1>4, SameProgress
<1>5. QED
    BY <1>1, <1>2, <1>3, <1>4
    DEF World, Environment, GuestPrepares, GuestStarts, Report
-----------------------------------------------------------------------------
(***************************************************************************)
(* Clusters and evidence.                                                  *)
(***************************************************************************)
Claims == ClusterInv /\ ConfiguredIsProven

\* The effects preserve Claims: a domain is defined for a fresh UUID into the
\* cluster of those that remain, a record keeps its bootstrap flag, and only
\* evidence writes "configured".
LEMMA ClaimEffects ==
    ASSUME HostType, Claims, guest' = guest, NEW u \in Node
    PROVE  /\ \A m \in Metadata, c \in Node :
                  /\ meta[u] = None /\ m.state = "creating"
                  /\ m.bootstrap => c = u
                  /\ \A v \in Managed : cluster[v] = c
                  /\ DefineXML(u, m, c)
                  => Claims'
           /\ \A m \in Metadata :
                  /\ meta[u] # None /\ m.bootstrap = meta[u].bootstrap
                  /\ m.state = "configured" => guest[u] = "started"
                  /\ WriteMeta(u, m)
                  => Claims'
           /\ Undefine(u) => Claims'
           /\ UNCHANGED <<meta, used, cluster>> => Claims'
<1>. USE DEF Claims, ClusterInv, ConfiguredIsProven, Managed, HostType
<1>0. None \notin Metadata
    BY ConstantsAssumption
<1>1. ASSUME NEW m \in Metadata, NEW c \in Node,
             meta[u] = None, m.state = "creating", m.bootstrap => c = u,
             \A v \in Managed : cluster[v] = c, DefineXML(u, m, c)
      PROVE  Claims'
    <2>1. /\ meta' = [meta EXCEPT ![u] = m] /\ used' = used \cup {u}
          /\ cluster' = [cluster EXCEPT ![u] = c]
        BY <1>1 DEF DefineXML
    <2>2. \A v \in Managed' : /\ v \in used' /\ cluster'[v] = c
                              /\ v = u \/ (v \in Managed /\ meta'[v] = meta[v])
        BY <1>1, <2>1
    <2>3. meta'[u] = m /\ cluster'[u] = c /\ meta[u] = None
        BY <1>1, <2>1
    <2>4. ClusterInv'
        BY <1>1, <2>2, <2>3
    <2>5. ConfiguredIsProven'
        BY <1>1, <2>2, <2>3
    <2>6. QED
        BY <2>4, <2>5
<1>2. ASSUME NEW m \in Metadata, meta[u] # None, m.bootstrap = meta[u].bootstrap,
             m.state = "configured" => guest[u] = "started", WriteMeta(u, m)
      PROVE  Claims'
    BY <1>0, <1>2 DEF WriteMeta
<1>3. Undefine(u) => Claims'
    BY <1>0 DEF Undefine
<1>4. UNCHANGED <<meta, used, cluster>> => Claims'
    OBVIOUS
<1>5. QED
    BY <1>1, <1>2, <1>3, <1>4

\* A create bootstraps on an empty host, or joins the only cluster.
LEMMA CreateClaims ==
    ASSUME Inv, Create
    PROVE  Claims'
<1>0. /\ TypeOK /\ HostType /\ ProcessType /\ CreateProgress /\ Claims /\ guest' = guest
      /\ \A u \in Node : meta[u] # None => u \in used
    BY TypeParts DEF Inv, Claims, ClusterInv, Managed, Create, Deploy, CreateVolumes,
                     CreateStep, CommitLaunch, Launch
<1>1. ASSUME NEW role \in Role, Deploy(role)
      PROVE  Claims'
    <2>1. PICK u \in Node \ used : \E p \in Plan(u, role) :
              Attempt(DefineXML(u, Initial(role, p.bootstrap), p.cluster),
                      Hold("deploy", "overlay", u, {}), Compensate(u))
        BY <1>1 DEF Deploy
    <2>2. PICK p \in Plan(u, role) :
              Attempt(DefineXML(u, Initial(role, p.bootstrap), p.cluster),
                      Hold("deploy", "overlay", u, {}), Compensate(u))
        BY <2>1
    <2>3. /\ p.cluster \in Node /\ Initial(role, p.bootstrap) \in Metadata
          /\ Initial(role, p.bootstrap).state = "creating"
          /\ Initial(role, p.bootstrap).bootstrap = p.bootstrap
        BY <1>0, PlanType, InitialFacts
    <2>4. /\ p.bootstrap => p.cluster = u
          /\ \A v \in Managed : cluster[v] = p.cluster
        <3>1. CASE p = [bootstrap |-> TRUE, cluster |-> u] /\ Managed = {}
            BY <3>1
        <3>2. ASSUME NEW s \in Managed, p = [bootstrap |-> FALSE, cluster |-> cluster[s]]
              PROVE  <2>4
            BY <1>0, <3>2 DEF Claims, ClusterInv
        <3>3. QED
            BY <1>0, <3>1, <3>2, PlanFacts
    <2>5. QED
        BY <1>0, <2>2, <2>3, <2>4, ClaimEffects DEF Attempt
<1>2. CASE CreateVolumes \/ Launch
    <2>1. UNCHANGED <<meta, used, cluster>> /\ cur \in Node
        BY <1>0, <1>2 DEF CreateVolumes, CreateStep, Launch, Attempt, CreateOverlay,
                          CreateSeed, UploadSeed, StartDomain, ProcessType
    <2>2. QED
        BY <1>0, <2>1, ClaimEffects
<1>3. CASE CommitLaunch
    <2>1. cur \in Node /\ meta[cur] \in Metadata /\ meta[cur] # None
        BY <1>0, <1>3 DEF CommitLaunch, CreateStep, CreateProgress, CreatePC,
                          Managed, HostType
    <2>2. /\ Advanced(meta[cur], "booting") \in Metadata
          /\ Advanced(meta[cur], "booting").state = "booting"
          /\ Advanced(meta[cur], "booting").bootstrap = meta[cur].bootstrap
        BY <2>1, AdvancedFacts DEF State
    <2>3. QED
        BY <1>0, <1>3, <2>1, <2>2, ClaimEffects DEF CommitLaunch, CreateStep, Attempt
<1>4. QED
    BY <1>1, <1>2, <1>3 DEF Create

\* A delete founds no cluster and configures nothing.
LEMMA DeleteClaims ==
    ASSUME Inv, Delete
    PROVE  Claims'
<1>0. /\ HostType /\ ProcessType /\ DeleteProgress /\ Claims
      /\ guest' = guest /\ cur \in Node
    BY TypeParts DEF Inv, Claims, ProcessType, Delete, CheckClaims, DeleteFault,
       WriteIntent, Destroy, RecheckReferences, RemoveVolumes, RemoveDomain, DeleteStep
<1>1. CASE WriteIntent
    <2>1. meta[cur] \in Metadata /\ meta[cur] # None
        BY <1>0, <1>1 DEF DeleteProgress, DeletePC, Managed, HostType,
                          WriteIntent, DeleteStep
    <2>2. QED
        BY <1>0, <1>1, <2>1, ClaimEffects, CondemnedFacts
        DEF WriteIntent, DeleteStep, Attempt
<1>2. CASE RemoveDomain
    BY <1>0, <1>2, ClaimEffects DEF RemoveDomain, DeleteStep, Attempt
<1>3. CASE ~(WriteIntent \/ RemoveDomain)
    <2>1. UNCHANGED <<meta, used, cluster>>
        BY <1>3 DEF Delete, CheckClaims, DeleteFault, Destroy, RecheckReferences,
           RemoveVolumes, DeleteStep, Attempt, DestroyDomain, DeleteOverlay, DeleteSeed
    <2>2. QED
        BY <1>0, <2>1, ClaimEffects
<1>4. QED
    BY <1>1, <1>2, <1>3

\* Only the evidence of a started guest makes a node "configured".
LEMMA SweepClaims ==
    ASSUME Inv, Sweep \/ Request
    PROVE  Claims'
<1>0. TypeOK /\ HostType /\ ProcessType /\ Claims /\ EvidenceInv
    BY TypeParts DEF Inv, Claims
<1>1. ASSUME UNCHANGED <<meta, used, cluster, guest>>
      PROVE  Claims'
    BY <1>0, <1>1 DEF Claims, ClusterInv, ConfiguredIsProven, Managed
<1>2. ASSUME NEW r \in seen, Advance(r), ~UNCHANGED host
      PROVE  Claims'
    <2>1. PICK new \in {"configuring", "configured", "failed"} :
              /\ r.node \in Node /\ meta[r.node] \in Metadata /\ guest' = guest
              /\ new = "configured" => report[r.node] = "started"
              /\ Current(r.node, r.generation, r.state)
              /\ Attempt(WriteMeta(r.node, Advanced(meta[r.node], new)), TRUE, TRUE)
        BY <1>0, <1>2, AdvanceFacts
    <2>2. /\ Advanced(meta[r.node], new) \in Metadata
          /\ Advanced(meta[r.node], new).state = new
          /\ Advanced(meta[r.node], new).bootstrap = meta[r.node].bootstrap
        BY <2>1, AdvancedFacts DEF State
    <2>3. meta[r.node] # None /\ (new = "configured" => guest[r.node] = "started")
        BY <1>0, <2>1 DEF Current, EvidenceInv, Truth
    <2>4. WriteMeta(r.node, Advanced(meta[r.node], new))
        BY <1>2, <2>1 DEF Attempt
    <2>5. QED
        BY <1>0, <2>1, <2>2, <2>3, <2>4, ClaimEffects
<1>3. ASSUME NEW r \in seen, StartNext(r)
      PROVE  Claims'
    BY <1>0, <1>1, <1>3, StartFacts DEF Attempt, StartDomain
<1>4. ASSUME NEW r \in seen, Advance(r), UNCHANGED host
      PROVE  Claims'
    BY <1>0, <1>1, <1>4, AdvanceFacts
<1>5. QED
    BY <1>1, <1>2, <1>3, <1>4
    DEF Sweep, Request, Recover, Startup, CleanedUp, Serve, Pass, CleanUp, Skip,
        Reset, Kill

\* Guests only move forward while their record stands.
LEMMA WorldClaims ==
    ASSUME Inv, World
    PROVE  Claims'
<1>0. HostType /\ ProcessType /\ Claims
    BY TypeParts DEF Inv, Claims
<1>1. UNCHANGED <<meta, used, cluster>>
    BY DEF World, Stop, Crash, Down, Environment, GuestPrepares, GuestStarts, PowerOff,
       AdminStart, Attach, Detach, Report, StartDomain, DestroyDomain
<1>2. \A u \in Node : guest[u] = "started" => guest'[u] = "started"
    BY <1>0 DEF World, Stop, Crash, Down, Environment, GuestPrepares, GuestStarts,
       PowerOff, AdminStart, Attach, Detach, Report, ProcessType
<1>3. QED
    BY <1>0, <1>1, <1>2 DEF Claims, ClusterInv, ConfiguredIsProven, Managed

\* Only a guest itself gets on, while nothing else happens to its node.
LEMMA GuestSteps ==
    ASSUME Next
    PROVE  \/ guest' = guest
           \/ /\ UNCHANGED <<host, report>>
              /\ \E u \in Node : GuestPrepares(u) \/ GuestStarts(u)
<1>1. CASE World
    BY <1>1 DEF World, Stop, Crash, Down, Environment, GuestPrepares, GuestStarts,
                PowerOff, AdminStart, Attach, Detach, Report
<1>2. CASE ~World
    BY <1>2, NextCases
    DEF Create, Deploy, CreateVolumes, CreateStep, CommitLaunch, Launch, Delete,
        CheckClaims, DeleteFault, WriteIntent, Destroy, DeleteStep, RecheckReferences,
        RemoveVolumes, RemoveDomain, Request, Kill, Reset, Sweep, Startup, Recover,
        CleanedUp, Serve, StartNext, Pass, CleanUp, Skip, Advance
<1>3. QED
    BY <1>1, <1>2

\* What was true of a guest is true of it later.
LEMMA TruthGrows ==
    ASSUME ProcessType, Next, NEW u \in Node
    PROVE  Truth(guest[u]) \subseteq Truth(guest'[u])
<1>1. guest'[u] = guest[u] \/ guest[u] = "blank" \/ guest'[u] = "started"
    BY GuestSteps DEF ProcessType, GuestPrepares, GuestStarts
<1>2. QED
    BY <1>1 DEF Truth

\* A report is the truth when it is fetched, and guests only move forward.
LEMMA EvidenceStep ==
    ASSUME TypeOK, EvidenceInv, Next
    PROVE  EvidenceInv'
<1>0. ProcessType
    BY TypeParts
<1>1. \A u \in Node : report'[u] = "none" \/ report'[u] = report[u]
                                         \/ report'[u] \in Truth(guest[u])
    <2>1. ASSUME NEW u \in Node, Report(u)
          PROVE  <1>1
        BY <1>0, <2>1 DEF Report, ProcessType
    <2>2. CASE Stop \/ Crash
        BY <2>2 DEF Stop, Crash, Down, NoReports
    <2>3. ASSUME NEW r \in seen, Advance(r)
          PROVE  <1>1
        BY <1>0, <2>3 DEF Advance, ProcessType
    <2>4. CASE Pass
        BY <2>4 DEF Pass
    <2>5. CASE report' = report
        BY <2>5
    <2>6. QED
        BY <2>1, <2>2, <2>3, <2>4, <2>5, NextCases
        DEF Create, Deploy, CreateVolumes, CreateStep, CommitLaunch, Launch,
            Delete, CheckClaims, DeleteFault, WriteIntent, Destroy, DeleteStep,
            RecheckReferences, RemoveVolumes, RemoveDomain, Request, Kill, Reset,
            Sweep, Startup, Recover, CleanedUp, Serve, StartNext, CleanUp, Skip,
            World, Environment, GuestPrepares, GuestStarts, PowerOff, AdminStart,
            Attach, Detach
<1>2. \A u \in Node : report'[u] \in Truth(guest[u])
    BY <1>1 DEF EvidenceInv, Truth
<1>3. QED
    BY <1>0, <1>2, TruthGrows DEF EvidenceInv
-----------------------------------------------------------------------------
(***************************************************************************)
(* The inductive invariant and the safety properties it implies.           *)
(***************************************************************************)
\* The host starts empty and the process down.
LEMMA InitInv == Init => Inv
<1>1. Init => TypeOK
    BY ConstantsAssumption DEF Init, TypeOK, Phase, Owner, Stage, Evidence
<1>2. Init => /\ CreateProgress /\ DeleteProgress /\ Mandate
              /\ NoOrphanVolumes /\ RetainedIsComplete /\ RunningHasDisks
              /\ ClusterInv /\ EvidenceInv /\ ConfiguredIsProven
    BY DEF Init, CreateProgress, DeleteProgress, Mandate, CreatePC, DeletePC, Managed,
       NoOrphanVolumes, RetainedIsComplete, RunningHasDisks, ClusterInv, EvidenceInv,
       ConfiguredIsProven, Truth
<1>3. QED
    BY <1>1, <1>2 DEF Inv

\* Every step preserves Inv, whoever takes it.
LEMMA NextInv == Inv /\ [Next]_vars => Inv'
<1>1. ASSUME Inv, Next
      PROVE  Inv'
    <2>1. TypeOK'
        BY <1>1, NextCases, CreateType, DeleteType, RequestType, SweepType, WorldType
        DEF Inv
    <2>2. Safe'
        BY <1>1, NextCases, CreateSafe, DeleteSafe, SweepSafe, WorldSafe
    <2>3. Progress'
        BY <1>1, NextCases, CreateKnows, DeleteKnows, RequestKnows, SweepKnows, WorldKnows
    <2>4. Claims'
        BY <1>1, NextCases, CreateClaims, DeleteClaims, SweepClaims, WorldClaims
    <2>5. EvidenceInv'
        BY <1>1, EvidenceStep DEF Inv
    <2>6. QED
        BY <2>1, <2>2, <2>3, <2>4, <2>5 DEF Inv, Safe, Progress, Claims
<1>2. ASSUME Inv, UNCHANGED vars
      PROVE  Inv'
    BY <1>2
    DEF Inv, vars, TypeOK, CreateProgress, DeleteProgress, Mandate, NoOrphanVolumes,
        RetainedIsComplete, RunningHasDisks, ClusterInv, EvidenceInv,
        ConfiguredIsProven, Managed
<1>3. QED
    BY <1>1, <1>2

\* Inv holds in every reachable state.
THEOREM Invariance == Spec => []Inv
BY InitInv, NextInv, PTL DEF Spec

\* Every variable keeps its type: no step of a request, of recovery or of the
\* observer acts on a node or a record that does not exist.
THEOREM TypeCorrect == Spec => []TypeOK
<1>1. Inv => TypeOK
    BY DEF Inv
<1>2. QED
    BY <1>1, Invariance, PTL

\* NoOrphanVolumes: create defines the claim before the volumes, _delete removes
\* the volumes before the claim, and compensation goes through _delete.
THEOREM VolumesAreClaimed == Spec => []NoOrphanVolumes
<1>1. Inv => NoOrphanVolumes
    BY DEF Inv
<1>2. QED
    BY <1>1, Invariance, PTL

\* RetainedIsComplete: whatever recovery may start has its volumes and seed.
THEOREM RetainedNodesAreComplete == Spec => []RetainedIsComplete
<1>1. Inv => RetainedIsComplete
    BY DEF Inv
<1>2. QED
    BY <1>1, Invariance, PTL

\* RunningHasDisks: no domain is active without its volumes.
THEOREM RunningNodesHaveDisks == Spec => []RunningHasDisks
<1>1. Inv => RunningHasDisks
    BY DEF Inv
<1>2. QED
    BY <1>1, Invariance, PTL

\* ConfiguredIsProven: the durable "configured" is backed by the guest.
THEOREM ConfiguredNodesStarted == Spec => []ConfiguredIsProven
<1>1. Inv => ConfiguredIsProven
    BY DEF Inv
<1>2. QED
    BY <1>1, Invariance, PTL

\* SingleCluster: the nodes that exist belong to one cluster, with at most one
\* bootstrap among them.
THEOREM OneCluster == Spec => []SingleCluster
<1>1. Inv => SingleCluster
    BY DEF Inv, ClusterInv, SingleCluster
<1>2. QED
    BY <1>1, Invariance, PTL
-----------------------------------------------------------------------------
(***************************************************************************)
(* What a step may do to the durable part of a node.                       *)
(***************************************************************************)
Same == UNCHANGED <<meta, overlay, seedvol, used>>

Defines(u) ==
    /\ meta[u] = None /\ u \notin used
    /\ \E role \in Role, bootstrap \in BOOLEAN, c \in Node :
           DefineXML(u, Initial(role, bootstrap), c)

Fills(u) == InState(u, {"creating"}) /\ (CreateOverlay(u) \/ CreateSeed(u))

Commits(u) ==
    /\ InState(u, {"creating"}) /\ u \in overlay \cap seedvol
    /\ WriteMeta(u, Advanced(meta[u], "booting"))

Learns(u) ==
    /\ InState(u, {"booting", "configuring", "failed"})
    /\ \E new \in {"configuring", "configured", "failed"} :
           WriteMeta(u, Advanced(meta[u], new))

Condemns(u) ==
    /\ InState(u, State \ {"deleting"})
    /\ owner = "operator" \/ InState(u, Incomplete)
    /\ WriteMeta(u, Condemned(meta[u]))

Empties(u) ==
    /\ InState(u, {"deleting"}) /\ u \notin attached /\ u \notin active
    /\ DeleteOverlay(u) \/ DeleteSeed(u)

Drops(u) ==
    /\ InState(u, {"deleting"}) /\ u \notin overlay \cup seedvol /\ u \notin active
    /\ Undefine(u)

DurableStep ==
    \/ Same
    \/ \E u \in Node : \/ Defines(u) \/ Fills(u) \/ Commits(u) \/ Learns(u)
                      \/ Condemns(u) \/ Empties(u) \/ Drops(u)

\* A reachable step does one of these to one node, or none.
LEMMA DurableSteps ==
    ASSUME Inv, Next
    PROVE  DurableStep
<1>0. /\ TypeOK /\ HostType /\ ProcessType
      /\ CreateProgress /\ DeleteProgress /\ Mandate /\ ClusterInv
    BY TypeParts DEF Inv
<1>1. ASSUME NEW role \in Role, Deploy(role)
      PROVE  DurableStep
    <2>1. PICK u \in Node \ used : \E p \in Plan(u, role) :
              Attempt(DefineXML(u, Initial(role, p.bootstrap), p.cluster),
                      Hold("deploy", "overlay", u, {}), Compensate(u))
        BY <1>1 DEF Deploy
    <2>2. PICK p \in Plan(u, role) :
              Attempt(DefineXML(u, Initial(role, p.bootstrap), p.cluster),
                      Hold("deploy", "overlay", u, {}), Compensate(u))
        BY <2>1
    <2>3. p.bootstrap \in BOOLEAN /\ p.cluster \in Node
        BY <1>0, PlanType
    <2>4. meta[u] = None /\ u \notin used
        BY <1>0, <2>1 DEF ClusterInv, Managed
    <2>5. CASE DefineXML(u, Initial(role, p.bootstrap), p.cluster)
        BY <2>3, <2>4, <2>5 DEF DurableStep, Defines
    <2>6. QED
        BY <2>2, <2>5 DEF Attempt, DurableStep, Same
<1>2. CASE CreateVolumes
    <2>1. cur \in Node /\ InState(cur, {"creating"})
        BY <1>0, <1>2 DEF CreateVolumes, CreateStep, CreateProgress, CreatePC, Managed,
                          InState
    <2>2. QED
        BY <1>2, <2>1 DEF CreateVolumes, CreateStep, Attempt, UploadSeed, DurableStep,
                          Same, Fills
<1>3. CASE CommitLaunch
    <2>1. /\ cur \in Node /\ InState(cur, {"creating"})
          /\ cur \in overlay \cap seedvol
        BY <1>0, <1>3 DEF CommitLaunch, CreateStep, CreateProgress, CreatePC, Managed,
                          InState
    <2>2. QED
        BY <1>3, <2>1 DEF CommitLaunch, CreateStep, Attempt, DurableStep, Same, Commits
<1>4. CASE WriteIntent
    <2>1. /\ cur \in Node /\ InState(cur, State \ {"deleting"})
          /\ owner = "operator" \/ InState(cur, Incomplete)
        BY <1>0, <1>4 DEF WriteIntent, DeleteStep, DeleteProgress, DeletePC, Managed,
                          InState, Mandate, HostType, Metadata
    <2>2. QED
        BY <1>4, <2>1 DEF WriteIntent, DeleteStep, Attempt, DurableStep, Same, Condemns
<1>5. CASE RemoveVolumes \/ RemoveDomain
    <2>1. /\ cur \in Node /\ InState(cur, {"deleting"}) /\ cur \notin active
          /\ RemoveVolumes => cur \notin attached
          /\ RemoveDomain => cur \notin overlay \cup seedvol
        BY <1>0, <1>5 DEF RemoveVolumes, RemoveDomain, DeleteStep, DeleteProgress,
                          DeletePC, Managed, InState
    <2>2. QED
        BY <1>5, <2>1 DEF RemoveVolumes, RemoveDomain, DeleteStep, Attempt,
                          DurableStep, Same, Empties, Drops
<1>6. ASSUME NEW r \in seen, Advance(r)
      PROVE  DurableStep
    <2>1. CASE UNCHANGED host
        BY <2>1 DEF DurableStep, Same
    <2>2. CASE ~UNCHANGED host
        <3>1. /\ r.node \in Node
              /\ InState(r.node, {"booting", "configuring", "failed"})
              /\ \E new \in {"configuring", "configured", "failed"} :
                     WriteMeta(r.node, Advanced(meta[r.node], new))
            BY <1>0, <1>6, <2>2, AdvanceFacts DEF Attempt, Current, InState
        <3>2. QED
            BY <3>1 DEF DurableStep, Learns
    <2>3. QED
        BY <2>1, <2>2
<1>7. ASSUME NEW r \in seen, StartNext(r)
      PROVE  DurableStep
    BY <1>0, <1>7, StartFacts DEF Attempt, StartDomain, DurableStep, Same
<1>8. CASE Same
    BY <1>8 DEF DurableStep
<1>9. QED
    BY <1>1, <1>2, <1>3, <1>4, <1>5, <1>6, <1>7, <1>8, NextCases
    DEF Create, Launch, Delete, CheckClaims, DeleteFault, Destroy, DeleteStep, Attempt,
        RecheckReferences, Request, Kill, Reset, Sweep, Startup, Recover, CleanedUp,
        Serve, Pass, CleanUp, Skip, World, Stop, Crash, Down, Report, Environment,
        GuestPrepares, GuestStarts, PowerOff, AdminStart, Attach, Detach, StartDomain,
        DestroyDomain, Same

\* The power of a node changes in a step of its own, and is switched on only
\* where recovery, a deploy or an administrator finds the node complete.
PowersOn(u) ==
    /\ InState(u, State \ Incomplete) /\ u \in overlay \cap seedvol
    /\ active' = active \cup {u}

PowersOff(u) == active' = active \ {u}

\* A reachable step leaves the power alone, or switches it and nothing durable.
LEMMA PowerSteps ==
    ASSUME Inv, Next
    PROVE  \/ active' = active
           \/ Same /\ \E u \in Node : PowersOn(u) \/ PowersOff(u)
<1> DEFINE PowerStep == \/ active' = active
                        \/ Same /\ \E u \in Node : PowersOn(u) \/ PowersOff(u)
<1>0. /\ TypeOK /\ HostType /\ ProcessType
      /\ CreateProgress /\ RetainedIsComplete
    BY TypeParts DEF Inv
<1>1. ASSUME NEW u \in Node, InState(u, State \ Incomplete), StartDomain(u)
      PROVE  PowerStep
    BY <1>0, <1>1 DEF StartDomain, Same, PowersOn, RetainedIsComplete, InState, Managed
<1>2. ASSUME NEW u \in Node, DestroyDomain(u)
      PROVE  PowerStep
    BY <1>2 DEF DestroyDomain, Same, PowersOff
<1>3. CASE Launch
    <2>1. cur \in Node /\ InState(cur, State \ Incomplete)
        BY <1>0, <1>3 DEF Launch, CreateProgress, CreatePC, Managed, InState, HostType,
                          Metadata
    <2>2. QED
        BY <1>1, <1>3, <2>1 DEF Launch, Attempt
<1>4. CASE Destroy
    <2>1. cur \in Node \/ UNCHANGED host
        BY <1>0, <1>4 DEF Destroy, DeleteStep, ProcessType
    <2>2. QED
        BY <1>2, <1>4, <2>1 DEF Destroy, DeleteStep, Attempt
<1>5. ASSUME NEW r \in seen, StartNext(r)
      PROVE  PowerStep
    <2>1. CASE UNCHANGED host
        BY <2>1
    <2>2. CASE ~UNCHANGED host
        <3>1. r.node \in Node /\ InState(r.node, Retained) /\ StartDomain(r.node)
            BY <1>0, <1>5, <2>2, StartFacts DEF StartNext, Attempt, Current, InState
        <3>2. InState(r.node, State \ Incomplete)
            BY <3>1 DEF InState, State, Incomplete, Retained
        <3>3. QED
            BY <1>1, <3>1, <3>2
    <2>3. QED
        BY <2>1, <2>2
<1>6. ASSUME NEW u \in Node, PowerOff(u) \/ AdminStart(u)
      PROVE  PowerStep
    <2>1. CASE AdminStart(u)
        BY <1>1, <2>1 DEF AdminStart, InState, State, Incomplete, Retained
    <2>2. QED
        BY <1>2, <1>6, <2>1 DEF PowerOff
<1>7. ASSUME NEW r \in seen, Advance(r)
      PROVE  PowerStep
    BY <1>7 DEF Advance, Attempt, WriteMeta
<1>8. CASE active' = active
    BY <1>8
<1>9. QED
    BY <1>3, <1>4, <1>5, <1>6, <1>7, <1>8, NextCases
    DEF Create, Deploy, CreateVolumes, CreateStep, CommitLaunch, Delete, CheckClaims,
        DeleteFault, WriteIntent, RecheckReferences, RemoveVolumes, RemoveDomain,
        DeleteStep, Attempt, Request, Kill, Reset, Sweep, Startup, Recover, CleanedUp,
        Serve, Pass, CleanUp, Skip, World, Stop, Crash, Down, Report, Environment,
        GuestPrepares, GuestStarts, Attach, Detach, DefineXML, CreateOverlay,
        CreateSeed, UploadSeed, WriteMeta, DeleteOverlay, DeleteSeed, Undefine

\* What recovery's order rests on: while it starts nodes it holds the process
\* to itself, so that its listing stays right about roles.
RecoveryInv ==
    /\ phase \in {"down", "starting"} => pc = "idle"
    /\ phase = "starting" =>
          \A r \in seen : r.node \in Managed /\ r.role = meta[r.node].role
    /\ ServersBeforeWorkers

\* While recovery starts nodes, nothing else but the environment acts.
LEMMA StartingSteps ==
    ASSUME RecoveryInv, Next, phase = "starting", phase' = "starting"
    PROVE  /\ pc' = "idle" /\ meta' = meta
           /\ seen' = seen \/ \E r \in seen : StartNext(r) /\ seen' = seen \ {r}
<1>0. pc = "idle"
    BY DEF RecoveryInv
<1>1. ~Create /\ ~Delete /\ ~Reset /\ ~Observe /\ ~Startup /\ ~Stop /\ ~Crash
    BY <1>0 DEF Create, Deploy, CreateVolumes, CreateStep, CommitLaunch, Launch, Delete,
        CheckClaims, DeleteFault, WriteIntent, Destroy, RecheckReferences,
        RemoveVolumes, RemoveDomain, DeleteStep, Reset, Observe, Pass, Skip, Advance,
        Startup, Stop, Crash, Down
<1>2. \A u \in Node : ~Kill(u) /\ ~Report(u)
    BY DEF Kill, Report
<1>3. \A r \in seen : ~CleanUp(r)
    BY DEF CleanUp
<1>4. CASE Environment
    BY <1>0, <1>4 DEF Environment, GuestPrepares, GuestStarts, PowerOff, AdminStart,
        Attach, Detach, StartDomain, DestroyDomain, host, holder, sweeper
<1>5. CASE Recover
    <2>1. PICK r \in seen : StartNext(r)
        BY <1>5 DEF Recover, CleanedUp, Serve
    <2>2. pc' = pc /\ seen' = seen \ {r}
        BY <2>1 DEF StartNext, holder
    <2>3. meta' = meta
        BY <2>1 DEF StartNext, Attempt, StartDomain, host
    <2>4. QED
        BY <1>0, <2>1, <2>2, <2>3
<1>6. QED
    BY <1>1, <1>2, <1>3, <1>4, <1>5 DEF Next

\* Recovery starts where nothing is held, and ends with it.
LEMMA RecoveryStep == Inv /\ RecoveryInv /\ [Next]_vars => RecoveryInv'
<1>1. CASE UNCHANGED vars
    BY <1>1 DEF RecoveryInv, ServersBeforeWorkers, vars, host, holder, sweeper, Managed
<1> SUFFICES ASSUME Inv, RecoveryInv, Next
             PROVE  RecoveryInv'
    BY <1>1
<1>2. CASE phase' = "down"
    <2>1. phase = "down" \/ Stop \/ Crash
        BY <1>2 DEF Next, Create, Deploy, CreateVolumes, CreateStep, CommitLaunch,
            Launch, Delete, CheckClaims, DeleteFault, WriteIntent, Destroy,
            RecheckReferences, RemoveVolumes, RemoveDomain, DeleteStep, Reset, Observe,
            Pass, Skip, Advance, Startup, Kill, Report, CleanUp, Recover, CleanedUp,
            Serve, StartNext, Environment, GuestPrepares, GuestStarts, PowerOff,
            AdminStart, Attach, Detach, sweeper
    <2>2. CASE Stop \/ Crash
        BY <1>2, <2>2 DEF Stop, Crash, Down, Release, Hold, RecoveryInv,
            ServersBeforeWorkers
    <2>3. CASE phase = "down" /\ ~Stop /\ ~Crash
        <3>1. pc = "idle"
            BY <2>3 DEF RecoveryInv
        <3>2. Environment
            BY <1>2, <2>3, <3>1 DEF Next, Create, Deploy, CreateVolumes, CreateStep,
                CommitLaunch, Launch, Delete, CheckClaims, DeleteFault, WriteIntent,
                Destroy, RecheckReferences, RemoveVolumes, RemoveDomain, DeleteStep,
                Reset, Observe, Pass, Skip, Advance, Startup, Kill, Report, CleanUp,
                Recover, CleanedUp, Serve, StartNext
        <3>3. pc' = pc
            BY <3>2 DEF Environment, GuestPrepares, GuestStarts, PowerOff, AdminStart,
                Attach, Detach, holder
        <3>4. QED
            BY <1>2, <3>1, <3>3 DEF RecoveryInv, ServersBeforeWorkers
    <2>4. QED
        BY <2>1, <2>2, <2>3
<1>3. CASE phase' = "starting" /\ phase = "starting"
    <2>1. pc' = "idle" /\ meta' = meta /\ Managed' = Managed
        BY <1>3, StartingSteps DEF Managed
    <2>2. CASE seen' = seen
        BY <1>3, <2>1, <2>2 DEF RecoveryInv, ServersBeforeWorkers
    <2>3. CASE \E r \in seen : StartNext(r) /\ seen' = seen \ {r}
        <3>1. PICK r \in seen : StartNext(r) /\ seen' = seen \ {r}
            BY <2>3
        <3>2. ASSUME r.role = "agent", NEW other \in seen
              PROVE  other.role = "agent"
            BY <3>1, <3>2 DEF StartNext, Rank
        <3>3. r.role = meta[r.node].role
            BY <1>3 DEF RecoveryInv
        <3>4. ServersBeforeWorkers'
            BY <1>3, <2>1, <3>1, <3>2, <3>3 DEF RecoveryInv, ServersBeforeWorkers
        <3>5. QED
            BY <1>3, <2>1, <3>1, <3>4 DEF RecoveryInv
    <2>4. QED
        BY <1>3, <2>2, <2>3, StartingSteps
<1>4. CASE phase' = "starting" /\ phase # "starting"
    <2>1. CleanedUp
        BY <1>4 DEF Next, Create, Deploy, CreateVolumes, CreateStep, CommitLaunch,
            Launch, Delete, CheckClaims, DeleteFault, WriteIntent, Destroy,
            RecheckReferences, RemoveVolumes, RemoveDomain, DeleteStep, Reset, Observe,
            Pass, Skip, Advance, Startup, Kill, Report, CleanUp, Recover, Stop, Crash,
            Down, Serve, StartNext, Environment, GuestPrepares, GuestStarts, PowerOff,
            AdminStart, Attach, Detach, sweeper
    <2>2. /\ pc' = "idle" /\ seen' = Snapshot
          /\ meta' = meta /\ Managed' = Managed
        BY <1>4, <2>1 DEF CleanedUp, holder, host, Managed
    <2>3. \A r \in Snapshot : r.node \in Managed /\ r.role = meta[r.node].role
        BY DEF Snapshot
    <2>4. \A u \in Managed : u \in {s.node : s \in Snapshot}
        <3> TAKE u \in Managed
        <3>1. PICK r \in Snapshot :
                 r = [node |-> u, generation |-> meta[u].generation,
                      state |-> meta[u].state, role |-> meta[u].role,
                      bootstrap |-> meta[u].bootstrap]
            BY DEF Snapshot
        <3>2. r.node = u
            BY <3>1
        <3>3. QED
            BY <3>2
    <2>5. QED
        BY <1>4, <2>2, <2>3, <2>4 DEF RecoveryInv, ServersBeforeWorkers
<1>5. CASE phase' \notin {"down", "starting"}
    BY <1>5 DEF RecoveryInv, ServersBeforeWorkers
<1>6. QED
    BY <1>2, <1>3, <1>4, <1>5

\* ServersBeforeWorkers: launch recovery (app.py:106) submits every server's
\* start before any worker's, on a listing that cannot be wrong about roles.
THEOREM ServersStartFirst == Spec => []ServersBeforeWorkers
<1>1. Init => RecoveryInv
    BY DEF Init, RecoveryInv, ServersBeforeWorkers
<1>2. RecoveryInv => ServersBeforeWorkers
    BY DEF RecoveryInv
<1>3. QED
    BY <1>1, <1>2, RecoveryStep, Invariance, PTL DEF Spec

-----------------------------------------------------------------------------
(***************************************************************************)
(* The safety half of liveness.                                            *)
(***************************************************************************)
\* What the holder of the lock does with it: let go, or come closer to its end.
Goes ==
    /\ UNCHANGED <<phase, seen>>
    /\ \/ Release
       \/ Closer /\ owner' = owner /\ (pc \in DeletePC => pc' \in DeletePC)

\* A call moves on to the next, or ends the operation; a reset takes up another
\* node, and a create turns into a delete, once.
LEMMA HolderSteps ==
    ASSUME StartupInv, pc # "idle", Create \/ Delete
    PROVE  Goes
<1>1. CASE Create
    <2>1. ASSUME NEW at, NEW effect, NEW next \in CreatePC \ {"overlay"},
                 pc = at, at \in CreatePC, Place[at] < Place[next],
                 Goto(next) \/ Compensate(cur), UNCHANGED sweeper
          PROVE  Goes
        BY <2>1 DEF Goes, Goto, Compensate, Hold, Closer, sweeper, CreatePC, DeletePC,
                    Place, StartupInv
    <2>2. CASE CreateVolumes \/ CommitLaunch
        BY <2>1, <2>2 DEF CreateVolumes, CommitLaunch, CreateStep, Attempt, CreatePC, Place
    <2>3. CASE Launch
        BY <2>3 DEF Launch, Attempt, Goes, sweeper
    <2>4. QED
        BY <1>1, <2>2, <2>3 DEF Create, Deploy
<1>2. CASE Delete
    <2>1. UNCHANGED <<phase, seen>> /\ pc \in DeletePC
        BY <1>2 DEF Delete, CheckClaims, DeleteFault, WriteIntent, Destroy,
            RecheckReferences, RemoveVolumes, RemoveDomain, DeleteStep, sweeper, DeletePC
    <2>2. CASE DeleteDone
        BY <2>1, <2>2 DEF DeleteDone, Hold, Goes, Closer, DeletePC
    <2>3. ASSUME NEW next \in DeletePC, Goto(next), Place[pc] < Place[next]
          PROVE  Goes
        BY <2>1, <2>3 DEF Goto, Hold, Goes, Closer
    <2>4. CASE Release
        BY <2>1, <2>4 DEF Goes
    <2>5. QED
        BY <1>2, <2>2, <2>3, <2>4
        DEF Delete, CheckClaims, DeleteFault, WriteIntent, Destroy, RecheckReferences,
            RemoveVolumes, RemoveDomain, DeleteStep, Attempt, Place, DeletePC
<1>3. QED
    BY <1>1, <1>2

\* Nobody else moves it, except that the process dies.
LEMMA OtherSteps ==
    ASSUME Next, pc # "idle", ~Create, ~Delete
    PROVE  Release \/ UNCHANGED holder
<1>1. CASE Request
    BY <1>1 DEF Request, Reset, Kill
<1>2. CASE Sweep
    BY <1>2 DEF Sweep, Startup, Recover, CleanedUp, Serve, StartNext, Pass, CleanUp,
                Skip, Advance
<1>3. CASE World
    BY <1>3 DEF World, Stop, Crash, Down, Report, Environment, GuestPrepares,
                GuestStarts, PowerOff, AdminStart, Attach, Detach
<1>4. QED
    BY <1>1, <1>2, <1>3, NextCases

\* Requests take the lock in service only.
LEMMA StartupStep ==
    ASSUME Inv, StartupInv, Next
    PROVE  StartupInv'
<1>0. ProcessType /\ CreatePC \cap DeletePC = {} /\ "idle" \notin CreatePC \cup DeletePC
    BY TypeParts DEF Inv, CreatePC, DeletePC
<1>1. CASE Create \/ Delete
    <2>1. CASE pc = "idle"
        <3>1. PICK role \in Role : Deploy(role)
            BY <1>1, <2>1 DEF Create, CreateVolumes, CreateStep, CommitLaunch, Launch,
                Delete, CheckClaims, DeleteFault, WriteIntent, Destroy,
                RecheckReferences, RemoveVolumes, RemoveDomain, DeleteStep
        <3>2. /\ phase' = "serving"
              /\ \/ Release
                 \/ owner' = "deploy" /\ pc' \in {"overlay", "check"}
            BY <3>1 DEF Deploy, Attempt, Compensate, Hold, sweeper
        <3>3. QED
            BY <3>2 DEF StartupInv, Release, Hold, CreatePC
    <2>2. CASE pc # "idle"
        <3>1. Goes
            BY <1>1, <2>2, HolderSteps
        <3>2. CASE Release
            BY <3>1, <3>2 DEF Goes, StartupInv, Release, Hold, CreatePC
        <3>3. CASE owner' = owner /\ (pc \in DeletePC => pc' \in DeletePC)
            BY <1>0, <2>2, <3>1, <3>3 DEF Goes, StartupInv, ProcessType
        <3>4. QED
            BY <3>1, <3>2, <3>3 DEF Goes
    <2>3. QED
        BY <2>1, <2>2
<1>2. CASE Request
    BY <1>2 DEF Request, Reset, Kill, Hold, StartupInv, sweeper, CreatePC
<1>3. CASE Sweep
    <2>1. CASE Startup
        BY <2>1 DEF Startup, StartupInv, holder
    <2>2. CASE Recover
        BY <2>2 DEF Recover, CleanedUp, Serve, StartNext, StartupInv, holder
    <2>3. ASSUME NEW r \in seen, CleanUp(r)
          PROVE  StartupInv'
        BY <2>3 DEF CleanUp, Hold, StartupInv, holder, CreatePC
    <2>4. CASE Pass \/ \E r \in seen : Skip(r) \/ Advance(r)
        BY <2>4 DEF Pass, Skip, Advance, StartupInv, holder
    <2>5. QED
        BY <1>3, <2>1, <2>2, <2>3, <2>4 DEF Sweep
<1>4. CASE World
    <2>1. CASE Stop \/ Crash
        BY <2>1 DEF Stop, Crash, Down, Release, Hold, StartupInv, CreatePC
    <2>2. CASE Environment \/ \E u \in Node : Report(u)
        BY <2>2 DEF Environment, GuestPrepares, GuestStarts, PowerOff, AdminStart, Attach,
                    Detach, Report, StartupInv, holder, sweeper
    <2>3. QED
        BY <1>4, <2>1, <2>2 DEF World
<1>5. QED
    BY <1>1, <1>2, <1>3, <1>4, NextCases

\* Only the sweep holds the lock before service.
LEMMA StartupAlways == Spec => []StartupInv
<1>1. Init => StartupInv
    BY DEF Init, StartupInv, CreatePC
<1>2. Inv /\ StartupInv /\ [Next]_vars => StartupInv'
    BY StartupStep DEF vars, holder, sweeper, StartupInv
<1>3. QED
    BY <1>1, <1>2, Invariance, PTL DEF Spec

\* OperationsEnd: what is safe about InterruptedIsFinished. Every create, kill,
\* reset and cleanup makes finitely many libvirt calls, whichever of them fail.
THEOREM OperationsTerminate == Spec => OperationsEnd
<1>1. ASSUME StartupInv, Next, pc # "idle", pc' # "idle"
      PROVE  IF Create \/ Delete THEN Closer ELSE UNCHANGED holder
    BY <1>1, HolderSteps, OtherSteps DEF Goes, Release, Hold
<1>2. StartupInv /\ [Next]_vars =>
          [pc # "idle" /\ pc' # "idle" =>
              IF Create \/ Delete THEN Closer ELSE UNCHANGED holder]_vars
    BY <1>1
<1>3. QED
    BY <1>2, StartupAlways, PTL DEF Spec, OperationsEnd

\* StartupAdvances: what is safe about StartupEnds, for any number of nodes and
\* failures (app.py:95 and app.py:112): no record of a stage is taken up twice.
THEOREM StartupTerminates == Spec => StartupAdvances
<1>1. ASSUME Next, phase' = phase, phase \in {"cleaning", "starting"}
      PROVE  IF Recover \/ \E r \in seen : CleanUp(r)
             THEN \E r \in seen : seen' = seen \ {r}
             ELSE seen' = seen
    <2>1. CASE Recover \/ \E r \in seen : CleanUp(r)
        BY <1>1, <2>1 DEF Recover, CleanedUp, Serve, StartNext, CleanUp
    <2>2. Create \/ Delete \/ Request => seen' = seen
        BY DEF Create, Deploy, CreateVolumes, CreateStep, CommitLaunch, Launch,
            Delete, CheckClaims, DeleteFault, WriteIntent, Destroy, RecheckReferences,
            RemoveVolumes, RemoveDomain, DeleteStep, Request, Reset, Kill, sweeper
    <2>3. World => seen' = seen
        BY <1>1 DEF World, Stop, Crash, Down, Report, Environment, GuestPrepares,
            GuestStarts, PowerOff, AdminStart, Attach, Detach, sweeper
    <2>4. ~Startup /\ ~Observe
        BY <1>1 DEF Startup, Observe, Pass, Skip, Advance
    <2>5. ~(Recover \/ \E r \in seen : CleanUp(r)) => seen' = seen
        BY <1>1, <2>2, <2>3, <2>4, NextCases DEF Sweep, Observe
    <2>6. QED
        BY <2>1, <2>5
<1>2. [Next]_vars =>
          [phase' = phase /\ phase \in {"cleaning", "starting"} =>
              IF Recover \/ \E r \in seen : CleanUp(r)
              THEN \E r \in seen : seen' = seen \ {r}
              ELSE seen' = seen]_vars
    BY <1>1
<1>3. QED
    BY <1>2, PTL DEF Spec, StartupAdvances

\* StartupGoesOn: until it serves the dashboard is blocked by nothing but its own
\* delete, whose record it holds, and a record can be taken up next.
THEOREM StartupIsUnhindered == Spec => []StartupGoesOn
<1>1. Inv /\ StartupInv => StartupGoesOn
    <2> SUFFICES ASSUME Inv, StartupInv
                 PROVE  StartupGoesOn
        OBVIOUS
    <2>1. phase = "cleaning" => IF pc = "idle" THEN \A r \in seen : r.state \in Incomplete
                                ELSE owner = "sweep" /\ pc \in DeletePC
        BY TypeParts DEF Inv, ProcessType, StartupInv
    <2>2. seen # {} => \E r \in seen : \A other \in seen : Rank(r) <= Rank(other)
        <3>1. CASE \E r \in seen : Rank(r) = 0
            BY <3>1 DEF Rank
        <3>2. CASE ~(\E r \in seen : Rank(r) = 0) /\ \E r \in seen : Rank(r) = 1
            BY <3>2 DEF Rank
        <3>3. CASE \A r \in seen : Rank(r) = 2
            BY <3>3 DEF Rank
        <3>4. QED
            BY <3>1, <3>2, <3>3 DEF Rank
    <2>3. QED
        BY <2>1, <2>2 DEF StartupGoesOn, StartupInv
<1>2. QED
    BY <1>1, StartupAlways, Invariance, PTL
-----------------------------------------------------------------------------
\* SweepSparesLaunched: nothing but a kill or a reset condemns a launched node.
THEOREM LaunchedNodesAreSpared == Spec => SweepSparesLaunched
<1>1. ASSUME Inv, Next, NEW u \in Node,
             InState(u, State \ Incomplete), (InState(u, {"deleting"}))'
      PROVE  owner = "operator"
    <2>0. HostType /\ None \notin Metadata
        BY <1>1, TypeParts, ConstantsAssumption DEF Inv
    <2>1. meta'[u] # meta[u]
        BY <1>1 DEF InState, Incomplete
    <2>2. PICK v \in Node : \/ Defines(v) \/ Fills(v) \/ Commits(v) \/ Learns(v)
                            \/ Condemns(v) \/ Empties(v) \/ Drops(v)
        BY <1>1, <2>1, DurableSteps DEF DurableStep, Same
    <2>3. CASE Condemns(v)
        BY <1>1, <2>0, <2>1, <2>3 DEF Condemns, InState, Incomplete, WriteMeta, HostType
    <2>4. CASE Defines(v) \/ Drops(v)
        BY <1>1, <2>0, <2>1, <2>4 DEF Defines, Drops, InState, DefineXML, Undefine,
                                      HostType
    <2>5. CASE Commits(v) \/ Learns(v)
        <3>1. meta[v] \in Metadata
            BY <2>0, <2>5 DEF Commits, Learns, InState, HostType
        <3>2. \A new \in State : Advanced(meta[v], new).state = new
            BY <3>1, AdvancedFacts
        <3>3. QED
            BY <1>1, <2>0, <2>1, <2>5, <3>2
            DEF Commits, Learns, InState, WriteMeta, HostType, State
    <2>6. CASE Fills(v) \/ Empties(v)
        BY <2>1, <2>6 DEF Fills, Empties, CreateOverlay, CreateSeed, DeleteOverlay,
                          DeleteSeed
    <2>7. QED
        BY <2>2, <2>3, <2>4, <2>5, <2>6
<1>2. Inv /\ [Next]_vars =>
          [\A u \in Node :
              (InState(u, State \ Incomplete) /\ (InState(u, {"deleting"}))')
                  => owner = "operator"]_vars
    BY <1>1
<1>3. QED
    BY <1>2, Invariance, PTL DEF Spec, SweepSparesLaunched

\* ReferencedVolumesKept: the references are rechecked between the last thing
\* that could start the node and the removal of its volumes.
THEOREM ReferencedVolumesStay == Spec => ReferencedVolumesKept
<1>1. ASSUME Inv, Next, NEW u \in attached
      PROVE  (u \in overlay => u \in overlay') /\ (u \in seedvol => u \in seedvol')
    BY <1>1, DurableSteps
    DEF DurableStep, Same, Defines, Fills, Commits, Learns, Condemns, Empties, Drops,
        DefineXML, CreateOverlay, CreateSeed, WriteMeta, DeleteOverlay, DeleteSeed,
        Undefine
<1>2. Inv /\ [Next]_vars =>
          [\A u \in attached : /\ u \in overlay => u \in overlay'
                               /\ u \in seedvol => u \in seedvol']_vars
    BY <1>1
<1>3. QED
    BY <1>2, Invariance, PTL DEF Spec, ReferencedVolumesKept
-----------------------------------------------------------------------------
(***************************************************************************)
(* NodeManager implements NodeLedger.                                      *)
(***************************************************************************)
LStatus == [u \in Node |-> Status(u)]

LGeneration == [u \in Node |-> IF meta[u] = None THEN 0 ELSE meta[u].generation]

LDisks == [u \in Node |-> {d \in {"overlay", "seed"} :
              u \in IF d = "overlay" THEN overlay ELSE seedvol}]

\* Each kind of durable step of a node u, read through the refinement mapping.
LEMMA SameMapped ==
    ASSUME Same
    PROVE  LStatus' = LStatus /\ LGeneration' = LGeneration /\ LDisks' = LDisks
BY DEF Same, LStatus, LGeneration, LDisks, Status

\* Rewriting a record maps to the status and generation of one node.
LEMMA RecordMapped ==
    ASSUME HostType, NEW u \in Node, NEW m \in Metadata, WriteMeta(u, m)
    PROVE  /\ LStatus' = [LStatus EXCEPT ![u] = m.state]
           /\ LGeneration' = [LGeneration EXCEPT ![u] = m.generation]
           /\ LDisks' = LDisks
BY ConstantsAssumption DEF HostType, WriteMeta, LStatus, LGeneration, LDisks, Status

\* Defining a domain maps to Ledger!Claim.
LEMMA DefineMapped ==
    ASSUME HostType, NEW u \in Node, NEW m \in Metadata, NEW c \in Node,
           meta[u] = None, DefineXML(u, m, c)
    PROVE  /\ LStatus' = [LStatus EXCEPT ![u] = m.state]
           /\ LGeneration' = [LGeneration EXCEPT ![u] = m.generation]
           /\ LDisks' = LDisks
BY ConstantsAssumption DEF HostType, DefineXML, LStatus, LGeneration, LDisks, Status

\* Undefining a domain maps to Ledger!Vanish.
LEMMA UndefineMapped ==
    ASSUME HostType, NEW u \in Node, u \in used, Undefine(u)
    PROVE  /\ LStatus' = [LStatus EXCEPT ![u] = "gone"]
           /\ LGeneration' = [LGeneration EXCEPT ![u] = 0]
           /\ LDisks' = LDisks
BY DEF HostType, Undefine, LStatus, LGeneration, LDisks, Status

\* A change of volumes maps to the disks of one node.
LEMMA VolumeMapped ==
    ASSUME NEW u \in Node
    PROVE  /\ CreateOverlay(u) => LDisks' = [LDisks EXCEPT ![u] = @ \cup {"overlay"}]
           /\ CreateSeed(u) => LDisks' = [LDisks EXCEPT ![u] = @ \cup {"seed"}]
           /\ DeleteOverlay(u) => LDisks' = [LDisks EXCEPT ![u] = @ \ {"overlay"}]
           /\ DeleteSeed(u) => LDisks' = [LDisks EXCEPT ![u] = @ \ {"seed"}]
           /\ CreateOverlay(u) \/ CreateSeed(u) \/ DeleteOverlay(u) \/ DeleteSeed(u)
                 => LStatus' = LStatus /\ LGeneration' = LGeneration
<1>1. CreateOverlay(u) => LDisks' = [LDisks EXCEPT ![u] = @ \cup {"overlay"}]
    BY DEF CreateOverlay, LDisks
<1>2. CreateSeed(u) => LDisks' = [LDisks EXCEPT ![u] = @ \cup {"seed"}]
    BY DEF CreateSeed, LDisks
<1>3. DeleteOverlay(u) => LDisks' = [LDisks EXCEPT ![u] = @ \ {"overlay"}]
    BY DEF DeleteOverlay, LDisks
<1>4. DeleteSeed(u) => LDisks' = [LDisks EXCEPT ![u] = @ \ {"seed"}]
    BY DEF DeleteSeed, LDisks
<1>5. CreateOverlay(u) \/ CreateSeed(u) \/ DeleteOverlay(u) \/ DeleteSeed(u)
          => LStatus' = LStatus /\ LGeneration' = LGeneration
    BY DEF CreateOverlay, CreateSeed, DeleteOverlay, DeleteSeed, LStatus, LGeneration,
           Status
<1>6. QED
    BY <1>1, <1>2, <1>3, <1>4, <1>5

\* No durable step of a node touches the power of any.
LEMMA DurablePower ==
    ASSUME NEW u \in Node, \/ Defines(u) \/ Fills(u) \/ Commits(u) \/ Learns(u)
                           \/ Condemns(u) \/ Empties(u) \/ Drops(u)
    PROVE  active' = active
BY DEF Defines, Fills, Commits, Learns, Condemns, Empties, Drops, DefineXML,
       CreateOverlay, CreateSeed, WriteMeta, DeleteOverlay, DeleteSeed, Undefine

\* The ledger's actions, over the mapped variables.
LEMMA LedgerActions ==
    ASSUME NEW u \in Node
    PROVE  /\ LStatus[u] = Status(u)
           /\ LGeneration[u] = IF meta[u] = None THEN 0 ELSE meta[u].generation
           /\ \A d \in {"overlay", "seed"} :
                  d \in LDisks[u] <=> u \in IF d = "overlay" THEN overlay ELSE seedvol
           /\ LDisks[u] \subseteq {"overlay", "seed"}
BY DEF LStatus, LGeneration, LDisks

\* The initial states of NodeManager map to those of the ledger.
LEMMA LedgerInit == Init => Ledger!Init
BY DEF Init, Ledger!Init, Status

\* Every step is a step of the ledger, or changes nothing it sees.
LEMMA LedgerNext ==
    ASSUME Inv, Next
    PROVE  [Ledger!Next]_(Ledger!ledger)
<1>0. HostType /\ None \notin Metadata /\ (\A v \in Managed : v \in used)
    BY TypeParts, ConstantsAssumption DEF Inv, ClusterInv
<1>1. CASE Same /\ active' = active
    <2>1. /\ LStatus' = LStatus /\ LGeneration' = LGeneration /\ LDisks' = LDisks
          /\ active' = active
        BY <1>1, SameMapped
    <2>2. QED
        BY <2>1 DEF LStatus, LGeneration, LDisks, Ledger!ledger
<1>2. ASSUME NEW u \in Node, Defines(u)
      PROVE  Ledger!Next
    <2>1. PICK role \in Role, bootstrap \in BOOLEAN, c \in Node :
              DefineXML(u, Initial(role, bootstrap), c)
        BY <1>2 DEF Defines
    <2>2. /\ Initial(role, bootstrap) \in Metadata
          /\ Initial(role, bootstrap).state = "creating"
          /\ Initial(role, bootstrap).generation = 1
        BY InitialFacts
    <2>3. LStatus[u] = "absent"
        BY <1>2, LedgerActions DEF Defines, Status
    <2>4. /\ LStatus' = [LStatus EXCEPT ![u] = "creating"]
          /\ LGeneration' = [LGeneration EXCEPT ![u] = 1]
          /\ LDisks' = LDisks
        BY <1>0, <1>2, <2>1, <2>2, DefineMapped DEF Defines
    <2>5. Ledger!Claim(u)
        BY <1>2, <2>3, <2>4, DurablePower DEF Ledger!Claim, LStatus, LGeneration, LDisks
    <2>6. QED
        BY <2>5 DEF Ledger!Next
<1>3. ASSUME NEW u \in Node, Fills(u) \/ Empties(u)
      PROVE  Ledger!Next
    <2>1. /\ LStatus' = LStatus /\ LGeneration' = LGeneration
          /\ LStatus[u] = IF Fills(u) THEN "creating" ELSE "deleting"
        BY <1>3, VolumeMapped, LedgerActions DEF Fills, Empties, Status, InState
    <2>2. CASE Fills(u)
        <3>1. \E d \in {"overlay", "seed"} :
                  LDisks' = [LDisks EXCEPT ![u] = @ \cup {d}]
            BY <2>2, VolumeMapped DEF Fills
        <3>2. \E d \in {"overlay", "seed"} : Ledger!Allocate(u, d)
            BY <2>1, <2>2, <3>1, DurablePower DEF Ledger!Allocate, LStatus, LGeneration, LDisks
        <3>3. QED
            BY <3>2 DEF Ledger!Next, Ledger!Disk
    <2>3. CASE ~Fills(u)
        <3>1. \E d \in {"overlay", "seed"} :
                  LDisks' = [LDisks EXCEPT ![u] = @ \ {d}]
            BY <1>3, <2>3, VolumeMapped DEF Empties
        <3>2. \E d \in {"overlay", "seed"} : Ledger!Free(u, d)
            BY <1>3, <2>1, <2>3, <3>1, DurablePower
            DEF Ledger!Free, LStatus, LGeneration, LDisks, Empties
        <3>3. QED
            BY <3>2 DEF Ledger!Next, Ledger!Disk
    <2>4. QED
        BY <2>2, <2>3
<1>4. ASSUME NEW u \in Node, Commits(u)
      PROVE  Ledger!Next
    <2>1. meta[u] \in Metadata /\ meta[u].state = "creating" /\ meta[u] # None
        BY <1>0, <1>4 DEF Commits, InState, HostType
    <2>2. /\ Advanced(meta[u], "booting") \in Metadata
          /\ Advanced(meta[u], "booting").state = "booting"
          /\ Advanced(meta[u], "booting").generation = meta[u].generation
        BY <2>1, AdvancedFacts DEF State
    <2>3. /\ LStatus' = [LStatus EXCEPT ![u] = "booting"]
          /\ LGeneration' = [LGeneration EXCEPT ![u] = meta[u].generation]
          /\ LDisks' = LDisks
        BY <1>0, <1>4, <2>2, RecordMapped DEF Commits
    <2>4. LGeneration' = LGeneration
        BY <2>1, <2>3, LedgerActions DEF LGeneration
    <2>5. LStatus[u] = "creating" /\ LDisks[u] = {"overlay", "seed"}
        BY <1>4, <2>1, LedgerActions DEF Commits, Status
    <2>6. Ledger!Commit(u)
        BY <1>4, <2>3, <2>4, <2>5, DurablePower
        DEF Ledger!Commit, Ledger!Disk, LStatus, LGeneration, LDisks
    <2>7. QED
        BY <2>6 DEF Ledger!Next
<1>5. ASSUME NEW u \in Node, Learns(u)
      PROVE  Ledger!Next
    <2>1. PICK new \in {"configuring", "configured", "failed"} :
              WriteMeta(u, Advanced(meta[u], new))
        BY <1>5 DEF Learns
    <2>2. /\ meta[u] \in Metadata /\ meta[u] # None
          /\ meta[u].state \in {"booting", "configuring", "failed"}
        BY <1>0, <1>5 DEF Learns, InState, HostType
    <2>3. /\ new \in State
          /\ Advanced(meta[u], new) \in Metadata
          /\ Advanced(meta[u], new).state = new
          /\ Advanced(meta[u], new).generation = meta[u].generation
        BY <2>2, AdvancedFacts DEF State
    <2>4. /\ LStatus' = [LStatus EXCEPT ![u] = new]
          /\ LGeneration' = [LGeneration EXCEPT ![u] = meta[u].generation]
          /\ LDisks' = LDisks
        BY <1>0, <2>1, <2>3, RecordMapped
    <2>5. LGeneration' = LGeneration
        BY <2>2, <2>4, LedgerActions DEF LGeneration
    <2>6. LStatus[u] \in {"booting", "configuring", "failed"}
        BY <2>2, LedgerActions DEF Status
    <2>7. Ledger!Learn(u, new)
        BY <1>5, <2>4, <2>5, <2>6, DurablePower
        DEF Ledger!Learn, LStatus, LGeneration, LDisks
    <2>8. QED
        BY <2>3, <2>7 DEF Ledger!Next, Ledger!State
<1>6. ASSUME NEW u \in Node, Condemns(u)
      PROVE  Ledger!Next
    <2>1. /\ meta[u] \in Metadata /\ meta[u] # None
          /\ meta[u].state \in State \ {"deleting"}
        BY <1>0, <1>6 DEF Condemns, InState, HostType, Metadata
    <2>2. /\ LStatus' = [LStatus EXCEPT ![u] = "deleting"]
          /\ LGeneration' = [LGeneration EXCEPT ![u] = meta[u].generation + 1]
          /\ LDisks' = LDisks
        BY <1>0, <1>6, <2>1, CondemnedFacts, RecordMapped DEF Condemns
    <2>3. /\ LStatus[u] \in State \ {"deleting"}
          /\ LGeneration[u] = meta[u].generation
        BY <2>1, LedgerActions DEF Status
    <2>4. LGeneration' = [LGeneration EXCEPT ![u] = @ + 1]
        BY <2>2, <2>3
    <2>5. Ledger!Condemn(u)
        BY <1>6, <2>2, <2>3, <2>4, DurablePower
        DEF Ledger!Condemn, Ledger!State, State, LStatus, LGeneration, LDisks
    <2>6. QED
        BY <2>5 DEF Ledger!Next
<1>7. ASSUME NEW u \in Node, Drops(u)
      PROVE  Ledger!Next
    <2>1. meta[u] # None /\ meta[u].state = "deleting" /\ u \in used
        BY <1>0, <1>7 DEF Drops, InState, Managed
    <2>2. /\ LStatus' = [LStatus EXCEPT ![u] = "gone"]
          /\ LGeneration' = [LGeneration EXCEPT ![u] = 0]
          /\ LDisks' = LDisks
        BY <1>0, <1>7, <2>1, UndefineMapped DEF Drops
    <2>3. LStatus[u] = "deleting" /\ LDisks[u] = {}
        BY <1>7, <2>1, LedgerActions DEF Drops, Status
    <2>4. Ledger!Vanish(u)
        BY <1>7, <2>2, <2>3, DurablePower
        DEF Ledger!Vanish, LStatus, LGeneration, LDisks, Drops
    <2>5. QED
        BY <2>4 DEF Ledger!Next
<1>8. ASSUME NEW u \in Node, Same, PowersOn(u) \/ PowersOff(u)
      PROVE  Ledger!Next
    <2>1. LStatus' = LStatus /\ LGeneration' = LGeneration /\ LDisks' = LDisks
        BY <1>8, SameMapped
    <2>2. CASE PowersOn(u)
        <3>1. LStatus[u] \in State \ Incomplete /\ LDisks[u] = {"overlay", "seed"}
            BY <1>0, <2>2, LedgerActions DEF PowersOn, InState, Status
        <3>2. Ledger!Start(u)
            BY <2>1, <2>2, <3>1
            DEF Ledger!Start, Ledger!State, State, Ledger!Incomplete, Incomplete,
                Ledger!Disk, PowersOn, LStatus, LGeneration, LDisks
        <3>3. QED
            BY <3>2 DEF Ledger!Next
    <2>3. CASE PowersOff(u)
        <3>1. Ledger!Stop(u)
            BY <2>1, <2>3 DEF Ledger!Stop, PowersOff, LStatus, LGeneration, LDisks
        <3>2. QED
            BY <3>1 DEF Ledger!Next
    <2>4. QED
        BY <1>8, <2>2, <2>3
<1>9. CASE active' = active
    BY <1>1, <1>2, <1>3, <1>4, <1>5, <1>6, <1>7, <1>9, DurableSteps DEF DurableStep
<1>10. CASE active' # active
    BY <1>8, <1>10, PowerSteps
<1>11. QED
    BY <1>9, <1>10

\* LedgerSpec: with all its threads, faults and crashes, the dashboard keeps the
\* promises of NodeLedger.
THEOREM ImplementsLedger == Spec => LedgerSpec
<1>1. UNCHANGED vars => UNCHANGED Ledger!ledger
    BY DEF vars, Ledger!ledger, Status
<1>2. Inv /\ [Next]_vars => [Ledger!Next]_(Ledger!ledger)
    BY <1>1, LedgerNext
<1>3. QED
    BY <1>2, LedgerInit, Invariance, PTL DEF Spec, LedgerSpec, Ledger!Spec

\* Ledger!LifeSpec: so the observer, which assumes only NodeLife of the nodes,
\* may assume it of these.
THEOREM ImplementsLife == Spec => Ledger!LifeSpec
<1>1. LedgerSpec => Ledger!LifeSpec
    BY Ledger!LedgerLives DEF LedgerSpec
<1>2. QED
    BY <1>1, ImplementsLedger, PTL
-----------------------------------------------------------------------------
(***************************************************************************)
(* What is assumed of a guest is what Guest is proved to implement.        *)
(***************************************************************************)
\* Provisioning of every node: guests get on only while they are powered on, the
\* observer's threads, restarts and administrators take nothing back from them,
\* and no report, however late it is acted on, says more than its guest reached.
THEOREM GuestsProvision ==
    ASSUME NEW u \in Node
    PROVE  Spec => Guests(u)!Spec
<1>1. Init => Guests(u)!Init
    BY DEF Init, Guests!Init, Guests!True, Guests!Truth
<1>2. ASSUME Inv, EvidenceInv', [Next]_vars
      PROVE  Guests(u)!Next
    <2>0. ProcessType
        BY <1>2, TypeParts DEF Inv
    <2>1. Guests(u)!True'
        BY <1>2 DEF EvidenceInv, Truth, Guests!True, Guests!Truth
    <2>2. CASE guest' = guest
        BY <2>1, <2>2 DEF Guests!Next, Guests!Switch
    <2>3. CASE guest' # guest
        <3>1. PICK v \in Node :
                  /\ GuestPrepares(v) \/ GuestStarts(v)
                  /\ active' = active
            BY <1>2, <2>3, GuestSteps DEF vars
        <3>2. CASE v = u
            BY <2>0, <2>1, <3>1, <3>2
            DEF ProcessType, GuestPrepares, GuestStarts, Running, Guests!Next,
                Guests!Prepares, Guests!Starts
        <3>3. CASE v # u
            BY <2>0, <2>1, <3>1, <3>3
            DEF ProcessType, GuestPrepares, GuestStarts, Guests!Next
        <3>4. QED
            BY <3>2, <3>3
    <2>4. QED
        BY <2>2, <2>3
<1>3. QED
    <2>1. Inv => EvidenceInv
        BY DEF Inv
    <2>2. QED
        BY <1>1, <1>2, <2>1, Invariance, PTL DEF Spec, Guests!Spec
=============================================================================
