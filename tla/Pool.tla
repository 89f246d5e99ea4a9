-------------------------------- MODULE Pool --------------------------------
(***************************************************************************)
(* The storage pool and who it belongs to: "k3s-demo init-pool" (pool.py   *)
(* init_pool), which creates the pool, or adopts an empty one, and marks   *)
(* it, and the check that the dashboard makes at its start and before each *)
(* deployment (require_owned).                                             *)
(*                                                                         *)
(* init-pool is a sequence of libvirt calls with no lock around them. It   *)
(* may be interrupted after each, run again, and run twice at a time,      *)
(* while an administrator defines a pool of that name, puts files into the *)
(* directories, and takes them away. libvirt lists the volumes it knows:   *)
(* those that were there when the pool was last refreshed, and those       *)
(* created through it. A pool that is undefined and defined again is       *)
(* another pool, and calls with a handle to the old one fail.              *)
(***************************************************************************)
EXTENDS Naturals

CONSTANTS
    Dir,        \* directories that a pool may have for its target
    Target,     \* the one that init-pool is told (--path)
    Foreign,    \* names of files that are not the deployment's
    Overlay,    \* names of volumes that are
    Marker,     \* "k3s-kvm-demo.marker"
    Process,    \* runs of init-pool that may go on at a time
    None,       \* there is no pool
    MaxMoves,   \* bound on what the administrator does
    MaxFaults   \* bound on interruptions and failing calls

ASSUME PoolAssumption ==
    /\ Target \in Dir /\ None \notin Dir
    /\ Marker \notin Foreign /\ Marker \notin Overlay
    /\ Foreign \cap Overlay = {}
    /\ MaxMoves \in Nat /\ MaxFaults \in Nat

File == Foreign \cup Overlay \cup {Marker}

VARIABLES
    dir,       \* what is in each directory
    \* libvirt
    pool,      \* the target of the pool that has the name
    defs,      \* how often the name has been defined: the pool's identity
    active, autostart,
    known,     \* its volumes, as far as libvirt knows
    \* init-pool
    pc,
    handle,    \* the pool a run works on
    newer,     \* the files put somewhere since a run began
    moves, faults,
    app        \* the dashboard

libvirt == <<pool, defs, active, autostart, known>>
process == <<pc, handle, newer>>
vars == <<dir, libvirt, process, moves, faults, app>>

\* The steps that use the handle.
Handled == {"activate", "autostart", "refresh", "list", "mark"}

TypeOK ==
    /\ dir \in [Dir -> SUBSET File]
    /\ pool \in Dir \cup {None} /\ defs \in Nat
    /\ active \in BOOLEAN /\ autostart \in BOOLEAN
    /\ known \in SUBSET File
    /\ pc \in [Process -> {"idle", "path", "define", "ready"} \cup Handled]
    /\ handle \in [Process -> 0..defs]
    /\ newer \in [Process -> SUBSET (Dir \X Foreign)]
    /\ moves \in 0..MaxMoves /\ faults \in 0..MaxFaults
    /\ app \in {"down", "serving"}
    /\ pool = None => active = FALSE /\ autostart = FALSE

Init ==
    /\ dir \in [Dir -> SUBSET Foreign]
    /\ pool = None /\ defs = 0 /\ active = FALSE /\ autostart = FALSE /\ known = {}
    /\ pc = [p \in Process |-> "idle"] /\ handle = [p \in Process |-> 0]
    /\ newer = [p \in Process |-> {}]
    /\ moves = 0 /\ faults = 0 /\ app = "down"
-----------------------------------------------------------------------------
(***************************************************************************)
(* libvirt's operations on the pool.                                       *)
(***************************************************************************)
DefineAt(d) ==
    /\ pool = None
    /\ pool' = d /\ defs' = defs + 1
    /\ active' = FALSE /\ autostart' = FALSE /\ known' = {}
    /\ UNCHANGED dir

\* Starting a pool refreshes it.
Start ==
    /\ pool # None /\ active' = TRUE /\ known' = dir[pool]
    /\ UNCHANGED <<dir, pool, defs, autostart>>

Rescan ==
    /\ active /\ known' = dir[pool]
    /\ UNCHANGED <<dir, pool, defs, active, autostart>>

\* A volume is created in a file of its own.
Create(v) ==
    /\ active /\ v \notin dir[pool]
    /\ dir' = [dir EXCEPT ![pool] = @ \cup {v}]
    /\ known' = known \cup {v}
    /\ UNCHANGED <<pool, defs, active, autostart>>
-----------------------------------------------------------------------------
(***************************************************************************)
(* init_pool.                                                              *)
(***************************************************************************)
Goto(p, label) == pc' = [pc EXCEPT ![p] = label]

Mine(p) == pool # None /\ handle[p] = defs
Elsewhere == <<moves, faults, app>>

\* Mutant: the directory is looked at whether or not there is a pool.
LookupPath(p) ==
    /\ pc[p] \in {"idle", "ready"} /\ Goto(p, "path")
    /\ newer' = [newer EXCEPT ![p] = {}]
    /\ handle' = [handle EXCEPT ![p] = defs]
    /\ UNCHANGED <<dir, libvirt, Elsewhere>>

\* storagePoolLookupByName. A run that ended may be followed by another.
Lookup(p) ==
    /\ pc[p] \in {"idle", "ready"}
    /\ \/ pool = None /\ Goto(p, "path")
       \/ pool # None /\ Goto(p, "activate")
    /\ newer' = [newer EXCEPT ![p] = {}]
    /\ handle' = [handle EXCEPT ![p] = defs]
    /\ UNCHANGED <<dir, libvirt, Elsewhere>>

\* A directory in use is not adopted.
CheckPath(p) ==
    /\ pc[p] = "path"
    /\ \/ dir[Target] = {} /\ Goto(p, "define")
       \/ dir[Target] # {} /\ Goto(p, "idle")
    /\ UNCHANGED <<dir, libvirt, handle, newer, Elsewhere>>

\* storagePoolDefineXML raises if the name was defined meanwhile.
Define(p) ==
    /\ pc[p] = "define"
    /\ \/ /\ DefineAt(Target)
          /\ handle' = [handle EXCEPT ![p] = defs'] /\ Goto(p, "activate")
       \/ /\ pool # None
          /\ Goto(p, "idle") /\ UNCHANGED <<dir, libvirt, handle>>
    /\ UNCHANGED <<newer, Elsewhere>>

\* Mutant: a pool that is active is taken to have been set up.
ActivateOnce(p) ==
    /\ pc[p] = "activate" /\ Mine(p)
    /\ \/ active /\ Goto(p, "refresh") /\ UNCHANGED <<dir, libvirt>>
       \/ ~active /\ Goto(p, "autostart") /\ Start
    /\ UNCHANGED <<handle, newer, Elsewhere>>

Activate(p) ==
    /\ pc[p] = "activate" /\ Mine(p)
    /\ \/ active /\ UNCHANGED <<dir, libvirt>>
       \/ ~active /\ Start
    /\ Goto(p, "autostart")
    /\ UNCHANGED <<handle, newer, Elsewhere>>

SetAutostart(p) ==
    /\ pc[p] = "autostart" /\ Mine(p)
    /\ autostart' = TRUE /\ Goto(p, "refresh")
    /\ UNCHANGED <<dir, pool, defs, active, known, handle, newer, Elsewhere>>

\* Mutant: libvirt is not made to look at the directory again.
RefreshNothing(p) ==
    /\ pc[p] = "refresh" /\ Mine(p) /\ active
    /\ Goto(p, "list")
    /\ UNCHANGED <<dir, libvirt, handle, newer, Elsewhere>>

Refresh(p) ==
    /\ pc[p] = "refresh" /\ Mine(p) /\ Rescan
    /\ Goto(p, "list")
    /\ UNCHANGED <<handle, newer, Elsewhere>>

\* A pool with the marker is ready as it is, an empty one is to be marked, and
\* one that holds anything else is not claimed.
List(p) ==
    /\ pc[p] = "list" /\ Mine(p) /\ active
    /\ \/ Marker \in known /\ Goto(p, "ready")
       \/ known = {} /\ Goto(p, "mark")
       \/ Marker \notin known /\ known # {} /\ Goto(p, "idle")
    /\ UNCHANGED <<dir, libvirt, handle, newer, Elsewhere>>

Mark(p) ==
    /\ pc[p] = "mark" /\ Mine(p) /\ active
    /\ \/ Create(Marker) /\ Goto(p, "ready")
       \/ Marker \in dir[pool] /\ Goto(p, "idle") /\ UNCHANGED <<dir, libvirt>>
    /\ UNCHANGED <<handle, newer, Elsewhere>>

\* The pool that a call is for is gone, or has been stopped.
Raises(p) ==
    /\ \/ pc[p] \in Handled /\ ~Mine(p)
       \/ pc[p] \in {"refresh", "list", "mark"} /\ ~active
    /\ Goto(p, "idle")
    /\ UNCHANGED <<dir, libvirt, handle, newer, Elsewhere>>

\* The run is interrupted, or a call fails, before or after its effect.
Interrupted(p) ==
    /\ pc[p] \notin {"idle", "ready"}
    /\ faults < MaxFaults /\ faults' = faults + 1
    /\ Goto(p, "idle")
    /\ UNCHANGED <<dir, libvirt, handle, newer, moves, app>>
-----------------------------------------------------------------------------
(***************************************************************************)
(* The dashboard, in as much as it uses the pool.                          *)
(***************************************************************************)
\* require_owned: the marker, and nothing that is not accounted for.
Owned == active /\ Marker \in known /\ known \cap Foreign = {}

\* cmd_serve and AppState.startup.
Serve ==
    /\ app = "down" /\ Owned /\ app' = "serving"
    /\ UNCHANGED <<dir, libvirt, process, moves, faults>>

Deploy(v) ==
    /\ app = "serving" /\ Owned /\ Create(v)
    /\ UNCHANGED <<process, moves, faults, app>>

Remove(v) ==
    /\ app = "serving" /\ active /\ v \in dir[pool]
    /\ dir' = [dir EXCEPT ![pool] = @ \ {v}] /\ known' = known \ {v}
    /\ UNCHANGED <<pool, defs, active, autostart, process, moves, faults, app>>

Exit ==
    /\ app = "serving" /\ app' = "down"
    /\ UNCHANGED <<dir, libvirt, process, moves, faults>>
-----------------------------------------------------------------------------
(***************************************************************************)
(* The administrator, who leaves the deployment's own volumes alone.       *)
(***************************************************************************)
Moves == moves < MaxMoves /\ moves' = moves + 1 /\ UNCHANGED <<pc, handle, faults, app>>

PutFile(d, f) ==
    /\ f \notin dir[d]
    /\ dir' = [dir EXCEPT ![d] = @ \cup {f}]
    /\ newer' = [p \in Process |-> newer[p] \cup {<<d, f>>}]
    /\ Moves /\ UNCHANGED libvirt

TakeFile(d, f) ==
    /\ dir' = [dir EXCEPT ![d] = @ \ {f}]
    /\ Moves /\ UNCHANGED <<libvirt, newer>>

DefinePool(d) == DefineAt(d) /\ Moves /\ UNCHANGED newer

StartPool == ~active /\ Start /\ Moves /\ UNCHANGED newer

RefreshPool == Rescan /\ Moves /\ UNCHANGED newer

StopPool ==
    /\ active /\ active' = FALSE /\ known' = {}
    /\ Moves /\ UNCHANGED <<dir, pool, defs, autostart, newer>>

UndefinePool ==
    /\ pool # None /\ ~active /\ pool' = None /\ autostart' = FALSE
    /\ Moves /\ UNCHANGED <<dir, defs, active, known, newer>>
-----------------------------------------------------------------------------
InitPool(p) ==
    \/ CheckPath(p) \/ Define(p) \/ Activate(p) \/ SetAutostart(p)
    \/ Refresh(p) \/ List(p) \/ Mark(p) \/ Raises(p)

Dashboard == Serve \/ Exit \/ \E v \in Overlay : Deploy(v) \/ Remove(v)

Administrator ==
    \/ \E d \in Dir, f \in Foreign : PutFile(d, f) \/ TakeFile(d, f)
    \/ \E d \in Dir : DefinePool(d)
    \/ StartPool \/ RefreshPool \/ StopPool \/ UndefinePool

Next ==
    \/ \E p \in Process : Lookup(p) \/ InitPool(p) \/ Interrupted(p)
    \/ Dashboard \/ Administrator

Spec == Init /\ [][Next]_vars

Ready == pool = Target /\ active /\ autostart /\ Marker \in known

\* A run of init-pool goes on, and is followed by another until the pool is
\* ready.
FairSpec ==
    /\ Spec
    /\ \A p \in Process : /\ WF_vars(InitPool(p))
                          /\ WF_vars(~Ready /\ Lookup(p))
-----------------------------------------------------------------------------
\* init-pool never claims a directory for something that was in it when the
\* run began: whatever files there are when the marker is created were put
\* there after that.
MarksOnlyEmpty ==
    [][\A d \in Dir : Marker \in dir'[d] \ dir[d] =>
          \E p \in Process :
             /\ pc[p] = "mark"
             /\ \A f \in dir[d] \cap Foreign : <<d, f>> \in newer[p]]_vars

\* Why: a run that has refreshed the pool overlooks only what was put there
\* since it began, and one that is about to mark has seen nothing at all.
LookedInv ==
    \A p \in Process : Mine(p) =>
        \A f \in dir[pool] \cap Foreign :
            /\ pc[p] = "list" /\ active => f \in known \/ <<pool, f>> \in newer[p]
            /\ pc[p] = "mark" => <<pool, f>> \in newer[p]

\* A run that ends well has left its pool marked, and started with the host,
\* though earlier runs stopped anywhere, others race with it, and the pool may
\* have been active all along; unless that pool is undefined, it stays so.
ReadyIsWhole ==
    \A p \in Process :
        pc[p] = "ready" /\ Mine(p) => Marker \in dir[pool] /\ autostart

\* Why: libvirt knows of no marker that is not there, and whatever run comes by
\* the pool has set it to start with the host before it looks.
WholeInv ==
    /\ ~active => known = {}
    /\ Marker \in known => Marker \in dir[pool]
    /\ \A p \in Process :
          pc[p] \in {"refresh", "list", "mark", "ready"} /\ Mine(p) => autostart

\* The target is the deployment's: nothing foreign is in it, and it is the
\* pool's, or is empty and may become the pool's.
Free ==
    /\ dir[Target] \cap Foreign = {}
    /\ \/ pool = Target
       \/ pool = None /\ dir[Target] = {}

\* Interrupted anywhere, and run again, init-pool brings a directory that
\* nobody else uses to be a marked pool.
InitSucceeds == <>[]Free => <>Ready
=============================================================================
