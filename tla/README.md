# Verification of the k3s KVM dashboard

TLA+ models of `k3s_kvm_demo`, the dashboard that creates, observes and removes
the k3s nodes of one libvirt host, with the TLC runs that check them and the
TLAPS proofs about them. Paths are relative to the repository; bare file names
are under `src/k3s_kvm_demo/`.

Run `tlc -config X.cfg MC<Module>.tla` for a run of the table below and
`tlapm <Module>Proofs.tla` for the proofs. `PROJECT.json` lists the runs, the
lines each definition models, a mutant that every checked property rejects, the
hazards, the findings and the theorems.

## 1. The system

A FastAPI process with one `libvirt` connection. Requests run in a thread pool;
an observer thread and a kubeconfig exporter thread run beside them. There is no
database: what a node is, and how far its creation or removal got, is the
metadata of its libvirt domain, so a restart reconstructs everything from
libvirt.

| Component | State | Operations | Hard part |
|---|---|---|---|
| Node lifecycle (`libvirtctl.py`, `meta.py`) | domain metadata, domain power, two volumes per node (all durable); one lock | deploy (`_create`), kill, reset, `_delete`, `delete_if_current`, `start_if_current`, `update_state`, `list_nodes` | several libvirt calls per operation, each of which may fail, lose its reply, or be the last one before a crash; listings taken without the lock |
| Recovery (`app.py` `AppState`) | startup stages | cleanup of incomplete nodes, ordered restart of retained ones, drained shutdown | acts on what an earlier process left |
| Observer (`observer.py`) | status, clock and probe per node, rotation cursor | a pass: list, clean up, probe through the guest agent, advance the durable state | its listing and its statuses are stale when it uses them; at most eight agent calls a pass; a lost `guest-exec` reply |
| Connection (`conn.py`) | connection, epoch, lease count, flags, one condition | `open`, `close`, `lease`, `reconnect`, `read`, `call` | races of reconnects, leases and close; calls that never return |
| Kubeconfig exporter (`kubeconfig_export.py`) | the published file (durable), a temporary file, stop flag, one lock | refresh, publish, remove, shutdown | an export that is under way while the process stops |
| Guest agent (`guestexec.py`) | a command running in the guest | start, poll, run with a deadline | the agent reaps a result when it is read; a command outlives the wait for it |
| Kubernetes maintenance (`cluster.py`) | Kubernetes node objects | `prune_nodes`, quorum advice, choice of a server | a listing that predates a join; a deletion that takes effect late; a lock kept while a guest works |
| Storage pool (`pool.py`) | pool, marker, volumes and who references them | `init_pool`, ownership and reference scans | an interrupted initialisation, with no lock; volumes that libvirt has not seen |
| Guest image (`image/`) | configuration files, markers, systemd units | prepare, start, status | power loss in the middle of prepare, with writes that reach the disk in any order |
| `names.py` | none: a UUID is drawn once | allocation, patterns | a name used again |
| `seed.py`, `k3sconf.py`, `domxml.py`, `config.py`, `cli.py`, `stats.py`, templates, scripts | none after they return | formatting, validation, presentation | none of the kinds a model checker reaches |

Interactions: requests, recovery and the observer mutate libvirt only through
`NodeManager`, under its lock; every libvirt call of any thread is inside a
lease of `ConnectionManager`; the observer feeds `update_state` and
`delete_if_current` with records of a listing that predates the lock; the
exporter and `prune_nodes` read through the guest agent; `AppState.shutdown`
stops exporter, observer and connection in that order.

What makes each correct:

* Lifecycle: volumes are always claimed by a domain; a VM runs only with complete
  disks; nothing that was launched is removed without a request; a removal once
  begun is the only future of the node and is eventually finished; there is one
  cluster.
* Recovery: it restores servers before workers, exactly what was retained, and
  never keeps the dashboard from serving.
* Observer: what it records is true of the guest and never revives, or takes back
  the progress of, a node.
* Connection: it is never closed under a call, replaced once per loss, and
  nobody waits for ever for a reconnect.
* Exporter: the file is removed at shutdown and stays removed; it is replaced
  atomically.
* Guest agent: a status command runs at most once at a time; an old result is not
  taken for a new one.
* Maintenance: a prune never removes a member, accounts for everything it found,
  and never blocks the manager for good.
* Pool: initialisation can be repeated, never ends well on a pool half set up, and never claims
  somebody else's pool.
* Guest image: a half-written configuration never counts as prepared, and a guest
  that lost power runs k3s in the end, or says why it does not.

## 2. Modules

| Module | Models |
|---|---|
| `NodeMeta` | the metadata record of a node and the changes made to it (`meta.py`) |
| `NodeLedger` | abstract: what the dashboard promises of each node, its volumes and its power, without locks, listings or failures; with the proof that it implements `NodeLife` |
| `NodeLife` | abstract: the life of a node as a listing shows it |
| `GuestStatus`, `Provisioning` | abstract: what the dashboard can learn of a guest, and how a guest gets on between power cuts |
| `NodeManager` | the lifecycle: `libvirtctl.py`, launch recovery and shutdown of `app.py`, the lifecycle half of `observer.py` |
| `NodeManagerProofs` | proofs about `NodeManager` |
| `LeasedConnection` | abstract: what `conn.py` promises of its connections, without mutex, epochs or counts |
| `ConnectionManager` | `conn.py` |
| `ConnectionManagerProofs` | proofs about `ConnectionManager` |
| `Observer` | the probing half of `observer.py`, with `start` and `poll` of `guestexec.py` |
| `ObserverProofs` | proofs about `Observer` |
| `Dashboard` | the process: startup and shutdown of `app.py`, `kubeconfig_export.py`, the observer as a thread in calls |
| `DashboardProofs` | proofs about `Dashboard` |
| `Prune` | `prune_nodes` and `assess_quorum` of `cluster.py` with the route that calls them, `run` of `guestexec.py`, beside deployments and kills |
| `PruneProofs` | proofs about `Prune` |
| `Pool` | `init_pool` and `require_owned` of `pool.py`, with the commands and the deployments that use them |
| `PoolProofs` | proofs about `Pool` |
| `Guest` | `image/k3s-demo-guest` and its two systemd units |
| `GuestProofs` | proofs about `Guest` |
| `MCNodeManager`, `MCConnectionManager`, `MCObserver`, `MCDashboard`, `MCPrune`, `MCPool` | instances for TLC (`Guest` has only numbers for constants and needs none) |

How they fit together. An abstract module stands between two components: one
is shown to implement it, the other assumes no more than it.

| Abstract module | Implemented by | Assumed by |
|---|---|---|
| `NodeLedger` | `NodeManager` (`LedgerSpec`, mapping `Ledger`) | |
| `NodeLife` | `NodeLedger` (`LifeSpec`), hence `NodeManager` | `Observer`, whose nodes move by `Nodes!After` only |
| `Provisioning` | `Guest` (`StagesSpec`, mapping `Stages`) | `NodeManager`, whose guests move by it, one per node (`Guests(u)`), and are reported by `Truth` |
| `LeasedConnection` | `ConnectionManager` (`LeasesSpec`, mapping `Leases`) | |

`Guests(u)` is an instance with a parameter, of which TLC can check no
specification; `GuestsProvision` proves it for every node. The order in which
`AppState.shutdown` stops threads and connection is `CloseOnlyDrained` in
`Dashboard`, and the assumption `Orderly` in `ConnectionManager`.

Definitions marked `Mutant:` are plausible bugs in the
definition that follows them; nothing in the specifications uses them.

### 2.1 NodeManager

One action is one libvirt mutation. The reads before it belong to it, because
the lock excludes every other mutation of the process; what a guest or an
administrator does meanwhile is a step of its own.

* Durable state: `meta`, `active`, `overlay`, `seedvol`, `uploaded`, plus the
  history `used` (a UUID is drawn once) and `cluster` (which cluster the seed of a
  node joins, as the bootstrap node that founded it). `guest` is what the
  overlay says of provisioning and `attached` the nodes with a volume that a
  foreign domain references.
* Volatile state, lost in `Crash`: `phase`, the position `pc` of the lock holder
  with its `owner`, `cur` and the remaining `batch` of a reset, the
  not-yet-processed records `seen` of the sweeper's last listing, and guest
  statuses `report` that were fetched and not yet applied.
* `Attempt(effect, next, raised)` is one libvirt call: it succeeds, or raises
  having had its effect or not. Exceptions then do what the code does: `_create`
  compensates while the record is still its own, `_delete` gives up, recovery
  and the observer go on to the next record.
* `Deploy`, `CreateVolumes`, `CommitLaunch`, `Launch` are `_create`; `CheckClaims`,
  `WriteIntent`, `Destroy`, `RecheckReferences`, `RemoveVolumes`, `RemoveDomain`
  are `_delete`, whether by `Kill`, `Reset`, `Compensate` or `CleanUp`
  (`delete_if_current`). `Startup`, `CleanedUp`, `StartNext`, `Serve` are
  `_recover_nodes`; `Pass`, `Skip`, `Report`, `Advance` and `CleanUp` are a pass of
  the observer, with `update_state`; `Stop` and `Crash` end the process.

Abstractions. Power is active or shut off (paused and crashed count as
active, as in `_delete`). Error texts, creation times, names, addresses and
domain XML are left out. The second attempts of `undefine` with other flags, and
the checks that a destroyed VM is down and an intent is recorded, are part of one call that
succeeds or fails. Compatibility errors and failing reads count as a refused call.
`join_ready` narrows the servers a new node may join by evidence that may lapse
at any moment; the model lets any configured, running server be chosen, or, by not taking the action, none. A listing
is atomic: it reads one domain at a time, but its holder acts on each record only
after comparing generation and state under the lock. Foreign references are
per node rather than per volume. Administrators do not attach a disk in
the moment between the second reference check and the removal (`Attach`):
libvirt has no operation that would let the code exclude it.

### 2.2 ConnectionManager

One action is what a thread does between taking the mutex and releasing it, by
leaving the `with` block or by waiting on the condition; closing a connection
happens outside the mutex and is a step of its own. Connections are numbered in
the order of opening. The wait of `lease` has no timeout and needs a
`notify_all` (`waiting`, then `woken`); the wait of `reconnect` has one, so its end
is always possible. A leased call may end, may look like a lost connection, or
may never return; the opener may fail whenever it is called, and fails always
after `MaxOpen` connections. Leases do not nest, as in the application, and
`close` is called once; `Open` belongs to the startup and comes before it. The `threading.local` that refuses a reconnect inside a
lease is therefore left out.

### 2.3 Observer

Variables named as in the code: `pending`, `obs` (`_observations`), `cursor`, and
the locals `calls`, `offset`, `todo` of a pass. A time that the code keeps is kept as
the ticks since then (`age`), up to `Horizon`; a node's `lapse` is how long ago its
guest was last fit to be joined, which the code cannot know and
`ServedIsRecent` compares with. `jobs` are the status commands in the guests,
whether the observer knows of them or not.

* `Pass` is the listing and what it forgets; `Scan` visits the nodes in rotation: `Unprobed`,
  `PassedOver`, or one of the calls `Launching`, `WaitOut`, `Polling`. Time passes
  and guests change between a call's beginning and its end, `Start` or `Poll`.
* `Start`: the reply comes back, or it does not and the guest runs the command or
  never does. `Poll`: a missing pid, still running, a result, or a lost reply,
  which may have taken the result with it.
* `JobLooks` is the moment at which the command samples the guest, `JobEnds` its end;
  `Tick` cannot pass the end of a command's lifetime, which `timeout` enforces.

Abstractions. A status is fit or unfit, and taken at one moment. Power is on or
off: the clock of a paused guest stands still, and with it the timeout that
`STATUS_LIFETIME_S` relies on. A request whose reply was lost reaches the guest before the call
returns, or not at all. The agent answers with an error only for a pid it does
not know. The comparison of generations is not modelled: a generation changes
only with the state "deleting", which is not probed. A listing that fails
is a longer wait. `delete_if_current` and `update_state` are `CleanUp` and
`Advance` of `NodeManager`; that `update_state` may fail is the second
alternative of `Answered`.

### 2.4 Dashboard

The main thread's position `app` goes through `startup` and `shutdown`; `xpc` is the
exporter's, `opc` the observer's. The exporter's lock is held in the positions
`Writing`; a removal is one system call, so it is one step. `Refresh` to
`Publish` or `Failed` is `refresh`; `CreateTemp`, `WriteTemp`, `Replace`, `WriteFails` are
`_write`. A guest-agent call may fail, or stay in its position for ever: nothing
makes it return. A removal may be refused by the file system (`refused`), which
`_remove` only logs. `Crash` ends all threads between any two steps.

`fresh` and `seen` are history: the credentials that were current during the
refresh under way, and during the last one completed. Abstractions: credentials are
values that change at any moment; the choice of a server and the parsing of its
kubeconfig can only fail; intervals are left to the scheduler. The recovery of
`startup` and everything the observer does are in the modules above. Requests have
ended when `shutdown` is called, as the server does.

### 2.5 Prune

A request goes through `Snapshot` (the route's listing, and `pick_server`), `Start`
and `Listed` (`list_kubernetes_nodes`), and for each candidate `Lock`, then `Found`,
or `NotFound`, `Start` and `Deleted`; `Finish` returns the result. Its locals are
`alive`, `server`, `todo`, `candidate` and `deleted`/`failed`, the two lists of
`PruneResult`. `lock` is the manager's: `Deploy`, `Kill` and `Configure` need it,
power and `Join` do not.

* `commands` are the `kubectl` processes in the guests. A command is independent of its
  request: `Deadline` and `Fails` abandon it, and `Runs` lets it take effect
  afterwards. It ends with its guest's power (`Stopped`). `Fails` is any call to
  libvirt or the agent that raises, with a `guest-exec` reply that was lost among
  them. `Runs` may delete and report a failure, since `kubectl delete` also waits.
* `Raise` is every exception: it leaves the `with` block, and with it goes what had
  been deleted, as no `PruneResult` is returned.
* `Alien` are Node objects whose names this deployment cannot have issued.

Abstractions. Nodes are numbered in the order of creation, which is what
`allocate` promises: a name is used once. A domain appears and disappears in one step;
what lies between is in `NodeManager`. Which names of a listing are looked at
first is left open. The Kubernetes API is a set with atomic operations; whether the
cluster has a quorum is not decided, commands may fail at any time. `join_ready`
is left out as in `NodeManager`.

### 2.6 Pool

One action is one libvirt call of `init_pool`, which takes no lock. `Lookup` finds the pool, or
`CheckPath` and `Define` make it; `Activate`, `SetAutostart` and `Refresh` come before
`List`, which decides, and `Mark`. `handle` is the pool object that a run has in
hand, by the number of definitions so far: libvirt finds a pool by its UUID, so a handle
does not survive undefining (`Mine`, `Raises`). `known` is what libvirt lists, and
differs from `dir`, what is there, until the next refresh. The administrator may do
anything to the pool and the directories except change autostart by hand or
touch the deployment's own volumes. `newer` is history: the files put somewhere
since a run began.

Abstractions. Files are names; overlays and seeds are one kind of volume.
`pool.build`, whose failure the code ignores, only makes the directory and
changes nothing here. Compatibility errors and other failing reads are part of
`Interrupted`. The reference scans of `pool.py` are `NodeManager`'s `attached`.

### 2.7 Guest

A file is what a process finds (`cache`), what is certain to be on the disk
(`disk`), and whether a power loss decides between them (`dirty`). `PowerLoss` leaves of each
dirty file the old contents, the new ones, or a torn file, independently of the others: a
rename orders nothing, only `Sync` does. `Check`, `Copy` (file by file, in the
script's order), `SyncFiles`, `Mark` and `Commit` are prepare; `Run`,
`MarkStarted` and `SyncStarted` are the service that follows it. `Boot` starts
prepare once; a failed prepare is not repeated by systemd (`RemainAfterExit`, no
`Restart`), k3s is (`Restart=always`, `K3sDies`). `StartByHand` is an operator's
`systemctl start` of failed units.

Abstractions. A file is absent, torn or whole. `installed` looks at every field and not into
`config.yaml`, so a torn field fails and a torn configuration passes. `PrepareFails` may
happen anywhere in prepare and covers a missing or invalid seed, a tool that fails
and the unit's timeout. The seed's contents never change. Left out: the lock against a second
prepare, which systemd does not start; the test that packaged k3s units are disabled;
`k3s-failed`, which says nothing about files.

## 3. Runs

| Run | Instance | Shows |
|---|---|---|
| `node_faults` | 2 nodes, both may exist, 2 failures or crashes, autostart | `TypeOK`, `NoOrphanVolumes`, `RetainedIsComplete`, `RunningHasDisks`, `SweepSparesLaunched`; refinement `LedgerSpec` |
| `node_cluster` | 3 UUIDs for 2 nodes at a time, no failures, autostart | `SingleCluster`, `ServersBeforeWorkers`, `ConfiguredIsProven` |
| `node_cleanup` | 2 nodes, 1 failure or crash, foreign references to one, autostart | liveness `InterruptedIsFinished`, `StartupEnds`; `ReferencedVolumesKept` |
| `conn_leases` | 3 threads, 3 connections | `NeverCloseLeased`, `RetryIsFresh`; refinement `LeasesSpec`; liveness `LeaseIsDecided` |
| `conn_race` | 3 threads, 3 connections | the finding of section 5 |
| `obs_probes` | 1 node, 2 pids, `Interval` 1, `Lifetime` 3 | `ServedIsRecent`, `OneCommand` |
| `obs_rotation` | 2 nodes, 1 call a pass | `TypeOK`; liveness `EverybodyIsAsked` |
| `obs_prompt` | 2 nodes, 2 calls a pass, nothing lost, `StaleAfter` = `Interval` + 1 | liveness `FitIsServed` |
| `dash_files` | 2 starts, 2 failures, 2 credentials, crashes | `TypeOK`, `ExportIsFresh`, `GoneAfterShutdown`, `CloseOnlyDrained`; liveness `ShutdownEnds`, `ExportFollows` |
| `prune` | 2 nodes, 1 foreign machine, 2 requests | `TypeOK`, `ReportIsTrue`, `AdviceIsRight`, `MembersStay`; liveness `PruneEnds` |
| `pool_init` | 2 directories, 2 runs, 3 moves of the administrator, 2 interruptions | `ReadyIsWhole`, `MarksOnlyEmpty`; liveness `InitSucceeds` |
| `guest_power` | the 5 files of the real guest besides `config.yaml`, 3 faults, 1 start by hand | `TypeOK`, `CommitIsWhole`, `DataIsCommitted`; refinement `StagesSpec`; liveness `GuestRecovers` |

Bounds, and why they are enough.

* Two faults: the first interrupts an operation, the second interrupts the
  compensation, deletion or recovery that deals with it. The proofs cover any
  number.
* Two nodes: a stale listing needs one node, the node limit and the choice of a
  server need another. The order of recovery and the succession of bootstraps
  need a UUID more (kill the bootstrap, deploy again): `node_cluster`.
* Three threads: two that race in a reconnect and one that holds a lease or
  waits. Three connections: the original and two replacements, which is one more
  than a single loss should cost.
* The generation is not bounded by a guard: a record is created with 1 and
  condemned at most once, to 2.

* `Observer`: probes of different nodes share only the pass, so one node shows
  what may be lost and late, two show the rotation. A command's lifetime spans several
  passes, or a second launch could not meet the first. Two pids: one in use, one
  for the launch that must not happen. Ages beyond `Horizon` are never compared
  with anything larger.
* `Dashboard`: the second start meets the file of the first; two failures are
  one that spoils a refresh and one that spoils the removal after it.
* `Prune`: a member that runs `kubectl`, one that joins or goes meanwhile, and two
  requests that compete for the lock and for an object. The advice is about a
  count only, and its proof covers all counts.
* `Pool`: a second directory for a pool defined elsewhere; three moves suffice
  to undefine a pool under a run and define another (stop, undefine, define), or to fill a
  directory and refresh.
* `Guest`: a fault in prepare, one in the retry and one while k3s runs.

The node runs without liveness use the symmetry of the nodes; no other run uses any. `node_cleanup` has
no symmetry and uses `RecoverySpec`, in which guests report only once k3s started: cleanup
and launch recovery do not read what is reported. One node's cleanup fails for good on a foreign
reference, which costs no failure, and guests lose power at any time; so the one failure is left
for the start of a retained node, and `StartupEnds` covers both stages.
`obs_rotation` (`RotationSpec`) leaves out what the commands find, which the rotation does
not read. `obs_prompt` (`PromptSpec`) asks what `stale_after_s > interval_s` is good for
(`config.py:326`): all the time goes by between passes and no call fails. All runs
check for deadlock except `guest_power`, where nothing is left to happen once k3s
runs, or the marker is torn, and the faults are used up.

Fairness. `Fairness` of `NodeManager` says that the lock holder, startup and the
observer's loop keep running while the process does: each is a thread that
Python schedules, and no call of theirs is without an end (the agent calls have
timeouts). Nothing is assumed of operators, guests, administrators or restarts.
`InterruptedIsFinished` is therefore conditional: *if* from some time on the
dashboard serves, no request is under way and nobody else references the node's volumes,
an interrupted node is finished. `Fairness` of `ConnectionManager` makes every
thread go on except from inside a libvirt call, which may never return, and
from `idle`. `LeaseIsDecided` assumes that reads eventually stop losing the
connection: the mutex is not fair, and a lease may be overtaken by one
reconnect after the other.

`Fairness` of `Observer` says that its thread runs, commands end and time passes; each
agent call ends because it has a timeout. `Fairness` of `Dashboard` says only that
the main thread runs and the file system answers, with strong fairness for
taking the exporter's lock: between two critical sections the exporter is
outside the lock for the length of a guest command. That calls return is a premise
of `ExportFollows` (`WF_vars(Exporter) => ...`) and not of `ShutdownEnds`.

`FairSpec` of `Prune` says that a request's thread runs on and that its deadline passes, no
more: `guestexec.run` compares the clock at every turn, and each agent call has a
timeout. `Step` is continuously enabled unless the request waits for the lock, and
whoever holds the lock has a deadline of its own; that a request gets its turn
follows because no deployment keeps the lock across steps here, and because a
request has finitely many candidates. `FairSpec` of `Pool`: a run goes on, and init-pool is run
again while the pool is not ready; `InitSucceeds` is conditional on the administrator
leaving the directory alone at last (`Free`). `FairSpec` of `Guest`: the guest is powered on
and its processes run, and an operator reboots a guest whose prepare failed
(nothing else in the system does); faults end because they are counted.
`GuestRecovers` is conditional on nobody starting units by hand, for the reason in section 5.

## 4. Proofs

Everything in this section holds for every value of the constants: any set of
nodes, node limit and number of failures under `ConstantsAssumption`, any
finite set of threads under `ThreadAssumption`, any nodes, pids and times
under `ObserverAssumption` (it has `stale_after_s > interval_s`, as the configuration is
validated), any credentials, starts and failures under `DashboardAssumption`, any number of
nodes and any requests under `PruneAssumption`, any directories, files and runs
under `PoolAssumption`, and any number of files and faults under `GuestAssumption`.

`NodeManagerProofs`. None of the safety properties is inductive: that a delete
may remove a volume depends on what its holder established several calls ago.
`Inv` adds that knowledge:

* `CreateProgress`, `DeleteProgress`: what the position `pc` says of the node in
  hand. In `DeleteProgress` the essential part is that the intent
  ("deleting", with a new generation) outlives the holder, so nobody starts or
  advances the node while its disks go.
* `Mandate`: only an operator deletes a node past its creation.
* `ClusterInv`, `EvidenceInv`: every node is of the one cluster whose bootstrap
  remains or whose seed it joined; a fetched status is never more than the guest
  reached (`Truth`).

The proof that a step preserves `Inv` is split by group of conjuncts (typing,
`Safe`, what the holder knows, claims, evidence) and by group of actions
(create, delete, requests, sweep, world). The libvirt mutations have lemmas of
their own (`SafeEffects`, `ClaimEffects`), since an action is one of them plus a
move of the holder. Theorems: `Invariance`, `TypeCorrect`, `VolumesAreClaimed`,
`RetainedNodesAreComplete`, `RunningNodesHaveDisks`, `ConfiguredNodesStarted`,
`OneCluster`; `DurableSteps` then classifies each step by its effect on a single
node, from which the action properties `LaunchedNodesAreSpared` and
`ReferencedVolumesStay` follow. `ServersStartFirst` needs an invariant of its
own, `RecoveryInv`: between its two listings and its end, recovery starts what it
listed in the order of rank.

Refinement. `ImplementsLedger`: each step maps to a step of `NodeLedger` on one
node or a stutter. That a volume is freed, or a domain forgotten, only while
the guest is off needs `DeleteProgress`; that it is powered on only with both
volumes needs `RetainedIsComplete`. `LedgerLives` (in `NodeLedger`) maps the ledger
to what a listing shows of it; `ImplementsLife` chains the two.
`GuestsProvision` shows that each guest, as `NodeManager` moves it, is one that
`Provisioning` allows.

`ConnectionManagerProofs`. `Inv` says that `refs` is the number of lease holders
(`LeaseInv`), that whatever is closed or about to be closed is neither the current
connection nor held (`DetachInv`), and that a second try without a replacement
gets no further than its lease (`RetryInv`). Theorems: `Invariance`, `TypeCorrect`,
`LeasedIsNeverClosed`, `RetriesAreFresh`. `ImplementsLeases` needs `OnceInv` besides:
`closing` in the code is whatever a thread has detached, and no two detach the
same connection, so each is closed at most once. `NoLeaseAfterClose` is about
`OrderlySpec`, in which `close` comes after the callers have ended.

`ObserverProofs`. `OneCommand` rests on `JobInv`: a running command is
accounted for by its pid, or by a wait that began no earlier than it did, or that
wait is over and the command in the last tick of its life, which ends before the
next pass. `CallInv` says that a launch is made only when nothing runs; `FitInv`
that no age kept by the observer is smaller than the lapse of what it tells. Theorems:
`Invariance`, `TypeCorrect` (the call limit included), `ServedStatusIsRecent`,
`OneCommandAtATime`.

`DashboardProofs`. `StopInv`: the stop flag is set only when the exporter is outside
its lock, and keeps it out of the critical section that writes. `ReadInv`:
what the exporter has at hand was current during this refresh. `DrainInv`: a thread that was found
to have ended does not come back. Theorems: `Invariance`, `TypeCorrect`,
`ExportedIsFresh`, `NoLatePublication`, `ClosedOnlyDrained`.

`PruneProofs`. `GoneInv`: whatever a request is about to delete, and whatever any command in any
guest may still delete, is a node that is gone; it rests on `NamesInv` (names come from nodes
that were deployed) and on names not being used again. `CommandInv` ties a command to
its request, so that a reply is about the candidate in hand; `ProgressInv` says that what was stale
when the request began is ahead, at hand, or reported. Theorems: `Invariance`, `TypeCorrect`,
`ReportsAreTrue`, `MembersAreKept`, `PruneTerminates`; `AdviceIsAlwaysRight` proves `assess_quorum`'s arithmetic
for every count.

`PoolProofs`. `LookedInv`: a run that refreshed the pool overlooks only what was put
there since it began, and one that is about to mark has seen nothing. `WholeInv`: a marker that
libvirt knows is there, and a run that looks at the pool has set autostart, on a pool that
an earlier run left active as well; a handle to a pool that was undefined never becomes valid again.
Theorems: `Invariance`, `TypeCorrect`, `ReadyPoolsAreWhole`, `ClaimsAreFair`.

`GuestProofs`. `CacheInv` says what cache and disk can differ in, `ProgressInv` how
far the files are at each step while there is no marker, `MarkerInv` when the marker cannot be lost.
`StageInv` relates what is on the files to the stages a guest went through. Theorems:
`Invariance`, `TypeCorrect`, `MarkerCommits`, `K3sRunsCommitted`, `ImplementsProvisioning`.

Every invariant, action property and refinement of the passing runs is proved.
The liveness properties are only model-checked, being out of the prover's reach:
`InterruptedIsFinished`, `StartupEnds`, `LeaseIsDecided`, `EverybodyIsAsked`, `FitIsServed`,
`ShutdownEnds`, `ExportFollows`, `PruneEnds`, `InitSucceeds`, `GuestRecovers`. For some
of them the safety part is proved, for every value of the constants: that what is
under way comes strictly nearer its end with each step, or that nothing stands
in its way. The runs add fairness to that and conclude.

| Liveness | Proved part | Invariant |
|---|---|---|
| `InterruptedIsFinished` | `OperationsTerminate`: a step of a create or delete, a failure included, goes on in the order of `Place`, or on to the next of a `batch` that shrinks; nobody else moves the holder | `StartupInv` |
| `StartupEnds` | `StartupTerminates`: every step of a stage takes a record off its listing. `StartupIsUnhindered`: there is a record to take, and nobody holds the lock but the sweep itself | `StartupInv` |
| `LeaseIsDecided` | `NoLostWakeup`: whoever waits for a reconnect, there is one under way that will notify it, however many reconnect at once | `WakeInv` |
| `EverybodyIsAsked` | `CallsAreNotWasted`: a pass that left a running node out has made `MaxCalls` calls. `ScanNeverStops`: the rotation has a next node until it has visited all | `BudgetInv` |
| `PruneEnds` | `PruneTerminates`: a step of a request goes on in the order of `Place`, or takes a candidate off its list, and nobody else adds to that list once it was fetched | `Inv` |
| `GuestRecovers` | `OnlyTornIsRefused`: only a torn marker has prepare refuse. `TornForGood`: and it does so for good | `Inv` |

What remains of these for TLC is the step from there to "eventually": that a
measure in the naturals or a finite listing cannot shrink for ever (an
induction over data), and that an enabled step is taken (fairness, ENABLED).

## 5. Findings

`reconnect` compares its stale epoch before it waits for outstanding leases and
not after (`conn.py:129`, the wait at `conn.py:137`). Two threads that lost the
same connection while a third holds a lease both pass the comparison, and both
open a connection; the docstring promises "Replace the connection, unless
someone already replaced *stale_epoch*" (`conn.py:124`). Run `conn_race` violates
`ReplacesOnlyStale`. No lease is harmed (`NeverCloseLeased` holds): the cost is a
second replacement, and a healthy connection abandoned if it is in use by then.

Behaviours that are no disagreement with what is written, but worth knowing:

* `lease` looks at `_closed` before its wait only, so a caller that waits out a
  reconnect is given a connection after `close`. The application closes when its
  threads have ended (`CloseOnlyDrained`) and does not reach it (`NoLeaseAfterClose`).
* A startup that fails before `exporter.start` leaves the kubeconfig of an earlier,
  killed run in place: `KubeconfigExporter.shutdown` removes nothing when its thread was never
  started (`StartupFails`).
* A process killed between `mkstemp` and `os.replace` leaves a hidden temporary file with
  credentials, which no later run removes. `Dashboard` does not track it.
* `stale_after_s > interval_s` suffices for a status to be recent when it arrives only while all
  running nodes fit into the eight calls of a pass: with more, a node is asked in
  every second pass or less often, and `interval_s` counts as many times.
* The manager's lock is not what keeps members safe from a prune: a deletion that outlives its
  request takes effect without it. `MembersStay` holds because a name that was not found is never
  used again; the proof uses nothing else. The lock is kept for as long as a guest's
  command may take (`COMMAND_TIMEOUT_S`), and deployments wait.
* A prune that ends with an exception reports nothing, not even what it has deleted; the route
  catches the agent's errors and deadlines (`app.py:305`), not libvirt's own.
* `docs/development.md:70` has startup refuse unrecognised volumes. It refuses those that libvirt
  knows: neither startup nor a deployment refreshes the pool (`Owned` reads `known`), so a file
  put there by other means goes unnoticed until somebody does.
* `init-pool` on a pool that exists elsewhere marks it where it is and says "ready at" the path it was given
  (`cli.py:80`). A pool that was undefined with its marker in place cannot be initialised again
  in the same directory, which is then not empty (`CheckPath`); hence `Free`.
* `k3s-demo-guest:105` says that no process may have run k3s before the transaction was
  committed. When prepare dies between marker and second sync, and an operator has systemd start the
  units again without a reboot, the next prepare finds the marker, does not sync, and k3s starts on a
  marker that a power loss can take away. A guest that then loses it has k3s data
  and no marker, and refuses to prepare for good. Without `hands = 0`, TLC finds this as a violation of
  `DataIsCommitted` in a few steps. No unit and no document has anybody do that.
* A torn marker is never repaired (`tests/test_guest_image.py:233` wants it so), and the guest
  reports `prepare-failed` for ever. A configuration cut short would pass
  `installed`; `CommitIsWhole` says that there is none where there is a marker.

## 6. Not modelled

* How `pool.py` (from line 133) resolves the disk sources and backing chains of foreign
  domains, and how `meta.py` reads records of other versions: their outcome, a node that is
  referenced or not, and a host that is compatible or not, is a choice of the
  environment in `NodeManager` and `Prune`. What these functions compute from a
  document, they compute without keeping any state.
* A second dashboard beside the first: `docs/operations.md:4` excludes it. A second prepare beside the
  first: systemd does not start it, and the script's lock refuses it.
* The composition of `Observer` with `NodeManager`'s `report`: `NodeManager` takes any
  report that the guest could have given since it was created, however old;
  `ObserverProofs` shows how old one can be.
* Abstract specifications of what `Dashboard` publishes and of what `Prune` deletes.
* Formatting and validation of a single input (`seed.py`, `k3sconf.py`, `domxml.py`, `config.py`),
  presentation (`stats.py`, templates, read-only routes), the other commands of `cli.py` and the deployment
  script, which are sequential and keep no state. What they decide appears above as choices: an
  unused UUID, a complete seed, a valid configuration.
