------------------------------ MODULE Observer ------------------------------
(***************************************************************************)
(* The observer (src/k3s_kvm_demo/observer.py): one thread that lists the  *)
(* nodes every Interval, and asks the guests of running nodes for their    *)
(* status, at most MaxCalls guest-agent calls a pass, in rotating order.   *)
(* A status takes two calls in different passes: guest-exec launches a     *)
(* command, guest-exec-status reaps its result.  Either reply may be lost, *)
(* the guest may be powered off in between, and time passes all along.     *)
(*                                                                         *)
(* What is served from the cache meanwhile, join_ready, decides which      *)
(* cluster a new node joins.  The durable half of a pass, cleanup and      *)
(* update_state, is NodeManager!CleanUp and NodeManager!Advance.           *)
(*                                                                         *)
(* Times are in ticks; what the code keeps as a time is kept as an age.  A *)
(* VM is on or off: a paused guest would not keep its timeouts.            *)
(***************************************************************************)
EXTENDS Naturals, FiniteSets

CONSTANTS
    Node,        \* UUIDs, ordered as list_nodes returns them
    Pid,         \* what guest-exec may answer
    None,        \* no probe, no observation
    MaxCalls,    \* MAX_CALLS_PER_PASS
    Interval,    \* cfg.observation.interval_s
    Timeout,     \* cfg.observation.qga_timeout_s
    Lifetime,    \* STATUS_LIFETIME_S: timeout(1) ends a command by then
    StaleAfter,  \* cfg.observation.stale_after_s
    Horizon      \* bound on ages: beyond it nothing tells them apart

ASSUME ObserverAssumption ==
    /\ Node \subseteq Nat /\ IsFiniteSet(Node)
    /\ Pid \subseteq Nat \ {0}
    /\ MaxCalls \in Nat \ {0} /\ Interval \in Nat \ {0}
    /\ Timeout \in Nat /\ Lifetime \in Nat /\ StaleAfter \in Nat
    /\ StaleAfter > Interval
    /\ Horizon \in Nat /\ Horizon >= StaleAfter /\ Horizon >= Lifetime + Timeout
    /\ None \notin Node \cup [pid : Nat, age : Nat] \cup [fit : BOOLEAN, age : Nat]

VARIABLES
    \* the nodes
    node,      \* Node -> what list_nodes would say of it
    fit,       \* nodes whose guest has everything join_ready asks for
    lapse,     \* Node -> ticks since its guest was last fit
    jobs,      \* status commands in the guests, running or not yet reaped
    \* the observer
    pc,        \* "rest", "scan", or the agent call it is in
    cur,       \* the node of that call
    rest,      \* ticks left of the wait between passes
    listed,    \* this pass's list_nodes
    eligible,  \* the nodes of listed that are probed
    todo,      \* the nodes of listed not yet visited
    offset,    \* where the pass started
    calls,     \* agent calls of this pass
    cursor,    \* _cursor
    late,      \* the command being polled has outlived its timeout
    pending,   \* Node -> _pending
    obs        \* Node -> _observations

nodes == <<node, fit, lapse, jobs>>
pass == <<pc, cur, rest, listed, eligible, todo, offset, calls, cursor, late>>
vars == <<nodes, pass, pending, obs>>

\* The nodes: what NodeManager promises of them is all that is assumed.
Nodes == INSTANCE NodeLife WITH life <- node

Age == 0..Horizon
Outcome == {"none", "fit", "unfit"}             \* what a command has found out
Job == [node : Node, pid : Pid, age : Age, done : BOOLEAN, out : Outcome]
Probe == [pid : Pid \cup {0}, age : Age]        \* pid 0: the reply was lost
Observation == [fit : BOOLEAN, age : Age]

TypeOK ==
    /\ node \in [Node -> Nodes!Life]
    /\ fit \in SUBSET Node
    /\ lapse \in [Node -> Age]
    /\ jobs \in SUBSET Job
    /\ pc \in {"rest", "scan", "start", "poll"}
    /\ cur \in Node \cup {None}
    /\ rest \in 0..Interval
    /\ eligible \in SUBSET Node /\ listed \in SUBSET Node /\ todo \in SUBSET listed
    /\ offset \in Nat /\ cursor \in Nat /\ calls \in 0..MaxCalls
    /\ late \in BOOLEAN
    /\ pending \in [Node -> Probe \cup {None}]
    /\ obs \in [Node -> Observation \cup {None}]

Init ==
    /\ Nodes!Init /\ fit = {} /\ jobs = {}
    /\ lapse = [u \in Node |-> Horizon]
    /\ pc = "rest" /\ rest = 0 /\ late = FALSE /\ cur = None
    /\ listed = {} /\ eligible = {} /\ todo = {}
    /\ offset = 0 /\ calls = 0 /\ cursor = 0
    /\ pending = [u \in Node |-> None]
    /\ obs = [u \in Node |-> None]
-----------------------------------------------------------------------------
(***************************************************************************)
(* A pass.                                                                 *)
(***************************************************************************)
Live == {u \in Node : node[u] \notin {"absent", "gone"}}

\* reconcile, up to the loop: what is gone is forgotten.
Pass ==
    /\ pc = "rest" /\ rest = 0
    /\ listed' = Live /\ todo' = Live
    /\ eligible' = {u \in Live : node[u] = "running"}
    /\ offset' = IF Live = {} THEN 0 ELSE cursor % Cardinality(Live)
    /\ pending' = [u \in Node |-> IF u \in Live THEN pending[u] ELSE None]
    /\ obs' = [u \in Node |-> IF u \in Live THEN obs[u] ELSE None]
    /\ pc' = "scan" /\ calls' = 0
    /\ UNCHANGED <<nodes, cur, rest, cursor, late>>

EndPass ==
    /\ pc = "scan" /\ todo = {}
    /\ pc' = "rest" /\ rest' = Interval
    /\ UNCHANGED <<nodes, cur, listed, eligible, todo, offset, calls, cursor, late,
                   pending, obs>>

\* The index of u in the listing, and when the loop reaches it.
Rank(u) == Cardinality({v \in listed : v < u})
Turn(u) == (Rank(u) + Cardinality(listed) - offset) % Cardinality(listed)
First(u) == u \in todo /\ \A v \in todo : Turn(u) <= Turn(v)

Visited(u) == todo' = todo \ {u} /\ pc' = "scan" /\ cur' = None

\* An observation that says nothing: no status, taken now.
Blank == [fit |-> FALSE, age |-> 0]
Forget(u) == obs' = [obs EXCEPT ![u] = Blank]

Unprobed(u) ==
    /\ pc = "scan" /\ First(u) /\ u \notin eligible
    /\ Forget(u) /\ Visited(u)
    /\ UNCHANGED <<nodes, rest, listed, eligible, offset, calls, cursor, late, pending>>

\* The pass has used up its calls.
PassedOver(u) ==
    /\ pc = "scan" /\ First(u) /\ u \in eligible /\ calls >= MaxCalls
    /\ Visited(u)
    /\ UNCHANGED <<nodes, rest, listed, eligible, offset, calls, cursor, late,
                   pending, obs>>

\* Mutant: one call too many.
CallOneMore(u) ==
    /\ pc = "scan" /\ First(u) /\ u \in eligible /\ calls <= MaxCalls
    /\ calls' = calls + 1
    /\ cursor' = (Rank(u) + 1) % Cardinality(listed)
    /\ UNCHANGED <<nodes, rest, listed, eligible, offset>>

\* Mutant: the next pass starts where this one did.
CallFromStart(u) ==
    /\ pc = "scan" /\ First(u) /\ u \in eligible /\ calls < MaxCalls
    /\ calls' = calls + 1 /\ UNCHANGED cursor
    /\ UNCHANGED <<nodes, rest, listed, eligible, offset>>

\* The node is given one of the calls of the pass; the next pass starts after
\* it, at (offset + index + 1) % len(nodes).
Call(u) ==
    /\ pc = "scan" /\ First(u) /\ u \in eligible /\ calls < MaxCalls
    /\ calls' = calls + 1
    /\ cursor' = (Rank(u) + 1) % Cardinality(listed)
    /\ UNCHANGED <<nodes, rest, listed, eligible, offset>>

\* _observe without a probe: one is pending before guest-exec is called.
Launching(u) ==
    /\ Call(u) /\ pending[u] = None
    /\ pending' = [pending EXCEPT ![u] = [pid |-> 0, age |-> 0]]
    /\ pc' = "start" /\ cur' = u
    /\ UNCHANGED <<todo, late, obs>>

\* A command hidden by a lost reply is waited out.
WaitOut(u) ==
    /\ Call(u) /\ pending[u] # None /\ pending[u].pid = 0
    /\ pending' = [pending EXCEPT ![u] = IF @.age >= Lifetime THEN None ELSE @]
    /\ Visited(u)
    /\ UNCHANGED <<late, obs>>

Polling(u) ==
    /\ Call(u) /\ pending[u] # None /\ pending[u].pid # 0
    /\ late' = (pending[u].age >= Lifetime + Timeout)
    /\ pc' = "poll" /\ cur' = u
    /\ UNCHANGED <<todo, pending, obs>>
-----------------------------------------------------------------------------
(***************************************************************************)
(* The guest-agent calls.                                                  *)
(***************************************************************************)
On(u) == node[u] = "running"

\* guest-exec in the guest, with a pid it does not use.
Exec(u, p) ==
    /\ On(u) /\ ~\E j \in jobs : j.node = u /\ j.pid = p
    /\ jobs' = jobs \cup {[node |-> u, pid |-> p, age |-> 0, done |-> FALSE,
                         out |-> "none"]}

Started(u) ==
    /\ \E p \in Pid : Exec(u, p) /\ pending' = [pending EXCEPT ![u].pid = p]
    /\ UNCHANGED obs

\* Mutant: the wait counts from before the call.
NotStartedInTime(u) ==
    /\ UNCHANGED jobs \/ \E p \in Pid : Exec(u, p)
    /\ UNCHANGED pending
    /\ Forget(u)

\* Whether the guest got the request or not, the wait starts now.
NotStarted(u) ==
    /\ UNCHANGED jobs \/ \E p \in Pid : Exec(u, p)
    /\ pending' = [pending EXCEPT ![u] = [pid |-> 0, age |-> 0]]
    /\ Forget(u)

Start(u) ==
    /\ pc = "start" /\ u = cur
    /\ Started(u) \/ NotStarted(u)
    /\ Visited(u)
    /\ UNCHANGED <<node, fit, lapse, rest, listed, eligible, offset, calls, cursor, late>>

Mine(u) == {j \in jobs : j.node = u /\ j.pid = pending[u].pid}

\* The guest restarted: it has no such pid, or another command has it now,
\* whose output is not a status.
Missing(u) ==
    /\ On(u) /\ Mine(u) = {}
    /\ pending' = [pending EXCEPT ![u] = None]
    /\ Forget(u) /\ UNCHANGED jobs

StillRunning(u) ==
    /\ On(u) /\ \E j \in Mine(u) : ~j.done
    /\ IF late THEN Forget(u) ELSE UNCHANGED obs
    /\ UNCHANGED <<jobs, pending>>

\* Mutant: a status counts from its arrival.
ObservedNow(u, j) == [fit |-> j.out = "fit", age |-> 0]

\* A status counts from before its command was submitted.
Observed(u, j) == [fit |-> j.out = "fit", age |-> pending[u].age]

\* Mutant: the wait for the next pass counts against a status.
RecentBeyondWait(u) == pending[u].age + Interval < StaleAfter

\* A result is of use.
Recent(u) == pending[u].age < StaleAfter

\* The result is reaped, and recorded unless it is stale or not a status, or
\* the write of the durable state it argues for fails.
Answered(u) ==
    /\ On(u) /\ \E j \in Mine(u) :
          /\ j.done /\ jobs' = jobs \ {j}
          /\ \/ Recent(u) /\ obs' = [obs EXCEPT ![u] = Observed(u, j)]
             \/ Forget(u)
    /\ pending' = [pending EXCEPT ![u] = None]

\* An ambiguous failure, though the result may have been reaped by it: the pid
\* is retained.
Unanswered(u) ==
    /\ \/ UNCHANGED jobs
       \/ On(u) /\ \E j \in Mine(u) : j.done /\ jobs' = jobs \ {j}
    /\ Forget(u) /\ UNCHANGED pending

Poll(u) ==
    /\ pc = "poll" /\ u = cur
    /\ Missing(u) \/ StillRunning(u) \/ Answered(u) \/ Unanswered(u)
    /\ Visited(u)
    /\ UNCHANGED <<node, fit, lapse, rest, listed, eligible, offset, calls, cursor, late>>
-----------------------------------------------------------------------------
(***************************************************************************)
(* The nodes, and time.                                                    *)
(***************************************************************************)
observer == <<pass, pending, obs>>

\* k3s-demo-guest status looks, at some moment of its run.
JobLooks(j) ==
    /\ j.out = "none" /\ ~j.done
    /\ LET found == IF j.node \in fit THEN "fit" ELSE "unfit"
       IN  jobs' = (jobs \ {j}) \cup {[j EXCEPT !.out = found]}
    /\ UNCHANGED <<node, fit, lapse, observer>>

\* It ends or is killed.  One that nobody knows the pid of is of no further
\* interest.
JobEnds(j) ==
    /\ ~j.done
    /\ LET known == pending[j.node] # None /\ pending[j.node].pid = j.pid
       IN  jobs' = (jobs \ {j}) \cup
                   IF known THEN {[j EXCEPT !.age = 0, !.done = TRUE]} ELSE {}
    /\ UNCHANGED <<node, fit, lapse, observer>>

GetsFit(u) ==
    /\ On(u) /\ u \notin fit
    /\ fit' = fit \cup {u} /\ lapse' = [lapse EXCEPT ![u] = 0]
    /\ UNCHANGED <<node, jobs, observer>>

GetsUnfit(u) ==
    /\ u \in fit /\ fit' = fit \ {u}
    /\ UNCHANGED <<node, lapse, jobs, observer>>

\* Nothing in a guest outlives its power.
Becomes(u, l) ==
    /\ node' = [node EXCEPT ![u] = l]
    /\ fit' = fit \ {u} /\ jobs' = {j \in jobs : j.node # u}
    /\ UNCHANGED <<lapse, observer>>

Fate(u) == \E l \in Nodes!After(node[u]) : Becomes(u, l)

Aged(a) == IF a < Horizon THEN a + 1 ELSE a

\* timeout(1) ends a command before it outlives Lifetime.
Tick ==
    /\ \A j \in jobs : ~j.done => j.age < Lifetime
    /\ jobs' = {IF ~j.done THEN [j EXCEPT !.age = Aged(@)] ELSE j : j \in jobs}
    /\ lapse' = [u \in Node |-> IF u \in fit THEN 0 ELSE Aged(lapse[u])]
    /\ pending' = [u \in Node |-> IF pending[u] = None THEN None
                                  ELSE [pending[u] EXCEPT !.age = Aged(@)]]
    /\ obs' = [u \in Node |-> IF obs[u] = None THEN None
                              ELSE [obs[u] EXCEPT !.age = Aged(@)]]
    /\ rest' = IF rest > 0 THEN rest - 1 ELSE 0
    /\ UNCHANGED <<node, fit, pc, cur, listed, eligible, todo, offset, calls, cursor, late>>
-----------------------------------------------------------------------------
Scan(u) ==
    \/ Unprobed(u) \/ PassedOver(u)
    \/ Launching(u) \/ WaitOut(u) \/ Polling(u)

Observe == Pass \/ EndPass \/ \E u \in todo : Scan(u) \/ Start(u) \/ Poll(u)

Next ==
    \/ Observe
    \/ \E j \in jobs : JobLooks(j) \/ JobEnds(j)
    \/ \E u \in Node : GetsFit(u) \/ GetsUnfit(u) \/ Fate(u)
    \/ Tick

Spec == Init /\ [][Next]_vars

\* The observer's thread runs, its calls time out, commands end, time passes.
Fairness ==
    /\ WF_vars(Observe)
    /\ WF_vars(\E j \in jobs : JobEnds(j))
    /\ WF_vars(Tick)

FairSpec == Spec /\ Fairness
-----------------------------------------------------------------------------
(***************************************************************************)
(* Properties.                                                             *)
(***************************************************************************)
\* join_ready, asked with a listing of this moment.
JoinReady(u) ==
    /\ node[u] = "running"
    /\ obs[u] # None /\ obs[u].fit /\ obs[u].age < StaleAfter

\* Whatever was lost or late, a server is offered to new nodes only if it was
\* seen to be fit less than StaleAfter ago.
ServedIsRecent == \A u \in Node : JoinReady(u) => lapse[u] < StaleAfter

\* "A lost launch reply can hide a running command": still the observer never
\* has two of them running in a guest.
OneCommand ==
    \A j, k \in jobs : j.node = k.node /\ ~j.done /\ ~k.done => j = k

\* The rotation reaches every node that stays powered on, whatever the others
\* do, and whatever became of its earlier probes.
EverybodyIsAsked ==
    \A u \in Node :
        <>[](node[u] = "running") => []<>(pc \in {"start", "poll"} /\ cur = u)

\* A guest that is fit for good is offered to new nodes again and again: the
\* two calls of a probe, in different passes, are fast enough for its result.
FitIsServed == \A u \in Node : <>[](u \in fit) => []<>JoinReady(u)
-----------------------------------------------------------------------------
(***************************************************************************)
(* What makes the safety properties inductive.                             *)
(***************************************************************************)
\* No cached or awaited status is newer than the truth it tells.
FitInv ==
    /\ \A u \in fit : lapse[u] = 0 /\ On(u)
    /\ \A u \in Node : obs[u] # None /\ obs[u].fit => lapse[u] <= obs[u].age
    /\ \A j \in jobs :
          j.out = "fit" /\ pending[j.node] # None /\ pending[j.node].pid = j.pid
              => lapse[j.node] <= pending[j.node].age

\* Which call the observer is in.
CallInv ==
    /\ pc \in {"start", "poll"} => cur \in todo /\ pending[cur] # None
    /\ pc = "start" => /\ pending[cur].pid = 0
                       /\ \A j \in jobs : j.node = cur => j.done
    /\ pc = "poll" => pending[cur].pid # 0

\* A running command is known by its pid, or was hidden no earlier than the
\* wait for it began, or that wait is over and the command about to end, before
\* the next pass.
Accounted(j) ==
    LET p == pending[j.node]
    IN  \/ p # None /\ p.pid = j.pid
        \/ p # None /\ p.pid = 0 /\ p.age <= j.age
        \/ p = None /\ j.age = Lifetime
           /\ IF pc = "rest" THEN rest > 0 ELSE j.node \notin todo

JobInv ==
    /\ \A j \in jobs : On(j.node) /\ (~j.done => j.age <= Lifetime /\ Accounted(j))
    /\ \A j, k \in jobs : j.node = k.node /\ j.pid = k.pid => j = k

Inv == TypeOK /\ FitInv /\ CallInv /\ JobInv /\ OneCommand

\* What is safe about EverybodyIsAsked: a pass passes nobody over while it has
\* calls left.
Asked == (eligible \ todo) \cup IF pc \in {"start", "poll"} THEN {cur} ELSE {}

BudgetInv ==
    /\ calls = IF Cardinality(Asked) < MaxCalls THEN Cardinality(Asked) ELSE MaxCalls
    /\ eligible \subseteq listed
    /\ pc \in {"start", "poll"} => cur \in eligible
    /\ pc = "rest" => todo = {}

BudgetIsUsed == pc = "rest" => calls = MaxCalls \/ calls = Cardinality(eligible)

\* And it has a next node until it has visited all of them.
ScanGoesOn == pc = "scan" /\ todo # {} => \E u \in todo : First(u)
=============================================================================
