------------------------- MODULE ConnectionManager -------------------------
(***************************************************************************)
(* The leased libvirt connection, src/k3s_kvm_demo/conn.py: the threads of *)
(* the dashboard run libvirt calls on a shared connection under counted    *)
(* leases; a read that loses the connection replaces it and tries once     *)
(* more.  The mutex guards the bookkeeping only, so a step here is what a  *)
(* thread does between taking the mutex and releasing it, by leaving the   *)
(* block or by waiting on the condition.                                   *)
(*                                                                         *)
(* Connections are numbered in the order the opener made them; 0 is None.  *)
(* A leased call may return, fail, fail as if the connection were lost, or *)
(* stay in libvirt for as long as it likes.  Leases do not nest.           *)
(***************************************************************************)
EXTENDS Integers, FiniteSets

CONSTANTS
    Thread,    \* request handlers, the observer, the exporter
    MaxOpen    \* bound on connections: from then on the opener only fails

ASSUME ThreadAssumption == IsFiniteSet(Thread) /\ MaxOpen \in Nat

VARIABLES
    conn,          \* _conn
    opened,        \* connections opened so far
    shut,          \* connections closed
    epoch,         \* _epoch
    refs,          \* _refs
    reconnecting,  \* _reconnecting
    closed,        \* _closed
    closing,       \* what close() has detached and not yet closed
    pc,            \* Thread -> where it is in read or call
    op,            \* Thread -> "read", "call", or "retry": a read's second try
    held,          \* Thread -> the connection of its lease
    seen,          \* Thread -> the epoch its read started in
    old            \* Thread -> what its reconnect has still to close

manager == <<conn, opened, shut, epoch, refs, reconnecting, closed, closing>>
threads == <<pc, op, held, seen, old>>
vars == <<manager, threads>>

PC == {"idle", "lease", "waiting", "woken", "run", "reconnect", "draining",
       "closing"}
Op == {"none", "read", "call", "retry"}

TypeOK ==
    /\ conn \in Nat /\ opened \in Nat /\ epoch \in Nat /\ closing \in Nat
    /\ refs \in Nat
    /\ shut \in SUBSET Nat
    /\ reconnecting \in BOOLEAN /\ closed \in BOOLEAN
    /\ pc \in [Thread -> PC]
    /\ op \in [Thread -> Op]
    /\ held \in [Thread -> Nat]
    /\ seen \in [Thread -> Nat]
    /\ old \in [Thread -> Nat]

Init ==
    /\ conn = 0 /\ opened = 0 /\ epoch = 0 /\ closing = 0 /\ refs = 0
    /\ shut = {} /\ reconnecting = FALSE /\ closed = FALSE
    /\ pc = [t \in Thread |-> "idle"]
    /\ op = [t \in Thread |-> "none"]
    /\ held = [t \in Thread |-> 0]
    /\ seen = [t \in Thread |-> 0]
    /\ old = [t \in Thread |-> 0]
-----------------------------------------------------------------------------
Goto(t, label) == pc' = [pc EXCEPT ![t] = label]

\* notify_all, by a thread that goes on to label: whoever waits for the end of
\* a reconnect looks again.  A drain needs no waking, it also times out.
NotifyAll(t, label) ==
    pc' = [s \in Thread |-> IF s = t THEN label
                            ELSE IF pc[s] = "waiting" THEN "woken" ELSE pc[s]]

Opener == opened < MaxOpen /\ opened' = opened + 1 /\ conn' = opened + 1

\* AppState.startup, before there is any other thread, and before shutdown.
Open ==
    /\ opened = 0 /\ ~closed /\ Opener
    /\ UNCHANGED <<shut, epoch, refs, reconnecting, closed, closing, threads>>

\* close, by AppState.shutdown: what is in use is left open.
Close ==
    /\ ~closed /\ closed' = TRUE
    /\ IF refs > 0
       THEN UNCHANGED <<conn, closing>>
       ELSE conn' = 0 /\ closing' = conn
    /\ UNCHANGED <<opened, shut, epoch, refs, reconnecting, threads>>

CloseDetached ==
    /\ closing # 0
    /\ shut' = shut \cup {closing} /\ closing' = 0
    /\ UNCHANGED <<conn, opened, epoch, refs, reconnecting, closed, threads>>

Begin(t) ==
    /\ pc[t] = "idle"
    /\ Goto(t, "lease")
    /\ \E kind \in {"read", "call"} : op' = [op EXCEPT ![t] = kind]
    /\ UNCHANGED <<manager, held, seen, old>>

Raise(t) == Goto(t, "idle") /\ op' = [op EXCEPT ![t] = "none"]

\* The rest of lease, once no reconnect is under way.
Grant(t) ==
    /\ IF conn = 0 THEN Opener ELSE UNCHANGED <<conn, opened>>
    /\ refs' = refs + 1
    /\ held' = [held EXCEPT ![t] = conn']
    /\ seen' = [seen EXCEPT ![t] = IF op[t] = "read" THEN epoch ELSE @]
    /\ Goto(t, "run")
    /\ UNCHANGED <<shut, epoch, reconnecting, closed, closing, op, old>>

\* The opener of a lease failed.
Unopened(t) == conn = 0 /\ Raise(t) /\ UNCHANGED <<manager, held, seen, old>>

Await(t) == Goto(t, "waiting") /\ UNCHANGED <<manager, op, held, seen, old>>

\* closed is looked at here, and not again after a wait.
Lease(t) ==
    /\ pc[t] = "lease"
    /\ \/ closed /\ Raise(t) /\ UNCHANGED <<manager, held, seen, old>>
       \/ ~closed /\ reconnecting /\ Await(t)
       \/ ~closed /\ ~reconnecting /\ (Grant(t) \/ Unopened(t))

Wake(t) ==
    /\ pc[t] = "woken"
    /\ \/ reconnecting /\ Await(t)
       \/ ~reconnecting /\ (Grant(t) \/ Unopened(t))

\* The leased call ends.  Only a read that lost the connection is repeated.
Leave(t) ==
    /\ pc[t] = "run"
    /\ refs' = refs - 1
    /\ held' = [held EXCEPT ![t] = 0]
    /\ \/ NotifyAll(t, "idle") /\ op' = [op EXCEPT ![t] = "none"]
       \/ op[t] = "read" /\ NotifyAll(t, "reconnect") /\ UNCHANGED op
    /\ UNCHANGED <<conn, opened, shut, epoch, reconnecting, closed, closing, seen, old>>

\* Mutant: a connection whose calls did not drain in time is closed as well.
ReplaceClosing(t) ==
    /\ Opener /\ epoch' = epoch + 1
    /\ old' = [old EXCEPT ![t] = conn]
    /\ op' = [op EXCEPT ![t] = "retry"]
    /\ NotifyAll(t, IF old'[t] = 0 THEN "lease" ELSE "closing")
    /\ reconnecting' = FALSE
    /\ UNCHANGED <<shut, refs, closed, closing, held, seen>>

\* Mutant: the new connection starts with a count of its own.
ReplacedAfresh(t) ==
    /\ Opener /\ epoch' = epoch + 1
    /\ old' = [old EXCEPT ![t] = IF refs > 0 THEN 0 ELSE conn]
    /\ op' = [op EXCEPT ![t] = "retry"]
    /\ NotifyAll(t, IF old'[t] = 0 THEN "lease" ELSE "closing")
    /\ reconnecting' = FALSE /\ refs' = 0
    /\ UNCHANGED <<shut, closed, closing, held, seen>>

\* The opener's answer: the old connection is to be closed unless calls are
\* still in flight, on whatever connection.
Replaced(t) ==
    /\ Opener /\ epoch' = epoch + 1
    /\ old' = [old EXCEPT ![t] = IF refs > 0 THEN 0 ELSE conn]
    /\ op' = [op EXCEPT ![t] = "retry"]
    /\ NotifyAll(t, IF old'[t] = 0 THEN "lease" ELSE "closing")
    /\ reconnecting' = FALSE
    /\ UNCHANGED <<shut, refs, closed, closing, held, seen>>

\* Mutant: the waiters are notified of a successful reconnect only.
NotReplacedQuietly(t) ==
    /\ Raise(t)
    /\ reconnecting' = FALSE
    /\ UNCHANGED <<conn, opened, shut, epoch, refs, closed, closing, held, seen, old>>

NotReplaced(t) ==
    /\ NotifyAll(t, "idle") /\ op' = [op EXCEPT ![t] = "none"]
    /\ reconnecting' = FALSE
    /\ UNCHANGED <<conn, opened, shut, epoch, refs, closed, closing, held, seen, old>>

\* Somebody else replaced the connection: back to the lease.
TryAgain(t) ==
    /\ Goto(t, "lease") /\ op' = [op EXCEPT ![t] = "retry"]
    /\ UNCHANGED <<manager, held, seen, old>>

Drain(t) ==
    /\ Goto(t, "draining") /\ reconnecting' = TRUE
    /\ UNCHANGED <<conn, opened, shut, epoch, refs, closed, closing, op, held,
                   seen, old>>

\* Mutant: a reconnect already under way counts as a replacement.
ReconnectUnlessReconnecting(t) ==
    /\ pc[t] = "reconnect"
    /\ IF closed \/ reconnecting \/ epoch # seen[t]
       THEN TryAgain(t)
       ELSE IF refs > 0 THEN Drain(t) ELSE Replaced(t) \/ NotReplaced(t)

\* reconnect, up to the wait for outstanding leases.
Reconnect(t) ==
    /\ pc[t] = "reconnect"
    /\ IF closed \/ epoch # seen[t]
       THEN TryAgain(t)
       ELSE IF refs > 0 THEN Drain(t) ELSE Replaced(t) \/ NotReplaced(t)

\* The wait is over: the leases drained, or the timeout expired.
Drained(t) == pc[t] = "draining" /\ (Replaced(t) \/ NotReplaced(t))

CloseOld(t) ==
    /\ pc[t] = "closing"
    /\ shut' = shut \cup {old[t]}
    /\ old' = [old EXCEPT ![t] = 0]
    /\ Goto(t, "lease")
    /\ UNCHANGED <<conn, opened, epoch, refs, reconnecting, closed, closing, op,
                   held, seen>>

Step(t) == Lease(t) \/ Wake(t) \/ Reconnect(t) \/ Drained(t) \/ CloseOld(t)

Next ==
    \/ Open \/ Close \/ CloseDetached
    \/ \E t \in Thread : Begin(t) \/ Leave(t) \/ Step(t)

Spec == Init /\ [][Next]_vars

\* Threads keep running; a libvirt call need not return, nobody need call.
Fairness == \A t \in Thread : WF_vars(Step(t))

FairSpec == Spec /\ Fairness
-----------------------------------------------------------------------------
(***************************************************************************)
(* Properties.                                                             *)
(***************************************************************************)
\* "A libvirt connection must never be closed while another thread is inside a
\* call on it": however reconnects, abandoned calls and shutdown interleave.
NeverCloseLeased == \A t \in Thread : pc[t] = "run" => held[t] \notin shut

\* A read's second try runs on a connection that replaced the one it lost, or
\* not at all, also when somebody else was reconnecting, and failed to.
RetryIsFresh ==
    [][\A t \in Thread :
          op[t] = "retry" /\ pc[t] # "run" /\ pc'[t] = "run" => epoch > seen[t]]_vars

\* Once reads stop losing the connection, whoever asked for a lease gets it or
\* an error, though a call in flight may never return.
LeaseIsDecided ==
    <>[](\A t \in Thread : pc[t] # "reconnect") =>
        \A t \in Thread : pc[t] = "lease" ~> pc[t] \in {"run", "idle"}

\* The promises of LeasedConnection.
Leases == INSTANCE LeasedConnection WITH
    current <- conn, made <- opened, used <- held, dead <- shut

LeasesSpec == Leases!Spec

\* reconnect's docstring: "Replace the connection, unless someone already
\* replaced *stale_epoch*", for callers that race in the wait for the leases.
ReplacesOnlyStale ==
    [][\A t \in Thread :
          op[t] = "read" /\ op'[t] = "retry" /\ epoch' # epoch => seen[t] = epoch]_vars
-----------------------------------------------------------------------------
(***************************************************************************)
(* What makes them inductive.                                              *)
(***************************************************************************)
\* refs counts the leases.
LeaseInv ==
    /\ \A t \in Thread : pc[t] = "run" <=> held[t] # 0
    /\ refs = Cardinality({t \in Thread : held[t] # 0})

\* Closed, or about to be.
Doomed(c) == c \in shut \/ c = closing \/ \E t \in Thread : old[t] = c

\* A connection leaves conn before anybody closes it, and nobody comes back.
DetachInv ==
    /\ conn <= opened /\ closing <= opened /\ shut \subseteq 0..opened
    /\ \A t \in Thread : held[t] <= opened /\ old[t] <= opened
    /\ \A c \in 1..opened :
          Doomed(c) => c # conn /\ \A t \in Thread : held[t] # c

\* Without a replacement a read's second try gets no further than its lease.
RetryInv ==
    \A t \in Thread :
        /\ seen[t] <= epoch
        /\ op[t] = "retry" => seen[t] < epoch \/ (closed /\ pc[t] = "lease")

Inv == TypeOK /\ LeaseInv /\ DetachInv /\ RetryInv

\* What is to be closed is closed once, by whoever detached it.
OnceInv ==
    /\ \A t \in Thread : pc[t] = "closing" <=> old[t] # 0
    /\ \A t \in Thread : old[t] # 0 => old[t] \notin shut \cup {closing}
    /\ \A s, t \in Thread : old[s] # 0 /\ old[s] = old[t] => s = t
    /\ closing # 0 => closing \notin shut

\* Whoever waits for a reconnect, there is one under way that will wake it: no
\* wakeup is lost, though several threads may reconnect at once.
WakeInv ==
    /\ \A t \in Thread : pc[t] = "waiting" => reconnecting
    /\ reconnecting => \E t \in Thread : pc[t] = "draining"
-----------------------------------------------------------------------------
(***************************************************************************)
(* The connection in the application.                                      *)
(***************************************************************************)
\* AppState.shutdown closes only when observer and exporter have ended
\* (Dashboard!CloseOnlyDrained), after the requests.
Orderly == closed' # closed => \A t \in Thread : pc[t] = "idle"

OrderlySpec == Init /\ [][Next /\ Orderly]_vars

\* So used, close is for good: no caller that waited out a reconnect comes by a
\* connection after it.
ClosedForGood == closed => conn = 0 /\ \A t \in Thread : pc[t] \in {"idle", "lease"}
=============================================================================
