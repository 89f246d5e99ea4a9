---------------------- MODULE ConnectionManagerProofs ----------------------
(***************************************************************************)
(* Proofs about ConnectionManager, for every finite set of threads and any *)
(* number of connections.                                                  *)
(***************************************************************************)
EXTENDS ConnectionManager, FiniteSetTheorems, TLAPS

USE DEF manager, threads

Holders == {t \in Thread : held[t] # 0}

\* The counting argument: refs follows the set of lease holders.
LEMMA HoldersCount ==
    ASSUME NEW S \in SUBSET Thread, NEW t \in Thread
    PROVE  /\ t \notin S => Cardinality(S \cup {t}) = Cardinality(S) + 1
           /\ t \in S => Cardinality(S \ {t}) = Cardinality(S) - 1
           /\ Cardinality(S) \in Nat
           /\ Cardinality(S) = 0 => S = {}
<1>1. IsFiniteSet(S)
    BY ThreadAssumption, FS_Subset
<1>2. QED
    BY <1>1, FS_AddElement, FS_RemoveElement, FS_EmptySet, FS_CardinalityType

\* With no lease counted, no thread holds a connection.
LEMMA NoLease ==
    ASSUME LeaseInv, refs \in Nat, ~(refs > 0)
    PROVE  \A t \in Thread : held[t] = 0
<1>1. refs = Cardinality(Holders) /\ Holders \in SUBSET Thread
    BY DEF LeaseInv, Holders
<1>2. ASSUME NEW t \in Thread
      PROVE  held[t] = 0
    <2>1. Cardinality(Holders) \in Nat /\ (Cardinality(Holders) = 0 => Holders = {})
        BY <1>1, HoldersCount
    <2>2. Holders = {}
        BY <1>1, <2>1
    <2>3. QED
        BY <2>2 DEF Holders
<1>3. QED
    BY <1>2

\* Nothing is open, leased or closed at first.
LEMMA InitInv == Init => Inv
<1>1. ASSUME Init
      PROVE  LeaseInv
    <2>1. {t \in Thread : held[t] # 0} = {}
        BY <1>1 DEF Init
    <2>2. QED
        BY <1>1, <2>1, FS_EmptySet DEF Init, LeaseInv
<1>2. Init => TypeOK
    <2>1. Init => reconnecting \in BOOLEAN /\ closed \in BOOLEAN
        BY Zenon DEF Init
    <2>2. QED
        BY <2>1 DEF Init, TypeOK, PC, Op
<1>3. Init => DetachInv
    BY DEF Init, DetachInv
<1>4. Init => RetryInv
    BY DEF Init, RetryInv
<1>5. QED
    BY <1>1, <1>2, <1>3, <1>4 DEF Inv

\* Every step but a grant and the end of a call leaves the leases alone.
LEMMA SameLeases ==
    ASSUME LeaseInv, UNCHANGED <<held, refs>>,
           \A t \in Thread : pc'[t] = "run" <=> pc[t] = "run"
    PROVE  LeaseInv'
BY DEF LeaseInv

\* What the steps that take and release the mutex have in common.
LEMMA GrantInv ==
    ASSUME Inv, NEW t \in Thread, pc[t] \in {"lease", "woken"}, Grant(t),
           pc[t] = "lease" => ~closed
    PROVE  Inv'
<1>0. TypeOK /\ LeaseInv /\ DetachInv /\ RetryInv
    BY DEF Inv
<1>1. conn' \in Nat \ {0} /\ opened' \in Nat /\ opened <= opened' /\ conn' <= opened'
    BY <1>0 DEF TypeOK, Grant, Opener, DetachInv
<1>2. TypeOK'
    BY <1>0, <1>1 DEF TypeOK, Grant, Goto, PC, Op
<1>3. LeaseInv'
    <2>1. held[t] = 0 /\ held' = [held EXCEPT ![t] = conn'] /\ pc' = [pc EXCEPT ![t] = "run"]
        BY <1>0 DEF LeaseInv, Grant, Goto
    <2>2. Holders' = Holders \cup {t} /\ t \notin Holders /\ Holders \in SUBSET Thread
        BY <1>0, <1>1, <2>1 DEF Holders, TypeOK
    <2>3. refs' = Cardinality(Holders')
        BY <1>0, <2>2, HoldersCount DEF LeaseInv, Holders, Grant
    <2>4. QED
        BY <1>0, <1>1, <2>1, <2>3 DEF LeaseInv, Holders, TypeOK
<1>4. DetachInv'
    <2>1. /\ UNCHANGED <<shut, closing, old>> /\ held' = [held EXCEPT ![t] = conn']
          /\ conn' = conn \/ (conn' = opened + 1 /\ opened' = opened + 1)
        BY DEF Grant, Opener
    <2>2. \A c \in 1..opened' : Doomed(c)' => Doomed(c) /\ c \in 1..opened /\ c # conn'
        BY <1>0, <1>1, <2>1 DEF DetachInv, TypeOK, Doomed
    <2>3. QED
        BY <1>0, <1>1, <2>1, <2>2 DEF DetachInv, TypeOK
<1>5. RetryInv'
    BY <1>0 DEF RetryInv, TypeOK, Grant, Goto
<1>6. QED
    BY <1>2, <1>3, <1>4, <1>5 DEF Inv

\* The end of a call returns exactly its own lease.
LEMMA LeaveInv ==
    ASSUME Inv, NEW t \in Thread, Leave(t)
    PROVE  Inv'
<1>0. TypeOK /\ LeaseInv /\ DetachInv /\ RetryInv
    BY DEF Inv
<1>1. refs' = Cardinality(Holders') /\ refs' \in Nat
    <2>1. Holders' = Holders \ {t} /\ t \in Holders /\ Holders \in SUBSET Thread
        BY <1>0 DEF Holders, TypeOK, LeaseInv, Leave
    <2>2. refs' = Cardinality(Holders')
        BY <1>0, <2>1, HoldersCount DEF LeaseInv, Holders, Leave
    <2>3. QED
        BY <2>1, <2>2, HoldersCount
<1>2. TypeOK' /\ LeaseInv'
    <2>1. TypeOK'
        BY <1>0, <1>1 DEF TypeOK, Leave, NotifyAll, PC, Op
    <2>2. LeaseInv'
        BY <1>0, <1>1 DEF LeaseInv, Holders, TypeOK, Leave, NotifyAll
    <2>3. QED
        BY <2>1, <2>2
<1>3. DetachInv'
    BY <1>0 DEF DetachInv, TypeOK, Leave, Doomed
<1>4. RetryInv'
    BY <1>0 DEF RetryInv, TypeOK, Leave, NotifyAll
<1>5. QED
    BY <1>1, <1>2, <1>3, <1>4 DEF Inv

\* A replacement detaches the old connection, for closing only while no lease
\* is counted.
LEMMA ReplaceInv ==
    ASSUME Inv, NEW t \in Thread, pc[t] \in {"reconnect", "draining"}, Replaced(t)
    PROVE  Inv'
<1>0. TypeOK /\ LeaseInv /\ DetachInv /\ RetryInv
    BY DEF Inv
<1>1. TypeOK'
    <2>1. pc' \in [Thread -> PC]
        BY <1>0 DEF TypeOK, Replaced, NotifyAll, PC
    <2>2. op' \in [Thread -> Op] /\ old' \in [Thread -> Nat]
        BY <1>0 DEF TypeOK, Replaced, Op
    <2>3. conn' \in Nat /\ opened' \in Nat /\ epoch' \in Nat
        BY <1>0 DEF TypeOK, Replaced, Opener
    <2>4. /\ UNCHANGED <<shut, refs, closed, closing, held, seen>>
          /\ reconnecting' \in BOOLEAN
        BY Zenon DEF Replaced
    <2>5. QED
        BY <1>0, <2>1, <2>2, <2>3, <2>4 DEF TypeOK
<1>2. LeaseInv'
    BY <1>0, SameLeases DEF Replaced, NotifyAll, TypeOK
<1>3. DetachInv'
    <2>1. /\ conn' = opened + 1 /\ opened' = opened + 1 /\ held' = held
          /\ shut' = shut /\ closing' = closing
          /\ old' = [old EXCEPT ![t] = IF refs > 0 THEN 0 ELSE conn]
        BY DEF Replaced, Opener
    <2>2. \A s \in Thread : held[s] <= opened /\ old[s] <= opened
        BY <1>0 DEF DetachInv
    <2>3. ~(refs > 0) => \A s \in Thread : held[s] = 0
        BY <1>0, NoLease DEF TypeOK
    <2>4. old'[t] # 0 => /\ old'[t] = conn /\ \A s \in Thread : held[s] = 0
        BY <1>0, <2>1, <2>3 DEF TypeOK
    <2>5. \A c \in 1..opened' : Doomed(c)' =>
              /\ c \in 1..opened
              /\ Doomed(c) \/ \A s \in Thread : held[s] = 0
        BY <1>0, <2>1, <2>4 DEF DetachInv, TypeOK, Doomed
    <2>6. QED
        BY <1>0, <1>1, <2>1, <2>2, <2>5 DEF DetachInv, TypeOK
<1>4. RetryInv'
    BY <1>0 DEF RetryInv, TypeOK, Replaced, NotifyAll
<1>5. QED
    BY <1>1, <1>2, <1>3, <1>4 DEF Inv

\* The steps that change neither a lease nor a connection.
Quiet(t) ==
    \/ Begin(t)
    \/ pc[t] \in {"reconnect", "draining"} /\ NotReplaced(t)
    \/ pc[t] = "reconnect" /\ Drain(t)
    \/ pc[t] = "reconnect" /\ TryAgain(t) /\ (closed \/ epoch # seen[t])
    \/ pc[t] \in {"lease", "woken"} /\ Await(t) /\ (pc[t] = "lease" => ~closed)
    \/ /\ pc[t] \in {"lease", "woken"}
       /\ Raise(t) /\ UNCHANGED <<manager, held, seen, old>>

\* Waiting, giving up and going back to the lease preserve Inv.
LEMMA QuietInv ==
    ASSUME Inv, NEW t \in Thread, Quiet(t)
    PROVE  Inv'
<1>0. TypeOK /\ LeaseInv /\ DetachInv /\ RetryInv
    BY DEF Inv
<1>1. /\ UNCHANGED <<conn, opened, shut, epoch, refs, closed, closing, held, seen, old>>
      /\ reconnecting' \in BOOLEAN
    BY <1>0 DEF TypeOK, Quiet, Begin, NotReplaced, Drain, TryAgain, Await
<1>2. pc' \in [Thread -> PC] /\ op' \in [Thread -> Op]
    BY <1>0 DEF TypeOK, Quiet, Begin, NotReplaced, Drain, TryAgain, Await, Raise,
                NotifyAll, Goto, PC, Op
<1>3. \A s \in Thread : pc'[s] = "run" <=> pc[s] = "run"
    BY <1>0 DEF TypeOK, Quiet, Begin, NotReplaced, Drain, TryAgain, Await, Raise,
                NotifyAll, Goto
<1>4. TypeOK'
    BY <1>0, <1>1, <1>2 DEF TypeOK
<1>5. LeaseInv'
    BY <1>0, <1>1, <1>3, SameLeases
<1>6. DetachInv'
    BY <1>0, <1>1 DEF DetachInv, Doomed
<1>7. RetryInv'
    BY <1>0 DEF TypeOK, RetryInv, Quiet, Begin, NotReplaced, Drain, TryAgain, Await,
                Raise, NotifyAll, Goto
<1>8. QED
    BY <1>4, <1>5, <1>6, <1>7 DEF Inv

\* What a reconnect closes was already out of reach.
LEMMA CloseOldInv ==
    ASSUME Inv, NEW t \in Thread, CloseOld(t)
    PROVE  Inv'
<1>0. TypeOK /\ LeaseInv /\ DetachInv /\ RetryInv
    BY DEF Inv
<1>1. TypeOK'
    BY <1>0 DEF TypeOK, CloseOld, Goto, PC
<1>2. LeaseInv'
    BY <1>0, SameLeases DEF TypeOK, CloseOld, Goto
<1>3. DetachInv'
    <2>1. \A c \in 1..opened : Doomed(c)' => Doomed(c)
        BY <1>0 DEF TypeOK, CloseOld, Doomed
    <2>2. UNCHANGED <<conn, opened, closing, held>>
        BY DEF CloseOld
    <2>3. shut' \subseteq 0..opened
        <3>1. old[t] \in 0..opened /\ shut \subseteq 0..opened
            BY <1>0 DEF TypeOK, DetachInv
        <3>2. QED
            BY <3>1 DEF CloseOld
    <2>4. \A s \in Thread : old'[s] <= opened
        BY <1>0 DEF TypeOK, CloseOld, DetachInv
    <2>5. QED
        BY <1>0, <2>1, <2>2, <2>3, <2>4 DEF DetachInv
<1>4. RetryInv'
    BY <1>0 DEF TypeOK, RetryInv, CloseOld, Goto
<1>5. QED
    BY <1>1, <1>2, <1>3, <1>4 DEF Inv

\* Every step preserves Inv, whichever thread takes it.
LEMMA NextInv == Inv /\ [Next]_vars => Inv'
<1>1. ASSUME Inv, UNCHANGED vars
      PROVE  Inv'
    BY <1>1 DEF Inv, vars, TypeOK, LeaseInv, DetachInv, RetryInv,
                   Doomed
<1>2. ASSUME Inv, Open \/ Close \/ CloseDetached
      PROVE  Inv'
    <2>0. TypeOK /\ LeaseInv /\ DetachInv /\ RetryInv
        BY <1>2 DEF Inv
    <2>1. TypeOK'
        <3>1. CASE Open
            BY <2>0, <3>1 DEF TypeOK, Open, Opener
        <3>2. CASE Close \/ CloseDetached
            <4>1. closed' \in BOOLEAN /\ reconnecting' \in BOOLEAN
                BY <2>0, <3>2, Zenon DEF TypeOK, Close, CloseDetached
            <4>2. conn' \in Nat /\ closing' \in Nat /\ shut' \in SUBSET Nat
                <5>1. CASE Close
                    BY <2>0, <5>1 DEF TypeOK, Close
                <5>2. CASE CloseDetached
                    BY <2>0, <5>2 DEF TypeOK, CloseDetached
                <5>3. QED
                    BY <3>2, <5>1, <5>2
            <4>3. UNCHANGED <<opened, epoch, refs, threads>>
                BY <3>2 DEF Close, CloseDetached
            <4>4. QED
                BY <2>0, <4>1, <4>2, <4>3 DEF TypeOK
        <3>3. QED
            BY <1>2, <3>1, <3>2
    <2>2. LeaseInv'
        BY <1>2, <2>0, SameLeases DEF Open, Close, CloseDetached
    <2>3. DetachInv'
        <3>1. CASE Open
            BY <2>0, <3>1 DEF DetachInv, TypeOK, Doomed, Open, Opener
        <3>2. CASE Close
            BY <2>0, <3>2, NoLease DEF DetachInv, TypeOK, Doomed, Close
        <3>3. CASE CloseDetached
            BY <2>0, <3>3 DEF DetachInv, TypeOK, Doomed, CloseDetached
        <3>4. QED
            BY <1>2, <3>1, <3>2, <3>3
    <2>4. RetryInv'
        BY <1>2, <2>0 DEF TypeOK, RetryInv, Open, Close, CloseDetached
    <2>5. QED
        BY <2>1, <2>2, <2>3, <2>4 DEF Inv
<1>3. ASSUME Inv, NEW t \in Thread, Begin(t) \/ Leave(t) \/ Step(t)
      PROVE  Inv'
    <2>1. CASE pc[t] \in {"lease", "woken"} /\ Grant(t) /\ (pc[t] = "lease" => ~closed)
        BY <1>3, <2>1, GrantInv
    <2>2. CASE Replaced(t) /\ (Reconnect(t) \/ Drained(t))
        BY <1>3, <2>2, ReplaceInv DEF Reconnect, Drained
    <2>3. CASE Leave(t) \/ CloseOld(t) \/ Quiet(t)
        BY <1>3, <2>3, LeaveInv, CloseOldInv, QuietInv
    <2>4. Lease(t) \/ Wake(t) =>
              \/ Quiet(t)
              \/ pc[t] \in {"lease", "woken"} /\ Grant(t) /\ (pc[t] = "lease" => ~closed)
        BY DEF Lease, Wake, Unopened, Quiet
    <2>5. Reconnect(t) \/ Drained(t) => Quiet(t) \/ Replaced(t)
        BY DEF Reconnect, Drained, Quiet
    <2>6. QED
        BY <1>3, <2>1, <2>2, <2>3, <2>4, <2>5 DEF Step, Quiet
<1>4. QED
    BY <1>1, <1>2, <1>3 DEF Next

\* Inv holds in every reachable state.
THEOREM Invariance == Spec => []Inv
BY InitInv, NextInv, PTL DEF Spec

\* TypeOK: what the mutex guards is always of its type, and the count of leases
\* is that of the threads that hold one.
THEOREM TypeCorrect == Spec => []TypeOK
    BY Invariance, PTL DEF Inv

\* NeverCloseLeased: whatever is closed was detached while no lease was counted,
\* and no later lease can be on it.
THEOREM LeasedIsNeverClosed == Spec => []NeverCloseLeased
<1>1. Inv => NeverCloseLeased
    BY DEF Inv, NeverCloseLeased, LeaseInv, DetachInv, TypeOK, Doomed
<1>2. QED
    BY <1>1, Invariance, PTL

\* RetryIsFresh: a read repeats only on a later connection than it started on.
THEOREM RetriesAreFresh == Spec => RetryIsFresh
<1>1. ASSUME Inv, Next, NEW t \in Thread,
             op[t] = "retry", pc[t] # "run", pc'[t] = "run"
      PROVE  epoch > seen[t]
    <2>0. TypeOK /\ RetryInv
        BY <1>1 DEF Inv
    <2>1. pc[t] = "lease" => ~closed
        BY <1>1, <2>0
        DEF TypeOK, Next, Open, Close, CloseDetached, Begin, Leave, Step, Lease, Wake,
            Grant, Unopened, Await, Raise, Reconnect, TryAgain, Drain, Replaced,
            NotReplaced, Drained, CloseOld, NotifyAll, Goto
    <2>2. QED
        BY <1>1, <2>0, <2>1 DEF RetryInv, TypeOK
<1>2. Inv /\ [Next]_vars =>
          [\A t \in Thread :
              op[t] = "retry" /\ pc[t] # "run" /\ pc'[t] = "run" => epoch > seen[t]]_vars
    BY <1>1
<1>3. QED
    BY <1>2, Invariance, PTL DEF Spec, RetryIsFresh
-----------------------------------------------------------------------------
(***************************************************************************)
(* ConnectionManager implements LeasedConnection.                          *)
(***************************************************************************)
\* Nobody starts or stops closing, and no connection changes hands.
Idles ==
    /\ UNCHANGED <<conn, opened, shut, closing, held, old>>
    /\ \A t \in Thread : pc'[t] = "closing" <=> pc[t] = "closing"

\* What a step of a thread does to the connections.
LEMMA ThreadSteps ==
    ASSUME TypeOK, NEW t \in Thread, Begin(t) \/ Leave(t) \/ Step(t)
    PROVE  \/ pc[t] \in {"lease", "woken"} /\ Grant(t)
           \/ Leave(t)
           \/ pc[t] \in {"reconnect", "draining"} /\ Replaced(t)
           \/ CloseOld(t)
           \/ Idles
<1>1. pc \in [Thread -> PC]
    BY DEF TypeOK
<1>2. CASE Begin(t)
    BY <1>1, <1>2 DEF Begin, Goto, Idles
<1>3. CASE Lease(t) \/ Wake(t)
    BY <1>1, <1>3 DEF Lease, Wake, Unopened, Await, Raise, Goto, Idles
<1>4. CASE Reconnect(t) \/ Drained(t)
    BY <1>1, <1>4 DEF Reconnect, Drained, NotReplaced, Drain, TryAgain, NotifyAll, Goto,
                      Idles
<1>5. QED
    BY <1>2, <1>3, <1>4 DEF Step

\* A connection that is detached was the current one, and so not yet doomed.
LEMMA OnceStep ==
    ASSUME Inv, OnceInv, Next
    PROVE  OnceInv'
<1>0. TypeOK /\ DetachInv
    BY DEF Inv
<1>1. conn # 0 => conn \notin shut \cup {closing} /\ \A t \in Thread : old[t] # conn
    BY <1>0 DEF TypeOK, DetachInv, Doomed
<1>2. CASE Open \/ Close \/ CloseDetached
    BY <1>0, <1>1, <1>2 DEF OnceInv, TypeOK, Open, Close, CloseDetached
<1>3. ASSUME NEW t \in Thread, Begin(t) \/ Leave(t) \/ Step(t)
      PROVE  OnceInv'
    <2>1. CASE pc[t] \in {"lease", "woken"} /\ Grant(t)
        BY <1>0, <2>1 DEF OnceInv, TypeOK, Grant, Goto
    <2>2. CASE Leave(t)
        BY <1>0, <2>2 DEF OnceInv, TypeOK, Leave, NotifyAll
    <2>3. CASE pc[t] \in {"reconnect", "draining"} /\ Replaced(t)
        BY <1>0, <1>1, <2>3 DEF OnceInv, TypeOK, Replaced, NotifyAll
    <2>4. CASE CloseOld(t)
        BY <1>0, <2>4 DEF OnceInv, TypeOK, CloseOld, Goto
    <2>5. CASE Idles
        BY <1>0, <2>5 DEF OnceInv, TypeOK, Idles
    <2>6. QED
        BY <1>0, <1>3, <2>1, <2>2, <2>3, <2>4, <2>5, ThreadSteps
<1>4. QED
    BY <1>2, <1>3 DEF Next

\* What is detached is closed once.
LEMMA OnceAlways == Spec => []OnceInv
<1>1. Init => OnceInv
    BY DEF Init, OnceInv
<1>2. Inv /\ OnceInv /\ [Next]_vars => OnceInv'
    BY OnceStep DEF vars, OnceInv
<1>3. QED
    BY <1>1, <1>2, Invariance, PTL DEF Spec

\* Every step is one of LeasedConnection, or changes nothing it sees.
LEMMA LeasesStep ==
    ASSUME Inv, OnceInv, Next
    PROVE  [Leases!Next]_(Leases!connections)
<1>0. TypeOK /\ LeaseInv /\ DetachInv
    BY DEF Inv
<1>1. ASSUME NEW c \in Nat, c # 0, Doomed(c), c \notin shut,
             shut' = shut \cup {c}, UNCHANGED <<conn, opened, held>>
      PROVE  Leases!Next
    <2>1. c \in 1..opened
        BY <1>0, <1>1 DEF TypeOK, DetachInv, Doomed
    <2>2. Leases!Close(c)
        BY <1>0, <1>1, <2>1 DEF DetachInv, Leases!Close
    <2>3. QED
        BY <2>1, <2>2 DEF Leases!Next
<1>2. CASE Open
    BY <1>2 DEF Open, Opener, Leases!Next, Leases!Replace, Leases!Fresh
<1>3. CASE Close
    BY <1>3 DEF Close, Leases!Next, Leases!Withdraw, Leases!connections
<1>4. CASE CloseDetached
    BY <1>0, <1>1, <1>4 DEF CloseDetached, OnceInv, TypeOK, Doomed
<1>5. ASSUME NEW t \in Thread, Begin(t) \/ Leave(t) \/ Step(t)
      PROVE  [Leases!Next]_(Leases!connections)
    <2>1. CASE pc[t] \in {"lease", "woken"} /\ Grant(t)
        <3>1. held[t] = 0
            BY <1>0, <2>1 DEF LeaseInv, TypeOK
        <3>2. Leases!Take(t)
            BY <2>1, <3>1 DEF Grant, Opener, Leases!Take, Leases!Fresh
        <3>3. QED
            BY <3>2 DEF Leases!Next
    <2>2. CASE Leave(t)
        <3>1. Leases!Return(t)
            BY <2>2 DEF Leave, Leases!Return
        <3>2. QED
            BY <3>1 DEF Leases!Next
    <2>3. CASE Replaced(t)
        BY <2>3 DEF Replaced, Opener, Leases!Next, Leases!Replace, Leases!Fresh
    <2>4. CASE CloseOld(t)
        <3>1. old[t] \in Nat /\ old[t] # 0 /\ old[t] \notin shut /\ Doomed(old[t])
            BY <1>0, <2>4 DEF CloseOld, OnceInv, TypeOK, Doomed
        <3>2. QED
            BY <1>1, <2>4, <3>1 DEF CloseOld
    <2>5. CASE Idles
        BY <2>5 DEF Idles, Leases!connections
    <2>6. QED
        BY <1>0, <1>5, <2>1, <2>2, <2>3, <2>4, <2>5, ThreadSteps
<1>6. QED
    BY <1>2, <1>3, <1>4, <1>5 DEF Next

\* LeasesSpec: the mutex, the epochs and the count of leases keep the promises of
\* LeasedConnection; no connection is closed twice, by reconnects and shutdown
\* together.
THEOREM ImplementsLeases == Spec => LeasesSpec
<1>1. Init => Leases!Init
    BY DEF Init, Leases!Init
<1>2. Inv /\ OnceInv /\ [Next]_vars => [Leases!Next]_(Leases!connections)
    BY LeasesStep DEF vars, Leases!connections
<1>3. QED
    BY <1>1, <1>2, OnceAlways, Invariance, PTL DEF Spec, LeasesSpec, Leases!Spec
-----------------------------------------------------------------------------
(***************************************************************************)
(* No wakeup is lost.                                                      *)
(***************************************************************************)
\* Whoever ends a reconnect wakes everybody that waits for one.
LEMMA WakeStep ==
    ASSUME Inv, WakeInv, Next
    PROVE  WakeInv'
<1>0. pc \in [Thread -> PC]
    BY DEF Inv, TypeOK
<1>1. CASE Open \/ Close \/ CloseDetached
    BY <1>1 DEF WakeInv, Open, Close, CloseDetached
<1>2. ASSUME NEW t \in Thread, Begin(t) \/ Leave(t)
      PROVE  WakeInv'
    BY <1>0, <1>2 DEF WakeInv, Begin, Leave, NotifyAll, Goto
<1>3. ASSUME NEW t \in Thread, Lease(t) \/ Wake(t)
      PROVE  WakeInv'
    BY <1>0, <1>3 DEF WakeInv, Lease, Wake, Grant, Unopened, Await, Raise, Goto
<1>4. ASSUME NEW t \in Thread, Reconnect(t) \/ Drained(t)
      PROVE  WakeInv'
    <2>1. CASE Replaced(t) \/ NotReplaced(t)
        BY <1>0, <2>1 DEF WakeInv, Replaced, NotReplaced, NotifyAll
    <2>2. CASE pc[t] = "reconnect" /\ (Drain(t) \/ TryAgain(t))
        BY <1>0, <2>2 DEF WakeInv, Drain, TryAgain, Goto
    <2>3. QED
        BY <1>4, <2>1, <2>2 DEF Reconnect, Drained
<1>5. ASSUME NEW t \in Thread, CloseOld(t)
      PROVE  WakeInv'
    BY <1>0, <1>5 DEF WakeInv, CloseOld, Goto
<1>6. QED
    BY <1>1, <1>2, <1>3, <1>4, <1>5 DEF Next, Step

\* What is safe about LeaseIsDecided: a thread that waits for a reconnect waits
\* for one that is under way, and whose end, by a notification, a timeout or the
\* opener's answer, wakes it.
THEOREM NoLostWakeup == Spec => []WakeInv
<1>1. Init => WakeInv
    BY DEF Init, WakeInv
<1>2. Inv /\ WakeInv /\ [Next]_vars => WakeInv'
    BY WakeStep DEF vars, WakeInv
<1>3. QED
    BY <1>1, <1>2, Invariance, PTL DEF Spec
-----------------------------------------------------------------------------
(***************************************************************************)
(* The connection in the application.                                      *)
(***************************************************************************)
\* After close nobody gets past its lease.
LEMMA ClosedStep ==
    ASSUME Inv, ClosedForGood, Next, Orderly
    PROVE  ClosedForGood'
<1>0. TypeOK /\ LeaseInv
    BY DEF Inv
<1>1. CASE Close
    <2>1. \A t \in Thread : pc[t] = "idle" /\ held[t] = 0
        BY <1>0, <1>1 DEF Close, Orderly, LeaseInv, TypeOK
    <2>2. refs = 0
        <3>1. {t \in Thread : held[t] # 0} = {}
            BY <2>1
        <3>2. QED
            BY <1>0, <3>1, FS_EmptySet DEF LeaseInv
    <2>3. QED
        BY <1>1, <2>1, <2>2 DEF Close, ClosedForGood
<1>2. CASE Open \/ CloseDetached
    BY <1>2 DEF ClosedForGood, Open, CloseDetached
<1>3. ASSUME NEW t \in Thread, Begin(t) \/ Leave(t)
      PROVE  ClosedForGood'
    BY <1>0, <1>3 DEF ClosedForGood, Begin, Leave, NotifyAll, Goto, TypeOK
<1>4. ASSUME NEW t \in Thread, Lease(t)
      PROVE  ClosedForGood'
    BY <1>0, <1>4
    DEF ClosedForGood, Lease, Grant, Unopened, Opener, Await, Raise, Goto, TypeOK
<1>5. ASSUME NEW t \in Thread, Wake(t) \/ Reconnect(t) \/ Drained(t) \/ CloseOld(t)
      PROVE  ClosedForGood'
    <2>1. ~closed /\ closed' = closed
        BY <1>5 DEF ClosedForGood, Wake, Reconnect, Drained, CloseOld, Grant, Unopened,
            Await, Replaced, NotReplaced, Drain, TryAgain, manager
    <2>2. QED
        BY <2>1 DEF ClosedForGood
<1>6. QED
    BY <1>1, <1>2, <1>3, <1>4, <1>5 DEF Next, Step

\* ClosedForGood: with the threads drained as AppState.shutdown drains them, close
\* is the end of it, though lease compares _closed before its wait only.
THEOREM NoLeaseAfterClose == OrderlySpec => []ClosedForGood
<1>1. Init => ClosedForGood
    BY DEF Init, ClosedForGood
<1>2. Init => Inv
    BY InitInv
<1>3. Inv /\ ClosedForGood /\ [Next /\ Orderly]_vars => Inv' /\ ClosedForGood'
    <2>1. CASE UNCHANGED vars
        BY <2>1, NextInv DEF ClosedForGood, vars, manager, threads
    <2>2. QED
        BY <2>1, NextInv, ClosedStep
<1>4. QED
    BY <1>1, <1>2, <1>3, PTL DEF OrderlySpec
=============================================================================
