----------------------------- MODULE NodeLedger -----------------------------
(***************************************************************************)
(* What the dashboard promises of a node, whatever fails: its durable      *)
(* state only moves forward, its volumes exist only between the domain     *)
(* that claims them and its removal, it is powered on only on both of its  *)
(* volumes, and a UUID lives once.  NodeManager implements it              *)
(* (NodeManager!LedgerSpec); nothing here knows of locks, snapshots, lost  *)
(* replies or crashes.                                                     *)
(***************************************************************************)
EXTENDS NodeMeta, TLAPS

CONSTANTS Node

VARIABLES status, generation, disks, power

ledger == <<status, generation, disks, power>>

Disk == {"overlay", "seed"}

Init ==
    /\ status = [u \in Node |-> "absent"]
    /\ generation = [u \in Node |-> 0]
    /\ disks = [u \in Node |-> {}]
    /\ power = {}

Claim(u) ==
    /\ status[u] = "absent"
    /\ status' = [status EXCEPT ![u] = "creating"]
    /\ generation' = [generation EXCEPT ![u] = 1]
    /\ UNCHANGED <<disks, power>>

Allocate(u, d) ==
    /\ status[u] = "creating"
    /\ disks' = [disks EXCEPT ![u] = @ \cup {d}]
    /\ UNCHANGED <<status, generation, power>>

Commit(u) ==
    /\ status[u] = "creating" /\ disks[u] = Disk
    /\ status' = [status EXCEPT ![u] = "booting"]
    /\ UNCHANGED <<generation, disks, power>>

\* Provisioning may fail and recover; a success is never taken back.
Learn(u, state) ==
    /\ status[u] \in {"booting", "configuring", "failed"}
    /\ state \in {"configuring", "configured", "failed"}
    /\ status' = [status EXCEPT ![u] = state]
    /\ UNCHANGED <<generation, disks, power>>

Condemn(u) ==
    /\ status[u] \in State \ {"deleting"}
    /\ status' = [status EXCEPT ![u] = "deleting"]
    /\ generation' = [generation EXCEPT ![u] = @ + 1]
    /\ UNCHANGED <<disks, power>>

\* No volume is taken from a running guest, and no guest is forgotten.
Free(u, d) ==
    /\ status[u] = "deleting" /\ u \notin power
    /\ disks' = [disks EXCEPT ![u] = @ \ {d}]
    /\ UNCHANGED <<status, generation, power>>

Vanish(u) ==
    /\ status[u] = "deleting" /\ disks[u] = {} /\ u \notin power
    /\ status' = [status EXCEPT ![u] = "gone"]
    /\ generation' = [generation EXCEPT ![u] = 0]
    /\ UNCHANGED <<disks, power>>

Start(u) ==
    /\ status[u] \in State \ Incomplete /\ disks[u] = Disk
    /\ power' = power \cup {u}
    /\ UNCHANGED <<status, generation, disks>>

Stop(u) ==
    /\ power' = power \ {u}
    /\ UNCHANGED <<status, generation, disks>>

Next ==
    \E u \in Node :
        \/ Claim(u) \/ Commit(u) \/ Condemn(u) \/ Vanish(u)
        \/ Start(u) \/ Stop(u)
        \/ \E state \in State : Learn(u, state)
        \/ \E d \in Disk : Allocate(u, d) \/ Free(u, d)

Spec == Init /\ [][Next]_ledger
-----------------------------------------------------------------------------
(***************************************************************************)
(* What a listing shows of it.                                             *)
(***************************************************************************)
Shown(u) ==
    IF status[u] \in {"absent", "deleting", "gone"} THEN status[u]
    ELSE IF u \in power THEN "running" ELSE "off"

Lives == INSTANCE NodeLife WITH life <- [u \in Node |-> Shown(u)]

LifeSpec == Lives!Spec
-----------------------------------------------------------------------------
\* What is powered on has been launched, and has both volumes.
Inv ==
    /\ status \in [Node -> State \cup {"absent", "gone"}]
    /\ disks \in [Node -> SUBSET Disk]
    /\ power \subseteq Node
    /\ \A u \in power : status[u] \in State \ {"creating"} /\ disks[u] = Disk

\* It holds in every reachable state.
LEMMA LedgerInv == Spec => []Inv
<1>1. Init => Inv
    BY DEF Init, Inv
<1>2. Inv /\ [Next]_ledger => Inv'
    BY DEF Inv, Next, ledger, State, Incomplete, Claim, Allocate, Commit, Learn, Condemn,
           Free, Vanish, Start, Stop
<1>3. QED
    BY <1>1, <1>2, PTL DEF Spec

\* Every step rewrites the line of one node in the listing, as its life goes.
LEMMA ShownStep ==
    ASSUME Inv, Next
    PROVE  [Lives!Next]_([u \in Node |-> Shown(u)])
<1> DEFINE shown == [u \in Node |-> Shown(u)]
           Line(u, l) == shown' = [shown EXCEPT ![u] = l] /\ l \in Lives!After(shown[u])
<1> USE DEF Inv, State, Incomplete, Shown, Lives!After
<1>1. ASSUME NEW u \in Node, \E l : Line(u, l)
      PROVE  [Lives!Next]_shown
    BY <1>1 DEF Lives!Next
<1>2. ASSUME NEW u \in Node, Claim(u)
      PROVE  Line(u, "off")
    BY <1>2 DEF Claim
<1>3. ASSUME NEW u \in Node, Condemn(u)
      PROVE  Line(u, "deleting")
    BY <1>3 DEF Condemn
<1>4. ASSUME NEW u \in Node, Vanish(u)
      PROVE  Line(u, "gone")
    BY <1>4 DEF Vanish
<1>5. ASSUME NEW u \in Node, Start(u)
      PROVE  shown' = shown \/ Line(u, "running")
    BY <1>5 DEF Start
<1>6. ASSUME NEW u \in Node, Stop(u)
      PROVE  shown' = shown \/ Line(u, "off")
    BY <1>6 DEF Stop
<1>7. ASSUME NEW u \in Node, NEW state \in State, Commit(u) \/ Learn(u, state)
      PROVE  shown' = shown
    BY <1>7 DEF Commit, Learn
<1>8. ASSUME NEW u \in Node, NEW d \in Disk, Allocate(u, d) \/ Free(u, d)
      PROVE  shown' = shown
    BY <1>8 DEF Allocate, Free
<1> HIDE DEF shown, Line
<1>9. PICK u \in Node :
          \/ Claim(u) \/ Commit(u) \/ Condemn(u) \/ Vanish(u) \/ Start(u) \/ Stop(u)
          \/ \E state \in State : Learn(u, state)
          \/ \E d \in Disk : Allocate(u, d) \/ Free(u, d)
    BY DEF Next
<1>10. shown' = shown \/ \E l : Line(u, l)
    <2>1. CASE Commit(u)
        BY <1>7, <2>1 DEF State
    <2>2. CASE \E state \in State : Learn(u, state)
        BY <1>7, <2>2
    <2>3. CASE \E d \in Disk : Allocate(u, d) \/ Free(u, d)
        BY <1>8, <2>3
    <2>4. QED
        BY <1>2, <1>3, <1>4, <1>5, <1>6, <1>9, <2>1, <2>2, <2>3
<1>11. QED
    BY <1>1, <1>10 DEF shown

\* LifeSpec: what a listing shows of a node is the life Observer assumes of it.
THEOREM LedgerLives == Spec => LifeSpec
<1>1. Init => Lives!Init
    BY DEF Init, Lives!Init, Shown
<1>2. Inv /\ [Next]_ledger => [Lives!Next]_([u \in Node |-> Shown(u)])
    BY ShownStep DEF ledger, Shown
<1>3. QED
    BY <1>1, <1>2, LedgerInv, PTL DEF Spec, LifeSpec, Lives!Spec
=============================================================================
