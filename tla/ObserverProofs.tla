--------------------------- MODULE ObserverProofs ---------------------------
(***************************************************************************)
(* Proofs about Observer, for any nodes, pids, bounds and times.           *)
(***************************************************************************)
EXTENDS Observer, FiniteSetTheorems, WellFoundedInduction, TLAPS

USE DEF nodes, pass, observer, Outcome

\* Ages in order stay in order, up to the bound.
LEMMA AgedFacts ==
    ASSUME NEW a \in Age, NEW b \in Age
    PROVE  /\ Aged(a) \in Age /\ a <= Aged(a)
           /\ a <= b => Aged(a) <= Aged(b)
           /\ a < Lifetime => Aged(a) <= Lifetime
BY ObserverAssumption DEF Age, Aged

\* A cursor into a listing that is not empty is a number.
LEMMA IndexFacts ==
    ASSUME NEW S \in SUBSET Node, S # {}, NEW i \in Nat
    PROVE  i % Cardinality(S) \in Nat
<1>1. IsFiniteSet(S)
    BY ObserverAssumption, FS_Subset
<1>2. Cardinality(S) \in Nat /\ Cardinality(S) # 0
    BY <1>1, FS_CardinalityType, FS_EmptySet
<1>3. QED
    BY <1>2

\* A rank is a number.
LEMMA RankFacts ==
    ASSUME listed \in SUBSET Node, NEW u \in Node
    PROVE  Rank(u) \in Nat
<1>1. IsFiniteSet({v \in listed : v < u})
    BY ObserverAssumption, FS_Subset
<1>2. QED
    BY <1>1, FS_CardinalityType DEF Rank

\* Nobody was asked, nothing runs.
LEMMA InitInv == Init => Inv
<1>1. Init => TypeOK
    <2>1. Init => late \in BOOLEAN
        BY Zenon DEF Init
    <2>2. QED
        BY <2>1, ObserverAssumption DEF Init, Nodes!Init, TypeOK, Nodes!Life, Age
<1>2. Init => FitInv /\ CallInv /\ JobInv /\ OneCommand
    BY DEF Init, FitInv, CallInv, JobInv, OneCommand
<1>3. QED
    BY <1>1, <1>2 DEF Inv

\* A pass starts after the wait, when no hidden command is left to wait for.
LEMMA PassInv ==
    ASSUME Inv, Pass
    PROVE  Inv'
<1>0. TypeOK /\ FitInv /\ CallInv /\ JobInv /\ OneCommand
    BY DEF Inv
<1>1. TypeOK'
    <2>1. Live \in SUBSET Node
        BY DEF Live
    <2>2. offset' \in Nat
        BY <1>0, <2>1, IndexFacts DEF TypeOK, Pass
    <2>3. late' \in BOOLEAN
        BY <1>0, Zenon DEF TypeOK, Pass
    <2>4. pending' \in [Node -> Probe \cup {None}] /\ obs' \in [Node -> Observation \cup {None}]
        BY <1>0 DEF TypeOK, Pass
    <2>5. QED
        BY <1>0, <2>1, <2>2, <2>3, <2>4, ObserverAssumption DEF TypeOK, Pass
<1>2. \A j \in jobs : pending'[j.node] = pending[j.node]
    BY <1>0 DEF TypeOK, Job, JobInv, On, Live, Pass, Nodes!Life
<1>3. FitInv'
    BY <1>0, <1>2 DEF TypeOK, FitInv, Pass, Job, On
<1>4. JobInv'
    BY <1>0, <1>2 DEF TypeOK, JobInv, Pass, Accounted, On
<1>5. CallInv' /\ OneCommand'
    BY <1>0 DEF CallInv, OneCommand, Pass
<1>6. QED
    BY <1>1, <1>3, <1>4, <1>5 DEF Inv

\* The end of a pass, and the nodes of it that are not asked.
LEMMA ScanInv ==
    ASSUME Inv, EndPass \/ \E u \in todo : Unprobed(u) \/ PassedOver(u)
    PROVE  Inv'
<1>0. TypeOK /\ FitInv /\ CallInv /\ JobInv /\ OneCommand
    BY DEF Inv
<1>1. CASE EndPass
    <2>1. TypeOK'
        <3>1. late' \in BOOLEAN
            BY <1>0, <1>1, Zenon DEF TypeOK, EndPass
        <3>2. QED
            BY <1>0, <1>1, <3>1, ObserverAssumption DEF TypeOK, EndPass
    <2>2. FitInv' /\ CallInv' /\ OneCommand'
        BY <1>0, <1>1 DEF FitInv, CallInv, OneCommand, EndPass, On
    <2>3. JobInv'
        BY <1>0, <1>1, ObserverAssumption DEF JobInv, Accounted, EndPass, On
    <2>4. QED
        BY <2>1, <2>2, <2>3 DEF Inv
<1>2. ASSUME NEW u \in todo, Unprobed(u) \/ PassedOver(u)
      PROVE  Inv'
    <2>1. TypeOK'
        <3>1. late' \in BOOLEAN
            BY <1>0, <1>2, Zenon DEF TypeOK, Unprobed, PassedOver
        <3>2. obs' \in [Node -> Observation \cup {None}]
            <4>1. Blank \in Observation
                BY ObserverAssumption DEF Blank, Observation, Age
            <4>2. QED
                BY <1>0, <1>2, <4>1 DEF TypeOK, Unprobed, PassedOver, Forget
        <3>3. QED
            BY <1>0, <1>2, <3>1, <3>2 DEF TypeOK, Unprobed, PassedOver, Visited
    <2>2. FitInv'
        BY <1>0, <1>2 DEF TypeOK, FitInv, Unprobed, PassedOver, Forget, Blank, On
    <2>3. JobInv'
        BY <1>0, <1>2 DEF TypeOK, JobInv, Accounted, Unprobed, PassedOver, Visited, On
    <2>4. CallInv' /\ OneCommand'
        BY <1>0, <1>2 DEF CallInv, OneCommand, Unprobed, PassedOver, Visited
    <2>5. QED
        BY <2>1, <2>2, <2>3, <2>4 DEF Inv
<1>3. QED
    BY <1>1, <1>2

\* Before an agent call: a launch finds no command running.
LEMMA CallsInv ==
    ASSUME Inv, NEW u \in todo, Launching(u) \/ WaitOut(u) \/ Polling(u)
    PROVE  Inv'
<1>0. TypeOK /\ FitInv /\ CallInv /\ JobInv /\ OneCommand
    BY DEF Inv
<1>1. /\ pc = "scan" /\ calls' = calls + 1 /\ calls < MaxCalls
      /\ cursor' = (Rank(u) + 1) % Cardinality(listed)
      /\ UNCHANGED <<nodes, rest, listed, eligible, offset, obs>>
      /\ u \in Node /\ u \in listed
    BY <1>0 DEF Launching, WaitOut, Polling, Call, TypeOK
<1>2. TypeOK'
    <2>1. late' \in BOOLEAN
        <3>1. CASE UNCHANGED late
            BY <1>0, <3>1, Zenon DEF TypeOK
        <3>2. CASE late' = (pending[u].age >= Lifetime + Timeout)
            <4>1. (pending[u].age >= Lifetime + Timeout) \in BOOLEAN
                OBVIOUS
            <4>2. QED
                BY <3>2, <4>1, Zenon
        <3>3. QED
            BY <3>1, <3>2, Zenon DEF Launching, WaitOut, Polling
    <2>2. cursor' \in Nat
        BY <1>0, <1>1, RankFacts, IndexFacts DEF TypeOK
    <2>3. pending' \in [Node -> Probe \cup {None}]
        BY <1>0, <1>1, ObserverAssumption
        DEF TypeOK, Launching, WaitOut, Polling, Probe, Age
    <2>4. pc' \in {"scan", "start", "poll"} /\ todo' \in SUBSET todo
          /\ cur' \in Node \cup {None}
        BY <1>1 DEF Launching, WaitOut, Polling, Visited
    <2>5. calls' \in 0..MaxCalls
        BY <1>0, <1>1, ObserverAssumption DEF TypeOK
    <2>6. QED
        BY <1>0, <1>1, <2>1, <2>2, <2>3, <2>4, <2>5 DEF TypeOK
<1>3. \A v \in Node : v # u => pending'[v] = pending[v]
    BY <1>0 DEF TypeOK, Launching, WaitOut, Polling
<1>4. CASE Launching(u)
    <2>1. /\ pending[u] = None /\ pc' = "start" /\ cur' = u /\ todo' = todo
          /\ pending'[u] = [pid |-> 0, age |-> 0]
        BY <1>0, <1>1, <1>4 DEF TypeOK, Launching
    <2>2. \A j \in jobs : j.node = u => j.done
        BY <1>0, <1>1, <2>1 DEF JobInv, Accounted
    <2>3. CallInv'
        BY <1>1, <2>1, <2>2, ObserverAssumption DEF CallInv
    <2>4. FitInv'
        <3>1. \A j \in jobs : j.node \in Node /\ j.pid # 0
            BY <1>0, ObserverAssumption DEF TypeOK, Job
        <3>2. \A j \in jobs : j.node = u => pending'[j.node].pid # j.pid
            BY <2>1, <3>1
        <3>3. QED
            BY <1>0, <1>1, <1>3, <3>1, <3>2 DEF FitInv, On
    <2>5. JobInv'
        BY <1>0, <1>1, <1>3, <2>1, <2>2 DEF TypeOK, JobInv, Accounted, Job, On
    <2>6. QED
        BY <1>0, <1>1, <1>2, <2>3, <2>4, <2>5 DEF Inv, OneCommand
<1>5. CASE WaitOut(u)
    <2>1. /\ pending[u] # None /\ pending[u].pid = 0 /\ pc' = "scan"
          /\ todo' = todo \ {u} /\ pending[u].age \in Age
          /\ pending'[u] = IF pending[u].age >= Lifetime THEN None ELSE pending[u]
        BY <1>0, <1>1, <1>5 DEF TypeOK, WaitOut, Visited, Probe
    <2>2. CallInv'
        BY <2>1 DEF CallInv
    <2>3. FitInv'
        BY <1>0, <1>1, <1>3, <2>1 DEF TypeOK, FitInv, Job, On
    <2>4. ASSUME NEW j \in jobs, ~j.done
          PROVE  Accounted(j)'
        <3>1. j.age \in Age /\ j.age <= Lifetime /\ Accounted(j) /\ j.node \in Node
              /\ j.pid # 0
            BY <1>0, <2>4, ObserverAssumption DEF JobInv, TypeOK, Job
        <3>2. CASE j.node # u
            BY <1>1, <1>3, <2>1, <3>1, <3>2 DEF Accounted
        <3>3. CASE j.node = u
            BY <1>1, <2>1, <3>1, <3>3, ObserverAssumption DEF Accounted, Age
        <3>4. QED
            BY <3>2, <3>3
    <2>5. JobInv'
        BY <1>0, <1>1, <2>4 DEF JobInv, On
    <2>6. QED
        BY <1>0, <1>1, <1>2, <2>2, <2>3, <2>5 DEF Inv, OneCommand
<1>6. CASE Polling(u)
    <2>1. /\ pending[u] # None /\ pending[u].pid # 0 /\ pc' = "poll" /\ cur' = u
          /\ UNCHANGED <<todo, pending>>
        BY <1>6 DEF Polling
    <2>2. CallInv' /\ FitInv' /\ JobInv' /\ OneCommand'
        BY <1>0, <1>1, <2>1 DEF CallInv, FitInv, JobInv, OneCommand, Accounted, On
    <2>3. QED
        BY <1>2, <2>2 DEF Inv
<1>7. QED
    BY <1>4, <1>5, <1>6

\* guest-exec: afterwards at most its own command runs in the guest, known by
\* its pid or hidden from now on.
LEMMA StartInv ==
    ASSUME Inv, NEW u \in todo, Start(u)
    PROVE  Inv'
<1>0. TypeOK /\ FitInv /\ CallInv /\ JobInv /\ OneCommand
    BY DEF Inv
<1>1. /\ pc = "start" /\ u = cur /\ pc' = "scan" /\ todo' = todo \ {u} /\ cur' = None
      /\ UNCHANGED <<node, fit, lapse, rest, listed, eligible, offset, calls, cursor>>
      /\ u \in Node /\ pending[u] \in Probe /\ pending[u].pid = 0
      /\ \A j \in jobs : j.node = u => j.done
    BY <1>0 DEF Start, Visited, TypeOK, CallInv
<1>2. late' \in BOOLEAN
    BY <1>0, Zenon DEF TypeOK, Start
<1>3. CallInv'
    BY <1>1 DEF CallInv
<1>4. ASSUME NEW p \in Pid, Exec(u, p),
             NEW q \in Probe, pending' = [pending EXCEPT ![u] = q],
             q.pid = p \/ (q.pid = 0 /\ q.age = 0),
             obs' = obs \/ Forget(u)
      PROVE  Inv'
    <2> DEFINE n == [node |-> u, pid |-> p, age |-> 0, done |-> FALSE, out |-> "none"]
    <2>1. jobs' = jobs \cup {n} /\ On(u) /\ \A j \in jobs : j.node = u => j.pid # p
        BY <1>4 DEF Exec
    <2>2. n \in Job
        BY <1>1, ObserverAssumption DEF Job, Age
    <2>3. obs' \in [Node -> Observation \cup {None}]
        <3>1. Blank \in Observation
            BY ObserverAssumption DEF Blank, Observation, Age
        <3>2. QED
            BY <1>0, <1>4, <3>1 DEF TypeOK, Forget
    <2>4. pending' \in [Node -> Probe \cup {None}]
          /\ pending'[u] = q /\ q # None
          /\ \A v \in Node : v # u => pending'[v] = pending[v]
        BY <1>0, <1>1, <1>4, ObserverAssumption DEF TypeOK, Probe, Age
    <2>5. TypeOK'
        BY <1>0, <1>1, <1>2, <2>1, <2>2, <2>3, <2>4 DEF TypeOK
    <2>6. FitInv'
        <3>1. \A v \in Node : obs'[v] # None /\ obs'[v].fit
                  => obs'[v] = obs[v]
            BY <1>0, <1>4 DEF TypeOK, Forget, Blank
        <3>2. \A j \in jobs : j.node \in Node /\ j.pid # 0
            BY <1>0, ObserverAssumption DEF TypeOK, Job
        <3>3. \A j \in jobs' : j.out = "fit" => j \in jobs
            BY <2>1
        <3>4. \A j \in jobs : j.node = u => pending'[j.node].pid # j.pid
            BY <1>4, <2>1, <2>4, <3>2
        <3>5. QED
            BY <1>0, <1>1, <2>4, <3>1, <3>2, <3>3, <3>4 DEF FitInv, On
    <2>7. ASSUME NEW j \in jobs', ~j.done
          PROVE  Accounted(j)'
        <3>1. CASE j = n
            <4>1. j.node = u /\ j.pid = p /\ j.age = 0
                BY <3>1
            <4>2. pending'[j.node] = q
                BY <2>4, <4>1
            <4>3. CASE q.pid = p
                BY <2>4, <4>1, <4>2, <4>3 DEF Accounted
            <4>4. CASE q.pid = 0 /\ q.age = 0
                BY <2>4, <4>1, <4>2, <4>4 DEF Accounted
            <4>5. QED
                BY <1>4, <4>3, <4>4
        <3>2. CASE j # n
            <4>1. j \in jobs /\ j.node # u /\ j.node \in Node
                BY <1>0, <1>1, <2>1, <2>7, <3>2 DEF TypeOK, Job
            <4>2. Accounted(j)
                BY <1>0, <2>7, <4>1 DEF JobInv
            <4>3. QED
                BY <1>1, <2>4, <4>1, <4>2 DEF Accounted
        <3>3. QED
            BY <3>1, <3>2
    <2>8. JobInv'
        <3>1. n.node = u /\ n.pid = p /\ n.age = 0
            OBVIOUS
        <3>2. \A j \in jobs' : On(j.node)' /\ (~j.done => j.age <= Lifetime)
            BY <1>0, <1>1, <2>1, <3>1, ObserverAssumption DEF JobInv, On
        <3> HIDE DEF n
        <3>3. \A j, k \in jobs' : j.node = k.node /\ j.pid = k.pid => j = k
            BY <1>0, <2>1, <3>1 DEF JobInv
        <3>4. QED
            BY <2>7, <3>2, <3>3 DEF JobInv
    <2>9. OneCommand'
        <3>1. n.node = u
            OBVIOUS
        <3> HIDE DEF n
        <3>2. QED
            BY <1>0, <1>1, <2>1, <3>1 DEF OneCommand
    <2>10. QED
        BY <1>3, <2>5, <2>6, <2>8, <2>9 DEF Inv
<1>5. CASE Started(u)
    <2>1. PICK p \in Pid : /\ Exec(u, p) /\ obs' = obs
                           /\ pending' = [pending EXCEPT ![u].pid = p]
        BY <1>5 DEF Started
    <2> DEFINE q == [pending[u] EXCEPT !.pid = p]
    <2>2. q \in Probe /\ q.pid = p /\ pending' = [pending EXCEPT ![u] = q]
        BY <1>1, <2>1 DEF Probe
    <2>3. QED
        BY <1>4, <2>1, <2>2
<1>6. CASE NotStarted(u)
    <2> DEFINE q == [pid |-> 0, age |-> 0]
    <2>1. /\ q \in Probe /\ q.pid = 0 /\ q.age = 0
          /\ pending' = [pending EXCEPT ![u] = q] /\ Forget(u)
        BY <1>6, ObserverAssumption DEF NotStarted, Probe, Age
    <2>2. CASE \E p \in Pid : Exec(u, p)
        BY <1>4, <2>1, <2>2
    <2>3. CASE UNCHANGED jobs
        <3>1. pending' \in [Node -> Probe \cup {None}]
              /\ pending'[u] = q /\ q # None
              /\ \A v \in Node : v # u => pending'[v] = pending[v]
            BY <1>0, <1>1, <2>1, ObserverAssumption DEF TypeOK, Probe, Age
        <3>2. obs' \in [Node -> Observation \cup {None}]
            <4>1. Blank \in Observation
                BY ObserverAssumption DEF Blank, Observation, Age
            <4>2. QED
                BY <1>0, <2>1, <4>1 DEF TypeOK, Forget
        <3>3. TypeOK'
            BY <1>0, <1>1, <1>2, <2>3, <3>1, <3>2 DEF TypeOK
        <3>4. \A j \in jobs : j.node \in Node /\ j.pid # 0
            BY <1>0, ObserverAssumption DEF TypeOK, Job
        <3>5. FitInv'
            <4>1. \A v \in Node : obs'[v] # None /\ obs'[v].fit
                      => obs'[v] = obs[v]
                BY <1>0, <2>1 DEF TypeOK, Forget, Blank
            <4>2. \A j \in jobs : j.node = u => pending'[j.node].pid # j.pid
                BY <2>1, <3>1, <3>4
            <4>3. QED
                BY <1>0, <1>1, <2>3, <3>1, <3>4, <4>1, <4>2 DEF FitInv, On
        <3>6. JobInv'
            BY <1>0, <1>1, <2>3, <3>1, <3>4 DEF JobInv, Accounted, On
        <3>7. QED
            BY <1>0, <1>3, <2>3, <3>3, <3>5, <3>6 DEF Inv, OneCommand
    <2>4. QED
        BY <1>6, <2>2, <2>3 DEF NotStarted
<1>7. QED
    BY <1>5, <1>6 DEF Start

\* guest-exec-status: the pid is given up only when no command has it.
LEMMA PollInv ==
    ASSUME Inv, NEW u \in todo, Poll(u)
    PROVE  Inv'
<1>0. TypeOK /\ FitInv /\ CallInv /\ JobInv /\ OneCommand
    BY DEF Inv
<1>1. /\ pc = "poll" /\ u = cur /\ pc' = "scan" /\ todo' = todo \ {u} /\ cur' = None
      /\ UNCHANGED <<node, fit, lapse, rest, listed, eligible, offset, calls, cursor>>
      /\ u \in Node /\ pending[u] \in Probe /\ pending[u].pid # 0 /\ pending[u] # None
    BY <1>0 DEF Poll, Visited, TypeOK, CallInv
<1>2. late' \in BOOLEAN
    BY <1>0, Zenon DEF TypeOK, Poll
<1>3. CallInv'
    BY <1>1 DEF CallInv
<1>4. jobs' \subseteq jobs /\ (pending' = pending \/ pending' = [pending EXCEPT ![u] = None])
    BY DEF Poll, Missing, StillRunning, Answered, Unanswered
<1>5. ASSUME pending' # pending, NEW j \in jobs', ~j.done
      PROVE  j.node # u
    <2>1. j \in jobs /\ Accounted(j)
        BY <1>0, <1>4, <1>5 DEF JobInv
    <2>2. j.node = u => j \in Mine(u)
        BY <1>1, <2>1 DEF Accounted, Mine
    <2>3. CASE Missing(u)
        BY <2>2, <2>3 DEF Missing
    <2>4. CASE Answered(u)
        <3>1. PICK k \in Mine(u) : k.done /\ jobs' = jobs \ {k}
            BY <2>4 DEF Answered
        <3>2. j.node = u => j = k
            BY <1>0, <2>1, <2>2, <3>1 DEF Mine, JobInv
        <3>3. QED
            BY <1>5, <3>1, <3>2
    <2>5. QED
        BY <1>5, <2>3, <2>4 DEF Poll, StillRunning, Unanswered
<1>6. /\ pending' \in [Node -> Probe \cup {None}]
      /\ \A v \in Node : pending'[v] # None => pending'[v] = pending[v]
      /\ \A v \in Node : v # u => pending'[v] = pending[v]
    BY <1>0, <1>1, <1>4 DEF TypeOK
<1>7. \A j \in jobs : j.node \in Node
    BY <1>0 DEF TypeOK, Job
<1>8. /\ obs' \in [Node -> Observation \cup {None}]
      /\ \A v \in Node : obs'[v] # None /\ obs'[v].fit => lapse[v] <= obs'[v].age
    <2>1. Blank \in Observation /\ ~Blank.fit
        BY ObserverAssumption DEF Blank, Observation, Age
    <2>2. CASE obs' = obs \/ Forget(u)
        BY <1>0, <1>1, <2>1, <2>2 DEF TypeOK, FitInv, Forget
    <2>3. ASSUME NEW j \in Mine(u), obs' = [obs EXCEPT ![u] = Observed(u, j)]
          PROVE  /\ obs' \in [Node -> Observation \cup {None}]
                 /\ \A v \in Node : obs'[v] # None /\ obs'[v].fit
                        => lapse[v] <= obs'[v].age
        <3>1. Observed(u, j) \in Observation
            BY <1>1 DEF Observed, Observation, Probe
        <3>2. Observed(u, j).fit => lapse[u] <= Observed(u, j).age
            BY <1>0, <1>1 DEF Observed, Mine, FitInv
        <3>3. QED
            BY <1>0, <1>1, <2>3, <3>1, <3>2 DEF TypeOK, FitInv
    <2>4. QED
        BY <2>2, <2>3 DEF Poll, Missing, StillRunning, Answered, Unanswered
<1>9. TypeOK'
    BY <1>0, <1>1, <1>2, <1>4, <1>6, <1>8 DEF TypeOK
<1>10. FitInv'
    BY <1>0, <1>1, <1>4, <1>6, <1>7, <1>8 DEF FitInv, On
<1>11. JobInv'
    <2>1. ASSUME NEW j \in jobs', ~j.done
          PROVE  Accounted(j)'
        <3>1. j \in jobs /\ j.node \in Node /\ Accounted(j)
            BY <1>0, <1>4, <1>7, <2>1 DEF JobInv
        <3>2. pending'[j.node] = pending[j.node]
            BY <1>5, <1>6, <2>1, <3>1
        <3>3. QED
            BY <1>1, <3>1, <3>2 DEF Accounted
    <2>2. QED
        BY <1>0, <1>1, <1>4, <2>1 DEF JobInv, On
<1>12. QED
    BY <1>0, <1>3, <1>4, <1>9, <1>10, <1>11 DEF Inv, OneCommand

\* A command looks: if it finds its guest fit, its guest is fit.
LEMMA LooksInv ==
    ASSUME Inv, NEW j \in jobs, JobLooks(j)
    PROVE  Inv'
<1>0. TypeOK /\ FitInv /\ CallInv /\ JobInv /\ OneCommand
    BY DEF Inv
<1>1. j \in Job /\ UNCHANGED <<node, fit, lapse, pass, pending, obs>>
    BY <1>0 DEF TypeOK, JobLooks
<1>2. PICK k \in Job :
          /\ jobs' = (jobs \ {j}) \cup {k}
          /\ k.node = j.node /\ k.pid = j.pid /\ k.age = j.age /\ k.done = j.done
          /\ k.out = "fit" => j.node \in fit
    <2> DEFINE k == [j EXCEPT !.out = IF j.node \in fit THEN "fit" ELSE "unfit"]
    <2>1. k \in Job
        BY <1>1 DEF Job
    <2>2. QED
        BY <1>1, <2>1 DEF JobLooks, Job
<1>3. late' \in BOOLEAN
    BY <1>0, <1>1, Zenon DEF TypeOK
<1>4. TypeOK'
    BY <1>0, <1>1, <1>2, <1>3 DEF TypeOK
<1>5. FitInv'
    <2>1. j.node \in fit => lapse[j.node] = 0
        BY <1>0 DEF FitInv
    <2>2. \A u \in Node : pending[u] # None => pending[u].age >= 0
        BY <1>0 DEF TypeOK, Probe, Age
    <2>3. QED
        BY <1>0, <1>1, <1>2, <2>1, <2>2 DEF FitInv, On, Job
<1>6. CallInv'
    BY <1>0, <1>1, <1>2 DEF CallInv
<1>7. JobInv'
    BY <1>0, <1>1, <1>2 DEF JobInv, Accounted, On
<1>8. OneCommand'
    BY <1>0, <1>2 DEF OneCommand
<1>9. QED
    BY <1>4, <1>5, <1>6, <1>7, <1>8 DEF Inv

\* A command ends.
LEMMA EndsInv ==
    ASSUME Inv, NEW j \in jobs, JobEnds(j)
    PROVE  Inv'
<1>0. TypeOK /\ FitInv /\ CallInv /\ JobInv /\ OneCommand
    BY DEF Inv
<1>1. j \in Job /\ UNCHANGED <<node, fit, lapse, pass, pending, obs>>
    BY <1>0 DEF TypeOK, JobEnds
<1>2. PICK k \in Job :
          /\ jobs' \subseteq (jobs \ {j}) \cup {k}
          /\ k.node = j.node /\ k.pid = j.pid /\ k.done /\ k.out = j.out
    <2> DEFINE k == [j EXCEPT !.age = 0, !.done = TRUE]
    <2>1. k \in Job
        <3> DEFINE i == [j EXCEPT !.age = 0]
        <3>1. i \in Job
            BY <1>1, ObserverAssumption DEF Job, Age
        <3>2. [i EXCEPT !.done = TRUE] \in Job
            <4> HIDE DEF i
            <4>1. QED
                BY <3>1 DEF Job
        <3>3. QED
            BY <3>2
    <2>2. k.node = j.node /\ k.pid = j.pid /\ k.done /\ k.out = j.out
        BY <1>1 DEF Job
    <2>3. QED
        BY <2>1, <2>2 DEF JobEnds
<1>3. late' \in BOOLEAN
    BY <1>0, <1>1, Zenon DEF TypeOK
<1>4. TypeOK'
    BY <1>0, <1>1, <1>2, <1>3 DEF TypeOK
<1>5. FitInv'
    BY <1>0, <1>1, <1>2 DEF FitInv, On
<1>6. CallInv'
    BY <1>0, <1>1, <1>2 DEF CallInv
<1>7. JobInv'
    BY <1>0, <1>1, <1>2 DEF JobInv, Accounted, On
<1>8. OneCommand'
    BY <1>0, <1>2 DEF OneCommand
<1>9. QED
    BY <1>4, <1>5, <1>6, <1>7, <1>8 DEF Inv

\* A guest gets fit or unfit, its node changes.
LEMMA NodeInv ==
    ASSUME Inv, NEW u \in Node, GetsFit(u) \/ GetsUnfit(u) \/ Fate(u)
    PROVE  Inv'
<1>0. TypeOK /\ FitInv /\ CallInv /\ JobInv /\ OneCommand
    BY DEF Inv
<1>1. UNCHANGED <<pass, pending, obs>> /\ jobs' \subseteq jobs
    BY DEF GetsFit, GetsUnfit, Fate, Becomes
<1>2. late' \in BOOLEAN
    BY <1>0, <1>1, Zenon DEF TypeOK
<1>3. \A j \in jobs : j.node \in Node
    BY <1>0 DEF TypeOK, Job
<1>4. CallInv' /\ OneCommand'
    BY <1>0, <1>1 DEF CallInv, OneCommand
<1>5. CASE GetsFit(u)
    <2>1. /\ On(u) /\ fit' = fit \cup {u} /\ lapse' = [lapse EXCEPT ![u] = 0]
          /\ UNCHANGED <<node, jobs>>
        BY <1>5 DEF GetsFit
    <2>2. TypeOK'
        BY <1>0, <1>1, <1>2, <2>1, ObserverAssumption DEF TypeOK, Age
    <2>3. FitInv'
        <3>1. \A v \in Node : lapse'[v] = IF v = u THEN 0 ELSE lapse[v]
            BY <1>0, <2>1 DEF TypeOK
        <3>2. \A v \in Node : /\ pending[v] # None => pending[v].age >= 0
                              /\ obs[v] # None => obs[v].age >= 0
            BY <1>0 DEF TypeOK, Probe, Observation, Age
        <3>3. fit \subseteq Node
            BY <1>0 DEF TypeOK
        <3>4. QED
            BY <1>0, <1>1, <1>3, <2>1, <3>1, <3>2, <3>3 DEF FitInv, On
    <2>4. JobInv'
        BY <1>0, <1>1, <2>1 DEF JobInv, Accounted, On
    <2>5. QED
        BY <1>4, <2>2, <2>3, <2>4 DEF Inv
<1>6. CASE GetsUnfit(u)
    <2>1. fit' = fit \ {u} /\ UNCHANGED <<node, lapse, jobs>>
        BY <1>6 DEF GetsUnfit
    <2>2. TypeOK'
        BY <1>0, <1>1, <1>2, <2>1 DEF TypeOK
    <2>3. FitInv' /\ JobInv'
        BY <1>0, <1>1, <2>1 DEF FitInv, JobInv, Accounted, On
    <2>4. QED
        BY <1>4, <2>2, <2>3 DEF Inv
<1>7. ASSUME NEW life \in Nodes!Life, Becomes(u, life)
      PROVE  Inv'
    <2>1. /\ node' = [node EXCEPT ![u] = life] /\ fit' = fit \ {u}
          /\ jobs' = {j \in jobs : j.node # u} /\ UNCHANGED lapse
        BY <1>7 DEF Becomes
    <2>2. TypeOK'
        BY <1>0, <1>1, <1>2, <1>7, <2>1 DEF TypeOK
    <2>3. \A v \in Node : v # u => node'[v] = node[v]
        BY <1>0, <2>1 DEF TypeOK
    <2>4. fit \subseteq Node
        BY <1>0 DEF TypeOK
    <2>5. FitInv'
        BY <1>0, <1>1, <2>1, <2>3, <2>4 DEF FitInv, On
    <2>6. JobInv'
        BY <1>0, <1>1, <1>3, <2>1, <2>3 DEF JobInv, Accounted, On
    <2>7. QED
        BY <1>4, <2>2, <2>5, <2>6 DEF Inv
<1>8. Nodes!After(node[u]) \subseteq Nodes!Life
    BY DEF Nodes!After, Nodes!Life
<1>9. QED
    BY <1>5, <1>6, <1>7, <1>8 DEF Fate

\* Time passes for everybody, and no command outlives its lifetime.
LEMMA TickInv ==
    ASSUME Inv, Tick
    PROVE  Inv'
<1>0. TypeOK /\ FitInv /\ CallInv /\ JobInv /\ OneCommand
    BY DEF Inv
<1>1. /\ UNCHANGED <<node, fit, pc, cur, listed, eligible, todo, offset, calls, cursor, late>>
      /\ \A j \in jobs : ~j.done => j.age < Lifetime
    BY DEF Tick
<1>2. late' \in BOOLEAN
    BY <1>0, <1>1, Zenon DEF TypeOK
<1>3. \A u \in Node : lapse'[u] = IF u \in fit THEN 0 ELSE Aged(lapse[u])
    BY DEF Tick
<1>4. lapse' \in [Node -> Age]
    BY <1>0, AgedFacts, ObserverAssumption DEF TypeOK, Tick, Age
<1>5. /\ pending' \in [Node -> Probe \cup {None}]
      /\ \A u \in Node :
            /\ pending[u] = None => pending'[u] = None
            /\ pending[u] # None =>
                  /\ pending'[u] # None /\ pending'[u].pid = pending[u].pid
                  /\ pending[u].age \in Age /\ pending'[u].age = Aged(pending[u].age)
    <2>1. \A q \in Probe : /\ [q EXCEPT !.age = Aged(@)] \in Probe
                           /\ [q EXCEPT !.age = Aged(@)] # None
                           /\ q.age \in Age
        BY AgedFacts, ObserverAssumption DEF Probe, Age
    <2>2. QED
        BY <1>0, <2>1 DEF TypeOK, Tick, Probe
<1>6. /\ obs' \in [Node -> Observation \cup {None}]
      /\ \A u \in Node :
            obs'[u] # None =>
                  /\ obs[u] # None /\ obs'[u].fit = obs[u].fit
                  /\ obs[u].age \in Age /\ obs'[u].age = Aged(obs[u].age)
    <2>1. \A q \in Observation : /\ [q EXCEPT !.age = Aged(@)] \in Observation
                                 /\ q.age \in Age
        BY AgedFacts DEF Observation
    <2>2. QED
        BY <1>0, <2>1 DEF TypeOK, Tick, Observation
<1>7. \A k \in jobs' : \E j \in jobs :
          /\ k \in Job /\ j \in Job
          /\ k.node = j.node /\ k.pid = j.pid /\ k.done = j.done /\ k.out = j.out
          /\ ~j.done => k = [j EXCEPT !.age = Aged(@)] /\ k.age = Aged(j.age)
          /\ j.done => k = j
    <2>1. \A j \in Job : [j EXCEPT !.age = Aged(@)] \in Job
        BY AgedFacts DEF Job
    <2>2. QED
        BY <1>0, <2>1 DEF TypeOK, Tick, Job
<1>8. TypeOK'
    <2>1. rest' \in 0..Interval
        BY <1>0, ObserverAssumption DEF TypeOK, Tick
    <2>2. jobs' \in SUBSET Job
        BY <1>7
    <2>3. QED
        BY <1>0, <1>1, <1>2, <1>4, <1>5, <1>6, <2>1, <2>2 DEF TypeOK
<1>9. FitInv'
    <2>1. \A u \in Node : \A a \in Age : lapse[u] <= a => lapse'[u] <= Aged(a)
        BY <1>0, <1>3, AgedFacts DEF TypeOK, Age
    <2>2. fit \subseteq Node
        BY <1>0 DEF TypeOK
    <2>3. \A u \in fit' : lapse'[u] = 0 /\ On(u)'
        BY <1>0, <1>1, <1>3, <2>2 DEF FitInv, On
    <2>4. \A u \in Node : obs'[u] # None /\ obs'[u].fit => lapse'[u] <= obs'[u].age
        BY <1>0, <1>6, <2>1 DEF FitInv
    <2>5. ASSUME NEW k \in jobs', k.out = "fit",
                 pending'[k.node] # None, pending'[k.node].pid = k.pid
          PROVE  lapse'[k.node] <= pending'[k.node].age
        <3>1. PICK j \in jobs : j.node = k.node /\ j.pid = k.pid /\ j.out = "fit" /\ j \in Job
            BY <1>7, <2>5
        <3>2. k.node \in Node
            BY <3>1 DEF Job
        <3>3. lapse[k.node] <= pending[k.node].age
            BY <1>0, <1>5, <2>5, <3>1, <3>2 DEF FitInv
        <3>4. QED
            BY <1>5, <2>1, <2>5, <3>2, <3>3
    <2>6. QED
        BY <2>3, <2>4, <2>5 DEF FitInv
<1>10. CallInv'
    <2>1. todo \subseteq Node
        BY <1>0 DEF TypeOK
    <2>2. \A k \in jobs' : k.node = cur /\ (\A j \in jobs : j.node = cur => j.done) => k.done
        BY <1>7
    <2>3. QED
        BY <1>0, <1>1, <1>5, <2>1, <2>2 DEF CallInv
<1>11. JobInv'
    <2>1. ASSUME NEW k \in jobs'
          PROVE  On(k.node)' /\ (~k.done => k.age <= Lifetime /\ Accounted(k)')
        <3>1. PICK j \in jobs :
                  /\ j \in Job /\ k.node = j.node /\ k.pid = j.pid /\ k.done = j.done
                  /\ ~j.done => k.age = Aged(j.age)
            BY <1>7
        <3>2. On(k.node)'
            BY <1>0, <1>1, <3>1 DEF JobInv, On
        <3>3. ASSUME ~k.done
              PROVE  k.age <= Lifetime /\ Accounted(k)'
            <4>1. j.age \in Age /\ j.age < Lifetime /\ Accounted(j) /\ j.node \in Node
                BY <1>0, <1>1, <3>1, <3>3 DEF JobInv, Job
            <4>2. k.age = Aged(j.age) /\ k.age <= Lifetime
                BY <3>1, <3>3, <4>1, AgedFacts, ObserverAssumption
            <4>3. pending[j.node] # None
                BY <4>1, ObserverAssumption DEF Accounted, Age
            <4>4. pending[j.node].age <= j.age => pending'[k.node].age <= k.age
                BY <1>5, <3>1, <4>1, <4>2, <4>3, AgedFacts
            <4>5. QED
                BY <1>5, <3>1, <4>1, <4>2, <4>3, <4>4 DEF Accounted
        <3>4. QED
            BY <3>2, <3>3
    <2>2. ASSUME NEW k \in jobs', NEW l \in jobs', k.node = l.node, k.pid = l.pid
          PROVE  k = l
        BY <1>0, <1>7, <2>2 DEF JobInv
    <2>3. QED
        BY <2>1, <2>2 DEF JobInv
<1>12. OneCommand'
    BY <1>0, <1>7 DEF OneCommand
<1>13. QED
    BY <1>8, <1>9, <1>10, <1>11, <1>12 DEF Inv

\* Every step keeps the invariant.
LEMMA NextInv == Inv /\ [Next]_vars => Inv'
<1>1. ASSUME Inv, UNCHANGED vars
      PROVE  Inv'
    BY <1>1 DEF vars, Inv, TypeOK, FitInv, CallInv, JobInv, Accounted, OneCommand, On
<1>2. ASSUME Inv, Next
      PROVE  Inv'
    BY <1>2, PassInv, ScanInv, CallsInv, StartInv, PollInv, LooksInv, EndsInv, NodeInv, TickInv
    DEF Next, Observe, Scan
<1>3. QED
    BY <1>1, <1>2

\* The invariant holds in every state of every behavior of the observer.
THEOREM Invariance == Spec => []Inv
BY InitInv, NextInv, PTL DEF Spec

\* The observer keeps to its types, and to MaxCalls agent calls a pass
\* (observer.py:228-230).
THEOREM TypeCorrect == Spec => []TypeOK
<1>1. Inv => TypeOK
    BY DEF Inv
<1>2. QED
    BY <1>1, Invariance, PTL

\* A node join_ready offers was fit less than StaleAfter ago, whatever was lost
\* or late (observer.py:149-173, 241-273).
THEOREM ServedStatusIsRecent == Spec => []ServedIsRecent
<1>1. Inv => ServedIsRecent
    BY ObserverAssumption DEF Inv, TypeOK, FitInv, ServedIsRecent, JoinReady, Observation, Age
<1>2. QED
    BY <1>1, Invariance, PTL

\* No guest ever runs two status commands, although a lost reply hides one
\* (observer.py:241-260).
THEOREM OneCommandAtATime == Spec => []OneCommand
<1>1. Inv => OneCommand
    BY DEF Inv
<1>2. QED
    BY <1>1, Invariance, PTL
-----------------------------------------------------------------------------
(***************************************************************************)
(* The safety half of the rotation.                                        *)
(***************************************************************************)
\* Somebody's turn is the first.
LEMMA Smallest ==
    ASSUME NEW S \in SUBSET Nat, S # {}
    PROVE  \E m \in S : \A k \in S : m <= k
<1> DEFINE Less == {p \in Nat \X Nat : p[1] < p[2]}
<1>1. IsWellFoundedOn(Less, Nat)
    BY NatLessThanWellFounded DEF OpToRel
<1>2. PICK m \in S : \A k \in S : <<k, m>> \notin Less
    <2> HIDE DEF Less
    <2>1. S \subseteq Nat /\ S # {}
        OBVIOUS
    <2>2. QED
        BY <1>1, <2>1, WFMin
<1>3. \A k \in S : m <= k
    <2> TAKE k \in S
    <2>1. <<k, m>> \in Nat \X Nat /\ ~(k < m)
        BY <1>2
    <2>2. QED
        BY <2>1
<1>4. QED
    BY <1>3

\* A visit to a node that may be asked counts once.
LEMMA OneMoreAsked ==
    ASSUME TypeOK, NEW u \in eligible, u \notin Asked, Asked \subseteq eligible,
           Asked' = Asked \cup {u}
    PROVE  /\ Cardinality(Asked) \in Nat
           /\ Cardinality(Asked') = Cardinality(Asked) + 1
<1>1. IsFiniteSet(Asked)
    BY ObserverAssumption, FS_Subset DEF TypeOK
<1>2. QED
    BY <1>1, FS_AddElement, FS_CardinalityType

\* Who is asked costs a call, and is passed over only when there is none left.
LEMMA BudgetStep ==
    ASSUME Inv, BudgetInv, Next
    PROVE  BudgetInv'
<1>0. TypeOK /\ CallInv /\ Asked \subseteq eligible /\ MaxCalls \in Nat \ {0}
    BY ObserverAssumption DEF Inv, BudgetInv, Asked
<1>1. CASE Pass
    <2>1. Asked' = {} /\ calls' = 0 /\ eligible' \subseteq listed' /\ pc' = "scan"
        BY <1>1 DEF Pass, Asked
    <2>2. Cardinality({}) = 0
        BY FS_EmptySet
    <2>3. QED
        BY <1>0, <2>1, <2>2 DEF BudgetInv
<1>2. CASE EndPass
    BY <1>2 DEF EndPass, BudgetInv, Asked
<1>3. ASSUME NEW u \in todo, Unprobed(u)
      PROVE  BudgetInv'
    <2>1. Asked' = Asked
        BY <1>3 DEF Unprobed, Visited, Asked
    <2>2. QED
        BY <1>3, <2>1 DEF Unprobed, Visited, BudgetInv
<1>4. ASSUME NEW u \in todo, PassedOver(u)
      PROVE  BudgetInv'
    <2>1. u \in eligible /\ u \notin Asked /\ Asked' = Asked \cup {u} /\ calls = MaxCalls
        BY <1>0, <1>4 DEF PassedOver, Visited, Asked, TypeOK
    <2>2. QED
        BY <1>0, <1>4, <2>1, OneMoreAsked DEF PassedOver, Visited, BudgetInv
<1>5. ASSUME NEW u \in todo, Launching(u) \/ WaitOut(u) \/ Polling(u)
      PROVE  BudgetInv'
    <2>1. /\ u \in eligible /\ pc = "scan"
          /\ calls < MaxCalls /\ calls' = calls + 1
          /\ UNCHANGED <<eligible, listed>>
        BY <1>5 DEF Launching, WaitOut, Polling, Call
    <2>2. \/ pc' = "scan" /\ todo' = todo \ {u}
          \/ pc' \in {"start", "poll"} /\ cur' = u /\ todo' = todo
        BY <1>5 DEF Launching, WaitOut, Polling, Visited
    <2>3. u \notin Asked /\ Asked' = Asked \cup {u}
        BY <1>0, <2>1, <2>2 DEF Asked, TypeOK
    <2>4. calls \in Nat
        BY <1>0 DEF TypeOK
    <2>5. /\ Cardinality(Asked) \in Nat
          /\ Cardinality(Asked') = Cardinality(Asked) + 1
        BY <1>0, <2>1, <2>3, OneMoreAsked
    <2>6. calls' = IF Cardinality(Asked') < MaxCalls
                   THEN Cardinality(Asked') ELSE MaxCalls
        BY <1>0, <2>1, <2>4, <2>5 DEF BudgetInv
    <2>7. eligible' \subseteq listed' /\ pc' # "rest"
        BY <2>1, <2>2 DEF BudgetInv
    <2>8. pc' \in {"start", "poll"} => cur' \in eligible'
        BY <2>1, <2>2
    <2>9. QED
        BY <2>6, <2>7, <2>8 DEF BudgetInv
<1>6. ASSUME NEW u \in todo, Start(u) \/ Poll(u)
      PROVE  BudgetInv'
    <2>1. /\ u = cur /\ pc \in {"start", "poll"} /\ pc' = "scan"
          /\ todo' = todo \ {u} /\ UNCHANGED <<eligible, listed, calls>>
        BY <1>6 DEF Start, Poll, Visited
    <2>2. Asked' = Asked
        BY <2>1 DEF Asked, BudgetInv
    <2>3. QED
        BY <2>1, <2>2 DEF BudgetInv
<1>7. ASSUME UNCHANGED <<eligible, listed, todo, pc, cur, calls>>
      PROVE  BudgetInv'
    BY <1>7 DEF BudgetInv, Asked
<1>8. QED
    BY <1>1, <1>2, <1>3, <1>4, <1>5, <1>6, <1>7
    DEF Next, Observe, Scan, JobLooks, JobEnds, GetsFit, GetsUnfit, Fate, Becomes, Tick

\* BudgetIsUsed: at most eight agent calls a pass (observer.py:228), and no fewer
\* while a running node has not been asked.
THEOREM CallsAreNotWasted == Spec => []BudgetIsUsed
<1>1. Init => BudgetInv
    BY ObserverAssumption, FS_EmptySet DEF Init, BudgetInv, Asked
<1>2. Inv /\ BudgetInv /\ [Next]_vars => BudgetInv'
    BY BudgetStep DEF vars, BudgetInv, Asked
<1>3. BudgetInv => BudgetIsUsed
    <2>1. eligible \ {} = eligible
        OBVIOUS
    <2>2. QED
        BY <2>1 DEF BudgetInv, BudgetIsUsed, Asked
<1>4. QED
    BY <1>1, <1>2, <1>3, Invariance, PTL DEF Spec

\* ScanGoesOn: whatever the cursor and however many nodes, the rotation has a next
\* node, until it has been to all.
THEOREM ScanNeverStops == Spec => []ScanGoesOn
<1>1. TypeOK => ScanGoesOn
    <2> SUFFICES ASSUME TypeOK, todo # {}
                 PROVE  \E u \in todo : First(u)
        BY DEF ScanGoesOn
    <2>1. \A u \in todo : Turn(u) \in Nat
        <3> TAKE u \in todo
        <3>1. IsFiniteSet(listed) /\ listed # {}
            BY ObserverAssumption, FS_Subset DEF TypeOK
        <3>2. Cardinality(listed) \in Nat \ {0}
            BY <3>1, FS_CardinalityType, FS_EmptySet
        <3>3. Rank(u) \in Nat /\ offset \in Nat
            BY RankFacts DEF TypeOK
        <3>4. QED
            BY <3>2, <3>3 DEF Turn
    <2>2. PICK m \in {Turn(u) : u \in todo} : \A k \in {Turn(u) : u \in todo} : m <= k
        BY <2>1, Smallest
    <2>3. QED
        BY <2>2 DEF First
<1>2. QED
    BY <1>1, TypeCorrect, PTL
=============================================================================
