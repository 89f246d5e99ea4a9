----------------------------- MODULE MCObserver -----------------------------
(* Observer on small instances. *)
EXTENDS Observer

\* For the rotation among several nodes: Next, but commands end without having
\* looked and no guest gets fit.  The rotation reads neither.
RotationNext ==
    \/ Observe
    \/ \E j \in jobs : JobEnds(j)
    \/ \E u \in Node : Fate(u)
    \/ Tick

RotationSpec == Init /\ [][RotationNext]_vars /\ Fairness

\* Nothing is lost and all the time goes by between the passes: what the
\* configuration's stale_after_s > interval_s is for.
PromptNext ==
    \/ Pass \/ EndPass
    \/ \E u \in todo : \/ Scan(u)
                       \/ Start(u) /\ pending'[u].pid # 0
                       \/ Poll(u) /\ pending'[u] = None
                                  /\ (Recent(u) => obs'[u] # Blank)
    \/ \E j \in jobs : JobLooks(j) \/ (j.out # "none" /\ JobEnds(j))
    \/ \E u \in Node : \/ GetsFit(u)
                       \/ Fate(u) /\ node[u] # "running" /\ node'[u] # "deleting"
    \/ pc = "rest" /\ rest > 0 /\ (\A j \in jobs : j.done) /\ Tick

PromptSpec == Init /\ [][PromptNext]_vars /\ Fairness
=============================================================================
