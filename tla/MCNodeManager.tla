--------------------------- MODULE MCNodeManager ---------------------------
(* NodeManager on small instances.  The nodes are interchangeable where    *)
(* all or none of them are Shareable and no liveness property is checked.  *)
EXTENDS NodeManager, TLC

NodeSymmetry == Permutations(Node)

\* For the liveness of two nodes: guests report only once k3s started.  What
\* else they might report neither cleanup nor launch recovery reads.  The rest
\* of RecoveryNext is Next.
ReportStarted(u) == Report(u) /\ report'[u] \in {"none", "started"}

RecoveryNext ==
    \/ Create \/ Delete \/ Reset \/ Recover \/ Observe
    \/ \E u \in Node : Kill(u) \/ ReportStarted(u)
    \/ \E r \in seen : CleanUp(r)
    \/ Startup \/ Stop \/ Crash
    \/ Environment

RecoverySpec == Init /\ [][RecoveryNext]_vars /\ Fairness
=============================================================================
