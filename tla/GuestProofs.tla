----------------------------- MODULE GuestProofs -----------------------------
(***************************************************************************)
(* Proofs about Guest, for any number of files, power losses, reboots and  *)
(* starts by hand.                                                         *)
(***************************************************************************)
EXTENDS Guest, TLAPS

Inv ==
    /\ TypeOK /\ CacheInv /\ ProgressInv /\ CommitIsWhole
    /\ MarkerInv /\ DataIsCommitted /\ StageInv

USE DEF files, vars, Config, File, Prepared, Data, Started, Path, Fault, Write, Sync

\* Every step keeps the types, and k3s behind prepare.
LEMMA TypeStep == Inv /\ [Next]_vars => TypeOK'
<1> SUFFICES ASSUME TypeOK, [Next]_vars
             PROVE  TypeOK'
    BY DEF Inv
<1> USE GuestAssumption DEF TypeOK, Stage
<1>1. CASE Boot
    BY <1>1 DEF Boot
<1>2. CASE PowerLoss
    BY <1>2 DEF PowerLoss
<1>3. CASE Reboot
    BY <1>3 DEF Reboot
<1>4. CASE StartByHand
    BY <1>4 DEF StartByHand
<1>5. CASE Check
    BY <1>5 DEF Check, IsPrepared
<1>6. CASE Copy
    BY <1>6 DEF Copy
<1>7. CASE SyncFiles
    BY <1>7 DEF SyncFiles
<1>8. CASE Mark
    BY <1>8 DEF Mark
<1>9. CASE Commit
    BY <1>9 DEF Commit
<1>10. CASE PrepareFails
    BY <1>10 DEF PrepareFails
<1>11. CASE Run
    BY <1>11 DEF Run
<1>12. CASE MarkStarted
    <2>1. CASE cache[Started] = "whole" /\ k3s' = "running" /\ UNCHANGED files
        BY <1>12, <2>1 DEF MarkStarted
    <2>2. CASE cache[Started] # "whole" /\ k3s' = "marked" /\ Write(Started)
        BY <1>12, <2>2 DEF MarkStarted
    <2>3. QED
        BY <1>12, <2>1, <2>2 DEF MarkStarted
<1>13. CASE SyncStarted
    BY <1>13 DEF SyncStarted
<1>14. CASE K3sDies
    BY <1>14 DEF K3sDies
<1>15. CASE UNCHANGED vars
    BY <1>15
<1>16. QED
    BY <1>1, <1>2, <1>3, <1>4, <1>5, <1>6, <1>7, <1>8, <1>9, <1>10, <1>11, <1>12, <1>13, <1>14, <1>15 DEF Next, Steps

\* A write is of a whole file, and neither a sync nor a power loss leaves
\* anything dirty.
LEMMA CacheStep == Inv /\ [Next]_vars => CacheInv'
<1> SUFFICES ASSUME TypeOK, CacheInv, [Next]_vars
             PROVE  CacheInv'
    BY DEF Inv
<1> USE GuestAssumption DEF TypeOK, CacheInv
<1>1. CASE Boot
    BY <1>1 DEF Boot
<1>2. CASE PowerLoss
    BY <1>2 DEF PowerLoss
<1>3. CASE Reboot
    BY <1>3 DEF Reboot
<1>4. CASE StartByHand
    BY <1>4 DEF StartByHand
<1>5. CASE Check
    BY <1>5 DEF Check, IsPrepared
<1>6. CASE Copy
    BY <1>6 DEF Copy
<1>7. CASE SyncFiles
    BY <1>7 DEF SyncFiles
<1>8. CASE Mark
    BY <1>8 DEF Mark
<1>9. CASE Commit
    BY <1>9 DEF Commit
<1>10. CASE PrepareFails
    BY <1>10 DEF PrepareFails
<1>11. CASE Run
    BY <1>11 DEF Run
<1>12. CASE MarkStarted
    <2>1. CASE cache[Started] = "whole" /\ k3s' = "running" /\ UNCHANGED files
        BY <1>12, <2>1 DEF MarkStarted
    <2>2. CASE cache[Started] # "whole" /\ k3s' = "marked" /\ Write(Started)
        BY <1>12, <2>2 DEF MarkStarted
    <2>3. QED
        BY <1>12, <2>1, <2>2 DEF MarkStarted
<1>13. CASE SyncStarted
    BY <1>13 DEF SyncStarted
<1>14. CASE K3sDies
    BY <1>14 DEF K3sDies
<1>15. CASE UNCHANGED vars
    BY <1>15
<1>16. QED
    BY <1>1, <1>2, <1>3, <1>4, <1>5, <1>6, <1>7, <1>8, <1>9, <1>10, <1>11, <1>12, <1>13, <1>14, <1>15 DEF Next, Steps

\* The marker is written after the sync that makes the files durable.
LEMMA ProgressStep == Inv /\ [Next]_vars => ProgressInv'
<1> SUFFICES ASSUME TypeOK, CacheInv, ProgressInv, CommitIsWhole, [Next]_vars
             PROVE  ProgressInv'
    BY DEF Inv
<1> USE GuestAssumption DEF TypeOK, CacheInv, ProgressInv, CommitIsWhole
<1>1. CASE Boot
    BY <1>1 DEF Boot
<1>2. CASE PowerLoss
    BY <1>2 DEF PowerLoss
<1>3. CASE Reboot
    BY <1>3 DEF Reboot
<1>4. CASE StartByHand
    BY <1>4 DEF StartByHand
<1>5. CASE Check
    <2>1. UNCHANGED <<cache, disk, dirty, copied>> /\ prepare' \in {"active", "failed", "copy"}
        BY <1>5 DEF Check
    <2>2. prepare' = "active" => cache[Prepared] = "whole"
        BY <1>5 DEF Check, IsPrepared
    <2>3. prepare' = "copy" => cache[Prepared] = "none" /\ copied = 0
        BY <1>5 DEF Check
    <2>4. QED
        BY <2>1, <2>2, <2>3
<1>6. CASE Copy
    BY <1>6 DEF Copy
<1>7. CASE SyncFiles
    BY <1>7 DEF SyncFiles
<1>8. CASE Mark
    BY <1>8 DEF Mark
<1>9. CASE Commit
    BY <1>9 DEF Commit
<1>10. CASE PrepareFails
    BY <1>10 DEF PrepareFails
<1>11. CASE Run
    BY <1>11 DEF Run
<1>12. CASE MarkStarted
    BY <1>12 DEF MarkStarted
<1>13. CASE SyncStarted
    BY <1>13 DEF SyncStarted
<1>14. CASE K3sDies
    BY <1>14 DEF K3sDies
<1>15. CASE UNCHANGED vars
    BY <1>15
<1>16. QED
    BY <1>1, <1>2, <1>3, <1>4, <1>5, <1>6, <1>7, <1>8, <1>9, <1>10, <1>11, <1>12, <1>13, <1>14, <1>15 DEF Next, Steps

\* Files are written only where there is no marker.
LEMMA CommitStep == Inv /\ [Next]_vars => CommitIsWhole'
<1> SUFFICES ASSUME TypeOK, CacheInv, ProgressInv, CommitIsWhole, [Next]_vars
             PROVE  CommitIsWhole'
    BY DEF Inv
<1> USE GuestAssumption DEF TypeOK, CacheInv, ProgressInv, CommitIsWhole
<1>1. CASE Boot
    BY <1>1 DEF Boot
<1>2. CASE PowerLoss
    BY <1>2 DEF PowerLoss
<1>3. CASE Reboot
    BY <1>3 DEF Reboot
<1>4. CASE StartByHand
    BY <1>4 DEF StartByHand
<1>5. CASE Check
    BY <1>5 DEF Check, IsPrepared
<1>6. CASE Copy
    BY <1>6 DEF Copy
<1>7. CASE SyncFiles
    BY <1>7 DEF SyncFiles
<1>8. CASE Mark
    BY <1>8 DEF Mark
<1>9. CASE Commit
    BY <1>9 DEF Commit
<1>10. CASE PrepareFails
    BY <1>10 DEF PrepareFails
<1>11. CASE Run
    BY <1>11 DEF Run
<1>12. CASE MarkStarted
    BY <1>12 DEF MarkStarted
<1>13. CASE SyncStarted
    BY <1>13 DEF SyncStarted
<1>14. CASE K3sDies
    BY <1>14 DEF K3sDies
<1>15. CASE UNCHANGED vars
    BY <1>15
<1>16. QED
    BY <1>1, <1>2, <1>3, <1>4, <1>5, <1>6, <1>7, <1>8, <1>9, <1>10, <1>11, <1>12, <1>13, <1>14, <1>15 DEF Next, Steps

\* prepare ends with a sync, or found the marker where only a boot can have
\* brought it from: on the disk.
LEMMA MarkerStep == Inv /\ [Next]_vars => MarkerInv'
<1> SUFFICES ASSUME TypeOK, CacheInv, ProgressInv, MarkerInv, [Next]_vars
             PROVE  MarkerInv'
    BY DEF Inv
<1> USE GuestAssumption DEF TypeOK, CacheInv, ProgressInv, MarkerInv
<1>1. CASE Boot
    BY <1>1 DEF Boot
<1>2. CASE PowerLoss
    BY <1>2 DEF PowerLoss
<1>3. CASE Reboot
    BY <1>3 DEF Reboot
<1>4. CASE StartByHand
    BY <1>4 DEF StartByHand
<1>5. CASE Check
    BY <1>5 DEF Check, IsPrepared
<1>6. CASE Copy
    BY <1>6 DEF Copy
<1>7. CASE SyncFiles
    BY <1>7 DEF SyncFiles
<1>8. CASE Mark
    BY <1>8 DEF Mark
<1>9. CASE Commit
    BY <1>9 DEF Commit
<1>10. CASE PrepareFails
    BY <1>10 DEF PrepareFails
<1>11. CASE Run
    BY <1>11 DEF Run
<1>12. CASE MarkStarted
    BY <1>12 DEF MarkStarted
<1>13. CASE SyncStarted
    BY <1>13 DEF SyncStarted
<1>14. CASE K3sDies
    BY <1>14 DEF K3sDies
<1>15. CASE UNCHANGED vars
    BY <1>15
<1>16. QED
    BY <1>1, <1>2, <1>3, <1>4, <1>5, <1>6, <1>7, <1>8, <1>9, <1>10, <1>11, <1>12, <1>13, <1>14, <1>15 DEF Next, Steps

\* k3s runs only after prepare.
LEMMA DataStep == Inv /\ [Next]_vars => DataIsCommitted'
<1> SUFFICES ASSUME TypeOK, CacheInv, ProgressInv, MarkerInv, DataIsCommitted, [Next]_vars
             PROVE  DataIsCommitted'
    BY DEF Inv
<1> USE GuestAssumption DEF TypeOK, CacheInv, ProgressInv, MarkerInv, DataIsCommitted
<1>1. CASE Boot
    BY <1>1 DEF Boot
<1>2. CASE PowerLoss
    BY <1>2 DEF PowerLoss
<1>3. CASE Reboot
    BY <1>3 DEF Reboot
<1>4. CASE StartByHand
    BY <1>4 DEF StartByHand
<1>5. CASE Check
    BY <1>5 DEF Check, IsPrepared
<1>6. CASE Copy
    BY <1>6 DEF Copy
<1>7. CASE SyncFiles
    BY <1>7 DEF SyncFiles
<1>8. CASE Mark
    BY <1>8 DEF Mark
<1>9. CASE Commit
    BY <1>9 DEF Commit
<1>10. CASE PrepareFails
    BY <1>10 DEF PrepareFails
<1>11. CASE Run
    BY <1>11 DEF Run
<1>12. CASE MarkStarted
    BY <1>12 DEF MarkStarted
<1>13. CASE SyncStarted
    BY <1>13 DEF SyncStarted
<1>14. CASE K3sDies
    BY <1>14 DEF K3sDies
<1>15. CASE UNCHANGED vars
    BY <1>15
<1>16. QED
    BY <1>1, <1>2, <1>3, <1>4, <1>5, <1>6, <1>7, <1>8, <1>9, <1>10, <1>11, <1>12, <1>13, <1>14, <1>15 DEF Next, Steps

\* A marker is written with its stage, and a power loss brings back nothing that
\* was never written.
LEMMA StageStep == Inv /\ [Next]_vars => StageInv'
<1> SUFFICES ASSUME TypeOK, CacheInv, StageInv, [Next]_vars
             PROVE  StageInv'
    BY DEF Inv
<1> USE GuestAssumption DEF TypeOK, CacheInv, StageInv
<1>1. CASE Boot
    BY <1>1 DEF Boot
<1>2. CASE PowerLoss
    BY <1>2 DEF PowerLoss
<1>3. CASE Reboot
    BY <1>3 DEF Reboot
<1>4. CASE StartByHand
    BY <1>4 DEF StartByHand
<1>5. CASE Check
    BY <1>5 DEF Check, IsPrepared
<1>6. CASE Copy
    BY <1>6 DEF Copy
<1>7. CASE SyncFiles
    BY <1>7 DEF SyncFiles
<1>8. CASE Mark
    BY <1>8 DEF Mark
<1>9. CASE Commit
    BY <1>9 DEF Commit
<1>10. CASE PrepareFails
    BY <1>10 DEF PrepareFails
<1>11. CASE Run
    BY <1>11 DEF Run
<1>12. CASE MarkStarted
    BY <1>12 DEF MarkStarted, IsPrepared
<1>13. CASE SyncStarted
    BY <1>13 DEF SyncStarted
<1>14. CASE K3sDies
    BY <1>14 DEF K3sDies
<1>15. CASE UNCHANGED vars
    BY <1>15
<1>16. QED
    BY <1>1, <1>2, <1>3, <1>4, <1>5, <1>6, <1>7, <1>8, <1>9, <1>10, <1>11, <1>12, <1>13, <1>14, <1>15 DEF Next, Steps

\* The invariant, with what it is needed for.
THEOREM Invariance == Spec => []Inv
<1>1. Init => Inv
    BY GuestAssumption DEF Init, Inv, TypeOK, CacheInv, ProgressInv, CommitIsWhole,
                           MarkerInv, DataIsCommitted, StageInv, Stage
<1>2. Inv /\ [Next]_vars => Inv'
    BY TypeStep, CacheStep, ProgressStep, CommitStep, MarkerStep, DataStep, StageStep
    DEF Inv
<1>3. QED
    BY <1>1, <1>2, PTL DEF Spec

\* Cache, disk and units are always of their types, and k3s is never up without
\* prepare (k3s-node.service's Requires).
THEOREM TypeCorrect == Spec => []TypeOK
    BY Invariance, PTL DEF Inv

\* Where there is a marker, even a torn one, every file is whole and durable
\* (k3s-demo-guest:124-138): a half-written configuration never counts as
\* prepared, whenever the power goes and however prepare is repeated.
THEOREM MarkerCommits == Spec => []CommitIsWhole
    BY Invariance, PTL DEF Inv

\* Unless units are started again by hand, there is k3s data only where the
\* marker is durable (the comment at k3s-demo-guest:105).
THEOREM K3sRunsCommitted == Spec => []DataIsCommitted
    BY Invariance, PTL DEF Inv

\* What prepare and k3s look for is there.
LEMMA PreparedFiles ==
    ASSUME Inv, prepare \in {"mark", "commit", "active"}
    PROVE  Installed
BY GuestAssumption DEF Inv, TypeOK, CacheInv, ProgressInv, Installed, File, Path, Config

\* NeverRefused: unless units are started again by hand, a power loss anywhere in
\* prepare leaves a guest that the next boot goes on with, or a torn marker.
THEOREM OnlyTornIsRefused == Spec => []NeverRefused
<1>1. Inv => NeverRefused
    <2> SUFFICES ASSUME Inv, hands = 0
                 PROVE  NeverRefused
        BY DEF NeverRefused
    <2>0. /\ cache \in [Path -> {"none", "torn", "whole"}] /\ Prepared \in Path
          /\ File \subseteq Path
        BY GuestAssumption DEF Inv, TypeOK, Path, Prepared, File
    <2>1. ASSUME prepare = "check", ~Torn
          PROVE  IsPrepared \/ \A p \in {Prepared, Data, Started} : cache[p] = "none"
        <3>1. CASE cache[Prepared] = "none"
            BY <2>0, <3>1 DEF Inv, CacheInv, DataIsCommitted
        <3>2. CASE cache[Prepared] = "whole"
            BY <2>0, <3>2, GuestAssumption
            DEF Inv, CacheInv, CommitIsWhole, IsPrepared, Installed, File, Config
        <3>3. QED
            BY <2>0, <2>1, <3>1, <3>2 DEF Torn
    <2>2. ASSUME prepare = "copy", copied + 1 \notin File
          PROVE  Installed
        BY <2>2, GuestAssumption DEF Inv, TypeOK, ProgressInv, Installed, File, Config
    <2>3. ASSUME prepare = "active"
          PROVE  IsPrepared
        BY <2>3, PreparedFiles DEF Inv, ProgressInv, IsPrepared
    <2>4. QED
        BY <2>1, <2>2, <2>3 DEF NeverRefused
<1>2. QED
    BY <1>1, Invariance, PTL

\* TornStays: nothing repairs a torn marker (tests/test_guest_image.py:233), and
\* k3s does not run with one.
THEOREM TornForGood == Spec => TornStays
<1>1. ASSUME Inv, Torn, Next
      PROVE  Torn' /\ k3s' = "dead"
    <2>0. /\ cache \in [Path -> {"none", "torn", "whole"}]
          /\ Prepared \in Path /\ Prepared \notin dirty
          /\ disk[Prepared] = "torn" /\ Prepared \notin File
          /\ prepare \notin {"copy", "mark", "commit", "active"} /\ k3s = "dead"
        BY <1>1, GuestAssumption
        DEF Inv, TypeOK, CacheInv, ProgressInv, Torn, Path, Prepared, File
    <2>1. CASE Boot \/ StartByHand \/ Check \/ PrepareFails
        BY <1>1, <2>0, <2>1 DEF Boot, StartByHand, Check, PrepareFails, Torn, files
    <2>2. CASE Reboot
        BY <1>1, <2>0, <2>2 DEF Reboot, Sync, Torn
    <2>3. CASE PowerLoss
        BY <1>1, <2>0, <2>3 DEF PowerLoss, Torn
    <2>4. QED
        BY <1>1, <2>0, <2>1, <2>2, <2>3 DEF Next, Steps, Copy, SyncFiles, Mark, Commit,
            Run, MarkStarted, SyncStarted, K3sDies, Inv, TypeOK
<1>2. Inv /\ [Next]_vars => [Torn => Torn' /\ k3s' = "dead"]_vars
    BY <1>1
<1>3. QED
    BY <1>2, Invariance, PTL DEF Spec, TornStays
-----------------------------------------------------------------------------
(***************************************************************************)
(* Guest implements Provisioning.                                          *)
(***************************************************************************)
\* The status is read off what was written.
LEMMA AnswersFollow == TypeOK /\ StageInv => Stages!True
BY GuestAssumption DEF TypeOK, StageInv, Stages!True, Answers, Stages!Truth, Stage,
                       IsPrepared, ErrorCode

\* Each step switches the power, writes the next marker, or does neither.
LEMMA StagesStep ==
    ASSUME TypeOK, StageInv, [Next]_vars
    PROVE  \/ Stages!Switch \/ Stages!Prepares \/ Stages!Starts
           \/ UNCHANGED <<prepare # "off", stage>>
<1> USE GuestAssumption DEF TypeOK, StageInv, Stage, Stages!Switch, Stages!Prepares,
                            Stages!Starts
<1>1. CASE Boot
    BY <1>1 DEF Boot
<1>2. CASE PowerLoss
    BY <1>2 DEF PowerLoss
<1>3. CASE Reboot
    BY <1>3 DEF Reboot
<1>4. CASE StartByHand
    BY <1>4 DEF StartByHand
<1>5. CASE Check
    BY <1>5 DEF Check
<1>6. CASE Copy
    BY <1>6 DEF Copy
<1>7. CASE SyncFiles
    BY <1>7 DEF SyncFiles
<1>8. CASE Mark
    BY <1>8 DEF Mark
<1>9. CASE Commit
    BY <1>9 DEF Commit
<1>10. CASE PrepareFails
    BY <1>10 DEF PrepareFails
<1>11. CASE Run
    BY <1>11 DEF Run
<1>12. CASE MarkStarted
    BY <1>12 DEF MarkStarted, IsPrepared
<1>13. CASE SyncStarted
    BY <1>13 DEF SyncStarted
<1>14. CASE K3sDies
    BY <1>14 DEF K3sDies
<1>15. CASE UNCHANGED vars
    BY <1>15
<1>16. QED
    BY <1>1, <1>2, <1>3, <1>4, <1>5, <1>6, <1>7, <1>8, <1>9, <1>10, <1>11, <1>12, <1>13, <1>14, <1>15 DEF Next, Steps

\* StagesSpec: what NodeManager assumes of a guest (NodeManager!Guests), this
\* guest does, with any number of power losses.
THEOREM ImplementsProvisioning == Spec => StagesSpec
<1>1. Init => Stages!Init
    BY GuestAssumption DEF Init, Stages!Init, Stages!True, Stages!Truth, Answers,
                           IsPrepared, Installed, ErrorCode
<1>2. Inv /\ Inv' /\ [Next]_vars => Stages!Next
    <2>1. Inv' => Stages!True'
        BY AnswersFollow, PTL DEF Inv
    <2>2. QED
        BY <2>1, StagesStep DEF Inv, Stages!Next
<1>3. QED
    BY <1>1, <1>2, Invariance, PTL DEF Spec, StagesSpec, Stages!Spec
=============================================================================
