------------------------------- MODULE Guest -------------------------------
(***************************************************************************)
(* A node's guest from its first boot (image/k3s-demo-guest, with its two  *)
(* systemd units): "prepare" installs the files of the seed and commits    *)
(* them with a marker, "run" starts k3s on them, and "mark-started"        *)
(* records that k3s came up.                                               *)
(*                                                                         *)
(* The power may go at any time. A file that is written is in the cache; a *)
(* power loss leaves, of each file written since the last sync, what the   *)
(* disk had, what was written, or a torn file: a rename does not wait for  *)
(* the data (btrfs, as for most file systems).                             *)
(*                                                                         *)
(* A boot starts prepare once, and k3s only after it; k3s is started again *)
(* when it ends, prepare is not. An operator reboots a guest whose prepare *)
(* failed, or has systemd start its units again.                           *)
(***************************************************************************)
EXTENDS Naturals, GuestStatus

CONSTANTS
    Fields,     \* how many files are installed besides the configuration
    MaxFaults,  \* bound on power losses, reboots and failures
    MaxHands    \* bound on starts by hand

ASSUME GuestAssumption == Fields \in Nat /\ MaxFaults \in Nat /\ MaxHands \in Nat

Config == 1                \* /etc/rancher/k3s/config.yaml
File == 1..(Fields + 1)    \* in the order in which they are installed
Prepared == Fields + 2     \* the marker
Data == Fields + 3         \* /var/lib/rancher/k3s
Started == Fields + 4      \* the other marker
Path == 1..(Fields + 4)

VARIABLES
    cache,    \* Path -> what a process finds there
    disk,     \* Path -> what is certain to be found after a power loss
    dirty,    \* the paths where it may be something else
    prepare,  \* k3s-demo-prepare.service, and how far it is
    copied,   \* the last file it installed
    k3s,      \* k3s-node.service
    stage,    \* how far the guest ever got: history, nothing reads it
    faults, hands

files == <<cache, disk, dirty>>
vars == <<files, prepare, copied, k3s, stage, faults, hands>>

TypeOK ==
    /\ cache \in [Path -> {"none", "torn", "whole"}]
    /\ disk \in [Path -> {"none", "torn", "whole"}]
    /\ dirty \in SUBSET Path
    /\ prepare \in {"off", "check", "copy", "mark", "commit", "active", "failed"}
    /\ copied \in 0..(Fields + 1)
    /\ k3s \in {"dead", "starting", "marked", "running"}
    /\ stage \in Stage
    /\ faults \in 0..MaxFaults /\ hands \in 0..MaxHands
    /\ k3s # "dead" => prepare = "active"

Init ==
    /\ cache = [p \in Path |-> "none"] /\ disk = cache /\ dirty = {}
    /\ prepare = "off" /\ copied = 0 /\ k3s = "dead"
    /\ stage = "blank" /\ faults = 0 /\ hands = 0
-----------------------------------------------------------------------------
Fault == faults < MaxFaults /\ faults' = faults + 1

\* Written to a file of its own, and renamed.
Write(p) ==
    /\ cache' = [cache EXCEPT ![p] = "whole"]
    /\ dirty' = dirty \cup {p} /\ UNCHANGED disk

Sync == disk' = cache /\ dirty' = {} /\ UNCHANGED cache

Boot ==
    /\ prepare = "off" /\ prepare' = "check" /\ copied' = 0
    /\ UNCHANGED <<files, k3s, stage, faults, hands>>

PowerLoss ==
    /\ prepare # "off" /\ prepare' = "off" /\ k3s' = "dead"
    /\ \E torn \in SUBSET dirty : \E kept \in SUBSET (dirty \ torn) :
          disk' = [p \in Path |-> IF p \in torn THEN "torn"
                                 ELSE IF p \in kept THEN cache[p] ELSE disk[p]]
    /\ cache' = disk' /\ dirty' = {}
    /\ Fault /\ UNCHANGED <<copied, stage, hands>>

\* In an orderly reboot nothing is lost.
Reboot ==
    /\ prepare # "off" /\ prepare' = "off" /\ k3s' = "dead"
    /\ Sync
    /\ Fault \/ (prepare = "failed" /\ UNCHANGED faults)
    /\ UNCHANGED <<copied, stage, hands>>

\* systemctl start of a unit that failed, or waits for one that did.
StartByHand ==
    /\ prepare = "failed" /\ prepare' = "check" /\ copied' = 0
    /\ hands < MaxHands /\ hands' = hands + 1
    /\ UNCHANGED <<files, k3s, stage, faults>>
-----------------------------------------------------------------------------
(***************************************************************************)
(* prepare.                                                                *)
(***************************************************************************)
\* A configuration that was cut short would pass: of its contents only the
\* size is looked at.
Installed ==
    /\ cache[Config] # "none"
    /\ \A f \in File \ {Config} : cache[f] = "whole"

IsPrepared == cache[Prepared] = "whole" /\ Installed

\* Mutant: a boot after the first is not told from it.
CheckAlways ==
    /\ prepare = "check"
    /\ prepare' = IF cache[Data] = "none" /\ cache[Started] = "none"
                  THEN "copy" ELSE "failed"
    /\ UNCHANGED <<files, copied, k3s, stage, faults, hands>>

\* What was committed is only looked at. A guest where k3s has run, and
\* nothing was committed, is not touched.
Check ==
    /\ prepare = "check"
    /\ \/ /\ cache[Prepared] # "none"
          /\ prepare' = IF IsPrepared THEN "active" ELSE "failed"
       \/ /\ cache[Prepared] = "none"
          /\ prepare' = IF cache[Data] = "none" /\ cache[Started] = "none"
                        THEN "copy" ELSE "failed"
    /\ UNCHANGED <<files, copied, k3s, stage, faults, hands>>

\* Mutant: a file too many.
CopyOneMore ==
    /\ prepare = "copy" /\ copied \in 0..(Fields + 1)
    /\ Write(copied + 1) /\ copied' = copied + 1
    /\ UNCHANGED <<prepare, k3s, stage, faults, hands>>

Copy ==
    /\ prepare = "copy" /\ copied + 1 \in File
    /\ Write(copied + 1) /\ copied' = copied + 1
    /\ UNCHANGED <<prepare, k3s, stage, faults, hands>>

\* Mutant: the marker may reach the disk before the files.
SyncNothing ==
    /\ prepare = "copy" /\ copied + 1 \notin File /\ Installed
    /\ prepare' = "mark"
    /\ UNCHANGED <<files, copied, k3s, stage, faults, hands>>

SyncFiles ==
    /\ prepare = "copy" /\ copied + 1 \notin File /\ Installed
    /\ Sync /\ prepare' = "mark"
    /\ UNCHANGED <<copied, k3s, stage, faults, hands>>

\* Mutant: prepare is done when the marker is written.
MarkOnly ==
    /\ prepare = "mark"
    /\ Write(Prepared) /\ prepare' = "active"
    /\ stage' = IF stage = "blank" THEN "prepared" ELSE stage
    /\ UNCHANGED <<copied, k3s, faults, hands>>

Mark ==
    /\ prepare = "mark"
    /\ Write(Prepared) /\ prepare' = "commit"
    /\ stage' = IF stage = "blank" THEN "prepared" ELSE stage
    /\ UNCHANGED <<copied, k3s, faults, hands>>

Commit ==
    /\ prepare = "commit"
    /\ Sync /\ prepare' = "active"
    /\ UNCHANGED <<copied, k3s, stage, faults, hands>>

\* No seed, a call that fails, or TimeoutStartSec is over.
PrepareFails ==
    /\ prepare \in {"check", "copy", "mark", "commit"}
    /\ prepare' = "failed" /\ Fault
    /\ UNCHANGED <<files, copied, k3s, stage, hands>>
-----------------------------------------------------------------------------
(***************************************************************************)
(* k3s-node.service.                                                       *)
(***************************************************************************)
Run ==
    /\ prepare = "active" /\ k3s = "dead" /\ IsPrepared
    /\ Write(Data) /\ k3s' = "starting"
    /\ UNCHANGED <<prepare, copied, stage, faults, hands>>

\* mark-started, when k3s has told systemd that it is ready. A torn marker is
\* written anew.
MarkStarted ==
    /\ k3s = "starting" /\ IsPrepared
    /\ \/ cache[Started] = "whole" /\ k3s' = "running" /\ UNCHANGED files
       \/ cache[Started] # "whole" /\ k3s' = "marked" /\ Write(Started)
    /\ stage' = "started"
    /\ UNCHANGED <<prepare, copied, faults, hands>>

SyncStarted ==
    /\ k3s = "marked" /\ k3s' = "running" /\ Sync
    /\ UNCHANGED <<prepare, copied, stage, faults, hands>>

\* k3s ends, does not get ready in time, or mark-started fails.
K3sDies ==
    /\ k3s # "dead" /\ k3s' = "dead" /\ Fault
    /\ UNCHANGED <<files, prepare, copied, stage, hands>>
-----------------------------------------------------------------------------
Steps ==
    \/ Check \/ Copy \/ SyncFiles \/ Mark \/ Commit
    \/ Run \/ MarkStarted \/ SyncStarted

Next == Boot \/ PowerLoss \/ Reboot \/ StartByHand \/ Steps \/ PrepareFails \/ K3sDies

Spec == Init /\ [][Next]_vars

\* The guest is powered on, what runs in it goes on, and an operator reboots a
\* guest whose prepare failed.
FairSpec ==
    /\ Spec /\ WF_vars(Boot) /\ WF_vars(Steps)
    /\ WF_vars(prepare = "failed" /\ Reboot)
-----------------------------------------------------------------------------
\* error_code of "status".
ErrorCode ==
    IF \/ prepare = "failed"
       \/ cache[Prepared] # "none" /\ ~IsPrepared
       \/ cache[Started] = "whole" /\ ~IsPrepared
    THEN "prepare-failed" ELSE "none"

\* Mutant: k3s has started when its unit has.
AnswersOfUnit ==
    (IF \A f \in File : cache[f] = "whole" THEN {} ELSE {"none"})
        \cup IF k3s # "dead" THEN {"started"}
             ELSE IF ErrorCode = "prepare-failed" THEN {"prepare-failed"}
             ELSE IF IsPrepared THEN {"prepared"} ELSE {"none"}

\* What the observer makes of "status".  Without an identity, which is one of the
\* files, a status argues for nothing.  The files are read one by one, but what
\* was true of one stage is true of the next.
Answers ==
    (IF \A f \in File : cache[f] = "whole" THEN {} ELSE {"none"})
        \cup IF cache[Started] = "whole" THEN {"started"}
             ELSE IF ErrorCode = "prepare-failed" THEN {"prepare-failed"}
             ELSE IF IsPrepared THEN {"prepared"} ELSE {"none"}

\* What the dashboard relies on, whatever the power takes back of the files: the
\* guest gets on as Provisioning says, and answers no more than it ever reached.
Stages == INSTANCE Provisioning WITH
    power <- (prepare # "off"), answers <- Answers

StagesSpec == Stages!Spec

\* The marker commits: wherever the power goes, and however often prepare is
\* begun again, where there is one every file is whole, and cannot be lost.
CommitIsWhole ==
    cache[Prepared] # "none" \/ disk[Prepared] # "none" =>
        \A f \in File : disk[f] = "whole" /\ f \notin dirty

\* "No process may have run k3s before this transaction was committed": when
\* prepare was not started again by hand, k3s has run, and said that it did,
\* only if the marker cannot be lost.
DataIsCommitted ==
    (cache[Data] # "none" \/ cache[Started] # "none") /\ hands = 0 =>
        disk[Prepared] = "whole" /\ Prepared \notin dirty

\* Why: what the cache and the disk can differ in,
CacheInv ==
    /\ \A p \in Path \ dirty : cache[p] = disk[p]
    /\ \A p \in dirty : cache[p] = "whole"
    /\ \A p \in Path : disk[p] # "none" => cache[p] # "none"

\* how far the files are while there is no marker,
ProgressInv ==
    /\ prepare = "check" => copied = 0
    /\ prepare \in {"copy", "mark"} => cache[Prepared] = "none"
    /\ prepare \in {"commit", "active"} => cache[Prepared] = "whole"
    /\ prepare = "copy" => \A f \in 1..copied : cache[f] = "whole"
    /\ prepare \in {"mark", "commit", "active"} =>
          \A f \in File : disk[f] = "whole" /\ f \notin dirty

\* that a marker tells of a stage that was reached,
StageInv ==
    /\ cache[Prepared] # "none" => stage # "blank"
    /\ cache[Started] # "none" => stage = "started"

\* and when the marker cannot be lost.
MarkerInv ==
    hands = 0 =>
        /\ prepare \in {"off", "check"} => dirty = {}
        /\ prepare = "active" => disk[Prepared] = "whole" /\ Prepared \notin dirty

Torn == cache[Prepared] = "torn"

\* When the power stays on at last, k3s runs; or the marker was torn, which
\* nothing repairs, and that is what the guest reports.
GuestRecovers ==
    [](hands = 0) =>
        <>[](k3s = "running") \/ <>[](Torn /\ ErrorCode = "prepare-failed")

\* What is safe about it: nothing but a torn marker has prepare refuse a guest,
\* or keeps k3s from being started, and a torn marker does so for good.
NeverRefused ==
    hands = 0 =>
        /\ prepare = "check" /\ ~Torn =>
              IsPrepared \/ \A p \in {Prepared, Data, Started} : cache[p] = "none"
        /\ prepare = "copy" /\ copied + 1 \notin File => Installed
        /\ prepare = "active" => IsPrepared

TornStays == [][Torn => Torn' /\ k3s' = "dead"]_vars
=============================================================================
