---------------------------- MODULE PruneProofs ----------------------------
(***************************************************************************)
(* Proofs about Prune, for any number of nodes and any requests.           *)
(***************************************************************************)
EXTENDS Prune, FiniteSetTheorems, TLAPS

USE DEF libvirt, cluster, results, locals, vars, Name, Managed, Running, Gone,
        Waiting, Holding, Goto, Command, Skipped

\* Every step keeps the types, and the lock with those who hold it.
LEMMA TypeStep == Inv /\ [Next]_vars => TypeOK'
<1> SUFFICES ASSUME TypeOK, NamesInv, [Next]_vars
             PROVE  TypeOK'
    BY DEF Inv
<1> USE PruneAssumption DEF TypeOK, NamesInv
<1>1. ASSUME NEW n \in Node, NEW isServer \in BOOLEAN, Deploy(n, isServer)
       PROVE  TypeOK'
    BY <1>1 DEF Deploy
<1>2. ASSUME NEW n \in Node, Kill(n)
       PROVE  TypeOK'
    BY <1>2 DEF Kill, Stopped
<1>3. ASSUME NEW n \in Node, Power(n)
       PROVE  TypeOK'
    BY <1>3 DEF Power, Stopped
<1>4. ASSUME NEW n \in Node, Configure(n)
       PROVE  TypeOK'
    BY <1>4 DEF Configure
<1>5. ASSUME NEW n \in Name, Join(n)
       PROVE  TypeOK'
    BY <1>5 DEF Join, Node
<1>6. ASSUME Redefine
       PROVE  TypeOK'
    BY <1>6 DEF Redefine
<1>7. ASSUME NEW c \in commands, Runs(c)
       PROVE  TypeOK'
    BY <1>7 DEF Runs
<1>8. ASSUME NEW r \in Request, Snapshot(r)
       PROVE  TypeOK'
    BY <1>8 DEF Snapshot, Usable
<1>9. ASSUME NEW r \in Request, Fails(r)
       PROVE  TypeOK'
    BY <1>9 DEF Fails, Raise, Leave
<1>10. ASSUME NEW r \in Request, Start(r)
       PROVE  TypeOK'
    BY <1>10 DEF Start
<1>11. ASSUME NEW r \in Request, Listed(r)
       PROVE  TypeOK'
    <2>1. CASE Goto(r, "next") /\ UNCHANGED <<libvirt, lock, locals>>
        BY <1>11, <2>1 DEF Listed
    <2>2. CASE Raise(r)
        BY <1>11, <2>2 DEF Listed, Raise, Leave
    <2>3. QED
        BY <1>11, <2>1, <2>2 DEF Listed
<1>12. ASSUME NEW r \in Request, Lock(r)
       PROVE  TypeOK'
    BY <1>12 DEF Lock
<1>13. ASSUME NEW r \in Request, Incompatible(r)
       PROVE  TypeOK'
    BY <1>13 DEF Incompatible, Raise, Leave
<1>14. ASSUME NEW r \in Request, Found(r)
       PROVE  TypeOK'
    BY <1>14 DEF Found
<1>15. ASSUME NEW r \in Request, NotFound(r)
       PROVE  TypeOK'
    BY <1>15 DEF NotFound
<1>16. ASSUME NEW r \in Request, Deleted(r)
       PROVE  TypeOK'
    <2>1. candidate[r] \in Name
        BY <1>16 DEF Deleted, NamesInv
    <2>2. /\ deleted' \in [Request -> SUBSET Name] /\ failed' \in [Request -> SUBSET Name]
        BY <1>16, <2>1 DEF Deleted
    <2>3. /\ pc' = [pc EXCEPT ![r] = "next"] /\ lock' = None /\ pc[r] = "deleting"
          /\ UNCHANGED <<libvirt, cluster, alive, server, todo, candidate, reply, stale>>
        BY <1>16 DEF Deleted
    <2>4. QED
        BY <2>2, <2>3
<1>17. ASSUME NEW r \in Request, Deadline(r)
       PROVE  TypeOK'
    BY <1>17 DEF Deadline, Raise, Leave
<1>18. ASSUME NEW r \in Request, Unreachable(r)
       PROVE  TypeOK'
    BY <1>18 DEF Unreachable, Raise, Leave
<1>19. ASSUME NEW r \in Request, Finish(r)
       PROVE  TypeOK'
    BY <1>19 DEF Finish, Leave
<1>20. CASE UNCHANGED vars
    BY <1>20
<1>21. QED
    BY <1>1, <1>2, <1>3, <1>4, <1>5, <1>6, <1>7, <1>8, <1>9, <1>10, <1>11, <1>12, <1>13, <1>14, <1>15, <1>16, <1>17, <1>18, <1>19, <1>20 DEF Next, Others, Step

\* No step lets a name appear that no node was deployed with.
LEMMA NamesStep == Inv /\ [Next]_vars => NamesInv'
<1> SUFFICES ASSUME TypeOK, NamesInv, [Next]_vars
             PROVE  NamesInv'
    BY DEF Inv
<1> USE PruneAssumption DEF TypeOK, NamesInv
<1>1. ASSUME NEW n \in Node, NEW isServer \in BOOLEAN, Deploy(n, isServer)
       PROVE  NamesInv'
    BY <1>1 DEF Deploy
<1>2. ASSUME NEW n \in Node, Kill(n)
       PROVE  NamesInv'
    BY <1>2 DEF Kill, Stopped
<1>3. ASSUME NEW n \in Node, Power(n)
       PROVE  NamesInv'
    BY <1>3 DEF Power, Stopped
<1>4. ASSUME NEW n \in Node, Configure(n)
       PROVE  NamesInv'
    BY <1>4 DEF Configure
<1>5. ASSUME NEW n \in Name, Join(n)
       PROVE  NamesInv'
    BY <1>5 DEF Join, Node
<1>6. ASSUME Redefine
       PROVE  NamesInv'
    BY <1>6 DEF Redefine
<1>7. ASSUME NEW c \in commands, Runs(c)
       PROVE  NamesInv'
    BY <1>7 DEF Runs
<1>8. ASSUME NEW r \in Request, Snapshot(r)
       PROVE  NamesInv'
    BY <1>8 DEF Snapshot, Usable
<1>9. ASSUME NEW r \in Request, Fails(r)
       PROVE  NamesInv'
    BY <1>9 DEF Fails, Raise, Leave
<1>10. ASSUME NEW r \in Request, Start(r)
       PROVE  NamesInv'
    BY <1>10 DEF Start
<1>11. ASSUME NEW r \in Request, Listed(r)
       PROVE  NamesInv'
    BY <1>11 DEF Listed, Raise, Leave
<1>12. ASSUME NEW r \in Request, Lock(r)
       PROVE  NamesInv'
    BY <1>12 DEF Lock
<1>13. ASSUME NEW r \in Request, Incompatible(r)
       PROVE  NamesInv'
    BY <1>13 DEF Incompatible, Raise, Leave
<1>14. ASSUME NEW r \in Request, Found(r)
       PROVE  NamesInv'
    BY <1>14 DEF Found
<1>15. ASSUME NEW r \in Request, NotFound(r)
       PROVE  NamesInv'
    BY <1>15 DEF NotFound
<1>16. ASSUME NEW r \in Request, Deleted(r)
       PROVE  NamesInv'
    BY <1>16 DEF Deleted
<1>17. ASSUME NEW r \in Request, Deadline(r)
       PROVE  NamesInv'
    BY <1>17 DEF Deadline, Raise, Leave
<1>18. ASSUME NEW r \in Request, Unreachable(r)
       PROVE  NamesInv'
    BY <1>18 DEF Unreachable, Raise, Leave
<1>19. ASSUME NEW r \in Request, Finish(r)
       PROVE  NamesInv'
    BY <1>19 DEF Finish, Leave
<1>20. CASE UNCHANGED vars
    BY <1>20
<1>21. QED
    BY <1>1, <1>2, <1>3, <1>4, <1>5, <1>6, <1>7, <1>8, <1>9, <1>10, <1>11, <1>12, <1>13, <1>14, <1>15, <1>16, <1>17, <1>18, <1>19, <1>20 DEF Next, Others, Step

\* What is being deleted, was deleted or was stale is a node gone for good.
LEMMA GoneStep == Inv /\ [Next]_vars => GoneInv'
<1> SUFFICES ASSUME TypeOK, NamesInv, GoneInv, CommandInv, [Next]_vars
             PROVE  GoneInv'
    BY DEF Inv
<1> USE PruneAssumption DEF TypeOK, NamesInv, GoneInv, CommandInv
<1>1. ASSUME NEW n \in Node, NEW isServer \in BOOLEAN, Deploy(n, isServer)
       PROVE  GoneInv'
    BY <1>1 DEF Deploy
<1>2. ASSUME NEW n \in Node, Kill(n)
       PROVE  GoneInv'
    BY <1>2 DEF Kill, Stopped
<1>3. ASSUME NEW n \in Node, Power(n)
       PROVE  GoneInv'
    BY <1>3 DEF Power, Stopped
<1>4. ASSUME NEW n \in Node, Configure(n)
       PROVE  GoneInv'
    BY <1>4 DEF Configure
<1>5. ASSUME NEW n \in Name, Join(n)
       PROVE  GoneInv'
    BY <1>5 DEF Join, Node
<1>6. ASSUME Redefine
       PROVE  GoneInv'
    BY <1>6 DEF Redefine
<1>7. ASSUME NEW c \in commands, Runs(c)
       PROVE  GoneInv'
    BY <1>7 DEF Runs
<1>8. ASSUME NEW r \in Request, Snapshot(r)
       PROVE  GoneInv'
    BY <1>8 DEF Snapshot, Usable
<1>9. ASSUME NEW r \in Request, Fails(r)
       PROVE  GoneInv'
    BY <1>9 DEF Fails, Raise, Leave
<1>10. ASSUME NEW r \in Request, Start(r)
       PROVE  GoneInv'
    BY <1>10 DEF Start
<1>11. ASSUME NEW r \in Request, Listed(r)
       PROVE  GoneInv'
    BY <1>11 DEF Listed, Raise, Leave
<1>12. ASSUME NEW r \in Request, Lock(r)
       PROVE  GoneInv'
    BY <1>12 DEF Lock
<1>13. ASSUME NEW r \in Request, Incompatible(r)
       PROVE  GoneInv'
    BY <1>13 DEF Incompatible, Raise, Leave
<1>14. ASSUME NEW r \in Request, Found(r)
       PROVE  GoneInv'
    BY <1>14 DEF Found
<1>15. ASSUME NEW r \in Request, NotFound(r)
       PROVE  GoneInv'
    BY <1>15 DEF NotFound
<1>16. ASSUME NEW r \in Request, Deleted(r)
       PROVE  GoneInv'
    BY <1>16 DEF Deleted
<1>17. ASSUME NEW r \in Request, Deadline(r)
       PROVE  GoneInv'
    BY <1>17 DEF Deadline, Raise, Leave
<1>18. ASSUME NEW r \in Request, Unreachable(r)
       PROVE  GoneInv'
    BY <1>18 DEF Unreachable, Raise, Leave
<1>19. ASSUME NEW r \in Request, Finish(r)
       PROVE  GoneInv'
    BY <1>19 DEF Finish, Leave
<1>20. CASE UNCHANGED vars
    BY <1>20
<1>21. QED
    BY <1>1, <1>2, <1>3, <1>4, <1>5, <1>6, <1>7, <1>8, <1>9, <1>10, <1>11, <1>12, <1>13, <1>14, <1>15, <1>16, <1>17, <1>18, <1>19, <1>20 DEF Next, Others, Step

\* A command belongs to the request that waits for it, or to one that is over.
LEMMA CommandStep == Inv /\ [Next]_vars => CommandInv'
<1> SUFFICES ASSUME TypeOK, CommandInv, [Next]_vars
             PROVE  CommandInv'
    BY DEF Inv
<1> USE PruneAssumption DEF TypeOK, CommandInv
<1>1. ASSUME NEW n \in Node, NEW isServer \in BOOLEAN, Deploy(n, isServer)
       PROVE  CommandInv'
    BY <1>1 DEF Deploy
<1>2. ASSUME NEW n \in Node, Kill(n)
       PROVE  CommandInv'
    BY <1>2 DEF Kill, Stopped
<1>3. ASSUME NEW n \in Node, Power(n)
       PROVE  CommandInv'
    BY <1>3 DEF Power, Stopped
<1>4. ASSUME NEW n \in Node, Configure(n)
       PROVE  CommandInv'
    BY <1>4 DEF Configure
<1>5. ASSUME NEW n \in Name, Join(n)
       PROVE  CommandInv'
    BY <1>5 DEF Join, Node
<1>6. ASSUME Redefine
       PROVE  CommandInv'
    BY <1>6 DEF Redefine
<1>7. ASSUME NEW c \in commands, Runs(c)
       PROVE  CommandInv'
    BY <1>7 DEF Runs
<1>8. ASSUME NEW r \in Request, Snapshot(r)
       PROVE  CommandInv'
    BY <1>8 DEF Snapshot, Usable
<1>9. ASSUME NEW r \in Request, Fails(r)
       PROVE  CommandInv'
    BY <1>9 DEF Fails, Raise, Leave
<1>10. ASSUME NEW r \in Request, Start(r)
       PROVE  CommandInv'
    BY <1>10 DEF Start
<1>11. ASSUME NEW r \in Request, Listed(r)
       PROVE  CommandInv'
    BY <1>11 DEF Listed, Raise, Leave
<1>12. ASSUME NEW r \in Request, Lock(r)
       PROVE  CommandInv'
    BY <1>12 DEF Lock
<1>13. ASSUME NEW r \in Request, Incompatible(r)
       PROVE  CommandInv'
    BY <1>13 DEF Incompatible, Raise, Leave
<1>14. ASSUME NEW r \in Request, Found(r)
       PROVE  CommandInv'
    BY <1>14 DEF Found
<1>15. ASSUME NEW r \in Request, NotFound(r)
       PROVE  CommandInv'
    BY <1>15 DEF NotFound
<1>16. ASSUME NEW r \in Request, Deleted(r)
       PROVE  CommandInv'
    BY <1>16 DEF Deleted
<1>17. ASSUME NEW r \in Request, Deadline(r)
       PROVE  CommandInv'
    BY <1>17 DEF Deadline, Raise, Leave
<1>18. ASSUME NEW r \in Request, Unreachable(r)
       PROVE  CommandInv'
    BY <1>18 DEF Unreachable, Raise, Leave
<1>19. ASSUME NEW r \in Request, Finish(r)
       PROVE  CommandInv'
    BY <1>19 DEF Finish, Leave
<1>20. CASE UNCHANGED vars
    BY <1>20
<1>21. QED
    BY <1>1, <1>2, <1>3, <1>4, <1>5, <1>6, <1>7, <1>8, <1>9, <1>10, <1>11, <1>12, <1>13, <1>14, <1>15, <1>16, <1>17, <1>18, <1>19, <1>20 DEF Next, Others, Step

\* A stale object is ahead of the request, at hand, reported, or deleted.
LEMMA ProgressStep == Inv /\ [Next]_vars => ProgressInv'
<1> SUFFICES ASSUME TypeOK, NamesInv, GoneInv, CommandInv, ProgressInv, [Next]_vars
             PROVE  ProgressInv'
    BY DEF Inv
<1> USE PruneAssumption DEF TypeOK, NamesInv, GoneInv, CommandInv, ProgressInv
<1>1. ASSUME NEW n \in Node, NEW isServer \in BOOLEAN, Deploy(n, isServer)
       PROVE  ProgressInv'
    BY <1>1 DEF Deploy
<1>2. ASSUME NEW n \in Node, Kill(n)
       PROVE  ProgressInv'
    BY <1>2 DEF Kill, Stopped
<1>3. ASSUME NEW n \in Node, Power(n)
       PROVE  ProgressInv'
    BY <1>3 DEF Power, Stopped
<1>4. ASSUME NEW n \in Node, Configure(n)
       PROVE  ProgressInv'
    BY <1>4 DEF Configure
<1>5. ASSUME NEW n \in Name, Join(n)
       PROVE  ProgressInv'
    BY <1>5 DEF Join, Node
<1>6. ASSUME Redefine
       PROVE  ProgressInv'
    BY <1>6 DEF Redefine
<1>7. ASSUME NEW c \in commands, Runs(c)
       PROVE  ProgressInv'
    <2>1. /\ UNCHANGED <<libvirt, lock, pc, alive, server, candidate, results, stale>>
          /\ objects' \subseteq objects
          /\ c.delete # None => c.delete \in Gone
        BY <1>7 DEF Runs
    <2>2. ASSUME NEW r \in Request, r # c.for \/ pc[r] \notin Waiting
          PROVE  todo'[r] = todo[r] /\ reply'[r] = reply[r]
        BY <1>7, <2>2 DEF Runs
    <2>3. ASSUME NEW r \in Request, r = c.for, pc[r] = "listing", reply'[r] = "ok"
          PROVE  stale[r] \cap objects' \subseteq todo'[r]
        BY <1>7, <2>3 DEF Runs
    <2>4. ASSUME NEW r \in Request, r = c.for, pc[r] = "deleting"
          PROVE  /\ reply'[r] = "ok" => candidate[r] \notin objects'
                 /\ todo'[r] = todo[r]
        <3>1. c.delete = candidate[r] /\ c.delete # None
            BY <2>4 DEF Node
        <3>2. c.delete # None /\ r = c.for
            BY <3>1, <2>4
        <3>3. PICK ok \in BOOLEAN :
                 /\ \/ c.delete \in objects /\ objects' = objects \ {c.delete}
                    \/ ~ok
                 /\ reply' = [reply EXCEPT ![c.for] = IF ok THEN "ok" ELSE "error"]
                 /\ todo' = todo
            BY <1>7, <2>4, <3>2 DEF Runs
        <3>4. QED
            BY <2>4, <3>1, <3>3
    <2>5. QED
        BY <2>1, <2>2, <2>3, <2>4
<1>8. ASSUME NEW r \in Request, Snapshot(r)
       PROVE  ProgressInv'
    BY <1>8 DEF Snapshot, Usable
<1>9. ASSUME NEW r \in Request, Fails(r)
       PROVE  ProgressInv'
    BY <1>9 DEF Fails, Raise, Leave
<1>10. ASSUME NEW r \in Request, Start(r)
       PROVE  ProgressInv'
    BY <1>10 DEF Start
<1>11. ASSUME NEW r \in Request, Listed(r)
       PROVE  ProgressInv'
    BY <1>11 DEF Listed, Raise, Leave
<1>12. ASSUME NEW r \in Request, Lock(r)
       PROVE  ProgressInv'
    BY <1>12 DEF Lock
<1>13. ASSUME NEW r \in Request, Incompatible(r)
       PROVE  ProgressInv'
    BY <1>13 DEF Incompatible, Raise, Leave
<1>14. ASSUME NEW r \in Request, Found(r)
       PROVE  ProgressInv'
    BY <1>14 DEF Found
<1>15. ASSUME NEW r \in Request, NotFound(r)
       PROVE  ProgressInv'
    BY <1>15 DEF NotFound
<1>16. ASSUME NEW r \in Request, Deleted(r)
       PROVE  ProgressInv'
    BY <1>16 DEF Deleted
<1>17. ASSUME NEW r \in Request, Deadline(r)
       PROVE  ProgressInv'
    BY <1>17 DEF Deadline, Raise, Leave
<1>18. ASSUME NEW r \in Request, Unreachable(r)
       PROVE  ProgressInv'
    BY <1>18 DEF Unreachable, Raise, Leave
<1>19. ASSUME NEW r \in Request, Finish(r)
       PROVE  ProgressInv'
    BY <1>19 DEF Finish, Leave
<1>20. CASE UNCHANGED vars
    BY <1>20
<1>21. QED
    BY <1>1, <1>2, <1>3, <1>4, <1>5, <1>6, <1>7, <1>8, <1>9, <1>10, <1>11, <1>12, <1>13, <1>14, <1>15, <1>16, <1>17, <1>18, <1>19, <1>20 DEF Next, Others, Step

\* Nothing that was reported as deleted comes back.
LEMMA ReportStep == Inv /\ [Next]_vars => DeletedIsGone'
<1> SUFFICES ASSUME TypeOK, GoneInv, ProgressInv, DeletedIsGone, [Next]_vars
             PROVE  DeletedIsGone'
    BY DEF Inv
<1> USE PruneAssumption DEF TypeOK, GoneInv, ProgressInv, DeletedIsGone
<1>1. ASSUME NEW n \in Node, NEW isServer \in BOOLEAN, Deploy(n, isServer)
       PROVE  DeletedIsGone'
    BY <1>1 DEF Deploy
<1>2. ASSUME NEW n \in Node, Kill(n)
       PROVE  DeletedIsGone'
    BY <1>2 DEF Kill, Stopped
<1>3. ASSUME NEW n \in Node, Power(n)
       PROVE  DeletedIsGone'
    BY <1>3 DEF Power, Stopped
<1>4. ASSUME NEW n \in Node, Configure(n)
       PROVE  DeletedIsGone'
    BY <1>4 DEF Configure
<1>5. ASSUME NEW n \in Name, Join(n)
       PROVE  DeletedIsGone'
    BY <1>5 DEF Join, Node
<1>6. ASSUME Redefine
       PROVE  DeletedIsGone'
    BY <1>6 DEF Redefine
<1>7. ASSUME NEW c \in commands, Runs(c)
       PROVE  DeletedIsGone'
    BY <1>7 DEF Runs
<1>8. ASSUME NEW r \in Request, Snapshot(r)
       PROVE  DeletedIsGone'
    BY <1>8 DEF Snapshot, Usable
<1>9. ASSUME NEW r \in Request, Fails(r)
       PROVE  DeletedIsGone'
    BY <1>9 DEF Fails, Raise, Leave
<1>10. ASSUME NEW r \in Request, Start(r)
       PROVE  DeletedIsGone'
    BY <1>10 DEF Start
<1>11. ASSUME NEW r \in Request, Listed(r)
       PROVE  DeletedIsGone'
    BY <1>11 DEF Listed, Raise, Leave
<1>12. ASSUME NEW r \in Request, Lock(r)
       PROVE  DeletedIsGone'
    BY <1>12 DEF Lock
<1>13. ASSUME NEW r \in Request, Incompatible(r)
       PROVE  DeletedIsGone'
    BY <1>13 DEF Incompatible, Raise, Leave
<1>14. ASSUME NEW r \in Request, Found(r)
       PROVE  DeletedIsGone'
    BY <1>14 DEF Found
<1>15. ASSUME NEW r \in Request, NotFound(r)
       PROVE  DeletedIsGone'
    BY <1>15 DEF NotFound
<1>16. ASSUME NEW r \in Request, Deleted(r)
       PROVE  DeletedIsGone'
    BY <1>16 DEF Deleted
<1>17. ASSUME NEW r \in Request, Deadline(r)
       PROVE  DeletedIsGone'
    BY <1>17 DEF Deadline, Raise, Leave
<1>18. ASSUME NEW r \in Request, Unreachable(r)
       PROVE  DeletedIsGone'
    BY <1>18 DEF Unreachable, Raise, Leave
<1>19. ASSUME NEW r \in Request, Finish(r)
       PROVE  DeletedIsGone'
    BY <1>19 DEF Finish, Leave
<1>20. CASE UNCHANGED vars
    BY <1>20
<1>21. QED
    BY <1>1, <1>2, <1>3, <1>4, <1>5, <1>6, <1>7, <1>8, <1>9, <1>10, <1>11, <1>12, <1>13, <1>14, <1>15, <1>16, <1>17, <1>18, <1>19, <1>20 DEF Next, Others, Step

\* A request that ends normally has accounted for what was stale.
LEMMA CompleteStep == Inv /\ [Next]_vars => StaleIsReported'
<1> SUFFICES ASSUME TypeOK, GoneInv, ProgressInv, StaleIsReported, [Next]_vars
             PROVE  StaleIsReported'
    BY DEF Inv
<1> USE PruneAssumption DEF TypeOK, GoneInv, ProgressInv, StaleIsReported
<1>1. ASSUME NEW n \in Node, NEW isServer \in BOOLEAN, Deploy(n, isServer)
       PROVE  StaleIsReported'
    BY <1>1 DEF Deploy
<1>2. ASSUME NEW n \in Node, Kill(n)
       PROVE  StaleIsReported'
    BY <1>2 DEF Kill, Stopped
<1>3. ASSUME NEW n \in Node, Power(n)
       PROVE  StaleIsReported'
    BY <1>3 DEF Power, Stopped
<1>4. ASSUME NEW n \in Node, Configure(n)
       PROVE  StaleIsReported'
    BY <1>4 DEF Configure
<1>5. ASSUME NEW n \in Name, Join(n)
       PROVE  StaleIsReported'
    BY <1>5 DEF Join, Node
<1>6. ASSUME Redefine
       PROVE  StaleIsReported'
    BY <1>6 DEF Redefine
<1>7. ASSUME NEW c \in commands, Runs(c)
       PROVE  StaleIsReported'
    BY <1>7 DEF Runs
<1>8. ASSUME NEW r \in Request, Snapshot(r)
       PROVE  StaleIsReported'
    BY <1>8 DEF Snapshot, Usable
<1>9. ASSUME NEW r \in Request, Fails(r)
       PROVE  StaleIsReported'
    BY <1>9 DEF Fails, Raise, Leave
<1>10. ASSUME NEW r \in Request, Start(r)
       PROVE  StaleIsReported'
    BY <1>10 DEF Start
<1>11. ASSUME NEW r \in Request, Listed(r)
       PROVE  StaleIsReported'
    BY <1>11 DEF Listed, Raise, Leave
<1>12. ASSUME NEW r \in Request, Lock(r)
       PROVE  StaleIsReported'
    BY <1>12 DEF Lock
<1>13. ASSUME NEW r \in Request, Incompatible(r)
       PROVE  StaleIsReported'
    BY <1>13 DEF Incompatible, Raise, Leave
<1>14. ASSUME NEW r \in Request, Found(r)
       PROVE  StaleIsReported'
    BY <1>14 DEF Found
<1>15. ASSUME NEW r \in Request, NotFound(r)
       PROVE  StaleIsReported'
    BY <1>15 DEF NotFound
<1>16. ASSUME NEW r \in Request, Deleted(r)
       PROVE  StaleIsReported'
    BY <1>16 DEF Deleted
<1>17. ASSUME NEW r \in Request, Deadline(r)
       PROVE  StaleIsReported'
    BY <1>17 DEF Deadline, Raise, Leave
<1>18. ASSUME NEW r \in Request, Unreachable(r)
       PROVE  StaleIsReported'
    BY <1>18 DEF Unreachable, Raise, Leave
<1>19. ASSUME NEW r \in Request, Finish(r)
       PROVE  StaleIsReported'
    <2>1. ASSUME NEW q \in Request, q # r
          PROVE  pc'[q] = pc[q]
        BY <1>19, <2>1 DEF Finish, Leave
    <2>2. stale[r] \cap objects \subseteq failed[r]
        <3>1. stale[r] \subseteq Node /\ Node \cap Alien = {}
            BY DEF Node
        <3>2. QED
            BY <1>19, <3>1 DEF Finish
    <2>3. UNCHANGED <<stale, objects, failed>>
        BY <1>19 DEF Finish
    <2>4. QED
        BY <2>1, <2>2, <2>3
<1>20. CASE UNCHANGED vars
    BY <1>20
<1>21. QED
    BY <1>1, <1>2, <1>3, <1>4, <1>5, <1>6, <1>7, <1>8, <1>9, <1>10, <1>11, <1>12, <1>13, <1>14, <1>15, <1>16, <1>17, <1>18, <1>19, <1>20 DEF Next, Others, Step

LEMMA InitInv == Init => Inv
<1> SUFFICES ASSUME Init
             PROVE  Inv
    OBVIOUS
<1> USE PruneAssumption DEF Init
<1>1. TypeOK
    <2>1. compatible \in BOOLEAN
        BY Zenon
    <2>2. QED
        BY <2>1 DEF TypeOK
<1>2. NamesInv /\ GoneInv /\ CommandInv /\ ProgressInv
    BY DEF NamesInv, GoneInv, CommandInv, ProgressInv
<1>3. DeletedIsGone /\ StaleIsReported
    BY DEF DeletedIsGone, StaleIsReported
<1>4. QED
    BY <1>1, <1>2, <1>3 DEF Inv

\* The inductive invariant holds of every reachable state.
THEOREM Invariance == Spec => []Inv
<1>1. Inv /\ [Next]_vars => Inv'
    BY TypeStep, NamesStep, GoneStep, CommandStep, ProgressStep, ReportStep,
       CompleteStep DEF Inv
<1>2. QED
    BY InitInv, <1>1, PTL DEF Spec

\* The variables keep their types, and whoever is in the section that
\* prune_nodes runs under manager.lock, and nobody else, holds the lock.
THEOREM TypeCorrect == Spec => []TypeOK
<1>1. Inv => TypeOK
    BY DEF Inv
<1>2. QED
    BY <1>1, Invariance, PTL

\* What prune_nodes reports as deleted is gone, and stays so; a request that it
\* returns from has accounted for every object that was stale when it began.
THEOREM ReportsAreTrue == Spec => []ReportIsTrue
<1>1. Inv => ReportIsTrue
    BY DEF Inv, ReportIsTrue
<1>2. QED
    BY <1>1, Invariance, PTL

\* No command of prune_nodes ever deletes the object of a node that has a
\* domain, or of somebody else's machine.
THEOREM MembersAreKept == Spec => MembersStay
<1>1. Inv /\ [Next]_vars => [Managed # {} => objects \ objects' \subseteq Gone]_vars
    <2> SUFFICES ASSUME TypeOK, GoneInv, Next, Managed # {}
                 PROVE  objects \ objects' \subseteq Gone
        BY DEF Inv
    <2> USE PruneAssumption
    <2>1. ASSUME NEW n \in Node, NEW isServer \in BOOLEAN, Deploy(n, isServer)
          PROVE  objects' = objects
        BY <2>1 DEF Deploy
    <2>2. ASSUME NEW c \in commands, Runs(c)
          PROVE  objects \ objects' \subseteq Gone
        <3>1. objects' = objects \/ (c.delete \in objects /\ objects' = objects \ {c.delete})
            BY <2>2 DEF Runs
        <3>2. objects \subseteq Name
            BY DEF TypeOK
        <3>3. c.delete \in objects => c.delete \in Gone
            <4>1. None \notin Name
                BY DEF Node
            <4>2. QED
                BY <3>2, <4>1 DEF GoneInv
        <3>4. QED
            BY <3>1, <3>3
    <2>3. ASSUME NEW n \in Node, Kill(n) \/ Power(n) \/ Configure(n)
          PROVE  objects' = objects
        BY <2>3 DEF Kill, Power, Stopped, Configure
    <2>4. ASSUME NEW n \in Name, Join(n)
          PROVE  objects \subseteq objects'
        BY <2>4 DEF Join
    <2>5. ASSUME NEW r \in Request, Snapshot(r) \/ Fails(r) \/ Step(r)
          PROVE  objects' = objects
        BY <2>5 DEF Snapshot, Fails, Step, Start, Listed, Lock, Incompatible, Found,
                    NotFound, Deleted, Deadline, Unreachable, Finish
    <2>6. CASE Redefine
        BY <2>6 DEF Redefine
    <2>7. QED
        BY <2>1, <2>2, <2>3, <2>4, <2>5, <2>6 DEF Next, Others
<1>2. QED
    BY <1>1, Invariance, PTL DEF Spec, MembersStay
-----------------------------------------------------------------------------
\* Of count control plane nodes, one less than half may fail.
LEMMA ToleranceIs ==
    ASSUME NEW count \in Nat \ {0}
    PROVE  Tolerance(count) = (count - 1) \div 2
<1> DEFINE f == (count - 1) \div 2
<1>1. /\ f \in 0..count
      /\ 2 * (count - f) > count /\ 2 * (count - f - 1) <= count
    OBVIOUS
<1>2. ASSUME NEW g \in 0..count, 2 * (count - g) > count, 2 * (count - g - 1) <= count
      PROVE  g = f
    BY <1>2
<1>3. QED
    BY <1>1, <1>2 DEF Tolerance

\* assess_quorum's arithmetic is right for any number of nodes.
THEOREM AdviceIsAlwaysRight == Spec => []AdviceIsRight
<1>1. TypeOK => AdviceIsRight
    <2> SUFFICES ASSUME TypeOK
                 PROVE  AdviceIsRight
        OBVIOUS
    <2> DEFINE S == Managed \cap servers
               R == Managed \cap servers \cap Running
               count == Cardinality(S)
               running == Cardinality(R)
    <2>1. IsFiniteSet(Node)
        BY PruneAssumption, FS_Interval DEF Node
    <2>2. IsFiniteSet(S)
        BY <2>1, FS_Subset
    <2>3. count \in Nat /\ running \in Nat /\ running <= count
        BY <2>2, FS_Subset, FS_CardinalityType
    <2> HIDE DEF count, running
    <2>4. Warning(count, running) = "down" <=> count > 0 /\ 2 * running <= count
        BY <2>3 DEF Warning, Needed
    <2>5. ASSUME count > 1
          PROVE  /\ Tolerance(count) = (count - 1) \div 2
                 /\ Tolerance(count - 1) = (count - 2) \div 2
        BY <2>3, <2>5, ToleranceIs
    <2>6. Warning(count, running) = "even" => count > 1 /\ count % 2 = 0
        BY <2>3 DEF Warning
    <2>7. Warning(count, running) = "none" /\ count > 1 => count % 2 # 0
        BY <2>3 DEF Warning
    <2>8. ASSUME count > 1, count % 2 = 0
          PROVE  Tolerance(count) = Tolerance(count - 1)
        BY <2>3, <2>5, <2>8
    <2>9. ASSUME count > 1, count % 2 # 0
          PROVE  Tolerance(count) > Tolerance(count - 1)
        BY <2>3, <2>5, <2>9
    <2>10. QED
        BY <2>4, <2>6, <2>7, <2>8, <2>9 DEF AdviceIsRight, count, running
<1>2. QED
    BY <1>1, TypeCorrect, PTL
-----------------------------------------------------------------------------
(***************************************************************************)
(* The safety half of PruneEnds.                                           *)
(***************************************************************************)
\* PruneAdvances: a request of prune_nodes has finitely many candidates and gets
\* on with each, whatever becomes of its commands.
THEOREM PruneTerminates == Spec => PruneAdvances
<1> USE PruneAssumption
<1>1. ASSUME TypeOK, NEW r \in Request, Step(r) \/ Fails(r)
      PROVE  Nearer(r)
    <2> USE <1>1 DEF TypeOK, Nearer, Place
    <2>1. CASE Raise(r)
        BY <2>1 DEF Raise, Leave
    <2>2. CASE Start(r)
        BY <2>2 DEF Start
    <2>3. CASE Lock(r)
        BY <2>3 DEF Lock
    <2>4. CASE Found(r)
        BY <2>4 DEF Found
    <2>5. CASE NotFound(r)
        BY <2>5 DEF NotFound
    <2>6. CASE Deleted(r)
        BY <2>6 DEF Deleted
    <2>7. CASE Finish(r)
        BY <2>7 DEF Finish, Leave
    <2>8. CASE Listed(r)
        BY <2>1, <2>8 DEF Listed
    <2>9. QED
        BY <2>1, <2>2, <2>3, <2>4, <2>5, <2>6, <2>7, <2>8
        DEF Step, Fails, Incompatible, Deadline, Unreachable
<1>2. ASSUME Inv, TypeOK, Next, NEW r \in Request, pc[r] # "idle", ~Step(r), ~Fails(r)
      PROVE  pc'[r] = pc[r] /\ (pc[r] # "listing" => todo'[r] = todo[r])
    <2> USE <1>2 DEF TypeOK
    <2>1. ASSUME NEW s \in Request, s # r, Step(s) \/ Fails(s)
          PROVE  pc'[r] = pc[r] /\ todo'[r] = todo[r]
        <3>1. CASE Raise(s)
            BY <2>1, <3>1 DEF Raise, Leave
        <3>2. CASE Start(s) \/ Found(s) \/ NotFound(s) \/ Deleted(s)
            BY <2>1, <3>2 DEF Start, Found, NotFound, Deleted
        <3>3. CASE Lock(s) \/ Finish(s)
            BY <2>1, <3>3 DEF Lock, Finish, Leave
        <3>4. CASE Listed(s)
            BY <2>1, <3>1, <3>4 DEF Listed
        <3>5. QED
            BY <2>1, <3>1, <3>2, <3>3, <3>4
            DEF Step, Fails, Incompatible, Deadline, Unreachable
    <2>2. ASSUME NEW c \in commands, Runs(c)
          PROVE  pc'[r] = pc[r] /\ (pc[r] # "listing" => todo'[r] = todo[r])
        <3>1. c.delete = None /\ pc[c.for] \in Waiting => pc[c.for] = "listing"
            BY DEF Inv, CommandInv, NamesInv, Node
        <3>2. pc' = pc /\ (todo' = todo \/ /\ c.delete = None /\ pc[c.for] \in Waiting
                                            /\ todo' = [todo EXCEPT ![c.for] = objects])
            BY <2>2 DEF Runs
        <3>3. c.for \in Request
            OBVIOUS
        <3>4. QED
            BY <3>1, <3>2, <3>3
    <2>3. CASE \/ \E n \in Node : \/ \E isServer \in BOOLEAN : Deploy(n, isServer)
                                  \/ Kill(n) \/ Power(n) \/ Configure(n)
               \/ \E n \in Name : Join(n)
               \/ Redefine
        BY <2>3 DEF Deploy, Kill, Power, Stopped, Configure, Join, Redefine
    <2>4. ASSUME NEW s \in Request, Snapshot(s)
          PROVE  pc'[r] = pc[r] /\ todo' = todo
        BY <2>4 DEF Snapshot
    <2> HIDE <1>2 DEF TypeOK, Managed, Running, Goto
    <2>5. CASE \E s \in Request : Step(s) \/ Fails(s)
        BY <1>2, <2>1, <2>5
    <2>6. CASE \E c \in commands : Runs(c)
        BY <2>2, <2>6
    <2>7. CASE \E s \in Request : Snapshot(s)
        BY <2>4, <2>7
    <2>8. QED
        BY <1>2, <2>3, <2>5, <2>6, <2>7 DEF Next, Others
<1>3. Inv /\ [Next]_vars =>
         [\A r \in Request :
             pc[r] # "idle" =>
                IF Step(r) \/ Fails(r) THEN Nearer(r)
                ELSE pc'[r] = pc[r] /\ (pc[r] # "listing" => todo'[r] = todo[r])]_vars
    BY <1>1, <1>2 DEF Inv
<1>4. QED
    BY <1>3, Invariance, PTL DEF Spec, PruneAdvances
=============================================================================
