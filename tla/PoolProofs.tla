----------------------------- MODULE PoolProofs -----------------------------
(***************************************************************************)
(* Proofs about Pool, for any directories, files and runs of init-pool.    *)
(***************************************************************************)
EXTENDS Pool, TLAPS

Inv == TypeOK /\ LookedInv /\ WholeInv /\ ReadyIsWhole

USE DEF libvirt, process, vars, Elsewhere, Goto, Handled, Moves, Mine, File

\* Every step keeps the types.
LEMMA TypeStep == Inv /\ [Next]_vars => TypeOK'
<1> SUFFICES ASSUME TypeOK, [Next]_vars
             PROVE  TypeOK'
    BY DEF Inv
<1> USE PoolAssumption DEF TypeOK
<1>1. ASSUME NEW p \in Process, Lookup(p)
       PROVE  TypeOK'
    BY <1>1 DEF Lookup
<1>2. ASSUME NEW p \in Process, CheckPath(p)
       PROVE  TypeOK'
    BY <1>2 DEF CheckPath
<1>3. ASSUME NEW p \in Process, Define(p)
       PROVE  TypeOK'
    <2>1. handle \in [Process -> 0..(defs + 1)]
        BY <1>3 DEF Define
    <2>2. CASE pool = None /\ DefineAt(Target) /\ handle' = [handle EXCEPT ![p] = defs']
        <3>1. /\ active' \in BOOLEAN /\ autostart' \in BOOLEAN
              /\ pool' = None => active' = FALSE /\ autostart' = FALSE
            BY <2>2, Zenon DEF DefineAt
        <3>2. QED
            BY <1>3, <2>1, <2>2, <3>1 DEF Define, DefineAt
    <2>3. CASE UNCHANGED <<dir, libvirt, handle>>
        BY <1>3, <2>3 DEF Define
    <2>4. QED
        BY <1>3, <2>2, <2>3 DEF Define, DefineAt
<1>4. ASSUME NEW p \in Process, Activate(p)
       PROVE  TypeOK'
    BY <1>4 DEF Activate, Start
<1>5. ASSUME NEW p \in Process, SetAutostart(p)
       PROVE  TypeOK'
    BY <1>5 DEF SetAutostart
<1>6. ASSUME NEW p \in Process, Refresh(p)
       PROVE  TypeOK'
    BY <1>6 DEF Refresh, Rescan
<1>7. ASSUME NEW p \in Process, List(p)
       PROVE  TypeOK'
    BY <1>7 DEF List
<1>8. ASSUME NEW p \in Process, Mark(p)
       PROVE  TypeOK'
    <2>1. CASE Create(Marker)
        BY <1>8, <2>1 DEF Mark, Create
    <2>2. CASE UNCHANGED <<dir, libvirt>>
        BY <1>8, <2>2 DEF Mark
    <2>3. QED
        BY <1>8, <2>1, <2>2 DEF Mark
<1>9. ASSUME NEW p \in Process, Raises(p)
       PROVE  TypeOK'
    BY <1>9 DEF Raises
<1>10. ASSUME NEW p \in Process, Interrupted(p)
       PROVE  TypeOK'
    BY <1>10 DEF Interrupted
<1>11. ASSUME Serve
       PROVE  TypeOK'
    BY <1>11 DEF Serve
<1>12. ASSUME Exit
       PROVE  TypeOK'
    BY <1>12 DEF Exit
<1>13. ASSUME NEW v \in Overlay, Deploy(v)
       PROVE  TypeOK'
    BY <1>13 DEF Deploy, Create
<1>14. ASSUME NEW v \in Overlay, Remove(v)
       PROVE  TypeOK'
    BY <1>14 DEF Remove
<1>15. ASSUME NEW d \in Dir, NEW f \in Foreign, PutFile(d, f)
       PROVE  TypeOK'
    BY <1>15 DEF PutFile
<1>16. ASSUME NEW d \in Dir, NEW f \in Foreign, TakeFile(d, f)
       PROVE  TypeOK'
    BY <1>16 DEF TakeFile
<1>17. ASSUME NEW d \in Dir, DefinePool(d)
       PROVE  TypeOK'
    <2>1. handle \in [Process -> 0..(defs + 1)]
        BY <1>17 DEF DefinePool
    <2>2. /\ active' \in BOOLEAN /\ autostart' \in BOOLEAN
          /\ pool' = None => active' = FALSE /\ autostart' = FALSE
        BY <1>17, Zenon DEF DefinePool, DefineAt
    <2>3. QED
        BY <1>17, <2>1, <2>2 DEF DefinePool, DefineAt
<1>18. ASSUME StartPool
       PROVE  TypeOK'
    BY <1>18 DEF StartPool, Start
<1>19. ASSUME RefreshPool
       PROVE  TypeOK'
    BY <1>19 DEF RefreshPool, Rescan
<1>20. ASSUME StopPool
       PROVE  TypeOK'
    <2>1. /\ active' \in BOOLEAN /\ autostart' \in BOOLEAN
          /\ pool' = None => active' = FALSE /\ autostart' = FALSE
        BY <1>20, Zenon DEF StopPool
    <2>2. QED
        BY <1>20, <2>1 DEF StopPool
<1>21. ASSUME UndefinePool
       PROVE  TypeOK'
    <2>1. /\ active' \in BOOLEAN /\ autostart' \in BOOLEAN
          /\ pool' = None => active' = FALSE /\ autostart' = FALSE
        BY <1>21, Zenon DEF UndefinePool
    <2>2. QED
        BY <1>21, <2>1 DEF UndefinePool
<1>22. CASE UNCHANGED vars
    BY <1>22
<1>23. QED
    BY <1>1, <1>2, <1>3, <1>4, <1>5, <1>6, <1>7, <1>8, <1>9, <1>10, <1>11, <1>12, <1>13, <1>14, <1>15, <1>16, <1>17, <1>18, <1>19, <1>20, <1>21, <1>22 DEF Next, InitPool, Dashboard, Administrator

\* Only PutFile adds a foreign file, and records it for every run. A pool that
\* is defined again is not the one that a run has a handle to.
LEMMA LookedStep == Inv /\ [Next]_vars => LookedInv'
<1> SUFFICES ASSUME TypeOK, LookedInv, [Next]_vars
             PROVE  LookedInv'
    BY DEF Inv
<1> USE PoolAssumption DEF TypeOK, LookedInv
<1>1. ASSUME NEW p \in Process, Lookup(p)
       PROVE  LookedInv'
    BY <1>1 DEF Lookup
<1>2. ASSUME NEW p \in Process, CheckPath(p)
       PROVE  LookedInv'
    BY <1>2 DEF CheckPath
<1>3. ASSUME NEW p \in Process, Define(p)
       PROVE  LookedInv'
    BY <1>3 DEF Define, DefineAt
<1>4. ASSUME NEW p \in Process, Activate(p)
       PROVE  LookedInv'
    BY <1>4 DEF Activate, Start
<1>5. ASSUME NEW p \in Process, SetAutostart(p)
       PROVE  LookedInv'
    BY <1>5 DEF SetAutostart
<1>6. ASSUME NEW p \in Process, Refresh(p)
       PROVE  LookedInv'
    BY <1>6 DEF Refresh, Rescan
<1>7. ASSUME NEW p \in Process, List(p)
       PROVE  LookedInv'
    BY <1>7 DEF List
<1>8. ASSUME NEW p \in Process, Mark(p)
       PROVE  LookedInv'
    <2>1. CASE Create(Marker)
        <3>1. dir'[pool] \cap Foreign = dir[pool] \cap Foreign
            BY <2>1 DEF Create
        <3>2. QED
            BY <1>8, <2>1, <3>1 DEF Mark, Create
    <2>2. CASE UNCHANGED <<dir, libvirt>>
        BY <1>8, <2>2 DEF Mark
    <2>3. QED
        BY <1>8, <2>1, <2>2 DEF Mark
<1>9. ASSUME NEW p \in Process, Raises(p)
       PROVE  LookedInv'
    BY <1>9 DEF Raises
<1>10. ASSUME NEW p \in Process, Interrupted(p)
       PROVE  LookedInv'
    BY <1>10 DEF Interrupted
<1>11. ASSUME Serve
       PROVE  LookedInv'
    BY <1>11 DEF Serve
<1>12. ASSUME Exit
       PROVE  LookedInv'
    BY <1>12 DEF Exit
<1>13. ASSUME NEW v \in Overlay, Deploy(v)
       PROVE  LookedInv'
    BY <1>13 DEF Deploy, Create
<1>14. ASSUME NEW v \in Overlay, Remove(v)
       PROVE  LookedInv'
    BY <1>14 DEF Remove
<1>15. ASSUME NEW d \in Dir, NEW f \in Foreign, PutFile(d, f)
       PROVE  LookedInv'
    BY <1>15 DEF PutFile
<1>16. ASSUME NEW d \in Dir, NEW f \in Foreign, TakeFile(d, f)
       PROVE  LookedInv'
    BY <1>16 DEF TakeFile
<1>17. ASSUME NEW d \in Dir, DefinePool(d)
       PROVE  LookedInv'
    BY <1>17 DEF DefinePool, DefineAt
<1>18. ASSUME StartPool
       PROVE  LookedInv'
    BY <1>18 DEF StartPool, Start
<1>19. ASSUME RefreshPool
       PROVE  LookedInv'
    BY <1>19 DEF RefreshPool, Rescan
<1>20. ASSUME StopPool
       PROVE  LookedInv'
    BY <1>20 DEF StopPool
<1>21. ASSUME UndefinePool
       PROVE  LookedInv'
    BY <1>21 DEF UndefinePool
<1>22. CASE UNCHANGED vars
    BY <1>22
<1>23. QED
    BY <1>1, <1>2, <1>3, <1>4, <1>5, <1>6, <1>7, <1>8, <1>9, <1>10, <1>11, <1>12, <1>13, <1>14, <1>15, <1>16, <1>17, <1>18, <1>19, <1>20, <1>21, <1>22 DEF Next, InitPool, Dashboard, Administrator

\* Every step keeps a pool that a run has set up as that run leaves it, and what
\* libvirt knows of the marker true.
LEMMA WholeStep == Inv /\ [Next]_vars => WholeInv' /\ ReadyIsWhole'
<1> SUFFICES ASSUME TypeOK, WholeInv, ReadyIsWhole, [Next]_vars
             PROVE  WholeInv' /\ ReadyIsWhole'
    BY DEF Inv
<1> USE PoolAssumption DEF TypeOK, WholeInv, ReadyIsWhole
<1>1. ASSUME NEW p \in Process, Lookup(p)
      PROVE  WholeInv' /\ ReadyIsWhole'
    BY <1>1 DEF Lookup
<1>2. ASSUME NEW p \in Process, CheckPath(p)
      PROVE  WholeInv' /\ ReadyIsWhole'
    BY <1>2 DEF CheckPath
<1>3. ASSUME NEW p \in Process, Define(p)
      PROVE  WholeInv' /\ ReadyIsWhole'
    BY <1>3 DEF Define, DefineAt
<1>4. ASSUME NEW p \in Process, Activate(p)
      PROVE  WholeInv' /\ ReadyIsWhole'
    BY <1>4 DEF Activate, Start
<1>5. ASSUME NEW p \in Process, SetAutostart(p)
      PROVE  WholeInv' /\ ReadyIsWhole'
    BY <1>5 DEF SetAutostart
<1>6. ASSUME NEW p \in Process, Refresh(p)
      PROVE  WholeInv' /\ ReadyIsWhole'
    BY <1>6 DEF Refresh, Rescan
<1>7. ASSUME NEW p \in Process, List(p)
      PROVE  WholeInv' /\ ReadyIsWhole'
    BY <1>7 DEF List
<1>8. ASSUME NEW p \in Process, Mark(p)
      PROVE  WholeInv' /\ ReadyIsWhole'
    <2>1. active /\ autostart /\ UNCHANGED <<pool, defs, active, autostart, handle>>
        BY <1>8 DEF Mark, Create
    <2>2. CASE Create(Marker) /\ Goto(p, "ready")
        <3>1. Marker \in dir'[pool]
            BY <1>8, <2>2 DEF Mark, Create
        <3>2. QED
            BY <2>1, <2>2, <3>1 DEF Create
    <2>3. CASE Goto(p, "idle") /\ UNCHANGED <<dir, libvirt>>
        BY <2>1, <2>3
    <2>4. QED
        BY <1>8, <2>2, <2>3 DEF Mark
<1>9. ASSUME NEW p \in Process, Raises(p)
      PROVE  WholeInv' /\ ReadyIsWhole'
    BY <1>9 DEF Raises
<1>10. ASSUME NEW p \in Process, Interrupted(p)
      PROVE  WholeInv' /\ ReadyIsWhole'
    BY <1>10 DEF Interrupted
<1>11. ASSUME Serve
      PROVE  WholeInv' /\ ReadyIsWhole'
    BY <1>11 DEF Serve
<1>12. ASSUME Exit
      PROVE  WholeInv' /\ ReadyIsWhole'
    BY <1>12 DEF Exit
<1>13. ASSUME NEW v \in Overlay, Deploy(v)
      PROVE  WholeInv' /\ ReadyIsWhole'
    BY <1>13 DEF Deploy, Create
<1>14. ASSUME NEW v \in Overlay, Remove(v)
      PROVE  WholeInv' /\ ReadyIsWhole'
    BY <1>14 DEF Remove
<1>15. ASSUME NEW d \in Dir, NEW f \in Foreign, PutFile(d, f)
      PROVE  WholeInv' /\ ReadyIsWhole'
    BY <1>15 DEF PutFile
<1>16. ASSUME NEW d \in Dir, NEW f \in Foreign, TakeFile(d, f)
      PROVE  WholeInv' /\ ReadyIsWhole'
    BY <1>16 DEF TakeFile
<1>17. ASSUME NEW d \in Dir, DefinePool(d)
      PROVE  WholeInv' /\ ReadyIsWhole'
    BY <1>17 DEF DefinePool, DefineAt
<1>18. ASSUME StartPool
      PROVE  WholeInv' /\ ReadyIsWhole'
    BY <1>18 DEF StartPool, Start
<1>19. ASSUME RefreshPool
      PROVE  WholeInv' /\ ReadyIsWhole'
    BY <1>19 DEF RefreshPool, Rescan
<1>20. ASSUME StopPool
      PROVE  WholeInv' /\ ReadyIsWhole'
    BY <1>20 DEF StopPool
<1>21. ASSUME UndefinePool
      PROVE  WholeInv' /\ ReadyIsWhole'
    BY <1>21 DEF UndefinePool
<1>22. CASE UNCHANGED vars
    BY <1>22
<1>23. QED
    BY <1>1, <1>2, <1>3, <1>4, <1>5, <1>6, <1>7, <1>8, <1>9, <1>10, <1>11, <1>12, <1>13, <1>14, <1>15, <1>16, <1>17, <1>18, <1>19, <1>20, <1>21, <1>22
    DEF Next, InitPool, Dashboard, Administrator

\* The invariant, with what it is needed for.
THEOREM Invariance == Spec => []Inv
<1>1. Init => Inv
    <2> SUFFICES ASSUME Init
                 PROVE  Inv
        OBVIOUS
    <2>1. dir \in [Dir -> SUBSET File]
        BY DEF Init
    <2>2. TypeOK
        <3>1. /\ active \in BOOLEAN /\ autostart \in BOOLEAN
              /\ pool = None => active = FALSE /\ autostart = FALSE
            BY Zenon DEF Init
        <3>2. QED
            BY <2>1, <3>1, PoolAssumption DEF Init, TypeOK
    <2>3. LookedInv
        BY DEF Init, LookedInv
    <2>4. WholeInv /\ ReadyIsWhole
        BY DEF Init, WholeInv, ReadyIsWhole
    <2>5. QED
        BY <2>2, <2>3, <2>4 DEF Inv
<1>2. Inv /\ [Next]_vars => Inv'
    BY TypeStep, LookedStep, WholeStep DEF Inv
<1>3. QED
    BY <1>1, <1>2, PTL DEF Spec

\* libvirt's pool, the runs and the directories are always of their types, and
\* a handle is never to a definition that has yet to be made.
THEOREM TypeCorrect == Spec => []TypeOK
    BY Invariance, PTL DEF Inv

\* Whenever init-pool returns (pool.py:117-130), the pool is marked and starts
\* with the host, whatever became of earlier runs.
THEOREM ReadyPoolsAreWhole == Spec => []ReadyIsWhole
    BY Invariance, PTL DEF Inv

\* init-pool (pool.py:122-129) never claims a directory for anything that was
\* in it when the run began.
THEOREM ClaimsAreFair == Spec => MarksOnlyEmpty
<1> DEFINE Fair ==
        \A d \in Dir : Marker \in dir'[d] \ dir[d] =>
            \E p \in Process :
               /\ pc[p] = "mark"
               /\ \A f \in dir[d] \cap Foreign : <<d, f>> \in newer[p]
<1>1. Inv /\ [Next]_vars => [Fair]_vars
    <2> SUFFICES ASSUME Inv, Next, NEW d \in Dir, Marker \in dir'[d] \ dir[d]
                 PROVE  \E p \in Process :
                           /\ pc[p] = "mark"
                           /\ \A f \in dir[d] \cap Foreign : <<d, f>> \in newer[p]
        OBVIOUS
    <2> USE PoolAssumption DEF Inv, TypeOK
    <2>1. PICK p \in Process : Mark(p)
        <3>1. ASSUME NEW p \in Process, Lookup(p) \/ Interrupted(p)
              PROVE  FALSE
            BY <3>1 DEF Lookup, Interrupted
        <3>2. ASSUME NEW p \in Process, InitPool(p), ~Mark(p)
              PROVE  FALSE
            BY <3>2 DEF InitPool, CheckPath, Define, DefineAt, Activate, Start,
                        SetAutostart, Refresh, Rescan, List, Raises
        <3>3. ASSUME Dashboard
              PROVE  FALSE
            BY <3>3 DEF Dashboard, Serve, Exit, Deploy, Create, Remove
        <3>4. ASSUME Administrator
              PROVE  FALSE
            BY <3>4 DEF Administrator, PutFile, TakeFile, DefinePool, DefineAt,
                        StartPool, Start, RefreshPool, Rescan, StopPool, UndefinePool
        <3>5. QED
            BY <3>1, <3>2, <3>3, <3>4 DEF Next
    <2>2. pc[p] = "mark" /\ Mine(p) /\ d = pool
        BY <2>1 DEF Mark, Create
    <2>3. QED
        BY <2>2 DEF LookedInv
<1>2. QED
    BY <1>1, Invariance, PTL DEF Spec, MarksOnlyEmpty
=============================================================================
