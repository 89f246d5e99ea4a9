-------------------------- MODULE DashboardProofs --------------------------
(***************************************************************************)
(* Proofs about Dashboard, for any credentials, any number of starts and   *)
(* any number of failures.                                                 *)
(***************************************************************************)
EXTENDS Dashboard, TLAPS

USE DEF exporter, observer, Rest, Content, Starting, Stopping, Writing

\* The types of the variables that are true or false.
Flags == drained \in BOOLEAN /\ xstop \in BOOLEAN /\ refused \in BOOLEAN /\ ostop \in BOOLEAN

ProcessTypes ==
    /\ app \in {"down", "serving", "stopped"} \cup Starting \cup Stopping
    /\ conn \in {"none", "open", "closed"}
    /\ xpc \in {"none", "wait", "fetch", "fetched", "failed", "ended"} \cup Writing
    /\ opc \in {"none", "wait", "pass", "ended"}

FileTypes ==
    /\ cred \in Content /\ file \in Content
    /\ got \in Content /\ temp \in Content \cup {Partial}
    /\ fresh \in SUBSET Content /\ seen \in SUBSET Content

Counters == runs \in 0..MaxRuns /\ faults \in 0..MaxFaults

Types == ProcessTypes /\ FileTypes /\ Counters

\* Together they are TypeOK.
LEMMA Typing == TypeOK <=> Types /\ Flags
BY Zenon DEF TypeOK, Types, Flags, ProcessTypes, FileTypes, Counters

\* No process, no file.
LEMMA InitInv == Init => Inv
<1>1. Init => Flags
    BY Zenon DEF Init, Flags
<1>2. Init => TypeOK
    BY <1>1, DashboardAssumption DEF Init, TypeOK, Flags
<1>3. Init => ReadInv /\ StopInv /\ DrainInv /\ ExportIsFresh /\ GoneAfterShutdown
    BY DEF Init, ReadInv, StopInv, DrainInv, ExportIsFresh, GoneAfterShutdown, Locked
<1>4. QED
    BY <1>2, <1>3 DEF Inv

\* Reading the credentials, and giving up.
LEMMA FetchInv ==
    ASSUME Inv, Refresh \/ Ends \/ Read \/ FetchFails \/ Discard
    PROVE  Inv'
<1> USE DEF Goes, Gone, Remove, Refresh, Ends, Read, FetchFails, Discard
<1>0. Types /\ Flags /\ ReadInv /\ StopInv /\ DrainInv /\ ExportIsFresh /\ GoneAfterShutdown
    BY Typing DEF Inv
<1>1. Flags'
    BY <1>0, Zenon DEF Flags
<1>2. Types'
    <2>1. ProcessTypes'
        BY <1>0, DashboardAssumption DEF Types, ProcessTypes, FileTypes, Counters, ReadInv,
            Fault
    <2>2. FileTypes'
        BY <1>0, DashboardAssumption DEF Types, ProcessTypes, FileTypes, Counters, ReadInv,
            Fault
    <2>3. /\ runs' = runs \/ (runs < MaxRuns /\ runs' = runs + 1)
          /\ faults' = faults \/ Fault
        OBVIOUS
    <2>4. Counters'
        BY <1>0, <2>3, DashboardAssumption DEF Types, Counters, Fault
    <2>5. QED
        BY <2>1, <2>2, <2>4 DEF Types
<1>3. ReadInv'
    BY <1>0, <1>1, DashboardAssumption DEF Flags, Types, ProcessTypes, FileTypes, Counters,
        ReadInv, StopInv
<1>4. StopInv'
    BY <1>0, <1>1 DEF Flags, Types, ProcessTypes, FileTypes, Counters, StopInv, Locked
<1>5. DrainInv'
    BY <1>0, <1>1 DEF Flags, Types, ProcessTypes, FileTypes, Counters, DrainInv, StopInv
<1>6. ExportIsFresh' /\ GoneAfterShutdown'
    BY <1>0, <1>1 DEF Flags, Types, ProcessTypes, FileTypes, Counters, ReadInv, StopInv,
        ExportIsFresh, GoneAfterShutdown, Locked
<1>7. TypeOK'
    BY <1>1, <1>2, Zenon DEF TypeOK, Types, Flags, ProcessTypes, FileTypes, Counters
<1>8. QED
    BY <1>3, <1>4, <1>5, <1>6, <1>7 DEF Inv

\* What a refresh does under the lock, in one go.
LEMMA PublishInv ==
    ASSUME Inv, Publish \/ Failed
    PROVE  Inv'
<1> USE DEF Goes, Gone, Remove, Publish, Failed
<1>0. Types /\ Flags /\ ReadInv /\ StopInv /\ DrainInv /\ ExportIsFresh /\ GoneAfterShutdown
    BY Typing DEF Inv
<1>1. Flags'
    BY <1>0, Zenon DEF Flags
<1>2. Types'
    <2>1. ProcessTypes'
        BY <1>0, DashboardAssumption DEF Types, ProcessTypes, FileTypes, Counters, ReadInv,
            Fault
    <2>2. FileTypes'
        BY <1>0, DashboardAssumption DEF Types, ProcessTypes, FileTypes, Counters, ReadInv,
            Fault
    <2>3. /\ runs' = runs \/ (runs < MaxRuns /\ runs' = runs + 1)
          /\ faults' = faults \/ Fault
        OBVIOUS
    <2>4. Counters'
        BY <1>0, <2>3, DashboardAssumption DEF Types, Counters, Fault
    <2>5. QED
        BY <2>1, <2>2, <2>4 DEF Types
<1>3. ReadInv'
    BY <1>0, <1>1, DashboardAssumption DEF Flags, Types, ProcessTypes, FileTypes, Counters,
        ReadInv, StopInv
<1>4. StopInv'
    BY <1>0, <1>1 DEF Flags, Types, ProcessTypes, FileTypes, Counters, StopInv, Locked
<1>5. DrainInv'
    BY <1>0, <1>1 DEF Flags, Types, ProcessTypes, FileTypes, Counters, DrainInv, StopInv
<1>6. ExportIsFresh' /\ GoneAfterShutdown'
    <2>1. app \notin (Stopping \ {"stop exporter"}) \cup {"stopped"} /\ app' = app
        BY <1>0 DEF StopInv
    <2>2. GoneAfterShutdown'
        BY <2>1 DEF GoneAfterShutdown
    <2>3. CASE Publish
        <3>1. CASE file = got
            BY <1>0, <2>2, <2>3, <3>1 DEF ReadInv, ExportIsFresh
        <3>2. CASE file # got
            <4>1. UNCHANGED <<file, seen, refused>>
                BY <2>3, <3>2
            <4>2. QED
                BY <1>0, <2>2, <2>3, <4>1 DEF ExportIsFresh
        <3>3. QED
            BY <2>2, <3>1, <3>2
    <2>4. CASE Failed
        <3>1. CASE file' = None
            BY <2>2, <3>1 DEF ExportIsFresh
        <3>2. CASE refused' = TRUE
            BY <2>2, <3>2 DEF ExportIsFresh
        <3>3. QED
            BY <2>4, <3>1, <3>2
    <2>5. QED
        BY <2>3, <2>4
<1>7. TypeOK'
    BY <1>1, <1>2, Zenon DEF TypeOK, Types, Flags, ProcessTypes, FileTypes, Counters
<1>8. QED
    BY <1>3, <1>4, <1>5, <1>6, <1>7 DEF Inv

\* Writing the file.
LEMMA WriteInv ==
    ASSUME Inv, CreateTemp \/ WriteTemp \/ Replace \/ WriteFails
    PROVE  Inv'
<1> USE DEF Goes, Gone, Remove, CreateTemp, WriteTemp, Replace, WriteFails
<1>0. Types /\ Flags /\ ReadInv /\ StopInv /\ DrainInv /\ ExportIsFresh /\ GoneAfterShutdown
    BY Typing DEF Inv
<1>1. Flags'
    BY <1>0, Zenon DEF Flags
<1>2. Types'
    <2>1. ProcessTypes'
        BY <1>0, DashboardAssumption DEF Types, ProcessTypes, FileTypes, Counters, ReadInv,
            Fault
    <2>2. FileTypes'
        BY <1>0, DashboardAssumption DEF Types, ProcessTypes, FileTypes, Counters, ReadInv,
            Fault
    <2>3. /\ runs' = runs \/ (runs < MaxRuns /\ runs' = runs + 1)
          /\ faults' = faults \/ Fault
        OBVIOUS
    <2>4. Counters'
        BY <1>0, <2>3, DashboardAssumption DEF Types, Counters, Fault
    <2>5. QED
        BY <2>1, <2>2, <2>4 DEF Types
<1>3. ReadInv'
    BY <1>0, <1>1, DashboardAssumption DEF Flags, Types, ProcessTypes, FileTypes, Counters,
        ReadInv, StopInv
<1>4. StopInv'
    BY <1>0, <1>1 DEF Flags, Types, ProcessTypes, FileTypes, Counters, StopInv, Locked
<1>5. DrainInv'
    BY <1>0, <1>1 DEF Flags, Types, ProcessTypes, FileTypes, Counters, DrainInv, StopInv
<1>6. ExportIsFresh' /\ GoneAfterShutdown'
    BY <1>0, <1>1 DEF Flags, Types, ProcessTypes, FileTypes, Counters, ReadInv, StopInv,
        ExportIsFresh, GoneAfterShutdown, Locked
<1>7. TypeOK'
    BY <1>1, <1>2, Zenon DEF TypeOK, Types, Flags, ProcessTypes, FileTypes, Counters
<1>8. QED
    BY <1>3, <1>4, <1>5, <1>6, <1>7 DEF Inv

\* The observer.
LEMMA ObserveInv ==
    ASSUME Inv, Observe
    PROVE  Inv'
<1> USE DEF Observe, Gone
<1>0. Types /\ Flags /\ ReadInv /\ StopInv /\ DrainInv /\ ExportIsFresh /\ GoneAfterShutdown
    BY Typing DEF Inv
<1>1. Flags'
    BY <1>0, Zenon DEF Flags
<1>2. Types'
    <2>1. ProcessTypes'
        BY <1>0, DashboardAssumption DEF Types, ProcessTypes, FileTypes, Counters, ReadInv,
            Fault
    <2>2. FileTypes'
        BY <1>0, DashboardAssumption DEF Types, ProcessTypes, FileTypes, Counters, ReadInv,
            Fault
    <2>3. /\ runs' = runs \/ (runs < MaxRuns /\ runs' = runs + 1)
          /\ faults' = faults \/ Fault
        OBVIOUS
    <2>4. Counters'
        BY <1>0, <2>3, DashboardAssumption DEF Types, Counters, Fault
    <2>5. QED
        BY <2>1, <2>2, <2>4 DEF Types
<1>3. ReadInv'
    BY <1>0, <1>1, DashboardAssumption DEF Flags, Types, ProcessTypes, FileTypes, Counters,
        ReadInv, StopInv
<1>4. StopInv'
    BY <1>0, <1>1 DEF Flags, Types, ProcessTypes, FileTypes, Counters, StopInv, Locked
<1>5. DrainInv'
    BY <1>0, <1>1 DEF Flags, Types, ProcessTypes, FileTypes, Counters, DrainInv, StopInv
<1>6. ExportIsFresh' /\ GoneAfterShutdown'
    BY <1>0, <1>1 DEF Flags, Types, ProcessTypes, FileTypes, Counters, ReadInv, StopInv,
        ExportIsFresh, GoneAfterShutdown, Locked
<1>7. TypeOK'
    BY <1>1, <1>2, Zenon DEF TypeOK, Types, Flags, ProcessTypes, FileTypes, Counters
<1>8. QED
    BY <1>3, <1>4, <1>5, <1>6, <1>7 DEF Inv

\* The process starts.
LEMMA StartInv ==
    ASSUME Inv, Boot \/ Open \/ Recover \/ StartupFails \/ StartObserver
                \/ StartExporter \/ StartExporterFails
    PROVE  Inv'
<1> USE DEF Goes, Gone, Remove, Boot, Open, Recover, StartupFails, StartObserver,
    StartExporter, StartExporterFails
<1>0. Types /\ Flags /\ ReadInv /\ StopInv /\ DrainInv /\ ExportIsFresh /\ GoneAfterShutdown
    BY Typing DEF Inv
<1>1. Flags'
    BY <1>0, Zenon DEF Flags
<1>2. Types'
    <2>1. ProcessTypes'
        BY <1>0, DashboardAssumption DEF Types, ProcessTypes, FileTypes, Counters, ReadInv,
            Fault
    <2>2. FileTypes'
        BY <1>0, DashboardAssumption DEF Types, ProcessTypes, FileTypes, Counters, ReadInv,
            Fault
    <2>3. /\ runs' = runs \/ (runs < MaxRuns /\ runs' = runs + 1)
          /\ faults' = faults \/ Fault
        OBVIOUS
    <2>4. Counters'
        <3> HIDE DEF Boot, Open, Recover, StartupFails, StartObserver, StartExporter,
                StartExporterFails
        <3>1. QED
            BY <1>0, <2>3, DashboardAssumption DEF Types, Counters, Fault
    <2>5. QED
        BY <2>1, <2>2, <2>4 DEF Types
<1>3. ReadInv'
    BY <1>0, <1>1, DashboardAssumption DEF Flags, Types, ProcessTypes, FileTypes, Counters,
        ReadInv, StopInv
<1>4. StopInv'
    BY <1>0, <1>1 DEF Flags, Types, ProcessTypes, FileTypes, Counters, StopInv, Locked
<1>5. DrainInv'
    BY <1>0, <1>1 DEF Flags, Types, ProcessTypes, FileTypes, Counters, DrainInv, StopInv
<1>6. ExportIsFresh' /\ GoneAfterShutdown'
    BY <1>0, <1>1 DEF Flags, Types, ProcessTypes, FileTypes, Counters, ReadInv, StopInv,
        ExportIsFresh, GoneAfterShutdown, Locked
<1>7. TypeOK'
    BY <1>1, <1>2, Zenon DEF TypeOK, Types, Flags, ProcessTypes, FileTypes, Counters
<1>8. QED
    BY <1>3, <1>4, <1>5, <1>6, <1>7 DEF Inv

\* It stops, or dies.
LEMMA ShutdownInv ==
    ASSUME Inv, Stop \/ StopExporter \/ JoinExporter \/ StopObserver
                \/ JoinObserver \/ Close \/ Exit \/ Crash
    PROVE  Inv'
<1> USE DEF Goes, Gone, Remove, Stop, StopExporter, JoinExporter, StopObserver,
    JoinObserver, Close, Exit, Crash
<1>0. Types /\ Flags /\ ReadInv /\ StopInv /\ DrainInv /\ ExportIsFresh /\ GoneAfterShutdown
    BY Typing DEF Inv
<1>1. Flags'
    <2>1. drained' \in BOOLEAN
        <3>1. drained' = drained \/ drained' = Gone(xpc) \/ drained' = (drained /\ Gone(opc))
            OBVIOUS
        <3>2. Gone(xpc) \in BOOLEAN /\ (drained /\ Gone(opc)) \in BOOLEAN
            <4> HIDE DEF Stop, StopExporter, JoinExporter, StopObserver, JoinObserver, Close,
                    Exit, Crash
            <4>1. QED
                OBVIOUS
        <3>3. QED
            BY <1>0, <3>1, <3>2, Zenon DEF Flags
    <2>2. refused' \in BOOLEAN
        <3>1. refused' = refused \/ refused' = TRUE \/ refused' = FALSE
            BY Zenon
        <3>2. QED
            BY <1>0, <3>1, Zenon DEF Flags
    <2>3. xstop' \in BOOLEAN /\ ostop' \in BOOLEAN
        <3>1. (xstop' = xstop \/ xstop' = TRUE) /\ (ostop' = ostop \/ ostop' = TRUE)
            BY Zenon
        <3>2. QED
            BY <1>0, <3>1, Zenon DEF Flags
    <2>4. QED
        BY <2>1, <2>2, <2>3 DEF Flags
<1>2. Types'
    <2>1. ProcessTypes'
        BY <1>0, DashboardAssumption DEF Types, ProcessTypes, FileTypes, Counters, ReadInv,
            Fault
    <2>2. FileTypes'
        BY <1>0, DashboardAssumption DEF Types, ProcessTypes, FileTypes, Counters, ReadInv,
            Fault
    <2>3. /\ runs' = runs \/ (runs < MaxRuns /\ runs' = runs + 1)
          /\ faults' = faults \/ Fault
        OBVIOUS
    <2>4. Counters'
        <3> HIDE DEF Stop, StopExporter, JoinExporter, StopObserver, JoinObserver, Close,
                Exit, Crash
        <3>1. QED
            BY <1>0, <2>3, DashboardAssumption DEF Types, Counters, Fault
    <2>5. QED
        BY <2>1, <2>2, <2>4 DEF Types
<1>3. ReadInv'
    BY <1>0, <1>1, DashboardAssumption DEF Flags, Types, ProcessTypes, FileTypes, Counters,
        ReadInv, StopInv
<1>4. StopInv'
    BY <1>0, <1>1 DEF Flags, Types, ProcessTypes, FileTypes, Counters, StopInv, Locked
<1>5. DrainInv'
    BY <1>0, <1>1 DEF Flags, Types, ProcessTypes, FileTypes, Counters, DrainInv, StopInv
<1>6. ExportIsFresh' /\ GoneAfterShutdown'
    BY <1>0, <1>1 DEF Flags, Types, ProcessTypes, FileTypes, Counters, ReadInv, StopInv,
        ExportIsFresh, GoneAfterShutdown, Locked
<1>7. TypeOK'
    BY <1>1, <1>2, Zenon DEF TypeOK, Types, Flags, ProcessTypes, FileTypes, Counters
<1>8. QED
    BY <1>3, <1>4, <1>5, <1>6, <1>7 DEF Inv

\* The cluster changes.
LEMMA CredentialsInv ==
    ASSUME Inv, NEW c \in Content, Credentials(c)
    PROVE  Inv'
<1>0. Types /\ Flags /\ ReadInv /\ StopInv /\ DrainInv /\ ExportIsFresh /\ GoneAfterShutdown
    BY Typing DEF Inv
<1>1. /\ cred' = c /\ xpc' = xpc /\ fresh' = IF xpc = "fetch" THEN fresh \cup {c} ELSE fresh
      /\ UNCHANGED <<file, runs, faults, app, conn, drained, xstop, refused,
                     got, temp, seen, ostop, opc>>
    BY DEF Credentials
<1>2. Flags'
    BY <1>0, <1>1, Zenon DEF Flags
<1>3. Types'
    <2>1. ProcessTypes' /\ Counters'
        BY <1>0, <1>1 DEF Types, ProcessTypes, Counters
    <2>2. FileTypes'
        BY <1>0, <1>1 DEF Types, FileTypes
    <2>3. QED
        BY <2>1, <2>2 DEF Types
<1>4. ReadInv'
    BY <1>0, <1>1 DEF ReadInv
<1>5. StopInv' /\ DrainInv'
    BY <1>0, <1>1, <1>2 DEF Flags, StopInv, DrainInv, Locked, Gone
<1>6. ExportIsFresh' /\ GoneAfterShutdown'
    BY <1>0, <1>1, <1>2 DEF Flags, ExportIsFresh, GoneAfterShutdown
<1>7. TypeOK'
    BY <1>2, <1>3, Zenon DEF TypeOK, Types, Flags, ProcessTypes, FileTypes, Counters
<1>8. QED
    BY <1>4, <1>5, <1>6, <1>7 DEF Inv

\* Every step keeps the invariant.
LEMMA NextInv == Inv /\ [Next]_vars => Inv'
<1>1. ASSUME Inv, UNCHANGED vars
      PROVE  Inv'
    <2>1. TypeOK /\ ReadInv /\ StopInv /\ DrainInv /\ ExportIsFresh /\ GoneAfterShutdown
        BY <1>1 DEF Inv
    <2>2. TypeOK'
        <3>1. Types /\ Flags
            BY <2>1, Typing
        <3>2. Flags'
            BY <1>1, <3>1, Zenon DEF vars, Flags
        <3>3. ProcessTypes' /\ Counters'
            BY <1>1, <3>1 DEF vars, Types, ProcessTypes, Counters
        <3>4. FileTypes'
            BY <1>1, <3>1 DEF vars, Types, FileTypes
        <3>5. QED
            BY <3>2, <3>3, <3>4, Zenon
            DEF TypeOK, Flags, ProcessTypes, FileTypes, Counters
    <2>3. ReadInv' /\ ExportIsFresh' /\ GoneAfterShutdown'
        BY <1>1, <2>1, Zenon DEF vars, ReadInv, ExportIsFresh, GoneAfterShutdown
    <2>4. StopInv' /\ DrainInv'
        BY <1>1, <2>1, Zenon DEF vars, StopInv, DrainInv, Locked, Gone
    <2>5. QED
        BY <2>2, <2>3, <2>4 DEF Inv
<1>2. ASSUME Inv, Next
      PROVE  Inv'
    BY <1>2, FetchInv, PublishInv, WriteInv, ObserveInv, StartInv, ShutdownInv, CredentialsInv
    DEF Next, Exporter, Write, Start, Shutdown
<1>3. QED
    BY <1>1, <1>2

\* The invariant holds in every state of every behavior of the dashboard.
THEOREM Invariance == Spec => []Inv
BY InitInv, NextInv, PTL DEF Spec

\* The types of Dashboard; the published file is never one that is being
\* written (kubeconfig_export.py:86-97).
THEOREM TypeCorrect == Spec => []TypeOK
<1>1. Inv => TypeOK
    BY DEF Inv
<1>2. QED
    BY <1>1, Invariance, PTL

\* The exported credentials were current during the last refresh, or are not
\* there (kubeconfig_export.py:56-84).
THEOREM ExportedIsFresh == Spec => []ExportIsFresh
<1>1. Inv => ExportIsFresh
    BY DEF Inv
<1>2. QED
    BY <1>1, Invariance, PTL

\* After a shutdown no refresh brings the file back
\* (kubeconfig_export.py:39-47, 67-69, 78-80).
THEOREM NoLatePublication == Spec => []GoneAfterShutdown
<1>1. Inv => GoneAfterShutdown
    BY DEF Inv
<1>2. QED
    BY <1>1, Invariance, PTL

\* shutdown closes no connection under a thread that may still use it
\* (app.py:141-151).
THEOREM ClosedOnlyDrained == Spec => []CloseOnlyDrained
<1>1. Inv => CloseOnlyDrained
    BY DEF Inv, DrainInv, CloseOnlyDrained
<1>2. QED
    BY <1>1, Invariance, PTL
=============================================================================
