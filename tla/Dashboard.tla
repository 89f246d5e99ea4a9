----------------------------- MODULE Dashboard -----------------------------
(***************************************************************************)
(* The life of the dashboard's process (AppState, app.py) with its two     *)
(* daemon threads: the observer, here only as somebody who makes libvirt   *)
(* calls, and the kubeconfig exporter (kubeconfig_export.py), which keeps  *)
(* a file current with the cluster's credentials.                          *)
(*                                                                         *)
(* The exporter reads the credentials outside its lock, in guest-agent     *)
(* calls that may take long, fail or never return, and writes the file     *)
(* under the lock; shutdown removes the file under the lock, waits for     *)
(* both threads for a while, and closes the connection if both have ended. *)
(* The process may die at any moment, and be started again.                *)
(***************************************************************************)
EXTENDS Naturals

CONSTANTS
    Cred,       \* what a cluster's credentials may be
    None,       \* no file; no server to read credentials from
    Partial,    \* a file that is being written
    MaxRuns,    \* bound on starts of the process
    MaxFaults   \* bound on failures of the agent and the file system

ASSUME DashboardAssumption ==
    /\ None \notin Cred /\ Partial \notin Cred /\ None # Partial
    /\ MaxRuns \in Nat /\ MaxFaults \in Nat

VARIABLES
    cred,     \* the credentials a usable server has
    file,     \* the exported file
    runs, faults,
    \* the main thread
    app,      \* where it is
    conn,     \* the libvirt connection
    drained,  \* shutdown's local: the threads joined so far have ended
    \* the exporter
    xstop,    \* _stop
    xpc,      \* where its thread is
    got,      \* the text it has read
    temp,     \* its temporary file
    refused,  \* the last removal failed
    fresh,    \* the credentials current at some moment of this refresh
    seen,     \* the same, of the last refresh that was completed
    \* the observer
    ostop,    \* _stop
    opc       \* where its thread is

exporter == <<xpc, got, temp, fresh, seen>>
observer == <<ostop, opc>>
vars == <<cred, file, runs, faults, app, conn, drained, xstop, refused,
          exporter, observer>>

Content == Cred \cup {None}
Starting == {"open", "recover", "observe", "export"}
Stopping == {"stop exporter", "join exporter", "stop observer", "join observer",
             "close", "exit"}
\* In these, the exporter holds its lock.
Writing == {"create", "write", "replace"}

TypeOK ==
    /\ cred \in Content /\ file \in Content
    /\ runs \in 0..MaxRuns /\ faults \in 0..MaxFaults
    /\ app \in {"down", "serving", "stopped"} \cup Starting \cup Stopping
    /\ conn \in {"none", "open", "closed"}
    /\ drained \in BOOLEAN /\ xstop \in BOOLEAN /\ refused \in BOOLEAN
    /\ xpc \in {"none", "wait", "fetch", "fetched", "failed", "ended"} \cup Writing
    /\ got \in Content /\ temp \in Content \cup {Partial}
    /\ fresh \in SUBSET Content /\ seen \in SUBSET Content
    /\ ostop \in BOOLEAN /\ opc \in {"none", "wait", "pass", "ended"}

Init ==
    /\ cred = None /\ file = None /\ runs = 0 /\ faults = 0
    /\ app = "down" /\ conn = "none" /\ drained = FALSE
    /\ xstop = FALSE /\ xpc = "none" /\ got = None /\ temp = None
    /\ refused = FALSE /\ fresh = {} /\ seen = {}
    /\ ostop = FALSE /\ opc = "none"

Fault == faults < MaxFaults /\ faults' = faults + 1
-----------------------------------------------------------------------------
(***************************************************************************)
(* The exporter's thread.                                                  *)
(***************************************************************************)
Locked == xpc \in Writing
Rest == <<cred, runs, app, conn, drained, xstop, observer>>

\* _remove swallows an OSError.
Remove ==
    \/ file' = None /\ refused' = FALSE /\ UNCHANGED faults
    \/ file # None /\ refused' = TRUE /\ Fault /\ UNCHANGED file

\* The head of the loop, and of refresh.
Refresh ==
    /\ xpc = "wait" /\ ~xstop
    /\ xpc' = "fetch" /\ fresh' = {cred}
    /\ UNCHANGED <<Rest, file, faults, refused, got, temp, seen>>

Ends ==
    /\ xpc = "wait" /\ xstop /\ xpc' = "ended"
    /\ UNCHANGED <<Rest, file, faults, refused, got, temp, fresh, seen>>

\* export_kubeconfig: the command reads the file of the server chosen.
Read ==
    /\ xpc = "fetch" /\ cred # None
    /\ xpc' = "fetched" /\ got' = cred
    /\ UNCHANGED <<Rest, file, faults, refused, temp, fresh, seen>>

\* There is no server, the agent fails, or run's deadline passes.
FetchFails ==
    /\ \/ xpc = "fetch" /\ cred = None /\ UNCHANGED faults
       \/ xpc \in {"fetch", "fetched"} /\ Fault
    /\ xpc' = "failed"
    /\ UNCHANGED <<Rest, file, refused, got, temp, fresh, seen>>

\* A shutdown has come first: nothing is written, nothing removed.
Discard ==
    /\ xpc \in {"fetched", "failed"} /\ xstop /\ xpc' = "wait"
    /\ UNCHANGED <<Rest, file, faults, refused, got, temp, fresh, seen>>

\* Mutant: _stop is not looked at again under the lock.
PublishAnyway ==
    /\ xpc = "fetched"
    /\ IF file = got THEN xpc' = "wait" /\ refused' = FALSE /\ seen' = fresh
                     ELSE xpc' = "create" /\ UNCHANGED <<refused, seen>>
    /\ UNCHANGED <<Rest, file, faults, got, temp, fresh>>

\* _write, which leaves a file alone that has the text already.
Publish ==
    /\ xpc = "fetched" /\ ~xstop
    /\ IF file = got THEN xpc' = "wait" /\ refused' = FALSE /\ seen' = fresh
                     ELSE xpc' = "create" /\ UNCHANGED <<refused, seen>>
    /\ UNCHANGED <<Rest, file, faults, got, temp, fresh>>

CreateTemp ==
    /\ xpc = "create" /\ xpc' = "write" /\ temp' = Partial
    /\ UNCHANGED <<Rest, file, faults, refused, got, fresh, seen>>

\* Mutant: the published file itself is opened and written.
WriteInPlace ==
    /\ xpc = "write" /\ xpc' = "replace" /\ temp' = got /\ file' = Partial
    /\ UNCHANGED <<Rest, faults, refused, got, fresh, seen>>

WriteTemp ==
    /\ xpc = "write" /\ xpc' = "replace" /\ temp' = got
    /\ UNCHANGED <<Rest, file, faults, refused, got, fresh, seen>>

Replace ==
    /\ xpc = "replace" /\ xpc' = "wait"
    /\ file' = temp /\ temp' = None /\ refused' = FALSE /\ seen' = fresh
    /\ UNCHANGED <<Rest, faults, got, fresh>>

\* Any of these may fail; the temporary file is removed on the way out.
WriteFails ==
    /\ xpc \in Writing /\ Fault
    /\ xpc' = "failed" /\ temp' = None
    /\ UNCHANGED <<Rest, file, refused, got, fresh, seen>>

\* Mutant: what was exported last is kept.
FailedKeeps ==
    /\ xpc = "failed" /\ ~xstop
    /\ xpc' = "wait" /\ seen' = fresh
    /\ UNCHANGED <<Rest, file, faults, refused, got, temp, fresh>>

\* A refresh that fails takes the file away.
Failed ==
    /\ xpc = "failed" /\ ~xstop /\ Remove
    /\ xpc' = "wait" /\ seen' = fresh
    /\ UNCHANGED <<Rest, got, temp, fresh>>

Write == CreateTemp \/ WriteTemp \/ Replace \/ WriteFails

Exporter == Refresh \/ Ends \/ Read \/ FetchFails \/ Discard \/ Publish \/ Failed \/ Write
-----------------------------------------------------------------------------
(***************************************************************************)
(* The observer's thread.                                                  *)
(***************************************************************************)
\* The head of the loop; a pass that fails is only logged.
Observe ==
    /\ \/ opc = "wait" /\ opc' = IF ostop THEN "ended" ELSE "pass"
       \/ opc = "pass" /\ opc' = "wait"
    /\ UNCHANGED <<cred, file, runs, faults, app, conn, drained, xstop, refused,
                   exporter, ostop>>
-----------------------------------------------------------------------------
(***************************************************************************)
(* The main thread: lifespan, startup and shutdown.                        *)
(***************************************************************************)
Goes(from, to) == app = from /\ app' = to

Boot ==
    /\ app \in {"down", "stopped"} /\ app' = "open"
    /\ runs < MaxRuns /\ runs' = runs + 1
    /\ xpc' = "none" /\ opc' = "none"
    /\ xstop' = FALSE /\ ostop' = FALSE /\ drained' = FALSE /\ refused' = FALSE
    /\ UNCHANGED <<cred, file, faults, conn, got, temp, fresh, seen>>

Open ==
    /\ Goes("open", "recover") /\ conn' = "open"
    /\ UNCHANGED <<cred, file, runs, faults, drained, xstop, refused, exporter, observer>>

Recover ==
    /\ Goes("recover", "observe")
    /\ UNCHANGED <<cred, file, runs, faults, conn, drained, xstop, refused, exporter, observer>>

\* The connection, a check or the recovery fails; shutdown is called all the
\* same, but there is no exporter to remove what an earlier run has left.
StartupFails ==
    /\ app \in {"open", "recover"} /\ app' = "stop exporter"
    /\ UNCHANGED <<cred, file, runs, faults, conn, drained, xstop, refused, exporter, observer>>

StartObserver ==
    /\ Goes("observe", "export") /\ opc' = "wait"
    /\ UNCHANGED <<cred, file, runs, faults, conn, drained, xstop, refused, exporter, ostop>>

StartExporter ==
    /\ Goes("export", "serving")
    /\ file' = None /\ xpc' = "wait" /\ seen' = {} /\ fresh' = {}
    /\ UNCHANGED <<cred, runs, faults, conn, drained, xstop, refused, got, temp, observer>>

\* The file an earlier run has left cannot be removed.
StartExporterFails ==
    /\ Goes("export", "stop exporter") /\ file # None /\ Fault
    /\ UNCHANGED <<cred, file, runs, conn, drained, xstop, refused, exporter, observer>>

Stop ==
    /\ Goes("serving", "stop exporter")
    /\ UNCHANGED <<cred, file, runs, faults, conn, drained, xstop, refused, exporter, observer>>

\* KubeconfigExporter.shutdown, under the lock.
StopExporter ==
    /\ Goes("stop exporter", "join exporter")
    /\ ~Locked /\ xstop' = TRUE
    /\ IF xpc # "none" THEN Remove ELSE UNCHANGED <<file, faults, refused>>
    /\ UNCHANGED <<cred, runs, conn, drained, exporter, observer>>

Gone(thread) == thread \in {"none", "ended"}

\* Mutant: shutdown waits for the exporter for as long as it takes.
JoinExporterForEver ==
    /\ Goes("join exporter", "stop observer") /\ Gone(xpc)
    /\ drained' = TRUE
    /\ UNCHANGED <<cred, file, runs, faults, conn, xstop, refused, exporter, observer>>

\* The thread has ended, or the grace is over.
JoinExporter ==
    /\ Goes("join exporter", "stop observer")
    /\ drained' = Gone(xpc)
    /\ UNCHANGED <<cred, file, runs, faults, conn, xstop, refused, exporter, observer>>

StopObserver ==
    /\ Goes("stop observer", "join observer") /\ ostop' = TRUE
    /\ UNCHANGED <<cred, file, runs, faults, conn, drained, xstop, refused, exporter, opc>>

\* Mutant: the exporter's answer is forgotten.
JoinObserverOnly ==
    /\ Goes("join observer", "close")
    /\ drained' = Gone(opc)
    /\ UNCHANGED <<cred, file, runs, faults, conn, xstop, refused, exporter, observer>>

JoinObserver ==
    /\ Goes("join observer", "close")
    /\ drained' = (drained /\ Gone(opc))
    /\ UNCHANGED <<cred, file, runs, faults, conn, xstop, refused, exporter, observer>>

Close ==
    /\ Goes("close", "exit")
    /\ conn' = IF drained THEN "closed" ELSE conn
    /\ UNCHANGED <<cred, file, runs, faults, drained, xstop, refused, exporter, observer>>

\* Daemon threads end with the process.
Exit ==
    /\ Goes("exit", "stopped") /\ conn' = "none"
    /\ xpc' = IF xpc = "none" THEN "none" ELSE "ended"
    /\ opc' = IF opc = "none" THEN "none" ELSE "ended"
    /\ UNCHANGED <<cred, file, runs, faults, drained, xstop, refused,
                   got, temp, fresh, seen, ostop>>

\* The process dies.  A temporary file it leaves has a name of its own.
Crash ==
    /\ app \notin {"down", "stopped"} /\ app' = "down" /\ conn' = "none"
    /\ xpc' = "none" /\ opc' = "none" /\ temp' = None
    /\ UNCHANGED <<cred, file, runs, faults, drained, xstop, refused, got, fresh, seen, ostop>>

Start == Open \/ Recover \/ StartupFails \/ StartObserver \/ StartExporter \/ StartExporterFails
Shutdown == StopExporter \/ JoinExporter \/ StopObserver \/ JoinObserver \/ Close \/ Exit
-----------------------------------------------------------------------------
\* A server is configured, renewed, powered off, reset.
Credentials(c) ==
    /\ c # cred /\ cred' = c
    /\ fresh' = IF xpc = "fetch" THEN fresh \cup {c} ELSE fresh
    /\ UNCHANGED <<file, runs, faults, app, conn, drained, xstop, refused,
                   xpc, got, temp, seen, observer>>

Next ==
    \/ Exporter \/ Observe
    \/ Boot \/ Start \/ Stop \/ Shutdown \/ Crash
    \/ \E c \in Content : Credentials(c)

Spec == Init /\ [][Next]_vars

\* The main thread runs, the file system answers; nothing is said of libvirt
\* and the guest agent.  The exporter is outside its lock for the length of a
\* guest command between any two writes: who waits for the lock gets it.
Fairness ==
    /\ WF_vars(Start \/ Shutdown) /\ SF_vars(StopExporter)
    /\ WF_vars(Write)

FairSpec == Spec /\ Fairness
-----------------------------------------------------------------------------
(***************************************************************************)
(* Properties.                                                             *)
(***************************************************************************)
\* While the exporter lives the file has credentials that were current during
\* the last refresh it completed, or is not there; never those of a cluster
\* that had gone by then, unless the file system refused to remove them.
ExportIsFresh ==
    xpc \notin {"none", "ended"} /\ ~refused => file \in seen \cup {None}

\* "Stopping removes the automatic kubeconfig export on normal shutdown": a
\* refresh that was under way does not bring it back.
GoneAfterShutdown ==
    app \in (Stopping \ {"stop exporter"}) \cup {"stopped"} /\ xpc # "none" /\ ~refused
        => file = None

\* The connection is not closed while a thread may be in a call on it, or may
\* come to make one.
CloseOnlyDrained == conn = "closed" => Gone(xpc) /\ Gone(opc)

\* Shutdown ends, whatever call the threads are stuck in.
ShutdownEnds == app \in Stopping ~> app \in {"down", "stopped"}

\* While the dashboard serves, and provided that the exporter's calls return,
\* the file comes to follow the cluster: a reset or a power-off takes it away,
\* new credentials replace it.
ExportFollows ==
    WF_vars(Exporter) =>
        \A c \in Content : <>[](app = "serving" /\ cred = c) => <>[](file = c)
-----------------------------------------------------------------------------
(***************************************************************************)
(* What makes the safety properties inductive.                             *)
(***************************************************************************)
\* What the exporter has at hand was current during this refresh.
ReadInv ==
    /\ xpc = "fetch" => cred \in fresh
    /\ xpc \in {"fetched"} \cup Writing => got \in fresh /\ got # None
    /\ xpc = "replace" => temp = got

\* When its thread is there, and when it may not write.
StopInv ==
    /\ app \in {"down"} \cup Starting => xpc = "none"
    /\ xstop => ~Locked
    /\ app \in Starting \cup {"serving"} => ~xstop
    /\ app \in {"down", "open", "recover", "observe"} => opc = "none"
    /\ app \in Stopping \ {"stop exporter"} => xstop
    /\ app = "stopped" => xstop /\ Gone(xpc)

\* What shutdown has found out about the threads.
DrainInv ==
    /\ drained /\ app \in {"stop observer", "join observer", "close", "exit"} => Gone(xpc)
    /\ drained /\ app \in {"close", "exit"} => Gone(opc)
    /\ conn = "closed" => app = "exit" /\ drained

Inv == TypeOK /\ ReadInv /\ StopInv /\ DrainInv /\ ExportIsFresh /\ GoneAfterShutdown
=============================================================================
