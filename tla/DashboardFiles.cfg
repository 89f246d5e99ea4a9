SPECIFICATION FairSpec
CONSTANTS
    c1 = c1
    c2 = c2
    Cred <- MCCred
    None = None
    Partial = Partial
    MaxRuns = 2
    MaxFaults = 2
INVARIANTS TypeOK ExportIsFresh GoneAfterShutdown CloseOnlyDrained
PROPERTIES ShutdownEnds ExportFollows
