SPECIFICATION Spec
CONSTANTS
    Node = {n1, n2}
    None = None
    MaxNodes = 2
    Autostart = TRUE
    Shareable = {}
    MaxFaults = 2
SYMMETRY NodeSymmetry
INVARIANTS TypeOK NoOrphanVolumes RetainedIsComplete RunningHasDisks
PROPERTIES SweepSparesLaunched LedgerSpec
