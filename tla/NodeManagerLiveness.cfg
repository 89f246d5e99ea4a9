SPECIFICATION RecoverySpec
CONSTANTS
    Node = {n1, n2}
    None = None
    MaxNodes = 2
    Autostart = TRUE
    Shareable = {n2}
    MaxFaults = 1
PROPERTIES InterruptedIsFinished StartupEnds ReferencedVolumesKept
