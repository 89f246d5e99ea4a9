SPECIFICATION FairSpec
CONSTANTS
    here = here
    there = there
    f1 = f1
    v1 = v1
    p1 = p1
    p2 = p2
    Dir <- MCDir
    Target = here
    Foreign <- MCForeign
    Overlay <- MCOverlay
    Marker = Marker
    Process <- MCProcess
    None = None
    MaxMoves = 3
    MaxFaults = 2
INVARIANTS ReadyIsWhole
PROPERTIES MarksOnlyEmpty InitSucceeds
