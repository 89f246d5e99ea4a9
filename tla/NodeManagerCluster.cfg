SPECIFICATION Spec
CONSTANTS
    Node = {n1, n2, n3}
    None = None
    MaxNodes = 2
    Autostart = TRUE
    Shareable = {}
    MaxFaults = 0
SYMMETRY NodeSymmetry
INVARIANTS SingleCluster ServersBeforeWorkers ConfiguredIsProven
