SPECIFICATION Spec
CONSTANTS
    Node = {1}
    Pid = {1, 2}
    None = None
    MaxCalls = 1
    Interval = 1
    Timeout = 1
    Lifetime = 3
    StaleAfter = 4
    Horizon = 5
INVARIANTS ServedIsRecent OneCommand
