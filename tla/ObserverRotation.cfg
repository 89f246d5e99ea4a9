SPECIFICATION RotationSpec
CONSTANTS
    Node = {1, 2}
    Pid = {1}
    None = None
    MaxCalls = 1
    Interval = 1
    Timeout = 0
    Lifetime = 1
    StaleAfter = 2
    Horizon = 2
INVARIANTS TypeOK
PROPERTIES EverybodyIsAsked
