SPECIFICATION PromptSpec
CONSTANTS
    Node = {1, 2}
    Pid = {1}
    None = None
    MaxCalls = 2
    Interval = 2
    Timeout = 1
    Lifetime = 2
    StaleAfter = 3
    Horizon = 3
PROPERTIES FitIsServed
