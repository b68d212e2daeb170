SPECIFICATION ServerSpec
CONSTANTS
    Runs = {r1}
    Sessions = {s1}
    Owners = {o1}
    None = None
    MaxGeneration = 3
INVARIANT PausedRunIsResumable
CHECK_DEADLOCK FALSE
