SPECIFICATION ServerSpec
CONSTANTS
    Runs = {r1, r2}
    Sessions = {s1}
    Owners = {o1, o2}
    None = None
    MaxGeneration = 3
SYMMETRY ServerSymmetry
CONSTRAINT ServerBound
INVARIANTS
    OneExecutor
    PausedDoesNotExecute
    ExecutionIsLive
    EffectsResolvedBeforeRun
    WaitingForAnswer
CHECK_DEADLOCK FALSE
