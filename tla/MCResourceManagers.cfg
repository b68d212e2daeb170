SPECIFICATION Spec
CONSTANTS
    MaxGens = 2
    MaxFaults = 2
    MaxEvents = 1
    FaultKinds = {"throw", "timeout", "runner", "lease", "server"}
INVARIANTS
    EffectOnce
    GoneLeavesNothing
    AppliedIsTrue
PROPERTY
    EventuallyReconciled
CHECK_DEADLOCK FALSE
