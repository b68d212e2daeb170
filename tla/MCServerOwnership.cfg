SPECIFICATION FairSpec
CONSTANTS
    Servers = {s1, s2}
    None = None
    Dead = Dead
    LockAttempts = 2
    FaultKinds = {"crash", "freeze"}
    MaxFaults = 2
PROPERTIES
    ServerReturns
    OwnerReachable
    SupersededStops
