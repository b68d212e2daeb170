SPECIFICATION FairSpec
CONSTANTS
    None = None
    c1 = c1
    c2 = c2
    Checks <- MCChecks
    Results <- MCResults
    Plans = {p1, p2}
    MaxReplans = 1
    MaxReplanAnswers = 3
    Faults = {f1, f2}
    MaxChecks = 4
    MaxAgents = 3
    Branches <- MCBranches
INVARIANTS
    GatesHold
    SettledBeforeWork
    ReadyPlanIsApproved
    OneRepairPerFault
    GroupSettles
    AuthorizedDirectWork
PROPERTY
    RunEnds
CHECK_DEADLOCK FALSE
