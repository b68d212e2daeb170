SPECIFICATION FairSpec
CONSTANTS
    None = None
    Parts = {"turns", "settings", "followUps", "recording", "prune", "views", "headless",
             "replay"}
    OvertakesBind = FALSE
    MaxReminders = 1
    MaxTurns = 2
    MaxFaults = 1
    FaultKinds = {"connection", "server", "pi", "branch"}
    MaxControls = 1
    ControlKinds = {"pause", "cancel", "expire"}
    MaxHappenings = 3
    ChangeRequests = {q1, q2}
    Contents <- MCContents
    MaxAttempts = 1
    MaxStops = 1
    MaxRouteRetries = 1
    MaxFollowUps = 3
    MaxPiLosses = 1
    MaxCaptured = 1
    MaxMessages = 2
    MaxTools = 1
    MaxBatch = 2
    MaxQueue = 4
    MaxRequestFaults = 1
    PrunedRuns = {r1, r2, r3}
    Blobs = {b1}
    MaxPruneCrashes = 1
    MaxPages = 2
    MaxTries = 2
    MaxUnread = 2
    MaxSourceChanges = 2
    MaxViewFaults = 2
    MaxSwitches = 2
    MaxRunners = 2
    MaxSteps = 2
    MaxReports = 1
    MaxServerFaults = 2
    PageSize = 2
    MaxEvents = 7
    MaxShown = 2
INVARIANTS
    ClockMatchesTurn
    SettingsHistory
    AttemptKeepsItsSettings
    FollowUpsInOrder
    CompleteCaptureIsWhole
    PruneKeepsWhatIsUsed
    ShownIsWhole
    OutputIsOfStep
    OneAtWork
    PageAgrees
PROPERTIES
    FailsAfterReminders
    TurnsAreReleased
    ViewerCatchesUp
CHECK_DEADLOCK FALSE
