SPECIFICATION FairSpec
CONSTANTS
  Asked = 1
  Decisions <- MCDecisions
  MaxPresses = 2
  MaxFaults = 2
  MaxReloads = 2
  MaxAttempts = 2
INVARIANT NeverResentAlone
PROPERTY ResolvedIsSettled
CHECK_DEADLOCK FALSE
