SPECIFICATION Spec
CONSTANTS
  Asked = 2
  Decisions <- MCDecisions
  MaxPresses = 2
  MaxFaults = 1
  MaxReloads = 0
  MaxAttempts = 1
INVARIANT ReceivedAnswerIsKept
CHECK_DEADLOCK FALSE
