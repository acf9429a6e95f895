\* A denied approval.
CONSTANTS
  Workers = {w1, w2}
  Nobody = Nobody
  LeaseTicks = 1
  MaxAttempts = 2
  MaxTasks = 4
  MaxContinues = 2
  MultiInstance = FALSE
  Stalls = FALSE
  Stable = w2
SPECIFICATION Spec
INVARIANT DenialHolds
CHECK_DEADLOCK FALSE
