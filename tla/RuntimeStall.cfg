\* One process at a time, which may stall for a whole lease.
CONSTANTS
  Workers = {w1, w2}
  Nobody = Nobody
  LeaseTicks = 1
  MaxAttempts = 2
  MaxTasks = 3
  MaxContinues = 1
  MultiInstance = FALSE
  Stalls = TRUE
  Stable = w2
SPECIFICATION Spec
INVARIANTS TypeOK WriteSentAtMostOnce
PROPERTY RefinesLifecycle
CHECK_DEADLOCK FALSE
