\* Two processes at the same time, either of which may stall.
CONSTANTS
  Workers = {w1, w2}
  Nobody = Nobody
  LeaseTicks = 1
  MaxAttempts = 2
  MaxTasks = 2
  MaxContinues = 1
  MultiInstance = TRUE
  Stalls = TRUE
  Stable = w2
SPECIFICATION Spec
INVARIANTS WaitingHasContinuation CompletedHasWrite WaitingIsFree
PROPERTIES AnnouncedOnce 
CHECK_DEADLOCK FALSE
