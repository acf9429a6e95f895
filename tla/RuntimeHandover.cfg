\* One process at a time, heartbeats in time: a crash or a deploy hands over.
CONSTANTS
  Workers = {w1, w2, w3}
  Nobody = Nobody
  LeaseTicks = 2
  MaxAttempts = 3
  MaxTasks = 5
  MaxContinues = 2
  MultiInstance = FALSE
  Stalls = FALSE
  Stable = w3
SPECIFICATION FairSpec
INVARIANTS NoOrphanTool OneDriver
PROPERTIES FencedSteps OutcomeKept RunningSettles
CHECK_DEADLOCK FALSE
