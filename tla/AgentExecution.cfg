SPECIFICATION FairSpec
CHECK_DEADLOCK FALSE
CONSTANTS
  ann = ann
  bob = bob
  eve = eve
  r1 = r1
  r2 = r2
  Requests = {r1, r2}
  Users = {ann, bob, eve}
  Owner = ann
  Approvers = {ann, bob}
  MaxContinuations = 3
INVARIANTS OneRun ToolApproved SomebodyActs
PROPERTY RunSettles
