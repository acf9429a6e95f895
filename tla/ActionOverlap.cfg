SPECIFICATION Spec
CHECK_DEADLOCK FALSE
SYMMETRY Symmetry
CONSTANTS
  requester = requester
  ann = ann
  bob = bob
  plain = plain
  critical = critical
  k1 = k1
  r1 = r1
  r2 = r2
  Nobody = Nobody
  Actors = {requester, ann, bob}
  Requester = requester
  Admins = {}
  Payloads = {plain, critical}
  Critical = {critical}
  Keys = {k1}
  Requests = {r1, r2}
  Overlap = TRUE
  Assignees = {Nobody}
  MaxVersion = 2
  MaxApprovals = 2
INVARIANTS ApprovedHasDecisions ExecutedWasApproved VerifiedHasEvidence
PROPERTY DecidedIsFinal
