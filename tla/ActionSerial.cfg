SPECIFICATION Spec
CHECK_DEADLOCK FALSE
SYMMETRY Symmetry
CONSTANTS
  requester = requester
  ann = ann
  bob = bob
  plain = plain
  critical = critical
  k1 = k1
  k2 = k2
  r1 = r1
  Nobody = Nobody
  Actors = {requester, ann, bob}
  Requester = requester
  Admins = {}
  Payloads = {plain, critical}
  Critical = {critical}
  Keys = {k1, k2}
  Requests = {r1}
  Overlap = FALSE
  Assignees = {Nobody, ann}
  MaxVersion = 2
  MaxApprovals = 3
INVARIANTS TypeOK WaitsForOneApproval ExecutedAtMostOnce
PROPERTY RefinesLifecycle
