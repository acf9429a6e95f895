SPECIFICATION FairSpec
CHECK_DEADLOCK FALSE
CONSTANTS
  big = big
  small = small
  NoModel = NoModel
  Nobody = Nobody
  k1 = k1
  k2 = k2
  c1 = c1
  c2 = c2
  ann = ann
  bob = bob
  Established = {1, 3}
  Budgets = {1, 2, 3}
  Models = {big, small}
  Applies <- MCApplies
  Cost <- MCCost
  Cheaper <- MCCheaper
  Limit <- MCLimit
  Keys = {k1, k2}
  Callers = {c1, c2}
  Carries = {c2}
  Actors = {ann, bob}
  Granted = 1
  Uses = 1
  SingleUse = TRUE
  Usages = {3}
  MaxSegments <- MCSegments
INVARIANTS OutstandingWithinLimit FirstCallReserved
PROPERTIES EndsOnce RequestAnswered RefinesLedger
