SPECIFICATION FairSpec
CHECK_DEADLOCK FALSE
CONSTANTS
  w1 = w1
  w2 = w2
  w3 = w3
  Writers = {w1, w2, w3}
  Nobody = Nobody
  MaxRows = 5
  MaxPending = 2
INVARIANT LinksCommitted
PROPERTY AppendAnswered
