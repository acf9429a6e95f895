SPECIFICATION FairSpec
CHECK_DEADLOCK FALSE
CONSTANTS
  w1 = w1
  w2 = w2
  w3 = w3
  c1 = c1
  Writers = {w1, w2, w3}
  Clients = {c1}
  BatchSize = 2
  Imported = 3
  MaxEvents = 6
INVARIANTS NoConflict PrefixReceived ClosedIsComplete
PROPERTY StreamEnds
