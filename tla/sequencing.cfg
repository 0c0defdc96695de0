CONSTANTS
  Kind = {"app", "bad", "reset"}
  MaxFirst = 2
  MaxSeq = 5
  MaxLost = 2
  MaxRepeated = 1
  MaxQueued = 2
SPECIFICATION FairSpec
CHECK_DEADLOCK FALSE
INVARIANTS ConformingPeerStays
PROPERTIES ImplementsDelivery GapsClose
