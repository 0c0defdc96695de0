CONSTANTS
  Session = {s1, s2}
  OrderId = {c1}
  QuoteId = q0
  Instrument = {i1}
  Price = {1, 2}
  MarketBuyPrice = 3
  None = none
  Quantity = {1}
  ReplaceType = {}
  MayLeave = {s1, s2}
  MaxArrival = 3
  MaxSequence = 3
  MaxDay = 2
SPECIFICATION Spec
SYMMETRY Symmetry
INVARIANTS NoGhosts Uncrossed EngineInv SnapshotCurrent
PROPERTIES TerminalIsFinal
