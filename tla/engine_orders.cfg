CONSTANTS
  Session = {s1, s2}
  OrderId = {c1, c2}
  QuoteId = q0
  Instrument = {i1}
  Price = {1, 2}
  MarketBuyPrice = 3
  None = none
  Quantity = {1, 2}
  ReplaceType = {"Limit"}
  MayLeave = {s1, s2}
  MaxArrival = 3
  MaxSequence = 0
  MaxDay = 1
SPECIFICATION Spec
SYMMETRY Symmetry
INVARIANTS TypeOK QuantityConserved LevelTotals TradeWithinLimits MirrorAgrees FifoIsArrival ClientInformed MatchingEnds
PROPERTIES PriceTimePriority TerminalIsFinal
