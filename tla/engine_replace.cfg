CONSTANTS
  Session = {s1, s2}
  OrderId = {c1, c2}
  QuoteId = q0
  Instrument = {i1}
  Price = {1}
  MarketBuyPrice = 2
  None = none
  Quantity = {1, 2}
  ReplaceType = {"Limit", "Market"}
  MayLeave = {}
  MaxArrival = 3
  MaxSequence = 0
  MaxDay = 1
SPECIFICATION Spec
SYMMETRY Symmetry
CHECK_DEADLOCK FALSE
INVARIANT ClientInformed
