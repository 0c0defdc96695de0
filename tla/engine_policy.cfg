CONSTANTS
  Session = {s1}
  OrderId = {c1, c2}
  QuoteId = q0
  Instrument = {i1, i2}
  Price = {1}
  MarketBuyPrice = 2
  None = none
  Quantity = {1}
  ReplaceType = {"Limit"}
  MayLeave = {s1}
  MaxArrival = 2
  MaxSequence = 0
  MaxDay = 3
  TierChunk = 8
  TierOne = 16
  TierHalf = 32
  MaxTierFills = 5
  TieredMarketPrice = 1
  TieredQuantity = {8, 16, 32, 36, 44}
SPECIFICATION PolicySpec
INVARIANTS NoBookFault TierOutcome PolicyKeepsBooks
PROPERTIES DayOrdersExpire
