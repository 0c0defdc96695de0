CONSTANTS
  Wire <- Names
  NoWire = ""
  Numeral <- AsNumber
  MaxOrderId = 2
  Contract = {c1, c2}
  Listed = {c1}
  OrderType = {"Limit", "Market"}
  Quantity = {0, 2}
  Level = {1, 2}
  None = none
  MaxTrades = 1
  MaxSent = 3
SPECIFICATION AnySpec
CHECK_DEADLOCK FALSE
INVARIANTS ReportsNamed AcceptedOnce
