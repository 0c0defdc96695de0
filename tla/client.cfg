CONSTANTS
  Wire <- ThreeIds
  NoWire = 0
  Numeral <- SameNumber
  MaxOrderId = 3
  Contract = {c1, c2}
  Listed = {c1}
  OrderType = {"Limit"}
  Quantity = {0, 2}
  Level = {0}
  None = none
  MaxTrades = 1
  Thread = {t1}
  MaxRequests = 3
  MaxBreak = 1
SPECIFICATION Spec
CHECK_DEADLOCK FALSE
INVARIANTS ViewsAgree LogoutTellsAll LogoutUnderWay NewIsUnderWay
