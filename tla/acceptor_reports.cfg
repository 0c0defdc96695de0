CONSTANTS
  c1 = c1
  c2 = c2
  n1 = n1
  n2 = n2
  Conn = {c1, c2}
  Name = {n1, n2}
  NameOf <- TwoNames
  NoConn = none
  Symbols = 1
  Capacity = 1
  Unruly = {}
  MaxWork = 1
SPECIFICATION ThreadSpec
CHECK_DEADLOCK FALSE
INVARIANTS StreamShape OrderlyMeansComplete
PROPERTIES LockReleased
