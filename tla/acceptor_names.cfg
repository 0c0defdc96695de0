CONSTANTS
  c1 = c1
  c2 = c2
  n1 = n1
  n2 = n2
  Conn = {c1, c2}
  Name = {n1}
  NameOf <- OneName
  NoConn = none
  Symbols = 1
  Capacity = 1
  Unruly = {c1, c2}
  MaxWork = 1
SPECIFICATION FairSpec
CHECK_DEADLOCK FALSE
INVARIANTS SinkIsLive
PROPERTIES ConnectionEnds
