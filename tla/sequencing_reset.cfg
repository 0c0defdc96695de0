CONSTANTS
  Kind = {"app", "badreset"}
  MaxFirst = 1
  MaxSeq = 4
  MaxLost = 1
  MaxRepeated = 0
  MaxQueued = 2
SPECIFICATION Spec
CHECK_DEADLOCK FALSE
INVARIANTS DuplicatesWereHanded
