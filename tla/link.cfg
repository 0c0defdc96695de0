CONSTANTS
  ProbeAfter = 2
  CloseAfter = 3
  Delay = 1
  MaxSeq = 2
  MaxLost = 1
  MaxAsk = 1
  MaxProbes = 1
SPECIFICATION Spec
CHECK_DEADLOCK FALSE
INVARIANTS InStep AnsweringPeerStays
PROPERTIES Recovers SilentPeerGoes
