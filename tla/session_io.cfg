CONSTANTS
  MaxPrefix = 6
  MaxMessage = 7
  MinBody = 1
  MaxRead = 2
  MaxFrames = 2
  Retentions = {0, 1}
  MaxDay = 3
  MaxFaults = 1
  MaxOut = 1
SPECIFICATION Spec
CHECK_DEADLOCK FALSE
INVARIANTS FramesInOrder Logged
PROPERTIES FramesDelivered
