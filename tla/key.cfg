SPECIFICATION KeySpec
CONSTANTS
  r1 = r1
  r2 = r2
  Readers <- TwoReaders
  NonBlocking <- OneNonBlocking
  MaxEdges = 3
INVARIANTS
  GateClosed
  KeyTracksLine
  NoLostWakeup
  DeliveredInOrder
PROPERTIES
  GateReopens
CHECK_DEADLOCK FALSE
