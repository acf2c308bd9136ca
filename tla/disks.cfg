SPECIFICATION DisksSpec
CONSTANTS
  p1 = p1
  p2 = p2
  a = a
  b = b
  Procs <- TwoProcs
  Values <- TwoValues
  NumSectors = 2
PROPERTIES
  AtomicRequests
  RequestEnds
  BioKeepsPromise
CHECK_DEADLOCK FALSE
