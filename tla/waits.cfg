SPECIFICATION WaitsSpec
CONSTANTS
  MaxOps = 5
  u1 = u1
  u2 = u2
  Users <- TwoUsers
  Channels <- TwoChannels
  SampleRates <- SomeRates
  IpgRate = 66000000
  MaxAdckRate <- MaxRates
  SampleTime = 1000
  MaxCalls = 4
INVARIANTS
  VerdictIsFinal
  ValueIsOfItsChannel
  
PROPERTIES
  WaitEnds
  BufferFlows
CHECK_DEADLOCK FALSE
