SPECIFICATION Spec
CONSTANTS
  u1 = u1
  Users <- OneUser
  Channels <- OneChannel
  SampleRates <- OneRate
  IpgRate = 66000000
  MaxAdckRate <- SlowNormal
  SampleTime = 11000
  MaxCalls = 3
INVARIANTS
  RegistersAsDetermined
CHECK_DEADLOCK FALSE
