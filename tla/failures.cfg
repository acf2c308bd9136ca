SPECIFICATION FailuresSpec
CONSTANTS
  Table <- Drivers
  KnownLeaks <- Leaks
  KnownDoubles <- Doubles
  KnownMissing <- Missing
  KnownBare <- Bare
  u1 = u1
  u2 = u2
  thermal = thermal
  Users <- TwoUsers
  Thermal = thermal
  Speeds <- SomeSpeeds
  Levels <- ThreeLevels
  MaxWrites = 4
  MaxFails = 2
INVARIANTS
  NothingLeaks
  NothingReleasedTwice
  BoundIsComplete
  ServedWhileReachable
  RunsAsTold
  StateIsOfSpeed
CHECK_DEADLOCK FALSE
