SPECIFICATION Spec
CONSTANTS
  Period = 2
  HostTimes <- BeforeCarry
  SetTimes <- SomeTimes
  MaxOps = 2
  MaxAge = 6
  MaxResets = 1
INVARIANTS
  TypeOK
  TimeKept
  ReadIsOfTheClock
  ClockRate
CHECK_DEADLOCK FALSE
