\* Four requests on two lists: one in a tick, two in three seconds of two ticks, three in eight ticks.
SPECIFICATION Spec
CONSTANTS
  Processes = {p1}
  Keys = {k1, k2}
  Requests = {r1, r2, r3, r4}
  Second = 2
  BurstWindow = 1
  MinuteWindow = 6
  HourWindow = 8
  MaxBurst = 1
  MaxRequests = 2
  MaxPerHour = 3
  MaxTime = 8
SYMMETRY LimiterSymmetry
INVARIANTS
  TypeOK
  WindowsRespected
  RetryAfterHonoured
  RemainingHonoured
PROPERTIES
  RefusedOnlyWhenFull
  ImplementsSlidingWindows
CHECK_DEADLOCK FALSE
