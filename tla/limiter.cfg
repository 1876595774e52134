SPECIFICATION LimiterSpec
CONSTANTS
  Keys = {k1}
  Capacity = 2
  Part = 5
  Refill = 2
  Second = 2
  Tokens = 1
  MaxClock = 12
  MaxSteps = 1
INVARIANTS WindowBounded RetryAfterHolds
CHECK_DEADLOCK FALSE
