SPECIFICATION LimiterSpec
CONSTANTS
  Attempt = {a1, a2, a3}
  MaxAttempts = 2
  Window = 2
  MaxTime = 6
INVARIANT LimitKept
CHECK_DEADLOCK FALSE
