SPECIFICATION LimiterSpec
CONSTANTS
  t1 = t1
  t2 = t2
  Askers = {t1}
  Keys = {"E"}
  Second = 2
  MaxLimit = 2
  MaxTime = 4
INVARIANTS AtMostLimitPerSecond
CHECK_DEADLOCK TRUE
