\* What comments say and the code does not do; tlc -continue shows each.
SPECIFICATION RetrySpec
CONSTANTS
  Attempts = {3, 25}
  Backoffs <- Doubling
  MAX_EXPONENT = 20
  MaxU64 = 536870911
  MaxU128 = 1073741823
INVARIANTS UnchangedOnStop ScheduleAsDocumented
CHECK_DEADLOCK FALSE
