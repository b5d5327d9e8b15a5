SPECIFICATION RetrySpec
CONSTANTS
  Attempts = {0, 1, 3, 6}
  Backoffs <- Small
  MAX_EXPONENT = 3
  MaxU64 = 31
  MaxU128 = 63
INVARIANTS RetryInv EveryFailureReported DelaysExact
CHECK_DEADLOCK FALSE
