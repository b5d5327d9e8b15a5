SPECIFICATION LimiterSpec
CONSTANTS
  t1 = t1
  t2 = t2
  Askers <- MCAskers
  Keys = {"E"}
  Second = 2
  MaxLimit = 2
  MaxTime = 6
SYMMETRY Symmetric
INVARIANTS LimiterInv LongRunRate
PROPERTIES WindowsAdvance SuppressionJustified
CHECK_DEADLOCK TRUE
