SPECIFICATION Spec
CONSTANTS
  t1 = t1
  t2 = t2
  capture = capture
  first = first
  second = second
  Threads <- Pair
  CaptureHooks <- One
  SinkHooks <- Two
  Programs <- MCPrograms
  MaxPanics = 3
  MaxFaults = 2
SYMMETRY Symmetric
INVARIANTS Inv EveryPanicChained
PROPERTIES FansOutAcrossPanics
CHECK_DEADLOCK FALSE
