SPECIFICATION Spec
CONSTANTS
  t1 = t1
  t2 = t2
  capture = capture
  first = first
  second = second
  Threads = {t1}
  CaptureHooks <- One
  SinkHooks <- Two
  Programs <- Panicky
  MaxPanics = 3
  MaxFaults = 2
INVARIANTS ProcessSurvives
CHECK_DEADLOCK FALSE
