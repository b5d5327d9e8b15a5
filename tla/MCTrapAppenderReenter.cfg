SPECIFICATION TrapsSpec
CONSTANTS
  t1 = t1
  t2 = t2
  d1 = d1
  d2 = d2
  err = err
  Threads = {t1}
  NoThread = NoThread
  AppRoute <- Main
  ErrorRoutes <- Shared
  Faulty = {d1, d2}
  MaxCalls = 3
INVARIANTS NoSelfWait
CHECK_DEADLOCK FALSE
