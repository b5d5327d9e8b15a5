SPECIFICATION FairTrapsSpec
CONSTANTS
  t1 = t1
  t2 = t2
  d1 = d1
  d2 = d2
  err = err
  Threads <- Pair
  NoThread = NoThread
  AppRoute <- Main
  ErrorRoutes <- Either
  Faulty = {d1, d2}
  MaxCalls = 4
INVARIANTS TrapsInv
PROPERTIES AllTried CallReturns
CHECK_DEADLOCK FALSE
