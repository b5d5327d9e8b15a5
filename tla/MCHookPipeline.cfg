SPECIFICATION FairSpec
CONSTANTS
  t1 = t1
  t2 = t2
  Threads <- MCThreads
  Nobody = Nobody
  Types = {"E"}
  MaxDepth = 2
  MaxHooks = 1
  MaxFaults = 2
INVARIANTS Inv NoCallAfterRemoval
PROPERTIES FansOutToAll CallReturns
CHECK_DEADLOCK TRUE
