SPECIFICATION FairSpec
CONSTANTS
  c1 = c1
  c2 = c2
  c3 = c3
  Nobody = Nobody
  Caller <- MCCaller
  MaxHooks = 2
INVARIANTS Inv
PROPERTIES ImplementsAtomicHooks CallReturns
CHECK_DEADLOCK TRUE
