SPECIFICATION Spec
CONSTANTS
  Ids = {2, 3, 4, 5, 6, 7, 8}
  Inputs <- MCInputs
  Gas = {18, 150, 100000}
  GasCostMax = 2000000000
  LenLimit = 1000
  Stubs <- MCStubs
  MaxCalls = 3
  MaxRestarts = 2
INVARIANT CacheAddsNothing
CHECK_DEADLOCK FALSE
