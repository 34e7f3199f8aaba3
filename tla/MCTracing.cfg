SPECIFICATION Spec
CONSTANTS
  Codes <- MCCodes
  GasLimits = {1, 4}
  OuterDepths = {0, 2}
  CallDepthLimit = 2
  MaxTracers = 2
  MaxMessages = 3
INVARIANTS
  ContextsMirrorExecutions
  NumbersAreDecimal
PROPERTY HistogramCountsExact
CHECK_DEADLOCK FALSE
