SPECIFICATION Spec
CONSTANTS
  Values = {0, 1, 2}
  GasLimits = {2450, 5400, 24800}
  CallGas = {2302, 99999}
  MaxDepth = 3
  MaxOps = 7
  MaxTransactions = 1
INVARIANTS
  NetCostDependsOnlyOnEnds
  RefundNeverOverdrawn
  CalleeReturnsNoExtraGas
  StaticFrameWritesNothing
CHECK_DEADLOCK FALSE
