SPECIFICATION Spec
CONSTANTS
  WordBytes = 2
  StackLimit = 9
  MaxBufferSize = 1000
  StackInfoMax = 10
  GasInfoMax = 2000000
  MaxDebt = 1000
  EnvWords <- MCEnvWords
  Programs <- CostPrograms
  GasLimits <- CostGas
  Scenarios <- CostScenarios
INVARIANTS
  InterpretersAgree
PROPERTIES
  NoGasIsCreated
CHECK_DEADLOCK FALSE
