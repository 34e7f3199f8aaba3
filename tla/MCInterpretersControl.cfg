SPECIFICATION Spec
CONSTANTS
  WordBytes = 1
  StackLimit = 2
  MaxBufferSize = 200
  StackInfoMax = 3
  GasInfoMax = 300000
  MaxDebt = 1000
  EnvWords <- MCEnvWords
  Programs <- ControlPrograms
  GasLimits <- ControlGas
  Scenarios <- ControlScenarios
INVARIANTS
  InterpretersAgree
PROPERTIES
  BaselineRefines
  AdvancedRefines
CHECK_DEADLOCK FALSE
