SPECIFICATION FairSpec
CONSTANTS
  MaxCodeLength = 4
  StackLimit = 2
  MaxDebt = 1
  Programs <- MCPrograms
  GasLimits <- MCGasLimits
  Words <- MCWords
INVARIANTS
  TypeOK
  CodeReadsInBuffer
  JumpdestMapIsExact
  ExecutionIsAligned
PROPERTIES
  ExecutionTerminates
CHECK_DEADLOCK FALSE
