SPECIFICATION FairSpec
CONSTANTS
  MaxCodeLength = 4
  StackLimit = 3
  StackInfoMax = 4
  GasInfoMax = 384000
  WordBytes = 2
  MaxDebt = 1
  Programs <- MCPrograms
  GasLimits <- MCGasLimits
  Words <- MCWords
INVARIANTS
  ReservedSizesSuffice
  JumpdestTablesExact
  ArgumentMembersMatch
  StackAccessInBounds
  CorrectionIsRestOfBlock
  RefusedBlocksFail
PROPERTIES
  ImplementsBaseline
  ExecutionTerminates
CHECK_DEADLOCK FALSE
