SPECIFICATION Spec
CONSTANTS
  S = S
  A = A
  C = C
  Z = Z
  K = K
  N = N
  M = M
  NoAddress = NoAddress
  Address <- MCAddress
  Precompiles <- MCPrecompiles
  addr_03 = Z
  coinbase = C
  Salt <- MCSalt
  CreateAddress <- MCCreateAddress
  Create2Address <- MCCreate2Address
  Codes <- MCCodes
  Genesis <- MCGenesis
  Transactions <- MCOneTransaction
  Withdrawals <- MCWithdrawals
  NonceMax = 3
  base_fee = 2
  gplanck = 10
  block_gas_limit = 60000
  Values = {0, 1}
  CallGas = {1000}
  Spent = {0, 900}
  Refunds = {0}
  CallDepthLimit = 3
  Targets = {A, Z, M}
  MaxOps = 4
  MaxTransactions = 1
INVARIANTS
  TypeOK
  ValueConserved
  OneCreationPerAddress
  CodeNeverReplaced
  StaticMessagesChangeNothing
PROPERTIES
  ReceiptHasLogsOfSurvivors
  ExemptEffectsSurvive
CHECK_DEADLOCK FALSE
