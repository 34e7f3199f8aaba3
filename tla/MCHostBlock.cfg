SPECIFICATION Spec
CONSTANTS
  S = S
  A = A
  C = C
  Z = Z
  K = K
  N = N
  M = M
  NoAddress = NoAddress
  Address <- MCAddress
  Precompiles <- MCPrecompiles
  addr_03 = Z
  coinbase = C
  Salt <- MCSalt
  CreateAddress <- MCCreateAddress
  Create2Address <- MCCreate2Address
  Codes <- MCCodes
  Genesis <- MCBlockGenesis
  Transactions <- MCTransactions
  Withdrawals <- MCWithdrawals
  NonceMax = 2
  base_fee = 2
  gplanck = 10
  block_gas_limit = 60000
  Values = {0, 1}
  CallGas = {1000}
  Spent = {0}
  Refunds <- MCRefunds
  CallDepthLimit = 3
  Targets = {A, S}
  MaxOps = 1
  MaxTransactions = 2
INVARIANTS
  BalancesCovered
PROPERTIES
  TransactionsAreAtomic
CHECK_DEADLOCK FALSE
