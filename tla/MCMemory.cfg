SPECIFICATION Spec
CONSTANTS
  Offsets = {0, 1, 3, 4, 7, 8}
  GasLimits = {4, 30}
  word_size = 2
  page_size = 2
  max_buffer_size = 3
  size_modulus = 8
  QuadDivisor = 3
  MaxResets = 1
INVARIANTS
  AccessInAllocation
  MemoryStartsZeroed
  PaidIsCostOfSize
CHECK_DEADLOCK FALSE
