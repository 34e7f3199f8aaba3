---------------------------- MODULE MemoryProofs -----------------------------
(***************************************************************************)
(* Proofs about module Memory, for every word size, page size, buffer      *)
(* limit, modulus of sizes that twice that limit does not reach, quadratic *)
(* divisor and any set of offsets and gas limits.                          *)
(***************************************************************************)
EXTENDS Memory, TLAPS

------------------------------------------------------------------------------
(* Arithmetic.                                                             *)

(* Division with remainder.                                                *)
LEMMA DivMod ==
  ASSUME NEW a \in Nat, NEW d \in Nat \ {0}
  PROVE  /\ a \div d \in Nat
         /\ a % d \in 0 .. (d - 1)
         /\ a = d * (a \div d) + (a % d)
  OBVIOUS

(* Rounding up to a multiple of d, as num_words() and grow() do.           *)
LEMMA RoundUp ==
  ASSUME NEW a \in Nat, NEW d \in Nat \ {0}
  PROVE  /\ (a + (d - 1)) \div d \in Nat
         /\ ((a + (d - 1)) \div d) * d \in Nat
         /\ ((a + (d - 1)) \div d) * d >= a
  <1> DEFINE q == (a + (d - 1)) \div d
  <1>1. a + (d - 1) \in Nat
    OBVIOUS
  <1>2. q \in Nat /\ (a + (d - 1)) % d \in 0 .. (d - 1) /\ a + (d - 1) = d * q + ((a + (d - 1)) % d)
    BY <1>1, DivMod
  <1> QED
    BY <1>2

(* A multiple of d divided by d.                                           *)
LEMMA DivOfMultiple ==
  ASSUME NEW k \in Nat, NEW d \in Nat \ {0}
  PROVE  (k * d) \div d = k /\ (k * d) % d = 0
  OBVIOUS

(* Nothing within the buffer limit is changed by narrowing, nor is the end *)
(* of such a range, even rounded up.                                       *)
LEMMA NoWrapAround ==
  ASSUME NEW offset \in Nat, NEW size \in Nat, offset <= max_buffer_size, size <= max_buffer_size
  PROVE  /\ narrow(offset) = offset /\ narrow(size) = size
         /\ new_size(offset, size) = offset + size
         /\ num_words(offset + size) = (offset + size + (word_size - 1)) \div word_size
  <1>1. size_modulus \in Nat \ {0} /\ word_size \in Nat \ {0} /\ max_buffer_size \in Nat
        /\ 2 * max_buffer_size + word_size <= size_modulus
    BY SizeModulusAssumption, WordSizeAssumption, MaxBufferAssumption
  <1>2. ASSUME NEW x \in Nat, x < size_modulus
        PROVE  narrow(x) = x
    BY <1>1, <1>2 DEF narrow
  <1>3. narrow(offset) = offset /\ narrow(size) = size
    BY <1>1, <1>2
  <1>4. narrow(offset + size) = offset + size
    BY <1>1, <1>2
  <1>5. narrow(offset + size + (word_size - 1)) = offset + size + (word_size - 1)
    BY <1>1, <1>2
  <1> QED
    BY <1>3, <1>4, <1>5 DEF new_size, num_words

(* More words cost strictly more.                                          *)
LEMMA CostIncreases ==
  ASSUME NEW v \in Nat, NEW w \in Nat, v < w
  PROVE  memory_cost(v) < memory_cost(w) /\ memory_cost(v) \in Nat /\ memory_cost(w) \in Nat
  <1>1. v * v \in Nat /\ w * w \in Nat /\ v * v <= w * w
    OBVIOUS
  <1>2. (v * v) \div QuadDivisor \in Nat /\ (w * w) \div QuadDivisor \in Nat
    BY <1>1, DivMod, QuadDivisorAssumption
  <1>3. (v * v) \div QuadDivisor <= (w * w) \div QuadDivisor
    BY <1>1, QuadDivisorAssumption
  <1> QED
    BY <1>2, <1>3 DEF memory_cost

------------------------------------------------------------------------------
(* The inductive invariant: the invariants of the module support each      *)
(* other.  The zeroing of grow() needs the range of the written bytes,     *)
(* which MemoryStartsZeroed bounds by m_size; the range of an access needs *)
(* that sizes are whole words.                                             *)
IInv ==
  /\ TypeOK
  /\ AccessInAllocation
  /\ MemoryStartsZeroed
  /\ PaidIsCostOfSize

(* grown_capacity() covers the requested size: the doubling, or else the   *)
(* rounding to pages.                                                      *)
LEMMA GrownCapacitySuffices ==
  ASSUME m_capacity \in Nat, NEW n \in Nat
  PROVE  /\ grown_capacity(n) \in Nat
         /\ grown_capacity(n) >= n
         /\ grown_capacity(n) >= m_capacity
  <1>1. /\ ((n + (page_size - 1)) \div page_size) * page_size \in Nat
        /\ ((n + (page_size - 1)) \div page_size) * page_size >= n
    BY RoundUp, PageSizeAssumption
  <1> QED
    BY <1>1 DEF grown_capacity

(* Growing zeroes what it adds: the bytes below the new size that are not  *)
(* zero are those that were below the old size.                            *)
LEMMA GrowKeepsContents ==
  ASSUME TypeOK, NEW n \in Nat, n > m_size, m_size <= m_capacity, grow(n)
  PROVE  /\ m_size' = n
         /\ m_capacity' \in Nat
         /\ m_size' <= m_capacity'
         /\ nonzero' \in SUBSET Nat
         /\ {i \in nonzero' : i < m_size'} = {i \in nonzero : i < m_size}
  <1>1. m_size' = n /\ m_capacity' \in Nat /\ n <= m_capacity' /\ m_capacity <= m_capacity'
    BY GrownCapacitySuffices DEF grow, TypeOK
  <1>2. PICK garbage \in SUBSET (m_capacity .. m_capacity' - 1) :
          nonzero' = (nonzero \cup garbage) \ (m_size .. n - 1)
    BY DEF grow
  <1>3. garbage \subseteq Nat /\ \A i \in garbage : i >= m_capacity
    <2>1. ASSUME NEW i \in garbage
          PROVE  i \in Nat /\ i >= m_capacity
      <3>1. i \in m_capacity .. (m_capacity' - 1)
        OBVIOUS
      <3>2. m_capacity \in Nat /\ m_capacity' \in Nat
        BY <1>1 DEF TypeOK
      <3> QED
        BY <3>1, <3>2
    <2> QED
      BY <2>1
  <1>4. nonzero' \in SUBSET Nat
    BY <1>2, <1>3 DEF TypeOK
  <1>5. ASSUME NEW i \in Nat
        PROVE  i \in nonzero' /\ i < n <=> i \in nonzero /\ i < m_size
    BY <1>2, <1>3 DEF TypeOK
  <1>6. {i \in nonzero' : i < n} = {i \in nonzero : i < m_size}
    BY <1>4, <1>5 DEF TypeOK
  <1> QED
    BY <1>1, <1>4, <1>6

(* grow_memory() either grows the memory to hold the access, and charges   *)
(* exactly the difference of the costs, or refuses.                        *)
LEMMA GrowMemoryStep ==
  ASSUME IInv, NEW offset \in Nat, NEW size \in Nat \ {0}, status = "RUNNING",
         offset <= max_buffer_size, size <= max_buffer_size, offset + size > m_size, grow_memory(offset, size), UNCHANGED <<written, resets>>
  PROVE  /\ IInv'
         /\ m_size' # m_size => m_size' > m_size /\ gas_left' < gas_left /\ gas_left' >= 0
  <1> DEFINE words == num_words(offset + size)
             n == words * word_size
             cost == memory_cost(words) - memory_cost(m_size \div word_size)
  <1>0. /\ new_size(offset, size) = offset + size /\ narrow(offset) = offset /\ narrow(size) = size
        /\ words = (offset + size + (word_size - 1)) \div word_size
    BY NoWrapAround
  <1>1. words \in Nat /\ n \in Nat /\ n >= offset + size
    BY <1>0, RoundUp, WordSizeAssumption
  <1>2. n \div word_size = words /\ n % word_size = 0
    BY <1>1, DivOfMultiple, WordSizeAssumption
  <1>3. m_size \div word_size \in Nat /\ m_size = word_size * (m_size \div word_size)
    <2>1. m_size \in Nat /\ m_size % word_size = 0
      BY DEF IInv, TypeOK, PaidIsCostOfSize
    <2>2. m_size = word_size * (m_size \div word_size) + (m_size % word_size)
      BY <2>1, DivMod, WordSizeAssumption
    <2>3. m_size \div word_size \in Nat
      BY <2>1, DivMod, WordSizeAssumption
    <2> QED
      BY <2>1, <2>2, <2>3, WordSizeAssumption
  <1>4. m_size < n
    BY <1>1 DEF IInv, TypeOK
  <1>5. m_size \div word_size < words
    BY <1>1, <1>3, <1>4, WordSizeAssumption
  <1>6. cost \in Nat /\ cost > 0
    BY <1>1, <1>3, <1>5, CostIncreases
  <1>7. CASE gas_left - cost >= 0
    <2>1. /\ gas_left' = gas_left - cost
          /\ grow(n)
          /\ paid' = paid + cost
          /\ access' = [offset |-> offset, size |-> size, ok |-> TRUE]
          /\ status' = status
      BY <1>0, <1>7 DEF grow_memory, Allow
    <2>2. /\ m_size' = n
          /\ m_capacity' \in Nat
          /\ m_size' <= m_capacity'
          /\ nonzero' \in SUBSET Nat
          /\ {i \in nonzero' : i < m_size'} = {i \in nonzero : i < m_size}
      BY <1>1, <1>4, <2>1, GrowKeepsContents DEF IInv, AccessInAllocation
    <2>3. TypeOK'
      BY <1>1, <1>6, <1>7, <2>1, <2>2 DEF IInv, TypeOK
    <2>4. AccessInAllocation'
      BY <1>1, <2>1, <2>2 DEF AccessInAllocation
    <2>5. MemoryStartsZeroed'
      BY <2>2 DEF IInv, MemoryStartsZeroed
    <2>6. PaidIsCostOfSize'
      <3>1. m_size' \div word_size = words /\ m_size' % word_size = 0
        BY <1>2, <2>2
      <3>2. memory_cost(words) \in Nat /\ memory_cost(m_size \div word_size) \in Nat
        BY <1>1, <1>3, <1>5, CostIncreases
      <3>3. paid' = memory_cost(words)
        BY <2>1, <3>2 DEF IInv, PaidIsCostOfSize
      <3> QED
        BY <3>1, <3>3 DEF PaidIsCostOfSize, memory_cost
    <2> QED
      BY <1>4, <1>6, <1>7, <2>1, <2>2, <2>3, <2>4, <2>5, <2>6 DEF IInv, TypeOK
  <1>8. CASE ~(gas_left - cost >= 0)
    <2>1. /\ gas_left' = gas_left - cost
          /\ access' = NoAccess
          /\ status' = "OUT_OF_GAS"
          /\ UNCHANGED <<m_size, m_capacity, nonzero, paid>>
      BY <1>0, <1>8 DEF grow_memory, Refuse
    <2>2. TypeOK'
      BY <1>6, <2>1 DEF IInv, TypeOK, NoAccess
    <2> QED
      BY <2>1, <2>2 DEF IInv, AccessInAllocation, MemoryStartsZeroed, PaidIsCostOfSize, memory_cost, NoAccess
  <1> QED
    BY <1>7, <1>8

(* check_memory() keeps the invariant; a growth is paid for.               *)
LEMMA CheckMemoryStep ==
  ASSUME IInv, NEW offset \in Offsets, NEW size \in Offsets, check_memory(offset, size)
  PROVE  /\ IInv'
         /\ m_size' # m_size => m_size' > m_size /\ gas_left' < gas_left /\ gas_left' >= 0
  <1>1. offset \in Nat /\ size \in Nat /\ status = "RUNNING" /\ UNCHANGED <<written, resets>>
    BY OffsetsAssumption DEF check_memory
  <1>2. CASE size = 0
    <2>1. /\ access' = [offset |-> narrow(offset), size |-> narrow(0), ok |-> TRUE]
          /\ UNCHANGED <<status, m_size, m_capacity, nonzero, gas_left, paid>>
      BY <1>2 DEF check_memory, Allow
    <2>2. narrow(offset) \in Nat /\ narrow(0) = 0
      BY <1>1, SizeModulusAssumption, WordSizeAssumption, MaxBufferAssumption DEF narrow
    <2> QED
      BY <1>1, <2>1, <2>2 DEF IInv, TypeOK, AccessInAllocation, MemoryStartsZeroed, PaidIsCostOfSize, memory_cost
  <1>3. CASE size # 0 /\ (size > max_buffer_size \/ offset > max_buffer_size)
    <2>1. /\ access' = NoAccess
          /\ status' = "OUT_OF_GAS"
          /\ UNCHANGED <<m_size, m_capacity, nonzero, gas_left, paid>>
      BY <1>3 DEF check_memory, Refuse
    <2> QED
      BY <1>1, <2>1 DEF IInv, TypeOK, AccessInAllocation, MemoryStartsZeroed, PaidIsCostOfSize, memory_cost, NoAccess
  <1> DEFINE within == size # 0 /\ ~(size > max_buffer_size \/ offset > max_buffer_size)
  <1>4. ASSUME within
        PROVE  /\ offset <= max_buffer_size /\ size <= max_buffer_size
               /\ new_size(offset, size) = offset + size /\ narrow(offset) = offset /\ narrow(size) = size
    <2>1. offset <= max_buffer_size /\ size <= max_buffer_size
      BY <1>1, <1>4, MaxBufferAssumption
    <2> QED
      BY <1>1, <2>1, NoWrapAround
  <1>5. CASE size # 0 /\ ~(size > max_buffer_size \/ offset > max_buffer_size) /\ offset + size > m_size
    <2>1. grow_memory(offset, size)
      BY <1>4, <1>5 DEF check_memory
    <2> QED
      BY <1>1, <1>4, <1>5, <2>1, GrowMemoryStep
  <1>6. CASE size # 0 /\ ~(size > max_buffer_size \/ offset > max_buffer_size) /\ ~(offset + size > m_size)
    <2>1. /\ access' = [offset |-> offset, size |-> size, ok |-> TRUE]
          /\ UNCHANGED <<status, m_size, m_capacity, nonzero, gas_left, paid>>
      BY <1>4, <1>6 DEF check_memory, Allow
    <2> QED
      BY <1>1, <1>6, <2>1 DEF IInv, TypeOK, AccessInAllocation, MemoryStartsZeroed, PaidIsCostOfSize, memory_cost
  <1> QED
    BY <1>2, <1>3, <1>5, <1>6

(* A write in the checked range is a write below m_size.                   *)
LEMMA WriteStep ==
  ASSUME IInv, NEW i, NEW zero \in BOOLEAN, write(i, zero)
  PROVE  IInv'
  <1>1. i \in Nat /\ i < m_size
    BY DEF write, IInv, TypeOK, AccessInAllocation
  <1>2. TypeOK'
    BY <1>1 DEF write, IInv, TypeOK
  <1>3. AccessInAllocation'
    BY DEF write, IInv, AccessInAllocation
  <1>4. MemoryStartsZeroed'
    BY <1>1 DEF write, IInv, TypeOK, MemoryStartsZeroed
  <1>5. PaidIsCostOfSize'
    BY DEF write, IInv, PaidIsCostOfSize, memory_cost
  <1> QED
    BY <1>2, <1>3, <1>4, <1>5 DEF IInv

(* A new execution starts from an empty memory, whatever is allocated.     *)
LEMMA ResetStep ==
  ASSUME IInv, reset
  PROVE  IInv'
  <1>1. TypeOK'
    BY GasLimitsAssumption, MaxResetsAssumption DEF reset, IInv, TypeOK, NoAccess
  <1>2. AccessInAllocation'
    BY DEF reset, IInv, TypeOK, AccessInAllocation, NoAccess
  <1>3. MemoryStartsZeroed'
    <2>1. m_size' = 0 /\ nonzero' \in SUBSET Nat /\ written' = {}
      BY DEF reset, IInv, TypeOK
    <2>2. ASSUME NEW i \in nonzero'
          PROVE  ~(i < m_size')
      <3>1. i \in Nat
        BY <2>1
      <3> QED
        BY <2>1, <3>1
    <2> QED
      BY <2>1, <2>2 DEF MemoryStartsZeroed
  <1>4. PaidIsCostOfSize'
    BY WordSizeAssumption, QuadDivisorAssumption DEF reset, PaidIsCostOfSize, memory_cost
  <1> QED
    BY <1>1, <1>2, <1>3, <1>4 DEF IInv

(* The initial state.                                                      *)
LEMMA InitEstablishes == Init => IInv
  <1> SUFFICES ASSUME Init PROVE IInv
    OBVIOUS
  <1>1. TypeOK
    BY GasLimitsAssumption, PageSizeAssumption, MaxResetsAssumption DEF Init, TypeOK, NoAccess
  <1>2. AccessInAllocation
    BY PageSizeAssumption DEF Init, AccessInAllocation, NoAccess
  <1>3. MemoryStartsZeroed
    <2>1. m_size = 0 /\ nonzero \in SUBSET Nat /\ written = {}
      BY <1>1 DEF Init, TypeOK
    <2>2. ASSUME NEW i \in nonzero
          PROVE  ~(i < m_size)
      <3>1. i \in Nat
        BY <2>1
      <3> QED
        BY <2>1, <3>1
    <2> QED
      BY <2>1, <2>2 DEF MemoryStartsZeroed
  <1>4. PaidIsCostOfSize
    BY WordSizeAssumption, QuadDivisorAssumption DEF Init, PaidIsCostOfSize, memory_cost
  <1> QED
    BY <1>1, <1>2, <1>3, <1>4 DEF IInv

(* Every step keeps the invariant.                                         *)
LEMMA NextPreserves == IInv /\ [Next]_vars => IInv'
  <1> SUFFICES ASSUME IInv, [Next]_vars PROVE IInv'
    OBVIOUS
  <1>1. ASSUME NEW offset \in Offsets, NEW size \in Offsets, check_memory(offset, size) PROVE IInv'
    BY <1>1, CheckMemoryStep
  <1>2. ASSUME NEW i \in 0 .. (m_size - 1), NEW zero \in BOOLEAN, write(i, zero) PROVE IInv'
    BY <1>2, WriteStep
  <1>3. CASE reset
    BY <1>3, ResetStep
  <1>4. CASE UNCHANGED vars
    BY <1>4 DEF vars, IInv, TypeOK, AccessInAllocation, MemoryStartsZeroed, PaidIsCostOfSize, memory_cost
  <1> QED
    BY <1>1, <1>2, <1>3, <1>4 DEF Next

(* The inductive invariant holds in every reachable state.                 *)
THEOREM Invariance == Spec => []IInv
  BY InitEstablishes, NextPreserves, PTL DEF Spec

(* Types, whatever sizes and offsets instructions ask for.                 *)
THEOREM TypeCorrect == Spec => []TypeOK
  BY Invariance, PTL DEF IInv

(* No access let through by check_memory() leaves the allocation grow()    *)
(* made, for every page and word size: doubling or rounding to pages       *)
(* always covers the requested size.                                       *)
THEOREM AccessSafe == Spec => []AccessInAllocation
  BY Invariance, PTL DEF IInv

(* An execution sees zeros where it has not written, although clear()      *)
(* keeps old contents and realloc() adds uninitialized bytes.              *)
THEOREM FreshMemory == Spec => []MemoryStartsZeroed
  BY Invariance, PTL DEF IInv

(* The gas charged by grow_memory() in steps adds up to the cost of the    *)
(* size reached.                                                           *)
THEOREM CostTelescopes == Spec => []PaidIsCostOfSize
  BY Invariance, PTL DEF IInv

(* Memory only grows within an execution and every growth costs gas.       *)
THEOREM GrowthCosts == Spec => GrowthIsPaid
  <1> DEFINE Paid == m_size' # m_size /\ resets' = resets =>
                       m_size' > m_size /\ gas_left' < gas_left /\ gas_left' >= 0
  <1>1. IInv /\ [Next]_vars => [Paid]_vars
    <2> SUFFICES ASSUME IInv, Next PROVE Paid
      OBVIOUS
    <2>1. ASSUME NEW offset \in Offsets, NEW size \in Offsets, check_memory(offset, size) PROVE Paid
      BY <2>1, CheckMemoryStep
    <2>2. ASSUME NEW i \in 0 .. (m_size - 1), NEW zero \in BOOLEAN, write(i, zero) PROVE Paid
      BY <2>2 DEF write
    <2>3. CASE reset
      BY <2>3 DEF reset, IInv, TypeOK
    <2> QED
      BY <2>1, <2>2, <2>3 DEF Next
  <1> QED
    BY <1>1, Invariance, PTL DEF Spec, GrowthIsPaid
==============================================================================
