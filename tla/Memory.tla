------------------------------- MODULE Memory --------------------------------
(***************************************************************************)
(* The memory of an execution: class Memory of execution_state.hpp and the *)
(* functions check_memory and grow_memory of instructions.hpp that every   *)
(* instruction accessing memory calls first.  A byte is zero or not; the   *)
(* bytes realloc() adds are uninitialized, which is any choice.  The       *)
(* object outlives an execution: ExecutionState::reset() clears it and     *)
(* uses it again.                                                          *)
(***************************************************************************)
EXTENDS Integers

CONSTANTS
  Offsets,         \* the offsets and sizes instructions ask for
  GasLimits,       \* the gas of an execution
  word_size,       \* 32 in the program
  page_size,       \* 4096 in the program
  max_buffer_size, \* 2^32 - 1 in the program
  size_modulus,    \* 2^64 in the program: sizes are computed in uint64_t
  QuadDivisor,     \* 512 in the program
  MaxResets        \* bound on the number of executions that reuse the object

ASSUME OffsetsAssumption == Offsets \subseteq Nat
ASSUME GasLimitsAssumption == GasLimits \subseteq Nat
ASSUME WordSizeAssumption == word_size \in Nat \ {0}
ASSUME PageSizeAssumption == page_size \in Nat \ {0}
ASSUME MaxBufferAssumption == max_buffer_size \in Nat
ASSUME SizeModulusAssumption == size_modulus \in Nat /\ 2 * max_buffer_size + word_size <= size_modulus
ASSUME QuadDivisorAssumption == QuadDivisor \in Nat \ {0}
ASSUME MaxResetsAssumption == MaxResets \in Nat

VARIABLES
  m_size,      \* Memory::m_size
  m_capacity,  \* Memory::m_capacity, the allocated size
  nonzero,     \* the allocated bytes that are not zero
  gas_left,
  status,      \* "RUNNING", or "OUT_OF_GAS" once an access was refused
  access,      \* the last access let through: offset, size, and whether there is one
  written,     \* history: the bytes made non-zero by this execution
  paid,        \* history: the gas this execution paid for memory
  resets       \* the number of reset() calls

vars == <<m_size, m_capacity, nonzero, gas_left, status, access, written, paid, resets>>

NoAccess == [offset |-> 0, size |-> 0, ok |-> FALSE]

Init ==
  /\ m_size = 0
  /\ m_capacity = page_size
  /\ nonzero \in SUBSET (0 .. page_size - 1)   \* realloc(nullptr): uninitialized
  /\ gas_left \in GasLimits
  /\ status = "RUNNING"
  /\ access = NoAccess
  /\ written = {}
  /\ paid = 0
  /\ resets = 0

(* static_cast<uint64_t>: also what a sum of two such numbers is.          *)
narrow(x) == x % size_modulus

num_words(size_in_bytes) == narrow(size_in_bytes + (word_size - 1)) \div word_size

memory_cost(words) == 3 * words + (words * words) \div QuadDivisor

(* Mutant: doubling is taken to be enough.                                 *)
doubled_capacity(size) == IF size <= m_capacity THEN m_capacity ELSE m_capacity * 2

(* The capacity after grow(): doubled, or if that is not enough the size   *)
(* rounded up to pages.                                                    *)
grown_capacity(size) ==
  IF size <= m_capacity THEN m_capacity
  ELSE IF m_capacity * 2 < size THEN ((size + (page_size - 1)) \div page_size) * page_size
  ELSE m_capacity * 2

(* Mutant: only reallocated bytes are zeroed.                              *)
grow_zeroing_new(size) ==
  /\ m_capacity' = grown_capacity(size)
  /\ nonzero' = nonzero
  /\ m_size' = size

(* Memory::grow(): reallocation, then zeros up to the new size.            *)
grow(size) ==
  /\ m_capacity' = grown_capacity(size)
  /\ \E garbage \in SUBSET (m_capacity .. m_capacity' - 1) :
       nonzero' = (nonzero \cup garbage) \ (m_size .. size - 1)
  /\ m_size' = size

(* The instruction may access the range, whose offset and size it narrows, *)
(* or fails with ZVMC_OUT_OF_GAS.                                          *)
Allow(offset, size) ==
  access' = [offset |-> narrow(offset), size |-> narrow(size), ok |-> TRUE] /\ UNCHANGED status
Refuse == access' = NoAccess /\ status' = "OUT_OF_GAS" /\ UNCHANGED <<m_size, m_capacity, nonzero, paid>>

(* The end of the accessed range, as check_memory() computes it.           *)
new_size(offset, size) == narrow(narrow(offset) + narrow(size))

(* Mutant: every growth pays for all words.                                *)
grow_memory_full_price(offset, size) ==
  LET new_words == num_words(new_size(offset, size))
      cost == memory_cost(new_words)
  IN /\ gas_left' = gas_left - cost
     /\ IF gas_left - cost >= 0
        THEN grow(new_words * word_size) /\ paid' = paid + cost /\ Allow(offset, size)
        ELSE Refuse

(* grow_memory(): the words beyond the current size are paid for first.    *)
grow_memory(offset, size) ==
  LET new_words == num_words(new_size(offset, size))
      cost == memory_cost(new_words) - memory_cost(m_size \div word_size)
  IN /\ gas_left' = gas_left - cost
     /\ IF gas_left - cost >= 0
        THEN grow(new_words * word_size) /\ paid' = paid + cost /\ Allow(offset, size)
        ELSE Refuse

(* Mutant: an offset beyond the buffer limit is not refused.               *)
check_memory_any_offset(offset, size) ==
  /\ status = "RUNNING"
  /\ IF size = 0 THEN Allow(offset, 0) /\ UNCHANGED <<m_size, m_capacity, nonzero, gas_left, paid>>
     ELSE IF size > max_buffer_size THEN Refuse /\ UNCHANGED gas_left
     ELSE IF new_size(offset, size) > m_size THEN grow_memory(offset, size)
     ELSE Allow(offset, size) /\ UNCHANGED <<m_size, m_capacity, nonzero, gas_left, paid>>
  /\ UNCHANGED <<written, resets>>

(* check_memory() for an offset and a size taken from the stack, which are *)
(* words of any size.                                                      *)
check_memory(offset, size) ==
  /\ status = "RUNNING"
  /\ IF size = 0 THEN Allow(offset, 0) /\ UNCHANGED <<m_size, m_capacity, nonzero, gas_left, paid>>
     ELSE IF size > max_buffer_size \/ offset > max_buffer_size THEN Refuse /\ UNCHANGED gas_left
     ELSE IF new_size(offset, size) > m_size THEN grow_memory(offset, size)
     ELSE Allow(offset, size) /\ UNCHANGED <<m_size, m_capacity, nonzero, gas_left, paid>>
  /\ UNCHANGED <<written, resets>>

(* An instruction writes a non-zero byte, or zero, in the checked range.   *)
write(i, zero) ==
  /\ access.ok
  /\ i \in access.offset .. (access.offset + access.size - 1)
  /\ nonzero' = IF zero THEN nonzero \ {i} ELSE nonzero \cup {i}
  /\ written' = IF zero THEN written \ {i} ELSE written \cup {i}
  /\ UNCHANGED <<m_size, m_capacity, gas_left, status, access, paid, resets>>

(* ExecutionState::reset(): memory.clear() keeps the allocation and its    *)
(* contents; a new message brings new gas.                                 *)
reset ==
  /\ resets < MaxResets
  /\ resets' = resets + 1
  /\ m_size' = 0
  /\ gas_left' \in GasLimits
  /\ status' = "RUNNING"
  /\ access' = NoAccess
  /\ written' = {}
  /\ paid' = 0
  /\ UNCHANGED <<m_capacity, nonzero>>

Next ==
  \/ \E offset, size \in Offsets : check_memory(offset, size)
  \/ \E i \in 0 .. (m_size - 1), zero \in BOOLEAN : write(i, zero)
  \/ reset

Spec == Init /\ [][Next]_vars

------------------------------------------------------------------------------
(* Types.                                                                  *)
TypeOK ==
  /\ m_size \in Nat
  /\ m_capacity \in Nat
  /\ nonzero \in SUBSET Nat
  /\ gas_left \in Int
  /\ status = "RUNNING" => gas_left >= 0
  /\ status \in {"RUNNING", "OUT_OF_GAS"}
  /\ access \in [offset : Nat, size : Nat, ok : BOOLEAN]
  /\ written \in SUBSET Nat
  /\ paid \in Int
  /\ resets \in 0 .. MaxResets

(* An access that was let through, with its offset and size as narrowed,   *)
(* lies in the memory, and the memory in the allocation: no instruction    *)
(* touches bytes outside it, because nothing wraps around on the way.      *)
AccessInAllocation ==
  /\ m_size <= m_capacity
  /\ access.ok /\ access.size > 0 => access.offset + access.size <= m_size

(* What an execution sees is what it wrote: every other byte is zero, also *)
(* where an earlier execution or the allocator left something.             *)
MemoryStartsZeroed == {i \in nonzero : i < m_size} = written

(* The gas paid for memory depends only on its size: the price of growing  *)
(* in steps is the price of growing at once.                               *)
PaidIsCostOfSize ==
  /\ m_size % word_size = 0
  /\ paid = memory_cost(m_size \div word_size)

(* Memory only grows during an execution, by whole words, and never for    *)
(* nothing.                                                                *)
GrowthIsPaid ==
  [][m_size' # m_size /\ resets' = resets =>
       /\ m_size' > m_size
       /\ gas_left' < gas_left
       /\ gas_left' >= 0]_vars
==============================================================================
