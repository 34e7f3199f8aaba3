--------------------------- MODULE AdvancedProofs ----------------------------
(***************************************************************************)
(* Proofs about module Advanced, for every set of programs, gas limits and *)
(* words and for every stack limit: the analysis gives each block of the   *)
(* code exactly what its instructions need, one check per block is as good *)
(* as one per instruction, and Advanced implements Baseline.               *)
(***************************************************************************)
EXTENDS Advanced, SumProofs

------------------------------------------------------------------------------
(* The instruction tables.                                                 *)

(* The base costs are numbers, from -1 to the cost of a creation.          *)
LEMMA GasCostsRange ==
  ASSUME NEW op \in Byte
  PROVE  /\ gas_costs[op] \in Int
         /\ gas_costs[op] >= -1
         /\ gas_costs[op] <= MaxGasCost
  <1>1. base_cost(op) \in Int
    BY DEF base_cost, Byte, undefined, warm_storage_read_cost, OP_LOG0
  <1>2. CASE op \notin AnyLog
    <2>1. base_cost(op) >= -1
      BY <1>2 DEF base_cost, Byte, undefined, warm_storage_read_cost
    <2>2. base_cost(op) <= 32000
      BY <1>2 DEF base_cost, Byte, undefined, warm_storage_read_cost
    <2> QED
      BY <1>1, <2>1, <2>2 DEF gas_costs, MaxGasCost
  <1>3. CASE op \in AnyLog
    <2>1. op \in 160 .. 164
      BY <1>3 DEF AnyLog, OP_LOG0, OP_LOG4
    <2>2. base_cost(op) >= -1
      BY <2>1 DEF base_cost, undefined, warm_storage_read_cost, OP_LOG0
    <2>3. base_cost(op) <= 32000
      BY <2>1 DEF base_cost, undefined, warm_storage_read_cost, OP_LOG0
    <2> QED
      BY <1>1, <2>2, <2>3 DEF gas_costs, MaxGasCost
  <1> QED
    BY <1>2, <1>3

(* What a block is charged for an instruction; nothing for a byte that is  *)
(* none.                                                                   *)
LEMMA OpCost ==
  ASSUME NEW op \in Byte
  PROVE  /\ op_gas_cost(op) \in Nat
         /\ op_gas_cost(op) <= MaxGasCost
         /\ Defined(op) => op_gas_cost(op) = gas_costs[op]
         /\ ~Defined(op) => op_gas_cost(op) = 0
  BY GasCostsRange DEF op_gas_cost, Defined, undefined, MaxGasCost

(* An instruction removes no more items than it requires and adds at most  *)
(* one.                                                                    *)
LEMMA StackTraits ==
  ASSUME NEW op \in Byte
  PROVE  /\ stack_height_required[op] \in Nat
         /\ stack_height_change[op] \in Int
         /\ stack_height_change[op] <= 1
         /\ stack_height_change[op] + stack_height_required[op] >= 0
  <1> USE DEF AnyLog, AnyDup, AnySwap, OP_LOG0, OP_LOG4, OP_DUP1, OP_DUP16, OP_SWAP1, OP_SWAP16
  <1>1. items_required(op) \in Nat
    BY DEF items_required, Byte
  <1>2. items_added(op) \in Int
    BY DEF items_added, Byte
  <1>3. items_added(op) <= 1
    BY DEF items_added, Byte
  <1>4. items_added(op) + items_required(op) >= 0
    BY DEF items_added, items_required, Byte, EnvPush, AnyPush, OP_PUSH1, OP_PUSH32,
           OP_ISZERO, OP_NOT, OP_POP, OP_JUMP, OP_JUMPI, OP_CREATE, OP_CREATE2, OP_RETURN, OP_REVERT,
           OP_EXTCODECOPY, OP_DELEGATECALL, OP_STATICCALL, OP_CALL
  <1>5. stack_height_required[op] = items_required(op) /\ stack_height_change[op] = items_added(op)
    BY DEF stack_height_required, stack_height_change
  <1> QED
    BY <1>1, <1>2, <1>3, <1>4, <1>5

(* JUMPDEST and STOP leave the stack alone.                                *)
LEMMA NeutralOps ==
  /\ OP_JUMPDEST \in Byte /\ stack_height_required[OP_JUMPDEST] = 0 /\ stack_height_change[OP_JUMPDEST] = 0
  /\ OP_STOP \in Byte /\ stack_height_required[OP_STOP] = 0 /\ stack_height_change[OP_STOP] = 0
  <1> USE DEF AnyLog, AnyDup, AnySwap, OP_LOG0, OP_LOG4, OP_DUP1, OP_DUP16, OP_SWAP1, OP_SWAP16, EnvPush,
              AnyPush, OP_PUSH1, OP_PUSH32, OP_ISZERO, OP_NOT, OP_POP, OP_JUMP, OP_JUMPI, OP_CREATE,
              OP_CREATE2, OP_RETURN, OP_REVERT, OP_EXTCODECOPY, OP_DELEGATECALL, OP_STATICCALL, OP_CALL
  <1>1. 91 \in Byte /\ 0 \in Byte
    BY DEF Byte
  <1>2. items_required(91) = 0 /\ items_added(91) = 0
    BY DEF items_required, items_added
  <1>3. items_required(0) = 0 /\ items_added(0) = 0
    BY DEF items_required, items_added
  <1> QED
    BY <1>1, <1>2, <1>3 DEF stack_height_required, stack_height_change, OP_JUMPDEST, OP_STOP

(* A byte that is no instruction leaves the stack alone.                   *)
LEMMA UndefinedIsNeutral ==
  ASSUME NEW op \in Byte, ~Defined(op)
  PROVE  stack_height_change[op] = 0
  <1> USE DEF AnyLog, AnyDup, AnySwap, OP_LOG0, OP_LOG4, OP_DUP1, OP_DUP16, OP_SWAP1, OP_SWAP16, EnvPush,
              AnyPush, OP_PUSH1, OP_PUSH32, OP_ISZERO, OP_NOT, OP_POP, OP_JUMP, OP_JUMPI, OP_CREATE,
              OP_CREATE2, OP_RETURN, OP_REVERT, OP_EXTCODECOPY, OP_DELEGATECALL, OP_STATICCALL, OP_CALL
  <1>1. base_cost(op) = -1
    BY DEF Defined, gas_costs, undefined
  <1>2. items_added(op) = 0
    BY <1>1 DEF items_added, base_cost, Byte, undefined, warm_storage_read_cost, OP_STOP, OP_SSTORE, OP_INVALID,
       OP_SELFBALANCE, OP_ADDMOD, OP_MULMOD, OP_EXP, OP_KECCAK256, AnyCall, AnyCreate
  <1> QED
    BY <1>2 DEF stack_height_change

------------------------------------------------------------------------------
(* The structure of code.                                                  *)

(* Push data is 1 to 32 bytes long.                                        *)
LEMMA ImmediateSize ==
  ASSUME NEW op \in Byte
  PROVE  immediate_size(op) \in 0 .. 32 /\ (op \notin AnyPush => immediate_size(op) = 0)
  BY DEF immediate_size, AnyPush, OP_PUSH1, OP_PUSH32, Byte

(* Codes are byte strings.                                                 *)
LEMMA CodeType ==
  ASSUME NEW c \in Programs
  PROVE  /\ Len(c) \in Nat
         /\ \A p \in Positions(c) : ByteAt(c, p) \in Byte
         /\ Positions(c) \subseteq Nat
         /\ InstructionStarts(c) \subseteq Positions(c)
  BY ProgramsAssumption DEF Positions, ByteAt, InstructionStarts

(* The next instruction is ahead, by at most the longest push.             *)
LEMMA NextIsAhead ==
  ASSUME NEW c \in Programs, NEW p \in Positions(c)
  PROVE  NextPosition(c, p) \in (p + 1) .. (p + 33)
  <1>1. p \in Nat /\ ByteAt(c, p) \in Byte
    BY CodeType
  <1> QED
    BY <1>1, ImmediateSize DEF NextPosition

(* The first byte is an instruction, and so is what follows one.           *)
LEMMA StartsAreClosed ==
  ASSUME NEW c \in Programs
  PROVE  /\ 0 \in Positions(c) => 0 \in InstructionStarts(c)
         /\ \A p \in InstructionStarts(c) :
              NextPosition(c, p) \in Positions(c) => NextPosition(c, p) \in InstructionStarts(c)
  BY DEF InstructionStarts, ClosedUnderNext

(* Nothing else is: a closed set contains all instructions.                *)
LEMMA StartsAreLeast ==
  ASSUME NEW c \in Programs, NEW S \in SUBSET Positions(c), ClosedUnderNext(c, S)
  PROVE  InstructionStarts(c) \subseteq S
  BY DEF InstructionStarts

(* If all instructions before the instruction at k end at or before k,     *)
(* then no instruction starts inside the one at k.                         *)
LEMMA NoStartInside ==
  ASSUME NEW c \in Programs, NEW k \in Positions(c),
         \A q \in InstructionStarts(c) : q < k => NextPosition(c, q) <= k
  PROVE  \A q \in InstructionStarts(c) : ~(k < q /\ q < NextPosition(c, k))
  <1> DEFINE S == {q \in InstructionStarts(c) : ~(k < q /\ q < NextPosition(c, k))}
  <1>1. S \in SUBSET Positions(c) /\ Positions(c) \subseteq Nat /\ k \in Nat
    BY CodeType
  <1>2. 0 \in Positions(c) => 0 \in S
    BY <1>1, StartsAreClosed
  <1>3. ASSUME NEW q \in S, NextPosition(c, q) \in Positions(c)
        PROVE  NextPosition(c, q) \in S
    <2>1. q \in Positions(c) /\ q \in Nat /\ NextPosition(c, q) \in InstructionStarts(c)
      BY <1>1, <1>3, StartsAreClosed
    <2>2. NextPosition(c, q) \in (q + 1) .. (q + 33) /\ NextPosition(c, k) \in (k + 1) .. (k + 33)
      BY <2>1, NextIsAhead
    <2>3. CASE q < k
      BY <1>1, <2>1, <2>2, <2>3
    <2>4. CASE q = k
      BY <1>1, <2>1, <2>2, <2>4
    <2>5. CASE q > k
      <3>1. q >= NextPosition(c, k)
        BY <1>1, <2>1, <2>2, <2>5
      <3> QED
        BY <1>1, <2>1, <2>2, <3>1
    <2> QED
      BY <1>1, <2>1, <2>3, <2>4, <2>5
  <1>4. InstructionStarts(c) \subseteq S
    BY <1>1, <1>2, <1>3, StartsAreLeast DEF ClosedUnderNext
  <1> QED
    BY <1>4

(* Instructions do not overlap.                                            *)
LEMMA StartsApart ==
  ASSUME NEW c \in Programs, NEW q1 \in InstructionStarts(c), NEW q2 \in InstructionStarts(c), q1 < q2
  PROVE  NextPosition(c, q1) <= q2
  <1> DEFINE Before(q) == \A r \in InstructionStarts(c) : r < q => NextPosition(c, r) <= q
             S == {q \in InstructionStarts(c) : Before(q)}
  <1>1. S \in SUBSET Positions(c) /\ Positions(c) \subseteq Nat /\ InstructionStarts(c) \subseteq Positions(c)
    BY CodeType
  <1>2. 0 \in Positions(c) => 0 \in S
    BY <1>1, StartsAreClosed
  <1>3. ASSUME NEW q \in S, NextPosition(c, q) \in Positions(c)
        PROVE  NextPosition(c, q) \in S
    <2> DEFINE n == NextPosition(c, q)
    <2>1. q \in Positions(c) /\ q \in Nat /\ n \in InstructionStarts(c) /\ n \in Nat /\ Before(q)
      BY <1>1, <1>3, StartsAreClosed
    <2>2. n > q
      BY <2>1, NextIsAhead
    <2>3. \A r \in InstructionStarts(c) : ~(q < r /\ r < n)
      BY <2>1, NoStartInside
    <2>4. ASSUME NEW r \in InstructionStarts(c), r < n
          PROVE  NextPosition(c, r) <= n
      <3>1. r \in Positions(c) /\ r \in Nat /\ NextPosition(c, r) \in Nat
        BY <1>1, NextIsAhead
      <3>2. r <= q
        BY <2>1, <2>3, <2>4, <3>1
      <3>3. CASE r = q
        BY <2>1, <3>3
      <3>4. CASE r < q
        <4>1. NextPosition(c, r) <= q
          BY <2>1, <3>4
        <4> HIDE DEF n
        <4> QED
          BY <2>1, <2>2, <3>1, <4>1
      <3> QED
        BY <2>1, <3>1, <3>2, <3>3, <3>4
    <2> QED
      BY <2>1, <2>4
  <1>4. InstructionStarts(c) \subseteq S
    BY <1>1, <1>2, <1>3, StartsAreLeast DEF ClosedUnderNext
  <1> QED
    BY <1>4

(* The instruction behind which the code ends is the last one, and no      *)
(* other position is the end.                                              *)
LEMMA EndOfCode ==
  ASSUME NEW c \in Programs
  PROVE  /\ Len(c) = 0 => EndPosition(c) = 0
         /\ \A p \in InstructionStarts(c) : NextPosition(c, p) >= Len(c) => EndPosition(c) = NextPosition(c, p)
  <1>1. Len(c) = 0 => EndPosition(c) = 0
    BY DEF EndPosition
  <1>2. ASSUME NEW p \in InstructionStarts(c), NextPosition(c, p) >= Len(c)
        PROVE  EndPosition(c) = NextPosition(c, p)
    <2> DEFINE n == NextPosition(c, p)
               Is(m) == \E q \in InstructionStarts(c) : NextPosition(c, q) = m
               E == CHOOSE m \in Len(c) .. Len(c) + 32 : Is(m)
    <2>1. p \in Positions(c) /\ p \in 0 .. Len(c) - 1 /\ Len(c) \in Nat /\ Len(c) # 0
      BY CodeType DEF Positions
    <2>2. n \in (p + 1) .. (p + 33)
      BY <2>1, NextIsAhead
    <2>3. n \in Len(c) .. Len(c) + 32 /\ Is(n)
      BY <1>2, <2>1, <2>2
    <2>4. E \in Len(c) .. Len(c) + 32 /\ Is(E)
      BY <2>3
    <2>5. PICK q \in InstructionStarts(c) : NextPosition(c, q) = E
      BY <2>4
    <2>6. q \in Positions(c) /\ q \in 0 .. Len(c) - 1
      BY CodeType DEF Positions
    <2>7. q = p
      <3>1. ~(q < p)
        <4> SUFFICES ASSUME q < p PROVE FALSE
          OBVIOUS
        <4>1. E <= p
          BY <2>5, StartsApart
        <4> HIDE DEF E
        <4> QED
          BY <2>1, <2>4, <4>1
      <3>2. ~(p < q)
        <4> SUFFICES ASSUME p < q PROVE FALSE
          OBVIOUS
        <4>1. n <= q
          BY StartsApart
        <4> HIDE DEF n
        <4> QED
          BY <2>1, <2>3, <2>6, <4>1
      <3> QED
        BY <2>1, <2>6, <3>1, <3>2
    <2> QED
      BY <2>1, <2>5, <2>7 DEF EndPosition
  <1> QED
    BY <1>1, <1>2

------------------------------------------------------------------------------
(* The value of a PUSH.                                                    *)

(* A power of two counts the subsets of a set.                             *)
LEMMA PowerOfTwo ==
  ASSUME NEW n \in Nat
  PROVE  2 ^ n \in Nat
  <1>1. IsFiniteSet(1 .. n) /\ Cardinality(1 .. n) = n
    BY FS_Interval
  <1>2. IsFiniteSet(SUBSET (1 .. n)) /\ Cardinality(SUBSET (1 .. n)) = 2 ^ Cardinality(1 .. n)
    BY <1>1, FS_SUBSET
  <1>3. Cardinality(SUBSET (1 .. n)) \in Nat
    BY <1>2, FS_CardinalityType
  <1> QED
    BY <1>1, <1>2, <1>3

(* A data byte in its place is a number.                                   *)
LEMMA ShiftedByteType ==
  ASSUME NEW c \in Programs, NEW p \in Positions(c), NEW size \in Nat, NEW k \in 1 .. size
  PROVE  shifted_byte(c, p, size, k) \in Nat
  <1>1. p \in Nat /\ Len(c) \in Nat
    BY CodeType
  <1>2. CASE p + k < Len(c)
    <2>1. p + k \in Positions(c)
      BY <1>1, <1>2 DEF Positions
    <2>2. ByteAt(c, p + k) \in Nat
      <3>1. ByteAt(c, p + k) \in Byte
        BY <2>1, CodeType
      <3> QED
        BY <3>1 DEF Byte
    <2>3. 8 * (size - k) \in Nat
      OBVIOUS
    <2>4. 2 ^ (8 * (size - k)) \in Nat
      BY <2>3, PowerOfTwo
    <2> QED
      BY <1>2, <2>2, <2>4 DEF shifted_byte
  <1>3. CASE ~(p + k < Len(c))
    BY <1>3 DEF shifted_byte
  <1> QED
    BY <1>2, <1>3

(* The value of the data of a PUSH, which is a sum, is a number.           *)
LEMMA PushValueType ==
  ASSUME NEW c \in Programs, NEW p \in Positions(c), NEW size \in Nat
  PROVE  push_value(c, p, size) \in Nat
  <1> DEFINE S == {k \in 1 .. size : size - k < WordBytes}
             h == [k \in S |-> shifted_byte(c, p, size, k)]
             E(q) == [s \in SUBSET S |-> IF s = {} THEN 0
                        ELSE shifted_byte(c, p, size, CHOOSE x \in s : TRUE) + q[s \ {CHOOSE x \in s : TRUE}]]
             it == CHOOSE q : q = E(q)
  <1>1. push_value(c, p, size) = it[S]
    BY DEF push_value, MapThenSumSet, MapThenFoldSet
  <1>2. IsFiniteSet(S)
    <2>1. IsFiniteSet(1 .. size) /\ S \in SUBSET (1 .. size)
      BY FS_Interval
    <2> HIDE DEF S
    <2> QED
      BY <2>1, FS_Subset
  <1>3. PICK g : Sums(g, h, S)
    BY <1>2, SumsExist
  <1>4. ASSUME NEW q PROVE Sums(q, h, S) <=> q = E(q)
    <2>1. ASSUME NEW s \in SUBSET S
          PROVE  SumOf(q, h, s) = IF s = {} THEN 0
                   ELSE shifted_byte(c, p, size, CHOOSE x \in s : TRUE) + q[s \ {CHOOSE x \in s : TRUE}]
      <3>1. CASE s = {}
        BY <3>1 DEF SumOf
      <3>2. CASE s # {}
        <4>1. Pick(s) \in S
          BY <3>2, PickMember
        <4>2. h[Pick(s)] = shifted_byte(c, p, size, Pick(s))
          BY <4>1
        <4> HIDE DEF h, S
        <4> QED
          BY <3>2, <4>2 DEF SumOf, Pick
      <3> QED
        BY <3>1, <3>2
    <2> HIDE DEF h, S
    <2>2. [s \in SUBSET S |-> SumOf(q, h, s)] = E(q)
      BY <2>1
    <2> HIDE DEF E
    <2> QED
      BY <2>2 DEF Sums
  <1>5. it = E(it)
    <2> HIDE DEF E, h, S
    <2>1. \E q : q = E(q)
      BY <1>3, <1>4
    <2> QED
      BY <2>1, Zenon
  <1>6. \A x \in S : h[x] \in Nat
    BY ShiftedByteType
  <1> HIDE DEF it, E, h, S
  <1>7. Sums(it, h, S)
    BY <1>4, <1>5
  <1>8. SumOver(S, h) = it[S]
    BY <1>2, <1>7, SumOverSums
  <1>9. SumOver(S, h) \in Nat
    BY <1>2, <1>6, SumOverType
  <1> QED
    BY <1>1, <1>8, <1>9

------------------------------------------------------------------------------
(* Blocks.                                                                 *)

(* The analysis of a block starts with zeros.                              *)
LEMMA NewBlock ==
  ASSUME NEW n \in Nat
  PROVE  /\ BlockAnalysis(n) \in Blocks
         /\ BlockAnalysis(n).begin_block_index = n
         /\ BlockAnalysis(n).stack_change = 0 /\ BlockAnalysis(n).stack_req = 0
         /\ BlockAnalysis(n).stack_max_growth = 0 /\ BlockAnalysis(n).gas_cost = 0
  BY DEF BlockAnalysis, Blocks

(* What an instruction adds to its block.                                  *)
LEMMA AccountFacts ==
  ASSUME NEW b \in Blocks, NEW op \in Byte, NEW a, a = Account(b, op)
  PROVE  /\ a \in Blocks
         /\ a.begin_block_index = b.begin_block_index
         /\ a.stack_change = b.stack_change + stack_height_change[op]
         /\ a.gas_cost = b.gas_cost + op_gas_cost(op)
         /\ a.stack_req >= b.stack_req /\ a.stack_req >= stack_height_required[op] - b.stack_change
         /\ a.stack_req = b.stack_req \/ a.stack_req = stack_height_required[op] - b.stack_change
         /\ a.stack_max_growth >= b.stack_max_growth /\ a.stack_max_growth >= a.stack_change
         /\ a.stack_max_growth = b.stack_max_growth \/ a.stack_max_growth = a.stack_change
         /\ a.stack_change + a.stack_req >= 0
  <1> DEFINE change == b.stack_change + stack_height_change[op]
             needed == stack_height_required[op] - b.stack_change
  <1>1. /\ b.stack_req \in Nat /\ b.stack_max_growth \in Nat /\ b.gas_cost \in Nat /\ b.stack_change \in Int
        /\ b.begin_block_index \in Nat
    BY DEF Blocks
  <1>2. change \in Int /\ needed \in Int /\ change + needed >= 0
    BY <1>1, StackTraits
  <1>3. op_gas_cost(op) \in Nat
    BY OpCost
  <1>4. a = [gas_cost |-> b.gas_cost + op_gas_cost(op), stack_req |-> max(b.stack_req, needed),
             stack_max_growth |-> max(b.stack_max_growth, change), stack_change |-> change,
             begin_block_index |-> b.begin_block_index]
    BY DEF Account, Blocks
  <1> HIDE DEF change, needed
  <1>5. max(b.stack_req, needed) \in Nat /\ max(b.stack_max_growth, change) \in Nat
        /\ max(b.stack_req, needed) >= b.stack_req /\ max(b.stack_req, needed) >= needed
        /\ max(b.stack_max_growth, change) >= b.stack_max_growth /\ max(b.stack_max_growth, change) >= change
        /\ (max(b.stack_req, needed) = b.stack_req \/ max(b.stack_req, needed) = needed)
        /\ (max(b.stack_max_growth, change) = b.stack_max_growth \/ max(b.stack_max_growth, change) = change)
        /\ change + max(b.stack_req, needed) >= 0
    BY <1>1, <1>2 DEF max
  <1>6. a \in Blocks
    BY <1>1, <1>2, <1>3, <1>4, <1>5 DEF Blocks
  <1> QED
    BY <1>4, <1>5, <1>6 DEF change, needed

(* The data of a closed block: the numbers on the stack are clamped, those *)
(* on gas fit.                                                             *)
LEMMA CloseFacts ==
  ASSUME NEW b \in Blocks, b.gas_cost <= GasInfoMax, NEW d, d = close(b)
  PROVE  /\ d \in Args /\ d.kind = "block"
         /\ d.gas_cost = b.gas_cost
         /\ d.stack_req <= b.stack_req /\ (d.stack_req = b.stack_req \/ d.stack_req = StackInfoMax)
         /\ d.stack_max_growth <= b.stack_max_growth
         /\ (d.stack_max_growth = b.stack_max_growth \/ d.stack_max_growth = StackInfoMax)
  <1>1. /\ b.stack_req \in Nat /\ b.stack_max_growth \in Nat /\ b.gas_cost \in Nat
        /\ StackInfoMax \in Nat /\ GasInfoMax \in Nat
    BY StackInfoMaxAssumption, GasInfoMaxAssumption DEF Blocks
  <1>2. /\ clamp(b.gas_cost, GasInfoMax) = b.gas_cost
        /\ clamp(b.stack_req, StackInfoMax) \in Nat /\ clamp(b.stack_max_growth, StackInfoMax) \in Nat
        /\ clamp(b.stack_req, StackInfoMax) <= b.stack_req
        /\ clamp(b.stack_req, StackInfoMax) \in {b.stack_req, StackInfoMax}
        /\ clamp(b.stack_max_growth, StackInfoMax) <= b.stack_max_growth
        /\ clamp(b.stack_max_growth, StackInfoMax) \in {b.stack_max_growth, StackInfoMax}
    BY <1>1 DEF clamp
  <1>3. /\ d.kind = "block" /\ d.gas_cost = clamp(b.gas_cost, GasInfoMax)
        /\ d.stack_req = clamp(b.stack_req, StackInfoMax)
        /\ d.stack_max_growth = clamp(b.stack_max_growth, StackInfoMax)
    BY DEF close, BlockArg
  <1>4. d \in Args
    BY <1>1, <1>2 DEF close, BlockArg, Args, Members
  <1> QED
    BY <1>2, <1>3, <1>4

(* An instruction that gets its argument.                                  *)
WithArg(e, a) == [e EXCEPT !.arg = a]

(* The members of an Instruction.                                          *)
LEMMA InstructionFacts ==
  ASSUME NEW op \in Byte, NEW pos \in Nat, NEW b \in Blocks, NEW a \in Args,
         NEW i, i = WithArg(Instruction(op, pos, b), a)
  PROVE  /\ i \in Instructions
         /\ i.fn = op /\ i.pos = pos /\ i.arg = a /\ i.begin = b.begin_block_index
         /\ i.change = b.stack_change /\ i.cost = b.gas_cost
  <1> DEFINE z == BlockArg(0, 0, 0)
             e == Instruction(op, pos, b)
  <1>0. e = [fn |-> op, arg |-> z, pos |-> pos, begin |-> b.begin_block_index,
             change |-> b.stack_change, cost |-> b.gas_cost]
    BY DEF Instruction
  <1> HIDE DEF z
  <1>1. i = [fn |-> op, arg |-> a, pos |-> pos, begin |-> b.begin_block_index,
             change |-> b.stack_change, cost |-> b.gas_cost]
    <2> HIDE DEF e
    <2>1. i = [e EXCEPT !.arg = a]
      BY DEF e, WithArg
    <2> QED
      BY <1>0, <2>1
  <1>2. i \in Instructions
    <2>1. b.begin_block_index \in Nat /\ b.stack_change \in Int /\ b.gas_cost \in Nat
      BY DEF Blocks
    <2>2. [fn |-> op, arg |-> a, pos |-> pos, begin |-> b.begin_block_index,
           change |-> b.stack_change, cost |-> b.gas_cost] \in Instructions
      BY <2>1 DEF Instructions
    <2> QED
      BY <1>1, <2>2, Zenon
  <1> QED
    BY <1>1, <1>2

------------------------------------------------------------------------------
(* The table.                                                              *)

(* The history of an entry, which saving a block leaves alone.             *)
Same(i, j) == j.fn = i.fn /\ j.pos = i.pos /\ j.begin = i.begin /\ j.change = i.change /\ j.cost = i.cost

(* The data of the block that begins at h, as if the open block b were     *)
(* closed now.                                                             *)
Data(is, b, h) == IF h = b.begin_block_index THEN close(b) ELSE is[h + 1].arg

(* Saving a block changes one argument.                                    *)
LEMMA SaveBlockFacts ==
  ASSUME NEW is \in Seq(Instructions), NEW b \in Blocks, b.gas_cost <= GasInfoMax,
         b.begin_block_index + 1 \in 1 .. Len(is), NEW sv, sv = SaveBlock(is, b)
  PROVE  /\ sv \in Seq(Instructions) /\ Len(sv) = Len(is)
         /\ \A k \in 1 .. Len(is) :
              /\ Same(is[k], sv[k])
              /\ sv[k].arg = IF k = b.begin_block_index + 1 THEN close(b) ELSE is[k].arg
  <1> DEFINE j == b.begin_block_index + 1
             v == [is[j] EXCEPT !.arg = close(b)]
  <1>1. Len(is) \in Nat /\ is \in [1 .. Len(is) -> Instructions] /\ j \in 1 .. Len(is) /\ is[j] \in Instructions
    OBVIOUS
  <1>2. close(b) \in Args
    BY CloseFacts
  <1>3. v \in Instructions /\ Same(is[j], v) /\ v.arg = close(b)
    BY <1>1, <1>2 DEF Instructions, Same
  <1>4. sv = [is EXCEPT ![j] = v]
    BY <1>1 DEF SaveBlock
  <1> HIDE DEF v, j
  <1>5. sv \in [1 .. Len(is) -> Instructions] /\ \A k \in 1 .. Len(is) : sv[k] = IF k = j THEN v ELSE is[k]
    BY <1>1, <1>3, <1>4
  <1>6. sv \in Seq(Instructions) /\ Len(sv) = Len(is)
    BY <1>1, <1>5
  <1>7. \A k \in 1 .. Len(is) : Same(is[k], sv[k]) /\ sv[k].arg = IF k = j THEN close(b) ELSE is[k].arg
    BY <1>1, <1>3, <1>5 DEF Same
  <1> QED
    BY <1>6, <1>7 DEF j

(* An old entry k of the table is2: only the argument of the beginning of  *)
(* the open block, which has become bb, may have changed.                  *)
Kept(is, b, is2, bb, k) ==
  /\ Same(is[k], is2[k])
  /\ is2[k].arg # is[k].arg => k = b.begin_block_index + 1 /\ is2[k].arg = close(bb)

(* The data of the block at h: only that of the open block has changed.    *)
DataKept(is, b, is2, b2, bb, h) ==
  Data(is2, b2, h) = IF h = b.begin_block_index THEN close(bb) ELSE Data(is, b, h)

(* The table gets the instruction i while the open block b becomes bb; b2  *)
(* is the block open afterwards, bb or a new one.                          *)
Added(is, b, is2, b2, bb, i) ==
  /\ is2 \in Seq(Instructions)
  /\ Len(is2) = Len(is) + 1
  /\ \A k \in 1 .. Len(is) : Kept(is, b, is2, bb, k)
  /\ is2[Len(is) + 1] = i
  /\ \A h \in 0 .. Len(is) - 1 : DataKept(is, b, is2, b2, bb, h)

(* Saving the open block, then adding the first instruction of a new one,  *)
(* or one that is not accounted for.                                       *)
LEMMA SaveThenAdd ==
  ASSUME NEW is \in Seq(Instructions), NEW b \in Blocks, b.gas_cost <= GasInfoMax,
         b.begin_block_index + 1 \in 1 .. Len(is), NEW i \in Instructions, NEW b2,
         b2.begin_block_index = Len(is) \/ b2 = b, NEW is2, is2 = Append(SaveBlock(is, b), i)
  PROVE  Added(is, b, is2, b2, b, i)
  <1> DEFINE sv == SaveBlock(is, b)
  <1>1. /\ sv \in Seq(Instructions) /\ Len(sv) = Len(is)
        /\ \A k \in 1 .. Len(is) :
             /\ Same(is[k], sv[k])
             /\ sv[k].arg = IF k = b.begin_block_index + 1 THEN close(b) ELSE is[k].arg
    BY SaveBlockFacts
  <1>2. Len(is) \in Nat /\ b.begin_block_index \in Nat
    BY DEF Blocks
  <1> HIDE DEF sv
  <1>3. /\ is2 \in Seq(Instructions) /\ Len(is2) = Len(is) + 1 /\ is2[Len(is) + 1] = i
        /\ \A k \in 1 .. Len(is) : is2[k] = sv[k]
    BY <1>1, <1>2 DEF sv
  <1>4. ASSUME NEW h \in 0 .. Len(is) - 1
        PROVE  DataKept(is, b, is2, b2, b, h)
    <2>1. h + 1 \in 1 .. Len(is) /\ h # Len(is) /\ (h + 1 = b.begin_block_index + 1 <=> h = b.begin_block_index)
      BY <1>2
    <2>2. is2[h + 1].arg = IF h = b.begin_block_index THEN close(b) ELSE is[h + 1].arg
      BY <1>1, <1>3, <2>1
    <2> QED
      BY <2>1, <2>2 DEF Data, DataKept
  <1>5. ASSUME NEW k \in 1 .. Len(is) PROVE Kept(is, b, is2, b, k)
    <2>1. is2[k] = sv[k] /\ Same(is[k], sv[k])
      BY <1>1, <1>3
    <2>2. sv[k].arg = IF k = b.begin_block_index + 1 THEN close(b) ELSE is[k].arg
      BY <1>1
    <2> QED
      BY <2>1, <2>2, Zenon DEF Kept
  <1> QED
    BY <1>3, <1>4, <1>5 DEF Added

(* Adding an instruction to the open block, which becomes a.               *)
LEMMA AddToBlock ==
  ASSUME NEW is \in Seq(Instructions), NEW b \in Blocks, NEW a \in Blocks,
         a.begin_block_index = b.begin_block_index, NEW i \in Instructions,
         NEW is2, is2 = Append(is, i)
  PROVE  Added(is, b, is2, a, a, i)
  <1>1. /\ is2 \in Seq(Instructions) /\ Len(is2) = Len(is) + 1 /\ is2[Len(is) + 1] = i /\ Len(is) \in Nat
        /\ \A k \in 1 .. Len(is) : is2[k] = is[k]
    OBVIOUS
  <1>2. ASSUME NEW h \in 0 .. Len(is) - 1
        PROVE  DataKept(is, b, is2, a, a, h)
    <2>1. h + 1 \in 1 .. Len(is)
      BY <1>1
    <2> QED
      BY <1>1, <2>1 DEF Data, DataKept
  <1>3. ASSUME NEW k \in 1 .. Len(is) PROVE Kept(is, b, is2, a, k)
    <2>1. is2[k] = is[k]
      BY <1>1
    <2> QED
      BY <2>1, Zenon DEF Kept, Same
  <1> QED
    BY <1>1, <1>2, <1>3 DEF Added

(* Adding the last instruction of the open block, which becomes a, and     *)
(* saving it; the instruction begins the next block.                       *)
LEMMA AddThenSave ==
  ASSUME NEW is \in Seq(Instructions), NEW b \in Blocks, NEW a \in Blocks, a.gas_cost <= GasInfoMax,
         a.begin_block_index = b.begin_block_index, b.begin_block_index + 1 \in 1 .. Len(is),
         NEW i \in Instructions, NEW b2, b2.begin_block_index = Len(is),
         NEW is2, is2 = SaveBlock(Append(is, i), a)
  PROVE  Added(is, b, is2, b2, a, i)
  <1> DEFINE ap == Append(is, i)
             n == Len(is)
  <1>1. /\ ap \in Seq(Instructions) /\ Len(ap) = n + 1 /\ ap[n + 1] = i /\ n \in Nat
        /\ \A k \in 1 .. n : ap[k] = is[k]
        /\ a.begin_block_index \in Nat /\ a.begin_block_index + 1 \in 1 .. n
    BY DEF Blocks
  <1>0. is2 = SaveBlock(ap, a)
    OBVIOUS
  <1> HIDE DEF ap
  <1>2. /\ is2 \in Seq(Instructions) /\ Len(is2) = n + 1
        /\ \A k \in 1 .. n + 1 :
             /\ Same(ap[k], is2[k])
             /\ is2[k].arg = IF k = a.begin_block_index + 1 THEN close(a) ELSE ap[k].arg
    BY <1>0, <1>1, SaveBlockFacts
  <1>3. is2[n + 1] = i
    <2>1. n + 1 # a.begin_block_index + 1 /\ n + 1 \in 1 .. n + 1 /\ n + 1 \in DOMAIN ap
      BY <1>1
    <2> QED
      BY <1>0, <1>1, <2>1 DEF SaveBlock
  <1>4. ASSUME NEW h \in 0 .. n - 1
        PROVE  DataKept(is, b, is2, b2, a, h)
    <2>1. /\ h + 1 \in 1 .. n /\ h + 1 \in 1 .. n + 1 /\ h # n
          /\ (h + 1 = a.begin_block_index + 1 <=> h = a.begin_block_index)
      BY <1>1
    <2>2. is2[h + 1].arg = IF h = b.begin_block_index THEN close(a) ELSE is[h + 1].arg
      BY <1>1, <1>2, <2>1
    <2> QED
      BY <2>1, <2>2 DEF Data, DataKept
  <1>5. ASSUME NEW k \in 1 .. n PROVE Kept(is, b, is2, a, k)
    <2>1. k \in 1 .. n + 1 /\ ap[k] = is[k]
      BY <1>1
    <2>2. Same(ap[k], is2[k]) /\ is2[k].arg = IF k = a.begin_block_index + 1 THEN close(a) ELSE ap[k].arg
      BY <1>2, <2>1
    <2> QED
      BY <2>1, <2>2, Zenon DEF Kept
  <1> QED
    BY <1>2, <1>3, <1>4, <1>5 DEF Added

------------------------------------------------------------------------------
(* The invariant of the table, while it grows and afterwards.              *)

(* The first entry, the BEGINBLOCK at the start of every code, is not an   *)
(* instruction of the code and costs nothing.                              *)
cost_of(is, k) == IF k = 1 THEN 0 ELSE op_gas_cost(is[k].fn)

(* Every entry belongs to a block that begins at a BEGINBLOCK, which is    *)
(* its own, or at a JUMPI, before it.                                      *)
Belongs(is, k) ==
  /\ is[k].begin \in 0 .. k - 1
  /\ is[is[k].begin + 1].fn \in {OP_JUMPDEST, OP_JUMPI}
  /\ is[k].fn = OP_JUMPDEST => is[k].begin = k - 1 /\ is[k].change = 0 /\ is[k].cost = 0
  /\ is[k].fn # OP_JUMPDEST => is[k].begin < k - 1

(* What comes behind entry k belongs to the block that begins at h, whose  *)
(* stack change and cost are change and cost by then.                      *)
Joins(is, k, h, change, cost) ==
  IF is[k].fn = OP_JUMPI THEN h = k - 1 /\ change = 0 /\ cost = 0
  ELSE /\ h = is[k].begin
       /\ change = is[k].change + stack_height_change[is[k].fn]
       /\ cost = is[k].cost + cost_of(is, k)

(* An entry that begins no block goes on with the block of the one before. *)
Chained(is, k) ==
  is[k + 1].fn # OP_JUMPDEST => Joins(is, k, is[k + 1].begin, is[k + 1].change, is[k + 1].cost)

(* The open block is the one that the last entry belongs to or begins.     *)
Open(is, b) ==
  /\ b \in Blocks
  /\ b.gas_cost <= GasInfoMax
  /\ b.begin_block_index + 1 \in 1 .. Len(is)
  /\ is[b.begin_block_index + 1].fn \in {OP_JUMPDEST, OP_JUMPI}
  /\ Joins(is, Len(is), b.begin_block_index, b.stack_change, b.gas_cost)
  /\ b.stack_change + b.stack_req >= 0
  /\ b.stack_change <= b.stack_max_growth

(* The argument a of an instruction: the member it reads was written last. *)
Written(op, a) == \A m \in Members : reads(op, m) => a.kind = m

(* The member of the argument that an entry reads, and the number that the *)
(* gas correction starts from.                                             *)
Reads(is, k) ==
  /\ Written(is[k].fn, is[k].arg)
  /\ is[k].fn \in GasCorrectedOps => is[k].arg.value = is[k].cost + op_gas_cost(is[k].fn)

(* The data d of a block is enough for entry k, unless a number was        *)
(* clamped, which no stack satisfies.                                      *)
Covers(is, k, d) ==
  /\ d.stack_req < StackInfoMax => stack_height_required[is[k].fn] - is[k].change <= d.stack_req
  /\ d.stack_max_growth < StackInfoMax => is[k].change + stack_height_change[is[k].fn] <= d.stack_max_growth
  /\ is[k].cost + cost_of(is, k) <= d.gas_cost

(* Entry k is the last of its block that can be executed.                  *)
Ends(is, k) ==
  \/ is[k].fn \in BlockTerminators \cup {OP_JUMPI}
  \/ k < Len(is) /\ is[k + 1].fn = OP_JUMPDEST

(* By then all of the block's cost is used up.                             *)
Exact(is, k, d) == Ends(is, k) => d.gas_cost = is[k].cost + cost_of(is, k)

(* Entry k of the block at h needs n items, room for n more, or n gas, at  *)
(* the start of the block.                                                 *)
NeedsItems(is, h, k, n) == is[k].begin = h /\ stack_height_required[is[k].fn] - is[k].change >= n
NeedsRoom(is, h, k, n) == is[k].begin = h /\ is[k].change + stack_height_change[is[k].fn] >= n
NeedsGas(is, h, k, n) == is[k].begin = h /\ is[k].cost + op_gas_cost(is[k].fn) >= n

(* What the data d of the block at h asks for, some entry needs.           *)
Tight(is, h, d) ==
  /\ d.stack_req > 0 => \E k \in 2 .. Len(is) : NeedsItems(is, h, k, d.stack_req)
  /\ d.stack_max_growth > 0 => \E k \in 2 .. Len(is) : NeedsRoom(is, h, k, d.stack_max_growth)
  /\ d.gas_cost > 0 => \E k \in 2 .. Len(is) : NeedsGas(is, h, k, d.gas_cost)

(* All of it.                                                              *)
Table(is, b) ==
  /\ is \in Seq(Instructions) /\ Len(is) >= 1
  /\ Open(is, b)
  /\ \A k \in 1 .. Len(is) : Belongs(is, k)
  /\ \A k \in 1 .. Len(is) - 1 : Chained(is, k)
  /\ \A k \in 1 .. Len(is) : Reads(is, k)
  /\ \A k \in 1 .. Len(is) : Covers(is, k, Data(is, b, is[k].begin))
  /\ \A k \in 1 .. Len(is) : Exact(is, k, Data(is, b, is[k].begin))
  /\ Tight(is, b.begin_block_index, b)
  /\ \A h \in 0 .. Len(is) - 1 : is[h + 1].fn \in {OP_JUMPDEST, OP_JUMPI} => Tight(is, h, Data(is, b, h))

(* No entry before the last one ends the open block.                       *)
StillOpen(is, b) == \A k \in 1 .. Len(is) - 1 : Ends(is, k) => is[k].begin # b.begin_block_index

------------------------------------------------------------------------------
(* The places of the entries in the code.                                  *)

(* An entry is an instruction of the code or the STOP behind it.           *)
Placed(is, c, k) ==
  /\ is[k].pos \in 0 .. Len(c)
  /\ is[k].pos < Len(c) => is[k].pos \in InstructionStarts(c) /\ is[k].fn = ByteAt(c, is[k].pos)
  /\ is[k].pos = Len(c) => is[k].fn = OP_STOP

(* The place p follows entry k.                                            *)
Follows(is, c, k, p) ==
  IF k = 1 THEN p = 0
  ELSE is[k].fn \in BlockTerminators \/ p = min(NextPosition(c, is[k].pos), Len(c))

Layout(is, c) ==
  /\ is[1].pos = 0
  /\ \A k \in 2 .. Len(is) : Placed(is, c, k)
  /\ \A k \in 1 .. Len(is) - 1 : Follows(is, c, k, is[k + 1].pos)

(* The jump tables up to the place p.                                      *)
Destination(is, c, p, offset, target) ==
  /\ offset \in JumpDests(c)
  /\ offset < p
  /\ target \in 1 .. Len(is) - 1
  /\ is[target + 1].fn = OP_JUMPDEST
  /\ is[target + 1].pos = offset

JumpTables(is, c, p, offsets, targets) ==
  /\ offsets \in Seq(Nat) /\ targets \in Seq(Nat) /\ Len(offsets) = Len(targets)
  /\ \A k \in 1 .. Len(offsets) : Destination(is, c, p, offsets[k], targets[k])
  /\ \A j, k \in 1 .. Len(offsets) : j < k => offsets[j] < offsets[k]
  /\ \A q \in JumpDests(c) : q < p => \E k \in 1 .. Len(offsets) : offsets[k] = q

------------------------------------------------------------------------------
(* The invariant.                                                          *)

(* The analysis: code_pos is at an instruction, or at the end, and nothing *)
(* is executed yet.                                                        *)
Scanning ==
  /\ code_pos = Len(code) \/ code_pos \in InstructionStarts(code)
  /\ Follows(instrs, code, Len(instrs), code_pos)
  /\ \A k \in 2 .. Len(instrs) : instrs[k].pos < code_pos
  /\ StillOpen(instrs, block)
  /\ block.gas_cost <= MaxGasCost * code_pos
  /\ Len(instrs) <= code_pos + 1
  /\ phase = "analyze" /\ code_pos < Len(code) /\ instrs[Len(instrs)].fn \in BlockTerminators =>
       ByteAt(code, code_pos) = OP_JUMPDEST
  /\ phase = "skip" => instrs[Len(instrs)].fn \in BlockTerminators
  /\ instr = 0 /\ stack_top = 0 /\ current_block_cost = 0

(* The table is complete.                                                  *)
Complete ==
  /\ code_pos = Len(code)
  /\ Len(instrs) >= 2
  /\ instrs[Len(instrs)].fn = OP_STOP
  /\ instrs[block.begin_block_index + 1].arg = close(block)
  /\ Len(instrs) <= Len(code) + 2
  /\ instr \in 0 .. Len(instrs) - 1

(* An instruction in the middle of a block is executed: the height of the  *)
(* stack at the start of the block was enough.                             *)
base == stack_top - Instr(instr).change
InBlock ==
  /\ current_block_cost = Instr(Instr(instr).begin).arg.gas_cost
  /\ base >= Instr(Instr(instr).begin).arg.stack_req
  /\ base + Instr(Instr(instr).begin).arg.stack_max_growth <= StackLimit

Running ==
  /\ stack_top \in 0 .. StackLimit
  /\ current_fn # OP_JUMPDEST => InBlock

AInv ==
  /\ TypeOK
  /\ Table(instrs, block)
  /\ Layout(instrs, code)
  /\ JumpTables(instrs, code, code_pos, jumpdest_offsets, jumpdest_targets)
  /\ push_values <= code_pos
  /\ phase \in {"analyze", "skip"} => Scanning
  /\ phase \in {"run", "exit", "done"} => Complete
  /\ phase = "run" => Running
  /\ phase \in {"analyze", "skip", "run"} => status = SUCCESS /\ result = [status |-> "NONE", gas_left |-> 0]
  /\ phase \in {"exit", "done"} /\ status \in {SUCCESS, REVERT} => gas_left \in Nat
  /\ RefusedBlocksFail

------------------------------------------------------------------------------
(* The table grows.                                                        *)

(* The instruction is added behind what the block o contains.              *)
OfBlock(i, o) == i.begin = o.begin_block_index /\ i.change = o.stack_change /\ i.cost = o.gas_cost

(* How the open block b changes, in the terms of Added.                    *)
Grows(is, b, b2, bb, i) ==
  IF i.fn = OP_JUMPDEST
  THEN OfBlock(i, BlockAnalysis(Len(is))) /\ bb = b /\ b2 = Account(BlockAnalysis(Len(is)), i.fn)
  ELSE OfBlock(i, b) /\ bb = Account(b, i.fn) /\ b2 = IF i.fn = OP_JUMPI THEN BlockAnalysis(Len(is)) ELSE bb

(* What an entry finds in its argument when it is added.                   *)
NewReads(i) ==
  /\ Written(i.fn, i.arg)
  /\ i.fn \in GasCorrectedOps => i.arg.value = i.cost + op_gas_cost(i.fn)

(* If the open block gets larger, none of its entries is its end.          *)
Undisturbed(is, b, bb) == bb # b => \A k \in 1 .. Len(is) : Ends(is, k) => is[k].begin # b.begin_block_index

(* The step from a table to the next one.                                  *)
Growth(is, b, is2, b2, bb, i) ==
  /\ Table(is, b)
  /\ Added(is, b, is2, b2, bb, i)
  /\ Grows(is, b, b2, bb, i)
  /\ i \in Instructions
  /\ NewReads(i)
  /\ Undisturbed(is, b, bb)
  /\ bb.gas_cost <= GasInfoMax
  /\ b2.gas_cost <= GasInfoMax

(* Entries that are there keep everything but their argument.              *)
LEMMA OldEntry ==
  ASSUME NEW is, NEW b, NEW is2, NEW b2, NEW bb, NEW i, Added(is, b, is2, b2, bb, i), NEW k \in 1 .. Len(is)
  PROVE  /\ is2[k].fn = is[k].fn /\ is2[k].pos = is[k].pos /\ is2[k].begin = is[k].begin
         /\ is2[k].change = is[k].change /\ is2[k].cost = is[k].cost
         /\ cost_of(is2, k) = cost_of(is, k)
         /\ is2[k].arg # is[k].arg => k = b.begin_block_index + 1 /\ is2[k].arg = close(bb)
  <1>1. Kept(is, b, is2, bb, k)
    BY DEF Added
  <1> QED
    BY <1>1, Zenon DEF Kept, Same, cost_of

(* The types of what grows.                                                *)
LEMMA GrowthTypes ==
  ASSUME NEW is, NEW b, NEW is2, NEW b2, NEW bb, NEW i, Growth(is, b, is2, b2, bb, i)
  PROVE  /\ is \in Seq(Instructions) /\ Len(is) \in Nat /\ Len(is) >= 1
         /\ is2 \in Seq(Instructions) /\ Len(is2) = Len(is) + 1 /\ is2[Len(is) + 1] = i
         /\ b \in Blocks /\ b.begin_block_index \in 0 .. Len(is) - 1
         /\ i.fn \in Byte
         /\ bb \in Blocks /\ bb.begin_block_index = b.begin_block_index
         /\ b2 \in Blocks
         /\ b2.begin_block_index = IF i.fn \in {OP_JUMPDEST, OP_JUMPI} THEN Len(is) ELSE b.begin_block_index
         /\ i.begin = IF i.fn = OP_JUMPDEST THEN Len(is) ELSE b.begin_block_index
  <1>1. is \in Seq(Instructions) /\ Len(is) \in Nat /\ Len(is) >= 1
    BY DEF Growth, Table
  <1>2. is2 \in Seq(Instructions) /\ Len(is2) = Len(is) + 1 /\ is2[Len(is) + 1] = i
    BY DEF Growth, Added
  <1>3. b \in Blocks /\ b.begin_block_index \in 0 .. Len(is) - 1
    BY <1>1 DEF Growth, Table, Open, Blocks
  <1>4. i.fn \in Byte
    BY DEF Growth, Instructions
  <1>5. BlockAnalysis(Len(is)) \in Blocks /\ BlockAnalysis(Len(is)).begin_block_index = Len(is)
    BY <1>1, NewBlock
  <1>6. CASE i.fn = OP_JUMPDEST
    <2>1. bb = b /\ b2 = Account(BlockAnalysis(Len(is)), i.fn) /\ i.begin = BlockAnalysis(Len(is)).begin_block_index
      BY <1>6 DEF Growth, Grows, OfBlock
    <2>2. b2 \in Blocks /\ b2.begin_block_index = Len(is)
      BY <1>4, <1>5, <2>1, AccountFacts
    <2> QED
      BY <1>1, <1>2, <1>3, <1>4, <1>5, <1>6, <2>1, <2>2
  <1>7. CASE i.fn # OP_JUMPDEST
    <2>1. /\ bb = Account(b, i.fn) /\ b2 = (IF i.fn = OP_JUMPI THEN BlockAnalysis(Len(is)) ELSE bb)
          /\ i.begin = b.begin_block_index
      BY <1>7 DEF Growth, Grows, OfBlock
    <2>2. bb \in Blocks /\ bb.begin_block_index = b.begin_block_index
      BY <1>3, <1>4, <2>1, AccountFacts
    <2> QED
      BY <1>1, <1>2, <1>3, <1>4, <1>5, <1>7, <2>1, <2>2
  <1> QED
    BY <1>6, <1>7

(* Every entry still belongs to a block.                                   *)
LEMMA BelongsGrows ==
  ASSUME NEW is, NEW b, NEW is2, NEW b2, NEW bb, NEW i, Growth(is, b, is2, b2, bb, i), NEW k \in 1 .. Len(is2)
  PROVE  Belongs(is2, k)
  <1> DEFINE n == Len(is)
  <1>1. n \in Nat /\ n >= 1 /\ Len(is2) = n + 1 /\ is2[n + 1] = i /\ b.begin_block_index \in 0 .. n - 1
        /\ i.begin = IF i.fn = OP_JUMPDEST THEN n ELSE b.begin_block_index
    BY GrowthTypes
  <1>2. Added(is, b, is2, b2, bb, i)
    BY DEF Growth
  <1> HIDE DEF n
  <1>3. CASE k \in 1 .. n
    <2>1. Belongs(is, k)
      BY <1>3 DEF Growth, Table, n
    <2>2. /\ is2[k].fn = is[k].fn /\ is2[k].begin = is[k].begin /\ is2[k].change = is[k].change
          /\ is2[k].cost = is[k].cost
      BY <1>2, <1>3, OldEntry DEF n
    <2>3. is[k].begin + 1 \in 1 .. n
      BY <1>1, <1>3, <2>1 DEF Belongs
    <2>4. is2[is[k].begin + 1].fn = is[is[k].begin + 1].fn
      BY <1>2, <2>3, OldEntry DEF n
    <2> QED
      BY <2>1, <2>2, <2>4 DEF Belongs
  <1>4. CASE k = n + 1 /\ i.fn = OP_JUMPDEST
    <2>1. i.begin = n /\ i.change = 0 /\ i.cost = 0
      BY <1>1, <1>4, NewBlock DEF Growth, Grows, OfBlock, n
    <2> QED
      BY <1>1, <1>4, <2>1 DEF Belongs
  <1>5. CASE k = n + 1 /\ i.fn # OP_JUMPDEST
    <2>1. b.begin_block_index + 1 \in 1 .. n /\ is[b.begin_block_index + 1].fn \in {OP_JUMPDEST, OP_JUMPI}
      BY <1>1 DEF Growth, Table, Open, n
    <2>2. is2[b.begin_block_index + 1].fn = is[b.begin_block_index + 1].fn
      BY <1>2, <2>1, OldEntry DEF n
    <2>3. i.begin = b.begin_block_index
      BY <1>1, <1>5
    <2> QED
      BY <1>1, <1>5, <2>1, <2>2, <2>3 DEF Belongs
  <1> QED
    BY <1>1, <1>3, <1>4, <1>5

(* Entry k of the old table joins what it joined.                          *)
LEMMA JoinsStays ==
  ASSUME NEW is, NEW b, NEW is2, NEW b2, NEW bb, NEW i, Added(is, b, is2, b2, bb, i), NEW k \in 1 .. Len(is),
         NEW h, NEW change, NEW cost, Joins(is, k, h, change, cost)
  PROVE  Joins(is2, k, h, change, cost)
  <1>1. /\ is2[k].fn = is[k].fn /\ is2[k].begin = is[k].begin /\ is2[k].change = is[k].change
        /\ is2[k].cost = is[k].cost /\ cost_of(is2, k) = cost_of(is, k)
    BY OldEntry
  <1> QED
    BY <1>1, Zenon DEF Joins

(* Every entry still goes on with its block.                               *)
LEMMA ChainedGrows ==
  ASSUME NEW is, NEW b, NEW is2, NEW b2, NEW bb, NEW i, Growth(is, b, is2, b2, bb, i), NEW k \in 1 .. Len(is2) - 1
  PROVE  Chained(is2, k)
  <1> DEFINE n == Len(is)
  <1>1. n \in Nat /\ n >= 1 /\ Len(is2) = n + 1 /\ is2[n + 1] = i
    BY GrowthTypes
  <1>2. Added(is, b, is2, b2, bb, i)
    BY DEF Growth
  <1> HIDE DEF n
  <1>3. CASE k < n
    <2>1. k \in 1 .. n /\ k + 1 \in 1 .. n /\ k \in 1 .. n - 1
      BY <1>1, <1>3
    <2>2. Chained(is, k)
      BY <2>1 DEF Growth, Table, n
    <2>3. /\ is2[k + 1].fn = is[k + 1].fn /\ is2[k + 1].begin = is[k + 1].begin
          /\ is2[k + 1].change = is[k + 1].change /\ is2[k + 1].cost = is[k + 1].cost
      BY <1>2, <2>1, OldEntry DEF n
    <2>4. CASE is[k + 1].fn = OP_JUMPDEST
      BY <2>3, <2>4 DEF Chained
    <2>5. CASE is[k + 1].fn # OP_JUMPDEST
      <3>1. Joins(is, k, is[k + 1].begin, is[k + 1].change, is[k + 1].cost)
        BY <2>2, <2>5 DEF Chained
      <3>2. Joins(is2, k, is[k + 1].begin, is[k + 1].change, is[k + 1].cost)
        BY <1>2, <2>1, <3>1, JoinsStays DEF n
      <3> QED
        BY <2>3, <3>2 DEF Chained
    <2> QED
      BY <2>4, <2>5
  <1>4. CASE k = n /\ i.fn = OP_JUMPDEST
    BY <1>1, <1>4 DEF Chained
  <1>5. CASE k = n /\ i.fn # OP_JUMPDEST
    <2>1. Joins(is, n, b.begin_block_index, b.stack_change, b.gas_cost)
      BY DEF Growth, Table, Open, n
    <2>2. n \in 1 .. n
      BY <1>1
    <2>3. Joins(is2, n, b.begin_block_index, b.stack_change, b.gas_cost)
      BY <1>2, <2>1, <2>2, JoinsStays DEF n
    <2>4. i.begin = b.begin_block_index /\ i.change = b.stack_change /\ i.cost = b.gas_cost
      BY <1>5 DEF Growth, Grows, OfBlock
    <2> QED
      BY <1>1, <1>5, <2>3, <2>4 DEF Chained
  <1> QED
    BY <1>1, <1>3, <1>4, <1>5

(* The open block is the one the new entry belongs to or begins.           *)
LEMMA OpenGrows ==
  ASSUME NEW is, NEW b, NEW is2, NEW b2, NEW bb, NEW i, Growth(is, b, is2, b2, bb, i)
  PROVE  Open(is2, b2)
  <1> DEFINE n == Len(is)
  <1>1. /\ n \in Nat /\ n >= 1 /\ Len(is2) = n + 1 /\ is2[n + 1] = i /\ b.begin_block_index \in 0 .. n - 1
        /\ b \in Blocks /\ b2 \in Blocks /\ i.fn \in Byte
        /\ b2.begin_block_index = IF i.fn \in {OP_JUMPDEST, OP_JUMPI} THEN n ELSE b.begin_block_index
    BY GrowthTypes
  <1>2. Added(is, b, is2, b2, bb, i) /\ b2.gas_cost <= GasInfoMax
    BY DEF Growth
  <1>3. BlockAnalysis(n) \in Blocks /\ BlockAnalysis(n).begin_block_index = n
        /\ BlockAnalysis(n).stack_change = 0 /\ BlockAnalysis(n).stack_req = 0
        /\ BlockAnalysis(n).stack_max_growth = 0 /\ BlockAnalysis(n).gas_cost = 0
    BY <1>1, NewBlock
  <1>4. b2.begin_block_index + 1 \in 1 .. Len(is2)
    BY <1>1
  <1>5. cost_of(is2, n + 1) = op_gas_cost(i.fn)
    BY <1>1 DEF cost_of
  <1>6. CASE i.fn = OP_JUMPI
    <2>1. b2 = BlockAnalysis(n)
      BY <1>6 DEF Growth, Grows, OP_JUMPI, OP_JUMPDEST
    <2>2. Joins(is2, n + 1, n, 0, 0)
      BY <1>1, <1>6 DEF Joins
    <2> QED
      BY <1>1, <1>2, <1>3, <1>4, <1>6, <2>1, <2>2 DEF Open
  <1>7. CASE i.fn # OP_JUMPI
    <2> DEFINE o == IF i.fn = OP_JUMPDEST THEN BlockAnalysis(n) ELSE b
    <2>1. b2 = Account(o, i.fn) /\ OfBlock(i, o) /\ o \in Blocks
      BY <1>1, <1>3, <1>7 DEF Growth, Grows
    <2> HIDE DEF o
    <2>2. /\ b2.begin_block_index = o.begin_block_index
          /\ b2.stack_change = o.stack_change + stack_height_change[i.fn]
          /\ b2.gas_cost = o.gas_cost + op_gas_cost(i.fn)
          /\ b2.stack_max_growth >= b2.stack_change /\ b2.stack_change + b2.stack_req >= 0
      BY <1>1, <2>1, AccountFacts
    <2>3. Joins(is2, n + 1, b2.begin_block_index, b2.stack_change, b2.gas_cost)
      BY <1>1, <1>5, <1>7, <2>1, <2>2 DEF Joins, OfBlock
    <2>4. is2[b2.begin_block_index + 1].fn \in {OP_JUMPDEST, OP_JUMPI}
      <3>1. CASE i.fn = OP_JUMPDEST
        BY <1>1, <3>1
      <3>2. CASE i.fn # OP_JUMPDEST
        <4>1. b.begin_block_index + 1 \in 1 .. n /\ is[b.begin_block_index + 1].fn \in {OP_JUMPDEST, OP_JUMPI}
          BY <1>1 DEF Growth, Table, Open
        <4>2. is2[b.begin_block_index + 1].fn = is[b.begin_block_index + 1].fn
          BY <1>2, <4>1, OldEntry
        <4> QED
          BY <1>1, <1>7, <3>2, <4>1, <4>2
      <3> QED
        BY <3>1, <3>2
    <2>5. b2.stack_change <= b2.stack_max_growth
      <3>1. b2.stack_change \in Int /\ b2.stack_max_growth \in Nat
        BY <1>1 DEF Blocks
      <3> QED
        BY <2>2, <3>1
    <2> HIDE DEF n
    <2> QED
      BY <1>1, <1>2, <1>4, <2>2, <2>3, <2>4, <2>5 DEF Open
  <1> QED
    BY <1>6, <1>7

(* The instructions that hold a block's data read no number.               *)
LEMMA HeadsReadNoNumber ==
  /\ OP_JUMPDEST \notin AnyPush \cup GasCorrectedOps \cup {OP_PC}
  /\ OP_JUMPI \notin AnyPush \cup GasCorrectedOps \cup {OP_PC}
  /\ \A m : reads(OP_JUMPDEST, m) \/ reads(OP_JUMPI, m) => m = "block"
  /\ OP_JUMPDEST # OP_JUMPI /\ OP_JUMPDEST \notin BlockTerminators /\ OP_JUMPI \notin BlockTerminators
  BY DEF reads, OP_PUSH8, AnyPush, GasCorrectedOps, AnyCall, AnyCreate, OP_JUMPDEST, OP_JUMPI, OP_PC, OP_PUSH1, OP_PUSH32, OP_GAS,
         OP_SSTORE, OP_CALL, OP_DELEGATECALL, OP_STATICCALL, OP_CREATE, OP_CREATE2, BlockTerminators, OP_JUMP,
         OP_STOP, OP_RETURN, OP_REVERT

(* Every entry still finds the member it reads.                            *)
LEMMA MembersGrows ==
  ASSUME NEW is, NEW b, NEW is2, NEW b2, NEW bb, NEW i, Growth(is, b, is2, b2, bb, i), NEW k \in 1 .. Len(is2)
  PROVE  Reads(is2, k)
  <1> DEFINE n == Len(is)
  <1>1. n \in Nat /\ n >= 1 /\ Len(is2) = n + 1 /\ is2[n + 1] = i /\ bb \in Blocks
    BY GrowthTypes
  <1>2. Added(is, b, is2, b2, bb, i) /\ bb.gas_cost <= GasInfoMax
    BY DEF Growth
  <1> HIDE DEF n
  <1>3. CASE k \in 1 .. n
    <2>1. Reads(is, k)
      BY <1>3 DEF Growth, Table, n
    <2>2. /\ is2[k].fn = is[k].fn /\ is2[k].cost = is[k].cost
          /\ is2[k].arg # is[k].arg => k = b.begin_block_index + 1 /\ is2[k].arg = close(bb)
      BY <1>2, <1>3, OldEntry DEF n
    <2>3. CASE is2[k].arg = is[k].arg
      BY <2>1, <2>2, <2>3 DEF Reads
    <2>4. CASE is2[k].arg # is[k].arg
      <3>1. is2[k].fn \in {OP_JUMPDEST, OP_JUMPI}
        BY <2>2, <2>4 DEF Growth, Table, Open
      <3>2. is2[k].arg.kind = "block"
        BY <1>1, <1>2, <2>2, <2>4, CloseFacts
      <3> QED
        BY <3>1, <3>2, HeadsReadNoNumber, Zenon DEF Reads, Written
    <2> QED
      BY <2>3, <2>4
  <1>4. CASE k = n + 1
    BY <1>1, <1>4 DEF Growth, NewReads, Reads
  <1> QED
    BY <1>1, <1>3, <1>4

(* The data of a block that got larger asks for no less.                   *)
LEMMA CloseMonotone ==
  ASSUME NEW b \in Blocks, NEW a \in Blocks, b.gas_cost <= GasInfoMax, a.gas_cost <= GasInfoMax,
         a.stack_req >= b.stack_req, a.stack_max_growth >= b.stack_max_growth, a.gas_cost >= b.gas_cost
  PROVE  /\ close(a).stack_req >= close(b).stack_req
         /\ close(a).stack_max_growth >= close(b).stack_max_growth
         /\ close(a).gas_cost >= close(b).gas_cost
  <1>1. /\ a.stack_req \in Nat /\ a.stack_max_growth \in Nat /\ a.gas_cost \in Nat
        /\ b.stack_req \in Nat /\ b.stack_max_growth \in Nat /\ b.gas_cost \in Nat
        /\ StackInfoMax \in Nat /\ GasInfoMax \in Nat
    BY StackInfoMaxAssumption, GasInfoMaxAssumption DEF Blocks
  <1>2. /\ clamp(a.stack_req, StackInfoMax) >= clamp(b.stack_req, StackInfoMax)
        /\ clamp(a.stack_max_growth, StackInfoMax) >= clamp(b.stack_max_growth, StackInfoMax)
        /\ clamp(a.gas_cost, GasInfoMax) >= clamp(b.gas_cost, GasInfoMax)
    BY <1>1 DEF clamp
  <1> QED
    BY <1>2 DEF close, BlockArg

(* The open block becomes no smaller.                                      *)
LEMMA BlockGrows ==
  ASSUME NEW is, NEW b, NEW is2, NEW b2, NEW bb, NEW i, Growth(is, b, is2, b2, bb, i)
  PROVE  /\ b.gas_cost <= GasInfoMax
         /\ bb.stack_req >= b.stack_req /\ bb.stack_max_growth >= b.stack_max_growth /\ bb.gas_cost >= b.gas_cost
  <1>1. b \in Blocks /\ i.fn \in Byte
    BY GrowthTypes
  <1>2. b.gas_cost \in Nat /\ b.stack_req \in Nat /\ b.stack_max_growth \in Nat
    BY <1>1 DEF Blocks
  <1>3. bb = b \/ bb = Account(b, i.fn)
    BY DEF Growth, Grows
  <1>4. CASE bb = b
    BY <1>2, <1>4 DEF Growth, Table, Open
  <1>5. CASE bb = Account(b, i.fn)
    <2>1. bb.stack_req >= b.stack_req /\ bb.stack_max_growth >= b.stack_max_growth
          /\ bb.gas_cost = b.gas_cost + op_gas_cost(i.fn) /\ op_gas_cost(i.fn) \in Nat
      BY <1>1, <1>5, AccountFacts, OpCost
    <2> QED
      BY <1>2, <2>1 DEF Growth, Table, Open
  <1> QED
    BY <1>3, <1>4, <1>5

(* An entry that has just been added to the block o is covered by what the *)
(* block becomes, and exactly paid by it.                                  *)
LEMMA AccountCovers ==
  ASSUME NEW is, NEW k \in Nat, k # 1, is[k] \in Instructions, NEW o \in Blocks, OfBlock(is[k], o),
         NEW a, a = Account(o, is[k].fn), a.gas_cost <= GasInfoMax
  PROVE  Covers(is, k, close(a)) /\ close(a).gas_cost = is[k].cost + cost_of(is, k)
  <1> DEFINE i == is[k]
             d == close(a)
  <1>1. i.fn \in Byte /\ i.change = o.stack_change /\ i.cost = o.gas_cost
    BY DEF Instructions, OfBlock
  <1>2. /\ a \in Blocks
        /\ a.stack_change = o.stack_change + stack_height_change[i.fn]
        /\ a.gas_cost = o.gas_cost + op_gas_cost(i.fn)
        /\ a.stack_req >= stack_height_required[i.fn] - o.stack_change
        /\ a.stack_max_growth >= a.stack_change
    BY <1>1, AccountFacts
  <1>3. /\ d.gas_cost = a.gas_cost
        /\ (d.stack_req = a.stack_req \/ d.stack_req = StackInfoMax)
        /\ (d.stack_max_growth = a.stack_max_growth \/ d.stack_max_growth = StackInfoMax)
    BY <1>2, CloseFacts
  <1>4. cost_of(is, k) = op_gas_cost(i.fn)
    BY DEF cost_of
  <1>5. /\ stack_height_required[i.fn] \in Nat /\ stack_height_change[i.fn] \in Int /\ op_gas_cost(i.fn) \in Nat
        /\ o.stack_change \in Int /\ o.gas_cost \in Nat /\ a.stack_req \in Nat /\ a.stack_max_growth \in Nat
        /\ StackInfoMax \in Nat
    BY <1>1, <1>2, StackTraits, OpCost, StackInfoMaxAssumption DEF Blocks
  <1> HIDE DEF d, i
  <1>6. Covers(is, k, d)
    BY <1>1, <1>2, <1>3, <1>4, <1>5 DEF Covers, i
  <1> QED
    BY <1>1, <1>2, <1>3, <1>4, <1>6 DEF d, i

(* An entry covered by some data is covered by data that asks for more.    *)
LEMMA CoversMonotone ==
  ASSUME NEW is \in Seq(Instructions), NEW k \in 1 .. Len(is), NEW d \in Args, NEW e \in Args,
         e.stack_req >= d.stack_req, e.stack_max_growth >= d.stack_max_growth, e.gas_cost >= d.gas_cost,
         Covers(is, k, d)
  PROVE  Covers(is, k, e)
  <1> DEFINE req == stack_height_required[is[k].fn] - is[k].change
             room == is[k].change + stack_height_change[is[k].fn]
             paid == is[k].cost + cost_of(is, k)
  <1>1. is[k] \in Instructions
    OBVIOUS
  <1>2. is[k].fn \in Byte /\ is[k].change \in Int /\ is[k].cost \in Nat
    BY <1>1 DEF Instructions
  <1>3. stack_height_required[is[k].fn] \in Nat /\ stack_height_change[is[k].fn] \in Int /\ cost_of(is, k) \in Nat
    BY <1>2, StackTraits, OpCost DEF cost_of
  <1>4. req \in Int /\ room \in Int /\ paid \in Nat
    BY <1>2, <1>3, SMTT(60)
  <1>5. /\ d.stack_req \in Nat /\ d.stack_max_growth \in Nat /\ d.gas_cost \in Nat
        /\ e.stack_req \in Nat /\ e.stack_max_growth \in Nat /\ e.gas_cost \in Nat /\ StackInfoMax \in Nat
    BY StackInfoMaxAssumption DEF Args
  <1>6. /\ d.stack_req < StackInfoMax => req <= d.stack_req
        /\ d.stack_max_growth < StackInfoMax => room <= d.stack_max_growth
        /\ paid <= d.gas_cost
    BY DEF Covers
  <1> HIDE DEF req, room, paid
  <1>7. /\ e.stack_req < StackInfoMax => req <= e.stack_req
        /\ e.stack_max_growth < StackInfoMax => room <= e.stack_max_growth
        /\ paid <= e.gas_cost
    BY <1>4, <1>5, <1>6, SMTT(60)
  <1> QED
    BY <1>7 DEF Covers, req, room, paid

(* What covers an old entry, does so in the new table.                     *)
LEMMA CoversStays ==
  ASSUME NEW is, NEW b, NEW is2, NEW b2, NEW bb, NEW i, Added(is, b, is2, b2, bb, i), NEW k \in 1 .. Len(is),
         NEW d, Covers(is, k, d)
  PROVE  Covers(is2, k, d)
  <1>1. /\ is2[k].fn = is[k].fn /\ is2[k].change = is[k].change
        /\ is2[k].cost = is[k].cost /\ cost_of(is2, k) = cost_of(is, k)
    BY OldEntry
  <1> QED
    BY <1>1, Zenon DEF Covers

(* The data of the block that an old entry belongs to.                     *)
LEMMA OldData ==
  ASSUME NEW is, NEW b, NEW is2, NEW b2, NEW bb, NEW i, Growth(is, b, is2, b2, bb, i), NEW k \in 1 .. Len(is)
  PROVE  /\ is2[k].begin = is[k].begin
         /\ is[k].begin = b.begin_block_index =>
              Data(is, b, is[k].begin) = close(b) /\ Data(is2, b2, is2[k].begin) = close(bb)
         /\ is[k].begin # b.begin_block_index =>
              Data(is2, b2, is2[k].begin) = Data(is, b, is[k].begin)
  <1>1. Added(is, b, is2, b2, bb, i) /\ Belongs(is, k)
    BY DEF Growth, Table
  <1>2. is2[k].begin = is[k].begin
    BY <1>1, OldEntry
  <1>3. is[k].begin \in 0 .. Len(is) - 1
    BY <1>1, GrowthTypes DEF Belongs
  <1>4. DataKept(is, b, is2, b2, bb, is[k].begin)
    BY <1>1, <1>3 DEF Added
  <1> QED
    BY <1>2, <1>4 DEF DataKept, Data

(* The data of the block that the new entry belongs to.                    *)
LEMMA NewData ==
  ASSUME NEW is, NEW b, NEW is2, NEW b2, NEW bb, NEW i, Growth(is, b, is2, b2, bb, i)
  PROVE  /\ i.fn = OP_JUMPDEST => Data(is2, b2, i.begin) = close(b2)
         /\ i.fn # OP_JUMPDEST => Data(is2, b2, i.begin) = close(bb)
  <1>1. /\ i.begin = IF i.fn = OP_JUMPDEST THEN Len(is) ELSE b.begin_block_index
        /\ b2.begin_block_index = IF i.fn \in {OP_JUMPDEST, OP_JUMPI} THEN Len(is) ELSE b.begin_block_index
        /\ b.begin_block_index \in 0 .. Len(is) - 1
    BY GrowthTypes
  <1>2. DataKept(is, b, is2, b2, bb, b.begin_block_index)
    BY <1>1 DEF Growth, Added
  <1> QED
    BY <1>1, <1>2 DEF DataKept, Data

(* Every block's data still covers its entries.                            *)
LEMMA CoversGrows ==
  ASSUME NEW is, NEW b, NEW is2, NEW b2, NEW bb, NEW i, Growth(is, b, is2, b2, bb, i), NEW k \in 1 .. Len(is2)
  PROVE  Covers(is2, k, Data(is2, b2, is2[k].begin))
  <1> DEFINE n == Len(is)
  <1>1. /\ n \in Nat /\ n >= 1 /\ Len(is2) = n + 1 /\ is2[n + 1] = i /\ b \in Blocks /\ bb \in Blocks
        /\ is \in Seq(Instructions)
    BY GrowthTypes
  <1>2. Added(is, b, is2, b2, bb, i) /\ bb.gas_cost <= GasInfoMax /\ b2.gas_cost <= GasInfoMax /\ i \in Instructions
    BY DEF Growth
  <1>3. CASE k \in 1 .. n
    <2>1. Covers(is, k, Data(is, b, is[k].begin))
      BY <1>3 DEF Growth, Table
    <2>2. CASE is[k].begin # b.begin_block_index
      <3>1. Data(is2, b2, is2[k].begin) = Data(is, b, is[k].begin)
        BY <1>3, <2>2, OldData
      <3> QED
        BY <1>2, <1>3, <2>1, <3>1, CoversStays
    <2>3. CASE is[k].begin = b.begin_block_index
      <3>1. Data(is, b, is[k].begin) = close(b) /\ Data(is2, b2, is2[k].begin) = close(bb)
        BY <1>3, <2>3, OldData
      <3>2. /\ b.gas_cost <= GasInfoMax
            /\ bb.stack_req >= b.stack_req /\ bb.stack_max_growth >= b.stack_max_growth /\ bb.gas_cost >= b.gas_cost
        BY BlockGrows
      <3>3. /\ close(bb).stack_req >= close(b).stack_req
            /\ close(bb).stack_max_growth >= close(b).stack_max_growth
            /\ close(bb).gas_cost >= close(b).gas_cost
        BY <1>1, <1>2, <3>2, CloseMonotone
      <3>4. close(b) \in Args /\ close(bb) \in Args
        BY <1>1, <1>2, <3>2, CloseFacts
      <3>5. Covers(is, k, close(bb))
        BY <1>1, <1>3, <2>1, <3>1, <3>3, <3>4, CoversMonotone
      <3> QED
        BY <1>2, <1>3, <3>1, <3>5, CoversStays
    <2> QED
      BY <2>2, <2>3
  <1>4. CASE k = n + 1
    <2>1. is2[k] = i /\ is2[k] \in Instructions /\ k \in Nat /\ k # 1
      BY <1>1, <1>2, <1>4
    <2>2. CASE i.fn = OP_JUMPDEST
      <3>1. BlockAnalysis(n) \in Blocks /\ OfBlock(is2[k], BlockAnalysis(n)) /\ b2 = Account(BlockAnalysis(n), is2[k].fn)
        BY <1>1, <2>1, <2>2, NewBlock DEF Growth, Grows
      <3>2. Covers(is2, k, close(b2))
        BY <1>2, <2>1, <3>1, AccountCovers
      <3> QED
        BY <2>1, <2>2, <3>2, NewData
    <2>3. CASE i.fn # OP_JUMPDEST
      <3>1. OfBlock(is2[k], b) /\ bb = Account(b, is2[k].fn)
        BY <2>1, <2>3 DEF Growth, Grows
      <3>2. Covers(is2, k, close(bb))
        BY <1>1, <1>2, <2>1, <3>1, AccountCovers
      <3> QED
        BY <2>1, <2>3, <3>2, NewData
    <2> QED
      BY <2>2, <2>3
  <1> QED
    BY <1>1, <1>3, <1>4

(* An old entry that is the last of its block in the new table was so in   *)
(* the old one, or a BEGINBLOCK was added behind it.                       *)
LEMMA EndsGrows ==
  ASSUME NEW is, NEW b, NEW is2, NEW b2, NEW bb, NEW i, Growth(is, b, is2, b2, bb, i), NEW k \in 1 .. Len(is),
         Ends(is2, k)
  PROVE  Ends(is, k) \/ (k = Len(is) /\ i.fn = OP_JUMPDEST)
  <1>1. Len(is) \in Nat /\ Len(is2) = Len(is) + 1 /\ is2[Len(is) + 1] = i
    BY GrowthTypes
  <1>2. Added(is, b, is2, b2, bb, i)
    BY DEF Growth
  <1>3. is2[k].fn = is[k].fn
    BY <1>2, OldEntry
  <1>4. CASE is2[k].fn \in BlockTerminators \cup {OP_JUMPI}
    BY <1>3, <1>4 DEF Ends
  <1>5. CASE is2[k + 1].fn = OP_JUMPDEST /\ k < Len(is)
    <2>1. k + 1 \in 1 .. Len(is)
      BY <1>1, <1>5
    <2>2. is2[k + 1].fn = is[k + 1].fn
      BY <1>2, <2>1, OldEntry
    <2> QED
      BY <1>5, <2>2 DEF Ends
  <1>6. CASE is2[k + 1].fn = OP_JUMPDEST /\ k = Len(is)
    BY <1>1, <1>6
  <1> QED
    BY <1>1, <1>4, <1>5, <1>6 DEF Ends

(* The cost of a block is still used up at its end.                        *)
LEMMA ExactGrows ==
  ASSUME NEW is, NEW b, NEW is2, NEW b2, NEW bb, NEW i, Growth(is, b, is2, b2, bb, i), NEW k \in 1 .. Len(is2)
  PROVE  Exact(is2, k, Data(is2, b2, is2[k].begin))
  <1> DEFINE n == Len(is)
  <1>1. /\ n \in Nat /\ n >= 1 /\ Len(is2) = n + 1 /\ is2[n + 1] = i /\ b \in Blocks /\ bb \in Blocks
        /\ is \in Seq(Instructions)
    BY GrowthTypes
  <1>2. Added(is, b, is2, b2, bb, i) /\ bb.gas_cost <= GasInfoMax /\ b.gas_cost <= GasInfoMax /\ i \in Instructions
    BY DEF Growth, Table, Open
  <1> SUFFICES ASSUME Ends(is2, k)
               PROVE  Data(is2, b2, is2[k].begin).gas_cost = is2[k].cost + cost_of(is2, k)
    BY DEF Exact
  <1>3. CASE k \in 1 .. n
    <2>1. Exact(is, k, Data(is, b, is[k].begin))
      BY <1>3 DEF Growth, Table
    <2>2. is2[k].begin = is[k].begin /\ is2[k].cost = is[k].cost /\ cost_of(is2, k) = cost_of(is, k)
          /\ is2[k].fn = is[k].fn
      BY <1>2, <1>3, OldEntry
    <2>3. CASE Ends(is, k)
      <3>1. Data(is, b, is[k].begin).gas_cost = is[k].cost + cost_of(is, k)
        BY <2>1, <2>3 DEF Exact
      <3>2. CASE is[k].begin # b.begin_block_index
        BY <1>3, <2>2, <3>1, <3>2, OldData
      <3>3. CASE is[k].begin = b.begin_block_index
        <4>1. bb = b
          BY <1>3, <2>3, <3>3 DEF Growth, Undisturbed
        <4> QED
          BY <1>3, <2>2, <3>1, <3>3, <4>1, OldData
      <3> QED
        BY <3>2, <3>3
    <2>4. CASE ~Ends(is, k)
      <3>1. k = n /\ i.fn = OP_JUMPDEST
        BY <1>3, <2>4, EndsGrows
      <3>2. bb = b
        BY <3>1 DEF Growth, Grows
      <3>3. is[k].fn # OP_JUMPI
        BY <2>4 DEF Ends
      <3>4. Joins(is, k, b.begin_block_index, b.stack_change, b.gas_cost)
        BY <3>1 DEF Growth, Table, Open
      <3>5. b.begin_block_index = is[k].begin /\ b.gas_cost = is[k].cost + cost_of(is, k)
        BY <3>3, <3>4 DEF Joins
      <3>6. Data(is2, b2, is2[k].begin) = close(b)
        BY <1>3, <3>2, <3>5, OldData
      <3>7. close(b).gas_cost = b.gas_cost
        BY <1>1, <1>2, CloseFacts
      <3> QED
        BY <2>2, <3>5, <3>6, <3>7
    <2> QED
      BY <2>3, <2>4
  <1>4. CASE k = n + 1
    <2>1. is2[k] = i /\ is2[k] \in Instructions /\ k \in Nat /\ k # 1
      BY <1>1, <1>2, <1>4
    <2>2. i.fn # OP_JUMPDEST
      BY <1>1, <1>4, <2>1, HeadsReadNoNumber DEF Ends
    <2>3. OfBlock(is2[k], b) /\ bb = Account(b, is2[k].fn)
      BY <2>1, <2>2 DEF Growth, Grows
    <2>4. close(bb).gas_cost = is2[k].cost + cost_of(is2, k)
      BY <1>1, <1>2, <2>1, <2>3, AccountCovers
    <2> QED
      BY <2>1, <2>2, <2>4, NewData
  <1> QED
    BY <1>1, <1>3, <1>4

(* An entry that needed something still does.                              *)
LEMMA TightStays ==
  ASSUME NEW is \in Seq(Instructions), NEW b, NEW is2, NEW b2, NEW bb, NEW i, Added(is, b, is2, b2, bb, i),
         NEW h, NEW d, Tight(is, h, d)
  PROVE  Tight(is2, h, d)
  <1>1. Len(is) \in Nat /\ Len(is2) = Len(is) + 1
    BY DEF Added
  <1>2. ASSUME NEW k \in 2 .. Len(is), NEW m
        PROVE  /\ k \in 2 .. Len(is2)
               /\ NeedsItems(is, h, k, m) => NeedsItems(is2, h, k, m)
               /\ NeedsRoom(is, h, k, m) => NeedsRoom(is2, h, k, m)
               /\ NeedsGas(is, h, k, m) => NeedsGas(is2, h, k, m)
    <2>1. k \in 1 .. Len(is) /\ k \in 2 .. Len(is2)
      BY <1>1
    <2>2. /\ is2[k].fn = is[k].fn /\ is2[k].begin = is[k].begin /\ is2[k].change = is[k].change
          /\ is2[k].cost = is[k].cost
      BY <2>1, OldEntry
    <2> QED
      BY <2>1, <2>2 DEF NeedsItems, NeedsRoom, NeedsGas
  <1>3. ASSUME d.stack_req > 0 PROVE \E k \in 2 .. Len(is2) : NeedsItems(is2, h, k, d.stack_req)
    <2>1. PICK k \in 2 .. Len(is) : NeedsItems(is, h, k, d.stack_req)
      BY <1>3 DEF Tight
    <2> QED
      BY <1>2, <2>1
  <1>4. ASSUME d.stack_max_growth > 0 PROVE \E k \in 2 .. Len(is2) : NeedsRoom(is2, h, k, d.stack_max_growth)
    <2>1. PICK k \in 2 .. Len(is) : NeedsRoom(is, h, k, d.stack_max_growth)
      BY <1>4 DEF Tight
    <2> QED
      BY <1>2, <2>1
  <1>5. ASSUME d.gas_cost > 0 PROVE \E k \in 2 .. Len(is2) : NeedsGas(is2, h, k, d.gas_cost)
    <2>1. PICK k \in 2 .. Len(is) : NeedsGas(is, h, k, d.gas_cost)
      BY <1>5 DEF Tight
    <2> QED
      BY <1>2, <2>1
  <1> QED
    BY <1>3, <1>4, <1>5 DEF Tight

(* What an entry needs, and less, it needs.                                *)
LEMMA NeedsLess ==
  ASSUME NEW is \in Seq(Instructions), NEW k \in 2 .. Len(is), NEW h, NEW m \in Nat, NEW n \in Nat, n <= m
  PROVE  /\ NeedsItems(is, h, k, m) => NeedsItems(is, h, k, n)
         /\ NeedsRoom(is, h, k, m) => NeedsRoom(is, h, k, n)
         /\ NeedsGas(is, h, k, m) => NeedsGas(is, h, k, n)
  <1>1. is[k] \in Instructions
    OBVIOUS
  <1>2. is[k].fn \in Byte /\ is[k].change \in Int /\ is[k].cost \in Nat
    BY <1>1 DEF Instructions
  <1>3. /\ stack_height_required[is[k].fn] \in Nat /\ stack_height_change[is[k].fn] \in Int
        /\ op_gas_cost(is[k].fn) \in Nat
    BY <1>2, StackTraits, OpCost
  <1>4. NeedsItems(is, h, k, m) => NeedsItems(is, h, k, n)
    BY <1>2, <1>3 DEF NeedsItems
  <1>5. NeedsRoom(is, h, k, m) => NeedsRoom(is, h, k, n)
    BY <1>2, <1>3 DEF NeedsRoom
  <1>6. NeedsGas(is, h, k, m) => NeedsGas(is, h, k, n)
    BY <1>2, <1>3 DEF NeedsGas
  <1> QED
    BY <1>4, <1>5, <1>6

(* Clamping asks for less.                                                 *)
LEMMA TightClosed ==
  ASSUME NEW is \in Seq(Instructions), NEW h, NEW b \in Blocks, b.gas_cost <= GasInfoMax, Tight(is, h, b)
  PROVE  Tight(is, h, close(b))
  <1> DEFINE d == close(b)
  <1>1. /\ d \in Args /\ d.gas_cost = b.gas_cost /\ d.stack_req <= b.stack_req
        /\ d.stack_max_growth <= b.stack_max_growth
    BY CloseFacts
  <1> HIDE DEF d
  <1>2. /\ d.stack_req \in Nat /\ d.stack_max_growth \in Nat /\ b.stack_req \in Nat /\ b.stack_max_growth \in Nat
    BY <1>1 DEF Args, Blocks
  <1>3. ASSUME d.stack_req > 0 PROVE \E k \in 2 .. Len(is) : NeedsItems(is, h, k, d.stack_req)
    <2>1. b.stack_req > 0
      BY <1>1, <1>2, <1>3
    <2>2. PICK k \in 2 .. Len(is) : NeedsItems(is, h, k, b.stack_req)
      BY <2>1 DEF Tight
    <2> QED
      BY <1>1, <1>2, <2>2, NeedsLess
  <1>4. ASSUME d.stack_max_growth > 0 PROVE \E k \in 2 .. Len(is) : NeedsRoom(is, h, k, d.stack_max_growth)
    <2>1. b.stack_max_growth > 0
      BY <1>1, <1>2, <1>4
    <2>2. PICK k \in 2 .. Len(is) : NeedsRoom(is, h, k, b.stack_max_growth)
      BY <2>1 DEF Tight
    <2> QED
      BY <1>1, <1>2, <2>2, NeedsLess
  <1>5. d.gas_cost > 0 => \E k \in 2 .. Len(is) : NeedsGas(is, h, k, d.gas_cost)
    BY <1>1 DEF Tight
  <1> QED
    BY <1>3, <1>4, <1>5 DEF Tight, d

(* The block o, which asks for what is needed, gets the last entry.        *)
LEMMA TightAccount ==
  ASSUME NEW is \in Seq(Instructions), Len(is) \in 2 .. Len(is), NEW o \in Blocks, OfBlock(is[Len(is)], o),
         Tight(is, o.begin_block_index, o), NEW a, a = Account(o, is[Len(is)].fn)
  PROVE  Tight(is, o.begin_block_index, a)
  <1> DEFINE n == Len(is)
             op == is[n].fn
             h == o.begin_block_index
  <1>1. is[n] \in Instructions
    OBVIOUS
  <1>2. op \in Byte /\ is[n].begin = h /\ is[n].change = o.stack_change /\ is[n].cost = o.gas_cost
    BY <1>1 DEF Instructions, OfBlock
  <1>3. /\ a.gas_cost = o.gas_cost + op_gas_cost(op)
        /\ a.stack_change = o.stack_change + stack_height_change[op]
        /\ (a.stack_req = o.stack_req \/ a.stack_req = stack_height_required[op] - o.stack_change)
        /\ (a.stack_max_growth = o.stack_max_growth \/ a.stack_max_growth = a.stack_change)
        /\ a.stack_req \in Nat /\ a.stack_max_growth \in Nat /\ a.gas_cost \in Nat
    <2>1. a \in Blocks
      BY <1>2, AccountFacts
    <2>2. a.stack_req \in Nat /\ a.stack_max_growth \in Nat /\ a.gas_cost \in Nat
      BY <2>1 DEF Blocks
    <2> QED
      BY <1>2, <2>2, AccountFacts
  <1>4. /\ stack_height_required[op] \in Nat /\ stack_height_change[op] \in Int /\ op_gas_cost(op) \in Nat
        /\ o.stack_change \in Int /\ o.gas_cost \in Nat
    BY <1>2, StackTraits, OpCost DEF Blocks
  <1> HIDE DEF op, h, n
  <1>5. a.stack_req > 0 => \E k \in 2 .. n : NeedsItems(is, h, k, a.stack_req)
    <2>1. CASE a.stack_req = o.stack_req
      BY <2>1 DEF Tight, h, n
    <2>2. CASE a.stack_req = stack_height_required[op] - o.stack_change
      <3>1. NeedsItems(is, h, n, a.stack_req)
        BY <1>2, <1>3, <1>4, <2>2 DEF NeedsItems, op
      <3> QED
        BY <3>1 DEF n
    <2> QED
      BY <1>3, <2>1, <2>2
  <1>6. a.stack_max_growth > 0 => \E k \in 2 .. n : NeedsRoom(is, h, k, a.stack_max_growth)
    <2>1. CASE a.stack_max_growth = o.stack_max_growth
      BY <2>1 DEF Tight, h, n
    <2>2. CASE a.stack_max_growth = a.stack_change
      <3>1. NeedsRoom(is, h, n, a.stack_max_growth)
        BY <1>2, <1>3, <1>4, <2>2 DEF NeedsRoom, op
      <3> QED
        BY <3>1 DEF n
    <2> QED
      BY <1>3, <2>1, <2>2
  <1>7. \E k \in 2 .. n : NeedsGas(is, h, k, a.gas_cost)
    <2>1. NeedsGas(is, h, n, a.gas_cost)
      BY <1>2, <1>3, <1>4 DEF NeedsGas, op
    <2> QED
      BY <2>1 DEF n
  <1> QED
    BY <1>5, <1>6, <1>7 DEF Tight, h, n

(* A new block asks for nothing.                                           *)
LEMMA TightNew ==
  ASSUME NEW is, NEW h, NEW n \in Nat
  PROVE  Tight(is, h, BlockAnalysis(n))
  BY NewBlock DEF Tight

(* What the old and the new open block ask for is needed.                  *)
LEMMA OpenTightGrows ==
  ASSUME NEW is, NEW b, NEW is2, NEW b2, NEW bb, NEW i, Growth(is, b, is2, b2, bb, i)
  PROVE  Tight(is2, b2.begin_block_index, b2) /\ Tight(is2, b.begin_block_index, bb)
  <1> DEFINE n == Len(is)
  <1>1. /\ n \in Nat /\ n >= 1 /\ Len(is2) = n + 1 /\ is2[Len(is2)] = i /\ b \in Blocks
        /\ is \in Seq(Instructions) /\ is2 \in Seq(Instructions)
        /\ Len(is2) \in 2 .. Len(is2)
    BY GrowthTypes
  <1>2. Added(is, b, is2, b2, bb, i) /\ Tight(is, b.begin_block_index, b)
    BY DEF Growth, Table
  <1>3. Tight(is2, b.begin_block_index, b)
    BY <1>1, <1>2, TightStays
  <1>4. BlockAnalysis(n) \in Blocks /\ BlockAnalysis(n).begin_block_index = n
    BY <1>1, NewBlock
  <1>5. Tight(is2, n, BlockAnalysis(n))
    BY <1>1, TightNew
  <1>6. CASE i.fn = OP_JUMPDEST
    <2>1. OfBlock(i, BlockAnalysis(n)) /\ bb = b /\ b2 = Account(BlockAnalysis(n), i.fn)
      BY <1>6 DEF Growth, Grows
    <2>2. Tight(is2, n, b2)
      BY <1>1, <1>4, <1>5, <2>1, TightAccount
    <2> QED
      BY <1>3, <1>6, <2>1, <2>2, GrowthTypes
  <1>7. CASE i.fn # OP_JUMPDEST
    <2>1. OfBlock(i, b) /\ bb = Account(b, i.fn) /\ b2 = (IF i.fn = OP_JUMPI THEN BlockAnalysis(n) ELSE bb)
      BY <1>7 DEF Growth, Grows
    <2>2. Tight(is2, b.begin_block_index, bb)
      BY <1>1, <1>3, <2>1, TightAccount
    <2>3. CASE i.fn = OP_JUMPI
      BY <1>4, <1>5, <2>1, <2>2, <2>3
    <2>4. CASE i.fn # OP_JUMPI
      BY <1>7, <2>1, <2>2, <2>4, GrowthTypes
    <2> QED
      BY <2>3, <2>4
  <1> QED
    BY <1>6, <1>7

(* What every block's data asks for is still needed.                       *)
LEMMA TightGrows ==
  ASSUME NEW is, NEW b, NEW is2, NEW b2, NEW bb, NEW i, Growth(is, b, is2, b2, bb, i), NEW h \in 0 .. Len(is2) - 1,
         is2[h + 1].fn \in {OP_JUMPDEST, OP_JUMPI}
  PROVE  Tight(is2, h, Data(is2, b2, h))
  <1> DEFINE n == Len(is)
  <1>1. /\ n \in Nat /\ n >= 1 /\ Len(is2) = n + 1 /\ is2[n + 1] = i /\ bb \in Blocks /\ b2 \in Blocks
        /\ is \in Seq(Instructions) /\ is2 \in Seq(Instructions)
        /\ b2.begin_block_index = IF i.fn \in {OP_JUMPDEST, OP_JUMPI} THEN n ELSE b.begin_block_index
    BY GrowthTypes
  <1>2. Added(is, b, is2, b2, bb, i) /\ bb.gas_cost <= GasInfoMax /\ b2.gas_cost <= GasInfoMax
    BY DEF Growth
  <1>3. CASE h \in 0 .. n - 1
    <2>1. DataKept(is, b, is2, b2, bb, h)
      BY <1>2, <1>3 DEF Added
    <2>2. CASE h = b.begin_block_index
      <3>1. Data(is2, b2, h) = close(bb)
        BY <2>1, <2>2 DEF DataKept
      <3>2. Tight(is2, h, bb)
        BY <2>2, OpenTightGrows
      <3> QED
        BY <1>1, <1>2, <3>1, <3>2, TightClosed
    <2>3. CASE h # b.begin_block_index
      <3>1. Data(is2, b2, h) = Data(is, b, h)
        BY <2>1, <2>3 DEF DataKept
      <3>2. h + 1 \in 1 .. n
        BY <1>1, <1>3
      <3>3. is2[h + 1].fn = is[h + 1].fn
        BY <1>2, <3>2, OldEntry
      <3>4. Tight(is, h, Data(is, b, h))
        BY <1>3, <3>3 DEF Growth, Table
      <3> QED
        BY <1>1, <1>2, <3>1, <3>4, TightStays
    <2> QED
      BY <2>2, <2>3
  <1>4. CASE h = n
    <2>1. b2.begin_block_index = n
      BY <1>1, <1>4
    <2>2. Data(is2, b2, h) = close(b2)
      BY <1>4, <2>1 DEF Data
    <2>3. Tight(is2, h, b2)
      BY <1>4, <2>1, OpenTightGrows
    <2> QED
      BY <1>1, <1>2, <2>2, <2>3, TightClosed
  <1> QED
    BY <1>1, <1>3, <1>4

(* The table keeps its invariant when it grows.                            *)
LEMMA TableGrows ==
  ASSUME NEW is, NEW b, NEW is2, NEW b2, NEW bb, NEW i, Growth(is, b, is2, b2, bb, i)
  PROVE  Table(is2, b2)
  <1>1. is2 \in Seq(Instructions) /\ Len(is2) >= 1
    BY GrowthTypes
  <1> QED
    BY <1>1, OpenGrows, BelongsGrows, ChainedGrows, MembersGrows, CoversGrows, ExactGrows, OpenTightGrows,
       TightGrows DEF Table

(* Before the last entry, the open block does not end.                     *)
LEMMA StillOpenGrows ==
  ASSUME NEW is, NEW b, NEW is2, NEW b2, NEW bb, NEW i, Growth(is, b, is2, b2, bb, i),
         i.fn \notin {OP_JUMPDEST, OP_JUMPI} =>
           \A k \in 1 .. Len(is) : Ends(is, k) => is[k].begin # b.begin_block_index
  PROVE  StillOpen(is2, b2)
  <1> DEFINE n == Len(is)
  <1>1. /\ n \in Nat /\ n >= 1 /\ Len(is2) = n + 1
        /\ b2.begin_block_index = IF i.fn \in {OP_JUMPDEST, OP_JUMPI} THEN n ELSE b.begin_block_index
    BY GrowthTypes
  <1>2. ASSUME NEW k \in 1 .. n, Ends(is2, k)
        PROVE  is2[k].begin # b2.begin_block_index
    <2>1. is2[k].begin = is[k].begin
      BY OldData
    <2>2. CASE i.fn \in {OP_JUMPDEST, OP_JUMPI}
      <3>1. Belongs(is, k)
        BY DEF Growth, Table
      <3>2. is[k].begin \in 0 .. k - 1
        BY <3>1 DEF Belongs
      <3> QED
        BY <1>1, <2>1, <2>2, <3>2
    <2>3. CASE i.fn \notin {OP_JUMPDEST, OP_JUMPI}
      <3>1. Ends(is, k)
        BY <1>2, <2>3, EndsGrows
      <3> QED
        BY <1>1, <2>1, <2>3, <3>1
    <2> QED
      BY <2>2, <2>3
  <1> QED
    BY <1>1, <1>2 DEF StillOpen

------------------------------------------------------------------------------
(* The code position advances.                                             *)

(* The next position, cut off at the end of the code.                      *)
LEMMA Advance ==
  ASSUME NEW c \in Programs, NEW p \in InstructionStarts(c), NEW p2, p2 = min(NextPosition(c, p), Len(c))
  PROVE  /\ p \in 0 .. Len(c) - 1 /\ Len(c) \in Nat
         /\ p2 \in p + 1 .. Len(c)
         /\ p2 = Len(c) \/ p2 \in InstructionStarts(c)
         /\ p2 <= NextPosition(c, p)
         /\ ByteAt(c, p) \in Byte
  <1>1. p \in Positions(c) /\ p \in 0 .. Len(c) - 1 /\ Len(c) \in Nat /\ ByteAt(c, p) \in Byte
    BY CodeType DEF Positions
  <1>2. NextPosition(c, p) \in (p + 1) .. (p + 33)
    BY <1>1, NextIsAhead
  <1>3. p2 \in p + 1 .. Len(c) /\ p2 <= NextPosition(c, p)
    BY <1>1, <1>2 DEF min
  <1>4. CASE NextPosition(c, p) < Len(c)
    <2>1. p2 = NextPosition(c, p) /\ p2 \in Positions(c)
      BY <1>1, <1>2, <1>4 DEF min, Positions
    <2> QED
      BY <1>1, <1>3, <2>1, StartsAreClosed
  <1>5. CASE ~(NextPosition(c, p) < Len(c))
    BY <1>1, <1>2, <1>3, <1>5 DEF min
  <1> QED
    BY <1>4, <1>5

(* No jump destination is passed but the one at p.                         *)
LEMMA NoDestinationPassed ==
  ASSUME NEW c \in Programs, NEW p \in InstructionStarts(c), NEW p2, p2 = min(NextPosition(c, p), Len(c)),
         NEW q \in JumpDests(c), q < p2
  PROVE  q < p \/ (q = p /\ ByteAt(c, p) = OP_JUMPDEST)
  <1>1. q \in InstructionStarts(c) /\ ByteAt(c, q) = OP_JUMPDEST
    BY DEF JumpDests
  <1>2. p \in Nat /\ q \in Nat /\ p2 \in Nat /\ p2 <= NextPosition(c, p)
    <2>1. p2 \in p + 1 .. Len(c) /\ p \in 0 .. Len(c) - 1 /\ p2 <= NextPosition(c, p)
      BY Advance
    <2> QED
      BY <1>1, <2>1, CodeType
  <1>3. CASE p < q
    <2>1. NextPosition(c, p) <= q
      BY <1>1, <1>3, StartsApart
    <2>2. NextPosition(c, p) \in Int
      <3>1. p \in Positions(c)
        BY CodeType
      <3> QED
        BY <1>2, <3>1, NextIsAhead
    <2> QED
      BY <1>2, <2>1, <2>2
  <1>4. CASE q = p
    BY <1>1, <1>4
  <1> QED
    BY <1>2, <1>3, <1>4

(* The entries of is are those of is2, and there may be more.              *)
Prefix(is, is2) ==
  /\ Len(is) \in Nat /\ Len(is2) \in Nat /\ Len(is) <= Len(is2)
  /\ \A k \in 1 .. Len(is) : is2[k].fn = is[k].fn /\ is2[k].pos = is[k].pos

(* A table is a prefix of what it grows to.                                *)
LEMMA PrefixOfGrowth ==
  ASSUME NEW is, NEW b, NEW is2, NEW b2, NEW bb, NEW i, Growth(is, b, is2, b2, bb, i)
  PROVE  Prefix(is, is2)
  <1>1. Len(is) \in Nat /\ Len(is2) = Len(is) + 1
    BY GrowthTypes
  <1>2. \A k \in 1 .. Len(is) : is2[k].fn = is[k].fn /\ is2[k].pos = is[k].pos
    BY OldEntry DEF Growth
  <1> QED
    BY <1>1, <1>2 DEF Prefix

(* A destination stays in the tables.                                      *)
LEMMA DestinationStays ==
  ASSUME NEW is, NEW is2, Prefix(is, is2), NEW c \in Programs, NEW p \in Nat, NEW p2 \in Nat, p <= p2,
         NEW offset, NEW target, Destination(is, c, p, offset, target)
  PROVE  Destination(is2, c, p2, offset, target)
  <1>1. /\ offset \in JumpDests(c) /\ offset < p /\ target \in 1 .. Len(is) - 1
        /\ is[target + 1].fn = OP_JUMPDEST /\ is[target + 1].pos = offset
    BY DEF Destination
  <1>2. Len(is) \in Nat /\ Len(is2) \in Nat /\ Len(is) <= Len(is2)
    BY DEF Prefix
  <1>3. offset \in Nat
    BY <1>1, CodeType DEF JumpDests
  <1>4. target + 1 \in 1 .. Len(is) /\ target \in 1 .. Len(is2) - 1
    BY <1>1, <1>2
  <1>5. is2[target + 1].fn = is[target + 1].fn /\ is2[target + 1].pos = is[target + 1].pos
    BY <1>4 DEF Prefix
  <1>6. offset < p2
    BY <1>1, <1>3
  <1> QED
    BY <1>1, <1>4, <1>5, <1>6 DEF Destination

(* Passing an instruction that is no JUMPDEST.                             *)
LEMMA TablesStay ==
  ASSUME NEW is, NEW is2, Prefix(is, is2), NEW c \in Programs, NEW p \in InstructionStarts(c), NEW p2,
         p2 = min(NextPosition(c, p), Len(c)), NEW offsets, NEW targets,
         JumpTables(is, c, p, offsets, targets), ByteAt(c, p) # OP_JUMPDEST
  PROVE  JumpTables(is2, c, p2, offsets, targets)
  <1>1. p \in Nat /\ p2 \in Nat /\ p <= p2
    <2>1. p2 \in p + 1 .. Len(c) /\ p \in 0 .. Len(c) - 1
      BY Advance
    <2> QED
      BY <2>1
  <1>2. \A k \in 1 .. Len(offsets) : Destination(is2, c, p2, offsets[k], targets[k])
    BY <1>1, DestinationStays DEF JumpTables
  <1>3. ASSUME NEW q \in JumpDests(c), q < p2 PROVE \E k \in 1 .. Len(offsets) : offsets[k] = q
    <2>1. q < p
      BY <1>3, NoDestinationPassed
    <2> QED
      BY <2>1 DEF JumpTables
  <1> QED
    BY <1>2, <1>3 DEF JumpTables

(* Passing a JUMPDEST, which gets the next entry.                          *)
LEMMA TablesGrow ==
  ASSUME NEW is, NEW is2, Prefix(is, is2), Len(is2) = Len(is) + 1, Len(is) >= 1, NEW c \in Programs,
         NEW p \in InstructionStarts(c), NEW p2, p2 = min(NextPosition(c, p), Len(c)), NEW offsets, NEW targets,
         JumpTables(is, c, p, offsets, targets), ByteAt(c, p) = OP_JUMPDEST,
         is2[Len(is) + 1].fn = OP_JUMPDEST, is2[Len(is) + 1].pos = p,
         NEW offsets2, offsets2 = Append(offsets, p), NEW targets2, targets2 = Append(targets, Len(is))
  PROVE  JumpTables(is2, c, p2, offsets2, targets2)
  <1> DEFINE m == Len(offsets)
  <1>1. p \in Nat /\ p2 \in Nat /\ p < p2
    <2>1. p2 \in p + 1 .. Len(c) /\ p \in 0 .. Len(c) - 1
      BY Advance
    <2> QED
      BY <2>1
  <1>2. Len(is) \in Nat
    BY DEF Prefix
  <1>3. offsets \in Seq(Nat) /\ targets \in Seq(Nat) /\ Len(targets) = m /\ m \in Nat
    BY DEF JumpTables
  <1>4. /\ offsets2 \in Seq(Nat) /\ Len(offsets2) = m + 1 /\ offsets2[m + 1] = p
        /\ \A k \in 1 .. m : offsets2[k] = offsets[k]
    BY <1>1, <1>3
  <1>5. /\ targets2 \in Seq(Nat) /\ Len(targets2) = m + 1 /\ targets2[m + 1] = Len(is)
        /\ \A k \in 1 .. m : targets2[k] = targets[k]
    BY <1>2, <1>3, SMTT(60)
  <1>6. ASSUME NEW k \in 1 .. m PROVE offsets[k] \in Nat /\ offsets[k] < p
    <2>1. Destination(is, c, p, offsets[k], targets[k])
      BY DEF JumpTables
    <2> QED
      BY <1>3, <2>1, SMTT(60) DEF Destination
  <1> HIDE DEF m
  <1>7. ASSUME NEW k \in 1 .. m + 1 PROVE Destination(is2, c, p2, offsets2[k], targets2[k])
    <2>1. CASE k \in 1 .. m
      <3>1. Destination(is, c, p, offsets[k], targets[k])
        BY <2>1 DEF JumpTables, m
      <3>2. p <= p2
        BY <1>1
      <3>3. offsets2[k] = offsets[k] /\ targets2[k] = targets[k]
        BY <1>4, <1>5, <2>1
      <3> QED
        BY <1>1, <3>1, <3>2, <3>3, DestinationStays
    <2>2. CASE k = m + 1
      BY <1>1, <1>2, <1>4, <1>5, <2>2 DEF Destination, JumpDests
    <2>3. k \in 1 .. m \/ k = m + 1
      BY <1>3
    <2> QED
      BY <2>1, <2>2, <2>3
  <1>8. ASSUME NEW j \in 1 .. m + 1, NEW k \in 1 .. m + 1, j < k PROVE offsets2[j] < offsets2[k]
    <2>1. j \in 1 .. m
      BY <1>3, <1>8
    <2>2. CASE k \in 1 .. m
      <3>1. offsets[j] < offsets[k]
        BY <1>8, <2>1, <2>2 DEF JumpTables, m
      <3> QED
        BY <1>4, <2>1, <2>2, <3>1
    <2>3. CASE k = m + 1
      BY <1>4, <1>6, <2>1, <2>3
    <2>4. k \in 1 .. m \/ k = m + 1
      BY <1>3
    <2> QED
      BY <2>2, <2>3, <2>4
  <1>9. ASSUME NEW q \in JumpDests(c), q < p2 PROVE \E k \in 1 .. m + 1 : offsets2[k] = q
    <2>1. CASE q < p
      <3>1. PICK k \in 1 .. m : offsets[k] = q
        BY <2>1 DEF JumpTables, m
      <3> QED
        BY <1>3, <1>4, <3>1, SMTT(60)
    <2>2. CASE q = p
      BY <1>3, <1>4, <2>2
    <2>3. q < p \/ q = p
      BY <1>9, NoDestinationPassed
    <2> QED
      BY <2>1, <2>2, <2>3
  <1> QED
    BY <1>4, <1>5, <1>7, <1>8, <1>9, ZenonT(60) DEF JumpTables

(* The new entry is placed behind the last one.                            *)
LEMMA LayoutGrows ==
  ASSUME NEW is, NEW is2, Prefix(is, is2), Len(is2) = Len(is) + 1, Len(is) >= 1, NEW c, Layout(is, c),
         Placed(is2, c, Len(is) + 1), Follows(is, c, Len(is), is2[Len(is) + 1].pos)
  PROVE  Layout(is2, c)
  <1> DEFINE n == Len(is)
  <1>1. n \in Nat /\ \A k \in 1 .. n : is2[k].fn = is[k].fn /\ is2[k].pos = is[k].pos
    BY DEF Prefix
  <1> HIDE DEF n
  <1>2. is2[1].pos = 0
    BY <1>1 DEF Layout, n
  <1>3. ASSUME NEW k \in 2 .. Len(is2) PROVE Placed(is2, c, k)
    <2>1. CASE k \in 2 .. n
      <3>1. is2[k].fn = is[k].fn /\ is2[k].pos = is[k].pos
        BY <1>1, <2>1
      <3>2. Placed(is, c, k)
        BY <2>1 DEF Layout, n
      <3> QED
        BY <3>1, <3>2 DEF Placed
    <2>2. CASE k = n + 1
      BY <2>2 DEF n
    <2> QED
      BY <1>1, <2>1, <2>2 DEF n
  <1>4. ASSUME NEW k \in 1 .. Len(is2) - 1 PROVE Follows(is2, c, k, is2[k + 1].pos)
    <2>1. k \in 1 .. n
      BY <1>1 DEF n
    <2>2. is2[k].fn = is[k].fn /\ is2[k].pos = is[k].pos
      BY <1>1, <2>1
    <2>3. Follows(is, c, k, is2[k + 1].pos)
      <3>1. CASE k = n
        BY <3>1 DEF n
      <3>2. CASE k # n
        <4>1. k \in 1 .. n - 1 /\ k + 1 \in 1 .. n
          BY <1>1, <2>1, <3>2
        <4>2. is2[k + 1].pos = is[k + 1].pos
          BY <1>1, <4>1
        <4> QED
          BY <4>1, <4>2 DEF Layout, n
      <3> QED
        BY <3>1, <3>2
    <2> QED
      BY <2>2, <2>3 DEF Follows
  <1> QED
    BY <1>2, <1>3, <1>4 DEF Layout

------------------------------------------------------------------------------
(* The analysis keeps the invariant.                                       *)

(* Initially the table holds the first BEGINBLOCK.                         *)
LEMMA FirstTable ==
  ASSUME NEW is, is = <<Instruction(OP_JUMPDEST, 0, BlockAnalysis(0))>>
  PROVE  /\ Table(is, BlockAnalysis(0)) /\ StillOpen(is, BlockAnalysis(0))
         /\ Len(is) = 1 /\ is[1].fn = OP_JUMPDEST /\ is[1].pos = 0
  <1> DEFINE b == BlockAnalysis(0)
             z == BlockArg(0, 0, 0)
             i == Instruction(OP_JUMPDEST, 0, b)
  <1>1. b \in Blocks /\ b.begin_block_index = 0 /\ b.stack_change = 0 /\ b.stack_req = 0 /\ b.stack_max_growth = 0
        /\ b.gas_cost = 0
    BY NewBlock
  <1>2. z \in Args /\ z.kind = "block"
    BY DEF BlockArg, Args, Members
  <1>3. i = [fn |-> OP_JUMPDEST, arg |-> z, pos |-> 0, begin |-> 0, change |-> 0, cost |-> 0]
    BY <1>1 DEF Instruction
  <1> HIDE DEF b, z
  <1>4. i \in Instructions
    BY <1>2, <1>3, NeutralOps DEF Instructions
  <1>5. /\ i.fn = OP_JUMPDEST /\ i.arg = z /\ i.pos = 0 /\ i.begin = 0 /\ i.change = 0 /\ i.cost = 0
    BY <1>3
  <1>6. is = <<i>>
    BY DEF b
  <1> HIDE DEF i
  <1>7. is \in Seq(Instructions) /\ Len(is) = 1 /\ is[1] = i
    BY <1>4, <1>6
  <1>8. b.gas_cost <= GasInfoMax
    BY <1>1, GasInfoMaxAssumption
  <1>9. /\ close(b).gas_cost = 0 /\ close(b).stack_req = 0 /\ close(b).stack_max_growth = 0
    BY <1>1, StackInfoMaxAssumption, GasInfoMaxAssumption DEF close, BlockArg, clamp
  <1>10. Data(is, b, 0) = close(b)
    BY <1>1 DEF Data
  <1>11. Open(is, b)
    BY <1>1, <1>5, <1>7, <1>8, NeutralOps, HeadsReadNoNumber DEF Open, Joins, cost_of
  <1>12. Belongs(is, 1)
    BY <1>5, <1>7 DEF Belongs
  <1>13. Reads(is, 1)
    BY <1>2, <1>5, <1>7, HeadsReadNoNumber DEF Reads, Written
  <1>14. Covers(is, 1, close(b))
    BY <1>5, <1>7, <1>9, NeutralOps DEF Covers, cost_of
  <1>15. Exact(is, 1, close(b))
    BY <1>5, <1>7, HeadsReadNoNumber DEF Exact, Ends
  <1>16. Tight(is, 0, b) /\ Tight(is, 0, close(b))
    BY <1>1, <1>9 DEF Tight
  <1>17. Table(is, b)
    <2>1. \A k \in 1 .. Len(is) : k = 1
      BY <1>7
    <2>2. \A k \in 1 .. Len(is) - 1 : FALSE
      BY <1>7
    <2>3. \A h \in 0 .. Len(is) - 1 : h = 0
      BY <1>7
    <2>4. \A k \in 1 .. Len(is) : Data(is, b, is[k].begin) = close(b)
      BY <1>5, <1>7, <1>10, <2>1
    <2>5. Len(is) >= 1
      BY <1>7
    <2> QED
      BY <1>1, <1>7, <1>10, <1>11, <1>12, <1>13, <1>14, <1>15, <1>16, <2>1, <2>2, <2>3, <2>4, <2>5 DEF Table
  <1>18. StillOpen(is, b)
    BY <1>7 DEF StillOpen
  <1> QED
    BY <1>5, <1>7, <1>17, <1>18 DEF b

(* The invariant holds initially.                                          *)
LEMMA InitEstablishes == Init => AInv
  <1> SUFFICES ASSUME Init PROVE AInv
    OBVIOUS
  <1> DEFINE is == <<Instruction(OP_JUMPDEST, 0, BlockAnalysis(0))>>
  <1>1. instrs = is /\ block = BlockAnalysis(0) /\ code \in Programs /\ code_pos = 0 /\ phase = "analyze"
    BY DEF Init
  <1>2. /\ Table(instrs, block) /\ StillOpen(instrs, block)
        /\ Len(instrs) = 1 /\ instrs[1].fn = OP_JUMPDEST /\ instrs[1].pos = 0
    BY <1>1, FirstTable
  <1>3. Len(code) \in Nat
    BY <1>1, CodeType
  <1>4. block \in Blocks /\ block.gas_cost = 0
    BY <1>1, NewBlock
  <1> HIDE DEF is
  <1>5. TypeOK
    <2>1. instrs \in Seq(Instructions)
      BY <1>2 DEF Table
    <2>2. gas_left \in Nat
      BY GasLimitsAssumption DEF Init
    <2>3. SUCCESS \in StatusCode
      BY DEF StatusCode
    <2>4. result \in [status : StatusCode \cup {"NONE"}, gas_left : Nat]
      BY DEF Init
    <2>5. jumpdest_offsets \in Seq(Nat) /\ jumpdest_targets \in Seq(Nat)
      BY DEF Init
    <2> QED
      BY <1>1, <1>3, <1>4, <2>1, <2>2, <2>3, <2>4, <2>5 DEF Init, TypeOK
  <1>6. Layout(instrs, code)
    BY <1>2 DEF Layout
  <1>7. JumpTables(instrs, code, code_pos, jumpdest_offsets, jumpdest_targets)
    <2>1. jumpdest_offsets = <<>> /\ jumpdest_targets = <<>>
      BY DEF Init
    <2>2. \A q \in JumpDests(code) : ~(q < 0)
      BY <1>1, CodeType DEF JumpDests
    <2> QED
      BY <1>1, <2>1, <2>2 DEF JumpTables
  <1>8. Scanning
    <2>1. code_pos = Len(code) \/ code_pos \in InstructionStarts(code)
      BY <1>1, <1>3, StartsAreClosed DEF Positions
    <2>2. Follows(instrs, code, Len(instrs), code_pos)
      BY <1>1, <1>2 DEF Follows
    <2>3. instr = 0 /\ stack_top = 0 /\ current_block_cost = 0
      BY DEF Init
    <2>4. OP_JUMPDEST \notin BlockTerminators
      BY HeadsReadNoNumber
    <2> QED
      BY <1>1, <1>2, <1>3, <1>4, <2>1, <2>2, <2>3, <2>4 DEF Scanning, MaxGasCost
  <1>9. push_values <= code_pos /\ status = SUCCESS /\ result = [status |-> "NONE", gas_left |-> 0]
    BY <1>1 DEF Init
  <1> QED
    BY <1>1, <1>2, <1>5, <1>6, <1>7, <1>8, <1>9 DEF AInv, RefusedBlocksFail, Refused

(* The classes of opcodes that the argument depends on are disjoint.       *)
LEMMA ArgumentClasses ==
  /\ AnyPush \cap GasCorrectedOps = {} /\ OP_PC \notin AnyPush /\ OP_PC \notin GasCorrectedOps
  /\ AnyPush = AnySmallPush \cup AnyLargePush /\ AnySmallPush \cap AnyLargePush = {}
  BY DEF AnySmallPush, AnyLargePush, OP_PUSH8, AnyPush, GasCorrectedOps, AnyCall, AnyCreate, OP_PC, OP_PUSH1, OP_PUSH32, OP_GAS,
         OP_SSTORE, OP_CALL, OP_DELEGATECALL, OP_STATICCALL, OP_CREATE, OP_CREATE2

(* The readers of each member are the instructions it is written for.      *)
LEMMA ReadersOf ==
  ASSUME NEW op, NEW m \in Members
  PROVE  /\ op \in AnySmallPush => (reads(op, m) => m = "small_push_value")
         /\ op \in AnyLargePush => (reads(op, m) => m = "push_value")
         /\ op \in GasCorrectedOps \cup {OP_PC} => (reads(op, m) => m = "number")
         /\ op \notin AnyPush \cup GasCorrectedOps \cup {OP_PC} => (reads(op, m) => m = "block")
  BY DEF reads, AnySmallPush, AnyLargePush, AnyPush, OP_PUSH8, GasCorrectedOps, AnyCall, AnyCreate, OP_JUMPDEST, OP_JUMPI,
         OP_PC, OP_PUSH1, OP_PUSH32, OP_GAS, OP_SSTORE, OP_CALL, OP_DELEGATECALL, OP_STATICCALL, OP_CREATE, OP_CREATE2

(* What analyze() stores in an instruction.                                *)
LEMMA ArgFacts ==
  ASSUME code \in Programs, code_pos \in Positions(code), NEW op \in Byte, NEW b \in Blocks, NEW a, a = ArgOf(op, b)
  PROVE  /\ a \in Args
         /\ Written(op, a)
         /\ op \in GasCorrectedOps => a.value = b.gas_cost
  <1>1. ASSUME NEW m \in Members, NEW n \in Nat
        PROVE  ValueArg(m, n) \in Args /\ ValueArg(m, n).kind = m /\ ValueArg(m, n).value = n
    BY DEF ValueArg, Args
  <1>2. BlockArg(0, 0, 0) \in Args /\ BlockArg(0, 0, 0).kind = "block"
    BY DEF BlockArg, Args, Members
  <1>3. push_value(code, code_pos, immediate_size(op)) \in Nat
    <2>1. immediate_size(op) \in Nat
      BY ImmediateSize
    <2> QED
      BY <2>1, PushValueType
  <1>4. "small_push_value" \in Members /\ "push_value" \in Members /\ "number" \in Members
    BY DEF Members
  <1>5. CASE op \in AnySmallPush
    <2>1. a = ValueArg("small_push_value", push_value(code, code_pos, immediate_size(op)))
      BY <1>5, ArgumentClasses DEF ArgOf
    <2>2. a \in Args /\ a.kind = "small_push_value"
      BY <1>1, <1>3, <1>4, <2>1
    <2> QED
      BY <1>5, <2>2, ReadersOf, ArgumentClasses DEF Written
  <1>6. CASE op \in AnyLargePush
    <2>1. a = ValueArg("push_value", push_value(code, code_pos, immediate_size(op)))
      BY <1>6, ArgumentClasses DEF ArgOf
    <2>2. a \in Args /\ a.kind = "push_value"
      BY <1>1, <1>3, <1>4, <2>1
    <2> QED
      BY <1>6, <2>2, ReadersOf, ArgumentClasses DEF Written
  <1>7. CASE op \in GasCorrectedOps
    <2>1. a = ValueArg("number", b.gas_cost)
      BY <1>7, ArgumentClasses DEF ArgOf
    <2>2. b.gas_cost \in Nat
      BY DEF Blocks
    <2>3. a \in Args /\ a.kind = "number" /\ a.value = b.gas_cost
      BY <1>1, <1>4, <2>1, <2>2
    <2> QED
      BY <1>7, <2>3, ReadersOf DEF Written
  <1>8. CASE op = OP_PC
    <2>1. a = ValueArg("number", code_pos)
      BY <1>8, ArgumentClasses DEF ArgOf
    <2>2. code_pos \in Nat
      BY CodeType
    <2>3. a \in Args /\ a.kind = "number"
      BY <1>1, <1>4, <2>1, <2>2
    <2> QED
      BY <1>8, <2>3, ReadersOf, ArgumentClasses DEF Written
  <1>9. CASE op \notin AnyPush \cup GasCorrectedOps \cup {OP_PC}
    <2>1. a = BlockArg(0, 0, 0)
      BY <1>9, ArgumentClasses DEF ArgOf
    <2> QED
      BY <1>2, <1>9, <2>1, ReadersOf DEF Written
  <1> QED
    BY <1>5, <1>6, <1>7, <1>8, <1>9, ArgumentClasses

(* The block that the instruction is added to, and the new entry.          *)
opened(op) == IF op = OP_JUMPDEST THEN BlockAnalysis(Len(instrs)) ELSE block
entry(op) == WithArg(Instruction(op, code_pos, opened(op)), ArgOf(op, Account(opened(op), op)))

(* The invariant says what analyze() may assume at an instruction.         *)
LEMMA AtInstruction ==
  ASSUME AInv, phase = "analyze", code_pos # Len(code), NEW op, op = ByteAt(code, code_pos)
  PROVE  /\ code \in Programs /\ Len(code) \in Nat /\ code_pos \in 0 .. Len(code) - 1
         /\ code_pos \in InstructionStarts(code) /\ code_pos \in Positions(code) /\ op \in Byte
         /\ Table(instrs, block) /\ Scanning
         /\ instrs \in Seq(Instructions) /\ Len(instrs) \in Nat /\ Len(instrs) >= 1
         /\ block \in Blocks /\ block.gas_cost <= GasInfoMax /\ block.begin_block_index + 1 \in 1 .. Len(instrs)
  <1>1. code \in Programs /\ code_pos \in 0 .. Len(code)
    BY DEF AInv, TypeOK
  <1>2. Len(code) \in Nat
    BY <1>1, CodeType
  <1>3. Table(instrs, block) /\ Scanning
    BY DEF AInv
  <1>4. code_pos \in InstructionStarts(code) /\ code_pos \in 0 .. Len(code) - 1
    BY <1>1, <1>2, <1>3 DEF Scanning
  <1>5. op \in Byte /\ code_pos \in Positions(code)
    BY <1>1, <1>4, CodeType
  <1>6. instrs \in Seq(Instructions) /\ Len(instrs) \in Nat /\ Len(instrs) >= 1
    BY <1>3 DEF Table
  <1>7. block \in Blocks /\ block.gas_cost <= GasInfoMax /\ block.begin_block_index + 1 \in 1 .. Len(instrs)
    BY <1>3 DEF Table, Open
  <1> QED
    BY <1>1, <1>2, <1>3, <1>4, <1>5, <1>6, <1>7

(* The new entry.                                                          *)
LEMMA EntryFacts ==
  ASSUME AInv, phase = "analyze", code_pos # Len(code), NEW op, op = ByteAt(code, code_pos), NEW i, i = entry(op)
  PROVE  /\ opened(op) \in Blocks
         /\ i \in Instructions /\ i.fn = op /\ i.pos = code_pos /\ OfBlock(i, opened(op)) /\ NewReads(i)
  <1>1. /\ code \in Programs /\ code_pos \in Positions(code) /\ op \in Byte /\ block \in Blocks
        /\ code_pos \in Nat /\ Len(instrs) \in Nat
    BY AtInstruction
  <1>2. opened(op) \in Blocks
    BY <1>1, NewBlock DEF opened
  <1> DEFINE o == opened(op)
             a == ArgOf(op, Account(o, op))
  <1> HIDE DEF o
  <1>3. Account(o, op) \in Blocks /\ Account(o, op).gas_cost = o.gas_cost + op_gas_cost(op)
    BY <1>1, <1>2, AccountFacts DEF o
  <1>4. /\ a \in Args
        /\ Written(op, a)
        /\ op \in GasCorrectedOps => a.value = o.gas_cost + op_gas_cost(op)
    BY <1>1, <1>3, ArgFacts
  <1> HIDE DEF a
  <1>5. i = WithArg(Instruction(op, code_pos, o), a)
    BY DEF entry, a, o
  <1>6. /\ i \in Instructions
        /\ i.fn = op /\ i.pos = code_pos /\ i.arg = a /\ i.begin = o.begin_block_index
        /\ i.change = o.stack_change /\ i.cost = o.gas_cost
    <2>1. o \in Blocks /\ a \in Args
      BY <1>2, <1>4 DEF o
    <2> QED
      BY <1>1, <1>5, <2>1, InstructionFacts
  <1>7. NewReads(i)
    BY <1>4, <1>6, Zenon DEF NewReads
  <1> QED
    BY <1>2, <1>6, <1>7 DEF OfBlock, o

(* No entry of the open block is its end, when an instruction other than   *)
(* JUMPDEST follows.                                                       *)
LEMMA BlockIsOpen ==
  ASSUME AInv, phase = "analyze", code_pos # Len(code), ByteAt(code, code_pos) # OP_JUMPDEST,
         NEW k \in 1 .. Len(instrs), Ends(instrs, k)
  PROVE  instrs[k].begin # block.begin_block_index
  <1> DEFINE n == Len(instrs)
  <1>1. Table(instrs, block) /\ Scanning /\ n \in Nat /\ n >= 1 /\ code_pos \in 0 .. Len(code) - 1 /\ Len(code) \in Nat
    BY AtInstruction
  <1>2. CASE k \in 1 .. n - 1
    BY <1>1, <1>2 DEF Scanning, StillOpen
  <1>3. CASE k = n
    <2>1. instrs[n].fn \notin BlockTerminators
      BY <1>1 DEF Scanning
    <2>2. instrs[n].fn = OP_JUMPI
      BY <1>3, <2>1 DEF Ends
    <2>3. Joins(instrs, n, block.begin_block_index, block.stack_change, block.gas_cost)
      BY <1>1 DEF Table, Open
    <2>4. block.begin_block_index = n - 1
      BY <2>2, <2>3 DEF Joins
    <2>5. Belongs(instrs, n)
      BY <1>1, <1>3 DEF Table
    <2>6. instrs[n].begin < n - 1 /\ instrs[n].begin \in 0 .. n - 1
      BY <2>2, <2>5, HeadsReadNoNumber DEF Belongs
    <2> QED
      BY <1>1, <1>3, <2>4, <2>6
  <1> QED
    BY <1>1, <1>2, <1>3

(* The cost of a block of n bytes of code is not clamped.                  *)
LEMMA CostFits ==
  ASSUME code \in Programs, NEW n \in 0 .. Len(code)
  PROVE  MaxGasCost * n <= GasInfoMax
  <1>1. Len(code) \in Nat /\ GasInfoMax \in Nat /\ Len(code) * MaxGasCost <= GasInfoMax
    BY CodeType, GasInfoMaxAssumption
  <1> QED
    BY <1>1 DEF MaxGasCost

(* The cost of the block that gets the instruction.                        *)
LEMMA CostGrows ==
  ASSUME AInv, phase = "analyze", code_pos # Len(code), NEW op, op = ByteAt(code, code_pos), NEW o,
         o = block \/ o = BlockAnalysis(Len(instrs))
  PROVE  /\ Account(o, op) \in Blocks
         /\ Account(o, op).gas_cost <= MaxGasCost * (code_pos + 1)
         /\ Account(o, op).gas_cost <= GasInfoMax
  <1>1. /\ code \in Programs /\ Len(code) \in Nat /\ code_pos \in 0 .. Len(code) - 1 /\ op \in Byte /\ Scanning
        /\ Len(instrs) \in Nat /\ block \in Blocks
    BY AtInstruction
  <1>2. o \in Blocks /\ o.gas_cost <= MaxGasCost * code_pos /\ o.gas_cost \in Nat
    <2>1. CASE o = block
      BY <1>1, <2>1 DEF Scanning, Blocks
    <2>2. CASE o = BlockAnalysis(Len(instrs))
      <3>1. o \in Blocks /\ o.gas_cost = 0
        BY <1>1, <2>2, NewBlock
      <3> QED
        BY <1>1, <3>1 DEF MaxGasCost
    <2> QED
      BY <2>1, <2>2
  <1>3. op_gas_cost(op) \in Nat /\ op_gas_cost(op) <= MaxGasCost
    BY <1>1, OpCost
  <1>4. Account(o, op) \in Blocks /\ Account(o, op).gas_cost = o.gas_cost + op_gas_cost(op)
    BY <1>1, <1>2, AccountFacts
  <1>5. Account(o, op).gas_cost <= MaxGasCost * (code_pos + 1)
    BY <1>1, <1>2, <1>3, <1>4 DEF MaxGasCost
  <1>6. MaxGasCost * (code_pos + 1) <= GasInfoMax
    BY <1>1, CostFits
  <1>7. Account(o, op).gas_cost \in Nat /\ MaxGasCost * (code_pos + 1) \in Nat /\ GasInfoMax \in Nat
    BY <1>1, <1>2, <1>3, <1>4, GasInfoMaxAssumption DEF MaxGasCost
  <1> QED
    BY <1>4, <1>5, <1>6, <1>7

(* What the open block of the moment becomes.                              *)
enlarged(op) == IF op = OP_JUMPDEST THEN block ELSE Account(block, op)

(* How an iteration of analyze() changes the table.                        *)
LEMMA AnalyzeGrowth ==
  ASSUME AInv, AnalyzeInstruction, NEW op, op = ByteAt(code, code_pos), NEW i, i = entry(op)
  PROVE  /\ Growth(instrs, block, instrs', block', enlarged(op), i)
         /\ block'.gas_cost <= MaxGasCost * (code_pos + 1)
         /\ StillOpen(instrs', block')
  <1> DEFINE n == Len(instrs)
             bb == enlarged(op)
  <1>1. phase = "analyze" /\ code_pos # Len(code)
    BY DEF AnalyzeInstruction
  <1>2. /\ code \in Programs /\ Len(code) \in Nat /\ code_pos \in 0 .. Len(code) - 1 /\ op \in Byte
        /\ Table(instrs, block) /\ Scanning
        /\ instrs \in Seq(Instructions) /\ n \in Nat /\ n >= 1
        /\ block \in Blocks /\ block.gas_cost <= GasInfoMax /\ block.begin_block_index + 1 \in 1 .. n
    BY <1>1, AtInstruction
  <1>3. opened(op) \in Blocks /\ i \in Instructions /\ i.fn = op /\ i.pos = code_pos /\ OfBlock(i, opened(op)) /\ NewReads(i)
    BY <1>1, EntryFacts
  <1>4. /\ Account(opened(op), op) \in Blocks
        /\ Account(opened(op), op).gas_cost <= MaxGasCost * (code_pos + 1)
        /\ Account(opened(op), op).gas_cost <= GasInfoMax
    BY <1>1, CostGrows DEF opened
  <1>5. /\ BlockAnalysis(n) \in Blocks /\ BlockAnalysis(n).begin_block_index = n /\ BlockAnalysis(n).gas_cost = 0
    BY <1>2, NewBlock
  <1>6. CASE op = OP_JUMPDEST
    <2>1. opened(op) = BlockAnalysis(n) /\ bb = block
      BY <1>6 DEF opened, enlarged
    <2>2. op # OP_JUMPI
      BY <1>6, HeadsReadNoNumber
    <2>3. instrs' = Append(SaveBlock(instrs, block), i) /\ block' = Account(BlockAnalysis(n), op)
      BY <1>6, <2>1, <2>2 DEF AnalyzeInstruction, entry, WithArg, opened
    <2>4. block'.begin_block_index = n
      BY <1>2, <1>5, <2>3, AccountFacts
    <2>5. Added(instrs, block, instrs', block', block, i)
      BY <1>2, <1>3, <2>3, <2>4, SaveThenAdd
    <2>6. Grows(instrs, block, block', block, i)
      BY <1>3, <1>6, <2>1, <2>3 DEF Grows
    <2>7. Growth(instrs, block, instrs', block', block, i)
      BY <1>2, <1>3, <1>4, <2>1, <2>3, <2>5, <2>6 DEF Growth, Undisturbed
    <2>8. StillOpen(instrs', block')
      BY <1>3, <1>6, <2>7, StillOpenGrows
    <2> QED
      BY <1>4, <2>1, <2>3, <2>7, <2>8
  <1>7. CASE op # OP_JUMPDEST
    <2>1. opened(op) = block /\ bb = Account(block, op)
      BY <1>7 DEF opened, enlarged
    <2>2. bb.begin_block_index = block.begin_block_index
      BY <1>2, <2>1, AccountFacts
    <2>3. \A k \in 1 .. n : Ends(instrs, k) => instrs[k].begin # block.begin_block_index
      BY <1>1, <1>7, BlockIsOpen
    <2>4. CASE op = OP_JUMPI
      <3>1. instrs' = SaveBlock(Append(instrs, i), bb) /\ block' = BlockAnalysis(Len(Append(instrs, i)) - 1)
        BY <1>7, <2>1, <2>4 DEF AnalyzeInstruction, entry, WithArg, opened
      <3>2. Len(Append(instrs, i)) - 1 = n
        BY <1>2
      <3>3. block' = BlockAnalysis(n)
        BY <3>1, <3>2
      <3>4. Added(instrs, block, instrs', block', bb, i)
        BY <1>2, <1>3, <1>4, <1>5, <2>1, <2>2, <3>1, <3>3, AddThenSave
      <3>5. Grows(instrs, block, block', bb, i)
        BY <1>3, <1>7, <2>1, <2>4, <3>3 DEF Grows
      <3>6. block'.gas_cost <= GasInfoMax /\ block'.gas_cost <= MaxGasCost * (code_pos + 1)
        BY <1>2, <1>5, <3>3, GasInfoMaxAssumption DEF MaxGasCost
      <3>7. Growth(instrs, block, instrs', block', bb, i)
        BY <1>2, <1>3, <1>4, <2>1, <2>3, <3>4, <3>5, <3>6 DEF Growth, Undisturbed
      <3>8. StillOpen(instrs', block')
        BY <1>3, <2>4, <3>7, StillOpenGrows
      <3> QED
        BY <3>6, <3>7, <3>8
    <2>5. CASE op # OP_JUMPI
      <3>1. instrs' = Append(instrs, i) /\ block' = bb
        BY <1>7, <2>1, <2>5 DEF AnalyzeInstruction, entry, WithArg, opened
      <3>2. Added(instrs, block, instrs', block', bb, i)
        BY <1>2, <1>3, <1>4, <2>1, <2>2, <3>1, AddToBlock
      <3>3. Grows(instrs, block, block', bb, i)
        BY <1>3, <1>7, <2>1, <2>5, <3>1 DEF Grows
      <3>4. Growth(instrs, block, instrs', block', bb, i)
        BY <1>2, <1>3, <1>4, <2>1, <2>3, <3>1, <3>2, <3>3 DEF Growth, Undisturbed
      <3>5. StillOpen(instrs', block')
        BY <2>3, <3>4, StillOpenGrows
      <3> QED
        BY <1>4, <2>1, <3>1, <3>4, <3>5
    <2> QED
      BY <2>4, <2>5
  <1> QED
    BY <1>6, <1>7

(* STOP costs nothing, ends a block and pushes nothing.                    *)
LEMMA StopIsFree ==
  op_gas_cost(OP_STOP) = 0 /\ OP_STOP \notin {OP_JUMPDEST, OP_JUMPI} /\ OP_STOP \in BlockTerminators
  /\ (\A m : ~reads(OP_STOP, m)) /\ OP_STOP \notin GasCorrectedOps /\ Defined(OP_STOP)
  <1>1. 0 \in Byte /\ base_cost(0) = 0
    BY DEF base_cost, Byte, undefined, warm_storage_read_cost, OP_STOP, OP_SSTORE, OP_RETURN, OP_REVERT, OP_INVALID,
           OP_JUMPDEST, EnvPush, OP_SELFBALANCE, OP_POP, AnyPush, OP_PUSH1, OP_PUSH32, AnyDup, OP_DUP1, OP_DUP16,
           AnySwap, OP_SWAP1, OP_SWAP16, OP_ADDMOD, OP_MULMOD, OP_JUMP, OP_EXP, OP_JUMPI, OP_BLOCKHASH,
           OP_KECCAK256, OP_BALANCE, OP_EXTCODESIZE, OP_EXTCODECOPY, OP_EXTCODEHASH, OP_SLOAD, AnyCall, OP_CALL,
           OP_DELEGATECALL, OP_STATICCALL, AnyLog, OP_LOG0, OP_LOG4, AnyCreate, OP_CREATE, OP_CREATE2
  <1>2. gas_costs[OP_STOP] = 0
    BY <1>1 DEF gas_costs, OP_STOP
  <1>3. Defined(OP_STOP)
    BY <1>1, <1>2 DEF Defined, undefined, OP_STOP
  <1>4. OP_STOP \notin {OP_JUMPDEST, OP_JUMPI} /\ OP_STOP \in BlockTerminators
        /\ (\A m : ~reads(OP_STOP, m)) /\ OP_STOP \notin GasCorrectedOps
    BY DEF reads, OP_PUSH8, OP_STOP, OP_JUMPDEST, OP_JUMPI, BlockTerminators, AnyPush, GasCorrectedOps, AnyCall, AnyCreate, OP_PC,
           OP_PUSH1, OP_PUSH32, OP_GAS, OP_SSTORE, OP_CALL, OP_DELEGATECALL, OP_STATICCALL, OP_CREATE, OP_CREATE2
  <1> QED
    BY <1>2, <1>3, <1>4 DEF op_gas_cost

(* A STOP adds nothing to a block.                                         *)
LEMMA StopAddsNothing ==
  ASSUME NEW b \in Blocks, b.stack_change + b.stack_req >= 0, b.stack_change <= b.stack_max_growth
  PROVE  Account(b, OP_STOP) = b
  <1>1. /\ b.stack_req \in Nat /\ b.stack_max_growth \in Nat /\ b.gas_cost \in Nat /\ b.stack_change \in Int
        /\ b = [gas_cost |-> b.gas_cost, stack_req |-> b.stack_req, stack_max_growth |-> b.stack_max_growth,
                stack_change |-> b.stack_change, begin_block_index |-> b.begin_block_index]
    BY DEF Blocks
  <1>2. stack_height_required[OP_STOP] = 0 /\ stack_height_change[OP_STOP] = 0 /\ op_gas_cost(OP_STOP) = 0
    BY NeutralOps, StopIsFree
  <1>3. /\ max(b.stack_req, stack_height_required[OP_STOP] - b.stack_change) = b.stack_req
        /\ b.stack_change + stack_height_change[OP_STOP] = b.stack_change
        /\ max(b.stack_max_growth, b.stack_change + stack_height_change[OP_STOP]) = b.stack_max_growth
        /\ b.gas_cost + op_gas_cost(OP_STOP) = b.gas_cost
    BY <1>1, <1>2 DEF max
  <1> QED
    BY <1>1, <1>3 DEF Account

(* The STOP behind the code, as an entry of the last block.                *)
LEMMA FinishGrowth ==
  ASSUME AInv, FinishAnalysis, NEW i, i = Instruction(OP_STOP, code_pos, block)
  PROVE  /\ Growth(instrs, block, instrs', block, block, i)
         /\ i.fn = OP_STOP /\ i.pos = code_pos
         /\ instrs'[block.begin_block_index + 1].arg = close(block)
  <1> DEFINE n == Len(instrs)
             z == BlockArg(0, 0, 0)
  <1>1. code \in Programs /\ code_pos \in Nat /\ Table(instrs, block)
    BY CodeType DEF AInv, TypeOK
  <1>2. Open(instrs, block) /\ instrs \in Seq(Instructions) /\ n \in Nat /\ n >= 1
    BY <1>1 DEF Table
  <1>3. /\ block \in Blocks /\ block.gas_cost <= GasInfoMax /\ block.begin_block_index + 1 \in 1 .. n
        /\ block.stack_change + block.stack_req >= 0 /\ block.stack_change <= block.stack_max_growth
    BY <1>2 DEF Open
  <1>4. z \in Args
    BY DEF BlockArg, Args, Members
  <1>5. i = [fn |-> OP_STOP, arg |-> z, pos |-> code_pos, begin |-> block.begin_block_index,
             change |-> block.stack_change, cost |-> block.gas_cost]
    BY DEF Instruction
  <1> HIDE DEF z
  <1>6. /\ i.fn = OP_STOP /\ i.pos = code_pos /\ OfBlock(i, block)
    BY <1>5 DEF OfBlock
  <1>7. i \in Instructions
    <2>1. /\ block.begin_block_index \in Nat /\ block.stack_change \in Int /\ block.gas_cost \in Nat
          /\ OP_STOP \in Byte
      BY <1>3, NeutralOps DEF Blocks
    <2>2. [fn |-> OP_STOP, arg |-> z, pos |-> code_pos, begin |-> block.begin_block_index,
           change |-> block.stack_change, cost |-> block.gas_cost] \in Instructions
      BY <1>1, <1>4, <2>1 DEF Instructions
    <2> QED
      BY <1>5, <2>2, Zenon
  <1>8. instrs' = Append(SaveBlock(instrs, block), i)
    BY DEF FinishAnalysis
  <1>9. Added(instrs, block, instrs', block, block, i)
    BY <1>2, <1>3, <1>7, <1>8, SaveThenAdd
  <1>10. Account(block, i.fn) = block
    BY <1>3, <1>6, StopAddsNothing
  <1>11. Grows(instrs, block, block, block, i)
    BY <1>6, <1>10, StopIsFree DEF Grows
  <1>12. NewReads(i)
    BY <1>6, StopIsFree DEF NewReads, Written
  <1>13. Growth(instrs, block, instrs', block, block, i)
    BY <1>1, <1>3, <1>7, <1>9, <1>11, <1>12 DEF Growth, Undisturbed
  <1>14. instrs'[block.begin_block_index + 1].arg = close(block)
    <2> DEFINE sv == SaveBlock(instrs, block)
               j == block.begin_block_index + 1
    <2>1. sv \in Seq(Instructions) /\ Len(sv) = n /\ sv[j].arg = close(block)
      BY <1>2, <1>3, SaveBlockFacts
    <2>2. instrs' = Append(sv, i)
      BY <1>8
    <2> HIDE DEF sv
    <2>3. instrs'[j] = sv[j]
      BY <1>2, <1>3, <2>1, <2>2
    <2> QED
      BY <2>1, <2>3
  <1> QED
    BY <1>6, <1>13, <1>14

(* One instruction is analyzed.                                            *)
LEMMA AnalyzeStep == AInv /\ AnalyzeInstruction => AInv'
  <1> SUFFICES ASSUME AInv, AnalyzeInstruction PROVE AInv'
    OBVIOUS
  <1> DEFINE op == ByteAt(code, code_pos)
             i == entry(op)
             n == Len(instrs)
  <1>1. phase = "analyze" /\ code_pos # Len(code)
    BY DEF AnalyzeInstruction
  <1>2. /\ code \in Programs /\ Len(code) \in Nat /\ code_pos \in 0 .. Len(code) - 1
        /\ code_pos \in InstructionStarts(code) /\ op \in Byte /\ Table(instrs, block) /\ Scanning
        /\ n \in Nat /\ n >= 1
    BY <1>1, AtInstruction
  <1>3. i \in Instructions /\ i.fn = op /\ i.pos = code_pos
    BY <1>1, EntryFacts
  <1>4. /\ Growth(instrs, block, instrs', block', enlarged(op), i)
        /\ block'.gas_cost <= MaxGasCost * (code_pos + 1)
        /\ StillOpen(instrs', block')
    BY AnalyzeGrowth
  <1>5. /\ instrs' \in Seq(Instructions) /\ Len(instrs') = n + 1 /\ instrs'[n + 1] = i /\ block' \in Blocks
    BY <1>4, GrowthTypes
  <1>6. Table(instrs, block)' /\ Prefix(instrs, instrs')
    BY <1>4, TableGrows, PrefixOfGrowth
  <1>7. code_pos' = min(NextPosition(code, code_pos), Len(code))
    BY DEF AnalyzeInstruction, NextPosition
  <1>8. /\ code_pos' \in code_pos + 1 .. Len(code)
        /\ code_pos' = Len(code) \/ code_pos' \in InstructionStarts(code)
    BY <1>2, <1>7, Advance
  <1>9. /\ code' = code /\ instr' = instr /\ stack_top' = stack_top /\ gas_left' = gas_left
        /\ current_block_cost' = current_block_cost /\ status' = status /\ result' = result
        /\ phase' = IF op \in BlockTerminators THEN "skip" ELSE "analyze"
        /\ push_values' \in {push_values, push_values + 1}
        /\ jumpdest_offsets' = IF op = OP_JUMPDEST THEN Append(jumpdest_offsets, code_pos) ELSE jumpdest_offsets
        /\ jumpdest_targets' = IF op = OP_JUMPDEST THEN Append(jumpdest_targets, n) ELSE jumpdest_targets
    BY DEF AnalyzeInstruction, executionVars
  <1>10. TypeOK /\ Layout(instrs, code) /\ push_values <= code_pos
         /\ JumpTables(instrs, code, code_pos, jumpdest_offsets, jumpdest_targets)
         /\ status = SUCCESS /\ result = [status |-> "NONE", gas_left |-> 0]
    BY <1>1 DEF AInv
  <1> HIDE DEF op, i, n
  <1>11. JumpTables(instrs, code, code_pos, jumpdest_offsets, jumpdest_targets)'
    <2>1. CASE op = OP_JUMPDEST
      <3>1. instrs'[n + 1].fn = OP_JUMPDEST /\ instrs'[n + 1].pos = code_pos
        BY <1>3, <1>5, <2>1
      <3>2. JumpTables(instrs', code, code_pos', jumpdest_offsets', jumpdest_targets')
        BY <1>2, <1>5, <1>6, <1>7, <1>9, <1>10, <2>1, <3>1, TablesGrow DEF op, n
      <3> QED
        BY <1>9, <3>2
    <2>2. CASE op # OP_JUMPDEST
      <3>1. JumpTables(instrs', code, code_pos', jumpdest_offsets', jumpdest_targets')
        BY <1>2, <1>6, <1>7, <1>9, <1>10, <2>2, TablesStay DEF op
      <3> QED
        BY <1>9, <3>1
    <2> QED
      BY <2>1, <2>2
  <1>12. Layout(instrs, code)'
    <2>1. Placed(instrs', code, n + 1)
      BY <1>2, <1>3, <1>5 DEF Placed, op
    <2>2. Follows(instrs, code, n, instrs'[n + 1].pos)
      BY <1>2, <1>3, <1>5 DEF Scanning, n
    <2>3. Layout(instrs', code)
      BY <1>2, <1>5, <1>6, <1>10, <2>1, <2>2, LayoutGrows DEF n
    <2> QED
      BY <1>9, <2>3
  <1>13. push_values' \in Nat /\ push_values' <= code_pos'
    <2>1. push_values \in Nat
      BY <1>10 DEF TypeOK
    <2> QED
      BY <1>2, <1>8, <1>9, <1>10, <2>1
  <1>14. TypeOK'
    <2>1. jumpdest_offsets' \in Seq(Nat) /\ jumpdest_targets' \in Seq(Nat)
      BY <1>11 DEF JumpTables
    <2>2. code_pos' \in 0 .. Len(code')
      BY <1>2, <1>8, <1>9
    <2>3. phase' \in {"analyze", "skip"}
      BY <1>9
    <2>4. /\ code' \in Programs /\ instr' \in Nat /\ stack_top' \in Int /\ gas_left' \in Int /\ gas_left' \in Nat
          /\ current_block_cost' \in Nat /\ status' \in StatusCode
          /\ result' \in [status : StatusCode \cup {"NONE"}, gas_left : Nat]
      BY <1>1, <1>9, <1>10 DEF TypeOK
    <2> QED
      BY <1>5, <1>13, <2>1, <2>2, <2>3, <2>4 DEF TypeOK
  <1>15. Scanning'
    <2>1. Follows(instrs', code, n + 1, code_pos')
      BY <1>2, <1>3, <1>5, <1>7 DEF Follows
    <2>2. \A k \in 2 .. n + 1 : instrs'[k].pos < code_pos'
      <3> SUFFICES ASSUME NEW k \in 2 .. n + 1 PROVE instrs'[k].pos < code_pos'
        OBVIOUS
      <3>1. CASE k = n + 1
        BY <1>2, <1>3, <1>5, <1>8, <3>1
      <3>2. CASE k \in 2 .. n
        <4>1. instrs'[k].pos = instrs[k].pos
          BY <1>2, <1>6, <3>2 DEF Prefix, n
        <4>2. instrs[k].pos < code_pos
          BY <1>2, <3>2 DEF Scanning, n
        <4>3. instrs[k].pos \in 0 .. Len(code)
          BY <1>10, <3>2 DEF Layout, Placed, n
        <4> QED
          BY <1>2, <1>8, <4>1, <4>2, <4>3
      <3> QED
        BY <1>2, <3>1, <3>2
    <2>3. block'.gas_cost <= MaxGasCost * code_pos'
      <3>1. block'.gas_cost \in Nat
        BY <1>5 DEF Blocks
      <3> QED
        BY <1>2, <1>4, <1>8, <3>1 DEF MaxGasCost
    <2>4. Len(instrs') <= code_pos' + 1
      <3>1. Len(instrs) <= code_pos + 1 /\ Len(instrs) \in Nat /\ Len(instrs') = Len(instrs) + 1
        BY <1>2, <1>5 DEF Scanning, n
      <3>2. code_pos \in Nat /\ code_pos' \in Nat /\ code_pos + 1 <= code_pos'
        BY <1>2, <1>8
      <3> QED
        BY <3>1, <3>2
    <2>5. phase' = "analyze" => instrs'[n + 1].fn \notin BlockTerminators
      BY <1>3, <1>5, <1>9
    <2>6. phase' = "skip" => instrs'[n + 1].fn \in BlockTerminators
      BY <1>3, <1>5, <1>9
    <2>7. instr' = 0 /\ stack_top' = 0 /\ current_block_cost' = 0
      BY <1>2, <1>9 DEF Scanning
    <2> QED
      BY <1>4, <1>5, <1>8, <1>9, <2>1, <2>2, <2>3, <2>4, <2>5, <2>6, <2>7 DEF Scanning
  <1>16. phase' \in {"analyze", "skip"} /\ status' = SUCCESS /\ result' = [status |-> "NONE", gas_left |-> 0]
    BY <1>9, <1>10
  <1> QED
    BY <1>6, <1>11, <1>12, <1>13, <1>14, <1>15, <1>16 DEF AInv, RefusedBlocksFail, Refused

(* One dead instruction is skipped.                                        *)
LEMMA SkipStep == AInv /\ SkipDeadInstruction => AInv'
  <1> SUFFICES ASSUME AInv, SkipDeadInstruction PROVE AInv'
    OBVIOUS
  <1>1. phase = "skip" /\ code_pos # Len(code) /\ ByteAt(code, code_pos) # OP_JUMPDEST
    BY DEF SkipDeadInstruction
  <1>2. /\ phase' = phase /\ code' = code /\ block' = block /\ instrs' = instrs /\ push_values' = push_values
        /\ jumpdest_offsets' = jumpdest_offsets /\ jumpdest_targets' = jumpdest_targets
        /\ instr' = instr /\ stack_top' = stack_top /\ gas_left' = gas_left
        /\ current_block_cost' = current_block_cost /\ status' = status /\ result' = result
    BY DEF SkipDeadInstruction, executionVars
  <1>3. /\ TypeOK /\ Table(instrs, block) /\ Layout(instrs, code) /\ push_values <= code_pos /\ Scanning
        /\ JumpTables(instrs, code, code_pos, jumpdest_offsets, jumpdest_targets)
        /\ status = SUCCESS /\ result = [status |-> "NONE", gas_left |-> 0]
    BY <1>1 DEF AInv
  <1>4. code \in Programs /\ code_pos \in InstructionStarts(code)
    BY <1>1, <1>3 DEF TypeOK, Scanning
  <1>5. code_pos' = min(NextPosition(code, code_pos), Len(code))
    BY DEF SkipDeadInstruction, NextPosition
  <1>6. /\ code_pos \in 0 .. Len(code) - 1 /\ Len(code) \in Nat
        /\ code_pos' \in code_pos + 1 .. Len(code)
        /\ code_pos' = Len(code) \/ code_pos' \in InstructionStarts(code)
    BY <1>4, <1>5, Advance
  <1>7. Prefix(instrs, instrs)
    BY <1>3 DEF Prefix, Table
  <1>8. JumpTables(instrs, code, code_pos', jumpdest_offsets, jumpdest_targets)
    BY <1>1, <1>3, <1>4, <1>5, <1>7, TablesStay
  <1>9. push_values \in Nat /\ push_values <= code_pos'
    BY <1>3, <1>6 DEF TypeOK
  <1>10. TypeOK'
    <2>1. code_pos' \in 0 .. Len(code)
      BY <1>6
    <2> QED
      BY <1>2, <1>3, <2>1 DEF TypeOK
  <1>11. Scanning'
    <2>1. Follows(instrs, code, Len(instrs), code_pos')
      <3>1. Follows(instrs, code, Len(instrs), code_pos) /\ instrs[Len(instrs)].fn \in BlockTerminators
        BY <1>1, <1>3 DEF Scanning
      <3>2. Len(instrs) # 1
        <4>1. ASSUME Len(instrs) = 1 PROVE FALSE
          <5>1. Belongs(instrs, 1)
            BY <1>3, <4>1 DEF Table
          <5>2. instrs[1].fn = OP_JUMPDEST
            BY <5>1 DEF Belongs
          <5> QED
            BY <3>1, <4>1, <5>2, HeadsReadNoNumber
        <4> QED
          BY <4>1
      <3> QED
        BY <3>1, <3>2 DEF Follows
    <2>2. \A k \in 2 .. Len(instrs) : instrs[k].pos < code_pos'
      <3> SUFFICES ASSUME NEW k \in 2 .. Len(instrs) PROVE instrs[k].pos < code_pos'
        OBVIOUS
      <3>1. instrs[k].pos < code_pos /\ instrs[k].pos \in 0 .. Len(code)
        BY <1>3 DEF Scanning, Layout, Placed
      <3> QED
        BY <1>6, <3>1
    <2>3. block.gas_cost <= MaxGasCost * code_pos' /\ Len(instrs) <= code_pos' + 1
      <3>1. block.gas_cost \in Nat /\ Len(instrs) \in Nat
        BY <1>3 DEF TypeOK, Blocks
      <3>2. block.gas_cost <= MaxGasCost * code_pos /\ Len(instrs) <= code_pos + 1
        BY <1>3 DEF Scanning
      <3> QED
        BY <1>6, <3>1, <3>2 DEF MaxGasCost
    <2> QED
      BY <1>1, <1>2, <1>3, <1>6, <2>1, <2>2, <2>3 DEF Scanning
  <1> QED
    BY <1>1, <1>2, <1>3, <1>8, <1>9, <1>10, <1>11 DEF AInv, RefusedBlocksFail, Refused

(* The dead code ends.                                                     *)
LEMMA SkipEndsStep == AInv /\ SkipEnds => AInv'
  <1> SUFFICES ASSUME AInv, SkipEnds PROVE AInv'
    OBVIOUS
  <1>1. phase = "skip" /\ phase' = "analyze" /\ (code_pos # Len(code) => ByteAt(code, code_pos) = OP_JUMPDEST)
    BY DEF SkipEnds
  <1>2. /\ code' = code /\ code_pos' = code_pos /\ block' = block /\ instrs' = instrs /\ push_values' = push_values
        /\ jumpdest_offsets' = jumpdest_offsets /\ jumpdest_targets' = jumpdest_targets
        /\ instr' = instr /\ stack_top' = stack_top /\ gas_left' = gas_left
        /\ current_block_cost' = current_block_cost /\ status' = status /\ result' = result
    BY DEF SkipEnds, executionVars, analysisVars
  <1>3. /\ TypeOK /\ Table(instrs, block) /\ Layout(instrs, code) /\ push_values <= code_pos /\ Scanning
        /\ JumpTables(instrs, code, code_pos, jumpdest_offsets, jumpdest_targets)
        /\ status = SUCCESS /\ result = [status |-> "NONE", gas_left |-> 0]
    BY <1>1 DEF AInv
  <1>4. TypeOK'
    BY <1>1, <1>2, <1>3 DEF TypeOK
  <1>5. Scanning'
    <2>1. code_pos < Len(code) => ByteAt(code, code_pos) = OP_JUMPDEST
      <3>1. code_pos \in 0 .. Len(code)
        BY <1>3 DEF TypeOK
      <3> QED
        BY <1>1, <3>1
    <2> QED
      BY <1>1, <1>2, <1>3, <2>1 DEF Scanning
  <1> QED
    BY <1>1, <1>2, <1>3, <1>4, <1>5 DEF AInv, RefusedBlocksFail, Refused

(* The analysis is complete and the execution starts.                      *)
LEMMA FinishStep == AInv /\ FinishAnalysis => AInv'
  <1> SUFFICES ASSUME AInv, FinishAnalysis PROVE AInv'
    OBVIOUS
  <1> DEFINE i == Instruction(OP_STOP, code_pos, block)
             n == Len(instrs)
  <1>1. phase = "analyze" /\ phase' = "run" /\ code_pos = Len(code)
    BY DEF FinishAnalysis
  <1>2. /\ code' = code /\ code_pos' = code_pos /\ block' = block /\ push_values' = push_values
        /\ jumpdest_offsets' = jumpdest_offsets /\ jumpdest_targets' = jumpdest_targets
        /\ instr' = instr /\ stack_top' = stack_top /\ gas_left' = gas_left
        /\ current_block_cost' = current_block_cost /\ status' = status /\ result' = result
    BY DEF FinishAnalysis, executionVars
  <1>3. /\ TypeOK /\ Table(instrs, block) /\ Layout(instrs, code) /\ push_values <= code_pos /\ Scanning
        /\ JumpTables(instrs, code, code_pos, jumpdest_offsets, jumpdest_targets)
        /\ status = SUCCESS /\ result = [status |-> "NONE", gas_left |-> 0]
    BY <1>1 DEF AInv
  <1>4. /\ Growth(instrs, block, instrs', block, block, i) /\ i.fn = OP_STOP /\ i.pos = code_pos
        /\ instrs'[block.begin_block_index + 1].arg = close(block)
    BY FinishGrowth
  <1> HIDE DEF i
  <1>5. Table(instrs', block) /\ Prefix(instrs, instrs')
    BY <1>4, TableGrows, PrefixOfGrowth
  <1>6. /\ instrs' \in Seq(Instructions) /\ Len(instrs') = n + 1 /\ instrs'[n + 1] = i /\ n \in Nat /\ n >= 1
    BY <1>4, GrowthTypes
  <1>7. code \in Programs /\ Len(code) \in Nat
    BY <1>3, CodeType DEF TypeOK
  <1> HIDE DEF n
  <1>8. Layout(instrs', code)
    <2>1. Placed(instrs', code, n + 1)
      BY <1>1, <1>4, <1>6, <1>7 DEF Placed
    <2>2. Follows(instrs, code, n, instrs'[n + 1].pos)
      BY <1>3, <1>4, <1>6 DEF Scanning, n
    <2> QED
      BY <1>3, <1>5, <1>6, <2>1, <2>2, LayoutGrows DEF n
  <1>9. JumpTables(instrs', code, code_pos, jumpdest_offsets, jumpdest_targets)
    <2>1. \A k \in 1 .. Len(jumpdest_offsets) :
            Destination(instrs', code, code_pos, jumpdest_offsets[k], jumpdest_targets[k])
      BY <1>1, <1>3, <1>5, <1>7, DestinationStays DEF JumpTables
    <2> QED
      BY <1>3, <2>1 DEF JumpTables
  <1>10. TypeOK'
    BY <1>1, <1>2, <1>3, <1>6 DEF TypeOK
  <1>11. instr = 0 /\ stack_top = 0 /\ n <= code_pos + 1
    BY <1>3 DEF Scanning, n
  <1>12. Complete'
    <2>1. instr' \in 0 .. Len(instrs') - 1 /\ Len(instrs') >= 2 /\ Len(instrs') <= Len(code) + 2
      BY <1>1, <1>2, <1>6, <1>7, <1>11
    <2>2. instrs'[Len(instrs')].fn = OP_STOP
      BY <1>4, <1>6
    <2> QED
      BY <1>1, <1>2, <1>4, <2>1, <2>2 DEF Complete
  <1>13. Running'
    <2>1. (current_fn)' = OP_JUMPDEST
      <3>1. Belongs(instrs', 1)
        BY <1>5, <1>6 DEF Table
      <3>2. instrs'[1].fn = OP_JUMPDEST
        BY <3>1 DEF Belongs
      <3> QED
        BY <1>2, <1>11, <3>2 DEF current_fn, Instr
    <2>2. stack_top' \in 0 .. StackLimit
      BY <1>2, <1>11, StackLimitAssumption
    <2> QED
      BY <2>1, <2>2 DEF Running
  <1> QED
    BY <1>1, <1>2, <1>3, <1>5, <1>8, <1>9, <1>10, <1>12, <1>13 DEF AInv, RefusedBlocksFail, Refused

------------------------------------------------------------------------------
(* The execution keeps the invariant.                                      *)

(* The instruction functions that go on to the next entry.                 *)
ForwardOps == VoidOps \cup ResultOps \cup GasCorrectedOps \cup AnyPush \cup {OP_PC}

(* They are neither beginnings nor ends of blocks.                         *)
LEMMA ForwardOpsFacts ==
  ASSUME NEW op \in ForwardOps
  PROVE  op \notin {OP_JUMPDEST, OP_JUMPI, OP_JUMP} /\ op \notin TermOps /\ op \notin BlockTerminators
  <1> USE DEF OP_JUMPDEST, OP_JUMPI, OP_JUMP, TermOps, BlockTerminators, OP_STOP, OP_INVALID, OP_RETURN, OP_REVERT
  <1>1. CASE op \in VoidOps
    BY <1>1 DEF VoidOps, CodeOps
  <1>2. CASE op \in ResultOps
    BY <1>2 DEF ResultOps, AnyLog, OP_LOG0, OP_LOG4, OP_EXP, OP_KECCAK256, OP_BALANCE, OP_CALLDATACOPY, OP_CODECOPY,
       OP_EXTCODESIZE, OP_EXTCODECOPY, OP_RETURNDATACOPY, OP_EXTCODEHASH, OP_MLOAD, OP_MSTORE, OP_MSTORE8, OP_SLOAD
  <1>3. CASE op \in GasCorrectedOps
    BY <1>3 DEF GasCorrectedOps, AnyCall, AnyCreate, OP_GAS, OP_SSTORE, OP_CALL, OP_DELEGATECALL, OP_STATICCALL,
       OP_CREATE, OP_CREATE2
  <1>4. CASE op \in AnyPush
    BY <1>4 DEF AnyPush, OP_PUSH1, OP_PUSH32
  <1>5. CASE op = OP_PC
    BY <1>5 DEF OP_PC
  <1> QED
    BY <1>1, <1>2, <1>3, <1>4, <1>5 DEF ForwardOps

(* What holds while the execution runs.                                    *)
LEMMA RunFacts ==
  ASSUME AInv, phase = "run"
  PROVE  /\ TypeOK /\ Table(instrs, block) /\ Complete /\ Running
         /\ instrs \in Seq(Instructions) /\ Len(instrs) \in Nat /\ Len(instrs) >= 2
         /\ instr \in 0 .. Len(instrs) - 1 /\ instr + 1 \in 1 .. Len(instrs)
         /\ instrs[instr + 1] \in Instructions /\ Instr(instr) = instrs[instr + 1]
         /\ current_fn = instrs[instr + 1].fn /\ current_fn \in Byte
         /\ gas_left \in Nat /\ stack_top \in 0 .. StackLimit /\ StackLimit \in Nat
         /\ current_block_cost \in Nat
  <1>1. TypeOK /\ Table(instrs, block) /\ Complete /\ Running
    BY DEF AInv
  <1>2. instrs \in Seq(Instructions) /\ Len(instrs) \in Nat /\ Len(instrs) >= 2 /\ instr \in 0 .. Len(instrs) - 1
    BY <1>1 DEF Table, Complete
  <1>3. instr + 1 \in 1 .. Len(instrs)
    BY <1>2
  <1>4. instrs[instr + 1] \in Instructions /\ Instr(instr) = instrs[instr + 1]
    BY <1>2, <1>3 DEF Instr
  <1>5. current_fn = instrs[instr + 1].fn /\ current_fn \in Byte
    BY <1>4 DEF current_fn, Instructions
  <1>6. gas_left \in Nat /\ stack_top \in 0 .. StackLimit /\ StackLimit \in Nat /\ current_block_cost \in Nat
    BY <1>1, StackLimitAssumption DEF TypeOK, Running
  <1> QED
    BY <1>1, <1>2, <1>3, <1>4, <1>5, <1>6

(* In the complete table every block's data is in its place.               *)
LEMMA DataInPlace ==
  ASSUME AInv, phase \in {"run", "exit", "done"}, NEW h \in 0 .. Len(instrs) - 1
  PROVE  Data(instrs, block, h) = Instr(h).arg /\ Instr(h).arg \in Args
  <1>1. Complete /\ instrs \in Seq(Instructions)
    BY DEF AInv, TypeOK
  <1>2. h + 1 \in 1 .. Len(instrs) /\ instrs[h + 1] \in Instructions
    BY <1>1
  <1>3. Instr(h).arg \in Args
    BY <1>2 DEF Instr, Instructions
  <1>4. Data(instrs, block, h) = Instr(h).arg
    BY <1>1 DEF Data, Complete, Instr
  <1> QED
    BY <1>3, <1>4

(* A stack of height t - c at the start of a block, with what the block    *)
(* asks for, is enough for an instruction before which it has changed by c.*)
LEMMA EnoughOnStack ==
  ASSUME NEW t \in Int, NEW c \in Int, NEW limit \in Nat, NEW req \in Nat, NEW growth \in Nat,
         NEW needs \in Nat, NEW change \in Int, t - c >= req, t - c + growth <= limit,
         needs - c <= req, c + change <= growth, change + needs >= 0
  PROVE  t >= needs /\ t + change \in 0 .. limit
  OBVIOUS

(* In the middle of a block what the block was checked for is enough for   *)
(* the instruction that is executed.                                       *)
LEMMA CheckedInstruction ==
  ASSUME AInv, phase = "run", current_fn # OP_JUMPDEST
  PROVE  /\ stack_top >= stack_height_required[current_fn]
         /\ adjusted_top \in 0 .. StackLimit
         /\ current_block_cost = Instr(Instr(instr).begin).arg.gas_cost
         /\ Instr(instr).cost \in Nat
         /\ Instr(instr).cost + op_gas_cost(current_fn) <= current_block_cost
  <1> DEFINE k == instr + 1
             i == instrs[k]
             d == Instr(i.begin).arg
  <1>1. /\ Table(instrs, block) /\ Running /\ k \in 1 .. Len(instrs) /\ Len(instrs) \in Nat
        /\ i \in Instructions /\ Instr(instr) = i /\ current_fn = i.fn /\ i.fn \in Byte
        /\ stack_top \in 0 .. StackLimit /\ StackLimit \in Nat
    BY RunFacts
  <1>2. Belongs(instrs, k) /\ Covers(instrs, k, Data(instrs, block, i.begin))
    BY <1>1 DEF Table
  <1>3. i.begin \in 0 .. Len(instrs) - 1 /\ k # 1
    BY <1>1, <1>2 DEF Belongs
  <1>4. Data(instrs, block, i.begin) = d /\ d \in Args
    BY <1>3, DataInPlace
  <1>5. /\ current_block_cost = d.gas_cost
        /\ stack_top - i.change >= d.stack_req
        /\ stack_top - i.change + d.stack_max_growth <= StackLimit
    BY <1>1 DEF Running, InBlock, base
  <1>6. i.change \in Int /\ i.cost \in Nat
    BY <1>1 DEF Instructions
  <1>7. stack_height_required[i.fn] \in Nat /\ stack_height_change[i.fn] \in Int
        /\ stack_height_change[i.fn] + stack_height_required[i.fn] >= 0 /\ op_gas_cost(i.fn) \in Nat
    BY <1>1, StackTraits, OpCost
  <1>8. cost_of(instrs, k) = op_gas_cost(i.fn)
    BY <1>3 DEF cost_of
  <1> HIDE DEF d, i, k
  <1>9. /\ d.stack_req < StackInfoMax => stack_height_required[i.fn] - i.change <= d.stack_req
        /\ d.stack_max_growth < StackInfoMax => i.change + stack_height_change[i.fn] <= d.stack_max_growth
        /\ i.cost + op_gas_cost(i.fn) <= d.gas_cost
    BY <1>2, <1>4, <1>8 DEF Covers, i
  <1>10. d.stack_req \in Nat /\ d.stack_max_growth \in Nat /\ StackInfoMax \in Nat /\ StackInfoMax > StackLimit
    BY <1>4, StackInfoMaxAssumption DEF Args
  <1>11. d.stack_req < StackInfoMax /\ d.stack_max_growth < StackInfoMax
    BY <1>1, <1>5, <1>6, <1>10, SMTT(60)
  <1>12. stack_top >= stack_height_required[i.fn] /\ stack_top + stack_height_change[i.fn] \in 0 .. StackLimit
    <2>1. stack_top \in Int
      BY <1>1
    <2>2. stack_height_required[i.fn] - i.change <= d.stack_req
          /\ i.change + stack_height_change[i.fn] <= d.stack_max_growth
      BY <1>9, <1>11
    <2> QED
      BY <1>1, <1>5, <1>6, <1>7, <1>10, <2>1, <2>2, EnoughOnStack
  <1> QED
    BY <1>1, <1>5, <1>6, <1>9, <1>12 DEF adjusted_top, d

(* A step of the execution keeps what it does not touch.                   *)
LEMMA ExecutionFrame ==
  ASSUME AInv, phase = "run", UNCHANGED <<analysisVars, result>>, phase' \in {"run", "exit"},
         instr' \in 0 .. Len(instrs) - 1, stack_top' \in Int, gas_left' \in Int, current_block_cost' \in Nat,
         status' \in StatusCode, status' \in {SUCCESS, REVERT} => gas_left' \in Nat,
         phase' = "run" => gas_left' \in Nat /\ status' = SUCCESS /\ Running',
         RefusedBlocksFail'
  PROVE  AInv'
  <1>1. /\ code' = code /\ code_pos' = code_pos /\ block' = block /\ instrs' = instrs /\ push_values' = push_values
        /\ jumpdest_offsets' = jumpdest_offsets /\ jumpdest_targets' = jumpdest_targets /\ result' = result
    BY DEF analysisVars
  <1>2. /\ TypeOK /\ Table(instrs, block) /\ Layout(instrs, code) /\ push_values <= code_pos /\ Complete
        /\ JumpTables(instrs, code, code_pos, jumpdest_offsets, jumpdest_targets)
        /\ result = [status |-> "NONE", gas_left |-> 0]
    BY DEF AInv
  <1>3. TypeOK'
    <2>1. instr' \in Nat
      BY <1>2 DEF TypeOK
    <2> QED
      BY <1>1, <1>2, <2>1 DEF TypeOK
  <1>4. Complete'
    BY <1>1, <1>2 DEF Complete
  <1> QED
    BY <1>1, <1>2, <1>3, <1>4 DEF AInv

(* The current instruction goes on to the next entry.                      *)
LEMMA GotoNextStep ==
  ASSUME AInv, phase = "run", current_fn \in ForwardOps, NEW gas \in Nat, Goto(instr + 1, gas, adjusted_top)
  PROVE  AInv'
  <1> DEFINE k == instr + 1
             i == instrs[k]
             j == instrs[k + 1]
  <1>1. /\ Table(instrs, block) /\ Running /\ Complete /\ k \in 1 .. Len(instrs) /\ Len(instrs) \in Nat
        /\ i \in Instructions /\ Instr(instr) = i /\ current_fn = i.fn /\ i.fn \in Byte
        /\ stack_top \in 0 .. StackLimit /\ StackLimit \in Nat /\ instr \in Nat /\ current_block_cost \in Nat
        /\ instrs \in Seq(Instructions) /\ TypeOK
    BY RunFacts
  <1>2. current_fn \notin {OP_JUMPDEST, OP_JUMPI, OP_JUMP} /\ current_fn \notin TermOps
    BY ForwardOpsFacts
  <1>3. k # Len(instrs)
    BY <1>1, <1>2 DEF Complete, TermOps
  <1>4. k \in 1 .. Len(instrs) - 1 /\ k + 1 \in 1 .. Len(instrs) /\ k \in 0 .. Len(instrs) - 1
    BY <1>1, <1>3
  <1>5. /\ instr' = k /\ gas_left' = gas /\ stack_top' = adjusted_top /\ phase' = phase
        /\ current_block_cost' = current_block_cost /\ status' = status /\ result' = result
        /\ UNCHANGED analysisVars /\ instrs' = instrs
    BY DEF Goto, analysisVars
  <1>6. adjusted_top \in 0 .. StackLimit /\ adjusted_top = stack_top + stack_height_change[i.fn]
        /\ stack_height_change[i.fn] \in Int
    BY <1>1, <1>2, CheckedInstruction, StackTraits DEF adjusted_top
  <1>7. (current_fn)' = j.fn /\ (Instr(instr))' = j
    BY <1>5 DEF current_fn, Instr
  <1>8. j \in Instructions
    BY <1>1, <1>4
  <1>9. Running'
    <2>1. CASE j.fn = OP_JUMPDEST
      BY <1>5, <1>6, <1>7, <2>1 DEF Running
    <2>2. CASE j.fn # OP_JUMPDEST
      <3>1. Chained(instrs, k)
        BY <1>1, <1>4 DEF Table
      <3>2. Joins(instrs, k, j.begin, j.change, j.cost)
        BY <2>2, <3>1 DEF Chained
      <3>3. j.begin = i.begin /\ j.change = i.change + stack_height_change[i.fn]
        BY <1>1, <1>2, <3>2 DEF Joins
      <3> DEFINE d == Instr(i.begin).arg
      <3>4. /\ current_block_cost = d.gas_cost /\ stack_top - i.change >= d.stack_req
            /\ stack_top - i.change + d.stack_max_growth <= StackLimit
        BY <1>1, <1>2 DEF Running, InBlock, base
      <3>5. (Instr(Instr(instr).begin))' = Instr(i.begin)
        BY <1>5, <1>7, <3>3 DEF Instr
      <3>6. stack_top' - j.change = stack_top - i.change
        <4>1. i.change \in Int
          BY <1>1 DEF Instructions
        <4> HIDE DEF i, j
        <4> QED
          BY <1>1, <1>5, <1>6, <3>3, <4>1, SMTT(60)
      <3> HIDE DEF d, i, j, k
      <3>7. InBlock'
        <4>1. (Instr(Instr(instr).begin).arg)' = d /\ (base)' = stack_top - i.change
          BY <1>7, <3>5, <3>6 DEF base, d
        <4> QED
          BY <1>5, <3>4, <4>1 DEF InBlock
      <3> QED
        BY <1>5, <1>6, <3>7 DEF Running
    <2> QED
      BY <2>1, <2>2
  <1>10. status = SUCCESS
    BY DEF AInv
  <1>11. RefusedBlocksFail'
    BY <1>5 DEF RefusedBlocksFail, Refused
  <1>12. SUCCESS \in StatusCode /\ adjusted_top \in Int /\ gas \in Int
    BY <1>6 DEF StatusCode
  <1> HIDE DEF k, i, j
  <1> QED
    BY <1>4, <1>5, <1>9, <1>10, <1>11, <1>12, <1>1, ExecutionFrame

(* The execution ends at an instruction, not because a block is refused.   *)
LEMMA ExitStep ==
  ASSUME AInv, phase = "run", NEW st \in StatusCode, NEW g \in Int, NEW top \in Int, Exit(st, g, top),
         st \in {SUCCESS, REVERT} => g \in Nat, st \notin {"STACK_UNDERFLOW", "STACK_OVERFLOW"},
         st = "OUT_OF_GAS" => current_fn \notin {OP_JUMPDEST, OP_JUMPI}
  PROVE  AInv' /\ ~Refused'
  <1>1. /\ phase' = "exit" /\ status' = st /\ gas_left' = g /\ stack_top' = top /\ UNCHANGED analysisVars
        /\ instr' = instr /\ current_block_cost' = current_block_cost /\ result' = result /\ instrs' = instrs
    BY DEF Exit, analysisVars
  <1>2. (current_fn)' = current_fn
    BY <1>1 DEF current_fn, Instr
  <1>3. ~Refused'
    BY <1>1, <1>2 DEF Refused
  <1>4. RefusedBlocksFail'
    BY <1>3 DEF RefusedBlocksFail
  <1>5. instr \in 0 .. Len(instrs) - 1 /\ current_block_cost \in Nat
    BY RunFacts
  <1>6. AInv'
    BY <1>1, <1>4, <1>5, ExecutionFrame
  <1> QED
    BY <1>3, <1>6

(* A block is refused: some instruction of it could not be executed.       *)
LEMMA RefusedStep ==
  ASSUME AInv, phase = "run", current_fn \in {OP_JUMPDEST, OP_JUMPI}, NEW top \in 0 .. StackLimit,
         NEW st, NEW g, g = gas_left - Instr(instr).arg.gas_cost, Exit(st, g, top),
         \/ st = "OUT_OF_GAS" /\ g < 0
         \/ st = "STACK_UNDERFLOW" /\ top < Instr(instr).arg.stack_req
         \/ st = "STACK_OVERFLOW" /\ top + Instr(instr).arg.stack_max_growth > StackLimit
  PROVE  AInv' /\ Refused'
  <1> DEFINE d == Instr(instr).arg
  <1>1. /\ phase' = "exit" /\ status' = st /\ gas_left' = g /\ stack_top' = top /\ UNCHANGED analysisVars
        /\ instr' = instr /\ current_block_cost' = current_block_cost /\ result' = result /\ instrs' = instrs
    BY DEF Exit, analysisVars
  <1>2. /\ Table(instrs, block) /\ instrs \in Seq(Instructions) /\ Len(instrs) \in Nat
        /\ instr \in 0 .. Len(instrs) - 1 /\ current_block_cost \in Nat
        /\ current_fn = instrs[instr + 1].fn /\ gas_left \in Nat /\ StackLimit \in Nat
    BY RunFacts
  <1>3. Data(instrs, block, instr) = d /\ d \in Args
    BY <1>2, DataInPlace
  <1>4. d.gas_cost \in Nat /\ d.stack_req \in Nat /\ d.stack_max_growth \in Nat
    BY <1>3 DEF Args
  <1>5. Tight(instrs, instr, d)
    BY <1>2, <1>3 DEF Table
  <1> HIDE DEF d
  <1>6. g = gas_left - d.gas_cost /\ g \in Int /\ top \in Int /\ top >= 0 /\ top <= StackLimit
    BY <1>2, <1>4 DEF d
  <1>7. ASSUME NEW k \in 2 .. Len(instrs)
        PROVE  /\ k - 1 \in 1 .. Len(instrs) - 1 /\ Instr(k - 1) = instrs[k]
               /\ instrs[k].change \in Int /\ instrs[k].cost \in Nat
               /\ stack_height_required[instrs[k].fn] \in Nat /\ stack_height_change[instrs[k].fn] \in Int
               /\ op_gas_cost(instrs[k].fn) \in Nat
    <2>1. k - 1 \in 1 .. Len(instrs) - 1 /\ (k - 1) + 1 = k /\ instrs[k] \in Instructions
      BY <1>2
    <2>2. instrs[k].fn \in Byte /\ instrs[k].change \in Int /\ instrs[k].cost \in Nat
      BY <2>1 DEF Instructions
    <2> QED
      BY <2>1, <2>2, StackTraits, OpCost DEF Instr
  <1>8. (current_fn)' = current_fn /\ \A k : Instr(k)' = Instr(k)
    BY <1>1 DEF current_fn, Instr
  <1>9. Refused'
    BY <1>1, <1>8 DEF Refused
  <1>10. CASE st = "OUT_OF_GAS" /\ g < 0
    <2>1. d.gas_cost > 0
      BY <1>2, <1>4, <1>6, <1>10
    <2>2. PICK k \in 2 .. Len(instrs) : NeedsGas(instrs, instr, k, d.gas_cost)
      BY <1>5, <2>1 DEF Tight
    <2>3. instrs[k].begin = instr /\ instrs[k].cost + op_gas_cost(instrs[k].fn) >= d.gas_cost
      BY <2>2 DEF NeedsGas
    <2>4. g + d.gas_cost < instrs[k].cost + op_gas_cost(instrs[k].fn)
      BY <1>4, <1>6, <1>7, <1>10, <2>3, SMTT(60)
    <2>5. RefusedBlocksFail'
      <3> DEFINE m == k - 1
      <3>1. m \in 1 .. Len(instrs') - 1 /\ Instr(m)' = instrs[k] /\ (Instr(instr).arg)' = d
        BY <1>1, <1>7, <1>8 DEF d, Instr
      <3> HIDE DEF m
      <3> QED
        BY <1>1, <1>10, <2>3, <2>4, <3>1 DEF RefusedBlocksFail
    <2>6. st \in StatusCode /\ st \notin {SUCCESS, REVERT}
      BY <1>10 DEF StatusCode, FAILURES, SUCCESS, REVERT
    <2> QED
      BY <1>1, <1>2, <1>6, <1>9, <2>5, <2>6, ExecutionFrame
  <1>11. CASE st = "STACK_UNDERFLOW" /\ top < d.stack_req
    <2>1. d.stack_req > 0
      BY <1>4, <1>6, <1>11
    <2>2. PICK k \in 2 .. Len(instrs) : NeedsItems(instrs, instr, k, d.stack_req)
      BY <1>5, <2>1 DEF Tight
    <2>3. instrs[k].begin = instr /\ stack_height_required[instrs[k].fn] - instrs[k].change >= d.stack_req
      BY <2>2 DEF NeedsItems
    <2>4. top + instrs[k].change < stack_height_required[instrs[k].fn]
      BY <1>4, <1>6, <1>7, <1>11, <2>3, SMTT(60)
    <2>5. RefusedBlocksFail'
      <3> DEFINE m == k - 1
      <3>1. m \in 1 .. Len(instrs') - 1 /\ Instr(m)' = instrs[k]
        BY <1>1, <1>7, <1>8
      <3> HIDE DEF m
      <3> QED
        BY <1>1, <1>11, <2>3, <2>4, <3>1 DEF RefusedBlocksFail
    <2>6. st \in StatusCode /\ st \notin {SUCCESS, REVERT}
      BY <1>11 DEF StatusCode, FAILURES, SUCCESS, REVERT
    <2> QED
      BY <1>1, <1>2, <1>6, <1>9, <2>5, <2>6, ExecutionFrame
  <1>12. CASE st = "STACK_OVERFLOW" /\ top + d.stack_max_growth > StackLimit
    <2>1. d.stack_max_growth > 0
      BY <1>2, <1>4, <1>6, <1>12
    <2>2. PICK k \in 2 .. Len(instrs) : NeedsRoom(instrs, instr, k, d.stack_max_growth)
      BY <1>5, <2>1 DEF Tight
    <2>3. instrs[k].begin = instr
          /\ instrs[k].change + stack_height_change[instrs[k].fn] >= d.stack_max_growth
      BY <2>2 DEF NeedsRoom
    <2>4. top + instrs[k].change + stack_height_change[instrs[k].fn] > StackLimit
      <3> DEFINE c == instrs[k].change
                 e == stack_height_change[instrs[k].fn]
      <3>1. c \in Int /\ e \in Int /\ c + e >= d.stack_max_growth
        BY <1>7, <2>3
      <3> HIDE DEF c, e
      <3>2. top + c + e > StackLimit
        BY <1>2, <1>4, <1>6, <1>12, <3>1
      <3> QED
        BY <3>2 DEF c, e
    <2>5. RefusedBlocksFail'
      <3> DEFINE m == k - 1
      <3>1. m \in 1 .. Len(instrs') - 1 /\ Instr(m)' = instrs[k]
        BY <1>1, <1>7, <1>8
      <3> HIDE DEF m
      <3> QED
        BY <1>1, <1>12, <2>3, <2>4, <3>1 DEF RefusedBlocksFail
    <2>6. st \in StatusCode /\ st \notin {SUCCESS, REVERT}
      BY <1>12 DEF StatusCode, FAILURES, SUCCESS, REVERT
    <2> QED
      BY <1>1, <1>2, <1>6, <1>9, <2>5, <2>6, ExecutionFrame
  <1> QED
    BY <1>10, <1>11, <1>12 DEF d

(* The outcomes of the check of a block.                                   *)
EnterBlock(top) ==
  LET d == Instr(instr).arg IN
    /\ gas_left - d.gas_cost >= 0
    /\ top >= d.stack_req
    /\ top + d.stack_max_growth <= StackLimit
    /\ instr' = instr + 1
    /\ gas_left' = gas_left - d.gas_cost
    /\ stack_top' = top
    /\ current_block_cost' = d.gas_cost
    /\ UNCHANGED <<phase, analysisVars, status, result>>

(* A block is refused or entered.                                          *)
LEMMA BeginblockCases ==
  ASSUME AInv, phase = "run", NEW top \in 0 .. StackLimit, beginblock(top)
  PROVE  \/ EnterBlock(top)
         \/ \E st : /\ Exit(st, gas_left - Instr(instr).arg.gas_cost, top)
                    /\ \/ st = "OUT_OF_GAS" /\ gas_left - Instr(instr).arg.gas_cost < 0
                       \/ st = "STACK_UNDERFLOW" /\ top < Instr(instr).arg.stack_req
                       \/ st = "STACK_OVERFLOW" /\ top + Instr(instr).arg.stack_max_growth > StackLimit
  <1> DEFINE d == Instr(instr).arg
             g == gas_left - d.gas_cost
  <1>1. instr \in 0 .. Len(instrs) - 1 /\ gas_left \in Nat /\ StackLimit \in Nat
    BY RunFacts
  <1>2. d \in Args
    BY <1>1, DataInPlace
  <1>3. d.gas_cost \in Nat /\ d.stack_req \in Nat /\ d.stack_max_growth \in Nat
    BY <1>2 DEF Args
  <1>4. g \in Int /\ top \in Int
    BY <1>1, <1>3
  <1>5. CASE g < 0
    <2>1. ~(g >= 0)
      BY <1>4, <1>5
    <2>2. Exit("OUT_OF_GAS", g, top)
      BY <1>5, <2>1 DEF beginblock
    <2> QED
      BY <1>5, <2>2
  <1>6. CASE ~(g < 0) /\ top < d.stack_req
    <2>1. g >= 0 /\ ~(top >= d.stack_req)
      BY <1>3, <1>4, <1>6
    <2>2. Exit("STACK_UNDERFLOW", g, top)
      BY <1>6, <2>1 DEF beginblock
    <2> QED
      BY <1>6, <2>2
  <1>7. CASE ~(g < 0) /\ ~(top < d.stack_req) /\ top + d.stack_max_growth > StackLimit
    <2>1. g >= 0 /\ top >= d.stack_req
      BY <1>3, <1>4, <1>7
    <2>2. Exit("STACK_OVERFLOW", g, top)
      BY <1>7, <2>1 DEF beginblock
    <2> QED
      BY <1>7, <2>2
  <1>8. CASE ~(g < 0) /\ ~(top < d.stack_req) /\ ~(top + d.stack_max_growth > StackLimit)
    <2>1. g >= 0 /\ top >= d.stack_req /\ top + d.stack_max_growth <= StackLimit
      BY <1>1, <1>3, <1>4, <1>8, SMTT(60)
    <2>2. /\ instr' = instr + 1 /\ gas_left' = g /\ stack_top' = top /\ current_block_cost' = d.gas_cost
          /\ UNCHANGED <<phase, analysisVars, status, result>>
      BY <1>8, <2>1 DEF beginblock
    <2> QED
      BY <2>1, <2>2 DEF EnterBlock
  <1> QED
    BY <1>5, <1>6, <1>7, <1>8

(* A block is entered: its first instruction finds what it was checked for.*)
LEMMA EnterStep ==
  ASSUME AInv, phase = "run", current_fn \in {OP_JUMPDEST, OP_JUMPI}, NEW top \in 0 .. StackLimit, EnterBlock(top)
  PROVE  AInv'
  <1> DEFINE k == instr + 1
             i == instrs[k]
             j == instrs[k + 1]
             d == Instr(instr).arg
  <1>1. /\ Table(instrs, block) /\ Complete /\ k \in 1 .. Len(instrs) /\ Len(instrs) \in Nat
        /\ i \in Instructions /\ Instr(instr) = i /\ current_fn = i.fn /\ instr \in 0 .. Len(instrs) - 1
        /\ gas_left \in Nat /\ StackLimit \in Nat /\ instrs \in Seq(Instructions)
    BY RunFacts
  <1>2. k # Len(instrs)
    BY <1>1, StopIsFree DEF Complete
  <1>3. k \in 1 .. Len(instrs) - 1 /\ k + 1 \in 1 .. Len(instrs) /\ k \in 0 .. Len(instrs) - 1
    BY <1>1, <1>2
  <1>4. /\ gas_left - d.gas_cost >= 0 /\ top >= d.stack_req /\ top + d.stack_max_growth <= StackLimit
        /\ instr' = k /\ gas_left' = gas_left - d.gas_cost /\ stack_top' = top
        /\ current_block_cost' = d.gas_cost /\ phase' = phase /\ status' = status /\ result' = result
        /\ UNCHANGED analysisVars /\ instrs' = instrs
    BY DEF EnterBlock, analysisVars
  <1>5. d \in Args
    BY <1>1, DataInPlace
  <1>6. d.gas_cost \in Nat /\ d.stack_req \in Nat /\ d.stack_max_growth \in Nat
    BY <1>5 DEF Args
  <1>7. (current_fn)' = j.fn /\ (Instr(instr))' = j
    BY <1>4 DEF current_fn, Instr
  <1>8. Running'
    <2>1. CASE j.fn = OP_JUMPDEST
      BY <1>4, <1>7, <2>1 DEF Running
    <2>2. CASE j.fn # OP_JUMPDEST
      <3>1. Chained(instrs, k) /\ Belongs(instrs, k)
        BY <1>1, <1>3 DEF Table
      <3>2. Joins(instrs, k, j.begin, j.change, j.cost)
        BY <2>2, <3>1 DEF Chained
      <3>3. j.begin = instr /\ j.change = 0
        <4>1. k - 1 = instr
          BY <1>1
        <4>2. CASE current_fn = OP_JUMPI
          BY <1>1, <3>2, <4>1, <4>2 DEF Joins
        <4>3. CASE current_fn = OP_JUMPDEST
          <5>1. i.begin = k - 1 /\ i.change = 0
            BY <1>1, <3>1, <4>3 DEF Belongs
          <5>2. j.begin = i.begin /\ j.change = i.change + stack_height_change[OP_JUMPDEST]
            BY <1>1, <3>2, <4>3, HeadsReadNoNumber DEF Joins
          <5> QED
            BY <4>1, <5>1, <5>2, NeutralOps
        <4> QED
          BY <4>2, <4>3
      <3>4. (Instr(Instr(instr).begin).arg)' = d
        BY <1>4, <1>7, <3>3 DEF Instr
      <3>5. (base)' = top
        BY <1>4, <1>7, <3>3 DEF base
      <3> HIDE DEF d, i, j, k
      <3>6. InBlock'
        BY <1>4, <3>4, <3>5 DEF InBlock
      <3> QED
        BY <1>4, <3>6 DEF Running
    <2> QED
      BY <2>1, <2>2
  <1>9. status = SUCCESS /\ SUCCESS \in StatusCode
    BY DEF AInv, StatusCode
  <1>10. RefusedBlocksFail'
    BY <1>4 DEF RefusedBlocksFail, Refused
  <1> HIDE DEF k, i, j, d
  <1>11. gas_left' \in Nat /\ gas_left' \in Int /\ stack_top' \in Int /\ current_block_cost' \in Nat
    BY <1>1, <1>4, <1>6
  <1> QED
    BY <1>3, <1>4, <1>8, <1>9, <1>10, <1>11, ExecutionFrame

(* The beginning of a block.                                               *)
LEMMA BeginblockStep ==
  ASSUME AInv, phase = "run", current_fn \in {OP_JUMPDEST, OP_JUMPI}, NEW top \in 0 .. StackLimit, beginblock(top)
  PROVE  AInv'
  <1>1. CASE EnterBlock(top)
    BY <1>1, EnterStep
  <1>2. ASSUME NEW st, Exit(st, gas_left - Instr(instr).arg.gas_cost, top),
               \/ st = "OUT_OF_GAS" /\ gas_left - Instr(instr).arg.gas_cost < 0
               \/ st = "STACK_UNDERFLOW" /\ top < Instr(instr).arg.stack_req
               \/ st = "STACK_OVERFLOW" /\ top + Instr(instr).arg.stack_max_growth > StackLimit
        PROVE  AInv'
    BY <1>2, RefusedStep
  <1> QED
    BY <1>1, <1>2, BeginblockCases

(* Every nonempty set of numbers has a least one.                          *)
LEMMA LeastNumber ==
  ASSUME NEW S, S \subseteq Nat, S # {}
  PROVE  \E x \in S : \A y \in S : x <= y
  <1>1. PICK x \in S : \A y \in S : ~(<<y, x>> \in OpToRel(<, Nat))
    <2> DEFINE R == OpToRel(<, Nat)
    <2>1. IsWellFoundedOn(R, Nat)
      BY NatLessThanWellFounded
    <2> HIDE DEF R
    <2>2. \E x \in S : \A y \in S : ~(<<y, x>> \in R)
      BY <2>1, WFMin
    <2> QED
      BY <2>2 DEF R
  <1>2. ASSUME NEW y \in S PROVE x <= y
    <2>1. <<y, x>> \notin OpToRel(<, Nat)
      BY <1>1
    <2>2. ~(y < x)
      BY <2>1 DEF OpToRel
    <2> QED
      BY <2>2
  <1> QED
    BY <1>2

(* find_jumpdest(): a destination that is found is a BEGINBLOCK.           *)
LEMMA FindFacts ==
  ASSUME AInv, NEW dst, find_jumpdest(dst) # -1
  PROVE  /\ \E k \in 1 .. Len(jumpdest_offsets) : jumpdest_offsets[k] = dst /\ jumpdest_targets[k] = find_jumpdest(dst)
         /\ find_jumpdest(dst) \in 1 .. Len(instrs) - 1
         /\ Instr(find_jumpdest(dst)).fn = OP_JUMPDEST
         /\ Instr(find_jumpdest(dst)).pos = dst
         /\ dst \in JumpDests(code) /\ dst < code_pos
  <1> DEFINE S == {k \in DOMAIN jumpdest_offsets : jumpdest_offsets[k] >= dst}
             first == CHOOSE k \in S : \A j \in S : k <= j
  <1>1. JumpTables(instrs, code, code_pos, jumpdest_offsets, jumpdest_targets)
    BY DEF AInv
  <1>2. jumpdest_offsets \in Seq(Nat)
    BY <1>1 DEF JumpTables
  <1>3. S # {} /\ jumpdest_offsets[first] = dst /\ find_jumpdest(dst) = jumpdest_targets[first]
    BY DEF find_jumpdest
  <1>4. S \subseteq Nat
    BY <1>2
  <1>5. \E k \in S : \A j \in S : k <= j
    <2> HIDE DEF S
    <2> QED
      BY <1>3, <1>4, LeastNumber
  <1>6. first \in S
    <2> HIDE DEF S
    <2> QED
      BY <1>5
  <1>7. first \in 1 .. Len(jumpdest_offsets)
    BY <1>2, <1>6
  <1> HIDE DEF first, S
  <1>8. Destination(instrs, code, code_pos, jumpdest_offsets[first], jumpdest_targets[first])
    BY <1>1, <1>7 DEF JumpTables
  <1> QED
    BY <1>3, <1>7, <1>8 DEF Destination, Instr

(* What the contract of a core function says of its outcome.               *)
LEMMA ResultTypes ==
  ASSUME NEW g \in Nat, NEW r \in ResultOutcomes(g)
  PROVE  /\ r.status \in StatusCode /\ r.gas_left \in Int /\ r.gas_left <= g
         /\ r.status \in {SUCCESS, REVERT} => r.gas_left \in Nat
         /\ r.status \notin {"STACK_UNDERFLOW", "STACK_OVERFLOW"}
         /\ r.status # REVERT
  BY MaxDebtAssumption DEF ResultOutcomes, FailedOutcomes, SUCCESS, REVERT, StatusCode, FAILURES

(* What the contract of a terminating core function says.                  *)
LEMMA TermTypes ==
  ASSUME NEW op, NEW g \in Nat, NEW r \in TermOutcomes(op, g)
  PROVE  /\ r.status \in StatusCode /\ r.gas_left \in Int /\ r.gas_left <= g
         /\ r.status \in {SUCCESS, REVERT} => r.gas_left \in Nat
         /\ r.status \notin {"STACK_UNDERFLOW", "STACK_OVERFLOW"}
  <1> USE MaxDebtAssumption DEF FailedOutcomes, SUCCESS, REVERT, StatusCode, FAILURES
  <1>1. CASE op = OP_STOP
    BY <1>1 DEF TermOutcomes
  <1>2. CASE op = OP_INVALID
    BY <1>2 DEF TermOutcomes, OP_STOP, OP_INVALID
  <1>3. CASE op = OP_RETURN
    BY <1>3 DEF TermOutcomes, OP_STOP, OP_INVALID, OP_RETURN
  <1>4. CASE op \notin {OP_STOP, OP_INVALID, OP_RETURN}
    BY <1>4 DEF TermOutcomes
  <1> QED
    BY <1>1, <1>2, <1>3, <1>4

(* The heads of blocks and the jumps are no terminating functions.         *)
LEMMA TermIsNoHead ==
  /\ OP_JUMPDEST \notin TermOps /\ OP_JUMPI \notin TermOps /\ OP_JUMP \notin TermOps
  /\ OP_JUMP \notin {OP_JUMPDEST, OP_JUMPI} /\ OP_JUMPDEST # OP_JUMPI
  /\ OP_JUMPDEST \in Byte /\ Defined(OP_JUMPDEST)
  <1>1. OP_JUMPDEST \in Byte /\ Defined(OP_JUMPDEST)
    <2>1. OP_JUMPDEST \in Byte
      BY DEF Byte, OP_JUMPDEST
    <2>2. base_cost(91) = 1
      BY DEF base_cost, OP_STOP, OP_SSTORE, OP_JUMPDEST, OP_RETURN, OP_REVERT, OP_INVALID, EnvPush, OP_SELFBALANCE,
         OP_POP, AnyPush, AnyDup, AnySwap, OP_PUSH1, OP_PUSH32, OP_DUP1, OP_DUP16, OP_SWAP1, OP_SWAP16, OP_ADDMOD,
         OP_MULMOD, OP_JUMP, OP_EXP, OP_JUMPI, OP_BLOCKHASH, OP_KECCAK256, OP_BALANCE, OP_EXTCODESIZE,
         OP_EXTCODECOPY, OP_EXTCODEHASH, OP_SLOAD, AnyCall, OP_CALL, OP_DELEGATECALL, OP_STATICCALL, AnyLog, OP_LOG0,
         OP_LOG4, AnyCreate, OP_CREATE, OP_CREATE2
    <2> QED
      BY <2>1, <2>2 DEF Defined, gas_costs, undefined, OP_JUMPDEST
  <1> QED
    BY <1>1 DEF TermOps, OP_JUMPDEST, OP_JUMPI, OP_JUMP, OP_STOP, OP_INVALID, OP_RETURN, OP_REVERT

(* A jump lands on a BEGINBLOCK or ends the execution.                     *)
LEMMA JumpStep ==
  ASSUME AInv, phase = "run", current_fn \in {OP_JUMP, OP_JUMPI}, NEW dst \in Words, JumpTo(dst, adjusted_top)
  PROVE  AInv'
  <1>1. /\ instr \in 0 .. Len(instrs) - 1 /\ Len(instrs) \in Nat /\ gas_left \in Nat /\ StackLimit \in Nat
        /\ current_block_cost \in Nat /\ status = SUCCESS
    BY RunFacts DEF AInv
  <1>2. adjusted_top \in 0 .. StackLimit
    BY CheckedInstruction, TermIsNoHead
  <1>3. CASE find_jumpdest(dst) = -1
    <2>1. Exit("BAD_JUMP_DESTINATION", gas_left, adjusted_top)
      BY <1>3 DEF JumpTo
    <2>2. "BAD_JUMP_DESTINATION" \in StatusCode /\ adjusted_top \in Int /\ gas_left \in Int
      BY <1>1, <1>2 DEF StatusCode, FAILURES
    <2> QED
      BY <1>1, <2>1, <2>2, ExitStep
  <1>4. CASE find_jumpdest(dst) # -1
    <2> DEFINE t == find_jumpdest(dst)
    <2>1. t \in 1 .. Len(instrs) - 1 /\ Instr(t).fn = OP_JUMPDEST
      BY <1>4, FindFacts
    <2>2. ~(t < 0)
      BY <1>1, <2>1
    <2>3. Goto(t, gas_left, adjusted_top)
      BY <2>2 DEF JumpTo
    <2> HIDE DEF t
    <2>4. /\ instr' = t /\ gas_left' = gas_left /\ stack_top' = adjusted_top /\ phase' = phase
          /\ current_block_cost' = current_block_cost /\ status' = status /\ result' = result
          /\ UNCHANGED analysisVars /\ instrs' = instrs
      BY <2>3 DEF Goto, analysisVars
    <2>5. (current_fn)' = OP_JUMPDEST
      BY <2>1, <2>4 DEF current_fn, Instr
    <2>6. Running'
      BY <1>2, <2>4, <2>5 DEF Running
    <2>7. RefusedBlocksFail'
      BY <2>4 DEF RefusedBlocksFail, Refused
    <2>8. SUCCESS \in StatusCode /\ adjusted_top \in Int /\ t \in 0 .. Len(instrs) - 1
      BY <1>1, <1>2, <2>1 DEF StatusCode
    <2> QED
      BY <1>1, <2>4, <2>6, <2>7, <2>8, ExecutionFrame
  <1> QED
    BY <1>3, <1>4

(* The gas correction is what the rest of the block costs.                 *)
LEMMA CorrectionFacts ==
  ASSUME AInv, phase = "run", current_fn \in GasCorrectedOps
  PROVE  /\ current_block_cost = Instr(Instr(instr).begin).arg.gas_cost
         /\ gas_left_correction \in 0 .. current_block_cost
         /\ gas_left_correction = current_block_cost - (Instr(instr).cost + op_gas_cost(current_fn))
         /\ op_gas_cost(current_fn) \in Nat
  <1>1. current_fn \in ForwardOps
    BY DEF ForwardOps
  <1>2. current_fn # OP_JUMPDEST
    BY <1>1, ForwardOpsFacts
  <1>3. /\ current_block_cost = Instr(Instr(instr).begin).arg.gas_cost
        /\ Instr(instr).cost \in Nat
        /\ Instr(instr).cost + op_gas_cost(current_fn) <= current_block_cost
    BY <1>2, CheckedInstruction
  <1>4. /\ Table(instrs, block) /\ instr + 1 \in 1 .. Len(instrs) /\ Instr(instr) = instrs[instr + 1]
        /\ current_fn = instrs[instr + 1].fn /\ current_fn \in Byte /\ current_block_cost \in Nat
    BY RunFacts
  <1>5. Reads(instrs, instr + 1)
    BY <1>4 DEF Table
  <1>6. Instr(instr).arg.value = Instr(instr).cost + op_gas_cost(current_fn)
    BY <1>4, <1>5 DEF Reads
  <1>7. op_gas_cost(current_fn) \in Nat
    BY <1>4, OpCost
  <1>8. gas_left_correction = current_block_cost - (Instr(instr).cost + op_gas_cost(current_fn))
    BY <1>6 DEF gas_left_correction
  <1> QED
    BY <1>3, <1>4, <1>7, <1>8, SMTT(60)

(* An instruction that only goes on.                                       *)
LEMMA ForwardStep ==
  ASSUME AInv, op_void \/ op_gas \/ op_push \/ op_pc
  PROVE  AInv'
  <1>1. phase = "run" /\ current_fn \in ForwardOps /\ Goto(instr + 1, gas_left, adjusted_top)
    BY DEF op_void, op_gas, op_push, op_pc, ForwardOps, GasCorrectedOps
  <1>2. gas_left \in Nat
    BY <1>1, RunFacts
  <1> QED
    BY <1>1, <1>2, GotoNextStep

(* A core function that returns a Result.                                  *)
LEMMA ResultStep == AInv /\ OpResult => AInv'
  <1> SUFFICES ASSUME AInv, OpResult PROVE AInv'
    OBVIOUS
  <1>1. phase = "run" /\ current_fn \in ResultOps /\ current_fn \in ForwardOps
    BY DEF OpResult, ForwardOps
  <1>2. PICK r \in ResultOutcomes(gas_left) : op_result(r)
    BY DEF OpResult
  <1>3. gas_left \in Nat
    BY <1>1, RunFacts
  <1>4. /\ r.status \in StatusCode /\ r.gas_left \in Int
        /\ r.status \in {SUCCESS, REVERT} => r.gas_left \in Nat
        /\ r.status \notin {"STACK_UNDERFLOW", "STACK_OVERFLOW"}
    BY <1>3, ResultTypes
  <1>5. current_fn \notin {OP_JUMPDEST, OP_JUMPI}
    BY <1>1, ForwardOpsFacts
  <1>6. CASE r.status = SUCCESS
    <2>1. Goto(instr + 1, r.gas_left, adjusted_top) /\ r.gas_left \in Nat
      BY <1>2, <1>4, <1>6 DEF op_result
    <2> QED
      BY <1>1, <2>1, GotoNextStep
  <1>7. CASE r.status # SUCCESS
    <2>1. Exit(r.status, r.gas_left, adjusted_top)
      BY <1>2, <1>7 DEF op_result
    <2>2. adjusted_top \in Int
      BY <1>1, <1>5, CheckedInstruction
    <2> QED
      BY <1>1, <1>4, <1>5, <2>1, <2>2, ExitStep
  <1> QED
    BY <1>6, <1>7

(* A core function that sees the corrected gas.                            *)
LEMMA CorrectedStep == AInv /\ OpCorrected => AInv'
  <1> SUFFICES ASSUME AInv, OpCorrected PROVE AInv'
    OBVIOUS
  <1> DEFINE c == gas_left_correction
  <1>1. phase = "run" /\ current_fn \in GasCorrectedOps /\ current_fn \in ForwardOps
    BY DEF OpCorrected, ForwardOps
  <1>2. PICK r \in ResultOutcomes(gas_left + c) : op_corrected(r)
    BY DEF OpCorrected
  <1>3. gas_left \in Nat /\ current_block_cost \in Nat
    BY <1>1, RunFacts
  <1>4. c \in Nat
    BY <1>1, <1>3, CorrectionFacts
  <1> HIDE DEF c
  <1>5. /\ r.status \in StatusCode /\ r.gas_left \in Int
        /\ r.status \in {SUCCESS, REVERT} => r.gas_left \in Nat
        /\ r.status \notin {"STACK_UNDERFLOW", "STACK_OVERFLOW"}
    <2>1. gas_left + c \in Nat
      BY <1>3, <1>4
    <2> QED
      BY <2>1, ResultTypes
  <1>6. current_fn \notin {OP_JUMPDEST, OP_JUMPI}
    BY <1>1, ForwardOpsFacts
  <1>7. adjusted_top \in Int /\ r.gas_left - c \in Int
    BY <1>1, <1>4, <1>5, <1>6, CheckedInstruction
  <1>8. CASE r.status # SUCCESS
    <2>1. Exit(r.status, r.gas_left, adjusted_top)
      BY <1>2, <1>8 DEF op_corrected
    <2> QED
      BY <1>1, <1>5, <1>6, <1>7, <2>1, ExitStep
  <1>9. CASE r.status = SUCCESS /\ r.gas_left - c < 0
    <2>1. Exit("OUT_OF_GAS", r.gas_left - c, adjusted_top)
      BY <1>2, <1>9 DEF op_corrected, c
    <2>2. "OUT_OF_GAS" \in StatusCode /\ "OUT_OF_GAS" \notin {SUCCESS, REVERT}
      BY DEF StatusCode, FAILURES, SUCCESS, REVERT
    <2> QED
      BY <1>1, <1>6, <1>7, <2>1, <2>2, ExitStep
  <1>10. CASE r.status = SUCCESS /\ ~(r.gas_left - c < 0)
    <2>1. Goto(instr + 1, r.gas_left - c, adjusted_top)
      BY <1>2, <1>10 DEF op_corrected, c
    <2>2. r.gas_left - c \in Nat
      BY <1>7, <1>10
    <2> QED
      BY <1>1, <2>1, <2>2, GotoNextStep
  <1> QED
    BY <1>8, <1>9, <1>10

(* A terminating core function.                                            *)
LEMMA TermStep == AInv /\ OpTerm => AInv'
  <1> SUFFICES ASSUME AInv, OpTerm PROVE AInv'
    OBVIOUS
  <1>1. phase = "run" /\ current_fn \in TermOps
    BY DEF OpTerm
  <1>2. PICK r \in TermOutcomes(current_fn, gas_left) : op_term(r)
    BY DEF OpTerm
  <1>3. gas_left \in Nat /\ stack_top \in Int
    BY <1>1, RunFacts
  <1>4. Exit(r.status, r.gas_left, stack_top)
    BY <1>2 DEF op_term
  <1>5. /\ r.status \in StatusCode /\ r.gas_left \in Int
        /\ r.status \in {SUCCESS, REVERT} => r.gas_left \in Nat
        /\ r.status \notin {"STACK_UNDERFLOW", "STACK_OVERFLOW"}
    BY <1>3, TermTypes
  <1>6. current_fn \notin {OP_JUMPDEST, OP_JUMPI}
    BY <1>1, TermIsNoHead
  <1> QED
    BY <1>1, <1>3, <1>4, <1>5, <1>6, ExitStep

(* Every instruction function keeps the invariant.                         *)
LEMMA ExecuteStep == AInv /\ Execute => AInv'
  <1> SUFFICES ASSUME AInv, Execute PROVE AInv'
    OBVIOUS
  <1>1. CASE opx_beginblock
    <2>1. phase = "run" /\ current_fn = OP_JUMPDEST /\ beginblock(stack_top)
      BY <1>1 DEF opx_beginblock
    <2>2. stack_top \in 0 .. StackLimit
      BY <2>1, RunFacts
    <2> QED
      BY <2>1, <2>2, BeginblockStep
  <1>2. CASE op_undefined
    <2>1. phase = "run" /\ Exit("UNDEFINED_INSTRUCTION", gas_left, stack_top)
      BY <1>2 DEF op_undefined
    <2>2. gas_left \in Int /\ gas_left \in Nat /\ stack_top \in Int /\ "UNDEFINED_INSTRUCTION" \in StatusCode
      BY <2>1, RunFacts DEF StatusCode, FAILURES
    <2> QED
      BY <2>1, <2>2, ExitStep
  <1>3. CASE op_void \/ op_gas \/ op_push \/ op_pc
    BY <1>3, ForwardStep
  <1>4. CASE OpResult
    BY <1>4, ResultStep
  <1>5. CASE OpCorrected
    BY <1>5, CorrectedStep
  <1>6. CASE OpTerm
    BY <1>6, TermStep
  <1>7. CASE OpJump
    <2>1. phase = "run" /\ current_fn = OP_JUMP
      BY <1>7 DEF OpJump
    <2>2. PICK dst \in Words : op_jump(dst)
      BY <1>7 DEF OpJump
    <2>3. JumpTo(dst, adjusted_top)
      BY <2>2 DEF op_jump
    <2> QED
      BY <2>1, <2>3, JumpStep
  <1>8. CASE OpJumpi
    <2>1. phase = "run" /\ current_fn = OP_JUMPI
      BY <1>8 DEF OpJumpi
    <2>2. PICK cond \in Words : \E dst \in Words : op_jumpi(dst, cond)
      BY <1>8 DEF OpJumpi
    <2>3. PICK dst \in Words : op_jumpi(dst, cond)
      BY <2>2
    <2>4. CASE JumpTo(dst, adjusted_top)
      BY <2>1, <2>4, JumpStep
    <2>5. CASE beginblock(adjusted_top)
      <3>1. adjusted_top \in 0 .. StackLimit
        BY <2>1, CheckedInstruction, TermIsNoHead
      <3> QED
        BY <2>1, <2>5, <3>1, BeginblockStep
    <2> QED
      BY <2>3, <2>4, <2>5 DEF op_jumpi
  <1> QED
    BY <1>1, <1>2, <1>3, <1>4, <1>5, <1>6, <1>7, <1>8 DEF Execute

(* The result is made.                                                     *)
LEMMA MakeResultStep == AInv /\ MakeResult => AInv'
  <1> SUFFICES ASSUME AInv, MakeResult PROVE AInv'
    OBVIOUS
  <1>1. /\ phase = "exit" /\ phase' = "done"
        /\ result' = [status |-> status, gas_left |-> IF status \in {SUCCESS, REVERT} THEN gas_left ELSE 0]
        /\ UNCHANGED analysisVars /\ instr' = instr /\ stack_top' = stack_top /\ gas_left' = gas_left
        /\ current_block_cost' = current_block_cost /\ status' = status
    BY DEF MakeResult
  <1>2. /\ code' = code /\ code_pos' = code_pos /\ block' = block /\ instrs' = instrs /\ push_values' = push_values
        /\ jumpdest_offsets' = jumpdest_offsets /\ jumpdest_targets' = jumpdest_targets
    BY <1>1 DEF analysisVars
  <1>3. /\ TypeOK /\ Table(instrs, block) /\ Layout(instrs, code) /\ push_values <= code_pos /\ Complete
        /\ JumpTables(instrs, code, code_pos, jumpdest_offsets, jumpdest_targets)
        /\ status \in {SUCCESS, REVERT} => gas_left \in Nat
        /\ RefusedBlocksFail
    BY <1>1 DEF AInv
  <1>4. result' \in [status : StatusCode \cup {"NONE"}, gas_left : Nat]
    <2>1. (IF status \in {SUCCESS, REVERT} THEN gas_left ELSE 0) \in Nat /\ status \in StatusCode
      BY <1>3 DEF TypeOK
    <2> QED
      BY <1>1, <2>1
  <1>5. TypeOK'
    BY <1>1, <1>2, <1>3, <1>4 DEF TypeOK
  <1>6. Complete'
    BY <1>1, <1>2, <1>3 DEF Complete
  <1>7. (current_fn)' = current_fn /\ \A k : Instr(k)' = Instr(k)
    BY <1>1, <1>2 DEF current_fn, Instr
  <1>8. Refused' <=> Refused
    BY <1>1, <1>7 DEF Refused
  <1>9. RefusedBlocksFail'
    BY <1>1, <1>2, <1>3, <1>7, <1>8 DEF RefusedBlocksFail
  <1> QED
    BY <1>1, <1>2, <1>3, <1>5, <1>6, <1>9 DEF AInv

(* Every step keeps the invariant.                                         *)
LEMMA NextPreserves == AInv /\ [Next]_vars => AInv'
  <1> SUFFICES ASSUME AInv, [Next]_vars PROVE AInv'
    OBVIOUS
  <1>1. CASE Analyze
    BY <1>1, AnalyzeStep, SkipStep, SkipEndsStep, FinishStep DEF Analyze
  <1>2. CASE Execute
    BY <1>2, ExecuteStep
  <1>3. CASE MakeResult
    BY <1>3, MakeResultStep
  <1>4. CASE UNCHANGED vars
    <2>1. /\ phase' = phase /\ code' = code /\ code_pos' = code_pos /\ block' = block /\ instrs' = instrs
          /\ push_values' = push_values /\ jumpdest_offsets' = jumpdest_offsets
          /\ jumpdest_targets' = jumpdest_targets /\ instr' = instr /\ stack_top' = stack_top
          /\ gas_left' = gas_left /\ current_block_cost' = current_block_cost /\ status' = status
          /\ result' = result
      BY <1>4 DEF vars
    <2>2. (current_fn)' = current_fn /\ \A k : Instr(k)' = Instr(k)
      BY <2>1 DEF current_fn, Instr
    <2>3. TypeOK' /\ (Scanning' <=> Scanning) /\ (Complete' <=> Complete) /\ (base)' = base
      BY <2>1, <2>2 DEF AInv, TypeOK, Scanning, Complete, base
    <2>4. Running' <=> Running
      BY <2>1, <2>2, <2>3 DEF Running, InBlock
    <2>5. (Refused' <=> Refused) /\ (RefusedBlocksFail' <=> RefusedBlocksFail)
      BY <2>1, <2>2 DEF Refused, RefusedBlocksFail
    <2> QED
      BY <2>1, <2>3, <2>4, <2>5 DEF AInv
  <1> QED
    BY <1>1, <1>2, <1>3, <1>4 DEF Next

(* The invariant holds in every state of every behaviour.                  *)
THEOREM Invariance == Spec => []AInv
  <1>1. Init => AInv
    BY InitEstablishes
  <1>2. AInv /\ [Next]_vars => AInv'
    BY NextPreserves
  <1> QED
    BY <1>1, <1>2, PTL DEF Spec

------------------------------------------------------------------------------
(* What the invariant says.                                                *)

(* The types, and that the gas is not negative while the execution runs.   *)
THEOREM TypeCorrect == Spec => []TypeOK
  <1>1. AInv => TypeOK
    BY DEF AInv
  <1> QED
    BY <1>1, Invariance, PTL

(* analyze() never adds more instructions and push values than it has      *)
(* reserved room for, so that no pointer into the vectors is invalidated.  *)
THEOREM SizesSuffice == Spec => []ReservedSizesSuffice
  <1>1. AInv => ReservedSizesSuffice
    <2> SUFFICES ASSUME AInv PROVE ReservedSizesSuffice
      OBVIOUS
    <2>1. TypeOK /\ push_values <= code_pos
      BY DEF AInv
    <2>2. /\ phase \in {"analyze", "skip", "run", "exit", "done"} /\ code \in Seq(Byte) /\ Len(code) \in Nat
          /\ code_pos \in 0 .. Len(code) /\ push_values \in Nat /\ instrs \in Seq(Instructions)
          /\ Len(instrs) \in Nat
      BY <2>1, ProgramsAssumption DEF TypeOK
    <2>3. Len(instrs) <= Len(code) + 2
      <3>1. CASE phase \in {"analyze", "skip"}
        <4>1. Len(instrs) <= code_pos + 1
          BY <3>1 DEF AInv, Scanning
        <4> QED
          BY <2>2, <4>1
      <3>2. CASE phase \in {"run", "exit", "done"}
        BY <3>2 DEF AInv, Complete
      <3> QED
        BY <2>2, <3>1, <3>2
    <2> QED
      BY <2>1, <2>2, <2>3 DEF ReservedSizesSuffice
  <1> QED
    BY <1>1, Invariance, PTL

(* After the analysis the jump tables are sorted and hold the JUMPDEST     *)
(* instructions of the code, all of them and no others.                    *)
THEOREM TablesExact == Spec => []JumpdestTablesExact
  <1>1. AInv => JumpdestTablesExact
    <2> SUFFICES ASSUME AInv, phase \in {"run", "exit", "done"} PROVE JumpdestTablesExact
      BY DEF JumpdestTablesExact
    <2>1. JumpTables(instrs, code, code_pos, jumpdest_offsets, jumpdest_targets) /\ Complete
          /\ code \in Seq(Byte) /\ Len(code) \in Nat
      BY ProgramsAssumption DEF AInv, TypeOK
    <2>2. /\ jumpdest_offsets \in Seq(Nat) /\ jumpdest_targets \in Seq(Nat) /\ code_pos = Len(code)
          /\ Len(jumpdest_offsets) = Len(jumpdest_targets)
          /\ \A k \in 1 .. Len(jumpdest_offsets) :
               Destination(instrs, code, code_pos, jumpdest_offsets[k], jumpdest_targets[k])
          /\ \A j, k \in 1 .. Len(jumpdest_offsets) : j < k => jumpdest_offsets[j] < jumpdest_offsets[k]
          /\ \A q \in JumpDests(code) : q < code_pos => \E k \in 1 .. Len(jumpdest_offsets) : jumpdest_offsets[k] = q
      BY <2>1 DEF JumpTables, Complete
    <2>3. DOMAIN jumpdest_offsets = 1 .. Len(jumpdest_offsets) /\ DOMAIN jumpdest_targets = DOMAIN jumpdest_offsets
      BY <2>2
    <2>4. ASSUME NEW q \in JumpDests(code) PROVE q < code_pos
      BY <2>1, <2>2 DEF JumpDests, InstructionStarts, Positions
    <2>5. {jumpdest_offsets[k] : k \in DOMAIN jumpdest_offsets} = JumpDests(code)
      <3>1. ASSUME NEW k \in DOMAIN jumpdest_offsets PROVE jumpdest_offsets[k] \in JumpDests(code)
        BY <2>2, <2>3 DEF Destination
      <3>2. ASSUME NEW q \in JumpDests(code)
            PROVE  \E k \in DOMAIN jumpdest_offsets : jumpdest_offsets[k] = q
        BY <2>2, <2>3, <2>4
      <3> QED
        BY <3>1, <3>2, Zenon
    <2>6. ASSUME NEW k \in DOMAIN jumpdest_targets
          PROVE  /\ jumpdest_targets[k] \in 1 .. Len(instrs) - 1
                 /\ Instr(jumpdest_targets[k]).fn = OP_JUMPDEST
                 /\ Instr(jumpdest_targets[k]).pos = jumpdest_offsets[k]
      BY <2>2, <2>3 DEF Destination, Instr
    <2> QED
      BY <2>2, <2>3, <2>5, <2>6 DEF JumpdestTablesExact
  <1> QED
    BY <1>1, Invariance, PTL

(* No instruction reads a member of its argument other than the one that   *)
(* was written last, however long a PUSH is and whatever block it is in.   *)
THEOREM MembersMatch == Spec => []ArgumentMembersMatch
  <1>1. AInv => ArgumentMembersMatch
    <2> SUFFICES ASSUME AInv, NEW k \in DOMAIN instrs
                 PROVE  Written(instrs[k].fn, instrs[k].arg)
      BY DEF ArgumentMembersMatch, Written
    <2>1. Table(instrs, block) /\ k \in 1 .. Len(instrs)
      BY DEF AInv, Table
    <2>2. Reads(instrs, k)
      BY <2>1 DEF Table
    <2> QED
      BY <2>2 DEF Reads
  <1> QED
    BY <1>1, Invariance, PTL

(* The execution never runs off the end of the instruction table.          *)
THEOREM StaysInTable == Spec => []ExecutionStaysInTable
  <1>1. AInv => ExecutionStaysInTable
    BY DEF AInv, Complete, ExecutionStaysInTable
  <1> QED
    BY <1>1, Invariance, PTL

(* The one check of a block is enough for every instruction of it.         *)
THEOREM StackInBounds == Spec => []StackAccessInBounds
  <1>1. AInv => StackAccessInBounds
    BY CheckedInstruction DEF StackAccessInBounds, adjusted_top
  <1> QED
    BY <1>1, Invariance, PTL

(* GAS, SSTORE, the calls and the creations correct the gas by the cost of *)
(* what follows them in their own block.                                   *)
THEOREM CorrectionExact == Spec => []CorrectionIsRestOfBlock
  <1>1. AInv => CorrectionIsRestOfBlock
    BY CorrectionFacts DEF CorrectionIsRestOfBlock
  <1> QED
    BY <1>1, Invariance, PTL

(* A block that is refused contains an instruction that fails.             *)
THEOREM RefusalsAreRight == Spec => []RefusedBlocksFail
  <1>1. AInv => RefusedBlocksFail
    BY DEF AInv
  <1> QED
    BY <1>1, Invariance, PTL

(* What no step of the execution does to the gas.                          *)
GasStep ==
  /\ status' \in {SUCCESS, REVERT} => gas_left' <= gas_left
  /\ result' # result /\ result'.status \in FAILURES => result'.gas_left = 0

(* The check of a block does not return gas.                               *)
LEMMA BeginblockGas ==
  ASSUME AInv, phase = "run", NEW top \in 0 .. StackLimit, beginblock(top)
  PROVE  gas_left' <= gas_left /\ result' = result
  <1> DEFINE d == Instr(instr).arg
  <1>1. instr \in 0 .. Len(instrs) - 1 /\ gas_left \in Nat
    BY RunFacts
  <1>2. d \in Args
    BY <1>1, DataInPlace
  <1>3. d.gas_cost \in Nat
    BY <1>2 DEF Args
  <1>4. gas_left' = gas_left - d.gas_cost /\ result' = result
    <2>1. CASE EnterBlock(top)
      BY <2>1 DEF EnterBlock
    <2>2. CASE \E st : Exit(st, gas_left - Instr(instr).arg.gas_cost, top)
      BY <2>2 DEF Exit
    <2> QED
      BY <2>1, <2>2, BeginblockCases
  <1> HIDE DEF d
  <1> QED
    BY <1>1, <1>3, <1>4

(* A jump is charged with its block.                                       *)
LEMMA JumpGas ==
  ASSUME AInv, phase = "run", NEW dst, NEW top, JumpTo(dst, top)
  PROVE  gas_left' <= gas_left /\ result' = result
  <1>1. gas_left' = gas_left /\ result' = result
    BY DEF JumpTo, Exit, Goto
  <1>2. gas_left \in Nat
    BY RunFacts
  <1> QED
    BY <1>1, <1>2

(* No instruction function returns gas.                                    *)
LEMMA ExecuteGas ==
  ASSUME AInv, Execute
  PROVE  GasStep
  <1>0. phase = "run"
    BY DEF Execute, opx_beginblock, op_undefined, op_void, op_gas, op_push, op_pc, OpResult, OpCorrected, OpTerm,
       OpJump, OpJumpi
  <1>f. gas_left \in Nat /\ stack_top \in 0 .. StackLimit /\ current_block_cost \in Nat
    BY <1>0, RunFacts
  <1> SUFFICES (status' \in {SUCCESS, REVERT} => gas_left' <= gas_left) /\ result' = result
    BY DEF GasStep
  <1>1. CASE opx_beginblock
    BY <1>0, <1>1, <1>f, BeginblockGas DEF opx_beginblock
  <1>2. CASE op_undefined \/ op_void \/ op_gas \/ op_push \/ op_pc
    <2>1. gas_left' = gas_left /\ result' = result
      BY <1>2 DEF op_undefined, op_void, op_gas, op_push, op_pc, Exit, Goto
    <2> QED
      BY <1>f, <2>1
  <1>3. CASE OpResult
    <2>1. PICK r \in ResultOutcomes(gas_left) : op_result(r)
      BY <1>3 DEF OpResult
    <2>2. gas_left' = r.gas_left /\ result' = result
      BY <2>1 DEF op_result, Exit, Goto
    <2>3. r.gas_left <= gas_left
      BY <1>f, ResultTypes
    <2> QED
      BY <2>2, <2>3
  <1>4. CASE OpCorrected
    <2> DEFINE c == gas_left_correction
    <2>1. PICK r \in ResultOutcomes(gas_left + c) : op_corrected(r)
      BY <1>4 DEF OpCorrected
    <2>2. c \in Nat
      <3>1. current_fn \in GasCorrectedOps
        BY <1>4 DEF OpCorrected
      <3> QED
        BY <1>0, <1>f, <3>1, CorrectionFacts
    <2>3. r.gas_left \in Int /\ r.gas_left <= gas_left + c /\ r.status # REVERT
      <3> HIDE DEF c
      <3>1. gas_left + c \in Nat
        BY <1>f, <2>2
      <3> QED
        BY <3>1, ResultTypes
    <2>4. /\ result' = result
          /\ (r.status # SUCCESS /\ status' = r.status) \/ gas_left' = r.gas_left - c
      BY <2>1 DEF op_corrected, Exit, Goto
    <2> HIDE DEF c
    <2>5. r.gas_left - c <= gas_left
      BY <1>f, <2>2, <2>3
    <2> QED
      BY <2>3, <2>4, <2>5
  <1>5. CASE OpTerm
    <2>1. PICK r \in TermOutcomes(current_fn, gas_left) : op_term(r)
      BY <1>5 DEF OpTerm
    <2>2. gas_left' = r.gas_left /\ result' = result
      BY <2>1 DEF op_term, Exit
    <2>3. r.gas_left <= gas_left
      BY <1>f, TermTypes
    <2> QED
      BY <2>2, <2>3
  <1>6. CASE OpJump
    <2>1. PICK dst \in Words : op_jump(dst)
      BY <1>6 DEF OpJump
    <2>2. JumpTo(dst, adjusted_top)
      BY <2>1 DEF op_jump
    <2> QED
      BY <1>0, <2>2, JumpGas
  <1>7. CASE OpJumpi
    <2>1. PICK cond \in Words : \E dst \in Words : op_jumpi(dst, cond)
      BY <1>7 DEF OpJumpi
    <2>2. PICK dst \in Words : op_jumpi(dst, cond)
      BY <2>1
    <2>3. CASE JumpTo(dst, adjusted_top)
      BY <1>0, <2>3, JumpGas
    <2>4. CASE beginblock(adjusted_top)
      <3>1. current_fn = OP_JUMPI
        BY <1>7 DEF OpJumpi
      <3>2. adjusted_top \in 0 .. StackLimit
        BY <1>0, <3>1, CheckedInstruction, TermIsNoHead
      <3> QED
        BY <1>0, <2>4, <3>2, BeginblockGas
    <2> QED
      BY <2>2, <2>3, <2>4 DEF op_jumpi
  <1> QED
    BY <1>1, <1>2, <1>3, <1>4, <1>5, <1>6, <1>7 DEF Execute

(* No step of the interpreter returns gas.                                 *)
LEMMA NoGasReturned == AInv /\ Next => GasStep
  <1> SUFFICES ASSUME AInv, Next PROVE GasStep
    OBVIOUS
  <1>1. CASE Analyze
    <2>1. gas_left' = gas_left /\ result' = result
      BY <1>1 DEF Analyze, AnalyzeInstruction, SkipDeadInstruction, SkipEnds, FinishAnalysis, executionVars
    <2>2. gas_left \in Int
      BY DEF AInv, TypeOK
    <2> QED
      BY <2>1, <2>2 DEF GasStep
  <1>2. CASE Execute
    BY <1>2, ExecuteGas
  <1>3. CASE MakeResult
    <2>1. /\ gas_left' = gas_left /\ status' = status
          /\ result' = [status |-> status, gas_left |-> IF status \in {SUCCESS, REVERT} THEN gas_left ELSE 0]
      BY <1>3 DEF MakeResult
    <2>2. gas_left \in Int
      BY DEF AInv, TypeOK
    <2>3. result'.status \in FAILURES => result'.gas_left = 0
      BY <2>1 DEF FAILURES, SUCCESS, REVERT
    <2> QED
      BY <2>1, <2>2, <2>3 DEF GasStep
  <1> QED
    BY <1>1, <1>2, <1>3 DEF Next

(* While the execution can still succeed no step returns gas, and a failed *)
(* execution returns none.                                                 *)
THEOREM GasMonotone == Spec => GasNeverGrows
  <1>1. AInv /\ [Next]_vars => [GasStep]_vars
    BY NoGasReturned
  <1>2. [][GasStep]_vars => GasNeverGrows
    <2>1. GasStep => (/\ status' \in {SUCCESS, REVERT} => gas_left' <= gas_left
                      /\ result' # result /\ result'.status \in FAILURES => result'.gas_left = 0)
      BY DEF GasStep
    <2> QED
      BY <2>1, PTL DEF GasNeverGrows
  <1> QED
    BY <1>1, <1>2, Invariance, PTL DEF Spec

------------------------------------------------------------------------------
(* Advanced implements Baseline: the instruction tables are the same.      *)

(* The classes of opcodes.                                                 *)
LEMMA SameClasses ==
  /\ Stepwise!Byte = Byte
  /\ Stepwise!SUCCESS = SUCCESS /\ Stepwise!REVERT = REVERT
  /\ Stepwise!OP_STOP = OP_STOP /\ Stepwise!OP_JUMP = OP_JUMP /\ Stepwise!OP_JUMPI = OP_JUMPI
  /\ Stepwise!OP_PC = OP_PC /\ Stepwise!OP_GAS = OP_GAS /\ Stepwise!OP_JUMPDEST = OP_JUMPDEST
  /\ Stepwise!AnyPush = AnyPush
  /\ Stepwise!TermOps = TermOps
  BY DEF Stepwise!Byte, Byte, Stepwise!SUCCESS, SUCCESS, Stepwise!REVERT, REVERT, Stepwise!OP_STOP, OP_STOP,
     Stepwise!OP_JUMP, OP_JUMP, Stepwise!OP_JUMPI, OP_JUMPI, Stepwise!OP_PC, OP_PC, Stepwise!OP_GAS, OP_GAS,
     Stepwise!OP_JUMPDEST, OP_JUMPDEST, Stepwise!AnyPush, AnyPush, Stepwise!OP_PUSH1, OP_PUSH1, Stepwise!OP_PUSH32,
     OP_PUSH32, Stepwise!TermOps, TermOps, Stepwise!OP_INVALID, OP_INVALID, Stepwise!OP_RETURN, OP_RETURN,
     Stepwise!OP_REVERT, OP_REVERT

(* The costs.                                                              *)
LEMMA SameCosts == Stepwise!gas_costs = gas_costs /\ \A op : Stepwise!Defined(op) <=> Defined(op)
  <1>1.
    /\ Stepwise!OP_STOP = OP_STOP /\ Stepwise!OP_SSTORE = OP_SSTORE /\ Stepwise!OP_RETURN = OP_RETURN
    /\ Stepwise!OP_REVERT = OP_REVERT /\ Stepwise!OP_INVALID = OP_INVALID /\ Stepwise!OP_JUMPDEST = OP_JUMPDEST
    /\ Stepwise!EnvPush = EnvPush /\ Stepwise!OP_SELFBALANCE = OP_SELFBALANCE /\ Stepwise!OP_POP = OP_POP
    /\ Stepwise!AnyPush = AnyPush /\ Stepwise!AnyDup = AnyDup /\ Stepwise!AnySwap = AnySwap
    /\ Stepwise!OP_ADDMOD = OP_ADDMOD /\ Stepwise!OP_MULMOD = OP_MULMOD /\ Stepwise!OP_JUMP = OP_JUMP
    /\ Stepwise!OP_EXP = OP_EXP /\ Stepwise!OP_JUMPI = OP_JUMPI /\ Stepwise!OP_BLOCKHASH = OP_BLOCKHASH
    /\ Stepwise!OP_KECCAK256 = OP_KECCAK256 /\ Stepwise!OP_BALANCE = OP_BALANCE /\ Stepwise!OP_EXTCODESIZE = OP_EXTCODESIZE
    /\ Stepwise!OP_EXTCODECOPY = OP_EXTCODECOPY /\ Stepwise!OP_EXTCODEHASH = OP_EXTCODEHASH /\ Stepwise!OP_SLOAD = OP_SLOAD
    /\ Stepwise!AnyCall = AnyCall /\ Stepwise!warm_storage_read_cost = warm_storage_read_cost /\ Stepwise!AnyLog = AnyLog
    /\ Stepwise!OP_LOG0 = OP_LOG0 /\ Stepwise!AnyCreate = AnyCreate /\ Stepwise!undefined = undefined
    BY DEF
       Stepwise!OP_STOP, OP_STOP, Stepwise!OP_SSTORE, OP_SSTORE, Stepwise!OP_RETURN, OP_RETURN, Stepwise!OP_REVERT,
       OP_REVERT, Stepwise!OP_INVALID, OP_INVALID, Stepwise!OP_JUMPDEST, OP_JUMPDEST, Stepwise!EnvPush, EnvPush,
       Stepwise!OP_SELFBALANCE, OP_SELFBALANCE, Stepwise!OP_POP, OP_POP, Stepwise!AnyPush, AnyPush, Stepwise!AnyDup,
       AnyDup, Stepwise!AnySwap, AnySwap, Stepwise!OP_ADDMOD, OP_ADDMOD, Stepwise!OP_MULMOD, OP_MULMOD,
       Stepwise!OP_JUMP, OP_JUMP, Stepwise!OP_EXP, OP_EXP, Stepwise!OP_JUMPI, OP_JUMPI, Stepwise!OP_BLOCKHASH,
       OP_BLOCKHASH, Stepwise!OP_KECCAK256, OP_KECCAK256, Stepwise!OP_BALANCE, OP_BALANCE, Stepwise!OP_EXTCODESIZE,
       OP_EXTCODESIZE, Stepwise!OP_EXTCODECOPY, OP_EXTCODECOPY, Stepwise!OP_EXTCODEHASH, OP_EXTCODEHASH,
       Stepwise!OP_SLOAD, OP_SLOAD, Stepwise!AnyCall, AnyCall, Stepwise!warm_storage_read_cost,
       warm_storage_read_cost, Stepwise!AnyLog, AnyLog, Stepwise!OP_LOG0, OP_LOG0, Stepwise!AnyCreate, AnyCreate,
       Stepwise!undefined, undefined, Stepwise!OP_PUSH1, OP_PUSH1, Stepwise!OP_PUSH32, OP_PUSH32, Stepwise!OP_DUP1,
       OP_DUP1, Stepwise!OP_DUP16, OP_DUP16, Stepwise!OP_SWAP1, OP_SWAP1, Stepwise!OP_SWAP16, OP_SWAP16,
       Stepwise!OP_CALL, OP_CALL, Stepwise!OP_DELEGATECALL, OP_DELEGATECALL, Stepwise!OP_STATICCALL, OP_STATICCALL,
       Stepwise!OP_LOG4, OP_LOG4, Stepwise!OP_CREATE, OP_CREATE, Stepwise!OP_CREATE2, OP_CREATE2
  <1>2. ASSUME NEW op PROVE Stepwise!base_cost(op) = base_cost(op)
    BY <1>1, SMT DEF Stepwise!base_cost, base_cost
  <1>3. Stepwise!gas_costs = gas_costs
    BY <1>2, SameClasses, Zenon DEF Stepwise!gas_costs, gas_costs
  <1> QED
    BY <1>1, <1>3 DEF Stepwise!Defined, Defined

(* The stack traits.                                                       *)
LEMMA SameTraits ==
  /\ Stepwise!stack_height_required = stack_height_required
  /\ Stepwise!stack_height_change = stack_height_change
  <1> USE DEF AnyLog, AnyDup, AnySwap, OP_LOG0, OP_LOG4, OP_DUP1, OP_DUP16, OP_SWAP1, OP_SWAP16, EnvPush,
              AnyPush, OP_PUSH1, OP_PUSH32, OP_ISZERO, OP_NOT, OP_POP, OP_JUMP, OP_JUMPI, OP_CREATE,
              OP_CREATE2, OP_RETURN, OP_REVERT, OP_EXTCODECOPY, OP_DELEGATECALL, OP_STATICCALL, OP_CALL
  <1> USE DEF Stepwise!AnyLog, Stepwise!AnyDup, Stepwise!AnySwap, Stepwise!OP_LOG0, Stepwise!OP_LOG4,
              Stepwise!OP_DUP1, Stepwise!OP_DUP16, Stepwise!OP_SWAP1, Stepwise!OP_SWAP16, Stepwise!EnvPush,
              Stepwise!AnyPush, Stepwise!OP_PUSH1, Stepwise!OP_PUSH32, Stepwise!OP_ISZERO, Stepwise!OP_NOT,
              Stepwise!OP_POP, Stepwise!OP_JUMP, Stepwise!OP_JUMPI, Stepwise!OP_CREATE, Stepwise!OP_CREATE2,
              Stepwise!OP_RETURN, Stepwise!OP_REVERT, Stepwise!OP_EXTCODECOPY, Stepwise!OP_DELEGATECALL,
              Stepwise!OP_STATICCALL, Stepwise!OP_CALL
  <1>1. ASSUME NEW op PROVE Stepwise!items_required(op) = items_required(op)
    BY Zenon DEF Stepwise!items_required, items_required
  <1>2. ASSUME NEW op PROVE Stepwise!items_added(op) = items_added(op)
    BY Zenon DEF Stepwise!items_added, items_added
  <1>3. Stepwise!stack_height_required = stack_height_required
    BY <1>1, SameClasses, Zenon DEF Stepwise!stack_height_required, stack_height_required
  <1>4. Stepwise!stack_height_change = stack_height_change
    BY <1>2, SameClasses, Zenon DEF Stepwise!stack_height_change, stack_height_change
  <1> QED
    BY <1>3, <1>4

(* GAS, SSTORE, the calls and the creations are functions that return a    *)
(* Result in Baseline, and JUMPDEST is one that does nothing.              *)
LEMMA SameFunctions ==
  /\ Stepwise!ResultOps = ResultOps \cup GasCorrectedOps
  /\ Stepwise!VoidOps = VoidOps \cup {OP_JUMPDEST}
  <1> USE DEF OP_EXP, OP_KECCAK256, OP_BALANCE, OP_CALLDATACOPY, OP_CODECOPY, OP_EXTCODESIZE, OP_EXTCODECOPY,
     OP_RETURNDATACOPY, OP_EXTCODEHASH, OP_MLOAD, OP_MSTORE, OP_MSTORE8, OP_SLOAD, OP_SSTORE, OP_GAS, AnyLog,
     OP_LOG0, OP_LOG4, AnyCall, AnyCreate, OP_CALL, OP_DELEGATECALL, OP_STATICCALL, OP_CREATE, OP_CREATE2
  <1> USE DEF Stepwise!OP_EXP, Stepwise!OP_KECCAK256, Stepwise!OP_BALANCE, Stepwise!OP_CALLDATACOPY,
     Stepwise!OP_CODECOPY, Stepwise!OP_EXTCODESIZE, Stepwise!OP_EXTCODECOPY, Stepwise!OP_RETURNDATACOPY,
     Stepwise!OP_EXTCODEHASH, Stepwise!OP_MLOAD, Stepwise!OP_MSTORE, Stepwise!OP_MSTORE8, Stepwise!OP_SLOAD,
     Stepwise!OP_SSTORE, Stepwise!OP_GAS, Stepwise!AnyLog, Stepwise!OP_LOG0, Stepwise!OP_LOG4, Stepwise!AnyCall,
     Stepwise!AnyCreate, Stepwise!OP_CALL, Stepwise!OP_DELEGATECALL, Stepwise!OP_STATICCALL, Stepwise!OP_CREATE,
     Stepwise!OP_CREATE2
  <1>1. Stepwise!ResultOps = ResultOps \cup GasCorrectedOps
    BY DEF Stepwise!ResultOps, ResultOps, GasCorrectedOps
  <1>2. Stepwise!CodeOps = CodeOps
    BY SameClasses DEF Stepwise!CodeOps, CodeOps
  <1>3. OP_JUMPDEST \notin ResultOps \cup GasCorrectedOps /\ OP_JUMPDEST \notin CodeOps /\ OP_JUMPDEST \notin TermOps
    <2>1. OP_JUMPDEST \notin ForwardOps
      BY ForwardOpsFacts
    <2> QED
      BY <2>1, TermIsNoHead DEF ForwardOps, CodeOps, OP_JUMPDEST, OP_JUMP, OP_JUMPI
  <1> HIDE DEF AnyLog, AnyCall, AnyCreate, Stepwise!AnyLog, Stepwise!AnyCall, Stepwise!AnyCreate
  <1>4. Stepwise!VoidOps = {op \in Byte : Defined(op)} \ ((ResultOps \cup GasCorrectedOps) \cup TermOps \cup CodeOps)
    BY <1>1, <1>2, SameClasses, SameCosts, Zenon DEF Stepwise!VoidOps
  <1>5. ASSUME NEW op
        PROVE  op \in Stepwise!VoidOps <=> op \in VoidOps \cup {OP_JUMPDEST}
    BY <1>3, <1>4, TermIsNoHead, Zenon DEF VoidOps
  <1> QED
    BY <1>1, <1>5, Zenon

(* The code, and the numbers of its bytes.                                 *)
LEMMA SameCode ==
  /\ \A c, p : Stepwise!ByteAt(c, p) = ByteAt(c, p)
  /\ \A op : Stepwise!immediate_size(op) = immediate_size(op)
  /\ \A op \in AnyPush : op - (OP_PUSH1 - 1) = immediate_size(op)
  /\ Stepwise!OP_PUSH1 = OP_PUSH1
  <1>1. Stepwise!OP_PUSH1 = OP_PUSH1
    BY DEF Stepwise!OP_PUSH1, OP_PUSH1
  <1>2. \A op \in AnyPush : op - (OP_PUSH1 - 1) = immediate_size(op)
    BY DEF immediate_size, AnyPush, OP_PUSH1, OP_PUSH32
  <1> QED
    BY <1>1, <1>2, SameClasses DEF Stepwise!ByteAt, ByteAt, Stepwise!immediate_size, immediate_size

(* The instructions that the functions of both distinguish have a cost.    *)
LEMMA KnownOps ==
  ASSUME NEW op \in ResultOps \cup GasCorrectedOps \cup TermOps \cup CodeOps \cup VoidOps \cup {OP_JUMPDEST}
  PROVE  op \in Byte /\ Defined(op) /\ gas_costs[op] \in Nat /\ op_gas_cost(op) = gas_costs[op]
  <1>1. op \in Byte /\ Defined(op)
    <2>1. CASE op \in VoidOps
      BY <2>1 DEF VoidOps
    <2>2. CASE op = OP_JUMPDEST
      BY <2>2, TermIsNoHead
    <2>3. CASE op \in ResultOps \cup GasCorrectedOps \cup TermOps \cup CodeOps
      <3> USE DEF ResultOps, GasCorrectedOps, TermOps, CodeOps, AnyPush, AnyLog, AnyCall, AnyCreate, OP_EXP,
              OP_KECCAK256, OP_BALANCE, OP_CALLDATACOPY, OP_CODECOPY, OP_EXTCODESIZE, OP_EXTCODECOPY,
              OP_RETURNDATACOPY, OP_EXTCODEHASH, OP_MLOAD, OP_MSTORE, OP_MSTORE8, OP_SLOAD, OP_SSTORE,
              OP_GAS, OP_LOG0, OP_LOG4, OP_CALL, OP_DELEGATECALL, OP_STATICCALL, OP_CREATE, OP_CREATE2,
              OP_STOP, OP_INVALID, OP_RETURN, OP_REVERT, OP_JUMP, OP_JUMPI, OP_PC, OP_PUSH1, OP_PUSH32
      <3>1. op \in Byte
        BY <2>3 DEF Byte
      <3>2. base_cost(op) # undefined
        BY <2>3 DEF base_cost, undefined, warm_storage_read_cost, EnvPush, OP_SELFBALANCE
      <3> QED
        BY <3>1, <3>2 DEF gas_costs, Defined
    <2> QED
      BY <2>1, <2>2, <2>3
  <1> QED
    BY <1>1, OpCost

(* Code that is not empty has a last instruction.                          *)
LEMMA LastInstruction ==
  ASSUME NEW c \in Programs, Len(c) # 0
  PROVE  \E p \in InstructionStarts(c) : NextPosition(c, p) >= Len(c)
  <1> DEFINE S == {n \in 0 .. Len(c) : \E p \in InstructionStarts(c) : n = Len(c) - p}
  <1>1. Len(c) \in Nat /\ InstructionStarts(c) \subseteq Positions(c)
    BY CodeType
  <1>2. 0 \in InstructionStarts(c)
    <2>1. 0 \in Positions(c)
      BY <1>1 DEF Positions
    <2> QED
      BY <2>1, StartsAreClosed
  <1>3. Len(c) \in S /\ S \subseteq Nat
    BY <1>1, <1>2
  <1>4. PICK n \in S : \A m \in S : n <= m
    <2> HIDE DEF S
    <2> QED
      BY <1>3, LeastNumber
  <1>5. PICK p \in InstructionStarts(c) : n = Len(c) - p
    BY <1>4
  <1>6. p \in Positions(c) /\ p \in 0 .. Len(c) - 1
    BY <1>1 DEF Positions
  <1> DEFINE q == NextPosition(c, p)
  <1>7. q \in p + 1 .. p + 33
    BY <1>6, NextIsAhead
  <1>8. ~(q < Len(c))
    <2> SUFFICES ASSUME q < Len(c) PROVE FALSE
      OBVIOUS
    <2>1. q \in Positions(c)
      BY <1>1, <1>6, <1>7 DEF Positions
    <2>2. q \in InstructionStarts(c)
      BY <2>1, StartsAreClosed
    <2> HIDE DEF q
    <2>3. Len(c) - q \in S
      BY <1>1, <1>6, <1>7, <2>2
    <2>4. n <= Len(c) - q
      BY <1>4, <2>3
    <2> HIDE DEF S
    <2> QED
      BY <1>1, <1>5, <1>6, <1>7, <2>4
  <1>9. q >= Len(c)
    <2> HIDE DEF q
    <2> QED
      BY <1>1, <1>6, <1>7, <1>8
  <1> QED
    BY <1>9

(* The end that Baseline reaches is in the padding of the code.            *)
LEMMA EndPlace ==
  ASSUME NEW c \in Programs
  PROVE  EndPosition(c) \in Len(c) .. Len(c) + 32
  <1>1. Len(c) \in Nat
    BY CodeType
  <1>2. CASE Len(c) = 0
    BY <1>1, <1>2, EndOfCode
  <1>3. CASE Len(c) # 0
    <2>1. PICK p \in InstructionStarts(c) : NextPosition(c, p) >= Len(c)
      BY <1>3, LastInstruction
    <2>2. EndPosition(c) = NextPosition(c, p)
      BY <2>1, EndOfCode
    <2>3. p \in Positions(c) /\ p \in 0 .. Len(c) - 1
      BY CodeType DEF Positions
    <2>4. NextPosition(c, p) \in p + 1 .. p + 33
      BY <2>3, NextIsAhead
    <2> QED
      BY <1>1, <2>1, <2>2, <2>3, <2>4
  <1> QED
    BY <1>2, <1>3

(* The position of Baseline behind an instruction.                         *)
LEMMA UncutNext ==
  ASSUME code \in Programs, NEW p \in InstructionStarts(code)
  PROVE  Uncut(min(NextPosition(code, p), Len(code))) = NextPosition(code, p)
  <1> DEFINE n == NextPosition(code, p)
  <1>1. p \in Positions(code) /\ p \in 0 .. Len(code) - 1 /\ Len(code) \in Nat
    BY CodeType DEF Positions
  <1>2. n \in p + 1 .. p + 33
    BY <1>1, NextIsAhead
  <1>3. CASE n < Len(code)
    <2> HIDE DEF n
    <2>1. min(n, Len(code)) = n
      BY <1>1, <1>2, <1>3 DEF min
    <2> QED
      BY <1>3, <2>1 DEF Uncut, n
  <1>4. CASE ~(n < Len(code))
    <2>1. EndPosition(code) = n
      <3>1. n >= Len(code)
        <4> HIDE DEF n
        <4> QED
          BY <1>1, <1>2, <1>4
      <3> QED
        BY <3>1, EndOfCode
    <2> HIDE DEF n
    <2>2. min(n, Len(code)) = Len(code)
      BY <1>1, <1>2, <1>4 DEF min
    <2>3. ~(Len(code) < Len(code))
      BY <1>1
    <2> QED
      BY <2>1, <2>2, <2>3 DEF Uncut, n
  <1> QED
    BY <1>3, <1>4

(* The first entry is a BEGINBLOCK.                                        *)
LEMMA FirstIsHead ==
  ASSUME NEW is, NEW b, Table(is, b)
  PROVE  is[1].fn = OP_JUMPDEST
  <1>1. Belongs(is, 1)
    BY DEF Table
  <1>2. is[1].begin \in 0 .. 1 - 1 /\ (is[1].fn # OP_JUMPDEST => is[1].begin < 1 - 1)
    BY <1>1 DEF Belongs
  <1> QED
    BY <1>2

(* Where an instruction is executed, Baseline executes the same one.       *)
LEMMA SamePlace ==
  ASSUME AInv, phase = "run", instr # 0
  PROVE  /\ Stepwise!current_op = current_fn
         /\ Instr(instr).pos \in 0 .. Len(code)
         /\ current_fn # OP_STOP => /\ Instr(instr).pos \in InstructionStarts(code)
                                    /\ BaselinePosition = Instr(instr).pos
                                    /\ ByteAt(code, Instr(instr).pos) = current_fn
  <1> DEFINE k == instr + 1
             p == Instr(instr).pos
  <1>1. /\ Complete /\ k \in 1 .. Len(instrs) /\ Instr(instr) = instrs[k] /\ current_fn = instrs[k].fn
        /\ instr \in 0 .. Len(instrs) - 1 /\ Len(instrs) \in Nat /\ code \in Programs
    BY RunFacts DEF TypeOK
  <1>2. k \in 2 .. Len(instrs)
    BY <1>1
  <1>3. Placed(instrs, code, k)
    BY <1>2 DEF AInv, Layout
  <1>4. /\ p \in 0 .. Len(code)
        /\ p < Len(code) => p \in InstructionStarts(code) /\ current_fn = ByteAt(code, p)
        /\ p = Len(code) => current_fn = OP_STOP
    BY <1>1, <1>3 DEF Placed
  <1>5. Len(code) \in Nat
    BY <1>1, CodeType
  <1>6. EndPosition(code) \in Len(code) .. Len(code) + 32
    BY <1>1, EndPlace
  <1> HIDE DEF p
  <1>7. Stepwise!BufferEnd(code) = Len(code) + 32
    BY <1>5 DEF Stepwise!BufferEnd, Stepwise!padding
  <1>8. CASE p < Len(code)
    <2>1. BaselinePosition = p
      BY <1>8 DEF BaselinePosition, Uncut, p
    <2>2. Stepwise!current_op = ByteAt(code, p)
      BY <1>4, <1>5, <1>7, <1>8, <2>1, SameCode DEF Stepwise!current_op, Stepwise!executable_code
    <2> QED
      BY <1>4, <1>8, <2>1, <2>2 DEF p
  <1>9. CASE p = Len(code)
    <2>1. BaselinePosition = EndPosition(code)
      BY <1>5, <1>9 DEF BaselinePosition, Uncut, p
    <2>2. Stepwise!current_op = OP_STOP
      BY <1>5, <1>6, <1>7, <2>1, SameClasses DEF Stepwise!current_op, Stepwise!executable_code
    <2> QED
      BY <1>4, <1>9, <2>2 DEF p
  <1> QED
    BY <1>4, <1>5, <1>8, <1>9

(* Behind an instruction that goes on, Baseline is at the next entry.      *)
LEMMA NextPlace ==
  ASSUME AInv, phase = "run", instr # 0, current_fn \notin BlockTerminators, instr + 1 < Len(instrs)
  PROVE  Uncut(instrs[instr + 2].pos) = BaselinePosition + 1 + immediate_size(current_fn)
  <1> DEFINE k == instr + 1
             p == Instr(instr).pos
  <1>1. /\ k \in 1 .. Len(instrs) /\ Instr(instr) = instrs[k] /\ current_fn = instrs[k].fn
        /\ instr \in 0 .. Len(instrs) - 1 /\ Len(instrs) \in Nat /\ code \in Programs
    BY RunFacts DEF TypeOK
  <1>2. k \in 1 .. Len(instrs) - 1 /\ k # 1 /\ k + 1 = instr + 2
    BY <1>1
  <1>3. Follows(instrs, code, k, instrs[k + 1].pos)
    BY <1>2 DEF AInv, Layout
  <1>4. instrs[k + 1].pos = min(NextPosition(code, p), Len(code))
    BY <1>1, <1>2, <1>3 DEF Follows
  <1>5. current_fn # OP_STOP
    BY DEF BlockTerminators
  <1>6. p \in InstructionStarts(code) /\ BaselinePosition = p /\ ByteAt(code, p) = current_fn
    BY <1>5, SamePlace
  <1> HIDE DEF p
  <1>7. Uncut(instrs[k + 1].pos) = NextPosition(code, p)
    BY <1>1, <1>4, <1>6, UncutNext
  <1> QED
    BY <1>2, <1>6, <1>7 DEF NextPosition

------------------------------------------------------------------------------
(* Advanced implements Baseline: the steps.                                *)

(* Baseline goes on to p, with the stack changed and the gas g.            *)
Goes(p, change, g) ==
  /\ BaselinePosition' = p
  /\ BaselineTop' = BaselineTop + change
  /\ BaselineGas' = g
  /\ UNCHANGED <<BaselinePhase, code, BaselineCursor, BaselineMap, BaselineStatus, BaselineResult>>

(* Baseline leaves its loop.                                               *)
Leaves(st, g) ==
  /\ BaselinePhase' = "exit"
  /\ BaselineStatus' = st
  /\ BaselineGas' = g
  /\ UNCHANGED <<code, BaselineCursor, BaselineMap, BaselinePosition, BaselineTop, BaselineResult>>

(* Baseline does nothing.                                                  *)
Rests ==
  UNCHANGED <<BaselinePhase, code, BaselineCursor, BaselineMap, BaselinePosition, BaselineTop, BaselineGas,
              BaselineStatus, BaselineResult>>

(* These are the steps of Baseline.                                        *)
LEMMA StepwiseShapes ==
  /\ \A op, p, g : Goes(p, stack_height_change[op], g) => Stepwise!Continue(op, p, g)
  /\ \A st, g : Leaves(st, g) => Stepwise!Exit(st, g)
  /\ Rests => UNCHANGED Stepwise!vars
  <1>1. \A op, p, g : Goes(p, stack_height_change[op], g) => Stepwise!Continue(op, p, g)
    BY SameTraits DEF Goes, Stepwise!Continue, Stepwise!analysisVars
  <1>2. \A st, g : Leaves(st, g) => Stepwise!Exit(st, g)
    BY DEF Leaves, Stepwise!Exit, Stepwise!analysisVars
  <1>3. Rests => UNCHANGED Stepwise!vars
    BY DEF Rests, Stepwise!vars
  <1> QED
    BY <1>1, <1>2, <1>3

(* The state of Baseline while Advanced executes instructions.             *)
RunsLike ==
  phase = "run" => /\ BaselinePhase = "run" /\ BaselineTop = stack_top
                   /\ BaselineGas = gas_left + rest_from(instr)
                   /\ BaselineStatus = status /\ BaselineResult = result

(* It is this one.                                                         *)
LEMMA RunMapped == RunsLike
  <1> SUFFICES ASSUME phase = "run"
               PROVE  /\ BaselinePhase = "run" /\ BaselineTop = stack_top
                      /\ BaselineGas = gas_left + rest_from(instr)
                      /\ BaselineStatus = status /\ BaselineResult = result
    BY DEF RunsLike
  <1>1. ~Refused
    BY DEF Refused
  <1>2. BaselinePhase = "run"
    BY <1>1 DEF BaselinePhase
  <1>3. BaselineGas = gas_left + rest_from(instr)
    BY <1>1 DEF BaselineGas
  <1> QED
    BY <1>1, <1>2, <1>3 DEF BaselineTop, BaselineStatus, BaselineResult

(* And after a step.                                                       *)
LEMMA RunMappedNext == RunsLike'
  BY RunMapped, PTL

(* A step of the execution leaves the code and its analysis alone.         *)
LEMMA MappedFrame ==
  ASSUME UNCHANGED analysisVars
  PROVE  /\ code' = code /\ instrs' = instrs /\ BaselineCursor' = BaselineCursor /\ BaselineMap' = BaselineMap
         /\ \A k : Instr(k)' = Instr(k)
         /\ instr' = instr => BaselinePosition' = BaselinePosition /\ (current_fn)' = current_fn
         /\ instr' = instr /\ current_block_cost' = current_block_cost => (rest_from(instr))' = rest_from(instr)
  <1>1. /\ code' = code /\ code_pos' = code_pos /\ instrs' = instrs
        /\ jumpdest_offsets' = jumpdest_offsets /\ jumpdest_targets' = jumpdest_targets
    BY DEF analysisVars
  <1> QED
    BY <1>1 DEF BaselineCursor, BaselineMap, BaselinePosition, Uncut, Instr, current_fn, rest_from

(* What is left of the block at an instruction of it.                      *)
LEMMA RestFacts ==
  ASSUME AInv, phase = "run", current_fn # OP_JUMPDEST
  PROVE  /\ rest_from(instr) = current_block_cost - Instr(instr).cost
         /\ rest_from(instr) \in Nat /\ op_gas_cost(current_fn) \in Nat
         /\ rest_from(instr) - op_gas_cost(current_fn) \in Nat
         /\ Ends(instrs, instr + 1) => rest_from(instr) = op_gas_cost(current_fn)
         /\ instr # 0
  <1> DEFINE k == instr + 1
  <1>1. /\ Table(instrs, block) /\ k \in 1 .. Len(instrs) /\ Instr(instr) = instrs[k] /\ Len(instrs) \in Nat
        /\ current_fn = instrs[k].fn /\ current_fn \in Byte /\ current_block_cost \in Nat /\ instr \in Nat
    BY RunFacts
  <1>2. /\ current_block_cost = Instr(Instr(instr).begin).arg.gas_cost /\ Instr(instr).cost \in Nat
        /\ Instr(instr).cost + op_gas_cost(current_fn) <= current_block_cost
    BY CheckedInstruction
  <1>3. op_gas_cost(current_fn) \in Nat
    BY <1>1, OpCost
  <1>4. rest_from(instr) = current_block_cost - Instr(instr).cost
    BY DEF rest_from, current_fn
  <1>5. instr # 0
    <2> SUFFICES ASSUME instr = 0 PROVE FALSE
      OBVIOUS
    <2>1. k = 1
      OBVIOUS
    <2> QED
      BY <1>1, <2>1, FirstIsHead
  <1>6. Ends(instrs, k) => current_block_cost = Instr(instr).cost + op_gas_cost(current_fn)
    <2>1. Belongs(instrs, k) /\ Exact(instrs, k, Data(instrs, block, instrs[k].begin))
      BY <1>1 DEF Table
    <2>2. instrs[k].begin \in 0 .. Len(instrs) - 1
      BY <1>1, <2>1 DEF Belongs
    <2>3. Data(instrs, block, instrs[k].begin) = Instr(instrs[k].begin).arg
      BY <2>2, DataInPlace
    <2>4. cost_of(instrs, k) = op_gas_cost(current_fn)
      BY <1>1, <1>5 DEF cost_of
    <2> QED
      BY <1>1, <1>2, <2>1, <2>3, <2>4 DEF Exact
  <1> HIDE DEF k
  <1>7. rest_from(instr) \in Nat /\ rest_from(instr) - op_gas_cost(current_fn) \in Nat
    BY <1>1, <1>2, <1>3, <1>4, SMTT(60)
  <1>8. Ends(instrs, k) => rest_from(instr) = op_gas_cost(current_fn)
    BY <1>1, <1>2, <1>3, <1>4, <1>6
  <1> QED
    BY <1>3, <1>4, <1>5, <1>7, <1>8 DEF k

(* The requirements that Baseline checks are met wherever Advanced         *)
(* executes an instruction.                                                *)
LEMMA RequirementsMet ==
  ASSUME AInv, phase = "run", current_fn # OP_JUMPDEST, Defined(current_fn)
  PROVE  /\ Stepwise!current_op = current_fn
         /\ \A ops : current_fn \in ops => Stepwise!Checked(ops)
         /\ Stepwise!gas_charged = gas_left + (rest_from(instr) - op_gas_cost(current_fn))
         /\ Stepwise!gas_charged \in Nat
  <1> DEFINE op == current_fn
             rest == rest_from(instr)
             cost == op_gas_cost(op)
             req == stack_height_required[op]
             chg == stack_height_change[op]
  <1>1. /\ op \in Byte /\ gas_left \in Nat /\ stack_top \in 0 .. StackLimit /\ StackLimit \in Nat
    BY RunFacts
  <1>2. rest \in Nat /\ cost \in Nat /\ rest - cost \in Nat /\ instr # 0
    BY RestFacts
  <1>3. Stepwise!current_op = op
    BY <1>2, SamePlace
  <1>4. stack_top >= req /\ stack_top + chg \in 0 .. StackLimit
    BY CheckedInstruction DEF adjusted_top
  <1>5. BaselinePhase = "run" /\ BaselineTop = stack_top /\ BaselineGas = gas_left + rest
    BY RunMapped DEF RunsLike
  <1>6. Stepwise!gas_costs[op] = cost /\ Stepwise!stack_height_required[op] = req /\ Stepwise!stack_height_change[op] = chg
    BY <1>1, SameCosts, SameTraits, OpCost
  <1>7. req \in Nat /\ chg \in Int
    BY <1>1, StackTraits
  <1> HIDE DEF op, rest, cost, req, chg
  <1>8. /\ ~(chg > 0 /\ stack_top = StackLimit)
        /\ ~(req > 0 /\ stack_top <= req - 1)
        /\ ~((gas_left + rest) - cost < 0)
    BY <1>1, <1>2, <1>4, <1>7
  <1>9. Stepwise!check_requirements(op) = SUCCESS
    BY <1>5, <1>6, <1>8, SameClasses DEF Stepwise!check_requirements
  <1>10. Stepwise!gas_charged = (gas_left + rest) - cost
    BY <1>3, <1>5, <1>6 DEF Stepwise!gas_charged
  <1>11. (gas_left + rest) - cost = gas_left + (rest - cost) /\ gas_left + (rest - cost) \in Nat
    BY <1>1, <1>2
  <1>12. \A ops : op \in ops => Stepwise!Checked(ops)
    BY <1>3, <1>5, <1>9, SameClasses DEF Stepwise!Checked
  <1> QED
    BY <1>3, <1>10, <1>11, <1>12 DEF op, rest, cost

(* An instruction that goes on to the next entry.                          *)
LEMMA GotoMapped ==
  ASSUME AInv, phase = "run", current_fn \in ForwardOps, NEW gas \in Nat, Goto(instr + 1, gas, adjusted_top)
  PROVE  Goes(BaselinePosition + 1 + immediate_size(current_fn), stack_height_change[current_fn],
              gas + (rest_from(instr) - op_gas_cost(current_fn)))
  <1> DEFINE k == instr + 1
             i == instrs[k]
             j == instrs[k + 1]
  <1>1. /\ Table(instrs, block) /\ Complete /\ k \in 1 .. Len(instrs) /\ Len(instrs) \in Nat
        /\ i \in Instructions /\ Instr(instr) = i /\ current_fn = i.fn /\ i.fn \in Byte
        /\ instr \in Nat /\ current_block_cost \in Nat /\ instrs \in Seq(Instructions)
    BY RunFacts
  <1>2. current_fn \notin {OP_JUMPDEST, OP_JUMPI, OP_JUMP} /\ current_fn \notin TermOps
        /\ current_fn \notin BlockTerminators
    BY ForwardOpsFacts
  <1>3. k # Len(instrs)
    BY <1>1, <1>2 DEF Complete, TermOps
  <1>4. k \in 1 .. Len(instrs) - 1 /\ k + 1 \in 1 .. Len(instrs) /\ k < Len(instrs) /\ k + 1 = instr + 2
    BY <1>1, <1>3
  <1>5. /\ instr' = k /\ gas_left' = gas /\ stack_top' = adjusted_top /\ phase' = phase
        /\ current_block_cost' = current_block_cost /\ status' = status /\ result' = result
        /\ UNCHANGED analysisVars /\ instrs' = instrs /\ code' = code
    BY DEF Goto, analysisVars
  <1>6. /\ BaselinePhase = "run" /\ BaselineTop = stack_top
        /\ BaselineStatus = status /\ BaselineResult = result
    BY RunMapped DEF RunsLike
  <1>7. /\ BaselinePhase' = "run" /\ BaselineTop' = stack_top' /\ BaselineGas' = gas_left' + (rest_from(instr))'
        /\ BaselineStatus' = status' /\ BaselineResult' = result'
    BY <1>5, RunMappedNext DEF RunsLike
  <1>8. BaselineCursor' = BaselineCursor /\ BaselineMap' = BaselineMap
    BY <1>5, MappedFrame
  <1>9. /\ rest_from(instr) = current_block_cost - i.cost /\ instr # 0
        /\ Ends(instrs, k) => rest_from(instr) = op_gas_cost(current_fn)
        /\ op_gas_cost(current_fn) \in Nat /\ i.cost \in Nat
    BY <1>1, <1>2, RestFacts DEF Instructions
  <1>10. (Instr(instr))' = j
    BY <1>5 DEF Instr
  <1>11. BaselinePosition' = BaselinePosition + 1 + immediate_size(current_fn)
    <2>1. BaselinePosition' = Uncut(j.pos)
      BY <1>5, <1>10 DEF BaselinePosition, Uncut
    <2> QED
      BY <1>2, <1>4, <1>9, <2>1, NextPlace
  <1>12. (rest_from(instr))' = rest_from(instr) - op_gas_cost(current_fn)
    <2>1. CASE j.fn = OP_JUMPDEST
      <3>1. (rest_from(instr))' = 0
        BY <1>10, <2>1 DEF rest_from
      <3>2. Ends(instrs, k)
        BY <1>4, <2>1 DEF Ends
      <3> QED
        BY <1>9, <3>1, <3>2
    <2>2. CASE j.fn # OP_JUMPDEST
      <3>1. (rest_from(instr))' = current_block_cost - j.cost
        BY <1>5, <1>10, <2>2 DEF rest_from
      <3>2. Chained(instrs, k)
        BY <1>1, <1>4 DEF Table
      <3>3. Joins(instrs, k, j.begin, j.change, j.cost)
        BY <2>2, <3>2 DEF Chained
      <3>4. j.cost = i.cost + cost_of(instrs, k)
        BY <1>1, <1>2, <3>3 DEF Joins
      <3>5. cost_of(instrs, k) = op_gas_cost(current_fn)
        BY <1>1, <1>9 DEF cost_of
      <3> HIDE DEF i, j, k
      <3> QED
        BY <1>1, <1>9, <3>1, <3>4, <3>5
    <2> QED
      BY <2>1, <2>2
  <1> HIDE DEF i, j, k
  <1> QED
    BY <1>5, <1>6, <1>7, <1>8, <1>11, <1>12 DEF Goes, adjusted_top

(* The state of Baseline when the execution of Advanced has ended.         *)
EndGas ==
  IF status \in {SUCCESS, REVERT} THEN gas_left
  ELSE IF current_fn \in GasCorrectedOps THEN max(gas_left, -MaxDebt)
  ELSE gas_left + rest_from(instr) - op_gas_cost(current_fn)
EndTop == IF current_fn \notin TermOps THEN stack_top - stack_height_change[current_fn] ELSE stack_top
EndsLike ==
  phase \in {"exit", "done"} =>
    /\ BaselineTop = EndTop
    /\ ~Refused => /\ BaselinePhase = phase /\ BaselineStatus = status /\ BaselineResult = result
                   /\ BaselineGas = EndGas
    /\ Refused => /\ BaselinePhase = "run" /\ BaselineStatus = SUCCESS
                  /\ BaselineResult = [status |-> "NONE", gas_left |-> 0]
                  /\ BaselineGas = gas_left + Instr(instr).arg.gas_cost + rest_from(instr)

(* It is this one.                                                         *)
LEMMA EndMapped == EndsLike
  <1> SUFFICES ASSUME phase \in {"exit", "done"}
               PROVE  /\ BaselineTop = EndTop
                      /\ ~Refused => /\ BaselinePhase = phase /\ BaselineStatus = status /\ BaselineResult = result
                                     /\ BaselineGas = EndGas
                      /\ Refused => /\ BaselinePhase = "run" /\ BaselineStatus = SUCCESS
                                    /\ BaselineResult = [status |-> "NONE", gas_left |-> 0]
                                    /\ BaselineGas = gas_left + Instr(instr).arg.gas_cost + rest_from(instr)
    BY DEF EndsLike
  <1>1. BaselineTop = EndTop
    BY DEF BaselineTop, EndTop
  <1>2. phase \notin {"analyze", "skip"} /\ phase \notin {"analyze", "skip", "run"}
    OBVIOUS
  <1>3. ASSUME ~Refused
        PROVE  BaselinePhase = phase /\ BaselineStatus = status /\ BaselineResult = result /\ BaselineGas = EndGas
    BY <1>2, <1>3 DEF BaselinePhase, BaselineStatus, BaselineResult, BaselineGas, EndGas
  <1>4. ASSUME Refused
        PROVE  /\ BaselinePhase = "run" /\ BaselineStatus = SUCCESS
               /\ BaselineResult = [status |-> "NONE", gas_left |-> 0]
               /\ BaselineGas = gas_left + Instr(instr).arg.gas_cost + rest_from(instr)
    BY <1>2, <1>4 DEF BaselinePhase, BaselineStatus, BaselineResult, BaselineGas
  <1> QED
    BY <1>1, <1>3, <1>4

(* And after a step.                                                       *)
LEMMA EndMappedNext == EndsLike'
  BY EndMapped, PTL

(* The execution ends at an instruction.                                   *)
LEMMA ExitMapped ==
  ASSUME AInv, phase = "run", NEW st, NEW g, NEW top, Exit(st, g, top), ~Refused',
         NEW bg, bg = IF st \in {SUCCESS, REVERT} THEN g
                      ELSE IF current_fn \in GasCorrectedOps THEN max(g, -MaxDebt)
                      ELSE g + rest_from(instr) - op_gas_cost(current_fn),
         IF current_fn \notin TermOps THEN top - stack_height_change[current_fn] = stack_top ELSE top = stack_top
  PROVE  Leaves(st, bg)
  <1>1. /\ phase' = "exit" /\ status' = st /\ gas_left' = g /\ stack_top' = top /\ UNCHANGED analysisVars
        /\ instr' = instr /\ current_block_cost' = current_block_cost /\ result' = result
    BY DEF Exit
  <1>2. /\ code' = code /\ BaselineCursor' = BaselineCursor /\ BaselineMap' = BaselineMap
        /\ BaselinePosition' = BaselinePosition /\ (current_fn)' = current_fn
        /\ (rest_from(instr))' = rest_from(instr)
    BY <1>1, MappedFrame
  <1>3. BaselineTop = stack_top /\ BaselineResult = result
    BY RunMapped DEF RunsLike
  <1>4. /\ BaselineTop' = EndTop' /\ BaselinePhase' = "exit" /\ BaselineStatus' = st /\ BaselineResult' = result'
        /\ BaselineGas' = EndGas'
    BY <1>1, EndMappedNext DEF EndsLike
  <1>5. EndTop' = stack_top
    BY <1>1, <1>2 DEF EndTop
  <1>6. EndGas' = bg
    BY <1>1, <1>2 DEF EndGas
  <1> QED
    BY <1>1, <1>2, <1>3, <1>4, <1>5, <1>6 DEF Leaves

(* A block is refused: Baseline is still in front of it.                   *)
LEMMA RefusalMapped ==
  ASSUME AInv, phase = "run", current_fn \in {OP_JUMPDEST, OP_JUMPI}, NEW st, NEW top,
         Exit(st, gas_left - Instr(instr).arg.gas_cost, top), Refused',
         top - stack_height_change[current_fn] = stack_top
  PROVE  Rests
  <1> DEFINE d == Instr(instr).arg
  <1>1. /\ phase' = "exit" /\ gas_left' = gas_left - d.gas_cost /\ stack_top' = top /\ UNCHANGED analysisVars
        /\ instr' = instr /\ current_block_cost' = current_block_cost /\ result' = result
    BY DEF Exit
  <1>2. /\ code' = code /\ BaselineCursor' = BaselineCursor /\ BaselineMap' = BaselineMap
        /\ BaselinePosition' = BaselinePosition /\ (current_fn)' = current_fn
        /\ (rest_from(instr))' = rest_from(instr) /\ (Instr(instr).arg)' = d
    BY <1>1, MappedFrame DEF Instr
  <1>3. /\ BaselinePhase = "run" /\ BaselineTop = stack_top /\ BaselineGas = gas_left + rest_from(instr)
        /\ BaselineStatus = status /\ BaselineResult = result
    BY RunMapped DEF RunsLike
  <1>4. status = SUCCESS /\ result = [status |-> "NONE", gas_left |-> 0]
    BY DEF AInv
  <1>5. /\ BaselineTop' = EndTop' /\ BaselinePhase' = "run" /\ BaselineStatus' = SUCCESS
        /\ BaselineResult' = [status |-> "NONE", gas_left |-> 0]
        /\ BaselineGas' = gas_left' + (Instr(instr).arg)'.gas_cost + (rest_from(instr))'
    BY <1>1, EndMappedNext DEF EndsLike
  <1>6. EndTop' = stack_top
    BY <1>1, <1>2, TermIsNoHead DEF EndTop
  <1>7. d.gas_cost \in Nat /\ gas_left \in Nat
    <2>1. instr \in 0 .. Len(instrs) - 1 /\ gas_left \in Nat
      BY RunFacts
    <2>2. d \in Args
      BY <2>1, DataInPlace
    <2> QED
      BY <2>1, <2>2 DEF Args
  <1>8. rest_from(instr) \in Int
    <2>1. CASE current_fn = OP_JUMPDEST
      BY <2>1 DEF rest_from, current_fn
    <2>2. CASE current_fn # OP_JUMPDEST
      BY <2>2, RestFacts
    <2> QED
      BY <2>1, <2>2
  <1> HIDE DEF d
  <1>9. gas_left' + d.gas_cost + rest_from(instr) = gas_left + rest_from(instr)
    BY <1>1, <1>7, <1>8
  <1> QED
    BY <1>2, <1>3, <1>4, <1>5, <1>6, <1>9 DEF Rests

(* Entries behind a BEGINBLOCK belong to no block that was begun before.   *)
LEMMA NoneBehind ==
  ASSUME NEW is, NEW b, Table(is, b), NEW h \in 0 .. Len(is) - 2, is[h + 2].fn = OP_JUMPDEST
  PROVE  \A k \in h + 2 .. Len(is) : is[k].begin >= h + 1
  <1> DEFINE S == {k \in h + 2 .. Len(is) : ~(is[k].begin >= h + 1)}
  <1>1. is \in Seq(Instructions) /\ Len(is) \in Nat /\ h \in Nat /\ h + 2 \in 1 .. Len(is)
    BY DEF Table
  <1> SUFFICES ASSUME S # {} PROVE FALSE
    OBVIOUS
  <1>2. S \subseteq Nat
    BY <1>1
  <1>3. PICK m \in S : \A k \in S : m <= k
    <2> HIDE DEF S
    <2> QED
      BY <1>2, LeastNumber
  <1>4. m \in h + 2 .. Len(is) /\ m \in 1 .. Len(is) /\ ~(is[m].begin >= h + 1) /\ is[m].begin \in Nat
    <2>1. m \in h + 2 .. Len(is) /\ m \in 1 .. Len(is) /\ ~(is[m].begin >= h + 1)
      BY <1>1
    <2>2. is[m] \in Instructions
      BY <1>1, <2>1
    <2> QED
      BY <2>1, <2>2 DEF Instructions
  <1>5. is[m].fn # OP_JUMPDEST
    <2> SUFFICES ASSUME is[m].fn = OP_JUMPDEST PROVE FALSE
      OBVIOUS
    <2>1. Belongs(is, m)
      BY <1>4 DEF Table
    <2>2. is[m].begin = m - 1
      BY <2>1 DEF Belongs
    <2> QED
      BY <1>1, <1>4, <2>2
  <1>6. m # h + 2
    BY <1>5
  <1> DEFINE l == m - 1
  <1>7. l \in h + 2 .. Len(is) /\ l \in 1 .. Len(is) - 1 /\ l + 1 = m /\ l < m
    BY <1>1, <1>4, <1>6
  <1>8. is[l].begin >= h + 1
    <2>1. ~(l \in S)
      <3> SUFFICES ASSUME l \in S PROVE FALSE
        OBVIOUS
      <3>1. m <= l
        BY <1>3
      <3> HIDE DEF S, l
      <3> QED
        BY <1>1, <1>4, <1>7, <3>1
    <2> QED
      BY <1>7, <2>1
  <1> HIDE DEF S, l
  <1>9. Chained(is, l)
    BY <1>7 DEF Table
  <1>10. Joins(is, l, is[m].begin, is[m].change, is[m].cost)
    BY <1>5, <1>7, <1>9 DEF Chained
  <1>11. is[m].begin = l - 1 \/ is[m].begin = is[l].begin
    BY <1>10 DEF Joins
  <1> QED
    BY <1>1, <1>4, <1>7, <1>8, <1>11

(* The gas that is left when a block is entered: the block of the first    *)
(* entry is charged as it is executed, a JUMPDEST is paid for.             *)
LEMMA EntryCost ==
  ASSUME AInv, phase = "run", current_fn \in {OP_JUMPDEST, OP_JUMPI}, NEW top, EnterBlock(top),
         NEW paid, paid = IF current_fn = OP_JUMPI THEN 0 ELSE cost_of(instrs, instr + 1)
  PROVE  /\ gas_left' + (rest_from(instr))' = gas_left - paid
         /\ paid \in Nat
         /\ gas_left >= paid
  <1> DEFINE k == instr + 1
             i == instrs[k]
             j == instrs[k + 1]
             d == Instr(instr).arg
  <1>1. /\ Table(instrs, block) /\ Complete /\ k \in 1 .. Len(instrs) /\ Len(instrs) \in Nat
        /\ i \in Instructions /\ Instr(instr) = i /\ current_fn = i.fn /\ instr \in 0 .. Len(instrs) - 1
        /\ gas_left \in Nat /\ instrs \in Seq(Instructions) /\ i.fn \in Byte
    BY RunFacts
  <1>2. k # Len(instrs)
    BY <1>1, StopIsFree DEF Complete
  <1>3. k \in 1 .. Len(instrs) - 1 /\ k + 1 \in 1 .. Len(instrs) /\ k - 1 = instr /\ k < Len(instrs)
    BY <1>1, <1>2
  <1>4. /\ gas_left - d.gas_cost >= 0 /\ instr' = k /\ gas_left' = gas_left - d.gas_cost
        /\ current_block_cost' = d.gas_cost /\ instrs' = instrs
    BY DEF EnterBlock, analysisVars
  <1>5. d \in Args /\ Data(instrs, block, instr) = d
    BY <1>1, DataInPlace
  <1>6. d.gas_cost \in Nat
    BY <1>5 DEF Args
  <1>7. (Instr(instr))' = j
    BY <1>4 DEF Instr
  <1>8. paid \in Nat
    <2>1. cost_of(instrs, k) \in Nat
      BY <1>1, OpCost DEF cost_of
    <2> QED
      BY <2>1
  <1>9. current_fn = OP_JUMPDEST => i.begin = instr /\ i.cost = 0 /\ paid = cost_of(instrs, k)
    <2>1. Belongs(instrs, k)
      BY <1>1 DEF Table
    <2> QED
      BY <1>1, <1>3, <2>1, TermIsNoHead DEF Belongs
  <1>10. paid <= d.gas_cost
    <2>1. CASE current_fn = OP_JUMPI
      BY <1>6, <2>1
    <2>2. CASE current_fn = OP_JUMPDEST
      <3>1. Covers(instrs, k, Data(instrs, block, i.begin))
        BY <1>1 DEF Table
      <3>2. i.cost + cost_of(instrs, k) <= d.gas_cost
        BY <1>5, <1>9, <2>2, <3>1 DEF Covers
      <3> QED
        BY <1>8, <1>9, <2>2, <3>2
    <2> QED
      BY <2>1, <2>2
  <1>11. (rest_from(instr))' = d.gas_cost - paid
    <2>1. CASE j.fn = OP_JUMPDEST
      <3>1. (rest_from(instr))' = 0
        BY <1>7, <2>1 DEF rest_from
      <3>2. d.gas_cost = paid
        <4>1. CASE current_fn = OP_JUMPDEST
          <5>1. Exact(instrs, k, Data(instrs, block, i.begin))
            BY <1>1 DEF Table
          <5>2. Ends(instrs, k)
            BY <1>3, <2>1 DEF Ends
          <5>3. d.gas_cost = i.cost + cost_of(instrs, k)
            BY <1>5, <1>9, <4>1, <5>1, <5>2 DEF Exact
          <5> QED
            BY <1>8, <1>9, <4>1, <5>3
        <4>2. CASE current_fn = OP_JUMPI
          <5>1. Tight(instrs, instr, d)
            BY <1>1, <1>5 DEF Table
          <5>2. ~(d.gas_cost > 0)
            <6> SUFFICES ASSUME d.gas_cost > 0 PROVE FALSE
              OBVIOUS
            <6>1. PICK m \in 2 .. Len(instrs) : NeedsGas(instrs, instr, m, d.gas_cost)
              BY <5>1 DEF Tight
            <6>2. instrs[m].begin = instr
              BY <6>1 DEF NeedsGas
            <6>3. Belongs(instrs, m)
              BY <1>1, <6>1 DEF Table
            <6>4. m \in instr + 2 .. Len(instrs) \/ m = k
              BY <1>1, <6>1, <6>2, <6>3 DEF Belongs
            <6>5. CASE m = k
              <7>1. Belongs(instrs, k) /\ i.fn # OP_JUMPDEST
                BY <1>1, <4>2, TermIsNoHead DEF Table
              <7>2. i.begin < k - 1
                BY <7>1 DEF Belongs
              <7> QED
                BY <1>1, <1>3, <6>2, <6>5, <7>2
            <6>6. CASE m \in instr + 2 .. Len(instrs)
              <7>1. instr \in 0 .. Len(instrs) - 2 /\ instrs[instr + 2].fn = OP_JUMPDEST
                <8>1. instr + 2 = k + 1
                  BY <1>1
                <8> QED
                  BY <1>1, <1>3, <2>1, <8>1
              <7>2. instrs[m].begin >= instr + 1
                BY <1>1, <6>6, <7>1, NoneBehind
              <7> QED
                BY <1>1, <6>2, <7>2
            <6> QED
              BY <6>4, <6>5, <6>6
          <5> QED
            BY <1>6, <4>2, <5>2
        <4> QED
          BY <4>1, <4>2
      <3> QED
        BY <1>6, <3>1, <3>2
    <2>2. CASE j.fn # OP_JUMPDEST
      <3>1. (rest_from(instr))' = d.gas_cost - j.cost
        BY <1>4, <1>7, <2>2 DEF rest_from
      <3>2. Chained(instrs, k)
        BY <1>1, <1>3 DEF Table
      <3>3. Joins(instrs, k, j.begin, j.change, j.cost)
        BY <2>2, <3>2 DEF Chained
      <3>4. j.cost = paid
        <4>1. CASE current_fn = OP_JUMPI
          BY <1>1, <3>3, <4>1 DEF Joins
        <4>2. CASE current_fn = OP_JUMPDEST
          <5>1. j.cost = i.cost + cost_of(instrs, k)
            BY <1>1, <3>3, <4>2, TermIsNoHead DEF Joins
          <5> QED
            BY <1>8, <1>9, <4>2, <5>1
        <4> QED
          BY <4>1, <4>2
      <3> QED
        BY <3>1, <3>4
    <2> QED
      BY <2>1, <2>2
  <1> HIDE DEF d, i, j, k
  <1>12. gas_left' + (d.gas_cost - paid) = gas_left - paid
    BY <1>1, <1>4, <1>6, <1>8
  <1>13. gas_left >= paid
    BY <1>1, <1>4, <1>6, <1>8, <1>10
  <1> QED
    BY <1>8, <1>11, <1>12, <1>13

(* A block is entered: what becomes of the state of Baseline.              *)
LEMMA EnterMapped ==
  ASSUME AInv, phase = "run", current_fn \in {OP_JUMPDEST, OP_JUMPI}, NEW top, EnterBlock(top),
         NEW paid, paid = IF current_fn = OP_JUMPI THEN 0 ELSE cost_of(instrs, instr + 1),
         NEW change, stack_top + change = top
  PROVE  Goes(IF instr = 0 THEN BaselinePosition ELSE BaselinePosition + 1, change, gas_left - paid)
  <1> DEFINE k == instr + 1
             j == instrs[k + 1]
  <1>1. /\ Table(instrs, block) /\ Complete /\ k \in 1 .. Len(instrs) /\ Len(instrs) \in Nat /\ current_fn \in Byte
        /\ current_fn = instrs[k].fn /\ instr \in 0 .. Len(instrs) - 1 /\ Instr(instr) = instrs[k]
    BY RunFacts
  <1>2. k # Len(instrs)
    BY <1>1, StopIsFree DEF Complete
  <1>3. k \in 1 .. Len(instrs) - 1 /\ k < Len(instrs) /\ k + 1 = instr + 2
    BY <1>1, <1>2
  <1>4. /\ instr' = k /\ stack_top' = top /\ phase' = phase /\ status' = status /\ result' = result
        /\ UNCHANGED analysisVars /\ instrs' = instrs /\ code' = code
    BY DEF EnterBlock, analysisVars
  <1>5. /\ BaselinePhase = "run" /\ BaselineTop = stack_top
        /\ BaselineStatus = status /\ BaselineResult = result
    BY RunMapped DEF RunsLike
  <1>6. /\ BaselinePhase' = "run" /\ BaselineTop' = stack_top' /\ BaselineGas' = gas_left' + (rest_from(instr))'
        /\ BaselineStatus' = status' /\ BaselineResult' = result'
    BY <1>4, RunMappedNext DEF RunsLike
  <1>7. BaselineCursor' = BaselineCursor /\ BaselineMap' = BaselineMap
    BY <1>4, MappedFrame
  <1>8. gas_left' + (rest_from(instr))' = gas_left - paid
    BY EntryCost
  <1>9. BaselinePosition' = Uncut(j.pos)
    <2>1. (Instr(instr))' = j
      BY <1>4 DEF Instr
    <2> QED
      BY <1>4, <2>1 DEF BaselinePosition, Uncut
  <1>10. CASE instr = 0
    <2>1. k = 1
      BY <1>10
    <2>2. instrs[1].pos = 0 /\ Follows(instrs, code, k, j.pos)
      BY <1>3 DEF AInv, Layout
    <2>3. j.pos = 0
      BY <2>1, <2>2 DEF Follows
    <2>4. BaselinePosition' = BaselinePosition
      BY <1>1, <1>9, <2>1, <2>2, <2>3 DEF BaselinePosition
    <2> HIDE DEF k, j
    <2> QED
      BY <1>4, <1>5, <1>6, <1>7, <1>8, <1>10, <2>4 DEF Goes
  <1>11. CASE instr # 0
    <2>1. current_fn \notin BlockTerminators /\ current_fn \notin AnyPush
      BY DEF BlockTerminators, AnyPush, OP_PUSH1, OP_PUSH32, OP_JUMPDEST, OP_JUMPI, OP_JUMP, OP_STOP, OP_RETURN,
         OP_REVERT
    <2>2. immediate_size(current_fn) = 0
      BY <1>1, <2>1, ImmediateSize
    <2>3. BaselinePosition' = BaselinePosition + 1 + immediate_size(current_fn)
      BY <1>3, <1>9, <1>11, <2>1, NextPlace
    <2>4. BaselinePosition \in Nat
      <3>1. current_fn # OP_STOP
        BY <2>1 DEF BlockTerminators
      <3>2. Instr(instr).pos \in 0 .. Len(code) /\ BaselinePosition = Instr(instr).pos
        BY <1>11, <3>1, SamePlace
      <3> QED
        BY <3>2
    <2>5. BaselinePosition' = BaselinePosition + 1
      BY <2>2, <2>3, <2>4
    <2> HIDE DEF k, j
    <2> QED
      BY <1>4, <1>5, <1>6, <1>7, <1>8, <1>11, <2>5 DEF Goes
  <1> QED
    BY <1>10, <1>11

(* BEGINBLOCK.  The first one is no instruction of the code; any other is  *)
(* a JUMPDEST, which Baseline executes as an instruction that does nothing.*)
LEMMA BeginMapped ==
  ASSUME AInv, opx_beginblock
  PROVE  Stepwise!Next \/ UNCHANGED Stepwise!vars
  <1>1. phase = "run" /\ current_fn = OP_JUMPDEST /\ beginblock(stack_top)
    BY DEF opx_beginblock
  <1>2. /\ stack_top \in 0 .. StackLimit /\ gas_left \in Nat /\ instr \in Nat /\ StackLimit \in Nat
        /\ StackLimit # 0
    BY <1>1, RunFacts, StackLimitAssumption
  <1>3. stack_height_change[OP_JUMPDEST] = 0 /\ stack_height_required[OP_JUMPDEST] = 0
    BY NeutralOps
  <1>4. ASSUME NEW st, Exit(st, gas_left - Instr(instr).arg.gas_cost, stack_top),
               \/ st = "OUT_OF_GAS" /\ gas_left - Instr(instr).arg.gas_cost < 0
               \/ st = "STACK_UNDERFLOW" /\ stack_top < Instr(instr).arg.stack_req
               \/ st = "STACK_OVERFLOW" /\ stack_top + Instr(instr).arg.stack_max_growth > StackLimit
        PROVE  UNCHANGED Stepwise!vars
    <2>1. Refused'
      BY <1>1, <1>2, <1>4, RefusedStep
    <2>2. stack_top - stack_height_change[current_fn] = stack_top
      BY <1>1, <1>2, <1>3
    <2> QED
      BY <1>1, <1>4, <2>1, <2>2, RefusalMapped, StepwiseShapes
  <1>5. ASSUME EnterBlock(stack_top)
        PROVE  Stepwise!Next \/ UNCHANGED Stepwise!vars
    <2> DEFINE paid == cost_of(instrs, instr + 1)
    <2>1. Goes(IF instr = 0 THEN BaselinePosition ELSE BaselinePosition + 1, 0, gas_left - paid)
      <3>1. stack_top + 0 = stack_top
        BY <1>2
      <3> QED
        BY <1>1, <1>5, <3>1, EnterMapped, TermIsNoHead
    <2>2. paid \in Nat /\ gas_left >= paid
      BY <1>1, <1>5, EntryCost, TermIsNoHead
    <2>3. /\ BaselinePhase = "run" /\ BaselineTop = stack_top /\ BaselineGas = gas_left + 0
          /\ BaselineStatus = status /\ BaselineResult = result
      <3>1. rest_from(instr) = 0
        BY <1>1 DEF rest_from, current_fn
      <3> QED
        BY <1>1, <3>1, RunMapped DEF RunsLike
    <2>4. BaselineGas = gas_left /\ BaselineTop + 0 = BaselineTop
      BY <1>2, <2>3
    <2>5. CASE instr = 0
      <3>1. paid = 0
        BY <2>5 DEF cost_of
      <3>2. gas_left - paid = BaselineGas
        BY <1>2, <2>4, <3>1
      <3>3. Rests
        BY <2>1, <2>4, <2>5, <3>2 DEF Goes, Rests
      <3> QED
        BY <3>3, StepwiseShapes
    <2>6. CASE instr # 0
      <3>1. paid = gas_costs[OP_JUMPDEST]
        <4>1. instr + 1 # 1 /\ current_fn = instrs[instr + 1].fn
          BY <1>1, <1>2, <2>6, RunFacts
        <4> QED
          BY <1>1, <4>1, KnownOps DEF cost_of
      <3>2. Stepwise!current_op = OP_JUMPDEST
        BY <1>1, <2>6, SamePlace
      <3>3. /\ Stepwise!gas_costs[OP_JUMPDEST] = paid /\ Stepwise!stack_height_required[OP_JUMPDEST] = 0
            /\ Stepwise!stack_height_change[OP_JUMPDEST] = 0
        BY <1>3, <3>1, SameCosts, SameTraits
      <3> HIDE DEF paid
      <3>4. ~(0 > 0) /\ ~(gas_left - paid < 0)
        BY <1>2, <2>2
      <3>5. Stepwise!check_requirements(OP_JUMPDEST) = SUCCESS
        BY <2>3, <2>4, <3>3, <3>4, SameClasses DEF Stepwise!check_requirements
      <3>6. Stepwise!Checked(Stepwise!VoidOps)
        BY <2>3, <3>2, <3>5, SameClasses, SameFunctions DEF Stepwise!Checked
      <3>7. Stepwise!gas_charged = gas_left - paid
        BY <2>4, <3>2, <3>3 DEF Stepwise!gas_charged
      <3>8. Goes(BaselinePosition + 1, stack_height_change[OP_JUMPDEST], Stepwise!gas_charged)
        BY <1>3, <2>1, <2>6, <3>7
      <3>9. Stepwise!Continue(Stepwise!current_op, BaselinePosition + 1, Stepwise!gas_charged)
        BY <3>2, <3>8, StepwiseShapes
      <3>10. Stepwise!invoke_void
        BY <3>6, <3>9 DEF Stepwise!invoke_void
      <3> QED
        BY <3>10 DEF Stepwise!Next, Stepwise!Dispatch
    <2> QED
      BY <2>5, <2>6
  <1> QED
    BY <1>1, <1>2, <1>4, <1>5, BeginblockCases

(* A destination that is not found is none.                                *)
LEMMA NotFound ==
  ASSUME AInv, NEW dst, find_jumpdest(dst) = -1
  PROVE  dst \notin BaselineMap
  <1> DEFINE S == {k \in DOMAIN jumpdest_offsets : jumpdest_offsets[k] >= dst}
             first == CHOOSE k \in S : \A j \in S : k <= j
  <1> SUFFICES ASSUME NEW k \in DOMAIN jumpdest_offsets, jumpdest_offsets[k] = dst PROVE FALSE
    BY DEF BaselineMap
  <1>1. JumpTables(instrs, code, code_pos, jumpdest_offsets, jumpdest_targets)
    BY DEF AInv
  <1>2. /\ jumpdest_offsets \in Seq(Nat) /\ jumpdest_targets \in Seq(Nat)
        /\ Len(jumpdest_offsets) = Len(jumpdest_targets)
        /\ \A l, m \in 1 .. Len(jumpdest_offsets) : l < m => jumpdest_offsets[l] < jumpdest_offsets[m]
    BY <1>1 DEF JumpTables
  <1>3. k \in 1 .. Len(jumpdest_offsets) /\ dst \in Nat /\ k \in S
    BY <1>2
  <1>4. S \subseteq Nat
    BY <1>2
  <1>5. \E l \in S : \A j \in S : l <= j
    <2> HIDE DEF S
    <2> QED
      BY <1>3, <1>4, LeastNumber
  <1>6. first \in S /\ \A j \in S : first <= j
    <2> HIDE DEF S
    <2> QED
      BY <1>5
  <1> HIDE DEF first
  <1>7. first \in 1 .. Len(jumpdest_offsets) /\ jumpdest_offsets[first] >= dst /\ first <= k
    BY <1>2, <1>3, <1>6
  <1>8. first = k
    <2> SUFFICES ASSUME first < k PROVE FALSE
      BY <1>2, <1>3, <1>7
    <2>1. jumpdest_offsets[first] < dst
      BY <1>2, <1>3, <1>7
    <2>2. jumpdest_offsets[first] \in Nat
      BY <1>2, <1>7, SMTT(60)
    <2> QED
      BY <1>3, <1>7, <2>1, <2>2
  <1>9. jumpdest_targets[first] \in Nat
    BY <1>2, <1>7
  <1>10. find_jumpdest(dst) = jumpdest_targets[first]
    BY <1>3, <1>8 DEF find_jumpdest, first
  <1> QED
    BY <1>9, <1>10

(* A jump: the same destinations are good and bad.                         *)
LEMMA JumpMapped ==
  ASSUME AInv, phase = "run", current_fn \in {OP_JUMP, OP_JUMPI}, NEW dst \in Words, JumpTo(dst, adjusted_top)
  PROVE  Stepwise!jump_impl(dst)
  <1> DEFINE op == current_fn
             rest == rest_from(instr)
             cost == op_gas_cost(op)
             chg == stack_height_change[op]
  <1>1. /\ op \in Byte /\ op \notin TermOps /\ op \notin GasCorrectedOps /\ op # OP_JUMPDEST /\ Defined(op)
    <2>1. op \notin ForwardOps
      BY ForwardOpsFacts
    <2> QED
      BY <2>1, TermIsNoHead, KnownOps DEF ForwardOps, CodeOps
  <1>2. /\ gas_left \in Nat /\ stack_top \in Int /\ StackLimit \in Nat /\ Len(instrs) \in Nat
        /\ code \in Programs /\ code_pos = Len(code) /\ instr + 1 \in 1 .. Len(instrs) /\ op = instrs[instr + 1].fn
    BY RunFacts DEF TypeOK, Complete
  <1>3. Ends(instrs, instr + 1)
    BY <1>2 DEF Ends, BlockTerminators
  <1>4. rest = cost /\ cost \in Nat
    BY <1>1, <1>3, RestFacts
  <1>5. Stepwise!current_op = op /\ Stepwise!gas_charged = gas_left + (rest - cost)
    BY <1>1, RequirementsMet
  <1>6. chg \in Int /\ adjusted_top = stack_top + chg
    BY <1>1, StackTraits DEF adjusted_top
  <1>7. Stepwise!gas_charged = gas_left /\ gas_left + rest - cost = gas_left
    BY <1>2, <1>4, <1>5
  <1>8. CASE find_jumpdest(dst) = -1
    <2>1. Exit("BAD_JUMP_DESTINATION", gas_left, adjusted_top)
      BY <1>8 DEF JumpTo
    <2>2. "BAD_JUMP_DESTINATION" \in StatusCode /\ "BAD_JUMP_DESTINATION" \notin {SUCCESS, REVERT}
      BY DEF StatusCode, FAILURES, SUCCESS, REVERT
    <2>3. adjusted_top \in Int /\ adjusted_top - chg = stack_top /\ gas_left \in Int
      BY <1>2, <1>6
    <2>4. ~Refused'
      BY <2>1, <2>2, <2>3, ExitStep
    <2>5. Leaves("BAD_JUMP_DESTINATION", gas_left)
      BY <1>1, <1>7, <2>1, <2>2, <2>3, <2>4, ExitMapped
    <2>6. Stepwise!Exit("BAD_JUMP_DESTINATION", Stepwise!gas_charged)
      BY <1>7, <2>5, StepwiseShapes
    <2>7. dst \notin BaselineMap
      BY <1>8, NotFound
    <2> QED
      BY <2>6, <2>7 DEF Stepwise!jump_impl
  <1>9. CASE find_jumpdest(dst) # -1
    <2> DEFINE t == find_jumpdest(dst)
    <2>1. /\ t \in 1 .. Len(instrs) - 1 /\ Instr(t).fn = OP_JUMPDEST /\ Instr(t).pos = dst
          /\ dst \in JumpDests(code) /\ dst < code_pos /\ dst \in BaselineMap
      <3>1. PICK k \in 1 .. Len(jumpdest_offsets) : jumpdest_offsets[k] = dst
        BY <1>9, FindFacts
      <3>2. jumpdest_offsets \in Seq(Nat)
        BY DEF AInv, TypeOK
      <3>3. dst \in BaselineMap
        BY <3>1, <3>2 DEF BaselineMap
      <3> QED
        BY <1>9, <3>3, FindFacts
    <2>2. ~(t < 0)
      BY <1>2, <2>1
    <2>3. Goto(t, gas_left, adjusted_top)
      BY <2>2 DEF JumpTo
    <2> HIDE DEF t
    <2>4. /\ instr' = t /\ gas_left' = gas_left /\ stack_top' = adjusted_top /\ phase' = phase
          /\ status' = status /\ result' = result /\ UNCHANGED analysisVars /\ code' = code
      BY <2>3 DEF Goto, analysisVars
    <2>5. (Instr(instr))' = Instr(t)
      BY <2>4, MappedFrame DEF Instr
    <2>6. (rest_from(instr))' = 0
      BY <2>1, <2>5 DEF rest_from
    <2>7. BaselinePosition' = dst
      BY <1>2, <2>1, <2>4, <2>5 DEF BaselinePosition, Uncut
    <2>8. /\ BaselinePhase = "run" /\ BaselineTop = stack_top /\ BaselineStatus = status /\ BaselineResult = result
      BY RunMapped DEF RunsLike
    <2>9. /\ BaselinePhase' = "run" /\ BaselineTop' = stack_top' /\ BaselineGas' = gas_left' + (rest_from(instr))'
          /\ BaselineStatus' = status' /\ BaselineResult' = result'
      BY <2>4, RunMappedNext DEF RunsLike
    <2>10. BaselineCursor' = BaselineCursor /\ BaselineMap' = BaselineMap
      BY <2>4, MappedFrame
    <2>11. gas_left' + (rest_from(instr))' = gas_left
      BY <1>2, <2>4, <2>6
    <2> HIDE DEF op, rest, cost, chg
    <2>12. Goes(dst, chg, gas_left)
      BY <1>6, <2>4, <2>7, <2>8, <2>9, <2>10, <2>11 DEF Goes
    <2>13. Stepwise!Continue(Stepwise!current_op, dst, Stepwise!gas_charged)
      BY <1>5, <1>7, <2>12, StepwiseShapes DEF chg
    <2>14. ~(dst >= Len(code))
      <3>1. dst \in Nat /\ Len(code) \in Nat
        BY <1>2, WordsAssumption, CodeType
      <3> QED
        BY <1>2, <2>1, <3>1
    <2> QED
      BY <2>1, <2>13, <2>14 DEF Stepwise!jump_impl
  <1> QED
    BY <1>8, <1>9

(* What a core function may return, in both.                               *)
Possible(st, x) ==
  \/ st = SUCCESS /\ x >= 0
  \/ st \in {"OUT_OF_GAS", "INVALID_MEMORY_ACCESS", "STATIC_MODE_VIOLATION"} /\ x >= -MaxDebt

(* An outcome of Advanced.                                                 *)
LEMMA OutcomeCases ==
  ASSUME NEW g \in Nat, NEW r \in ResultOutcomes(g)
  PROVE  r.gas_left \in Int /\ r.gas_left <= g /\ Possible(r.status, r.gas_left)
  BY MaxDebtAssumption DEF ResultOutcomes, FailedOutcomes, Possible

(* An outcome of Baseline.                                                 *)
Allowed(op, g, st, x) == \E r \in Stepwise!ResultOutcomes(op, g) : r.status = st /\ r.gas_left = x

(* Which ones there are.                                                   *)
LEMMA StepwiseOutcome ==
  ASSUME NEW op, NEW g \in Nat, NEW st, NEW x \in Int, x <= g,
         op # OP_GAS \/ (st = SUCCESS /\ x = g), Possible(st, x)
  PROVE  Allowed(op, g, st, x)
  <1> USE DEF Allowed
  <1> DEFINE r == [status |-> st, gas_left |-> x]
  <1>1. r.status = st /\ r.gas_left = x
    OBVIOUS
  <1>2. CASE op = OP_GAS
    <2>1. r \in [status : {SUCCESS}, gas_left : {g}]
      BY <1>2
    <2> HIDE DEF r
    <2> QED
      BY <1>1, <1>2, <2>1, SameClasses DEF Stepwise!ResultOutcomes
  <1>3. CASE op # OP_GAS
    <2>1. CASE st = SUCCESS /\ x >= 0
      <3>1. x \in 0 .. g
        BY <2>1
      <3>2. r \in [status : {SUCCESS}, gas_left : 0 .. g]
        BY <2>1, <3>1
      <3> HIDE DEF r
      <3> QED
        BY <1>1, <1>3, <3>2, SameClasses DEF Stepwise!ResultOutcomes
    <2>2. CASE st \in {"OUT_OF_GAS", "INVALID_MEMORY_ACCESS", "STATIC_MODE_VIOLATION"} /\ x >= -MaxDebt
      <3>1. x \in (-MaxDebt) .. g
        BY <2>2, MaxDebtAssumption
      <3>2. r \in [status : {"OUT_OF_GAS", "INVALID_MEMORY_ACCESS", "STATIC_MODE_VIOLATION"},
                   gas_left : (-MaxDebt) .. g]
        BY <2>2, <3>1
      <3> HIDE DEF r
      <3> QED
        BY <1>1, <1>3, <3>2, SameClasses DEF Stepwise!ResultOutcomes, Stepwise!FailedOutcomes
    <2> QED
      BY <2>1, <2>2 DEF Possible
  <1> QED
    BY <1>2, <1>3

(* Baseline executes a core function that returns a Result.                *)
LEMMA InvokeResultMapped ==
  ASSUME AInv, phase = "run", current_fn \in ResultOps \cup GasCorrectedOps, NEW st, NEW x \in Int,
         x <= Stepwise!gas_charged, Possible(st, x),
         current_fn # OP_GAS \/ (st = SUCCESS /\ x = Stepwise!gas_charged),
         IF st = SUCCESS THEN Goes(BaselinePosition + 1, stack_height_change[current_fn], x) ELSE Leaves(st, x)
  PROVE  Stepwise!Next
  <1>1. current_fn # OP_JUMPDEST /\ Defined(current_fn)
    <2>1. current_fn \in ForwardOps
      BY DEF ForwardOps
    <2> QED
      BY <2>1, ForwardOpsFacts, KnownOps
  <1>2. /\ Stepwise!current_op = current_fn /\ Stepwise!Checked(Stepwise!ResultOps)
        /\ Stepwise!gas_charged \in Nat
    BY <1>1, RequirementsMet, SameFunctions
  <1>3. PICK r \in Stepwise!ResultOutcomes(current_fn, Stepwise!gas_charged) : r.status = st /\ r.gas_left = x
    <2>1. Allowed(current_fn, Stepwise!gas_charged, st, x)
      BY <1>2, StepwiseOutcome
    <2> QED
      BY <2>1 DEF Allowed
  <1>4. Stepwise!invoke_result(r)
    <2>1. CASE st = SUCCESS
      <3>1. Stepwise!Continue(current_fn, BaselinePosition + 1, x)
        BY <2>1, StepwiseShapes
      <3> QED
        BY <1>2, <1>3, <2>1, <3>1, SameClasses DEF Stepwise!invoke_result
    <2>2. CASE st # SUCCESS
      <3>1. Stepwise!Exit(st, x)
        BY <2>2, StepwiseShapes
      <3>2. st # Stepwise!SUCCESS
        BY <2>2, SameClasses
      <3> QED
        BY <1>2, <1>3, <3>1, <3>2 DEF Stepwise!invoke_result
    <2> QED
      BY <2>1, <2>2
  <1>5. Stepwise!InvokeResult
    BY <1>2, <1>3, <1>4 DEF Stepwise!InvokeResult
  <1> QED
    BY <1>5 DEF Stepwise!Next, Stepwise!Dispatch

(* The position of Baseline at an instruction that goes on.                *)
LEMMA ForwardPlace ==
  ASSUME AInv, phase = "run", current_fn \in ForwardOps
  PROVE  /\ current_fn # OP_JUMPDEST /\ current_fn \in Byte /\ BaselinePosition \in Nat
         /\ immediate_size(current_fn) \in Nat
         /\ current_fn \notin AnyPush => BaselinePosition + 1 + immediate_size(current_fn) = BaselinePosition + 1
         /\ BaselinePosition + 1 + immediate_size(current_fn) = BaselinePosition + (immediate_size(current_fn) + 1)
  <1>1. current_fn # OP_JUMPDEST /\ current_fn \notin BlockTerminators /\ current_fn \in Byte
    BY ForwardOpsFacts, RunFacts
  <1>2. instr # 0 /\ current_fn # OP_STOP
    BY <1>1, RestFacts DEF BlockTerminators
  <1>3. Instr(instr).pos \in 0 .. Len(code) /\ BaselinePosition = Instr(instr).pos
    BY <1>2, SamePlace
  <1>4. BaselinePosition \in Nat
    BY <1>3
  <1>5. immediate_size(current_fn) \in 0 .. 32 /\ (current_fn \notin AnyPush => immediate_size(current_fn) = 0)
    BY <1>1, ImmediateSize
  <1> QED
    BY <1>1, <1>4, <1>5

(* Instructions that only go on.                                           *)
LEMMA ForwardMapped ==
  ASSUME AInv, op_void \/ op_gas \/ op_push \/ op_pc
  PROVE  Stepwise!Next
  <1> DEFINE op == current_fn
  <1>1. phase = "run" /\ op \in ForwardOps /\ Goto(instr + 1, gas_left, adjusted_top)
    BY DEF op_void, op_gas, op_push, op_pc, ForwardOps, GasCorrectedOps
  <1>2. gas_left \in Nat
    BY <1>1, RunFacts
  <1>3. /\ op # OP_JUMPDEST /\ BaselinePosition \in Nat /\ immediate_size(op) \in Nat
        /\ op \notin AnyPush => BaselinePosition + 1 + immediate_size(op) = BaselinePosition + 1
        /\ BaselinePosition + 1 + immediate_size(op) = BaselinePosition + (immediate_size(op) + 1)
    BY <1>1, ForwardPlace
  <1>4. Defined(op)
    BY <1>1, KnownOps DEF ForwardOps, CodeOps
  <1>5. /\ Stepwise!current_op = op /\ \A ops : op \in ops => Stepwise!Checked(ops)
        /\ Stepwise!gas_charged = gas_left + (rest_from(instr) - op_gas_cost(op)) /\ Stepwise!gas_charged \in Nat
    BY <1>1, <1>3, <1>4, RequirementsMet
  <1>6. Goes(BaselinePosition + 1 + immediate_size(op), stack_height_change[op], Stepwise!gas_charged)
    BY <1>1, <1>2, <1>5, GotoMapped
  <1>7. Stepwise!Continue(Stepwise!current_op, BaselinePosition + 1 + immediate_size(op), Stepwise!gas_charged)
    BY <1>5, <1>6, StepwiseShapes
  <1> HIDE DEF op
  <1>8. CASE op_void
    <2>1. op \in VoidOps /\ op \notin AnyPush
      BY <1>8 DEF op_void, op, VoidOps, CodeOps
    <2>2. Stepwise!Checked(Stepwise!VoidOps)
      BY <1>5, <2>1, SameFunctions
    <2>3. Stepwise!invoke_void
      BY <1>3, <1>7, <2>1, <2>2 DEF Stepwise!invoke_void
    <2> QED
      BY <2>3 DEF Stepwise!Next, Stepwise!Dispatch
  <1>9. CASE op_gas
    <2>1. op = OP_GAS /\ op \in GasCorrectedOps /\ op \notin AnyPush
      BY <1>9 DEF op_gas, op, GasCorrectedOps, AnyPush, OP_GAS, OP_PUSH1, OP_PUSH32
    <2>2. Goes(BaselinePosition + 1, stack_height_change[op], Stepwise!gas_charged)
      BY <1>3, <1>6, <2>1
    <2>3. /\ Stepwise!gas_charged <= Stepwise!gas_charged /\ Stepwise!gas_charged \in Int
          /\ Possible(SUCCESS, Stepwise!gas_charged)
      BY <1>5 DEF Possible
    <2> QED
      BY <1>1, <2>1, <2>2, <2>3, InvokeResultMapped DEF op
  <1>10. CASE op_push
    <2>1. op \in AnyPush
      BY <1>10 DEF op_push, op
    <2>2. Stepwise!Checked(Stepwise!AnyPush)
      BY <1>5, <2>1, SameClasses
    <2>3. Stepwise!immediate_size(Stepwise!current_op) = immediate_size(op)
      BY <1>5, SameCode
    <2>4. Stepwise!Continue(Stepwise!current_op, BaselinePosition + (Stepwise!immediate_size(Stepwise!current_op) + 1),
                            Stepwise!gas_charged)
      BY <1>3, <1>7, <2>3
    <2>5. Stepwise!invoke_push
      BY <2>2, <2>4 DEF Stepwise!invoke_push
    <2> QED
      BY <2>5 DEF Stepwise!Next, Stepwise!Dispatch
  <1>11. CASE op_pc
    <2>1. op = OP_PC /\ op \notin AnyPush
      BY <1>11 DEF op_pc, op, AnyPush, OP_PC, OP_PUSH1, OP_PUSH32
    <2>2. Stepwise!Checked({Stepwise!OP_PC})
      BY <1>5, <2>1, SameClasses
    <2>3. Stepwise!invoke_pc
      BY <1>3, <1>7, <2>1, <2>2 DEF Stepwise!invoke_pc
    <2> QED
      BY <2>3 DEF Stepwise!Next, Stepwise!Dispatch
  <1> QED
    BY <1>8, <1>9, <1>10, <1>11

(* A core function that returns a Result.  What it leaves is what Baseline *)
(* has, less the rest of the block.                                        *)
LEMMA ResultMapped ==
  ASSUME AInv, OpResult
  PROVE  Stepwise!Next
  <1> DEFINE rest == rest_from(instr)
             cost == op_gas_cost(current_fn)
             c == rest - cost
  <1>1. phase = "run" /\ current_fn \in ResultOps /\ current_fn \in ForwardOps
    BY DEF OpResult, ForwardOps
  <1>2. PICK r \in ResultOutcomes(gas_left) : op_result(r)
    BY DEF OpResult
  <1>3. gas_left \in Nat /\ stack_top \in Int
    BY <1>1, RunFacts
  <1>4. current_fn \notin {OP_JUMPDEST, OP_JUMPI} /\ current_fn \notin TermOps
    BY <1>1, ForwardOpsFacts
  <1>5. current_fn \notin GasCorrectedOps /\ current_fn \notin AnyPush /\ current_fn # OP_GAS
    BY <1>1 DEF ResultOps, GasCorrectedOps, AnyPush, AnyLog, AnyCall, AnyCreate, OP_EXP, OP_KECCAK256, OP_BALANCE,
       OP_CALLDATACOPY, OP_CODECOPY, OP_EXTCODESIZE, OP_EXTCODECOPY, OP_RETURNDATACOPY, OP_EXTCODEHASH, OP_MLOAD,
       OP_MSTORE, OP_MSTORE8, OP_SLOAD, OP_SSTORE, OP_GAS, OP_LOG0, OP_LOG4, OP_CALL, OP_DELEGATECALL,
       OP_STATICCALL, OP_CREATE, OP_CREATE2, OP_PUSH1, OP_PUSH32
  <1>6. rest \in Nat /\ cost \in Nat /\ c \in Nat
    BY <1>1, <1>4, RestFacts
  <1>7. Stepwise!gas_charged = gas_left + c
    <2>1. Defined(current_fn)
      BY <1>1, KnownOps
    <2> QED
      BY <1>1, <1>4, <2>1, RequirementsMet
  <1>8. BaselinePosition + 1 + immediate_size(current_fn) = BaselinePosition + 1
    BY <1>1, <1>5, ForwardPlace
  <1>9. r.gas_left \in Int /\ r.gas_left <= gas_left /\ Possible(r.status, r.gas_left)
    BY <1>3, OutcomeCases
  <1> HIDE DEF rest, cost
  <1>10. /\ r.gas_left + c \in Int /\ r.gas_left + c <= Stepwise!gas_charged
         /\ Possible(r.status, r.gas_left + c)
    BY <1>3, <1>6, <1>7, <1>9, MaxDebtAssumption DEF Possible
  <1>11. CASE r.status = SUCCESS
    <2>1. Goto(instr + 1, r.gas_left, adjusted_top) /\ r.gas_left \in Nat
      BY <1>2, <1>9, <1>11 DEF op_result, Possible, SUCCESS
    <2>2. Goes(BaselinePosition + 1, stack_height_change[current_fn], r.gas_left + c)
      BY <1>1, <1>8, <2>1, GotoMapped DEF rest, cost
    <2> HIDE DEF c
    <2> QED
      BY <1>1, <1>5, <1>10, <1>11, <2>2, InvokeResultMapped
  <1>12. CASE r.status # SUCCESS
    <2>1. Exit(r.status, r.gas_left, adjusted_top)
      BY <1>2, <1>12 DEF op_result
    <2>2. /\ r.status \in StatusCode /\ r.status \notin {SUCCESS, REVERT}
          /\ r.status \notin {"STACK_UNDERFLOW", "STACK_OVERFLOW"}
      BY <1>3, <1>12, ResultTypes
    <2>3. adjusted_top \in Int /\ adjusted_top - stack_height_change[current_fn] = stack_top
      <3>1. stack_height_change[current_fn] \in Int
        BY <1>1, RunFacts, StackTraits
      <3> QED
        BY <1>3, <3>1 DEF adjusted_top
    <2>4. ~Refused'
      BY <1>1, <1>4, <1>9, <2>1, <2>2, <2>3, ExitStep
    <2>5. r.gas_left + c = r.gas_left + rest - cost
      BY <1>6, <1>9
    <2>6. Leaves(r.status, r.gas_left + c)
      BY <1>1, <1>4, <1>5, <2>1, <2>2, <2>3, <2>4, <2>5, ExitMapped DEF rest, cost
    <2> HIDE DEF c
    <2> QED
      BY <1>1, <1>5, <1>10, <1>12, <2>6, InvokeResultMapped
  <1> QED
    BY <1>11, <1>12

(* A core function that sees the corrected gas.  When the rest of the      *)
(* block cannot be paid any more, Baseline may have failed here as well.   *)
LEMMA CorrectedMapped ==
  ASSUME AInv, OpCorrected
  PROVE  Stepwise!Next
  <1> DEFINE rest == rest_from(instr)
             cost == op_gas_cost(current_fn)
             c == gas_left_correction
  <1>1. phase = "run" /\ current_fn \in GasCorrectedOps /\ current_fn \in ForwardOps /\ current_fn # OP_GAS
    BY DEF OpCorrected, ForwardOps
  <1>2. PICK r \in ResultOutcomes(gas_left + c) : op_corrected(r)
    BY DEF OpCorrected
  <1>3. gas_left \in Nat /\ stack_top \in Int /\ current_block_cost \in Nat
    BY <1>1, RunFacts
  <1>4. current_fn \notin {OP_JUMPDEST, OP_JUMPI} /\ current_fn \notin TermOps
    BY <1>1, ForwardOpsFacts
  <1>5. current_fn \notin AnyPush
    BY <1>1 DEF GasCorrectedOps, AnyPush, AnyCall, AnyCreate, OP_SSTORE, OP_GAS, OP_CALL, OP_DELEGATECALL,
       OP_STATICCALL, OP_CREATE, OP_CREATE2, OP_PUSH1, OP_PUSH32
  <1>6. rest \in Nat /\ cost \in Nat /\ c = rest - cost /\ c \in Nat
    <2>1. /\ rest = current_block_cost - Instr(instr).cost /\ rest \in Nat /\ cost \in Nat /\ rest - cost \in Nat
      BY <1>1, <1>4, RestFacts
    <2>2. c = current_block_cost - (Instr(instr).cost + cost)
      BY <1>1, CorrectionFacts
    <2>3. Instr(instr).cost \in Nat
      BY <1>1, <1>4, CheckedInstruction
    <2> HIDE DEF rest, cost, c
    <2> QED
      BY <1>3, <2>1, <2>2, <2>3
  <1>7. Stepwise!gas_charged = gas_left + c
    <2>1. Defined(current_fn)
      BY <1>1, KnownOps
    <2>2. Stepwise!gas_charged = gas_left + (rest - cost)
      BY <1>1, <1>4, <2>1, RequirementsMet
    <2> QED
      BY <1>6, <2>2
  <1>8. BaselinePosition + 1 + immediate_size(current_fn) = BaselinePosition + 1
    BY <1>1, <1>5, ForwardPlace
  <1>9. adjusted_top \in Int /\ adjusted_top - stack_height_change[current_fn] = stack_top
    <2>1. stack_height_change[current_fn] \in Int
      BY <1>1, RunFacts, StackTraits
    <2> QED
      BY <1>3, <2>1 DEF adjusted_top
  <1> HIDE DEF rest, cost, c
  <1>10. /\ r.gas_left \in Int /\ r.gas_left <= Stepwise!gas_charged /\ Possible(r.status, r.gas_left)
         /\ r.status \in StatusCode /\ r.status # REVERT /\ r.status \notin {"STACK_UNDERFLOW", "STACK_OVERFLOW"}
    <2>1. gas_left + c \in Nat
      BY <1>3, <1>6
    <2> QED
      BY <1>7, <2>1, OutcomeCases, ResultTypes
  <1>11. CASE r.status # SUCCESS
    <2>1. Exit(r.status, r.gas_left, adjusted_top)
      BY <1>2, <1>11 DEF op_corrected
    <2>2. ~Refused'
      BY <1>1, <1>4, <1>9, <1>10, <1>11, <2>1, ExitStep
    <2>3. r.gas_left = max(r.gas_left, -MaxDebt) /\ r.status \notin {SUCCESS, REVERT}
      BY <1>10, <1>11, MaxDebtAssumption DEF Possible, max
    <2>4. Leaves(r.status, r.gas_left)
      BY <1>1, <1>4, <1>9, <2>1, <2>2, <2>3, ExitMapped
    <2> QED
      BY <1>1, <1>10, <1>11, <2>4, InvokeResultMapped
  <1>12. CASE r.status = SUCCESS /\ r.gas_left - c < 0
    <2> DEFINE st == "OUT_OF_GAS"
               g == r.gas_left - c
               x == max(g, -MaxDebt)
    <2>1. Exit(st, g, adjusted_top)
      BY <1>2, <1>12 DEF op_corrected, c
    <2>2. /\ st \in StatusCode /\ st \notin {SUCCESS, REVERT} /\ st \notin {"STACK_UNDERFLOW", "STACK_OVERFLOW"}
          /\ st # SUCCESS
      BY DEF StatusCode, FAILURES, SUCCESS, REVERT
    <2>3. g \in Int /\ r.gas_left \in Nat
      BY <1>6, <1>10, <1>12 DEF Possible, SUCCESS
    <2>4. ~Refused'
      BY <1>1, <1>4, <1>9, <2>1, <2>2, <2>3, ExitStep
    <2>5. x \in Int /\ x <= Stepwise!gas_charged /\ Possible(st, x)
      <3>1. Stepwise!gas_charged \in Nat
        BY <1>3, <1>6, <1>7
      <3>2. g < 0
        BY <1>12
      <3> HIDE DEF g
      <3> QED
        BY <2>3, <3>1, <3>2, MaxDebtAssumption DEF max, Possible
    <2> HIDE DEF g
    <2>6. Leaves(st, x)
      BY <1>1, <1>4, <1>9, <2>1, <2>2, <2>4, ExitMapped
    <2> HIDE DEF x, st
    <2> QED
      BY <1>1, <2>2, <2>5, <2>6, InvokeResultMapped
  <1>13. CASE r.status = SUCCESS /\ ~(r.gas_left - c < 0)
    <2> DEFINE g == r.gas_left - c
    <2>1. Goto(instr + 1, g, adjusted_top)
      BY <1>2, <1>13 DEF op_corrected, c
    <2>2. g \in Nat /\ g + (rest - cost) = r.gas_left
      BY <1>6, <1>10, <1>13
    <2> HIDE DEF g
    <2>3. Goes(BaselinePosition + 1, stack_height_change[current_fn], g + (rest - cost))
      BY <1>1, <1>8, <2>1, <2>2, GotoMapped DEF rest, cost
    <2> QED
      BY <1>1, <1>10, <1>13, <2>2, <2>3, InvokeResultMapped
  <1> QED
    BY <1>11, <1>12, <1>13

(* What a terminating core function may return.                            *)
LEMMA SameTermOutcomes == \A op, g : Stepwise!TermOutcomes(op, g) = TermOutcomes(op, g)
  <1>1. Stepwise!OP_INVALID = OP_INVALID /\ Stepwise!OP_RETURN = OP_RETURN
    BY DEF Stepwise!OP_INVALID, OP_INVALID, Stepwise!OP_RETURN, OP_RETURN
  <1> QED
    BY <1>1, SameClasses DEF Stepwise!TermOutcomes, TermOutcomes, Stepwise!FailedOutcomes, FailedOutcomes

(* INVALID leaves the gas.                                                 *)
LEMMA InvalidOutcome ==
  ASSUME NEW g
  PROVE  TermOutcomes(OP_INVALID, g) = [status : {"INVALID_INSTRUCTION"}, gas_left : {g}]
  <1>1. OP_INVALID # OP_STOP /\ OP_INVALID # OP_RETURN
    BY DEF OP_INVALID, OP_STOP, OP_RETURN
  <1> QED
    BY <1>1 DEF TermOutcomes

(* Baseline executes a terminating core function.                          *)
LEMMA InvokeTermMapped ==
  ASSUME AInv, phase = "run", current_fn \in TermOps, NEW r \in TermOutcomes(current_fn, Stepwise!gas_charged),
         Leaves(r.status, r.gas_left)
  PROVE  Stepwise!Next
  <1>1. current_fn # OP_JUMPDEST /\ Defined(current_fn)
    BY TermIsNoHead, KnownOps
  <1>2. Stepwise!current_op = current_fn /\ Stepwise!Checked(Stepwise!TermOps)
    BY <1>1, RequirementsMet, SameClasses
  <1>3. Stepwise!Exit(r.status, r.gas_left)
    BY StepwiseShapes
  <1>4. Stepwise!invoke_term(r)
    BY <1>2, <1>3 DEF Stepwise!invoke_term
  <1>5. r \in Stepwise!TermOutcomes(Stepwise!current_op, Stepwise!gas_charged)
    BY <1>2, SameTermOutcomes
  <1>6. Stepwise!InvokeTerm
    BY <1>2, <1>4, <1>5 DEF Stepwise!InvokeTerm
  <1> QED
    BY <1>6 DEF Stepwise!Next, Stepwise!Dispatch

(* A terminating core function.  STOP, RETURN and REVERT are the last of   *)
(* their block, INVALID may be followed by dead instructions, which were   *)
(* charged.                                                                *)
LEMMA TermMapped ==
  ASSUME AInv, OpTerm
  PROVE  Stepwise!Next
  <1> DEFINE rest == rest_from(instr)
             cost == op_gas_cost(current_fn)
  <1>1. phase = "run" /\ current_fn \in TermOps
    BY DEF OpTerm
  <1>2. PICK r \in TermOutcomes(current_fn, gas_left) : op_term(r)
    BY DEF OpTerm
  <1>3. /\ gas_left \in Nat /\ stack_top \in Int /\ instr + 1 \in 1 .. Len(instrs)
        /\ current_fn = instrs[instr + 1].fn
    BY <1>1, RunFacts
  <1>4. Exit(r.status, r.gas_left, stack_top)
    BY <1>2 DEF op_term
  <1>5. /\ r.status \in StatusCode /\ r.gas_left \in Int
        /\ r.status \in {SUCCESS, REVERT} => r.gas_left \in Nat
        /\ r.status \notin {"STACK_UNDERFLOW", "STACK_OVERFLOW"}
    BY <1>3, TermTypes
  <1>6. current_fn \notin {OP_JUMPDEST, OP_JUMPI} /\ current_fn # OP_JUMPDEST /\ Defined(current_fn)
    BY <1>1, TermIsNoHead, KnownOps
  <1>7. ~Refused'
    BY <1>1, <1>3, <1>4, <1>5, <1>6, ExitStep
  <1>8. /\ rest \in Nat /\ cost \in Nat /\ rest - cost \in Nat
        /\ Ends(instrs, instr + 1) => rest = cost
    BY <1>1, <1>6, RestFacts
  <1>9. Stepwise!gas_charged = gas_left + (rest - cost)
    BY <1>1, <1>6, RequirementsMet
  <1>10. current_fn \notin GasCorrectedOps
    BY <1>1 DEF TermOps, GasCorrectedOps, AnyCall, AnyCreate, OP_STOP, OP_INVALID, OP_RETURN, OP_REVERT, OP_SSTORE,
       OP_GAS, OP_CALL, OP_DELEGATECALL, OP_STATICCALL, OP_CREATE, OP_CREATE2
  <1>11. CASE current_fn \in {OP_STOP, OP_RETURN, OP_REVERT}
    <2>1. rest = cost
      <3>1. Ends(instrs, instr + 1)
        BY <1>3, <1>11 DEF Ends, BlockTerminators
      <3> QED
        BY <1>8, <3>1
    <2>2. Stepwise!gas_charged = gas_left /\ r.gas_left + rest - cost = r.gas_left
      <3> HIDE DEF rest, cost
      <3> QED
        BY <1>3, <1>5, <1>8, <1>9, <2>1
    <2>3. Leaves(r.status, r.gas_left)
      BY <1>1, <1>4, <1>7, <1>10, <2>2, ExitMapped
    <2> QED
      BY <1>1, <1>2, <2>2, <2>3, InvokeTermMapped
  <1>12. CASE current_fn = OP_INVALID
    <2> DEFINE st == "INVALID_INSTRUCTION"
               x == gas_left + rest - cost
               t == [status |-> st, gas_left |-> x]
    <2>1. \A g : TermOutcomes(current_fn, g) = [status : {st}, gas_left : {g}]
      BY <1>12, InvalidOutcome
    <2>2. r.status = st /\ r.gas_left = gas_left
      <3>1. r \in [status : {st}, gas_left : {gas_left}]
        BY <1>2, <2>1
      <3> QED
        BY <3>1
    <2>3. x = Stepwise!gas_charged
      <3> HIDE DEF rest, cost
      <3> QED
        BY <1>3, <1>8, <1>9
    <2>4. st \notin {SUCCESS, REVERT}
      BY DEF SUCCESS, REVERT
    <2>5. Leaves(st, x)
      BY <1>1, <1>4, <1>7, <1>10, <2>2, <2>4, ExitMapped
    <2> HIDE DEF x, st
    <2>6. t \in TermOutcomes(current_fn, Stepwise!gas_charged) /\ t.status = st /\ t.gas_left = x
      BY <2>1, <2>3
    <2> HIDE DEF t
    <2> QED
      BY <1>1, <2>5, <2>6, InvokeTermMapped
  <1> QED
    BY <1>1, <1>11, <1>12 DEF TermOps

(* An undefined instruction.                                               *)
LEMMA UndefinedMapped ==
  ASSUME AInv, op_undefined
  PROVE  Stepwise!Next
  <1> DEFINE rest == rest_from(instr)
             st == "UNDEFINED_INSTRUCTION"
             op == current_fn
  <1>1. phase = "run" /\ ~Defined(op) /\ Exit(st, gas_left, stack_top)
    BY DEF op_undefined
  <1>2. gas_left \in Nat /\ gas_left \in Int /\ stack_top \in Int /\ op \in Byte
    BY <1>1, RunFacts
  <1>3. /\ st \in StatusCode /\ st \notin {SUCCESS, REVERT} /\ st \notin {"STACK_UNDERFLOW", "STACK_OVERFLOW"}
        /\ st # "OUT_OF_GAS"
    BY DEF StatusCode, FAILURES, SUCCESS, REVERT
  <1>4. op # OP_JUMPDEST /\ op \notin TermOps /\ op \notin GasCorrectedOps
    BY <1>1, TermIsNoHead, KnownOps
  <1>5. ~Refused'
    BY <1>1, <1>2, <1>3, ExitStep
  <1>6. rest \in Nat /\ instr # 0
    BY <1>1, <1>4, RestFacts
  <1>7. op_gas_cost(op) = 0 /\ stack_height_change[op] = 0
    BY <1>1, <1>2, OpCost, UndefinedIsNeutral
  <1>8. gas_left + rest = gas_left + rest - op_gas_cost(op) /\ stack_top - stack_height_change[op] = stack_top
    <2> HIDE DEF rest
    <2> QED
      BY <1>2, <1>6, <1>7
  <1>9. Leaves(st, gas_left + rest)
    BY <1>1, <1>3, <1>4, <1>5, <1>8, ExitMapped
  <1>10. BaselinePhase = "run" /\ BaselineGas = gas_left + rest
    BY <1>1, RunMapped DEF RunsLike
  <1>11. Stepwise!current_op = op
    BY <1>1, <1>6, SamePlace
  <1>12. ~Stepwise!Defined(Stepwise!current_op)
    BY <1>1, <1>11, SameCosts
  <1>13. Stepwise!Exit(st, BaselineGas)
    BY <1>9, <1>10, StepwiseShapes
  <1>14. Stepwise!UndefinedInstruction
    BY <1>10, <1>12, <1>13 DEF Stepwise!UndefinedInstruction
  <1> QED
    BY <1>14 DEF Stepwise!Next, Stepwise!Dispatch

(* The jumps.  A JUMPI that is not taken begins a block, which may be      *)
(* refused: Baseline is still at the JUMPI.                                *)
LEMMA JumpsMapped ==
  ASSUME AInv, OpJump \/ OpJumpi
  PROVE  Stepwise!Next \/ UNCHANGED Stepwise!vars
  <1> DEFINE op == current_fn
             chg == stack_height_change[op]
  <1>1. phase = "run" /\ op \in {OP_JUMP, OP_JUMPI}
    BY DEF OpJump, OpJumpi
  <1>2. op # OP_JUMPDEST /\ Defined(op) /\ op \in Byte
    BY <1>1, TermIsNoHead, KnownOps DEF CodeOps
  <1>3. /\ Stepwise!current_op = op /\ \A ops : op \in ops => Stepwise!Checked(ops)
        /\ Stepwise!gas_charged = gas_left + (rest_from(instr) - op_gas_cost(op))
    BY <1>1, <1>2, RequirementsMet
  <1>4. CASE OpJump
    <2>1. op = OP_JUMP
      BY <1>4 DEF OpJump
    <2>2. PICK dst \in Words : op_jump(dst)
      BY <1>4 DEF OpJump
    <2>3. JumpTo(dst, adjusted_top)
      BY <2>2 DEF op_jump
    <2>4. Stepwise!jump_impl(dst)
      BY <1>1, <2>3, JumpMapped
    <2>5. Stepwise!Checked({Stepwise!OP_JUMP})
      BY <1>3, <2>1, SameClasses
    <2>6. Stepwise!InvokeJump
      BY <2>4, <2>5 DEF Stepwise!InvokeJump, Stepwise!invoke_jump
    <2> QED
      BY <2>6 DEF Stepwise!Next, Stepwise!Dispatch
  <1>5. CASE OpJumpi
    <2>1. op = OP_JUMPI
      BY <1>5 DEF OpJumpi
    <2>2. PICK cond \in Words : \E dst \in Words : op_jumpi(dst, cond)
      BY <1>5 DEF OpJumpi
    <2>3. PICK dst \in Words : op_jumpi(dst, cond)
      BY <2>2
    <2>4. Stepwise!Checked({Stepwise!OP_JUMPI})
      BY <1>3, <2>1, SameClasses
    <2>5. Stepwise!invoke_jumpi(dst, cond) => Stepwise!Next
      <3>1. Stepwise!invoke_jumpi(dst, cond) => Stepwise!InvokeJumpi
        BY <2>4 DEF Stepwise!InvokeJumpi
      <3> QED
        BY <3>1 DEF Stepwise!Next, Stepwise!Dispatch
    <2>6. CASE cond # 0
      <3>1. JumpTo(dst, adjusted_top)
        BY <2>3, <2>6 DEF op_jumpi
      <3>2. Stepwise!jump_impl(dst)
        BY <1>1, <3>1, JumpMapped
      <3>3. Stepwise!invoke_jumpi(dst, cond)
        BY <2>4, <2>6, <3>2 DEF Stepwise!invoke_jumpi
      <3> QED
        BY <2>5, <3>3
    <2>7. CASE cond = 0
      <3>1. beginblock(adjusted_top)
        BY <2>3, <2>7 DEF op_jumpi
      <3>2. /\ stack_top \in Int /\ gas_left \in Nat /\ instr + 1 \in 1 .. Len(instrs)
            /\ op = instrs[instr + 1].fn
        BY <1>1, RunFacts
      <3>3. chg \in Int /\ adjusted_top = stack_top + chg /\ adjusted_top \in 0 .. StackLimit
        BY <1>1, <1>2, StackTraits, CheckedInstruction DEF adjusted_top
      <3>4. adjusted_top - chg = stack_top
        BY <3>2, <3>3
      <3>5. ASSUME NEW st, Exit(st, gas_left - Instr(instr).arg.gas_cost, adjusted_top),
                   \/ st = "OUT_OF_GAS" /\ gas_left - Instr(instr).arg.gas_cost < 0
                   \/ st = "STACK_UNDERFLOW" /\ adjusted_top < Instr(instr).arg.stack_req
                   \/ st = "STACK_OVERFLOW" /\ adjusted_top + Instr(instr).arg.stack_max_growth > StackLimit
            PROVE  UNCHANGED Stepwise!vars
        <4>1. Refused'
          BY <1>1, <2>1, <3>3, <3>5, RefusedStep
        <4>2. Rests
          BY <1>1, <2>1, <3>4, <3>5, <4>1, RefusalMapped
        <4> QED
          BY <4>2, StepwiseShapes
      <3>6. ASSUME EnterBlock(adjusted_top)
            PROVE  Stepwise!Next
        <4>1. rest_from(instr) = op_gas_cost(op) /\ op_gas_cost(op) \in Nat /\ instr # 0
          <5>1. Ends(instrs, instr + 1)
            BY <2>1, <3>2 DEF Ends
          <5> QED
            BY <1>1, <1>2, <5>1, RestFacts
        <4>2. Stepwise!gas_charged = gas_left - 0
          BY <1>3, <3>2, <4>1
        <4>3. Goes(BaselinePosition + 1, chg, gas_left - 0)
          BY <1>1, <2>1, <3>3, <3>6, <4>1, EnterMapped
        <4>4. Stepwise!Continue(Stepwise!current_op, BaselinePosition + 1, Stepwise!gas_charged)
          BY <1>3, <4>2, <4>3, StepwiseShapes
        <4>5. Stepwise!invoke_jumpi(dst, cond)
          BY <2>4, <2>7, <4>4 DEF Stepwise!invoke_jumpi
        <4> QED
          BY <2>5, <4>5
      <3> QED
        BY <1>1, <3>1, <3>3, <3>5, <3>6, BeginblockCases
    <2> QED
      BY <2>6, <2>7
  <1> QED
    BY <1>4, <1>5

(* The result is made.                                                     *)
LEMMA MakeResultMapped ==
  ASSUME AInv, MakeResult
  PROVE  Stepwise!Next \/ UNCHANGED Stepwise!vars
  <1>1. /\ phase = "exit" /\ phase' = "done"
        /\ result' = [status |-> status, gas_left |-> IF status \in {SUCCESS, REVERT} THEN gas_left ELSE 0]
        /\ UNCHANGED analysisVars /\ instr' = instr /\ stack_top' = stack_top /\ gas_left' = gas_left
        /\ current_block_cost' = current_block_cost /\ status' = status
    BY DEF MakeResult
  <1>2. /\ code' = code /\ BaselineCursor' = BaselineCursor /\ BaselineMap' = BaselineMap
        /\ BaselinePosition' = BaselinePosition /\ (current_fn)' = current_fn
        /\ (rest_from(instr))' = rest_from(instr) /\ (Instr(instr).arg)' = Instr(instr).arg
    BY <1>1, MappedFrame DEF Instr
  <1>3. EndTop' = EndTop /\ EndGas' = EndGas
    BY <1>1, <1>2 DEF EndTop, EndGas
  <1>4. Refused' <=> Refused
    BY <1>1, <1>2 DEF Refused
  <1>5. CASE ~Refused
    <2>1. /\ BaselineTop = EndTop /\ BaselinePhase = "exit" /\ BaselineStatus = status /\ BaselineGas = EndGas
      BY <1>1, <1>5, EndMapped DEF EndsLike
    <2>2. /\ BaselineTop' = EndTop' /\ BaselinePhase' = "done" /\ BaselineStatus' = status'
          /\ BaselineResult' = result' /\ BaselineGas' = EndGas'
      BY <1>1, <1>4, <1>5, EndMappedNext DEF EndsLike
    <2>3. status \in {SUCCESS, REVERT} => EndGas = gas_left
      BY DEF EndGas
    <2>4. BaselineResult' = [status |-> BaselineStatus,
                             gas_left |-> IF BaselineStatus \in {Stepwise!SUCCESS, Stepwise!REVERT}
                                          THEN BaselineGas ELSE 0]
      BY <1>1, <2>1, <2>2, <2>3, SameClasses
    <2>5. Stepwise!MakeResult
      BY <1>1, <1>2, <1>3, <2>1, <2>2, <2>4 DEF Stepwise!MakeResult, Stepwise!analysisVars
    <2> QED
      BY <2>5 DEF Stepwise!Next
  <1>6. CASE Refused
    <2>1. /\ BaselineTop = EndTop /\ BaselinePhase = "run" /\ BaselineStatus = SUCCESS
          /\ BaselineResult = [status |-> "NONE", gas_left |-> 0]
          /\ BaselineGas = gas_left + Instr(instr).arg.gas_cost + rest_from(instr)
      BY <1>1, <1>6, EndMapped DEF EndsLike
    <2>2. /\ BaselineTop' = EndTop' /\ BaselinePhase' = "run" /\ BaselineStatus' = SUCCESS
          /\ BaselineResult' = [status |-> "NONE", gas_left |-> 0]
          /\ BaselineGas' = gas_left' + (Instr(instr).arg)'.gas_cost + (rest_from(instr))'
      BY <1>1, <1>4, <1>6, EndMappedNext DEF EndsLike
    <2>3. Rests
      BY <1>1, <1>2, <1>3, <2>1, <2>2 DEF Rests
    <2> QED
      BY <2>3, StepwiseShapes
  <1> QED
    BY <1>5, <1>6

(* The state of Baseline before the first entry is executed.               *)
StartsLike ==
  AInv /\ phase \in {"analyze", "skip", "run"} /\ instr = 0 =>
    /\ BaselinePhase = IF phase = "run" THEN "run" ELSE "analyze"
    /\ BaselineTop = stack_top /\ BaselineGas = gas_left
    /\ BaselinePosition = Uncut(0)
    /\ BaselineStatus = status /\ BaselineResult = result

(* It is this one.                                                         *)
LEMMA StartMapped == StartsLike
  <1> SUFFICES ASSUME AInv, phase \in {"analyze", "skip", "run"}, instr = 0
               PROVE  /\ BaselinePhase = IF phase = "run" THEN "run" ELSE "analyze"
                      /\ BaselineTop = stack_top /\ BaselineGas = gas_left
                      /\ BaselinePosition = Uncut(0)
                      /\ BaselineStatus = status /\ BaselineResult = result
    BY DEF StartsLike
  <1>1. ~Refused
    BY DEF Refused
  <1>2. BaselinePhase = IF phase = "run" THEN "run" ELSE "analyze"
    BY <1>1 DEF BaselinePhase
  <1>3. Instr(instr) = instrs[1]
    BY DEF Instr
  <1>4. instrs[1].fn = OP_JUMPDEST /\ instrs[1].pos = 0
    BY FirstIsHead DEF AInv, Layout
  <1>5. rest_from(instr) = 0
    BY <1>3, <1>4 DEF rest_from
  <1>6. BaselineGas = gas_left
    <2>1. gas_left \in Int
      BY DEF AInv, TypeOK
    <2>2. BaselineGas = gas_left + rest_from(instr)
      BY <1>1 DEF BaselineGas
    <2> QED
      BY <1>5, <2>1, <2>2
  <1>7. BaselinePosition = Uncut(0)
    BY <1>3, <1>4 DEF BaselinePosition
  <1> QED
    BY <1>1, <1>2, <1>6, <1>7 DEF BaselineTop, BaselineStatus, BaselineResult

(* And after a step.                                                       *)
LEMMA StartMappedNext == StartsLike'
  BY StartMapped, PTL

(* A step of the analysis moves only the cursor and the map of Baseline.   *)
LEMMA ScanFrame ==
  ASSUME AInv, AInv', phase \in {"analyze", "skip"}, phase' \in {"analyze", "skip", "run"},
         code' = code, UNCHANGED executionVars
  PROVE  /\ instr = 0 /\ BaselinePhase = "analyze"
         /\ BaselinePhase' = IF phase' = "run" THEN "run" ELSE "analyze"
         /\ UNCHANGED <<BaselinePosition, BaselineTop, BaselineGas, BaselineStatus, BaselineResult>>
  <1>1. /\ instr' = instr /\ stack_top' = stack_top /\ gas_left' = gas_left /\ status' = status /\ result' = result
    BY DEF executionVars
  <1>2. instr = 0
    BY DEF AInv, Scanning
  <1>3. /\ BaselinePhase = "analyze" /\ BaselineTop = stack_top /\ BaselineGas = gas_left
        /\ BaselinePosition = Uncut(0) /\ BaselineStatus = status /\ BaselineResult = result
    BY <1>2, StartMapped DEF StartsLike
  <1>4. /\ BaselinePhase' = IF phase' = "run" THEN "run" ELSE "analyze"
        /\ BaselineTop' = stack_top' /\ BaselineGas' = gas_left'
        /\ BaselinePosition' = Uncut(0)' /\ BaselineStatus' = status' /\ BaselineResult' = result'
    BY <1>1, <1>2, StartMappedNext DEF StartsLike
  <1>5. Uncut(0)' = Uncut(0)
    BY DEF Uncut
  <1> QED
    BY <1>1, <1>2, <1>3, <1>4, <1>5

(* An instruction of the code is scanned by both.                          *)
LEMMA ScanMapped ==
  ASSUME AInv, AInv', phase \in {"analyze", "skip"}, phase' \in {"analyze", "skip"}, code' = code,
         UNCHANGED executionVars, code_pos # Len(code),
         code_pos' = min(NextPosition(code, code_pos), Len(code)),
         BaselineMap' = IF ByteAt(code, code_pos) = OP_JUMPDEST THEN BaselineMap \cup {code_pos} ELSE BaselineMap
  PROVE  Stepwise!Next
  <1> DEFINE op == ByteAt(code, code_pos)
             p == code_pos
  <1>1. code \in Programs /\ p \in InstructionStarts(code) /\ p \in Nat
    BY CodeType DEF AInv, TypeOK, Scanning
  <1>2. p \in Positions(code) /\ p \in 0 .. Len(code) - 1 /\ Len(code) \in Nat /\ op \in Byte
    BY <1>1, CodeType DEF Positions
  <1>3. BaselineCursor = p /\ p < Len(code)
    BY <1>2 DEF BaselineCursor, Uncut
  <1>4. BaselineCursor' = NextPosition(code, p)
    <2>1. BaselineCursor' = Uncut(min(NextPosition(code, p), Len(code)))
      BY DEF BaselineCursor, Uncut
    <2> QED
      BY <1>1, <2>1, UncutNext
  <1>5. BaselineCursor' = IF op \in Stepwise!AnyPush THEN p + (op - (Stepwise!OP_PUSH1 - 1)) + 1 ELSE p + 1
    <2>1. BaselineCursor' = p + 1 + immediate_size(op)
      BY <1>4 DEF NextPosition
    <2>2. immediate_size(op) \in 0 .. 32 /\ (op \notin AnyPush => immediate_size(op) = 0)
      BY <1>2, ImmediateSize
    <2>3. op \in AnyPush => op - (Stepwise!OP_PUSH1 - 1) = immediate_size(op)
      BY SameCode
    <2> DEFINE n == op - (Stepwise!OP_PUSH1 - 1)
    <2>4. op \in AnyPush => BaselineCursor' = p + n + 1
      <3> SUFFICES ASSUME op \in AnyPush PROVE BaselineCursor' = p + n + 1
        OBVIOUS
      <3>1. n = immediate_size(op)
        BY <2>3
      <3>2. \A a, m \in Nat : a + 1 + m = a + m + 1
        OBVIOUS
      <3>3. \A m \in 0 .. 32 : m \in Nat
        OBVIOUS
      <3>4. p + 1 + immediate_size(op) = p + immediate_size(op) + 1
        BY <1>1, <2>2, <3>2, <3>3, Zenon
      <3> HIDE DEF op, n
      <3> QED
        BY <2>1, <3>1, <3>4, Zenon
    <2>5. op \notin AnyPush => BaselineCursor' = p + 1
      <3> HIDE DEF op
      <3> QED
        BY <1>2, <2>1, <2>2
    <2> QED
      BY <2>4, <2>5, SameClasses, Zenon
  <1>6. /\ BaselinePhase = "analyze" /\ BaselinePhase' = "analyze"
        /\ UNCHANGED <<BaselinePosition, BaselineTop, BaselineGas, BaselineStatus, BaselineResult>>
    BY ScanFrame
  <1>7. Stepwise!ByteAt(code, BaselineCursor) = op
    BY <1>3, SameCode
  <1>8. BaselineMap' = IF op = Stepwise!OP_JUMPDEST THEN BaselineMap \cup {BaselineCursor} ELSE BaselineMap
    BY <1>3, SameClasses
  <1> HIDE DEF op, p
  <1>9. Stepwise!analyze_jumpdests
    BY <1>3, <1>5, <1>6, <1>7, <1>8 DEF Stepwise!analyze_jumpdests
  <1> QED
    BY <1>9 DEF Stepwise!Next

(* A destination is added to the map.                                      *)
LEMMA MapGrows ==
  ASSUME NEW s \in Seq(Nat), NEW x \in Nat
  PROVE  {Append(s, x)[k] : k \in DOMAIN Append(s, x)} = {s[k] : k \in DOMAIN s} \cup {x}
  <1> DEFINE t == Append(s, x)
  <1>1. /\ DOMAIN s = 1 .. Len(s) /\ DOMAIN t = 1 .. Len(s) + 1 /\ Len(s) \in Nat /\ t[Len(s) + 1] = x
        /\ \A k \in 1 .. Len(s) : t[k] = s[k]
    OBVIOUS
  <1> HIDE DEF t
  <1>2. ASSUME NEW y \in {t[k] : k \in DOMAIN t} PROVE y \in {s[k] : k \in DOMAIN s} \cup {x}
    <2>1. PICK k \in DOMAIN t : y = t[k]
      BY <1>2
    <2>2. k \in 1 .. Len(s) \/ k = Len(s) + 1
      BY <1>1
    <2> QED
      BY <1>1, <2>1, <2>2
  <1>3. ASSUME NEW y \in {s[k] : k \in DOMAIN s} \cup {x} PROVE y \in {t[k] : k \in DOMAIN t}
    <2>1. CASE y = x
      <3>1. Len(s) + 1 \in DOMAIN t
        BY <1>1
      <3> QED
        BY <1>1, <2>1, <3>1
    <2>2. CASE y \in {s[k] : k \in DOMAIN s}
      <3>1. PICK k \in DOMAIN s : y = s[k]
        BY <2>2
      <3>2. k \in DOMAIN t
        BY <1>1
      <3> QED
        BY <1>1, <3>1, <3>2
    <2> QED
      BY <1>3, <2>1, <2>2
  <1> QED
    BY <1>2, <1>3 DEF t

(* The analysis.                                                           *)
LEMMA AnalysisMapped ==
  ASSUME AInv, AInv', Analyze
  PROVE  Stepwise!Next \/ UNCHANGED Stepwise!vars
  <1>1. code \in Programs /\ code_pos \in 0 .. Len(code) /\ Len(code) \in Nat /\ jumpdest_offsets \in Seq(Nat)
    BY CodeType DEF AInv, TypeOK
  <1>2. CASE AnalyzeInstruction
    <2>1. /\ phase = "analyze" /\ phase' \in {"analyze", "skip"} /\ code' = code /\ UNCHANGED executionVars
          /\ code_pos # Len(code)
      BY <1>2 DEF AnalyzeInstruction
    <2>2. code_pos' = min(NextPosition(code, code_pos), Len(code))
      BY <1>2 DEF AnalyzeInstruction, NextPosition
    <2>3. jumpdest_offsets' = IF ByteAt(code, code_pos) = OP_JUMPDEST THEN Append(jumpdest_offsets, code_pos)
                              ELSE jumpdest_offsets
      BY <1>2 DEF AnalyzeInstruction
    <2>4. BaselineMap' = IF ByteAt(code, code_pos) = OP_JUMPDEST THEN BaselineMap \cup {code_pos} ELSE BaselineMap
      <3>1. code_pos \in Nat
        BY <1>1
      <3> QED
        BY <1>1, <2>3, <3>1, MapGrows, SMTT(60) DEF BaselineMap
    <2> QED
      BY <2>1, <2>2, <2>4, ScanMapped
  <1>3. CASE SkipDeadInstruction
    <2>1. /\ phase = "skip" /\ phase' = "skip" /\ code' = code /\ UNCHANGED executionVars
          /\ code_pos # Len(code) /\ ByteAt(code, code_pos) # OP_JUMPDEST /\ jumpdest_offsets' = jumpdest_offsets
      BY <1>3 DEF SkipDeadInstruction
    <2>2. code_pos' = min(NextPosition(code, code_pos), Len(code))
      BY <1>3 DEF SkipDeadInstruction, NextPosition
    <2>3. BaselineMap' = BaselineMap
      BY <2>1 DEF BaselineMap
    <2> QED
      BY <2>1, <2>2, <2>3, ScanMapped
  <1>4. CASE SkipEnds
    <2>1. phase = "skip" /\ phase' = "analyze" /\ UNCHANGED analysisVars /\ UNCHANGED executionVars
      BY <1>4 DEF SkipEnds
    <2>2. code' = code /\ BaselineCursor' = BaselineCursor /\ BaselineMap' = BaselineMap
      BY <2>1, MappedFrame
    <2>3. /\ BaselinePhase = "analyze" /\ BaselinePhase' = "analyze"
          /\ UNCHANGED <<BaselinePosition, BaselineTop, BaselineGas, BaselineStatus, BaselineResult>>
      BY <2>1, <2>2, ScanFrame
    <2>4. Rests
      BY <2>2, <2>3 DEF Rests
    <2> QED
      BY <2>4, StepwiseShapes
  <1>5. CASE FinishAnalysis
    <2>1. /\ phase = "analyze" /\ phase' = "run" /\ code_pos = Len(code) /\ UNCHANGED executionVars
          /\ code' = code /\ code_pos' = code_pos /\ jumpdest_offsets' = jumpdest_offsets
      BY <1>5 DEF FinishAnalysis
    <2>2. BaselineCursor' = BaselineCursor /\ BaselineMap' = BaselineMap
      BY <2>1 DEF BaselineCursor, BaselineMap, Uncut
    <2>3. /\ BaselinePhase = "analyze" /\ BaselinePhase' = "run"
          /\ UNCHANGED <<BaselinePosition, BaselineTop, BaselineGas, BaselineStatus, BaselineResult>>
      BY <2>1, ScanFrame
    <2>4. BaselineCursor >= Len(code)
      <3>1. BaselineCursor = EndPosition(code)
        BY <1>1, <2>1 DEF BaselineCursor, Uncut
      <3>2. EndPosition(code) \in Len(code) .. Len(code) + 32
        BY <1>1, EndPlace
      <3> QED
        BY <1>1, <3>1, <3>2
    <2>5. Stepwise!StartDispatch
      BY <2>1, <2>2, <2>3, <2>4 DEF Stepwise!StartDispatch
    <2> QED
      BY <2>5 DEF Stepwise!Next
  <1> QED
    BY <1>2, <1>3, <1>4, <1>5 DEF Analyze

(* Every step of Advanced is a step of Baseline, or none.                  *)
LEMMA StepMapped == AInv /\ AInv' /\ [Next]_vars => [Stepwise!Next]_(Stepwise!vars)
  <1> SUFFICES ASSUME AInv, AInv', [Next]_vars PROVE Stepwise!Next \/ UNCHANGED Stepwise!vars
    OBVIOUS
  <1>1. CASE Analyze
    BY <1>1, AnalysisMapped
  <1>2. CASE Execute
    BY <1>2, BeginMapped, UndefinedMapped, ForwardMapped, ResultMapped, CorrectedMapped, TermMapped, JumpsMapped
       DEF Execute
  <1>3. CASE MakeResult
    BY <1>3, MakeResultMapped
  <1>4. CASE UNCHANGED vars
    <2>1. /\ phase' = phase /\ code' = code /\ code_pos' = code_pos /\ instrs' = instrs
          /\ jumpdest_offsets' = jumpdest_offsets /\ instr' = instr /\ stack_top' = stack_top
          /\ gas_left' = gas_left /\ current_block_cost' = current_block_cost /\ status' = status
          /\ result' = result /\ UNCHANGED analysisVars
      BY <1>4 DEF vars, analysisVars
    <2>2. /\ BaselineCursor' = BaselineCursor /\ BaselineMap' = BaselineMap
          /\ BaselinePosition' = BaselinePosition /\ (current_fn)' = current_fn
          /\ (rest_from(instr))' = rest_from(instr) /\ (Instr(instr).arg)' = Instr(instr).arg
      BY <2>1, MappedFrame DEF Instr
    <2>3. Refused' <=> Refused
      BY <2>1, <2>2 DEF Refused
    <2>4. BaselinePhase' = BaselinePhase /\ BaselineTop' = BaselineTop
      BY <2>1, <2>2, <2>3 DEF BaselinePhase, BaselineTop
    <2>5. BaselineGas' = BaselineGas
      BY <2>1, <2>2, <2>3 DEF BaselineGas
    <2>6. BaselineStatus' = BaselineStatus /\ BaselineResult' = BaselineResult
      BY <2>1, <2>3 DEF BaselineStatus, BaselineResult
    <2>7. Rests
      BY <2>1, <2>2, <2>4, <2>5, <2>6 DEF Rests
    <2> QED
      BY <2>7, StepwiseShapes
  <1> QED
    BY <1>1, <1>2, <1>3, <1>4 DEF Next

(* The initial states are those of Baseline.                               *)
LEMMA InitMapped == Init => Stepwise!Init
  <1> SUFFICES ASSUME Init PROVE Stepwise!Init
    OBVIOUS
  <1>1. AInv
    BY InitEstablishes
  <1>2. /\ phase = "analyze" /\ code \in Programs /\ code_pos = 0 /\ jumpdest_offsets = <<>> /\ instr = 0
        /\ stack_top = 0 /\ gas_left \in GasLimits /\ status = SUCCESS
        /\ result = [status |-> "NONE", gas_left |-> 0]
    BY DEF Init
  <1>3. Uncut(0) = 0
    <2>1. Len(code) \in Nat
      BY <1>2, CodeType
    <2> QED
      BY <1>2, <2>1, EndOfCode DEF Uncut
  <1>4. BaselineCursor = 0
    BY <1>2, <1>3 DEF BaselineCursor
  <1>5. BaselineMap = {}
    BY <1>2 DEF BaselineMap
  <1>6. /\ BaselinePhase = "analyze" /\ BaselineTop = 0 /\ BaselineGas = gas_left
        /\ BaselinePosition = 0 /\ BaselineStatus = SUCCESS /\ BaselineResult = [status |-> "NONE", gas_left |-> 0]
    BY <1>1, <1>2, <1>3, StartMapped DEF StartsLike
  <1> QED
    BY <1>2, <1>4, <1>5, <1>6, SameClasses DEF Stepwise!Init, Stepwise!NoResult

(* Advanced implements Baseline, whatever the programs, the gas limits and *)
(* the outcomes of the core functions: one check per block is not          *)
(* observable.                                                             *)
THEOREM BaselineImplemented == Spec => ImplementsBaseline
  <1>1. Init => Stepwise!Init
    BY InitMapped
  <1>2. AInv /\ AInv' /\ [Next]_vars => [Stepwise!Next]_(Stepwise!vars)
    BY StepMapped
  <1> QED
    BY <1>1, <1>2, Invariance, PTL DEF Spec, ImplementsBaseline, Stepwise!Spec
==============================================================================
