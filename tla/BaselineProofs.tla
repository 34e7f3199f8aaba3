--------------------------- MODULE BaselineProofs ----------------------------
(***************************************************************************)
(* Proofs about module Baseline, for every set of programs, gas limits and *)
(* words and for every stack limit.                                        *)
(***************************************************************************)
EXTENDS Baseline, TLAPS

------------------------------------------------------------------------------
(* The instruction tables.                                                 *)

(* The base costs are numbers, -1 at least.                                *)
LEMMA GasCostsBound ==
  \A op \in Byte : gas_costs[op] \in Int /\ gas_costs[op] >= -1
  <1> SUFFICES ASSUME NEW op \in Byte
               PROVE  gas_costs[op] \in Int /\ gas_costs[op] >= -1
    OBVIOUS
  <1>1. base_cost(op) \in Int
    BY DEF base_cost, Byte, undefined, warm_storage_read_cost, OP_LOG0
  <1>2. CASE op \notin AnyLog
    <2>1. base_cost(op) >= -1
      BY <1>2 DEF base_cost, Byte, undefined, warm_storage_read_cost
    <2> QED
      BY <1>1, <2>1 DEF gas_costs
  <1>3. CASE op \in AnyLog
    <2>1. op \in 160 .. 164
      BY <1>3 DEF AnyLog, OP_LOG0, OP_LOG4
    <2>2. base_cost(op) >= -1
      BY <2>1 DEF base_cost, undefined, warm_storage_read_cost, OP_LOG0
    <2> QED
      BY <1>1, <2>2 DEF gas_costs
  <1> QED
    BY <1>2, <1>3

(* An instruction removes no more items than it requires and adds at most  *)
(* one.                                                                    *)
LEMMA StackTraits ==
  \A op \in Byte :
    /\ stack_height_required[op] \in Nat
    /\ stack_height_change[op] \in Int
    /\ stack_height_change[op] <= 1
    /\ stack_height_change[op] + stack_height_required[op] >= 0
  <1> SUFFICES ASSUME NEW op \in Byte
               PROVE  /\ stack_height_required[op] \in Nat
                      /\ stack_height_change[op] \in Int
                      /\ stack_height_change[op] <= 1
                      /\ stack_height_change[op] + stack_height_required[op] >= 0
    OBVIOUS
  <1> USE DEF AnyLog, AnyDup, AnySwap, OP_LOG0, OP_LOG4, OP_DUP1, OP_DUP16, OP_SWAP1, OP_SWAP16
  <1>1. items_required(op) \in Nat
    BY DEF items_required, Byte
  <1>2. items_added(op) \in Int
    BY DEF items_added, Byte
  <1>3. items_added(op) <= 1
    BY DEF items_added, Byte
  <1>4. items_added(op) + items_required(op) >= 0
    BY DEF items_added, items_required, Byte, EnvPush, AnyPush, OP_PUSH1, OP_PUSH32,
           OP_ISZERO, OP_NOT, OP_POP, OP_JUMP, OP_JUMPI, OP_CREATE, OP_CREATE2, OP_RETURN, OP_REVERT,
           OP_EXTCODECOPY, OP_DELEGATECALL, OP_STATICCALL, OP_CALL
  <1>5. stack_height_required[op] = items_required(op) /\ stack_height_change[op] = items_added(op)
    BY DEF stack_height_required, stack_height_change
  <1> QED
    BY <1>1, <1>2, <1>3, <1>4, <1>5

(* The instructions whose implementations invoke() distinguishes have a    *)
(* base cost; that of a jump is positive.                                  *)
LEMMA CostOfInvoked ==
  ASSUME NEW op \in ResultOps \cup TermOps \cup CodeOps
  PROVE  op \in Byte /\ gas_costs[op] \in Nat
  <1> USE DEF ResultOps, TermOps, CodeOps, AnyPush, AnyLog, AnyCall, AnyCreate, OP_EXP, OP_KECCAK256,
              OP_BALANCE, OP_CALLDATACOPY, OP_CODECOPY, OP_EXTCODESIZE, OP_EXTCODECOPY,
              OP_RETURNDATACOPY, OP_EXTCODEHASH, OP_MLOAD, OP_MSTORE, OP_MSTORE8, OP_SLOAD, OP_SSTORE,
              OP_GAS, OP_LOG0, OP_LOG4, OP_CALL, OP_DELEGATECALL, OP_STATICCALL, OP_CREATE, OP_CREATE2,
              OP_STOP, OP_INVALID, OP_RETURN, OP_REVERT, OP_JUMP, OP_JUMPI, OP_PC, OP_PUSH1, OP_PUSH32
  <1>1. op \in Byte
    BY DEF Byte
  <1>2. base_cost(op) # undefined
    BY DEF base_cost, undefined, warm_storage_read_cost, EnvPush, OP_SELFBALANCE
  <1> QED
    BY <1>1, <1>2, GasCostsBound DEF gas_costs, undefined

(* A jump costs gas.                                                       *)
LEMMA JumpCosts == gas_costs[OP_JUMP] > 0 /\ gas_costs[OP_JUMPI] > 0
  <1> USE DEF OP_JUMP, OP_JUMPI
  <1>1. OP_JUMP \in Byte /\ OP_JUMPI \in Byte
    BY DEF Byte
  <1>2. base_cost(OP_JUMP) > 0
    BY DEF base_cost, AnyLog, OP_LOG0, OP_LOG4, OP_STOP, OP_SSTORE, OP_RETURN, OP_REVERT, OP_INVALID,
           warm_storage_read_cost
  <1>3. base_cost(OP_JUMPI) > 0
    BY DEF base_cost, AnyLog, OP_LOG0, OP_LOG4, OP_STOP, OP_SSTORE, OP_RETURN, OP_REVERT, OP_INVALID,
           warm_storage_read_cost
  <1> QED
    BY <1>1, <1>2, <1>3 DEF gas_costs

------------------------------------------------------------------------------
(* The structure of code.                                                  *)

(* Push data is 1 to 32 bytes long.                                        *)
LEMMA ImmediateSize ==
  ASSUME NEW op \in Byte
  PROVE  immediate_size(op) \in 0 .. 32 /\ (op \notin AnyPush => immediate_size(op) = 0)
  BY DEF immediate_size, AnyPush, OP_PUSH1, OP_PUSH32, Byte

(* Codes are byte strings.                                                 *)
LEMMA CodeType ==
  ASSUME NEW c \in Programs
  PROVE  /\ Len(c) \in Nat
         /\ \A p \in Positions(c) : ByteAt(c, p) \in Byte
  BY ProgramsAssumption DEF Positions, ByteAt

(* The next instruction is ahead, by at most the longest push.             *)
LEMMA NextIsAhead ==
  ASSUME NEW c \in Programs, NEW p \in Positions(c)
  PROVE  NextPosition(c, p) \in (p + 1) .. (p + 33)
  <1>1. p \in Nat /\ ByteAt(c, p) \in Byte
    BY CodeType DEF Positions
  <1> QED
    BY <1>1, ImmediateSize DEF NextPosition

(* The first byte is an instruction, and so is what follows one.           *)
LEMMA StartsAreClosed ==
  ASSUME NEW c \in Programs
  PROVE  /\ 0 \in Positions(c) => 0 \in InstructionStarts(c)
         /\ \A p \in InstructionStarts(c) :
              /\ p \in Positions(c)
              /\ NextPosition(c, p) \in Positions(c) => NextPosition(c, p) \in InstructionStarts(c)
  BY DEF InstructionStarts, ClosedUnderNext

(* Nothing else is: a closed set contains all instructions.                *)
LEMMA StartsAreLeast ==
  ASSUME NEW c \in Programs, NEW S \in SUBSET Positions(c), ClosedUnderNext(c, S)
  PROVE  InstructionStarts(c) \subseteq S
  BY DEF InstructionStarts

(* If all instructions before the instruction at k end at or before k,     *)
(* then no instruction starts inside the one at k.                         *)
LEMMA NoStartInside ==
  ASSUME NEW c \in Programs, NEW k \in Positions(c),
         \A q \in InstructionStarts(c) : q < k => NextPosition(c, q) <= k
  PROVE  \A q \in InstructionStarts(c) : ~(k < q /\ q < NextPosition(c, k))
  <1> DEFINE S == {q \in InstructionStarts(c) : ~(k < q /\ q < NextPosition(c, k))}
  <1>1. S \in SUBSET Positions(c) /\ Positions(c) \subseteq Nat /\ k \in Nat
    BY DEF InstructionStarts, Positions
  <1>2. 0 \in Positions(c) => 0 \in S
    BY <1>1, StartsAreClosed
  <1>3. ASSUME NEW q \in S, NextPosition(c, q) \in Positions(c)
        PROVE  NextPosition(c, q) \in S
    <2>1. q \in Positions(c) /\ q \in Nat /\ NextPosition(c, q) \in InstructionStarts(c)
      BY <1>1, <1>3, StartsAreClosed
    <2>2. NextPosition(c, q) \in (q + 1) .. (q + 33) /\ NextPosition(c, k) \in (k + 1) .. (k + 33)
      BY <2>1, NextIsAhead
    <2>3. CASE q < k
      BY <1>1, <2>1, <2>2, <2>3
    <2>4. CASE q = k
      BY <1>1, <2>1, <2>2, <2>4
    <2>5. CASE q > k
      <3>1. q >= NextPosition(c, k)
        BY <1>1, <2>1, <2>2, <2>5
      <3> QED
        BY <1>1, <2>1, <2>2, <3>1
    <2> QED
      BY <1>1, <2>1, <2>3, <2>4, <2>5
  <1>4. InstructionStarts(c) \subseteq S
    BY <1>1, <1>2, <1>3, StartsAreLeast DEF ClosedUnderNext
  <1> QED
    BY <1>4

------------------------------------------------------------------------------
(* The inductive invariant.                                                *)

(* p is an instruction of c, or the code has ended.                        *)
Aligned(c, p) == p \in InstructionStarts(c) \/ p >= Len(c)

(* What analyze_jumpdests() knows at cursor: it stands on an instruction,  *)
(* those before it end before it, and exactly the JUMPDESTs among them are *)
(* marked.  The second part makes it inductive: without it an instruction  *)
(* could start in the push data the cursor skips.                          *)
AnalysisInv ==
  /\ Aligned(code, cursor)
  /\ \A q \in InstructionStarts(code) : q < cursor => NextPosition(code, q) <= cursor
  /\ jumpdest_map = {p \in JumpDests(code) : p < cursor}

(* The dispatch loop reads inside the buffer and at instructions only, and *)
(* an execution that ends well has not overdrawn its gas.                  *)
DispatchInv ==
  /\ phase # "analyze" => cursor >= Len(code)
  /\ phase = "analyze" => code_it = 0
  /\ code_it <= BufferEnd(code)
  /\ Aligned(code, code_it)
  /\ phase = "exit" /\ status \in {SUCCESS, REVERT} => gas \in Nat

IInv == TypeOK /\ AnalysisInv /\ DispatchInv

(* The initial state.                                                      *)
LEMMA InitEstablishes == Init => IInv
  <1> SUFFICES ASSUME Init PROVE IInv
    OBVIOUS
  <1>1. Len(code) \in Nat
    BY CodeType DEF Init
  <1>2. TypeOK
    BY GasLimitsAssumption, StackLimitAssumption DEF Init, TypeOK, NoResult, StatusCode
  <1>3. Aligned(code, 0)
    BY <1>1, StartsAreClosed DEF Init, Aligned, Positions
  <1>4. InstructionStarts(code) \subseteq Nat
    BY DEF InstructionStarts, Positions
  <1>5. AnalysisInv
    BY <1>3, <1>4 DEF Init, AnalysisInv, JumpDests
  <1>6. DispatchInv
    BY <1>1, <1>3 DEF Init, DispatchInv, BufferEnd, padding
  <1> QED
    BY <1>2, <1>5, <1>6 DEF IInv

(* One iteration of the analysis: the cursor moves to the next instruction *)
(* and nothing starts in between.                                          *)
LEMMA AnalyzeStep ==
  ASSUME IInv, analyze_jumpdests
  PROVE  IInv'
  <1> DEFINE op == ByteAt(code, cursor)
  <1>1. /\ phase = "analyze" /\ cursor \in Positions(code) /\ cursor \in Nat /\ op \in Byte
        /\ code \in Programs /\ Len(code) \in Nat
        /\ UNCHANGED <<phase, code, code_it, stack_top, gas, status, result>>
    BY CodeType DEF analyze_jumpdests, IInv, TypeOK, Positions
  <1>2. cursor' = NextPosition(code, cursor) /\ cursor' \in Nat /\ cursor' > cursor
    <2>1. cursor' = NextPosition(code, cursor)
      <3>1. cursor' = IF op \in AnyPush THEN cursor + (op - (OP_PUSH1 - 1)) + 1 ELSE cursor + 1
        BY DEF analyze_jumpdests
      <3> HIDE DEF op
      <3>2. op \in Int
        BY <1>1 DEF Byte
      <3>3. NextPosition(code, cursor) = cursor + 1 + immediate_size(op)
        BY DEF NextPosition, op
      <3> QED
        BY <1>1, <3>1, <3>2, <3>3 DEF immediate_size, OP_PUSH1
    <2> QED
      BY <1>1, <2>1, NextIsAhead
  <1>3. cursor \in InstructionStarts(code)
    BY <1>1 DEF IInv, AnalysisInv, Aligned, Positions
  <1>4. \A q \in InstructionStarts(code) : q \in Nat /\ (q < cursor' => q <= cursor)
    <2>1. \A q \in InstructionStarts(code) : ~(cursor < q /\ q < NextPosition(code, cursor))
      BY <1>1, NoStartInside DEF IInv, AnalysisInv
    <2>2. InstructionStarts(code) \subseteq Nat
      BY DEF InstructionStarts, Positions
    <2> QED
      BY <1>1, <1>2, <2>1, <2>2
  <1>5. Aligned(code, cursor')
    BY <1>1, <1>2, <1>3, StartsAreClosed DEF Aligned, Positions
  <1>6. \A q \in InstructionStarts(code) : q < cursor' => NextPosition(code, q) <= cursor'
    <2> SUFFICES ASSUME NEW q \in InstructionStarts(code), q < cursor'
                 PROVE  NextPosition(code, q) <= cursor'
      OBVIOUS
    <2>1. q \in Nat /\ q <= cursor /\ q \in Positions(code)
      BY <1>1, <1>4, StartsAreClosed
    <2>2. CASE q = cursor
      BY <1>2, <2>2
    <2>3. CASE q < cursor
      <3>1. NextPosition(code, q) <= cursor /\ NextPosition(code, q) \in Nat
        BY <1>1, <2>1, <2>3, NextIsAhead DEF IInv, AnalysisInv
      <3> QED
        BY <1>1, <1>2, <3>1
    <2> QED
      BY <1>1, <2>1, <2>2, <2>3
  <1>7. jumpdest_map' = {p \in JumpDests(code) : p < cursor'}
    <2>1. jumpdest_map' = IF op = OP_JUMPDEST THEN jumpdest_map \cup {cursor} ELSE jumpdest_map
      BY DEF analyze_jumpdests
    <2>2. jumpdest_map = {p \in JumpDests(code) : p < cursor}
      BY DEF IInv, AnalysisInv
    <2>3. \A p \in JumpDests(code) : p \in Nat /\ (p < cursor' <=> p < cursor \/ p = cursor)
      BY <1>1, <1>2, <1>4 DEF JumpDests
    <2>4. cursor \in JumpDests(code) <=> op = OP_JUMPDEST
      BY <1>3 DEF JumpDests
    <2> QED
      BY <2>1, <2>2, <2>3, <2>4
  <1>8. TypeOK'
    <2>1. jumpdest_map' \subseteq Positions(code)
      BY <1>1, <1>7, StartsAreClosed DEF JumpDests
    <2> QED
      BY <1>1, <1>2, <2>1 DEF IInv, TypeOK
  <1>9. AnalysisInv'
    BY <1>1, <1>5, <1>6, <1>7 DEF AnalysisInv
  <1>10. DispatchInv'
    BY <1>1 DEF IInv, DispatchInv, Aligned, BufferEnd
  <1> QED
    BY <1>8, <1>9, <1>10 DEF IInv

(* The end of the analysis.                                                *)
LEMMA StartDispatchStep ==
  ASSUME IInv, StartDispatch
  PROVE  IInv'
  BY DEF StartDispatch, IInv, TypeOK, AnalysisInv, DispatchInv, Aligned, BufferEnd

------------------------------------------------------------------------------
(* Dispatch.                                                               *)

(* After the analysis the map is exact.                                    *)
LEMMA MapIsExact ==
  ASSUME IInv, phase # "analyze"
  PROVE  jumpdest_map = JumpDests(code)
  <1>1. \A p \in JumpDests(code) : p \in Nat /\ p < Len(code)
    BY CodeType DEF IInv, TypeOK, JumpDests, InstructionStarts, Positions
  <1>2. cursor \in Nat /\ cursor >= Len(code) /\ Len(code) \in Nat
    BY CodeType DEF IInv, TypeOK, DispatchInv
  <1>3. \A p \in JumpDests(code) : p < cursor
    BY <1>1, <1>2
  <1> QED
    BY <1>3 DEF IInv, AnalysisInv

(* The byte read is an opcode; behind the code it is STOP.                 *)
LEMMA CurrentOp ==
  ASSUME IInv
  PROVE  /\ current_op \in Byte
         /\ current_op # OP_STOP => code_it \in Positions(code) /\ current_op = ByteAt(code, code_it)
  <1>1. Len(code) \in Nat /\ code_it \in Nat /\ code_it \in 0 .. BufferEnd(code)
    BY CodeType DEF IInv, TypeOK, DispatchInv, BufferEnd, padding
  <1>2. current_op = IF code_it < Len(code) THEN ByteAt(code, code_it) ELSE OP_STOP
    BY <1>1 DEF current_op, executable_code
  <1>3. code_it < Len(code) => code_it \in Positions(code) /\ ByteAt(code, code_it) \in Byte
    BY <1>1, CodeType DEF IInv, TypeOK, Positions
  <1> QED
    BY <1>2, <1>3 DEF OP_STOP, Byte

(* The instruction after the current one is in the buffer and aligned.     *)
LEMMA FallThrough ==
  ASSUME IInv, current_op # OP_STOP
  PROVE  LET n == code_it + 1 + immediate_size(current_op)
         IN n \in Nat /\ n > code_it /\ n <= BufferEnd(code) /\ Aligned(code, n)
  <1> DEFINE n == code_it + 1 + immediate_size(current_op)
  <1>1. code \in Programs /\ Len(code) \in Nat /\ code_it \in Nat /\ code_it \in Positions(code)
    BY CodeType, CurrentOp DEF IInv, TypeOK
  <1>2. n = NextPosition(code, code_it)
    BY CurrentOp DEF NextPosition
  <1>3. code_it < Len(code)
    BY <1>1 DEF Positions
  <1>4. n \in (code_it + 1) .. (code_it + 33)
    BY <1>1, <1>2, NextIsAhead
  <1>5. n \in Nat /\ n > code_it /\ n <= BufferEnd(code)
    BY <1>1, <1>3, <1>4 DEF BufferEnd, padding
  <1>6. code_it \in InstructionStarts(code)
    BY <1>1, <1>3 DEF IInv, DispatchInv, Aligned
  <1>7. Aligned(code, n)
    BY <1>1, <1>2, <1>5, <1>6, StartsAreClosed DEF Aligned, Positions
  <1> QED
    BY <1>5, <1>7

(* What a successful requirements check guarantees.                        *)
LEMMA RequirementsMet ==
  ASSUME IInv, phase = "run", check_requirements(current_op) = SUCCESS
  PROVE  /\ stack_top + stack_height_change[current_op] \in 0 .. StackLimit
         /\ gas_charged \in Nat
  <1> DEFINE op == current_op
  <1>1. op \in Byte
    BY CurrentOp
  <1>2. /\ ~(stack_height_change[op] > 0 /\ stack_top = StackLimit)
        /\ ~(stack_height_required[op] > 0 /\ stack_top <= stack_height_required[op] - 1)
        /\ ~(gas - gas_costs[op] < 0)
    BY DEF check_requirements, SUCCESS
  <1>3. /\ stack_top \in 0 .. StackLimit /\ StackLimit \in Nat /\ gas \in Nat
        /\ gas_costs[op] \in Int
        /\ stack_height_required[op] \in Nat /\ stack_height_change[op] \in Int
        /\ stack_height_change[op] <= 1 /\ stack_height_change[op] + stack_height_required[op] >= 0
    BY <1>1, GasCostsBound, StackTraits, StackLimitAssumption DEF IInv, TypeOK
  <1> HIDE DEF op
  <1>4. stack_top + stack_height_change[op] \in 0 .. StackLimit
    BY <1>2, <1>3
  <1>5. gas - gas_costs[op] \in Nat
    BY <1>2, <1>3
  <1> QED
    BY <1>4, <1>5 DEF op, gas_charged

(* A step that continues at an aligned position.                           *)
LEMMA ContinueStep ==
  ASSUME IInv, phase = "run", check_requirements(current_op) = SUCCESS,
         NEW n \in Nat, n <= BufferEnd(code), Aligned(code, n),
         NEW g \in Nat, Continue(current_op, n, g)
  PROVE  IInv'
  <1>1. stack_top' \in 0 .. StackLimit
    BY RequirementsMet DEF Continue
  <1>2. TypeOK'
    BY <1>1 DEF Continue, analysisVars, IInv, TypeOK
  <1>3. AnalysisInv'
    BY DEF Continue, analysisVars, IInv, AnalysisInv
  <1>4. DispatchInv'
    BY DEF Continue, analysisVars, IInv, DispatchInv, Aligned, BufferEnd
  <1> QED
    BY <1>2, <1>3, <1>4 DEF IInv

(* A step that leaves the loop.                                            *)
LEMMA ExitStep ==
  ASSUME IInv, phase = "run", NEW s \in StatusCode, NEW g \in Int,
         s \in {SUCCESS, REVERT} => g \in Nat, Exit(s, g)
  PROVE  IInv'
  <1>1. TypeOK'
    BY DEF Exit, analysisVars, IInv, TypeOK
  <1>2. AnalysisInv'
    BY DEF Exit, analysisVars, IInv, AnalysisInv
  <1>3. DispatchInv'
    BY DEF Exit, analysisVars, IInv, DispatchInv, Aligned, BufferEnd
  <1> QED
    BY <1>1, <1>2, <1>3 DEF IInv

(* An instruction outside PUSH continues with the next byte.               *)
LEMMA NextByteStep ==
  ASSUME IInv, phase = "run", check_requirements(current_op) = SUCCESS,
         current_op \notin AnyPush, current_op # OP_STOP,
         NEW g \in Nat, Continue(current_op, code_it + 1, g)
  PROVE  IInv'
  <1>1. immediate_size(current_op) = 0
    BY CurrentOp, ImmediateSize
  <1>2. code_it + 1 \in Nat /\ code_it + 1 <= BufferEnd(code) /\ Aligned(code, code_it + 1)
    BY <1>1, FallThrough DEF IInv, TypeOK
  <1> QED
    BY <1>2, ContinueStep

(* The classes of instructions do not overlap where it matters.            *)
LEMMA ClassesOfOps ==
  /\ \A op \in ResultOps \cup {OP_JUMP, OP_JUMPI, OP_PC} : op \notin AnyPush /\ op # OP_STOP
  /\ \A op \in VoidOps : op \notin AnyPush /\ op # OP_STOP
  /\ \A op \in AnyPush : op # OP_STOP
  <1>1. \A op \in ResultOps \cup {OP_JUMP, OP_JUMPI, OP_PC} : op \notin AnyPush /\ op # OP_STOP
    BY DEF ResultOps, AnyPush, AnyLog, AnyCall, AnyCreate, OP_EXP, OP_KECCAK256, OP_BALANCE,
           OP_CALLDATACOPY, OP_CODECOPY, OP_EXTCODESIZE, OP_EXTCODECOPY, OP_RETURNDATACOPY,
           OP_EXTCODEHASH, OP_MLOAD, OP_MSTORE, OP_MSTORE8, OP_SLOAD, OP_SSTORE, OP_GAS, OP_LOG0,
           OP_LOG4, OP_CALL, OP_DELEGATECALL, OP_STATICCALL, OP_CREATE, OP_CREATE2, OP_STOP, OP_JUMP,
           OP_JUMPI, OP_PC, OP_PUSH1, OP_PUSH32
  <1>2. \A op \in VoidOps : op \notin AnyPush /\ op # OP_STOP
    BY DEF VoidOps, TermOps, CodeOps
  <1>3. \A op \in AnyPush : op # OP_STOP
    BY DEF AnyPush, OP_PUSH1, OP_PUSH32, OP_STOP
  <1> QED
    BY <1>1, <1>2, <1>3

(* What the contract of a core function says of its outcome.               *)
LEMMA ResultTypes ==
  ASSUME NEW op, NEW g \in Nat, NEW r \in ResultOutcomes(op, g)
  PROVE  /\ r.status \in StatusCode /\ r.gas_left \in Int /\ r.gas_left <= g
         /\ r.status \in {SUCCESS, REVERT} => r.gas_left \in Nat
  <1> USE MaxDebtAssumption DEF FailedOutcomes, SUCCESS, REVERT, StatusCode, FAILURES
  <1>1. CASE op = OP_GAS
    BY <1>1 DEF ResultOutcomes
  <1>2. CASE op # OP_GAS
    BY <1>2 DEF ResultOutcomes
  <1> QED
    BY <1>1, <1>2

(* What the contract of a terminating core function says.                  *)
LEMMA TermTypes ==
  ASSUME NEW op, NEW g \in Nat, NEW r \in TermOutcomes(op, g)
  PROVE  /\ r.status \in StatusCode /\ r.gas_left \in Int /\ r.gas_left <= g
         /\ r.status \in {SUCCESS, REVERT} => r.gas_left \in Nat
  <1> USE MaxDebtAssumption DEF FailedOutcomes, SUCCESS, REVERT, StatusCode, FAILURES
  <1>1. CASE op = OP_STOP
    BY <1>1 DEF TermOutcomes
  <1>2. CASE op = OP_INVALID
    BY <1>2 DEF TermOutcomes, OP_STOP, OP_INVALID
  <1>3. CASE op = OP_RETURN
    BY <1>3 DEF TermOutcomes, OP_STOP, OP_INVALID, OP_RETURN
  <1>4. CASE op \notin {OP_STOP, OP_INVALID, OP_RETURN}
    BY <1>4 DEF TermOutcomes
  <1> QED
    BY <1>1, <1>2, <1>3, <1>4

(* A jump lands on a JUMPDEST instruction or leaves the loop.              *)
LEMMA JumpStep ==
  ASSUME IInv, phase = "run", check_requirements(current_op) = SUCCESS,
         NEW dst \in Words, jump_impl(dst)
  PROVE  /\ IInv'
         /\ gas' = gas_charged
         /\ phase' = "run" => code_it' = dst /\ dst \in JumpDests(code)
  <1>1. gas_charged \in Nat
    BY RequirementsMet
  <1>2. CASE dst >= Len(code) \/ dst \notin jumpdest_map
    <2>1. Exit("BAD_JUMP_DESTINATION", gas_charged)
      BY <1>2 DEF jump_impl
    <2>2. IInv'
      BY <1>1, <2>1, ExitStep DEF StatusCode, FAILURES, SUCCESS, REVERT
    <2> QED
      BY <2>1, <2>2 DEF Exit
  <1>3. CASE ~(dst >= Len(code) \/ dst \notin jumpdest_map)
    <2>1. Continue(current_op, dst, gas_charged)
      BY <1>3 DEF jump_impl
    <2>2. dst \in JumpDests(code)
      BY <1>3, MapIsExact
    <2>3. dst \in Nat /\ dst <= BufferEnd(code) /\ Aligned(code, dst)
      BY <1>3, <2>2, CodeType DEF IInv, TypeOK, JumpDests, InstructionStarts, Positions, BufferEnd, padding, Aligned
    <2>4. IInv'
      BY <1>1, <2>1, <2>3, ContinueStep
    <2> QED
      BY <2>1, <2>2, <2>4 DEF Continue
  <1> QED
    BY <1>2, <1>3

(* What every step of the loop guarantees besides the invariant: gas never *)
(* grows, and only a jump goes back.                                       *)
StepGuarantee ==
  /\ gas' <= gas
  /\ result' = result
  /\ phase' = "run" /\ code_it' <= code_it =>
       /\ ByteAt(code, code_it) \in {OP_JUMP, OP_JUMPI}
       /\ ByteAt(code, code_it') = OP_JUMPDEST
       /\ gas' < gas

(* A jump goes wherever it wants, but pays for it.                         *)
LEMMA JumpGuarantee ==
  ASSUME IInv, phase = "run", check_requirements(current_op) = SUCCESS,
         current_op \in {OP_JUMP, OP_JUMPI}, NEW dst \in Words, jump_impl(dst)
  PROVE  StepGuarantee
  <1>1. gas' = gas_charged /\ (phase' = "run" => code_it' = dst /\ dst \in JumpDests(code))
    BY JumpStep
  <1>2. gas \in Nat /\ gas_costs[current_op] \in Nat /\ gas_costs[current_op] > 0
    BY CostOfInvoked, JumpCosts DEF CodeOps, IInv, TypeOK
  <1>3. gas' < gas /\ gas' <= gas
    BY <1>1, <1>2 DEF gas_charged
  <1>4. ByteAt(code, code_it) = current_op
    BY CurrentOp DEF OP_STOP, OP_JUMP, OP_JUMPI
  <1>5. result' = result
    BY DEF jump_impl, Exit, Continue
  <1> QED
    BY <1>1, <1>3, <1>4, <1>5 DEF StepGuarantee, JumpDests

(* Continuing ahead, with no more gas, goes back nowhere.                  *)
LEMMA AheadGuarantee ==
  ASSUME IInv, phase = "run", NEW n \in Nat, n > code_it, NEW g \in Int, g <= gas,
         Continue(current_op, n, g)
  PROVE  StepGuarantee
  BY DEF Continue, StepGuarantee, IInv, TypeOK

(* Leaving the loop with no more gas.                                      *)
LEMMA ExitGuarantee ==
  ASSUME NEW s, NEW g, g <= gas, Exit(s, g)
  PROVE  StepGuarantee
  BY DEF Exit, StepGuarantee

(* Every step of the dispatch loop.                                        *)
LEMMA DispatchStep ==
  ASSUME IInv, Dispatch
  PROVE  IInv' /\ StepGuarantee
  <1>1. phase = "run"
    BY DEF Dispatch, UndefinedInstruction, FailRequirements, invoke_void, InvokeResult, InvokeJump,
           InvokeJumpi, invoke_pc, invoke_push, InvokeTerm, Checked
  <1>2. gas \in Nat /\ code_it \in Nat /\ current_op \in Byte /\ gas_costs[current_op] \in Int
        /\ gas_costs[current_op] >= -1
    BY <1>1, CurrentOp, GasCostsBound DEF IInv, TypeOK
  <1>3. code_it + 1 \in Nat /\ code_it + 1 > code_it
    BY <1>2
  <1>4. CASE UndefinedInstruction
    <2>1. Exit("UNDEFINED_INSTRUCTION", gas)
      BY <1>4 DEF UndefinedInstruction
    <2> QED
      BY <1>1, <1>2, <2>1, ExitStep, ExitGuarantee DEF StatusCode, FAILURES
  <1>5. CASE FailRequirements
    <2>1. gas_costs[current_op] \in Nat
      BY <1>2, <1>5 DEF FailRequirements, Defined, undefined
    <2>2. gas_after_check(current_op) \in Int /\ gas_after_check(current_op) <= gas
      BY <1>2, <2>1 DEF gas_after_check
    <2>3. check_requirements(current_op) \in StatusCode \ {SUCCESS, REVERT}
      BY <1>5 DEF FailRequirements, check_requirements, StatusCode, FAILURES, SUCCESS, REVERT
    <2> QED
      BY <1>1, <1>5, <2>2, <2>3, ExitStep, ExitGuarantee DEF FailRequirements
  <1>6. CASE invoke_void
    <2>1. check_requirements(current_op) = SUCCESS /\ current_op \notin AnyPush /\ current_op # OP_STOP
          /\ Continue(current_op, code_it + 1, gas_charged)
      BY <1>6, ClassesOfOps DEF invoke_void, Checked
    <2>2. gas_costs[current_op] \in Nat
      BY <1>2, <1>6 DEF invoke_void, Checked, VoidOps, Defined, undefined
    <2>3. gas_charged \in Nat /\ gas_charged <= gas
      BY <1>1, <1>2, <2>1, <2>2, RequirementsMet DEF gas_charged
    <2> QED
      BY <1>1, <1>3, <2>1, <2>3, NextByteStep, AheadGuarantee
  <1>7. CASE InvokeResult
    <2>1. PICK r \in ResultOutcomes(current_op, gas_charged) : invoke_result(r)
      BY <1>7 DEF InvokeResult
    <2>2. check_requirements(current_op) = SUCCESS /\ current_op \notin AnyPush /\ current_op # OP_STOP
      BY <1>7, ClassesOfOps DEF InvokeResult, Checked
    <2>3. gas_charged \in Nat /\ gas_charged <= gas
      BY <1>1, <1>2, <1>7, <2>2, RequirementsMet, CostOfInvoked DEF gas_charged, InvokeResult, Checked
    <2>4. /\ r.status \in StatusCode /\ r.gas_left \in Int /\ r.gas_left <= gas
          /\ r.status \in {SUCCESS, REVERT} => r.gas_left \in Nat
      BY <1>2, <2>3, ResultTypes
    <2>5. CASE r.status = SUCCESS
      <3>1. Continue(current_op, code_it + 1, r.gas_left)
        BY <2>1, <2>5 DEF invoke_result
      <3> QED
        BY <1>1, <1>3, <2>2, <2>4, <2>5, <3>1, NextByteStep, AheadGuarantee
    <2>6. CASE r.status # SUCCESS
      <3>1. Exit(r.status, r.gas_left)
        BY <2>1, <2>6 DEF invoke_result
      <3> QED
        BY <1>1, <2>4, <3>1, ExitStep, ExitGuarantee
    <2> QED
      BY <2>5, <2>6
  <1>8. CASE InvokeJump
    <2>1. PICK dst \in Words : jump_impl(dst)
      BY <1>8 DEF InvokeJump, invoke_jump
    <2>2. check_requirements(current_op) = SUCCESS /\ current_op = OP_JUMP
      BY <1>8 DEF InvokeJump, Checked
    <2> QED
      BY <1>1, <2>1, <2>2, JumpStep, JumpGuarantee
  <1>9. CASE InvokeJumpi
    <2>1. PICK cond \in Words, dst \in Words : invoke_jumpi(dst, cond)
      BY <1>9 DEF InvokeJumpi
    <2>2. check_requirements(current_op) = SUCCESS /\ current_op = OP_JUMPI
      BY <1>9 DEF InvokeJumpi, Checked
    <2>3. CASE cond # 0
      BY <1>1, <2>1, <2>2, <2>3, JumpStep, JumpGuarantee DEF invoke_jumpi
    <2>4. CASE cond = 0
      <3>1. Continue(current_op, code_it + 1, gas_charged)
        BY <2>1, <2>4 DEF invoke_jumpi
      <3>2. gas_charged \in Nat /\ gas_charged <= gas
        BY <1>1, <1>2, <2>2, RequirementsMet, CostOfInvoked DEF gas_charged, CodeOps
      <3>3. current_op \notin AnyPush /\ current_op # OP_STOP
        BY <2>2, ClassesOfOps
      <3> QED
        BY <1>1, <1>3, <2>2, <3>1, <3>2, <3>3, NextByteStep, AheadGuarantee
    <2> QED
      BY <2>3, <2>4
  <1>10. CASE invoke_pc
    <2>1. check_requirements(current_op) = SUCCESS /\ current_op = OP_PC
          /\ Continue(current_op, code_it + 1, gas_charged)
      BY <1>10 DEF invoke_pc, Checked
    <2>2. gas_charged \in Nat /\ gas_charged <= gas
      BY <1>1, <1>2, <2>1, RequirementsMet, CostOfInvoked DEF gas_charged, CodeOps
    <2>3. current_op \notin AnyPush /\ current_op # OP_STOP
      BY <2>1, ClassesOfOps
    <2> QED
      BY <1>1, <1>3, <2>1, <2>2, <2>3, NextByteStep, AheadGuarantee
  <1>11. CASE invoke_push
    <2> DEFINE n == code_it + 1 + immediate_size(current_op)
    <2>1. check_requirements(current_op) = SUCCESS /\ current_op \in AnyPush
          /\ Continue(current_op, code_it + (immediate_size(current_op) + 1), gas_charged)
      BY <1>11 DEF invoke_push, Checked
    <2>2. gas_charged \in Nat /\ gas_charged <= gas
      BY <1>1, <1>2, <2>1, RequirementsMet, CostOfInvoked DEF gas_charged, CodeOps
    <2>3. n \in Nat /\ n > code_it /\ n <= BufferEnd(code) /\ Aligned(code, n)
      BY <2>1, ClassesOfOps, FallThrough
    <2>4. code_it + (immediate_size(current_op) + 1) = n
      BY <1>2, ImmediateSize
    <2> HIDE DEF n
    <2>5. Continue(current_op, n, gas_charged)
      BY <2>1, <2>4
    <2> QED
      BY <1>1, <2>1, <2>2, <2>3, <2>5, ContinueStep, AheadGuarantee
  <1>12. CASE InvokeTerm
    <2>1. PICK r \in TermOutcomes(current_op, gas_charged) : Exit(r.status, r.gas_left)
      BY <1>12 DEF InvokeTerm, invoke_term
    <2>2. check_requirements(current_op) = SUCCESS /\ current_op \in TermOps
      BY <1>12 DEF InvokeTerm, Checked
    <2>3. gas_charged \in Nat /\ gas_charged <= gas
      BY <1>1, <1>2, <2>2, RequirementsMet, CostOfInvoked DEF gas_charged
    <2>4. /\ r.status \in StatusCode /\ r.gas_left \in Int /\ r.gas_left <= gas
          /\ r.status \in {SUCCESS, REVERT} => r.gas_left \in Nat
      BY <1>2, <2>3, TermTypes
    <2> QED
      BY <1>1, <2>1, <2>4, ExitStep, ExitGuarantee
  <1> QED
    BY <1>4, <1>5, <1>6, <1>7, <1>8, <1>9, <1>10, <1>11, <1>12 DEF Dispatch

(* The result returns gas only for SUCCESS and REVERT.                     *)
LEMMA MakeResultStep ==
  ASSUME IInv, MakeResult
  PROVE  /\ IInv'
         /\ gas' = gas
         /\ result'.gas_left <= gas \/ result'.gas_left = 0
         /\ result'.status \in FAILURES => result'.gas_left = 0
  <1>1. /\ phase = "exit" /\ phase' = "done"
        /\ result' = [status |-> status, gas_left |-> IF status \in {SUCCESS, REVERT} THEN gas ELSE 0]
        /\ UNCHANGED <<code, cursor, jumpdest_map, code_it, stack_top, gas, status>>
    BY DEF MakeResult, analysisVars
  <1>2. TypeOK'
    BY <1>1 DEF IInv, TypeOK, DispatchInv
  <1>3. AnalysisInv' /\ DispatchInv'
    BY <1>1 DEF IInv, AnalysisInv, DispatchInv, Aligned, BufferEnd
  <1>4. result'.gas_left <= gas \/ result'.gas_left = 0
    BY <1>1 DEF IInv, TypeOK
  <1>5. result'.status \in FAILURES => result'.gas_left = 0
    BY <1>1 DEF FAILURES, SUCCESS, REVERT
  <1> QED
    BY <1>1, <1>2, <1>3, <1>4, <1>5 DEF IInv

(* Every step keeps the invariant.                                         *)
LEMMA NextPreserves == IInv /\ [Next]_vars => IInv'
  <1> SUFFICES ASSUME IInv, [Next]_vars PROVE IInv'
    OBVIOUS
  <1>1. CASE analyze_jumpdests
    BY <1>1, AnalyzeStep
  <1>2. CASE StartDispatch
    BY <1>2, StartDispatchStep
  <1>3. CASE Dispatch
    BY <1>3, DispatchStep
  <1>4. CASE MakeResult
    BY <1>4, MakeResultStep
  <1>5. CASE UNCHANGED vars
    BY <1>5 DEF vars, IInv, TypeOK, AnalysisInv, DispatchInv, Aligned, BufferEnd
  <1> QED
    BY <1>1, <1>2, <1>3, <1>4, <1>5 DEF Next

------------------------------------------------------------------------------
(* The theorems.                                                           *)

(* The inductive invariant holds in every reachable state.                 *)
THEOREM Invariance == Spec => []IInv
  BY InitEstablishes, NextPreserves, PTL DEF Spec

(* For every program, gas and stack limit, check_requirements() keeps the  *)
(* stack height between 0 and the limit and the gas of the running loop    *)
(* from becoming negative.                                                 *)
THEOREM TypeCorrect == Spec => []TypeOK
  BY Invariance, PTL DEF IInv

(* The padding of pad_code() is enough for every program: the unchecked    *)
(* reads of dispatch() and of the push loads stay in the buffer.           *)
THEOREM ReadsAreSafe == Spec => []CodeReadsInBuffer
  <1>1. IInv => CodeReadsInBuffer
    <2> SUFFICES ASSUME IInv, phase = "run"
                 PROVE  /\ code_it \in 0 .. BufferEnd(code)
                        /\ current_op \in AnyPush => code_it + push_bytes_read(current_op) <= BufferEnd(code)
      BY DEF CodeReadsInBuffer, current_op
    <2>1. code_it \in Nat /\ Len(code) \in Nat /\ BufferEnd(code) = Len(code) + 32 /\ code_it <= BufferEnd(code)
      BY CodeType DEF IInv, TypeOK, DispatchInv, BufferEnd, padding
    <2>2. ASSUME current_op \in AnyPush
          PROVE  code_it + push_bytes_read(current_op) <= BufferEnd(code)
      <3>1. code_it < Len(code)
        BY <2>1, <2>2, CurrentOp, ClassesOfOps DEF Positions
      <3>2. immediate_size(current_op) \in 0 .. 32
        BY CurrentOp, ImmediateSize
      <3> DEFINE n == push_bytes_read(current_op)
      <3>3. n \in 0 .. 32
        BY <3>2 DEF push_bytes_read
      <3> HIDE DEF n
      <3>4. code_it + n <= BufferEnd(code)
        BY <2>1, <3>1, <3>3
      <3> QED
        BY <3>4 DEF n
    <2> QED
      BY <2>1, <2>2
  <1> QED
    BY <1>1, Invariance, PTL

(* analyze_jumpdests() marks exactly the JUMPDEST instructions of every    *)
(* program: none inside push data, and none is missed behind push data.    *)
THEOREM JumpdestAnalysisCorrect == Spec => []JumpdestMapIsExact
  <1>1. IInv => JumpdestMapIsExact
    BY MapIsExact DEF JumpdestMapIsExact
  <1> QED
    BY <1>1, Invariance, PTL

(* No program makes dispatch() execute its push data.                      *)
THEOREM ExecutionAligned == Spec => []ExecutionIsAligned
  <1>1. IInv => ExecutionIsAligned
    BY DEF IInv, DispatchInv, Aligned, ExecutionIsAligned
  <1> QED
    BY <1>1, Invariance, PTL

(* Whatever the core functions return within their contract, gas never     *)
(* grows and a failed execution returns none.                              *)
THEOREM GasMonotone == Spec => GasNeverGrows
  <1> DEFINE A == /\ gas' <= gas
                  /\ result' # result => result'.gas_left <= gas \/ result'.gas_left = 0
                  /\ result' # result /\ result'.status \in FAILURES => result'.gas_left = 0
  <1>1. IInv /\ [Next]_vars => [A]_vars
    <2> SUFFICES ASSUME IInv, Next PROVE A
      OBVIOUS
    <2>1. gas \in Int
      BY DEF IInv, TypeOK
    <2>2. CASE analyze_jumpdests
      BY <2>1, <2>2 DEF analyze_jumpdests
    <2>3. CASE StartDispatch
      BY <2>1, <2>3 DEF StartDispatch
    <2>4. CASE Dispatch
      BY <2>4, DispatchStep DEF StepGuarantee
    <2>5. CASE MakeResult
      BY <2>1, <2>5, MakeResultStep
    <2> QED
      BY <2>2, <2>3, <2>4, <2>5 DEF Next
  <1> QED
    BY <1>1, Invariance, PTL DEF Spec, GasNeverGrows

(* The loop of dispatch() goes back only by a jump to a JUMPDEST, and      *)
(* every such step costs gas.                                              *)
THEOREM LoopsCostGas == Spec => BackwardsOnlyByJump
  <1> DEFINE A == phase = "run" /\ phase' = "run" /\ code_it' <= code_it =>
                    /\ ByteAt(code, code_it) \in {OP_JUMP, OP_JUMPI}
                    /\ ByteAt(code, code_it') = OP_JUMPDEST
                    /\ gas' < gas
  <1>1. IInv /\ [Next]_vars => [A]_vars
    <2> SUFFICES ASSUME IInv, Next PROVE A
      OBVIOUS
    <2>1. CASE analyze_jumpdests
      BY <2>1 DEF analyze_jumpdests
    <2>2. CASE StartDispatch
      BY <2>2 DEF StartDispatch
    <2>3. CASE Dispatch
      BY <2>3, DispatchStep DEF StepGuarantee
    <2>4. CASE MakeResult
      BY <2>4 DEF MakeResult
    <2> QED
      BY <2>1, <2>2, <2>3, <2>4 DEF Next
  <1> QED
    BY <1>1, Invariance, PTL DEF Spec, BackwardsOnlyByJump
==============================================================================
