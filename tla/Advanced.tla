------------------------------ MODULE Advanced -------------------------------
(***************************************************************************)
(* The control of the Advanced interpreter: the code analysis that turns   *)
(* bytecode into a table of instructions grouped in basic blocks           *)
(* (advanced_analysis.cpp) and the execution that checks gas and stack     *)
(* once per block (advanced_instructions.cpp, advanced_execution.cpp).     *)
(* As in module Baseline, the core instruction implementations are known   *)
(* by their contract only.  Indexes of instrs are 0-based.                 *)
(***************************************************************************)
EXTENDS CodeStructure, FiniteSetsExt

CONSTANTS
  Programs,      \* the bytecodes the interpreter is given
  GasLimits,     \* the values of msg.gas
  Words,         \* the words a program may find on its stack
  StackLimit,    \* StackSpace::limit, 1024 in the program
  StackInfoMax,  \* the largest int16_t: BlockInfo::stack_req, stack_max_growth
  GasInfoMax,    \* the largest uint32_t: BlockInfo::gas_cost
  WordBytes,     \* the bytes of a word, 32 in the program
  MaxDebt        \* bound: by how much a failing core function overdraws the gas

MaxGasCost == 32000  \* the largest base cost of an instruction

ASSUME ProgramsAssumption == Programs \subseteq Seq(Byte)
ASSUME GasLimitsAssumption == GasLimits \subseteq Nat
ASSUME WordsAssumption == Words \subseteq Nat
ASSUME StackLimitAssumption == StackLimit \in Nat \ {0}
ASSUME MaxDebtAssumption == MaxDebt \in Nat

(* A clamped stack requirement must still be out of reach of every stack.  *)
ASSUME StackInfoMaxAssumption == StackInfoMax \in Nat /\ StackInfoMax > StackLimit

(* No block is so long that its gas cost is clamped: 134217 bytes of code. *)
ASSUME GasInfoMaxAssumption ==
  GasInfoMax \in Nat /\ \A c \in Programs : Len(c) * MaxGasCost <= GasInfoMax

VARIABLES
  phase,             \* "analyze", "skip" (dead code), "run", "exit", "done"
  code,              \* the original code
  code_pos,          \* the position of analyze()
  block,             \* the open BlockAnalysis
  instrs,            \* AdvancedCodeAnalysis::instrs
  push_values,       \* the number of entries of AdvancedCodeAnalysis::push_values
  jumpdest_offsets,
  jumpdest_targets,
  instr,             \* the index of the instruction to execute
  stack_top,         \* stack.size()
  gas_left,          \* state.gas_left
  current_block_cost,
  status,            \* state.status
  result             \* the zvmc_result returned

analysisVars == <<code, code_pos, block, instrs, push_values, jumpdest_offsets, jumpdest_targets>>
vars == <<phase, code, code_pos, block, instrs, push_values, jumpdest_offsets, jumpdest_targets,
          instr, stack_top, gas_left, current_block_cost, status, result>>

------------------------------------------------------------------------------
(* Code analysis.                                                          *)

(* InstructionArgument is a union of four members; kind is the member that *)
(* was written last.  The pointer push_value stands for the word that it   *)
(* points to: see ReservedSizesSuffice.                                    *)
Members == {"number", "push_value", "small_push_value", "block"}
BlockArg(cost, req, growth) ==
  [kind |-> "block", value |-> 0, gas_cost |-> cost, stack_req |-> req, stack_max_growth |-> growth]
ValueArg(member, v) ==
  [kind |-> member, value |-> v, gas_cost |-> 0, stack_req |-> 0, stack_max_growth |-> 0]

BlockAnalysis(index) ==
  [gas_cost |-> 0, stack_req |-> 0, stack_max_growth |-> 0, stack_change |-> 0,
   begin_block_index |-> index]

clamp(x, max) == IF x <= max THEN x ELSE max

(* BlockAnalysis::close().                                                 *)
close(b) ==
  BlockArg(clamp(b.gas_cost, GasInfoMax), clamp(b.stack_req, StackInfoMax),
           clamp(b.stack_max_growth, StackInfoMax))

(* An Instruction: fn is named by its opcode.  The other fields are        *)
(* history, read by no action: the offset of the instruction in the code,  *)
(* the index of the instruction that holds its block's data, and the stack *)
(* change and the cost of the block up to it.                              *)
Instruction(op, pos, b) ==
  [fn |-> op, arg |-> BlockArg(0, 0, 0), pos |-> pos, begin |-> b.begin_block_index,
   change |-> b.stack_change, cost |-> b.gas_cost]

Instr(k) == instrs[k + 1]

(* arg.block = block.close() of the instruction that begins the block.     *)
SaveBlock(is, b) == [is EXCEPT ![b.begin_block_index + 1].arg = close(b)]

(* The entry of get_op_table() for an opcode.                              *)
op_gas_cost(op) == IF Defined(op) THEN gas_costs[op] ELSE 0

max(a, b) == IF a >= b THEN a ELSE b
min(a, b) == IF a <= b THEN a ELSE b

(* Mutant: the growth is recorded before the instruction's change.         *)
Account_growth_before_change(b, op) ==
  LET change == b.stack_change + stack_height_change[op] IN
    [b EXCEPT !.stack_req = max(b.stack_req, stack_height_required[op] - b.stack_change),
              !.stack_change = change,
              !.stack_max_growth = max(b.stack_max_growth, b.stack_change),
              !.gas_cost = b.gas_cost + op_gas_cost(op)]

(* The instruction is added to its block.                                  *)
Account(b, op) ==
  LET change == b.stack_change + stack_height_change[op] IN
    [b EXCEPT !.stack_req = max(b.stack_req, stack_height_required[op] - b.stack_change),
              !.stack_change = change,
              !.stack_max_growth = max(b.stack_max_growth, change),
              !.gas_cost = b.gas_cost + op_gas_cost(op)]

(* The value of the data bytes of a PUSH at p: bytes missing at the code   *)
(* end count as 0, and of a long PUSH only the last WordBytes bytes are    *)
(* kept, as the scaled word holds no more.                                 *)
shifted_byte(c, p, size, k) ==
  IF p + k < Len(c) THEN ByteAt(c, p + k) * 2 ^ (8 * (size - k)) ELSE 0
push_value(c, p, size) ==
  MapThenSumSet(LAMBDA k : shifted_byte(c, p, size, k), {k \in 1 .. size : size - k < WordBytes})

(* Instructions that need to know the gas charged up to them.              *)
GasCorrectedOps == {OP_GAS, OP_SSTORE} \cup AnyCall \cup AnyCreate

(* Instructions after which the rest of the block is dead code.            *)
BlockTerminators == {OP_JUMP, OP_STOP, OP_RETURN, OP_REVERT}

Init ==
  /\ phase = "analyze"
  /\ code \in Programs
  /\ code_pos = 0
  /\ block = BlockAnalysis(0)
  /\ instrs = <<Instruction(OP_JUMPDEST, 0, BlockAnalysis(0))>>   \* OPX_BEGINBLOCK
  /\ push_values = 0
  /\ jumpdest_offsets = <<>>
  /\ jumpdest_targets = <<>>
  /\ instr = 0
  /\ stack_top = 0
  /\ gas_left \in GasLimits
  /\ current_block_cost = 0
  /\ status = SUCCESS
  /\ result = [status |-> "NONE", gas_left |-> 0]

executionVars == <<instr, stack_top, gas_left, current_block_cost, status, result>>

(* Mutant: the analysis takes PUSH8 for a push that does not fit 64 bits.  *)
ArgOf_push8_large(op, b) ==
  CASE op \in AnySmallPush \ {OP_PUSH8} ->
         ValueArg("small_push_value", push_value(code, code_pos, immediate_size(op)))
    [] op \in AnyLargePush \cup {OP_PUSH8} ->
         ValueArg("push_value", push_value(code, code_pos, immediate_size(op)))
    [] op \in GasCorrectedOps -> ValueArg("number", b.gas_cost)
    [] op = OP_PC -> ValueArg("number", code_pos)
    [] OTHER -> BlockArg(0, 0, 0)

(* What the switch of analyze() stores in the new instruction.             *)
ArgOf(op, b) ==
  CASE op \in AnySmallPush -> ValueArg("small_push_value", push_value(code, code_pos, immediate_size(op)))
    [] op \in AnyLargePush -> ValueArg("push_value", push_value(code, code_pos, immediate_size(op)))
    [] op \in GasCorrectedOps -> ValueArg("number", b.gas_cost)
    [] op = OP_PC -> ValueArg("number", code_pos)
    [] OTHER -> BlockArg(0, 0, 0)

(* One iteration of the loop of analyze().                                 *)
AnalyzeInstruction ==
  /\ phase = "analyze"
  /\ code_pos # Len(code)
  /\ LET op == ByteAt(code, code_pos)
         isDest == op = OP_JUMPDEST
         opened == IF isDest THEN BlockAnalysis(Len(instrs)) ELSE block
         saved == IF isDest THEN SaveBlock(instrs, block) ELSE instrs
         b == Account(opened, op)
         added == Append(saved, [Instruction(op, code_pos, opened) EXCEPT !.arg = ArgOf(op, b)])
     IN
       /\ jumpdest_offsets' = IF isDest THEN Append(jumpdest_offsets, code_pos) ELSE jumpdest_offsets
       /\ jumpdest_targets' = IF isDest THEN Append(jumpdest_targets, Len(instrs)) ELSE jumpdest_targets
       /\ IF op = OP_JUMPI
          THEN /\ instrs' = SaveBlock(added, b)
               /\ block' = BlockAnalysis(Len(added) - 1)
          ELSE /\ instrs' = added
               /\ block' = b
       /\ push_values' = IF op \in AnyLargePush THEN push_values + 1 ELSE push_values
       /\ code_pos' = min(code_pos + 1 + immediate_size(op), Len(code))
       /\ phase' = IF op \in BlockTerminators THEN "skip" ELSE "analyze"
  /\ UNCHANGED <<code, executionVars>>

(* Mutant: dead code is skipped byte by byte.                              *)
SkipDeadByte ==
  /\ phase = "skip"
  /\ code_pos # Len(code)
  /\ ByteAt(code, code_pos) # OP_JUMPDEST
  /\ code_pos' = code_pos + 1
  /\ UNCHANGED <<phase, code, block, instrs, push_values, jumpdest_offsets, jumpdest_targets,
                 executionVars>>

(* Dead code is skipped up to the next JUMPDEST, instruction by            *)
(* instruction.                                                            *)
SkipDeadInstruction ==
  /\ phase = "skip"
  /\ code_pos # Len(code)
  /\ ByteAt(code, code_pos) # OP_JUMPDEST
  /\ code_pos' = min(code_pos + 1 + immediate_size(ByteAt(code, code_pos)), Len(code))
  /\ UNCHANGED <<phase, code, block, instrs, push_values, jumpdest_offsets, jumpdest_targets,
                 executionVars>>

SkipEnds ==
  /\ phase = "skip"
  /\ code_pos # Len(code) => ByteAt(code, code_pos) = OP_JUMPDEST
  /\ phase' = "analyze"
  /\ UNCHANGED <<analysisVars, executionVars>>

(* Mutant: the STOP gets a block of its own.                               *)
FinishAnalysis_with_block ==
  /\ phase = "analyze"
  /\ code_pos = Len(code)
  /\ instrs' = SaveBlock(instrs, block) \o
       <<Instruction(OP_JUMPDEST, code_pos, BlockAnalysis(Len(instrs))),
         Instruction(OP_STOP, code_pos, BlockAnalysis(Len(instrs)))>>
  /\ phase' = "run"
  /\ UNCHANGED <<code, code_pos, block, push_values, jumpdest_offsets, jumpdest_targets,
                 executionVars>>

(* The last block is saved and a STOP added; execute() starts.             *)
FinishAnalysis ==
  /\ phase = "analyze"
  /\ code_pos = Len(code)
  /\ instrs' = Append(SaveBlock(instrs, block), Instruction(OP_STOP, code_pos, block))
  /\ phase' = "run"
  /\ UNCHANGED <<code, code_pos, block, push_values, jumpdest_offsets, jumpdest_targets,
                 executionVars>>

------------------------------------------------------------------------------
(* Execution: one action per shape of instruction function.                *)

current_fn == Instr(instr).fn

(* The union member that the function in instruction_implementations reads *)
(* for an opcode: op_push_small up to PUSH8, op_push_full from PUSH9 on.   *)
reads(op, member) ==
  \/ member = "small_push_value" /\ op \in OP_PUSH1 .. OP_PUSH8
  \/ member = "push_value" /\ op \in (OP_PUSH8 + 1) .. OP_PUSH32
  \/ member = "number" /\ op \in GasCorrectedOps \cup {OP_PC}
  \/ member = "block" /\ op \in {OP_JUMPDEST, OP_JUMPI}

CodeOps == {OP_JUMP, OP_JUMPI, OP_PC} \cup AnyPush
ResultOps == {OP_EXP, OP_KECCAK256, OP_BALANCE, OP_CALLDATACOPY, OP_CODECOPY, OP_EXTCODESIZE,
              OP_EXTCODECOPY, OP_RETURNDATACOPY, OP_EXTCODEHASH, OP_MLOAD, OP_MSTORE, OP_MSTORE8,
              OP_SLOAD} \cup AnyLog
TermOps == {OP_STOP, OP_INVALID, OP_RETURN, OP_REVERT}
VoidOps == {op \in Byte : Defined(op)}
             \ (ResultOps \cup TermOps \cup CodeOps \cup GasCorrectedOps \cup {OP_JUMPDEST})

(* state.exit(): the loop of execute() ends.                               *)
Exit(code_status, gas, top) ==
  /\ phase' = "exit"
  /\ status' = code_status
  /\ gas_left' = gas
  /\ stack_top' = top
  /\ UNCHANGED <<analysisVars, instr, current_block_cost, result>>

Goto(next_instr, gas, top) ==
  /\ instr' = next_instr
  /\ gas_left' = gas
  /\ stack_top' = top
  /\ UNCHANGED <<phase, analysisVars, current_block_cost, status, result>>

(* The stack height after the instruction.                                 *)
adjusted_top == stack_top + stack_height_change[current_fn]

(* Mutant: the block's gas is checked but not charged.                     *)
beginblock_uncharged(top) ==
  LET b == Instr(instr).arg IN
    IF gas_left - b.gas_cost < 0 THEN Exit("OUT_OF_GAS", gas_left, top)
    ELSE IF top < b.stack_req THEN Exit("STACK_UNDERFLOW", gas_left, top)
    ELSE IF top + b.stack_max_growth > StackLimit THEN Exit("STACK_OVERFLOW", gas_left, top)
    ELSE /\ instr' = instr + 1
         /\ stack_top' = top
         /\ current_block_cost' = b.gas_cost
         /\ UNCHANGED <<phase, analysisVars, gas_left, status, result>>

(* Mutant: a block that fills the stack to its limit is refused.           *)
beginblock_strict(top) ==
  LET b == Instr(instr).arg
      gas == gas_left - b.gas_cost
  IN CASE gas < 0 -> Exit("OUT_OF_GAS", gas, top)
       [] gas >= 0 /\ top < b.stack_req -> Exit("STACK_UNDERFLOW", gas, top)
       [] gas >= 0 /\ top >= b.stack_req /\ top + b.stack_max_growth >= StackLimit ->
            Exit("STACK_OVERFLOW", gas, top)
       [] OTHER ->
            /\ instr' = instr + 1
            /\ gas_left' = gas
            /\ stack_top' = top
            /\ current_block_cost' = b.gas_cost
            /\ UNCHANGED <<phase, analysisVars, status, result>>

(* opx_beginblock(): gas, then underflow, then overflow, for the whole     *)
(* block whose data this instruction holds; top is the height it finds.    *)
beginblock(top) ==
  LET b == Instr(instr).arg
      gas == gas_left - b.gas_cost
  IN CASE gas < 0 -> Exit("OUT_OF_GAS", gas, top)
       [] gas >= 0 /\ top < b.stack_req -> Exit("STACK_UNDERFLOW", gas, top)
       [] gas >= 0 /\ top >= b.stack_req /\ top + b.stack_max_growth > StackLimit ->
            Exit("STACK_OVERFLOW", gas, top)
       [] OTHER ->
            /\ instr' = instr + 1
            /\ gas_left' = gas
            /\ stack_top' = top
            /\ current_block_cost' = b.gas_cost
            /\ UNCHANGED <<phase, analysisVars, status, result>>

opx_beginblock == phase = "run" /\ current_fn = OP_JUMPDEST /\ beginblock(stack_top)

op_undefined ==
  /\ phase = "run"
  /\ ~Defined(current_fn)
  /\ Exit("UNDEFINED_INSTRUCTION", gas_left, stack_top)

op_void == phase = "run" /\ current_fn \in VoidOps /\ Goto(instr + 1, gas_left, adjusted_top)

op_result(r) ==
  /\ phase = "run"
  /\ current_fn \in ResultOps
  /\ IF r.status = SUCCESS THEN Goto(instr + 1, r.gas_left, adjusted_top)
     ELSE Exit(r.status, r.gas_left, adjusted_top)

op_term(r) ==
  /\ phase = "run"
  /\ current_fn \in TermOps
  /\ Exit(r.status, r.gas_left, stack_top)

(* The gas of the current block charged in advance for what follows the    *)
(* instruction.                                                            *)
gas_left_correction == current_block_cost - Instr(instr).arg.value

op_gas == phase = "run" /\ current_fn = OP_GAS /\ Goto(instr + 1, gas_left, adjusted_top)

(* Mutant: what remains after the correction is not checked.               *)
op_corrected_unchecked(r) ==
  /\ phase = "run"
  /\ current_fn \in GasCorrectedOps \ {OP_GAS}
  /\ IF r.status # SUCCESS THEN Exit(r.status, r.gas_left, adjusted_top)
     ELSE Goto(instr + 1, r.gas_left - gas_left_correction, adjusted_top)

(* op_sstore(), op_call(), op_create(): the core function sees the gas     *)
(* that is really left; r is what it returns.                              *)
op_corrected(r) ==
  /\ phase = "run"
  /\ current_fn \in GasCorrectedOps \ {OP_GAS}
  /\ IF r.status # SUCCESS THEN Exit(r.status, r.gas_left, adjusted_top)
     ELSE IF r.gas_left - gas_left_correction < 0
     THEN Exit("OUT_OF_GAS", r.gas_left - gas_left_correction, adjusted_top)
     ELSE Goto(instr + 1, r.gas_left - gas_left_correction, adjusted_top)

op_push == phase = "run" /\ current_fn \in AnyPush /\ Goto(instr + 1, gas_left, adjusted_top)

op_pc == phase = "run" /\ current_fn = OP_PC /\ Goto(instr + 1, gas_left, adjusted_top)

(* find_jumpdest(): std::lower_bound on the sorted offsets.                *)
find_jumpdest(offset) ==
  LET notLess == {k \in DOMAIN jumpdest_offsets : jumpdest_offsets[k] >= offset}
      first == CHOOSE k \in notLess : \A j \in notLess : k <= j
  IN IF notLess # {} /\ jumpdest_offsets[first] = offset THEN jumpdest_targets[first] ELSE -1

JumpTo(dst, top) ==
  IF find_jumpdest(dst) < 0 THEN Exit("BAD_JUMP_DESTINATION", gas_left, top)
  ELSE Goto(find_jumpdest(dst), gas_left, top)

op_jump(dst) == phase = "run" /\ current_fn = OP_JUMP /\ JumpTo(dst, adjusted_top)

(* Mutant: JUMPI not taken goes on in the block before it.                 *)
op_jumpi_same_block(dst, cond) ==
  /\ phase = "run"
  /\ current_fn = OP_JUMPI
  /\ IF cond # 0 THEN JumpTo(dst, adjusted_top) ELSE Goto(instr + 1, gas_left, adjusted_top)

(* JUMPI not taken begins the following block, whose data it holds.        *)
op_jumpi(dst, cond) ==
  /\ phase = "run"
  /\ current_fn = OP_JUMPI
  /\ IF cond # 0 THEN JumpTo(dst, adjusted_top) ELSE beginblock(adjusted_top)

MakeResult ==
  /\ phase = "exit"
  /\ phase' = "done"
  /\ result' = [status |-> status, gas_left |-> IF status \in {SUCCESS, REVERT} THEN gas_left ELSE 0]
  /\ UNCHANGED <<analysisVars, instr, stack_top, gas_left, current_block_cost, status>>

------------------------------------------------------------------------------
(* The contract of the core functions, as in module Baseline.              *)
FailedOutcomes(g, codes) == [status : codes, gas_left : (-MaxDebt) .. g]

ResultOutcomes(g) ==
  [status : {SUCCESS}, gas_left : 0 .. g]
    \cup FailedOutcomes(g, {"OUT_OF_GAS", "INVALID_MEMORY_ACCESS", "STATIC_MODE_VIOLATION"})

TermOutcomes(op, g) ==
  CASE op = OP_STOP -> [status : {SUCCESS}, gas_left : {g}]
    [] op = OP_INVALID -> [status : {"INVALID_INSTRUCTION"}, gas_left : {g}]
    [] op = OP_RETURN -> [status : {SUCCESS}, gas_left : 0 .. g] \cup FailedOutcomes(g, {"OUT_OF_GAS"})
    [] OTHER -> [status : {REVERT}, gas_left : 0 .. g] \cup FailedOutcomes(g, {"OUT_OF_GAS"})

OpResult == phase = "run" /\ current_fn \in ResultOps /\ \E r \in ResultOutcomes(gas_left) : op_result(r)
OpCorrected ==
  /\ phase = "run"
  /\ current_fn \in GasCorrectedOps \ {OP_GAS}
  /\ \E r \in ResultOutcomes(gas_left + gas_left_correction) : op_corrected(r)
OpTerm == phase = "run" /\ current_fn \in TermOps /\ \E r \in TermOutcomes(current_fn, gas_left) : op_term(r)
OpJump == phase = "run" /\ current_fn = OP_JUMP /\ \E dst \in Words : op_jump(dst)
OpJumpi == phase = "run" /\ current_fn = OP_JUMPI /\ \E cond, dst \in Words : op_jumpi(dst, cond)

Execute ==
  \/ opx_beginblock
  \/ op_undefined
  \/ op_void
  \/ OpResult
  \/ OpCorrected
  \/ OpTerm
  \/ op_gas
  \/ op_push
  \/ op_pc
  \/ OpJump
  \/ OpJumpi

Analyze == AnalyzeInstruction \/ SkipDeadInstruction \/ SkipEnds \/ FinishAnalysis

Next == Analyze \/ Execute \/ MakeResult

Spec == Init /\ [][Next]_vars

(* analyze() and execute() run to their end on the calling thread.         *)
FairSpec == Spec /\ WF_vars(Next)

------------------------------------------------------------------------------
(* Properties.                                                             *)

Args == [kind : Members, value : Nat, gas_cost : Nat, stack_req : Nat,
         stack_max_growth : Nat]
Instructions ==
  [fn : Byte, arg : Args, pos : Nat, begin : Nat, change : Int, cost : Nat]
Blocks ==
  [gas_cost : Nat, stack_req : Nat, stack_max_growth : Nat, stack_change : Int,
   begin_block_index : Nat]

(* Types; while instructions are executed the gas is not negative.         *)
TypeOK ==
  /\ phase \in {"analyze", "skip", "run", "exit", "done"}
  /\ code \in Programs
  /\ code_pos \in 0 .. Len(code)
  /\ block \in Blocks
  /\ instrs \in Seq(Instructions)
  /\ push_values \in Nat
  /\ jumpdest_offsets \in Seq(Nat)
  /\ jumpdest_targets \in Seq(Nat)
  /\ instr \in Nat
  /\ stack_top \in Int
  /\ gas_left \in Int
  /\ phase \in {"analyze", "skip", "run"} => gas_left \in Nat
  /\ current_block_cost \in Nat
  /\ status \in StatusCode
  /\ result \in [status : StatusCode \cup {"NONE"}, gas_left : Nat]

(* The two assertions at the end of analyze(): the vectors reserved up     *)
(* front are never reallocated, so that pointers into them stay valid.     *)
ReservedSizesSuffice ==
  /\ Len(instrs) <= Len(code) + 2
  /\ push_values <= Len(code) + 1

(* The jump tables hold exactly the JUMPDEST instructions of the code, in  *)
(* ascending order as std::lower_bound needs them, each with the index of  *)
(* its own BEGINBLOCK; skipping dead code never loses the instruction      *)
(* boundaries.                                                             *)
JumpdestTablesExact ==
  phase \in {"run", "exit", "done"} =>
    /\ {jumpdest_offsets[k] : k \in DOMAIN jumpdest_offsets} = JumpDests(code)
    /\ \A j, k \in DOMAIN jumpdest_offsets : j < k => jumpdest_offsets[j] < jumpdest_offsets[k]
    /\ DOMAIN jumpdest_targets = DOMAIN jumpdest_offsets
    /\ \A k \in DOMAIN jumpdest_targets :
         /\ jumpdest_targets[k] \in 1 .. Len(instrs) - 1
         /\ Instr(jumpdest_targets[k]).fn = OP_JUMPDEST
         /\ Instr(jumpdest_targets[k]).pos = jumpdest_offsets[k]

(* Whatever function the table of instructions gives an instruction, the   *)
(* member of the union that it reads is the one that was written last: by  *)
(* the switch of analyze() or, later, by saving the block's data.          *)
ArgumentMembersMatch ==
  phase \in {"run", "exit", "done"} =>
    \A k \in DOMAIN instrs, m \in Members : reads(instrs[k].fn, m) => instrs[k].arg.kind = m

(* Execution never leaves the instruction table.                           *)
ExecutionStaysInTable == phase = "run" => instr \in 0 .. (Len(instrs) - 1)

(* One check at the start of a block is enough for all of it: no           *)
(* instruction in the middle of a block reads below the stack bottom or    *)
(* writes above the stack limit, although none of them checks.             *)
StackAccessInBounds ==
  phase = "run" /\ current_fn # OP_JUMPDEST =>
    /\ stack_top >= stack_height_required[current_fn]
    /\ stack_top + stack_height_change[current_fn] \in 0 .. StackLimit

(* The gas correction of GAS, SSTORE and the calls is taken from the block *)
(* the instruction belongs to: it is the cost of the block's remaining     *)
(* instructions, never negative.                                           *)
CorrectionIsRestOfBlock ==
  phase = "run" /\ current_fn \in GasCorrectedOps =>
    /\ current_block_cost = Instr(Instr(instr).begin).arg.gas_cost
    /\ gas_left_correction \in 0 .. current_block_cost

(* No step returns gas: while the execution can still succeed, what is     *)
(* left never grows, and a failure returns none (it may leave the          *)
(* correction in state.gas_left).                                          *)
GasNeverGrows ==
  [][/\ status' \in {SUCCESS, REVERT} => gas_left' <= gas_left
     /\ result' # result /\ result'.status \in FAILURES => result'.gas_left = 0]_vars

------------------------------------------------------------------------------
(* Advanced as an implementation of Baseline.                              *)

(* What the block that k belongs to costs from k on; a BEGINBLOCK is       *)
(* reached when the block before it is used up.                            *)
rest_from(k) == IF Instr(k).fn = OP_JUMPDEST THEN 0 ELSE current_block_cost - Instr(k).cost

(* The execution ended because a block was refused.  Baseline would go on  *)
(* to the instruction of the block that it cannot execute.                 *)
Refused ==
  /\ phase \in {"exit", "done"}
  /\ \/ status \in {"STACK_UNDERFLOW", "STACK_OVERFLOW"}
     \/ status = "OUT_OF_GAS" /\ current_fn \in {OP_JUMPDEST, OP_JUMPI}

(* Where the position of Baseline ends up: data of a last PUSH may be      *)
(* missing.                                                                *)
EndPosition(c) ==
  IF Len(c) = 0 THEN 0
  ELSE CHOOSE n \in Len(c) .. Len(c) + 32 : \E p \in InstructionStarts(c) : NextPosition(c, p) = n
Uncut(p) == IF p < Len(code) THEN p ELSE EndPosition(code)

BaselinePhase == CASE phase \in {"analyze", "skip"} -> "analyze" [] Refused -> "run" [] OTHER -> phase

(* Baseline moves the stack pointer only when it goes on.                  *)
BaselineTop ==
  IF phase \in {"exit", "done"} /\ current_fn \notin TermOps
  THEN stack_top - stack_height_change[current_fn] ELSE stack_top

(* Baseline has not charged what the rest of the block costs.              *)
BaselineGas ==
  CASE phase \in {"analyze", "skip", "run"} -> gas_left + rest_from(instr)
    [] Refused -> gas_left + Instr(instr).arg.gas_cost + rest_from(instr)
    [] OTHER ->
         IF status \in {SUCCESS, REVERT} THEN gas_left
         ELSE IF current_fn \in GasCorrectedOps THEN max(gas_left, -MaxDebt)
         ELSE gas_left + rest_from(instr) - op_gas_cost(current_fn)

(* Destinations found so far, and where both are in the code.              *)
BaselineMap == {jumpdest_offsets[k] : k \in DOMAIN jumpdest_offsets}
BaselineCursor == Uncut(code_pos)
BaselinePosition == Uncut(Instr(instr).pos)

BaselineStatus == IF Refused THEN SUCCESS ELSE status
BaselineResult == IF Refused THEN [status |-> "NONE", gas_left |-> 0] ELSE result

Stepwise == INSTANCE Baseline WITH
  phase <- BaselinePhase,
  cursor <- BaselineCursor,
  jumpdest_map <- BaselineMap,
  code_it <- BaselinePosition,
  stack_top <- BaselineTop,
  gas <- BaselineGas,
  status <- BaselineStatus,
  result <- BaselineResult

(* Charging gas and checking the stack once per block is not observable:   *)
(* whatever the core functions return, Advanced does what Baseline, which  *)
(* checks every instruction, could do, up to the end or to a block it      *)
(* refuses, with the same position, stack height and gas before every      *)
(* instruction and the same result.                                        *)
ImplementsBaseline == Stepwise!Spec

(* A block is refused only if Baseline would fail in it too: an            *)
(* instruction of the block is out of gas, or finds too few or too many    *)
(* items, after those before it.                                           *)
RefusedBlocksFail ==
  Refused =>
    \E k \in 1 .. Len(instrs) - 1 :
      LET i == Instr(k) IN
        /\ i.begin = instr
        /\ CASE status = "STACK_UNDERFLOW" -> stack_top + i.change < stack_height_required[i.fn]
             [] status = "STACK_OVERFLOW" -> stack_top + i.change + stack_height_change[i.fn] > StackLimit
             [] OTHER -> gas_left + Instr(instr).arg.gas_cost < i.cost + op_gas_cost(i.fn)

(* Every execution ends with a result.                                     *)
ExecutionTerminates == <>(phase = "done")
==============================================================================
