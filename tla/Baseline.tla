------------------------------ MODULE Baseline -------------------------------
(***************************************************************************)
(* The control of the Baseline interpreter (lib/zvmone/baseline.cpp): the  *)
(* code analysis (analyze_jumpdests, pad_code), the requirements check     *)
(* before every instruction, the dispatch loop and the result.             *)
(*                                                                         *)
(* The core instruction implementations (instr::core) are known here only  *)
(* by their signatures and by what invoke() relies on: a core function     *)
(* returns a status and the gas left, and the caller moves the stack       *)
(* pointer and the code position.  Every value they could compute is a     *)
(* possible choice, so what holds here holds whatever they compute.        *)
(* Module Interpreters gives them their concrete semantics.                *)
(***************************************************************************)
EXTENDS CodeStructure

CONSTANTS
  Programs,     \* the bytecodes the interpreter is given
  GasLimits,    \* the values of msg.gas
  Words,        \* the words a program may find on its stack
  StackLimit,   \* StackSpace::limit, 1024 in the program
  MaxDebt       \* bound: by how much a failing core function overdraws the gas

ASSUME ProgramsAssumption == Programs \subseteq Seq(Byte)
ASSUME GasLimitsAssumption == GasLimits \subseteq Nat
ASSUME WordsAssumption == Words \subseteq Nat
ASSUME StackLimitAssumption == StackLimit \in Nat \ {0}
ASSUME MaxDebtAssumption == MaxDebt \in Nat

VARIABLES
  phase,         \* "analyze", then "run", "exit" and "done"
  code,          \* the original code
  cursor,        \* the loop variable i of analyze_jumpdests
  jumpdest_map,  \* the set of positions whose bit is set
  code_it,       \* Position::code_it, as an offset
  stack_top,     \* Position::stack_top - stack_bottom: the stack height
  gas,           \* the local gas of dispatch()
  status,        \* state.status
  result         \* the zvmc_result returned: status code and gas left

analysisVars == <<code, cursor, jumpdest_map>>
vars == <<phase, code, cursor, jumpdest_map, code_it, stack_top, gas, status, result>>

NoResult == [status |-> "NONE", gas_left |-> 0]

Init ==
  /\ phase = "analyze"
  /\ code \in Programs
  /\ cursor = 0
  /\ jumpdest_map = {}
  /\ code_it = 0
  /\ stack_top = 0
  /\ gas \in GasLimits
  /\ status = SUCCESS
  /\ result = NoResult

------------------------------------------------------------------------------
(* Code analysis.                                                          *)

(* Mutant: the STOP after the push data is forgotten.                      *)
padding_without_stop == 32

(* 32 bytes for the missing data of a PUSH32 at the code end and one STOP. *)
padding == 32 + 1

BufferEnd(c) == Len(c) + padding - 1

(* pad_code(): the buffer the dispatch loop reads.                         *)
executable_code(c) == [p \in 0 .. BufferEnd(c) |-> IF p < Len(c) THEN ByteAt(c, p) ELSE OP_STOP]

(* Mutant: the last byte of the push data is taken for an instruction.     *)
analyze_jumpdests_short_skip ==
  /\ phase = "analyze"
  /\ cursor < Len(code)
  /\ LET op == ByteAt(code, cursor) IN
       /\ jumpdest_map' = IF op = OP_JUMPDEST THEN jumpdest_map \cup {cursor} ELSE jumpdest_map
       /\ cursor' = IF op \in AnyPush THEN cursor + (op - (OP_PUSH1 - 1)) ELSE cursor + 1
  /\ UNCHANGED <<phase, code, code_it, stack_top, gas, status, result>>

(* One iteration of the loop of analyze_jumpdests().                       *)
analyze_jumpdests ==
  /\ phase = "analyze"
  /\ cursor < Len(code)
  /\ LET op == ByteAt(code, cursor) IN
       /\ jumpdest_map' = IF op = OP_JUMPDEST THEN jumpdest_map \cup {cursor} ELSE jumpdest_map
       /\ cursor' = IF op \in AnyPush THEN cursor + (op - (OP_PUSH1 - 1)) + 1 ELSE cursor + 1
  /\ UNCHANGED <<phase, code, code_it, stack_top, gas, status, result>>

(* The loop is over: execute() enters dispatch() at the first byte.        *)
StartDispatch ==
  /\ phase = "analyze"
  /\ cursor >= Len(code)
  /\ phase' = "run"
  /\ UNCHANGED <<code, cursor, jumpdest_map, code_it, stack_top, gas, status, result>>

------------------------------------------------------------------------------
(* Dispatch: one action per shape of instr::core function that invoke()    *)
(* handles.                                                                *)

current_op == executable_code(code)[code_it]

(* The core functions that return a Result: they charge more gas and can   *)
(* fail.  GAS is one by its signature; it returns the gas it was given.    *)
ResultOps == {OP_EXP, OP_KECCAK256, OP_BALANCE, OP_CALLDATACOPY, OP_CODECOPY, OP_EXTCODESIZE,
              OP_EXTCODECOPY, OP_RETURNDATACOPY, OP_EXTCODEHASH, OP_MLOAD, OP_MSTORE, OP_MSTORE8,
              OP_SLOAD, OP_SSTORE, OP_GAS} \cup AnyLog \cup AnyCall \cup AnyCreate
TermOps == {OP_STOP, OP_INVALID, OP_RETURN, OP_REVERT}
CodeOps == {OP_JUMP, OP_JUMPI, OP_PC} \cup AnyPush
VoidOps == {op \in Byte : Defined(op)} \ (ResultOps \cup TermOps \cup CodeOps)

(* Mutant: overflow is noticed one item too late.                          *)
check_requirements_late_overflow(op) ==
  CASE stack_height_change[op] > 0 /\ stack_top = StackLimit + 1 -> "STACK_OVERFLOW"
    [] stack_height_required[op] > 0 /\ stack_top <= stack_height_required[op] - 1 -> "STACK_UNDERFLOW"
    [] gas - gas_costs[op] < 0 -> "OUT_OF_GAS"
    [] OTHER -> SUCCESS

(* check_requirements(): the first failed check, in its order.             *)
check_requirements(op) ==
  CASE stack_height_change[op] > 0 /\ stack_top = StackLimit -> "STACK_OVERFLOW"
    [] stack_height_required[op] > 0 /\ stack_top <= stack_height_required[op] - 1 -> "STACK_UNDERFLOW"
    [] gas - gas_costs[op] < 0 -> "OUT_OF_GAS"
    [] OTHER -> SUCCESS

gas_after_check(op) ==
  IF check_requirements(op) \in {"STACK_OVERFLOW", "STACK_UNDERFLOW"} THEN gas
  ELSE gas - gas_costs[op]

(* invoke() returned a null code iterator: dispatch() returns.             *)
Exit(code_status, gas_left) ==
  /\ phase' = "exit"
  /\ status' = code_status
  /\ gas' = gas_left
  /\ UNCHANGED <<analysisVars, code_it, stack_top, result>>

(* The position is updated only when there is no error.                    *)
Continue(op, next_code_it, gas_left) ==
  /\ code_it' = next_code_it
  /\ stack_top' = stack_top + stack_height_change[op]
  /\ gas' = gas_left
  /\ UNCHANGED <<phase, analysisVars, status, result>>

(* Bytes outside MAP_OPCODES reach the default label of the switch.        *)
UndefinedInstruction ==
  /\ phase = "run"
  /\ ~Defined(current_op)
  /\ Exit("UNDEFINED_INSTRUCTION", gas)

FailRequirements ==
  /\ phase = "run"
  /\ Defined(current_op)
  /\ check_requirements(current_op) # SUCCESS
  /\ Exit(check_requirements(current_op), gas_after_check(current_op))

(* The instruction at code_it is one of ops and meets its requirements.    *)
Checked(ops) ==
  /\ phase = "run"
  /\ current_op \in ops
  /\ check_requirements(current_op) = SUCCESS

(* Mutant: the base cost is checked but not charged.                       *)
gas_uncharged == gas

gas_charged == gas - gas_costs[current_op]

invoke_void == Checked(VoidOps) /\ Continue(current_op, code_it + 1, gas_charged)

invoke_result(r) ==
  /\ Checked(ResultOps)
  /\ IF r.status = SUCCESS THEN Continue(current_op, code_it + 1, r.gas_left)
     ELSE Exit(r.status, r.gas_left)

(* Mutant: the byte is looked at instead of the map.                       *)
jump_impl_by_byte(dst) ==
  IF dst >= Len(code) \/ ByteAt(code, dst) # OP_JUMPDEST
  THEN Exit("BAD_JUMP_DESTINATION", gas_charged)
  ELSE Continue(current_op, dst, gas_charged)

(* jump_impl(): the destination must be marked in the jumpdest map.        *)
jump_impl(dst) ==
  IF dst >= Len(code) \/ dst \notin jumpdest_map
  THEN Exit("BAD_JUMP_DESTINATION", gas_charged)
  ELSE Continue(current_op, dst, gas_charged)

invoke_jump(dst) == Checked({OP_JUMP}) /\ jump_impl(dst)

invoke_jumpi(dst, cond) ==
  /\ Checked({OP_JUMPI})
  /\ IF cond # 0 THEN jump_impl(dst) ELSE Continue(current_op, code_it + 1, gas_charged)

invoke_pc == Checked({OP_PC}) /\ Continue(current_op, code_it + 1, gas_charged)

invoke_push ==
  /\ Checked(AnyPush)
  /\ Continue(current_op, code_it + (immediate_size(current_op) + 1), gas_charged)

(* How many bytes from the first data byte push<Len>() reads: the partial  *)
(* word is loaded with the next wider load.                                *)
push_bytes_read(op) ==
  LET n == immediate_size(op)
      partial == n % 8
      load == IF partial <= 2 THEN partial ELSE IF partial <= 4 THEN 4 ELSE 8
  IN IF load > n THEN load ELSE n

invoke_term(r) == Checked(TermOps) /\ Exit(r.status, r.gas_left)

(* The end of execute(): gas is returned only by SUCCESS and REVERT.       *)
MakeResult ==
  /\ phase = "exit"
  /\ phase' = "done"
  /\ result' = [status |-> status, gas_left |-> IF status \in {SUCCESS, REVERT} THEN gas ELSE 0]
  /\ UNCHANGED <<analysisVars, code_it, stack_top, gas, status>>

------------------------------------------------------------------------------
(* The contract of the core functions: success leaves at least 0 gas and   *)
(* no more than the function was given; after a failure the gas may be     *)
(* negative, by at most MaxDebt here.                                      *)
FailedOutcomes(g, codes) == [status : codes, gas_left : (-MaxDebt) .. g]

ResultOutcomes(op, g) ==
  IF op = OP_GAS THEN [status : {SUCCESS}, gas_left : {g}]
  ELSE [status : {SUCCESS}, gas_left : 0 .. g]
       \cup FailedOutcomes(g, {"OUT_OF_GAS", "INVALID_MEMORY_ACCESS", "STATIC_MODE_VIOLATION"})

TermOutcomes(op, g) ==
  CASE op = OP_STOP -> [status : {SUCCESS}, gas_left : {g}]
    [] op = OP_INVALID -> [status : {"INVALID_INSTRUCTION"}, gas_left : {g}]
    [] op = OP_RETURN -> [status : {SUCCESS}, gas_left : 0 .. g] \cup FailedOutcomes(g, {"OUT_OF_GAS"})
    [] OTHER -> [status : {REVERT}, gas_left : 0 .. g] \cup FailedOutcomes(g, {"OUT_OF_GAS"})

InvokeResult == Checked(ResultOps) /\ \E r \in ResultOutcomes(current_op, gas_charged) : invoke_result(r)
InvokeJump == Checked({OP_JUMP}) /\ \E dst \in Words : invoke_jump(dst)
InvokeJumpi == Checked({OP_JUMPI}) /\ \E cond, dst \in Words : invoke_jumpi(dst, cond)
InvokeTerm == Checked(TermOps) /\ \E r \in TermOutcomes(current_op, gas_charged) : invoke_term(r)

Dispatch ==
  \/ UndefinedInstruction
  \/ FailRequirements
  \/ invoke_void
  \/ InvokeResult
  \/ InvokeJump
  \/ InvokeJumpi
  \/ invoke_pc
  \/ invoke_push
  \/ InvokeTerm

Next ==
  \/ analyze_jumpdests
  \/ StartDispatch
  \/ Dispatch
  \/ MakeResult

Spec == Init /\ [][Next]_vars

(* execute() runs to its end on the calling thread.                        *)
FairSpec == Spec /\ WF_vars(Next)

------------------------------------------------------------------------------
(* Properties.                                                             *)

(* Types; while the loop runs the gas is not negative and the stack height *)
(* is between 0 and the limit.                                             *)
TypeOK ==
  /\ phase \in {"analyze", "run", "exit", "done"}
  /\ code \in Programs
  /\ cursor \in Nat
  /\ jumpdest_map \subseteq Positions(code)
  /\ code_it \in Nat
  /\ stack_top \in 0 .. StackLimit
  /\ gas \in Int
  /\ phase \in {"analyze", "run"} => gas \in Nat
  /\ status \in StatusCode
  /\ result \in [status : StatusCode \cup {"NONE"}, gas_left : Nat]

(* The dispatch loop never reads outside the padded buffer: neither the    *)
(* opcode nor the widest load of a PUSH, wherever the code is cut off.     *)
CodeReadsInBuffer ==
  phase = "run" =>
    /\ code_it \in 0 .. BufferEnd(code)
    /\ LET op == executable_code(code)[code_it]
       IN op \in AnyPush => code_it + push_bytes_read(op) <= BufferEnd(code)

(* The jumpdest bitmap marks exactly the JUMPDEST instructions: never a    *)
(* 0x5b byte inside push data, never missing one behind push data.         *)
JumpdestMapIsExact == phase # "analyze" => jumpdest_map = JumpDests(code)

(* Execution stays on instruction boundaries: no jump and no fall-through  *)
(* makes the loop execute push data.                                       *)
ExecutionIsAligned ==
  phase # "analyze" => code_it \in InstructionStarts(code) \/ code_it >= Len(code)

(* No step returns gas: across the loop and the result, gas never grows,   *)
(* and a failed execution returns none.                                    *)
GasNeverGrows ==
  [][/\ gas' <= gas
     /\ result' # result => result'.gas_left <= gas \/ result'.gas_left = 0
     /\ result' # result /\ result'.status \in FAILURES => result'.gas_left = 0]_vars

(* Control goes back, or stays, only by a jump onto a JUMPDEST, which      *)
(* costs gas: this is what bounds every loop.                              *)
BackwardsOnlyByJump ==
  [][phase = "run" /\ phase' = "run" /\ code_it' <= code_it =>
       /\ ByteAt(code, code_it) \in {OP_JUMP, OP_JUMPI}
       /\ ByteAt(code, code_it') = OP_JUMPDEST
       /\ gas' < gas]_vars

(* Every execution ends with a result, loops included: gas runs out.       *)
ExecutionTerminates == <>(phase = "done")
==============================================================================
