---------------------------- MODULE Interpreters -----------------------------
(***************************************************************************)
(* The two interpreters side by side on the same message: Baseline, then   *)
(* Advanced, both with the core instruction semantics of module            *)
(* Instructions.  Their control is that of modules Baseline and Advanced,  *)
(* whose actions are used as they are; here the results of the core        *)
(* functions are computed instead of chosen.  The program offers both as   *)
(* implementations of one virtual machine (option "advanced" of vm.cpp),   *)
(* so they must agree on everything a caller can observe.                  *)
(***************************************************************************)
EXTENDS Instructions

CONSTANTS
  Programs,  \* the bytecodes, of Codes below
  GasLimits, StackInfoMax, GasInfoMax, MaxDebt,
  Scenarios  \* the messages and worlds: records without the field code

VARIABLES
  env,                                                       \* a scenario and the code
  bphase, cursor, jumpdest_map, code_it, btop, bgas, bstatus, bresult,
  bs,                                                        \* the ExecutionState of Baseline
  aphase, code_pos, block, instrs, push_values, jumpdest_offsets, jumpdest_targets, instr, atop,
  agas, current_block_cost, astatus, aresult,
  as                                                         \* the ExecutionState of Advanced

(* The codes both interpreters are specified for: no block of such a code  *)
(* costs more than BlockInfo::gas_cost can hold.                           *)
Codes == {c \in Seq(Byte) : Len(c) * 32000 <= GasInfoMax}

B == INSTANCE Baseline WITH
       Programs <- Codes, phase <- bphase, code <- env.code, stack_top <- btop, gas <- bgas,
       status <- bstatus, result <- bresult, Words <- 0 .. WordMod - 1

A == INSTANCE Advanced WITH
       Programs <- Codes, phase <- aphase, code <- env.code, stack_top <- atop, gas_left <- agas,
       status <- astatus, result <- aresult, Words <- 0 .. WordMod - 1

bvars == <<bphase, cursor, jumpdest_map, code_it, btop, bgas, bstatus, bresult, bs>>
avars == <<aphase, code_pos, block, instrs, push_values, jumpdest_offsets, jumpdest_targets, instr,
           atop, agas, current_block_cost, astatus, aresult, as>>
vars == <<env, bvars, avars>>

(* The stack space is not initialized; no slot is read before it is        *)
(* written, as StackAccessInBounds of module Advanced and the requirements *)
(* check of module Baseline ensure, so 0 stands for any content.           *)
ExecutionState(sc) ==
  [stack |-> [slot \in 1 .. StackLimit |-> 0], memory |-> <<>>, gas_refund |-> 0,
   return_data |-> <<>>, output_offset |-> 0, output_size |-> 0, storage |-> sc.storage,
   warm |-> {sc.recipient}, logs |-> <<>>, calls |-> <<>>]

Init ==
  /\ env \in {[recipient |-> sc.recipient, sender |-> sc.sender, value |-> sc.value,
               static |-> sc.static, depth |-> sc.depth, input |-> sc.input,
               accounts |-> sc.accounts, callee |-> sc.callee, create_address |-> sc.create_address,
               block_number |-> sc.block_number, block_hash |-> sc.block_hash,
               storage |-> sc.storage, code |-> c] : sc \in Scenarios, c \in Programs}
  /\ B!Init
  /\ bs = ExecutionState(env)
  /\ A!Init
  /\ agas = bgas
  /\ as = ExecutionState(env)

------------------------------------------------------------------------------
(* Baseline.                                                               *)

(* push<Len>(): the word is read from the padded code.                     *)
push(op) ==
  LET n == immediate_size(op) IN
    FoldLeft(LAMBDA acc, k : (acc * 256 + B!executable_code(env.code)[code_it + k]) % WordMod,
             0, [k \in 1 .. n |-> k])

BaselineVoid == B!invoke_void /\ bs' = core_void(B!current_op, bs, btop, env)

BaselineResult ==
  /\ B!Checked(B!ResultOps)
  /\ LET r == core_result(B!current_op, bs, btop, B!gas_charged, env) IN B!invoke_result(r) /\ bs' = r.s

BaselineJump ==
  /\ B!Checked({OP_JUMP, OP_JUMPI})
  /\ IF B!current_op = OP_JUMP THEN B!invoke_jump(Item(bs, btop, 0))
     ELSE B!invoke_jumpi(Item(bs, btop, 0), Item(bs, btop, 1))
  /\ UNCHANGED bs

BaselinePc == B!invoke_pc /\ bs' = SetSlot(bs, btop + 1, code_it % WordMod)
BaselinePush == B!invoke_push /\ bs' = SetSlot(bs, btop + 1, push(B!current_op))

BaselineTerm ==
  /\ B!Checked(B!TermOps)
  /\ LET r == core_term(B!current_op, bs, btop, B!gas_charged) IN B!invoke_term(r) /\ bs' = r.s

BaselineControl ==
  /\ B!analyze_jumpdests \/ B!StartDispatch \/ B!UndefinedInstruction \/ B!FailRequirements \/ B!MakeResult
  /\ UNCHANGED bs

BaselineStep ==
  /\ UNCHANGED <<env, avars>>
  /\ \/ BaselineControl
     \/ BaselineVoid
     \/ BaselineResult
     \/ BaselineJump
     \/ BaselinePc
     \/ BaselinePush
     \/ BaselineTerm

------------------------------------------------------------------------------
(* Advanced.                                                               *)

AdvancedVoid == A!op_void /\ as' = core_void(A!current_fn, as, atop, env)

(* Mutant: every core function is given the corrected gas.                 *)
AdvancedResult_corrected ==
  /\ aphase = "run"
  /\ A!current_fn \in A!ResultOps
  /\ LET r == core_result(A!current_fn, as, atop, agas + current_block_cost, env)
     IN A!op_result(r) /\ as' = r.s

AdvancedResult ==
  /\ aphase = "run"
  /\ A!current_fn \in A!ResultOps
  /\ LET r == core_result(A!current_fn, as, atop, agas, env) IN A!op_result(r) /\ as' = r.s

(* Mutant: the core function sees the gas without the correction.          *)
AdvancedCorrected_uncorrected ==
  /\ aphase = "run"
  /\ A!current_fn \in A!GasCorrectedOps \ {OP_GAS}
  /\ LET r == core_result(A!current_fn, as, atop, agas, env)
     IN A!op_corrected([r EXCEPT !.gas_left = @ + A!gas_left_correction]) /\ as' = r.s

AdvancedCorrected ==
  /\ aphase = "run"
  /\ A!current_fn \in A!GasCorrectedOps \ {OP_GAS}
  /\ LET r == core_result(A!current_fn, as, atop, agas + A!gas_left_correction, env)
     IN A!op_corrected(r) /\ as' = r.s

AdvancedGas ==
  /\ A!op_gas
  /\ as' = SetSlot(as, atop + 1, (agas + A!gas_left_correction) % WordMod)

AdvancedPc == A!op_pc /\ as' = SetSlot(as, atop + 1, A!Instr(instr).arg.value % WordMod)
AdvancedPush == A!op_push /\ as' = SetSlot(as, atop + 1, A!Instr(instr).arg.value)

AdvancedJump ==
  /\ aphase = "run"
  /\ A!current_fn \in {OP_JUMP, OP_JUMPI}
  /\ IF A!current_fn = OP_JUMP THEN A!op_jump(Item(as, atop, 0))
     ELSE A!op_jumpi(Item(as, atop, 0), Item(as, atop, 1))
  /\ UNCHANGED as

AdvancedTerm ==
  /\ aphase = "run"
  /\ A!current_fn \in A!TermOps
  /\ LET r == core_term(A!current_fn, as, atop, agas) IN A!op_term(r) /\ as' = r.s

AdvancedControl ==
  /\ A!Analyze \/ A!opx_beginblock \/ A!op_undefined \/ A!MakeResult
  /\ UNCHANGED as

AdvancedStep ==
  /\ bphase = "done"     \* the runs are independent: one order stands for all
  /\ UNCHANGED <<env, bvars>>
  /\ \/ AdvancedControl
     \/ AdvancedVoid
     \/ AdvancedResult
     \/ AdvancedCorrected
     \/ AdvancedGas
     \/ AdvancedPc
     \/ AdvancedPush
     \/ AdvancedJump
     \/ AdvancedTerm

Next == BaselineStep \/ AdvancedStep

Spec == Init /\ [][Next]_vars /\ WF_vars(Next)

------------------------------------------------------------------------------
(* Properties.                                                             *)

(* What the caller of execute() sees: a failure loses everything else.     *)
Outcome(result, s) ==
  IF result.status \in FAILURES THEN [status |-> "FAILURE", gas_left |-> result.gas_left]
  ELSE [status |-> result.status, gas_left |-> result.gas_left,
        gas_refund |-> IF result.status = SUCCESS THEN s.gas_refund ELSE 0,
        output |-> Slice(s.memory, s.output_offset, s.output_size),
        storage |-> s.storage, warm |-> s.warm, logs |-> s.logs, calls |-> s.calls]

(* Charging gas and checking the stack once per block is not observable:   *)
(* both interpreters succeed, revert or fail alike, with the same gas      *)
(* left, refund, output, storage, logs and the same messages to the host,  *)
(* gas of each message included.                                           *)
InterpretersAgree ==
  bphase = "done" /\ aphase = "done" => Outcome(bresult, bs) = Outcome(aresult, as)

(* Whatever the core functions compute, Baseline's control is that of      *)
(* module Baseline: in particular no core function returns more gas than   *)
(* it was given, or success with negative gas.                             *)
BaselineRefines == B!Spec

(* The same for module Advanced.                                           *)
AdvancedRefines == A!Spec

(* With the real costs no instruction hands out gas, the stipend of a      *)
(* value transfer and the gas a callee gives back included.                *)
NoGasIsCreated == B!GasNeverGrows /\ A!GasNeverGrows
==============================================================================
