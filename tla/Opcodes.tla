------------------------------- MODULE Opcodes -------------------------------
(***************************************************************************)
(* The instruction set: opcode numbers, base gas costs and stack traits,   *)
(* as tabulated in lib/zvmone/instructions_opcodes.hpp and                 *)
(* lib/zvmone/instructions_traits.hpp (revision Shanghai, the only one     *)
(* the tables define).  Both interpreters and both code analyses read      *)
(* these tables.  The opcodes are the numbers found in bytecode, so that   *)
(* a byte of push data can be mistaken for an instruction exactly when it  *)
(* could be in the program.                                                *)
(***************************************************************************)
EXTENDS Integers

Byte == 0 .. 255

OP_STOP == 0
OP_ADD == 1
OP_MUL == 2
OP_SUB == 3
OP_DIV == 4
OP_MOD == 6
OP_ADDMOD == 8
OP_MULMOD == 9
OP_EXP == 10
OP_LT == 16
OP_GT == 17
OP_EQ == 20
OP_ISZERO == 21
OP_NOT == 25
OP_BYTE == 26
OP_KECCAK256 == 32
OP_ADDRESS == 48
OP_BALANCE == 49
OP_CALLVALUE == 52
OP_CALLDATALOAD == 53
OP_CALLDATASIZE == 54
OP_CALLDATACOPY == 55
OP_CODESIZE == 56
OP_CODECOPY == 57
OP_EXTCODESIZE == 59
OP_EXTCODECOPY == 60
OP_RETURNDATASIZE == 61
OP_RETURNDATACOPY == 62
OP_EXTCODEHASH == 63
OP_BLOCKHASH == 64
OP_SELFBALANCE == 71
OP_POP == 80
OP_MLOAD == 81
OP_MSTORE == 82
OP_MSTORE8 == 83
OP_SLOAD == 84
OP_SSTORE == 85
OP_JUMP == 86
OP_JUMPI == 87
OP_PC == 88
OP_MSIZE == 89
OP_GAS == 90
OP_JUMPDEST == 91
OP_PUSH0 == 95
OP_PUSH1 == 96
OP_PUSH8 == 103
OP_PUSH32 == 127
OP_DUP1 == 128
OP_DUP16 == 143
OP_SWAP1 == 144
OP_SWAP16 == 159
OP_LOG0 == 160
OP_LOG4 == 164
OP_CREATE == 240
OP_CALL == 241
OP_RETURN == 243
OP_DELEGATECALL == 244
OP_CREATE2 == 245
OP_STATICCALL == 250
OP_REVERT == 253
OP_INVALID == 254

(* Instructions that push one item and read nothing but the execution      *)
(* state: ADDRESS, ORIGIN, CALLER, CALLVALUE, CALLDATASIZE, CODESIZE,      *)
(* GASPRICE, RETURNDATASIZE, COINBASE..SELFBALANCE, BASEFEE, PC, MSIZE,    *)
(* GAS and PUSH0.                                                          *)
EnvPush == {48, 50, 51, 52, 54, 56, 58, 61} \cup (65 .. 72) \cup {88, 89, 90, 95}

AnyPush == OP_PUSH1 .. OP_PUSH32
AnySmallPush == OP_PUSH1 .. OP_PUSH8
AnyLargePush == (OP_PUSH8 + 1) .. OP_PUSH32
AnyDup == OP_DUP1 .. OP_DUP16
AnySwap == OP_SWAP1 .. OP_SWAP16
AnyLog == OP_LOG0 .. OP_LOG4
AnyCall == {OP_CALL, OP_DELEGATECALL, OP_STATICCALL}
AnyCreate == {OP_CREATE, OP_CREATE2}

(* Traits::immediate_size: the number of data bytes that follow a PUSH.    *)
immediate_size(op) == IF op \in AnyPush THEN op - OP_PUSH1 + 1 ELSE 0

undefined == -1

cold_sload_cost == 2100
warm_storage_read_cost == 100
additional_cold_account_access_cost == 2600 - warm_storage_read_cost

(* instr::gas_costs[ZVMC_SHANGHAI]: the base cost charged before an        *)
(* instruction runs; undefined marks bytes that are no instruction.        *)
base_cost(op) ==
  CASE op \in {OP_STOP, OP_SSTORE, OP_RETURN, OP_REVERT, OP_INVALID} -> 0
    [] op = OP_JUMPDEST -> 1
    [] op \in (EnvPush \ {OP_SELFBALANCE}) \cup {OP_POP} -> 2
    [] op \in {1, 3} \cup (16 .. 29) \cup {53, 55, 57, 62, 81, 82, 83}
              \cup AnyPush \cup AnyDup \cup AnySwap -> 3
    [] op \in {2, 4, 5, 6, 7, 11, OP_SELFBALANCE} -> 5
    [] op \in {OP_ADDMOD, OP_MULMOD, OP_JUMP} -> 8
    [] op \in {OP_EXP, OP_JUMPI} -> 10
    [] op = OP_BLOCKHASH -> 20
    [] op = OP_KECCAK256 -> 30
    [] op \in {OP_BALANCE, OP_EXTCODESIZE, OP_EXTCODECOPY, OP_EXTCODEHASH,
               OP_SLOAD} \cup AnyCall -> warm_storage_read_cost
    [] op \in AnyLog -> 375 * (op - OP_LOG0 + 1)
    [] op \in AnyCreate -> 32000
    [] OTHER -> undefined

gas_costs == [op \in Byte |-> base_cost(op)]

Defined(op) == gas_costs[op] # undefined

(* Traits::stack_height_required: how many items the instruction reads.    *)
items_required(op) ==
  CASE op \in {OP_ISZERO, OP_NOT, 49, 53, 59, 63, 64, 80, 81, 84, 86} -> 1
    [] op \in {1, 2, 3, 4, 5, 6, 7, 10, 11} \cup (16 .. 20) \cup (22 .. 24) \cup (26 .. 29)
              \cup {32, 82, 83, 85, 87, OP_RETURN, OP_REVERT} -> 2
    [] op \in {8, 9, 55, 57, 62, OP_CREATE} -> 3
    [] op \in {OP_EXTCODECOPY, OP_CREATE2} -> 4
    [] op \in {OP_DELEGATECALL, OP_STATICCALL} -> 6
    [] op = OP_CALL -> 7
    [] op \in AnyDup -> op - OP_DUP1 + 1
    [] op \in AnySwap -> op - OP_SWAP1 + 2
    [] op \in AnyLog -> op - OP_LOG0 + 2
    [] OTHER -> 0

stack_height_required == [op \in Byte |-> items_required(op)]

(* Traits::stack_height_change.                                            *)
items_added(op) ==
  CASE op \in EnvPush \cup AnyPush \cup AnyDup -> 1
    [] op \in {1, 2, 3, 4, 5, 6, 7, 10, 11} \cup (16 .. 20) \cup (22 .. 24) \cup (26 .. 29)
              \cup {32, OP_POP, OP_JUMP} -> -1
    [] op \in {8, 9, 82, 83, 85, OP_JUMPI, OP_CREATE, OP_RETURN, OP_REVERT} -> -2
    [] op \in {55, 57, 62, OP_CREATE2} -> -3
    [] op = OP_EXTCODECOPY -> -4
    [] op \in {OP_DELEGATECALL, OP_STATICCALL} -> -5
    [] op = OP_CALL -> -6
    [] op \in AnyLog -> 0 - (op - OP_LOG0 + 2)
    [] OTHER -> 0

stack_height_change == [op \in Byte |-> items_added(op)]

(* zvmc_status_code, the values the two interpreters produce.              *)
SUCCESS == "SUCCESS"
REVERT == "REVERT"
FAILURES == {"OUT_OF_GAS", "INVALID_INSTRUCTION", "UNDEFINED_INSTRUCTION", "STACK_OVERFLOW",
             "STACK_UNDERFLOW", "BAD_JUMP_DESTINATION", "INVALID_MEMORY_ACCESS",
             "STATIC_MODE_VIOLATION"}
StatusCode == {SUCCESS, REVERT} \cup FAILURES
==============================================================================
