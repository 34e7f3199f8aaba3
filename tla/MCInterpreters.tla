--------------------------- MODULE MCInterpreters ----------------------------
(* Instances of Interpreters.  A code is put together from chunks: an      *)
(* instruction, or a PUSH with its data.                                   *)
EXTENDS Interpreters

MCEnvWords == [op \in EnvPush |-> op]

Concat(chunks) == FoldLeft(LAMBDA acc, chunk : acc \o chunk, <<>>, chunks)
Push(value) == <<OP_PUSH1, value>>
Pushes(values) == Concat([k \in DOMAIN values |-> Push(values[Len(values) + 1 - k])])

------------------------------------------------------------------------------
(* Control: all sequences of up to four chunks, with one-byte words.       *)

(* Two destinations, jumps, what reads the gas, what ends a block, a PUSH3 *)
(* that swallows what follows or is cut off, an undefined byte.            *)
ControlChunks ==
  {Push(0), Push(3), Push(4), <<OP_JUMP>>, <<OP_JUMPI>>, <<OP_JUMPDEST>>, <<OP_GAS>>, <<OP_PC>>,
   <<OP_MSTORE8>>, <<OP_PUSH1 + 2>>, <<12>>}

ControlPrograms ==
  {a \o b \o c \o d : a, b, c, d \in ControlChunks}

ControlGas == {7, 30}

World ==
  [recipient |-> 16, sender |-> 17, value |-> 0, static |-> FALSE, depth |-> 0, input |-> <<>>,
   accounts |-> (16 :> [exists |-> TRUE, balance |-> 5, code |-> <<1, 2>>]),
   callee |-> [gas_used |-> 100, status |-> SUCCESS, gas_refund |-> 0, output |-> <<>>],
   create_address |-> 77, block_number |-> 3, block_hash |-> 99, storage |-> <<>>]

ControlScenarios == {World}

------------------------------------------------------------------------------
(* Costs: one instruction with dynamic gas on operands at its edges, then  *)
(* what shows its result, the gas left and the memory size to the caller.  *)
(* Words have two bytes.                                                   *)

ReturnAll ==
  <<OP_PUSH0, OP_MSTORE, OP_GAS>> \o Push(2) \o <<OP_MSTORE, OP_MSIZE>> \o Push(4)
    \o <<OP_MSTORE>> \o Push(6) \o <<OP_PUSH0, OP_RETURN>>

(* The same in a block of its own, and an execution that is undone.        *)
Tails == {ReturnAll, <<OP_JUMPDEST>> \o ReturnAll, Push(1) \o <<OP_PUSH0, OP_REVERT>>}

Offsets == {0, 3, 250}
Sizes == {0, 1, 6}
Copy == {<<d, s, n>> : d \in {0, 250}, s \in {0, 3}, n \in Sizes}

(* A cold account that exists, one that does not, a precompiled contract.  *)
Addresses == {32, 40, 2}

(* The operands, top first.  Gas 255 is more than most callers have left;  *)
(* the account can send a value of 1, not of 9.                            *)
Operands(op) ==
  CASE op \in {OP_MLOAD, OP_SLOAD, OP_CALLDATALOAD} -> {<<o>> : o \in Offsets}
    [] op \in {OP_BALANCE, OP_EXTCODESIZE, OP_EXTCODEHASH} -> {<<a>> : a \in Addresses}
    [] op \in {OP_MSTORE, OP_MSTORE8} -> {<<o, 7>> : o \in Offsets}
    [] op = OP_EXP -> {<<2, 0>>, <<2, 5>>}
    [] op = OP_KECCAK256 -> {<<o, n>> : o \in Offsets, n \in Sizes}
    [] op = OP_SSTORE -> {<<k, v>> : k \in {1, 2}, v \in {0, 1, 2}}
    [] op \in {OP_CALLDATACOPY, OP_CODECOPY, OP_RETURNDATACOPY} -> Copy
    [] op = OP_EXTCODECOPY -> {<<32>> \o c : c \in Copy}
    [] op = OP_LOG0 + 1 -> {<<0, n, 7>> : n \in Sizes}
    [] op = OP_CALL -> {<<g, a, v, 0, 2, 2, n>> : g \in {0, 255}, a \in Addresses, v \in {0, 1, 9}, n \in {0, 6}}
    [] op \in {OP_DELEGATECALL, OP_STATICCALL} -> {<<255, a, 0, 2, 2, n>> : a \in Addresses, n \in {0, 6}}
    [] op = OP_CREATE -> {<<v, 0, n>> : v \in {0, 1, 9}, n \in {0, 6}}
    [] op = OP_CREATE2 -> {<<v, 0, 6, 1>> : v \in {0, 1}}

CostOps == {OP_MLOAD, OP_SLOAD, OP_CALLDATALOAD, OP_BALANCE, OP_EXTCODESIZE, OP_EXTCODEHASH, OP_MSTORE,
            OP_MSTORE8, OP_EXP, OP_KECCAK256, OP_SSTORE, OP_CALLDATACOPY, OP_CODECOPY,
            OP_RETURNDATACOPY, OP_EXTCODECOPY, OP_LOG0 + 1, OP_CALL, OP_DELEGATECALL, OP_STATICCALL,
            OP_CREATE, OP_CREATE2}

(* Word 9 stays at the bottom for the instructions that push nothing.      *)
Applied(op) == {Pushes(args) \o <<op>> : args \in Operands(op)}

(* Two writes to the same slot, a write and a call, a call and a copy of   *)
(* what it returned: the second instruction sees what the first one left.  *)
Pairs ==
  {a \o b : a, b \in Applied(OP_SSTORE)}
    \cup {a \o b : a \in Applied(OP_STATICCALL), b \in Applied(OP_RETURNDATACOPY)}

CostPrograms ==
  {Push(9) \o first \o tail : first \in UNION {Applied(op) : op \in CostOps} \cup Pairs, tail \in Tails}

CostGas == {140, 2400, 5100, 12000, 36000}

Funded ==
  [World EXCEPT !.input = <<8, 7, 6>>,
                !.accounts = (16 :> [exists |-> TRUE, balance |-> 5, code |-> <<1, 2>>])
                             @@ (32 :> [exists |-> TRUE, balance |-> 3, code |-> <<5, 6, 7, 8>>]),
                !.storage = (1 :> [current |-> 1, original |-> 1, access_status |-> "COLD"]),
                !.callee = [gas_used |-> 200, status |-> SUCCESS, gas_refund |-> 30, output |-> <<4, 4, 4>>]]

(* The callee succeeds, reverts; static mode; the deepest frame.           *)
CostScenarios ==
  {Funded,
   [Funded EXCEPT !.callee.status = REVERT],
   [Funded EXCEPT !.static = TRUE],
   [Funded EXCEPT !.depth = call_depth_limit]}
==============================================================================
