----------------------------- MODULE MCAdvanced ------------------------------
(* Small instances of Advanced: all codes over an alphabet of opcodes, up  *)
(* to a length, and some longer ones.                                      *)
EXTENDS Advanced

CONSTANT MaxCodeLength

(* DUP2, MSTORE8, SSTORE and GAS (corrected gas), STOP, jumps, JUMPDEST,   *)
(* PC, an undefined byte and PUSH2.  PUSH data is any of these bytes.      *)
MCAlphabet == {OP_STOP, OP_JUMP, OP_JUMPI, OP_JUMPDEST, OP_SSTORE, OP_GAS, OP_PUSH1 + 1,
               OP_DUP1 + 1, OP_MSTORE8, OP_PC, 12}

(* Every opcode alone, and a PUSH of each kind, from PUSH7 to PUSH10, whose *)
(* data is cut off, complete, or followed by jump destinations.            *)
MCPushes == {<<op>> \o [k \in 1 .. n |-> OP_JUMPDEST] : op \in (OP_PUSH8 - 1) .. (OP_PUSH8 + 2), n \in 0 .. 11}

MCPrograms ==
  UNION {[1 .. n -> MCAlphabet] : n \in 0 .. MaxCodeLength} \cup {<<op>> : op \in Byte} \cup MCPushes

MCWords == 0 .. MaxCodeLength

MCGasLimits == {4, 24}
==============================================================================
