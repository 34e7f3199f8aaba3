----------------------------- MODULE MCBaseline ------------------------------
(* Small instances of Baseline: all codes over an alphabet of opcodes, up  *)
(* to a length.                                                            *)
EXTENDS Baseline, SequencesExt

CONSTANT MaxCodeLength

(* A void, a Result and a terminating instruction, jumps, JUMPDEST, an     *)
(* undefined byte, PUSH2 and PUSH32.  PUSH data is any of these bytes, so  *)
(* that JUMPDEST and PUSH bytes occur inside push data too.                *)
MCAlphabet == {OP_ADD, OP_MSTORE8, OP_RETURN, OP_JUMP, OP_JUMPI, OP_PC, OP_JUMPDEST, 12,
               OP_PUSH1 + 1, OP_PUSH32}

MCPrograms == UNION {[1 .. n -> MCAlphabet] : n \in 0 .. MaxCodeLength}

(* Every destination inside the code, one outside, and 0 and non-zero.     *)
MCWords == 0 .. MaxCodeLength

MCGasLimits == {9, 24}
==============================================================================
