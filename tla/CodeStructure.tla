---------------------------- MODULE CodeStructure ----------------------------
(***************************************************************************)
(* What bytecode means before any analysis looks at it: which bytes are    *)
(* instructions and which are push data.  This is the reference both code  *)
(* analyses are compared with; it is not translated from either of them.   *)
(* Positions are 0-based offsets, as in the program.                       *)
(***************************************************************************)
EXTENDS Opcodes, Sequences

ByteAt(c, p) == c[p + 1]

Positions(c) == 0 .. (Len(c) - 1)

(* The position of the instruction that follows the one at p.              *)
NextPosition(c, p) == p + 1 + immediate_size(ByteAt(c, p))

(* S contains the first instruction and, with an instruction, the one      *)
(* that follows it.                                                        *)
ClosedUnderNext(c, S) ==
  /\ 0 \in Positions(c) => 0 \in S
  /\ \A p \in S : NextPosition(c, p) \in Positions(c) => NextPosition(c, p) \in S

(* The instruction boundaries of c: the least set closed under Next.       *)
InstructionStarts(c) ==
  {p \in Positions(c) : \A S \in SUBSET Positions(c) : ClosedUnderNext(c, S) => p \in S}

(* The valid jump destinations: JUMPDEST bytes that are instructions.      *)
JumpDests(c) == {p \in InstructionStarts(c) : ByteAt(c, p) = OP_JUMPDEST}
==============================================================================
