---------------------------- MODULE Instructions -----------------------------
(***************************************************************************)
(* The "core" instruction implementations both interpreters share:         *)
(* lib/zvmone/instructions.hpp, instructions_storage.cpp and               *)
(* instructions_calls.cpp.  A core function gets the stack pointer and the *)
(* gas after the base cost, and the execution state s:                     *)
(*   stack        the stack space, slots 1 .. StackLimit                   *)
(*   memory       the bytes of the memory, its length is memory.size()     *)
(*   gas_refund   return_data   output_offset   output_size                *)
(*   storage      the slots of the executing account touched so far        *)
(*   warm         the accounts accessed so far                             *)
(*   logs, calls  what the host was told: emitted logs, messages called    *)
(* The message and the world around it are the record env.  Words have     *)
(* WordBytes bytes, 32 in the program; everything is scaled with that.     *)
(***************************************************************************)
EXTENDS StorageCosts, Sequences, SequencesExt, Bitwise

CONSTANTS
  WordBytes,      \* 32 in the program
  StackLimit,     \* StackSpace::limit, 1024 in the program
  MaxBufferSize,  \* max_buffer_size, 2^32 - 1 in the program
  EnvWords        \* what ADDRESS, ORIGIN, CALLER, CALLVALUE, ... push, by opcode

WordMod == 256 ^ WordBytes
Bits == 8 * WordBytes

Min2(a, b) == IF a <= b THEN a ELSE b

(* StackTop: item i below the top; push() writes the slot above the top.   *)
Item(s, top, i) == s.stack[top - i]
SetSlot(s, slot, value) == [s EXCEPT !.stack[slot] = value]

------------------------------------------------------------------------------
(* Arithmetic and logic.  a is the top item, b and c the ones below.       *)
Signed(x) == IF x >= WordMod \div 2 THEN x - WordMod ELSE x
Truth(p) == IF p THEN 1 ELSE 0
Abs(x) == IF x < 0 THEN -x ELSE x

(* intx::sdivrem: the quotient is truncated, the remainder has the sign of *)
(* the dividend.                                                           *)
SignedQuotient(x, y) ==
  LET q == Abs(x) \div Abs(y) IN (IF (x < 0) = (y < 0) THEN q ELSE -q) % WordMod
SignedRemainder(x, y) ==
  LET r == Abs(x) % Abs(y) IN (IF x < 0 THEN -r ELSE r) % WordMod

(* intx::exp: the exponent's bits from the most significant one.           *)
Power(x, n) ==
  FoldLeft(LAMBDA acc, k : ((acc * acc) % WordMod
                              * (IF (n \div 2 ^ (Bits - k)) % 2 = 1 THEN x ELSE 1)) % WordMod,
           1, [k \in 1 .. Bits |-> k])

(* The number of bytes of x without leading zero bytes.                    *)
count_significant_bytes(x) ==
  IF x = 0 THEN 0 ELSE CHOOSE n \in 1 .. WordBytes : 256 ^ (n - 1) <= x /\ x < 256 ^ n

signextend(ext, x) ==
  IF ext < WordBytes - 1
  THEN LET m == 256 ^ (ext + 1) IN IF x % m >= m \div 2 THEN (x % m) + WordMod - m ELSE x % m
  ELSE x

ArithmeticOps == (1 .. 9) \cup {11} \cup (16 .. 29)

alu(op, a, b, c) ==
  CASE op = OP_ADD -> (b + a) % WordMod
    [] op = OP_MUL -> (b * a) % WordMod
    [] op = OP_SUB -> (a - b) % WordMod
    [] op = OP_DIV -> IF b # 0 THEN a \div b ELSE 0
    [] op = 5 (* SDIV *) -> IF b # 0 THEN SignedQuotient(Signed(a), Signed(b)) ELSE 0
    [] op = OP_MOD -> IF b # 0 THEN a % b ELSE 0
    [] op = 7 (* SMOD *) -> IF b # 0 THEN SignedRemainder(Signed(a), Signed(b)) ELSE 0
    [] op = OP_ADDMOD -> IF c # 0 THEN (a + b) % c ELSE 0
    [] op = OP_MULMOD -> IF c # 0 THEN (a * b) % c ELSE 0
    [] op = 11 (* SIGNEXTEND *) -> signextend(a, b)
    [] op = OP_LT -> Truth(a < b)
    [] op = OP_GT -> Truth(b < a)
    [] op = 18 (* SLT *) -> Truth(Signed(a) < Signed(b))
    [] op = 19 (* SGT *) -> Truth(Signed(b) < Signed(a))
    [] op = OP_EQ -> Truth(a = b)
    [] op = OP_ISZERO -> Truth(a = 0)
    [] op = 22 (* AND *) -> b & a
    [] op = 23 (* OR *) -> b | a
    [] op = 24 (* XOR *) -> b ^^ a
    [] op = OP_NOT -> WordMod - 1 - a
    [] op = OP_BYTE -> IF a < WordBytes THEN (b \div 256 ^ (WordBytes - 1 - a)) % 256 ELSE 0
    [] op = 27 (* SHL *) -> IF a < Bits THEN (b % 2 ^ (Bits - a)) * 2 ^ a ELSE 0
    [] op = 28 (* SHR *) -> IF a < Bits THEN b \div 2 ^ a ELSE 0
    [] op = 29 (* SAR *) -> (IF a < Bits THEN Signed(b) \div 2 ^ a ELSE IF Signed(b) < 0 THEN -1 ELSE 0) % WordMod

------------------------------------------------------------------------------
(* Memory.                                                                 *)
num_words(size) == (size + (WordBytes - 1)) \div WordBytes
memory_cost(words) == 3 * words + (words * words) \div 512

(* Mutant: memory that is not paid for is allowed.                         *)
check_memory_unpaid(gas, memory, offset, size) ==
  IF offset > MaxBufferSize THEN [ok |-> FALSE, gas |-> gas, memory |-> memory]
  ELSE IF offset + size <= Len(memory) THEN [ok |-> TRUE, gas |-> gas, memory |-> memory]
  ELSE LET words == num_words(offset + size) IN
         [ok |-> TRUE,
          gas |-> gas - (memory_cost(words) - memory_cost(Len(memory) \div WordBytes)),
          memory |-> memory \o [k \in 1 .. words * WordBytes - Len(memory) |-> 0]]

(* check_memory() with a size from the stack and with a fixed size; ok,    *)
(* gas and memory after it.                                                *)
check_memory_fixed(gas, memory, offset, size) ==
  IF offset > MaxBufferSize THEN [ok |-> FALSE, gas |-> gas, memory |-> memory]
  ELSE IF offset + size <= Len(memory) THEN [ok |-> TRUE, gas |-> gas, memory |-> memory]
  ELSE LET words == num_words(offset + size)
           left == gas - (memory_cost(words) - memory_cost(Len(memory) \div WordBytes))
       IN [ok |-> left >= 0, gas |-> left,
           memory |-> IF left >= 0
                      THEN memory \o [k \in 1 .. words * WordBytes - Len(memory) |-> 0]
                      ELSE memory]

check_memory(gas, memory, offset, size) ==
  IF size = 0 THEN [ok |-> TRUE, gas |-> gas, memory |-> memory]
  ELSE IF size > MaxBufferSize THEN [ok |-> FALSE, gas |-> gas, memory |-> memory]
  ELSE check_memory_fixed(gas, memory, offset, size)

(* intx::be::load and store of a word, bytes missing at the end are 0.     *)
LoadWord(bytes, offset) ==
  FoldLeft(LAMBDA acc, k : acc * 256 + (IF offset + k <= Len(bytes) THEN bytes[offset + k] ELSE 0),
           0, [k \in 1 .. WordBytes |-> k])
WordByte(word, k) == (word \div 256 ^ (WordBytes - 1 - k)) % 256

(* n bytes of memory from dst on become Data(0), Data(1), ...              *)
Overwrite(memory, dst, n, Data(_)) ==
  [k \in DOMAIN memory |-> IF k - 1 \in dst .. dst + n - 1 THEN Data(k - 1 - dst) ELSE memory[k]]

(* memcpy from src on and memset of what bytes does not reach.             *)
CopyInto(memory, dst, bytes, src, n) ==
  Overwrite(memory, dst, n, LAMBDA k : IF src + k < Len(bytes) THEN bytes[src + k + 1] ELSE 0)

Slice(memory, offset, n) == IF n = 0 THEN <<>> ELSE SubSeq(memory, offset + 1, offset + n)

------------------------------------------------------------------------------
(* Results.  s is what the function leaves in the execution state.         *)
Result(code, gas, s) == [status |-> code, gas_left |-> gas, s |-> s]
OutOfGas(gas, s) == Result("OUT_OF_GAS", gas, s)

(* if ((gas_left -= cost) < 0) return out of gas; otherwise go on.         *)
Charge(gas, cost, s, Then(_)) == IF gas - cost < 0 THEN OutOfGas(gas - cost, s) ELSE Then(gas - cost)

(* if (!check_memory(...)) return out of gas; otherwise go on.             *)
WithMemory(gas, s, offset, size, Then(_, _)) ==
  LET m == check_memory(gas, s.memory, offset, size)
      s1 == [s EXCEPT !.memory = m.memory]
  IN IF m.ok THEN Then(m.gas, s1) ELSE OutOfGas(m.gas, s1)

WithWord(gas, s, offset, size, Then(_, _)) ==
  LET m == check_memory_fixed(gas, s.memory, offset, size)
      s1 == [s EXCEPT !.memory = m.memory]
  IN IF m.ok THEN Then(m.gas, s1) ELSE OutOfGas(m.gas, s1)

(* Host::access_account(): precompiled contracts are always warm.          *)
account_is_cold(s, addr) == addr \notin s.warm /\ addr \notin 1 .. 9
WarmAccount(s, addr) == [s EXCEPT !.warm = @ \cup {addr}]
cold_account_cost(s, addr) ==
  IF account_is_cold(s, addr) THEN additional_cold_account_access_cost ELSE 0

(* State::find(): an account that is not there is empty.                   *)
AccountOf(env, addr) ==
  IF addr \in DOMAIN env.accounts THEN env.accounts[addr]
  ELSE [exists |-> FALSE, balance |-> 0, code |-> <<>>]

(* Host::access_storage() and Host::get_storage(): a missing slot is zero. *)
SlotOf(s, key) ==
  IF key \in DOMAIN s.storage THEN s.storage[key]
  ELSE [current |-> 0, original |-> 0, access_status |-> "COLD"]
SetStorageSlot(s, key, slot) ==
  [s EXCEPT !.storage = [k \in DOMAIN @ \cup {key} |-> IF k = key THEN slot ELSE @[k]]]

------------------------------------------------------------------------------
(* The functions that return nothing: one value is computed and written to *)
(* the slot that becomes the top.                                          *)

(* The word an instruction of EnvPush, DUP, CALLDATALOAD, BLOCKHASH pushes *)
(* or replaces its operand with.  get_block_hash() is asked only for the   *)
(* last 256 blocks.                                                        *)
void_value(op, s, top, env) ==
  CASE op \in ArithmeticOps ->
         alu(op, Item(s, top, 0), IF stack_height_required[op] > 1 THEN Item(s, top, 1) ELSE 0,
             IF stack_height_required[op] > 2 THEN Item(s, top, 2) ELSE 0)
    [] op = OP_CALLDATALOAD ->
         IF Len(env.input) < Item(s, top, 0) THEN 0 ELSE LoadWord(env.input, Item(s, top, 0))
    [] op = OP_BLOCKHASH ->
         LET n == Item(s, top, 0) IN
           IF n < env.block_number /\ n >= env.block_number - 256 THEN env.block_hash ELSE 0
    [] op = OP_CALLDATASIZE -> Len(env.input)
    [] op = OP_CODESIZE -> Len(env.code)
    [] op = OP_RETURNDATASIZE -> Len(s.return_data)
    [] op = OP_MSIZE -> Len(s.memory)
    [] op = OP_PUSH0 -> 0
    [] op \in AnyDup -> Item(s, top, op - OP_DUP1)
    [] OTHER -> EnvWords[op] % WordMod   \* ADDRESS, ORIGIN, CALLER, ... of the message and transaction

core_void(op, s, top, env) ==
  CASE op \in {OP_POP, OP_JUMPDEST} -> s
    [] op \in AnySwap ->
         LET n == op - OP_SWAP1 + 1 IN
           SetSlot(SetSlot(s, top, Item(s, top, n)), top - n, Item(s, top, 0))
    [] OTHER -> SetSlot(s, top + stack_height_change[op], void_value(op, s, top, env))

------------------------------------------------------------------------------
(* The functions that return a Result.                                     *)

exp(s, top, gas) ==
  LET exponent == Item(s, top, 1) IN
    Charge(gas, count_significant_bytes(exponent) * 50, s, LAMBDA left :
      Result(SUCCESS, left, SetSlot(s, top - 1, Power(Item(s, top, 0), exponent))))

(* ethash::keccak256 is external: any fixed function of the bytes serves.  *)
keccak256(bytes) == FoldLeft(LAMBDA acc, b : (acc * 3 + b + 1) % WordMod, 7, bytes)

keccak(s, top, gas) ==
  LET index == Item(s, top, 0)
      size == Item(s, top, 1)
  IN WithMemory(gas, s, index, size, LAMBDA g, m :
       Charge(g, num_words(size) * 6, m, LAMBDA left :
         Result(SUCCESS, left, SetSlot(m, top - 1, keccak256(Slice(m.memory, index, size))))))

(* BALANCE, EXTCODESIZE and EXTCODEHASH.                                   *)
account_query(op, s, top, gas, env) ==
  LET addr == Item(s, top, 0)
      acc == AccountOf(env, addr)
      value == CASE op = OP_BALANCE -> acc.balance
                 [] op = OP_EXTCODESIZE -> Len(acc.code)
                 [] OTHER -> IF acc.exists THEN keccak256(acc.code) ELSE 0
      warmed == WarmAccount(s, addr)
  IN Charge(gas, cold_account_cost(s, addr), warmed, LAMBDA left :
       Result(SUCCESS, left, SetSlot(warmed, top, value)))

(* CALLDATACOPY and CODECOPY: a source beyond the end reads as zeros.      *)
data_copy(s, top, gas, bytes) ==
  LET dst == Item(s, top, 0)
      src == Item(s, top, 1)
      size == Item(s, top, 2)
  IN WithMemory(gas, s, dst, size, LAMBDA g, m :
       Charge(g, num_words(size) * 3, m, LAMBDA left :
         Result(SUCCESS, left, [m EXCEPT !.memory = CopyInto(@, dst, bytes, src, size)])))

extcodecopy(s, top, gas, env) ==
  LET addr == Item(s, top, 0)
      dst == Item(s, top, 1)
      src == Min2(Item(s, top, 2), MaxBufferSize)
      size == Item(s, top, 3)
  IN WithMemory(gas, s, dst, size, LAMBDA g, m :
       Charge(g, num_words(size) * 3, m, LAMBDA g1 :
         Charge(g1, cold_account_cost(m, addr), WarmAccount(m, addr), LAMBDA left :
           Result(SUCCESS, left,
             [WarmAccount(m, addr) EXCEPT !.memory = CopyInto(@, dst, AccountOf(env, addr).code, src, size)]))))

returndatacopy(s, top, gas) ==
  LET dst == Item(s, top, 0)
      src == Item(s, top, 1)
      size == Item(s, top, 2)
  IN WithMemory(gas, s, dst, size, LAMBDA g, m :
       IF Len(s.return_data) < src \/ src + size > Len(s.return_data)
       THEN Result("INVALID_MEMORY_ACCESS", g, m)
       ELSE Charge(g, num_words(size) * 3, m, LAMBDA left :
              Result(SUCCESS, left, [m EXCEPT !.memory = CopyInto(@, dst, s.return_data, src, size)])))

mload(s, top, gas) ==
  WithWord(gas, s, Item(s, top, 0), WordBytes, LAMBDA left, m :
    Result(SUCCESS, left, SetSlot(m, top, LoadWord(m.memory, Item(s, top, 0)))))

mstore(s, top, gas) ==
  WithWord(gas, s, Item(s, top, 0), WordBytes, LAMBDA left, m :
    Result(SUCCESS, left,
      [m EXCEPT !.memory = Overwrite(@, Item(s, top, 0), WordBytes, LAMBDA k : WordByte(Item(s, top, 1), k))]))

mstore8(s, top, gas) ==
  WithWord(gas, s, Item(s, top, 0), 1, LAMBDA left, m :
    Result(SUCCESS, left,
      [m EXCEPT !.memory = Overwrite(@, Item(s, top, 0), 1, LAMBDA k : Item(s, top, 1) % 256)]))

sload(s, top, gas) ==
  LET key == Item(s, top, 0)
      slot == SlotOf(s, key)
      warmed == SetStorageSlot(s, key, [slot EXCEPT !.access_status = "WARM"])
      cost == IF slot.access_status = "COLD" THEN cold_sload_cost - warm_storage_read_cost ELSE 0
  IN Charge(gas, cost, warmed, LAMBDA left : Result(SUCCESS, left, SetSlot(warmed, top, slot.current)))

(* The slot is written before the gas is charged.                          *)
sstore(s, top, gas, env) ==
  LET key == Item(s, top, 0)
      value == Item(s, top, 1)
      slot == SlotOf(s, key)
      st == storage_status(slot.current, slot.original, value)
      stored == SetStorageSlot(s, key, [slot EXCEPT !.current = value, !.access_status = "WARM"])
      cold == IF slot.access_status = "COLD" THEN cold_sload_cost ELSE 0
  IN IF env.static THEN Result("STATIC_MODE_VIOLATION", gas, s)
     ELSE IF gas <= sstore_stipend THEN OutOfGas(gas, s)
     ELSE Charge(gas, sstore_gas_cost(st) + cold, stored, LAMBDA left :
            Result(SUCCESS, left, [stored EXCEPT !.gas_refund = @ + sstore_gas_refund(st)]))

log(op, s, top, gas, env) ==
  LET offset == Item(s, top, 0)
      size == Item(s, top, 1)
      topics == [i \in 1 .. (op - OP_LOG0) |-> Item(s, top, i + 1)]
  IN IF env.static THEN Result("STATIC_MODE_VIOLATION", 0, s)
     ELSE WithMemory(gas, s, offset, size, LAMBDA g, m :
            Charge(g, size * 8, m, LAMBDA left :
              Result(SUCCESS, left,
                [m EXCEPT !.logs = Append(@, [data |-> Slice(m.memory, offset, size), topics |-> topics])])))

------------------------------------------------------------------------------
(* Calls and creations.                                                    *)

(* host.call(): the callee is external.  env.callee says how much gas it   *)
(* needs, how it ends when it gets that much, its refund and its output.   *)
host_call(env, msg) ==
  IF msg.gas < env.callee.gas_used
  THEN [status |-> "OUT_OF_GAS", gas_left |-> 0, gas_refund |-> 0, output |-> <<>>]
  ELSE [status |-> env.callee.status,
        gas_left |-> IF env.callee.status \in {SUCCESS, REVERT} THEN msg.gas - env.callee.gas_used ELSE 0,
        gas_refund |-> IF env.callee.status = SUCCESS THEN env.callee.gas_refund ELSE 0,
        output |-> env.callee.output]

call_depth_limit == 1024
call_value_cost == 9000
account_creation_cost == 25000
call_stipend == 2300

(* All but one 64th.                                                       *)
gas_cap(gas) == gas - gas \div 64

(* msg of call_impl(); own_gas is what the caller has left.                *)
call_message(op, s, own_gas, arg, env) ==
  [kind |-> IF op = OP_DELEGATECALL THEN op ELSE OP_CALL,
   static |-> op = OP_STATICCALL \/ env.static,
   depth |-> env.depth + 1,
   recipient |-> IF op = OP_DELEGATECALL THEN env.recipient ELSE arg.dst,
   code_address |-> arg.dst,
   sender |-> IF op = OP_DELEGATECALL THEN env.sender ELSE env.recipient,
   value |-> IF op = OP_DELEGATECALL THEN env.value ELSE arg.value,
   input |-> Slice(s.memory, arg.in_offset, arg.in_size),
   salt |-> 0,
   gas |-> Min2(arg.gas, gas_cap(own_gas)) + (IF arg.value # 0 THEN call_stipend ELSE 0)]

(* Mutant: the stipend is given to a caller that sends no value too.       *)
send_call_free_stipend(op, s, slot, gas, arg, env) ==
  LET msg == call_message(op, s, gas, arg, env)
      r == host_call(env, msg)
  IN Result(SUCCESS, gas + call_stipend - (msg.gas - r.gas_left), s)

(* The end of call_impl(): the message is sent unless the call is too deep *)
(* or the caller cannot pay (a "light" failure: 0 is pushed, gas is kept). *)
send_call(op, s, slot, gas, arg, env) ==
  LET msg == call_message(op, s, gas, arg, env)
      own_gas == gas + (IF arg.value # 0 THEN call_stipend ELSE 0)
      r == host_call(env, msg)
  IN IF env.depth >= call_depth_limit
        \/ (arg.value # 0 /\ AccountOf(env, env.recipient).balance < arg.value)
     THEN Result(SUCCESS, own_gas, s)
     ELSE Result(SUCCESS, own_gas - (msg.gas - r.gas_left),
            [SetSlot(s, slot, Truth(r.status = SUCCESS)) EXCEPT
               !.return_data = r.output,
               !.memory = CopyInto(@, arg.out_offset, r.output, 0, Min2(arg.out_size, Len(r.output))),
               !.gas_refund = @ + r.gas_refund,
               !.calls = Append(@, msg)])

call_impl(op, s, top, gas, env) ==
  LET k == IF op = OP_CALL THEN 3 ELSE 2
      arg == [gas |-> Item(s, top, 0), dst |-> Item(s, top, 1),
              value |-> IF op = OP_CALL THEN Item(s, top, 2) ELSE 0,
              in_offset |-> Item(s, top, k), in_size |-> Item(s, top, k + 1),
              out_offset |-> Item(s, top, k + 2), out_size |-> Item(s, top, k + 3)]
      slot == top + stack_height_change[op]
      s0 == WarmAccount([SetSlot(s, slot, 0) EXCEPT !.return_data = <<>>], arg.dst)
      cost == IF arg.value = 0 THEN 0
              ELSE IF AccountOf(env, arg.dst).exists THEN call_value_cost
              ELSE call_value_cost + account_creation_cost
  IN Charge(gas, cold_account_cost(s, arg.dst), s0, LAMBDA g1 :
       WithMemory(g1, s0, arg.in_offset, arg.in_size, LAMBDA g2, m1 :
         WithMemory(g2, m1, arg.out_offset, arg.out_size, LAMBDA g3, m2 :
           IF arg.value # 0 /\ env.static THEN Result("STATIC_MODE_VIOLATION", g3, m2)
           ELSE Charge(g3, cost, m2, LAMBDA g4 : send_call(op, m2, slot, g4, arg, env)))))

max_init_code_size == 49152

create_impl(op, s, top, gas, env) ==
  LET endowment == Item(s, top, 0)
      offset == Item(s, top, 1)
      size == Item(s, top, 2)
      slot == top + stack_height_change[op]
      s0 == [SetSlot(s, slot, 0) EXCEPT !.return_data = <<>>]
      word_cost == IF op = OP_CREATE2 THEN 8 ELSE 2
  IN IF env.static THEN Result("STATIC_MODE_VIOLATION", gas, s)
     ELSE WithMemory(gas, s0, offset, size, LAMBDA g, m :
       IF size > max_init_code_size THEN OutOfGas(g, m)
       ELSE Charge(g, num_words(size) * word_cost, m, LAMBDA left :
         IF env.depth >= call_depth_limit
            \/ (endowment # 0 /\ AccountOf(env, env.recipient).balance < endowment)
         THEN Result(SUCCESS, left, m)
         ELSE LET msg == [kind |-> op, static |-> FALSE, depth |-> env.depth + 1, recipient |-> 0,
                          code_address |-> 0, sender |-> env.recipient, value |-> endowment,
                          input |-> Slice(m.memory, offset, size),
                          salt |-> IF op = OP_CREATE2 THEN Item(s, top, 3) ELSE 0,
                          gas |-> gas_cap(left)]
                  r == host_call(env, msg)
              IN Result(SUCCESS, left - (msg.gas - r.gas_left),
                   [(IF r.status = SUCCESS THEN SetSlot(m, slot, env.create_address) ELSE m) EXCEPT
                      !.return_data = r.output,
                      !.gas_refund = @ + r.gas_refund,
                      !.calls = Append(@, msg)])))

(* instr::core::impl<op> for the functions that return a Result.  GAS      *)
(* pushes the gas it is given.                                             *)
core_result(op, s, top, gas, env) ==
  CASE op = OP_EXP -> exp(s, top, gas)
    [] op = OP_KECCAK256 -> keccak(s, top, gas)
    [] op \in {OP_BALANCE, OP_EXTCODESIZE, OP_EXTCODEHASH} -> account_query(op, s, top, gas, env)
    [] op = OP_CALLDATACOPY -> data_copy(s, top, gas, env.input)
    [] op = OP_CODECOPY -> data_copy(s, top, gas, env.code)
    [] op = OP_EXTCODECOPY -> extcodecopy(s, top, gas, env)
    [] op = OP_RETURNDATACOPY -> returndatacopy(s, top, gas)
    [] op = OP_MLOAD -> mload(s, top, gas)
    [] op = OP_MSTORE -> mstore(s, top, gas)
    [] op = OP_MSTORE8 -> mstore8(s, top, gas)
    [] op = OP_SLOAD -> sload(s, top, gas)
    [] op = OP_SSTORE -> sstore(s, top, gas, env)
    [] op = OP_GAS -> Result(SUCCESS, gas, SetSlot(s, top + 1, gas % WordMod))
    [] op \in AnyLog -> log(op, s, top, gas, env)
    [] op \in AnyCall -> call_impl(op, s, top, gas, env)
    [] op \in AnyCreate -> create_impl(op, s, top, gas, env)

(* stop_impl() and return_impl().                                          *)
core_term(op, s, top, gas) ==
  CASE op = OP_STOP -> Result(SUCCESS, gas, s)
    [] op = OP_INVALID -> Result("INVALID_INSTRUCTION", gas, s)
    [] OTHER ->
         LET offset == Item(s, top, 0)
             size == Item(s, top, 1)
         IN WithMemory(gas, s, offset, size, LAMBDA left, m :
              Result(IF op = OP_RETURN THEN SUCCESS ELSE REVERT, left,
                [m EXCEPT !.output_size = size, !.output_offset = IF size # 0 THEN offset ELSE @]))
==============================================================================
