# Verification of zvmone

TLA+ models of zvmone, a virtual machine for Zond contracts: the two bytecode
interpreters of the library (`lib/zvmone`), the instructions they share, the
memory of an execution, the VM object with its tracers; and of the state transition
code (`test/state`) the host, transactions and blocks, the price of storage, the
precompiles with their cache, the Merkle Patricia trie and RLP. TLC checks the
modules on small instances; TLAPS proves the main properties of seven of them for
every instance, and that the Advanced interpreter implements the Baseline one.

## 1. The system

### Components

| Component | State | Operations | Correct when |
|---|---|---|---|
| Instruction tables (`instructions_opcodes.hpp`, `instructions_traits.hpp`, `instructions_xmacro.hpp`) | none | opcode numbers, base gas costs, stack traits | a defined opcode has a cost; it removes no more items than it requires |
| Baseline interpreter (`baseline.cpp`) | jumpdest bitmap, padded code, code position, stack top, gas | `analyze`, `dispatch`/`dispatch_cgoto`, `invoke`, `check_requirements`, `execute` | it reads only its buffer, executes only instructions, keeps the stack in its limit, always ends |
| Advanced interpreter (`advanced_*.cpp`) | instruction table with an argument union, block data, jump target tables; instruction pointer, stack, gas, `current_block_cost` | `analyze`, `opx_beginblock`, `op_*`, `execute` | one check per block replaces a check per instruction, and nobody can tell |
| Core instructions (`instructions.hpp`, `instructions_calls.cpp`, `instructions_storage.cpp`) | operand stack, memory, return data, refund | one function per instruction | both interpreters get the same effect; no gas appears from nowhere; static mode holds |
| Execution memory (`execution_state.hpp`, `check_memory`, `grow_memory`) | size, capacity, buffer contents | `grow`, `clear`, `operator[]` | accesses stay in the buffer, unwritten memory is zero, growth is paid for |
| Host (`test/state/host.cpp`) | accounts, storage slots (`current`, `original`, `access_status`), logs | `access_storage`, `set_storage`, `access_account`, `call`, `create`, `emit_log` | a failed message leaves behind what it must and nothing else; a contract is created once |
| State transition (`test/state/state.cpp`) | balances, nonces, receipts | `validate_transaction`, `transition`, `finalize` | a transaction is one step; no value appears or is lost; what is charged was validated against the balance |
| Precompiles and cache (`test/state/precompiles*.cpp`) | cached outputs, a dump file | `call_precompile`, `Cache::find/insert`, load and dump | what a process caches changes no answer |
| Merkle Patricia trie (`test/state/mpt*.cpp`) | a tree of nodes | `insert`, `hash`, `mpt_hash` | the root depends on the contents only, and determines them |
| RLP (`test/state/rlp.hpp`) | none | encodings of strings, integers, lists | decodable |
| Tracing (`tracing.cpp`) | a stack of contexts per tracer, the stream | start, instruction, end | contexts nest like executions; counts are those of one execution |
| VM object (`vm.cpp`) | selected interpreter, tracers | `set_option` | every tracer is told everything, in order |
| Bloom filter, hashes, tools, benchmarks, fuzzers, test utilities, CPU check | - | - | - |

A message enters at `execute()` of one interpreter, which analyses the code, then
loops over instructions. An instruction calls a core function; core functions
call the host through the ZVMC interface (storage, accounts, logs, and calls,
which come back into `execute()` for the callee on the same thread). `Host::call`
copies the state before a frame and restores it after a failure. `transition()`
runs the first frame of a transaction and turns its result into a receipt.

### What is hard here

There are no threads, and only the precompile cache is ever written to a file. The
hazards (all listed in `PROJECT.json`, at their lines) are of five kinds:

* **boundaries nobody checks at run time**: the dispatch loop has no bounds check
  on code; Advanced has none on the stack inside a block. They are safe only
  because of what an analysis established earlier: padding, block data, jump
  tables, reserved vectors.
* **values charged ahead or used late**: Advanced charges a block in advance and
  corrects the gas at instructions that look at it, by data stored elsewhere in the
  table; SSTORE writes before it charges; memory is reused with its old contents.
* **long legal sequences**: refunds can be negative, are collected per frame and
  per write, and have to cancel out across calls, reverts and transactions.
* **partial failure**: a message can fail after any of its steps, at any depth, and
  a few effects (the creator's nonce, the warmth of a new address, the touch of Z03)
  must survive that while all others must not; a program can come back into the host
  while one of its operations is half done.
* **termination**: both loops are `while (true)`.

## 2. Modules

```
Opcodes ── CodeStructure ──┬── Baseline ──┬── MCBaseline
   │                       │              └── BaselineProofs
   │                       └── Advanced ──┬── MCAdvanced
   │                  (INSTANCE Baseline) └── AdvancedProofs
   ├── StorageCosts ──┬── StorageSlot ──┬── MCStorageSlot
   │                  │                 └── StorageSlotProofs
   │                  └── Instructions ── Interpreters ── MCInterpreters
   │                                      (INSTANCE Baseline, Advanced)
 Memory ──┬── MCMemory
          └── MemoryProofs

 State ──┬── Host ──┬── MCHost        Rlp ──┬── MptHash ── MCMpt
         │          └── HostProofs    Mpt ──┘
         │              (EXTENDS SumProofs)
         └── Ledger
             (INSTANCE in Host)
 Tracing ──┬── MCTracing             Precompiles ──┬── MCPrecompiles
           └── TracingProofs                       └── PrecompilesProofs
```

* **Opcodes** - the tables: `gas_costs`, `stack_height_required`,
  `stack_height_change`, `immediate_size`, for the one revision the code defines.
* **CodeStructure** - reference definitions, independent of both analyses:
  `InstructionStarts` and `JumpDests` of a code. The
  instruction boundaries are the least set that holds the first byte and, with an
  instruction, the byte behind it and its push data.
* **Baseline** - control of the Baseline interpreter. `analyze_jumpdests` is one
  iteration of the analysis loop (`cursor` is its `i`); `StartDispatch` enters the
  loop; there is one action per shape of core function that `invoke()` handles
  (void, `Result`, code iterator, termination) and one for the failed requirements
  and the default label. What a core function *computes* is a choice: any status
  and any gas its contract allows, any word as jump destination. So everything
  shown here holds whatever the instructions compute.
* **Advanced** - control of the Advanced interpreter in the same style. The
  analysis actions are the iterations of `analyze()` (live code, then the inner loop
  over dead code); the table `instrs` keeps the argument union with the one of its four
  members last written (`kind`: `number`, `push_value`, `small_push_value`, `block`).
  `ArgOf` writes them as `analyze()` does, `reads` says which one each function of
  `instruction_implementations` reads. Gas and stack are checked by `opx_beginblock` and by
  JUMPI's fall through only. `pos`, `begin`, `change` and `cost` are history fields.
  Baseline is instantiated as what Advanced promises (`ImplementsBaseline`): seen
  through `BaselinePosition`, `BaselineTop` and `BaselineGas`, which hides what was
  charged ahead for the rest of the block, every step is one of Baseline, or none. A
  block that is refused is where Baseline goes on: it still executes the instructions
  in front of the one it fails at, so the two agree that the execution fails and not
  on where (`RefusedBlocksFail`; their reason can differ).
* **Instructions** - the core functions as operators on an execution state:
  arithmetic on scaled words (1 or 2 bytes), memory, copies, logs, account
  access, storage, calls and creates. The host's answer to a message and the hash
  are external.
* **Interpreters** - both interpreters with real instruction semantics, run on
  the same message. It instantiates Baseline and Advanced, so that their
  specifications are the abstract ones this module is checked to implement
  (`BaselineRefines`, `AdvancedRefines`); this is also what justifies the contracts
  Baseline and Advanced assume of core functions. The two runs share nothing, so
  they are taken one after the other.
* **StorageCosts** - `storage_status` from `Host::set_storage`, the cost and the
  refund of each status.
* **StorageSlot** - one slot, a stack of call frames, the transactions of a
  block. `sload`, `sstore`, `call`, `Finish` are instructions of the running frame;
  `return_to_caller` is the end of `Host::call` and of `call_impl()`;
  `StartTransaction`, `EndTransaction` are the ends of `transition()`; the intrinsic
  cost has the access list's part when the slot is listed. `spent` and
  `outer_refund` of a frame are history, read by no action.
* **Memory** - `check_memory`, `grow_memory`, `Memory::grow`, writes and
  `ExecutionState::reset()`. Offsets and sizes are words, which the casts of
  `check_memory` narrow to 64 bits (`narrow`), and the sum of the two wraps around
  (`new_size`): that neither matters is what the buffer limit is for, and is not built
  into the model. A byte is zero or not. `realloc()` gives any contents.

* **State** - accounts and what can be said of a transaction alone: address
  computation, intrinsic cost, the checks of `validate_transaction()` in their order,
  prices. A code is its size and whether it begins with 0xEF; an account's storage is
  one slot. The hash of CREATE and CREATE2 is a table, so that two creations meet at
  an address only where the code makes them.
* **Host** - `host_call` is `Host::call` up to the execution: `prepare_message`,
  the snapshot, the transfer, the beginning of `create()`. The frame keeps its
  snapshot. Programs are what they can do to the host: `call_impl`, `create_impl`,
  `set_storage`, `emit_log`, `look_at`, in any order. They end with any status, a gas that is 0 or the message's less one of
  `Spent`, and a refund of `Refunds`, which can be negative in every transaction but the
  first of the block (`gas_refunds`; the finding below is why). A frame
  without code, a precompile and a collision are frames that only end. The end of a
  message (`return_to_caller`, `EndTransaction`) is the rest of `create()` and of
  `Host::call`, and for the outermost one the rest of `transition()`. `Finalize` is
  the end of the block. `emitted`, `failed`, `start` and `supply` are history.
* **Ledger** - the abstract specification: seen between transactions, each one is a
  single step on nonces, balances, codes and storage, with the receipt that goes
  with it. `gas_used` is within the gas limit for the first transaction of a block and
  for every one that fails; one that succeeds later may exceed it, and only then can the
  sender, and nobody else, be overdrawn. Where that happens the balance wraps around in
  the code (`uint256`), and the model stops. Host is checked to implement it (`TransactionsAreAtomic`): while a
  transaction runs, the ledger still shows the world before it.
* **Tracing** - the VM object, `set_option`, and executions that nest through CALL.
  An execution announces its instructions to the tracers in list order; `out` is
  what the last step printed in the stream's current base. The depth of an outermost
  message is the embedder's choice (`OuterDepths`), not the number of open executions.
* **Precompiles** - `call_precompile` with the table as it is, costs, the cache,
  and the end of the process with and without dump. A process starts with no stub file,
  with a dump of an earlier one, or with any other stub (`Stubs`): the repository has
  one, `test/state/precompiles_stub.json`, with outputs that no `execute` function gives.
  A null entry of the
  table and the failed assertion on the output buffer end the process.
* **Rlp** - the encodings as operators, and a decoder written from the definition
  of RLP (`Decoded`).
* **Mpt, MptHash** - `insert_node` and `hash_node` are the recursive members of
  `MPTNode`; a failed assertion gives an `Aborted` node. `TrieOf` is the reference:
  the trie of a mapping, defined without any insertion; `Readings` decodes what is
  hashed. MptHash runs the four loops of `mpt_hash()`, over maps in any order and lists
  by index, with the RLP encodings of storage values, accounts, transactions and
  receipts. Members that are the same in all of them are bytes of a fixed length.

Definitions keep the names of the functions they model; `PROJECT.json` maps each
to its lines. A definition whose comment starts with *Mutant* is not part of the
model: it is a deliberately wrong variant, which the property named beside it in
`PROJECT.json` must detect.

## 3. Runs

| Run | Instance | Shows |
|---|---|---|
| `baseline_control` | all codes of up to 4 bytes over ten opcodes, one of each kind, also as push data; stack limit 2; gas 9 and 24 | reads stay in the padded buffer (`CodeReadsInBuffer`), the bitmap is exact (`JumpdestMapIsExact`), push data is never executed (`ExecutionIsAligned`), every execution ends |
| `advanced_control` | all codes of up to 4 bytes over eleven opcodes, every opcode alone, PUSH7 to PUSH10 with 0 to 11 bytes behind them; stack limit 3; gas 4 and 24 | the reserved vectors are never outgrown, jump tables are exact and sorted, every argument is read as the one of its four members that was written (`ArgumentMembersMatch`), the unchecked instructions of a block stay in the stack (`StackAccessInBounds`), the gas correction comes from the right block and is between 0 and its cost (`CorrectionIsRestOfBlock`; that it has the right value shows in `ImplementsBaseline`), a block is refused only if one of its instructions fails (`RefusedBlocksFail`), and up to then nobody can tell Advanced from Baseline (`ImplementsBaseline`); every execution ends |
| `interpreters_control` | all codes of four chunks out of eleven (pushes, jumps, GAS, PC, MSTORE8, a cut-off PUSH3, an undefined byte); gas 7 and 30 | both interpreters give the caller the same result and implement their control specifications |
| `interpreters_costs` | every instruction with dynamic gas on operands at its edges, and pairs of them, in its block or before a new one, returning or reverting; five gas limits; callee succeeds or reverts, static mode, depth limit | same gas, refund, output (which includes what GAS and MSIZE returned), storage, logs and messages; no gas is created |
| `storage_transaction` | three values, up to 7 operations in up to 3 frames; gas for no, one and several writes | costs less refunds depend only on the ends (`NetCostDependsOnlyOnEnds`), refunds are never overdrawn, no callee returns extra gas, static frames write nothing |
| `storage_block` (violation) | two transactions, up to 6 operations each | see Findings |
| `memory` | words and pages of 2 bytes, buffer limit 3, `size_t` with 8 values and operands up to 8, quadratic divisor 3, two executions | accesses inside the allocation as they are after narrowing, unwritten bytes are zero although the buffer is reused, price depends on the size only |
| `host_messages` | one transaction, up to 4 operations in up to 4 messages; the address of CREATE2 free, prefunded or with code, Z03 absent or empty; nonce limit 3 | types, nonces and the existence of accounts in use (`TypeOK`), conservation of value inside a transaction, no address under construction is entered again, code is never replaced, a failed message leaves no log (`ReceiptHasLogsOfSurvivors`) but the touch of Z03, and a failed creation its nonce and warm address (`ExemptEffectsSurvive`), static messages change nothing |
| `host_block` | two transactions out of four valid ones (a call, a creation, one sent by the coinbase, one to Z03) and eight that fail one validation each; refunds 0, above a fifth of the gas, and -4800; then withdrawals | balances cover all transfers, and after a negative refund the sender lacks no more than the gas charged beyond the limit (`BalancesCovered`; the instance reaches such states); every transaction is a step of Ledger (which also conserves value) |
| `tracing` | up to 2 tracers, 3 messages, nested or one after the other, from depth 0 and from depth 2, all codes of up to two opcodes | contexts mirror executions, histograms count exactly the executed code; depths and histogram lines are decimal but in the two cases that section 4 names (`NumbersAreDecimal`) |
| `precompiles_cache` | seven addresses, three inputs, one of 257 bytes, gas below and above the costs, no stub or one with outputs and a failure that the executions do not have, 3 calls, 2 restarts | a process's cache adds nothing to its stub: no success, gas or output differs from the stub's entry or, without one, from an execution (`CacheAddsNothing`) |
| `mpt` | all storages and account maps over six keys of four nibbles that part at each position, values 0, 127, 128, every order; lists of 260 transactions and receipts whose data has 0 to 259 bytes | no assertion fails, the trie is `TrieOf` its contents (`TrieIsCanonical`), and what is hashed can be read back to the last member (`HashDeterminesContents`); 128 and 256 are the first keys of two and three bytes, and the lengths of strings and lists pass 55 and 255 |

**Why the bounds are enough.** Four bytes hold every interaction of two pieces of
code structure: a PUSH2 with a JUMPDEST or a PUSH in its data and something behind
it, a JUMPI ending a block at the last byte, a jump back to the start, dead code
before a destination. Padding cases need only a PUSH whose data is cut off. The
stack limits put overflow and underflow in reach of two pushes. The gas limits are
chosen on both sides of the cost of a loop and of one block. A slot distinguishes
its original value, zero and equality only, so three values are enough for all
nine statuses; three frames have a caller, a callee and a sibling or inner frame.
Where a bound could hide something the theorems of section 5 remove it.
The stack numbers of `BlockInfo` are clamped at `StackInfoMax`, in the code far above
the stack limit (32767 and 1024), in the instances just above it, where a clamped
number could matter first; the gas clamp at 32 bits would
need blocks of more than 134217 bytes and is excluded by `GasInfoMaxAssumption`.
A message of Host needs a caller, a callee and something either of them does before
and after: four operations. Re-entrant creation needs three messages and the same salt
twice. Accounts are one per role (sender, contract, coinbase, Z03, three new
addresses), with the roles merged by the transactions of `host_block`. A withdrawal is
in units of `gplanck`, 10 instead of 10^9. Tries part at every nibble of their keys,
and 260 indices cross the lengths 1, 2 and 3 of a key; lengths above 65535 are checked
for the headers alone (`LongHeaders`).
The operands of `memory` lie on both sides of the buffer limit and of the modulus, so
that an operand that is let through by mistake does come back small.
`MaxOps`, `MaxDepth` (of StorageSlot), `MaxTransactions`, `MaxResets`, `MaxDebt`,
`MaxCodeLength`, `MaxCalls`, `MaxRestarts`, `MaxTracers`, `MaxMessages` and
`MaxList` are bounds of the models, not of the code.

**Fairness.** `WF_vars(Next)`: `execute()` runs on the thread that called it and
nothing makes it wait, so it takes its next step while it has one. No stronger
assumption is made, and nothing is assumed about which program, outcome or value
is chosen. Deadlock is not checked because executions, transactions and the bounded
histories end.

## 4. Findings and observations

`storage_block`: `StorageValue::original` keeps the value the slot had when the
state was loaded. `transition()` does not update it, and `t8n` runs all
transactions of a block on one state. When the first transaction clears a slot and
the second sets it again, the second gets `DELETED_ADDED` and a refund of -4800
for a reward the *first* one had. Its `gas_used` then exceeds its own gas limit,
and the sender is charged more than the maximum that the validation in `state.cpp`
checked against the balance. If the balance does not cover it, the addition at
`state.cpp:174` takes it past zero in `uint256`. Host has such refunds in later
transactions; `OverdraftBounded` says how far they lead, and that nothing else overdraws
an account. `host.cpp` refers to EIP-2200, whose original value is
that before the current transaction. `CleanStartWithinLimit` proves that this is the
only way: whenever a transaction finds the slot clean, the receipt is within the
limit.

Met while modelling, visible in the models, without a run of their own:

* `finalize()` erases empty touched accounts and then applies the withdrawals, each of
  which touches its recipient (`Finalize` of Host). A withdrawal of 0 to an absent
  account leaves an empty, erasable account in the state, and so in its root, where
  `state.hpp:134` says "Applies withdrawals and deletes empty touched accounts."
* The instruction tracer leaves `std::hex` on `std::cerr` (`base_after_end` of
  Tracing), which `set_option()` gives to both tracers. Two kinds of lines can then be
  in hexadecimal, without a prefix: the depth and counts of a histogram, if an
  instruction tracer is configured too, and the start line of an outermost message that
  is not the first of the process, which shows if its depth is above 9.
  `NumbersAreDecimal` says that these are the only ones: the depths of nested
  executions, and histograms without an instruction tracer, are decimal.
* The table of precompiles (`traits` of Precompiles) lacks the gap that
  `enum PrecompileId` has at 3. `identity` is at 3 and is cached although
  `precompiles_cache.cpp:35` says "Do not cache "identity"."; 4 to 7 run the next
  precompile, 8 and 9 are null pointers.
* The cache does not keep the status of a failure: the first answer is
  `INTERNAL_ERROR`, later ones are `PRECOMPILE_FAILURE`. `CacheAddsNothing` shows that
  nothing else differs.
* With the stub that `circle.yml:411` sets, calls succeed that fail without it: it has
  outputs, where all precompiles but `identity` are `dummy_execute()`; its entries for 3
  are those of ripemd160, where the table has `identity`. The cache is therefore
  compared with the stub and the executions together, never with executions alone.
* The assertion on the size of the output buffer fails for `identity` with more than 256
  bytes of input.

## 5. Proofs

Eight modules, checked by TLAPS from nothing. The assumptions are the named
`ASSUME`s of the modules on their constants (sets of numbers, positive sizes, and
that there are finitely many addresses, as the sum of all balances needs);
TLC evaluates them in every run. The constants are otherwise arbitrary: any set of
codes, any word and page sizes, any depth, any number of operations.

**BaselineProofs** - `TypeCorrect`, `ReadsAreSafe`, `JumpdestAnalysisCorrect`,
`ExecutionAligned`, `GasMonotone`, `LoopsCostGas`. The invariant `IInv` is `TypeOK`
with `AnalysisInv` and `DispatchInv`. `JumpdestMapIsExact` speaks of the finished
map and is not inductive: the analysis can only be exact at the end if the cursor
is always on an instruction boundary, no instruction before it reaches across it,
and the map is exact *below* it. `DispatchInv` carries the finished map and the
alignment of the position; the read bound follows from the alignment (a PUSH that
is an instruction starts inside the code) and the size of the padding. The key
lemmas are facts about `InstructionStarts`: what follows an instruction is one, and
nothing inside push data is.

**AdvancedProofs** - all that run `advanced_control` checks but termination:
`SizesSuffice`, `TablesExact`, `MembersMatch`, `StackInBounds`, `CorrectionExact`,
`RefusalsAreRight`; besides them `TypeCorrect`, `StaysInTable`, `GasMonotone`; and
`BaselineImplemented`. None of the invariants is inductive; `AInv` strengthens them
by three facts about the table, which the analysis builds and the execution relies on:

* `Table` - the entries are chained into blocks. An entry knows the one that holds its
  block's data (`Belongs`) and continues the stack change and the cost of the entry
  before it (`Chained`). The data of every block, whether saved or still in the open
  `BlockAnalysis` (`Data`), covers each of its entries (`Covers`), costs as much as its
  last one has used up (`Exact`), and asks for nothing that no entry needs (`Tight`).
  `Covers` makes one check enough, `Tight` makes it not too much; a clamped number
  covers nothing, but no stack meets it.
* `Layout` - the entries lie at instructions of the code, each behind the one before,
  unless that one ends the block. The jump tables are exact below `code_pos`.
* `InBlock`, while an entry in the middle of a block is executed - `current_block_cost`
  is the cost of its block, and the stack, less what the block has changed so far, is
  one the block was checked for.

An instruction of the code adds one entry and closes at most one block. `Growth` is
what that does to a table, for JUMPDEST, JUMPI, any other instruction and the last STOP
alike; `TableGrows` is the one proof that it keeps `Table`. The facts on
`InstructionStarts` are those of BaselineProofs, for the constants of Advanced.

The refinement rests on three lemmas for a running instruction: both are at the same
one (`SamePlace`), Baseline's checks succeed (`RequirementsMet`), and its gas is that
of Advanced plus what the rest of the block costs (`RestFacts`, where `Exact` brings it
to nothing at the end of a block). Then there is one lemma per kind of step: going on
(`GotoMapped`), entering a block (`EnterMapped`), a jump (`JumpMapped`), an end
(`ExitMapped`), a refusal (`RefusalMapped`, a stuttering step), a step of the analysis
(`ScanMapped`). The tables of the two instances are compared once (`SameClasses` to
`SameFunctions`). Where the rest of a block cannot be paid after SSTORE or a call,
Advanced fails at once; Baseline does as well, by an outcome its core function could
have, so the theorem is about the control, as both modules are.

`MembersMatch` is one of the facts about entries (`Written`): an entry keeps it when its
block's data is filled in later, and `ReadersOf` compares, opcode by opcode, what `ArgOf`
writes with what the instruction functions read.

**MemoryProofs** - `TypeCorrect`, `AccessSafe`, `FreshMemory`, `CostTelescopes`,
`GrowthCosts`. The conjunction of the four invariants is inductive. The lemmas are
about narrowing (`NoWrapAround`: below the buffer limit neither an operand nor the sum
of two is changed by it), rounding (`RoundUp`), the capacity (`GrownCapacitySuffices`) and the
monotony of the quadratic cost; `FreshMemory` needs the access bound, because a
write above the size would be seen by a later growth.

**StorageSlotProofs** - `TypeCorrect`, `NetCostTelescopes`, `RefundCovered`,
`CallsCreateNoGas`, `StaticCallsWriteNothing`, `CleanStartWithinLimit` (any number
of transactions), `FirstTransactionWithinLimit` (for `MaxTransactions <= 1`; run
`storage_block` shows that the assumption cannot go). `WriteTelescopes` settles one
write: for all nine statuses price less refund is the difference of the net costs
of the slot. The invariant extends it over frames: it adds `RefundsLinked` (a frame
knows the refund around it), `StaticInherited`, `FirstFrame`, and `ChangeIsPaid`,
which `RefundCovered` needs: a refund may be negative, and what bounds it is that a
slot which differs from its original was paid for in full by frames still open.
`UpdateStep`, `OpenStep` and `ReturnStep` are the three ways the stack of frames
changes; every action is an instance of one of them.

**HostProofs** - all that the runs check of Host but the logs of receipts:
`TypesCorrect`, `OverdraftBounded`, `CreationsApart`, `CodeStays`, `StaticIsStatic`,
`ValueIsConserved`, `ExemptionsHold`, and `TransactionsAtomic`, that Host implements
Ledger. It goes up in layers: what an operation does to one account (`Grown`, `Kept`),
to the map of accounts (`Later`, `Advanced`), to the stack of messages (`StackGrow`,
`StackFail`, `StackPush`, `StackPop`, `StackCode`), then the actions. A step is summed
up by what it can be (`Works`, `Sends`, `Starts`, `Ended`, `Ends`), so that only one
proof opens each action. Four invariants are inductive together:

* `Consistent` - every open message relates its snapshot to the accounts now *and to
  the snapshots of the messages below it* (`Under`). The properties of the runs speak
  of the accounts now; a failure replaces these by a snapshot, so what they say has to
  hold of each snapshot already. That nothing is taken back between the two (presence,
  nonces, codes, touch, warmth) is what makes `CreationsApart` hold: an address under
  construction has a nonce in everything that can come back while it is open.
* `Balanced` - the sum of balances and prepayment is the supply, now and in every
  snapshot.
* `Counted` - when a message was opened, each creation open then had used a nonce of
  its creator.
* `Atomic` - the outermost snapshot is the world before the transaction, charged for
  gas; and the sender's account has one nonce more, no code and no less than the
  charge and the value leave it, now and in every snapshot. The latter needs that no
  message whose recipient is the sender runs code: it has none (validation), no
  creation gets its address (its nonce is not 0), and DELEGATECALL stays on the account
  of its caller. Without it a program could spend the sender's balance and the
  bound on what a transaction costs would not hold.

They hold up to the end of a transaction that leaves its sender overdrawn
(`Overcharged`: a later one, by no more than the gas beyond its limit), from which the
model takes no step: `Reachable` is `Consistent` or that.

Steps inside a transaction then are stuttering steps of Ledger; `EndTransaction` is
`Execute`, `RejectTransaction` is `Reject` and `Finalize` is `Close`.

**SumProofs** - what `MapThenFoldSet` computes over a finite set: that it is the sum,
unique, in any order, and how it changes with one term or with a part of them. An
induction over finite sets is put as the choice of a minimal counterexample, which the
provers can instantiate.

**TracingProofs** - `ContextsCorrect`, `HistogramsCorrect`, `NumbersDecimal`. The
histogram is printed at the end of an execution, about instructions counted in all the
steps since its start, so the invariant has the counts of every open context equal to
what its execution has begun, callers included.

**PrecompilesProofs** - `CacheOnlyRemembers`, for any stubs. The property speaks of the
last call; the invariant says of every entry of the cache and of the dumped file that it
is the one of the stub the cache goes back to (`base`), or what an execution of its key
leaves.

`GasMonotone` of both interpreters, `LoopsCostGas`, `GrowthCosts`, `StaysInTable` and the
types of Advanced, Memory and StorageSlot are proved and not checked by a run any more.

**Only model-checked**: everything about liveness (the prover has no fairness);
`ReceiptHasLogsOfSurvivors` of Host, which selects from a sequence
(what `SelectSeq` returns for every sequence is an induction over data); the agreement
of the interpreters on what the instructions compute (`InterpretersAgree`) and that
they implement their control (`BaselineRefines`, `AdvancedRefines`), as the instruction
semantics uses bitwise operators and folds outside the prover's reach; Mpt and Rlp,
which are recursive.

## 6. Not modelled, and the plan

What is left to prove is out of reach as it stands. `InterpretersAgree` would need the
semantics of Instructions without bitwise operators; `BaselineImplemented` already
settles its control, so that what remains is that both interpreters give the same
arguments to the same core functions. The trie would need its recursion over nibbles
as a recursive function and an induction over data.

Left out on purpose: keccak256 (taken to be injective) and the bloom filter, which sets
bits chosen by it; the cryptography of precompiles, which the repository does not
contain; the wrap of `size_t` in the cost of expmod, whose numbers are beyond TLC; the
members of transactions and accounts that `rlp_encode()` lists and that do not differ
between the entries of a trie; JSON and command line tools, benchmarks, fuzzers, CPU detection, formatting of traces. The trie
hashes every child, also one whose encoding is shorter than a hash; that is how the
code defines it and is modelled so. The computed-goto dispatch performs the steps of
the switch dispatch and is covered by the same actions. A failing allocation terminates
the process and is not modelled.
