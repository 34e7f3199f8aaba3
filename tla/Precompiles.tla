----------------------------- MODULE Precompiles -----------------------------
(***************************************************************************)
(* call_precompile() and the cache of its results (test/state/             *)
(* precompiles.cpp, precompiles_cache.cpp), through restarts of the        *)
(* process, which may dump the cache to a file, and load it from that file *)
(* or from a stub made elsewhere, as the repository ships one.             *)
(*                                                                         *)
(* An input is its key, which stands for its contents and so for its hash, *)
(* its size, and what expmod_analyze() reads of it: the three lengths, and *)
(* the number of significant bits in the head of the exponent.             *)
(***************************************************************************)
EXTENDS Integers

CONSTANTS
  Ids,         \* the addresses called
  Inputs,      \* the inputs
  Gas,         \* gas of messages
  GasCostMax,  \* the largest int64_t
  LenLimit,    \* the largest size_t
  Stubs,       \* what the stub files from elsewhere leave in the cache
  MaxCalls,    \* bound: calls in all
  MaxRestarts  \* bound: restarts

ASSUME IdsAssumption == Ids \subseteq 1 .. 9
ASSUME InputsAssumption ==
  /\ Inputs \subseteq [key : Nat, size : Nat, base_len : Nat, exp_len : Nat, mod_len : Nat, exp_bits : Nat]
  /\ \A i, j \in Inputs : i.key = j.key => i = j
ASSUME GasAssumption == Gas \subseteq Nat /\ GasCostMax \in Nat /\ LenLimit \in Nat
ASSUME BoundsAssumption == MaxCalls \in Nat /\ MaxRestarts \in Nat

Keys == {i.key : i \in Inputs}

(* An entry: none, a failure, or an output.  A stub can have any entries:  *)
(* the one that is shipped has outputs of precompiles that are not         *)
(* implemented, and a malformed one leaves what was read of it.            *)
NoEntry == -2
Failed == -1
Caches == [1 .. 9 -> [Keys -> {NoEntry, Failed} \cup Nat]]
ASSUME StubsAssumption == Stubs \subseteq Caches

------------------------------------------------------------------------------
(* Costs and sizes of outputs.                                             *)

num_words(size) == (size + 31) \div 32
cost_per_input_word(base, word, size) == base + word * num_words(size)

max(a, b) == IF a >= b THEN a ELSE b
min(a, b) == IF a <= b THEN a ELSE b

mult_complexity_eip2565(x) == LET w == (x + 7) \div 8 IN w * w

(* adjusted_len(): the bits of the exponent above the head, and its head.  *)
adjusted_len(len, exp_bits) == max(8 * (max(len, 32) - 32) + (max(exp_bits, 1) - 1), 1)

expmod_analyze(input) ==
  IF input.base_len = 0 /\ input.mod_len = 0 THEN [gas_cost |-> 200, max_output_size |-> 0]
  ELSE IF input.base_len > LenLimit \/ input.exp_len > LenLimit \/ input.mod_len > LenLimit
  THEN [gas_cost |-> GasCostMax, max_output_size |-> 0]
  ELSE [gas_cost |-> max(200, min(GasCostMax,
          (mult_complexity_eip2565(max(input.mod_len, input.base_len))
             * adjusted_len(input.exp_len, input.exp_bits)) \div 3)),
        max_output_size |-> input.mod_len]

(* The table of precompiles, by address.                                   *)
traits ==
  <<"depositroot", "sha256", "identity", "expmod", "ecadd", "ecmul", "ecpairing", "nullptr", "nullptr">>

(* enum PrecompileId.                                                      *)
PrecompileId ==
  [depositroot |-> 1, sha256 |-> 2, identity |-> 4, expmod |-> 5, ecadd |-> 6, ecmul |-> 7, ecpairing |-> 8]

analyze(id, input) ==
  CASE traits[id] = "depositroot" -> [gas_cost |-> 19992, max_output_size |-> 32]
    [] traits[id] = "sha256" -> [gas_cost |-> cost_per_input_word(60, 12, input.size), max_output_size |-> 32]
    [] traits[id] = "identity" -> [gas_cost |-> cost_per_input_word(15, 3, input.size), max_output_size |-> input.size]
    [] traits[id] = "expmod" -> expmod_analyze(input)
    [] traits[id] = "ecadd" -> [gas_cost |-> 150, max_output_size |-> 64]
    [] traits[id] = "ecmul" -> [gas_cost |-> 6000, max_output_size |-> 64]
    [] traits[id] = "ecpairing" -> [gas_cost |-> 45000 + 34000 * (input.size \div 192), max_output_size |-> 32]

(* No output; an output is a number, for identity the key of its input.    *)
NoOutput == -1

(* identity_execute() copies, dummy_execute() is all the others have.      *)
execute(id, input) ==
  IF traits[id] = "identity" THEN [status |-> "SUCCESS", output |-> input.key]
  ELSE [status |-> "INTERNAL_ERROR", output |-> NoOutput]

------------------------------------------------------------------------------
VARIABLES
  cache,    \* Cache::m_cache: per id and key no entry, a failure or an output
  base,     \* history: the stub the cache goes back to
  file,     \* the dump: whether it can be read, the cache in it and its base
  last,     \* the last call: id, input, gas, result
  calls,
  restarts

vars == <<cache, base, file, last, calls, restarts>>

EmptyCache == [id \in 1 .. 9 |-> [k \in Keys |-> NoEntry]]
NoFile == [readable |-> FALSE, cache |-> EmptyCache, base |-> EmptyCache]
DumpOf(c, b) == [readable |-> TRUE, cache |-> c, base |-> b]

NoCall == [id |-> 0]

(* The first process starts without a dump, with a stub or without one.    *)
Init ==
  /\ base \in Stubs \cup {EmptyCache}
  /\ cache = base
  /\ file = NoFile
  /\ last = NoCall
  /\ calls = 0
  /\ restarts = 0

Result(status, gas_left, output) == [status |-> status, gas_left |-> gas_left, output |-> output]

(* Cache::find(): the result made of an entry.                             *)
found(entry, gas_left) ==
  IF entry = Failed THEN Result("PRECOMPILE_FAILURE", 0, NoOutput) ELSE Result("SUCCESS", gas_left, entry)

(* Cache::insert(): outputs and failures, but nothing for identity.        *)
inserted(id, input, r) ==
  IF id = PrecompileId.identity THEN cache
  ELSE [cache EXCEPT ![id][input.key] = IF r.status = "SUCCESS" THEN r.output ELSE Failed]

Answer(id, input, gas, r) == last' = [id |-> id, input |-> input, gas |-> gas, result |-> r]

(* The process is gone: a null pointer was called, or an assertion failed. *)
Crash(id, input, gas) == Answer(id, input, gas, Result("CRASH", 0, NoOutput)) /\ UNCHANGED cache
crashed == last.id # 0 /\ last.result.status = "CRASH"

output_buf_size == 256

(* The end of call_precompile(): the output must fit, assert() says; what  *)
(* was executed is kept.                                                   *)
execute_and_insert(id, input, gas, gas_left) ==
  LET outcome == execute(id, input)
      r == Result(outcome.status, IF outcome.status = "SUCCESS" THEN gas_left ELSE 0, outcome.output)
  IN IF analyze(id, input).max_output_size > output_buf_size THEN Crash(id, input, gas)
     ELSE Answer(id, input, gas, r) /\ cache' = inserted(id, input, r)

(* Mutant: the cache is asked before the gas is checked.                   *)
call_precompile_cache_first(id, input, gas) ==
  LET gas_left == gas - analyze(id, input).gas_cost
      entry == cache[id][input.key]
  IN IF entry # NoEntry THEN Answer(id, input, gas, found(entry, gas_left)) /\ UNCHANGED cache
     ELSE IF gas_left < 0
     THEN Answer(id, input, gas, Result("OUT_OF_GAS", 0, NoOutput)) /\ UNCHANGED cache
     ELSE execute_and_insert(id, input, gas, gas_left)

(* call_precompile(): gas first, then the cache, then execution.           *)
call_precompile(id, input, gas) ==
  LET gas_left == gas - analyze(id, input).gas_cost
      entry == cache[id][input.key]
  IN IF gas_left < 0
     THEN Answer(id, input, gas, Result("OUT_OF_GAS", 0, NoOutput)) /\ UNCHANGED cache
     ELSE IF entry # NoEntry THEN Answer(id, input, gas, found(entry, gas_left)) /\ UNCHANGED cache
     ELSE execute_and_insert(id, input, gas, gas_left)

Call(id, input, gas) ==
  /\ calls < MaxCalls
  /\ ~crashed
  /\ calls' = calls + 1
  /\ IF traits[id] = "nullptr" THEN Crash(id, input, gas) ELSE call_precompile(id, input, gas)
  /\ UNCHANGED <<base, file, restarts>>

(* Cache::Cache() when the stub is the dump: what cannot be read gives no  *)
(* entries.                                                                *)
loaded(f) ==
  /\ cache' = IF f.readable THEN f.cache ELSE EmptyCache
  /\ base' = IF f.readable THEN f.base ELSE EmptyCache

(* Cache::Cache() with another stub, or with none, which has no entries.   *)
given(stub) == cache' = stub /\ base' = stub

(* The process ends, by ~Cache() with or without a dump file, in which the *)
(* dump may fail, or without it; the next one is given the dump, a stub    *)
(* from elsewhere or none.                                                 *)
Restart(dumped) ==
  /\ restarts < MaxRestarts
  /\ dumped => ~crashed
  /\ restarts' = restarts + 1
  /\ file' \in (IF dumped THEN {DumpOf(cache, base), NoFile} ELSE {file})
  /\ loaded(file') \/ \E stub \in Stubs \cup {EmptyCache} : given(stub)
  /\ last' = NoCall
  /\ UNCHANGED calls

Next ==
  \/ \E id \in Ids, input \in Inputs, gas \in Gas : Call(id, input, gas)
  \/ \E dumped \in BOOLEAN : Restart(dumped)

Spec == Init /\ [][Next]_vars

------------------------------------------------------------------------------
(* Properties.                                                             *)

(* What the call answers by the stub alone, and by an execution for the    *)
(* rest.                                                                   *)
Direct(stub, id, input, gas) ==
  LET gas_left == gas - analyze(id, input).gas_cost
      entry == stub[id][input.key]
      outcome == execute(id, input)
  IN IF traits[id] = "nullptr" THEN Result("CRASH", 0, NoOutput)
     ELSE IF gas_left < 0 THEN Result("OUT_OF_GAS", 0, NoOutput)
     ELSE IF entry # NoEntry THEN found(entry, gas_left)
     ELSE IF analyze(id, input).max_output_size > output_buf_size THEN Result("CRASH", 0, NoOutput)
     ELSE Result(outcome.status, IF outcome.status = "SUCCESS" THEN gas_left ELSE 0, outcome.output)

(* Two results that a caller cannot tell apart: a cached failure comes     *)
(* back with another status than an executed one.                          *)
Alike(r, q) ==
  /\ \A status \in {"SUCCESS", "CRASH"} : (r.status = status) <=> (q.status = status)
  /\ r.gas_left = q.gas_left /\ r.output = q.output

(* What a process caches is not observable: a call is answered, or ends    *)
(* the process, as by the stub its cache goes back to and, for what the    *)
(* stub does not have, by an execution; whatever was called before, with   *)
(* whatever gas, in this process or in those whose dumps were passed on.   *)
(* Without a stub that is an execution for every call.                     *)
CacheAddsNothing ==
  last.id # 0 => Alike(last.result, Direct(base, last.id, last.input, last.gas))
==============================================================================
