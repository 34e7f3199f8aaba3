-------------------------- MODULE PrecompilesProofs --------------------------
(***************************************************************************)
(* Proofs about Precompiles, for all addresses, inputs, stubs, gas and     *)
(* numbers of calls and restarts.                                          *)
(***************************************************************************)
EXTENDS Precompiles, TLAPS

(* The entry that an execution of precompile id on an input with key k     *)
(* leaves in the cache.                                                    *)
EntryOf(id, k) == IF traits[id] = "identity" THEN k ELSE Failed

(* An entry goes back to stub b: it is the stub's or, where the stub has   *)
(* none, none or that of an execution whose output was not too long.       *)
Fits(id, k) ==
  \A input \in Inputs : input.key = k => analyze(id, input).max_output_size <= output_buf_size
Entry(e, b, id, k) ==
  IF b[id][k] # NoEntry THEN e = b[id][k] ELSE e = NoEntry \/ (e = EntryOf(id, k) /\ Fits(id, k))

(* A cache goes back to stub b.                                            *)
ExactCache(c, b) ==
  /\ c \in Caches /\ b \in Caches
  /\ \A id \in 1 .. 9, k \in Keys : Entry(c[id][k], b, id, k)

(* CacheAddsNothing speaks of the last call and is not inductive: what the *)
(* next call is answered depends on all that was cached, and after a       *)
(* restart on all that was dumped.                                         *)
IInv ==
  /\ ExactCache(cache, base)
  /\ ExactCache(file.cache, file.base)
  /\ CacheAddsNothing

------------------------------------------------------------------------------
(* Keys of the cache are numbers.                                          *)
LEMMA KeysAreNumbers == Keys \subseteq Nat
  BY InputsAssumption DEF Keys

(* The types of the fields of an input.                                    *)
LEMMA InputTypes ==
  ASSUME NEW input \in Inputs
  PROVE  /\ input.key \in Keys
         /\ input.size \in Nat /\ input.base_len \in Nat /\ input.exp_len \in Nat
         /\ input.mod_len \in Nat /\ input.exp_bits \in Nat
  BY InputsAssumption DEF Keys

(* A stub goes back to itself, and so does a cache without entries.        *)
LEMMA StubExact ==
  ASSUME NEW stub \in Stubs \cup {EmptyCache}
  PROVE  ExactCache(stub, stub)
<1>1. EmptyCache \in Caches
  BY DEF EmptyCache, Caches
<1>2. stub \in Caches
  BY <1>1, StubsAssumption
<1>3. ASSUME NEW id \in 1 .. 9, NEW k \in Keys
      PROVE  Entry(stub[id][k], stub, id, k)
  BY DEF Entry
<1> QED
  BY <1>2, <1>3 DEF ExactCache

(* What cannot be read goes back to no stub.                               *)
LEMMA NoFileExact == ExactCache(NoFile.cache, NoFile.base) /\ ExactCache(EmptyCache, EmptyCache)
<1>1. ExactCache(EmptyCache, EmptyCache)
  BY StubExact
<1> QED
  BY <1>1 DEF NoFile

(* The cost of expmod is a number, whatever the lengths.                   *)
LEMMA ExpmodCost ==
  ASSUME NEW input \in Inputs
  PROVE  expmod_analyze(input).gas_cost \in Int
<1> DEFINE x == max(input.mod_len, input.base_len)
           m == mult_complexity_eip2565(x)
           a == adjusted_len(input.exp_len, input.exp_bits)
           g == (m * a) \div 3
<1>1. x \in Nat
  BY InputTypes DEF max
<1>2. m \in Int
  <2> DEFINE w == (x + 7) \div 8
  <2>1. w \in Int
    BY <1>1
  <2>2. w * w \in Int
    BY <2>1
  <2> QED
    BY <2>2 DEF mult_complexity_eip2565
<1>3. a \in Int
  BY InputTypes DEF adjusted_len, max
<1>4. g \in Int
  <2> HIDE DEF m, a
  <2>1. m * a \in Int
    BY <1>2, <1>3
  <2> QED
    BY <2>1
<1>5. max(200, min(GasCostMax, g)) \in Int
  <2> HIDE DEF g
  <2> QED
    BY <1>4, GasAssumption DEF max, min
<1> QED
  BY <1>5, GasAssumption DEF expmod_analyze

(* Every analysis gives a cost.                                            *)
LEMMA CostIsNumber ==
  ASSUME NEW id \in 1 .. 9, traits[id] # "nullptr", NEW input \in Inputs
  PROVE  analyze(id, input).gas_cost \in Int
<1>1. cost_per_input_word(60, 12, input.size) \in Int /\ cost_per_input_word(15, 3, input.size) \in Int
  BY InputTypes DEF cost_per_input_word, num_words
<1>2. 45000 + 34000 * (input.size \div 192) \in Int
  BY InputTypes
<1>3. traits[id] \in {"depositroot", "sha256", "identity", "expmod", "ecadd", "ecmul", "ecpairing"}
  BY DEF traits
<1> QED
  BY <1>1, <1>2, <1>3, ExpmodCost DEF analyze

(* Every analysis gives the size of an output.                             *)
LEMMA SizeIsNumber ==
  ASSUME NEW id \in 1 .. 9, traits[id] # "nullptr", NEW input \in Inputs
  PROVE  analyze(id, input).max_output_size \in Nat
<1>1. expmod_analyze(input).max_output_size \in Nat
  BY InputTypes DEF expmod_analyze
<1>2. traits[id] \in {"depositroot", "sha256", "identity", "expmod", "ecadd", "ecmul", "ecpairing"}
  BY DEF traits
<1> QED
  BY <1>1, <1>2, InputTypes DEF analyze

(* What an execution leaves in an exact cache is exact.                    *)
LEMMA InsertExact ==
  ASSUME NEW id \in 1 .. 9, NEW input \in Inputs, NEW r,
         ExactCache(cache, base), base[id][input.key] = NoEntry,
         analyze(id, input).max_output_size <= output_buf_size,
         r.status = execute(id, input).status, r.output = execute(id, input).output
  PROVE  ExactCache(inserted(id, input, r), base)
<1> DEFINE e == IF r.status = "SUCCESS" THEN r.output ELSE Failed
<1>1. e = EntryOf(id, input.key)
  BY DEF execute, EntryOf
<1>2. e \in {NoEntry, Failed} \cup Nat
  BY <1>1, InputTypes, KeysAreNumbers DEF EntryOf
<1>3. inserted(id, input, r) = IF id = PrecompileId.identity THEN cache
                               ELSE [cache EXCEPT ![id][input.key] = e]
  BY DEF inserted
<1>4. Fits(id, input.key)
  BY InputsAssumption DEF Fits
<1> HIDE DEF e
<1>5. Entry(e, base, id, input.key)
  BY <1>1, <1>4 DEF Entry
<1>6. CASE id # PrecompileId.identity
  <2> DEFINE c == [cache EXCEPT ![id][input.key] = e]
  <2>1. cache \in Caches
    BY DEF ExactCache
  <2>2. c \in Caches
    BY <1>2, <2>1, InputTypes DEF Caches
  <2>3. ASSUME NEW i \in 1 .. 9, NEW k \in Keys
        PROVE  c[i][k] = IF i = id /\ k = input.key THEN e ELSE cache[i][k]
    BY <2>1, InputTypes DEF Caches
  <2>4. ASSUME NEW i \in 1 .. 9, NEW k \in Keys
        PROVE  Entry(c[i][k], base, i, k)
    <3> HIDE DEF c
    <3>1. Entry(cache[i][k], base, i, k)
      BY DEF ExactCache
    <3>2. CASE i = id /\ k = input.key
      <4>1. c[i][k] = e
        BY <2>3, <3>2
      <4> QED
        BY <1>5, <3>2, <4>1
    <3>3. CASE ~(i = id /\ k = input.key)
      <4>1. c[i][k] = cache[i][k]
        BY <2>3, <3>3
      <4> QED
        BY <3>1, <4>1
    <3> QED
      BY <3>2, <3>3
  <2>5. inserted(id, input, r) = c
    BY <1>3, <1>6
  <2> HIDE DEF c
  <2> QED
    BY <2>2, <2>4, <2>5 DEF ExactCache
<1> QED
  BY <1>3, <1>6

(* A result is like itself.                                                *)
LEMMA AlikeReflexive ==
  ASSUME NEW r
  PROVE  Alike(r, r)
  BY DEF Alike

(* A call answers as the stub or an execution would, and keeps the cache   *)
(* exact.                                                                  *)
LEMMA CallStep ==
  ASSUME IInv, NEW id \in Ids, NEW input \in Inputs, NEW gas \in Gas, Call(id, input, gas)
  PROVE  IInv'
<1> DEFINE gas_left == gas - analyze(id, input).gas_cost
           long == analyze(id, input).max_output_size > output_buf_size
           entry == cache[id][input.key]
           given_entry == base[id][input.key]
           outcome == execute(id, input)
           direct == Direct(base, id, input, gas)
           crash == Result("CRASH", 0, NoOutput)
           r == Result(outcome.status, IF outcome.status = "SUCCESS" THEN gas_left ELSE 0, outcome.output)
<1>1. id \in 1 .. 9 /\ id # 0 /\ gas \in Nat
  BY IdsAssumption, GasAssumption
<1>2. ExactCache(cache, base) /\ base' = base /\ file' = file /\ ExactCache(file'.cache, file'.base)
  BY DEF IInv, Call
<1>3. ASSUME NEW res, Answer(id, input, gas, res), ExactCache(cache', base), Alike(res, direct)
      PROVE  IInv'
  <2>1. last'.id = id /\ last'.input = input /\ last'.gas = gas /\ last'.result = res
    BY <1>3 DEF Answer
  <2>2. CacheAddsNothing'
    BY <1>2, <1>3, <2>1 DEF CacheAddsNothing
  <2> QED
    BY <1>2, <1>3, <2>2 DEF IInv
<1>4. ASSUME Crash(id, input, gas), direct = crash
      PROVE  IInv'
  <2>1. Answer(id, input, gas, crash) /\ cache' = cache
    BY <1>4 DEF Crash
  <2>2. Alike(crash, direct)
    BY <1>4, AlikeReflexive
  <2> QED
    BY <1>2, <1>3, <2>1, <2>2
<1>5. CASE traits[id] = "nullptr"
  <2>1. direct = crash
    BY <1>5 DEF Direct
  <2>2. Crash(id, input, gas)
    BY <1>5 DEF Call
  <2> QED
    BY <1>4, <2>1, <2>2
<1>6. CASE traits[id] # "nullptr"
  <2>1. gas_left \in Int
    BY <1>1, <1>6, CostIsNumber
  <2>2. call_precompile(id, input, gas)
    BY <1>6 DEF Call
  <2>3. CASE gas_left < 0
    <3>1. Answer(id, input, gas, Result("OUT_OF_GAS", 0, NoOutput)) /\ cache' = cache
      BY <2>2, <2>3 DEF call_precompile
    <3>2. direct = Result("OUT_OF_GAS", 0, NoOutput)
      BY <1>6, <2>3 DEF Direct
    <3>3. Alike(Result("OUT_OF_GAS", 0, NoOutput), direct)
      BY <3>2, AlikeReflexive
    <3> QED
      BY <1>2, <1>3, <3>1, <3>3
  <2>4. CASE ~(gas_left < 0)
    <3>1. direct = IF given_entry # NoEntry THEN found(given_entry, gas_left) ELSE IF long THEN crash ELSE r
      BY <1>6, <2>4 DEF Direct
    <3>2. r.status = outcome.status /\ r.output = outcome.output
      BY DEF Result
    <3>3. Entry(entry, base, id, input.key)
      BY <1>1, <1>2, InputTypes DEF ExactCache
    <3>4. CASE entry # NoEntry
      <4>1. Answer(id, input, gas, found(entry, gas_left)) /\ cache' = cache
        BY <2>2, <2>4, <3>4 DEF call_precompile
      <4>2. CASE given_entry # NoEntry
        <5>1. entry = given_entry
          BY <3>3, <4>2 DEF Entry
        <5>2. Alike(found(entry, gas_left), direct)
          BY <3>1, <4>2, <5>1, AlikeReflexive
        <5> QED
          BY <1>2, <1>3, <4>1, <5>2
      <4>3. CASE given_entry = NoEntry
        <5>1. entry = EntryOf(id, input.key) /\ Fits(id, input.key)
          BY <3>3, <3>4, <4>3 DEF Entry
        <5>2. analyze(id, input).max_output_size <= output_buf_size
          BY <5>1 DEF Fits
        <5>3. direct = r
          <6>1. ~long
            BY <5>2, <1>6, SizeIsNumber, <1>1 DEF output_buf_size
          <6> QED
            BY <3>1, <4>3, <6>1
        <5>4. CASE traits[id] = "identity"
          <6>1. entry = input.key /\ entry # Failed
            BY <5>1, <5>4, InputTypes, KeysAreNumbers DEF EntryOf, Failed
          <6>2. r = Result("SUCCESS", gas_left, input.key)
            BY <5>4 DEF execute
          <6>3. found(entry, gas_left) = r
            BY <6>1, <6>2 DEF found
          <6>4. Alike(found(entry, gas_left), direct)
            BY <5>3, <6>3, AlikeReflexive
          <6> QED
            BY <1>2, <1>3, <4>1, <6>4
        <5>5. CASE traits[id] # "identity"
          <6>1. found(entry, gas_left) = Result("PRECOMPILE_FAILURE", 0, NoOutput)
            BY <5>1, <5>5 DEF EntryOf, found
          <6>2. r = Result("INTERNAL_ERROR", 0, NoOutput)
            BY <5>5 DEF execute
          <6>3. Alike(Result("PRECOMPILE_FAILURE", 0, NoOutput), Result("INTERNAL_ERROR", 0, NoOutput))
            BY DEF Result, Alike
          <6>4. Alike(found(entry, gas_left), direct)
            BY <5>3, <6>1, <6>2, <6>3
          <6> QED
            BY <1>2, <1>3, <4>1, <6>4
        <5> QED
          BY <5>4, <5>5
      <4> QED
        BY <4>2, <4>3
    <3>5. CASE entry = NoEntry
      <4>1. execute_and_insert(id, input, gas, gas_left)
        BY <2>2, <2>4, <3>5 DEF call_precompile
      <4>2. given_entry = NoEntry
        BY <3>3, <3>5 DEF Entry
      <4>3. CASE long
        <5>1. direct = crash
          BY <3>1, <4>2, <4>3
        <5>2. Crash(id, input, gas)
          BY <4>1, <4>3 DEF execute_and_insert
        <5> QED
          BY <1>4, <5>1, <5>2
      <4>4. CASE ~long
        <5>1. Answer(id, input, gas, r) /\ cache' = inserted(id, input, r)
          BY <4>1, <4>4 DEF execute_and_insert
        <5>2. analyze(id, input).max_output_size <= output_buf_size
          BY <1>1, <1>6, <4>4, SizeIsNumber DEF output_buf_size
        <5>3. ExactCache(inserted(id, input, r), base)
          <6> HIDE DEF r
          <6> QED
            BY <1>1, <1>2, <3>2, <4>2, <5>2, InsertExact
        <5>4. Alike(r, direct)
          BY <3>1, <4>2, <4>4, AlikeReflexive
        <5> QED
          BY <1>3, <5>1, <5>3, <5>4
      <4> QED
        BY <4>3, <4>4
    <3> QED
      BY <3>4, <3>5
  <2> QED
    BY <2>3, <2>4
<1> QED
  BY <1>5, <1>6

(* A restart begins with an exact cache.                                   *)
LEMMA RestartStep ==
  ASSUME IInv, NEW dumped \in BOOLEAN, Restart(dumped)
  PROVE  IInv'
<1>1. ExactCache(DumpOf(cache, base).cache, DumpOf(cache, base).base)
  BY DEF DumpOf, IInv
<1>2. ExactCache(file'.cache, file'.base)
  BY <1>1, NoFileExact DEF Restart, IInv
<1>3. ExactCache(cache', base')
  <2>1. CASE loaded(file')
    BY <1>2, <2>1, NoFileExact DEF loaded
  <2>2. CASE \E stub \in Stubs \cup {EmptyCache} : given(stub)
    BY <2>2, StubExact DEF given
  <2> QED
    BY <2>1, <2>2 DEF Restart
<1>4. last'.id = 0
  BY DEF Restart, NoCall
<1>5. CacheAddsNothing'
  BY <1>4 DEF CacheAddsNothing
<1> QED
  BY <1>2, <1>3, <1>5 DEF IInv

(* Whatever was called before, with whatever gas, in this process or in    *)
(* the ones whose dumps were loaded, a call is answered by the stub that   *)
(* was given at the beginning, whatever is in it, and for the rest as      *)
(* call_precompile() would without its cache.                              *)
THEOREM CacheOnlyRemembers == Spec => []CacheAddsNothing
<1>1. Init => IInv
  <2> SUFFICES ASSUME Init PROVE IInv
    OBVIOUS
  <2>1. ExactCache(cache, base)
    BY StubExact DEF Init
  <2> QED
    BY <2>1, NoFileExact DEF Init, IInv, NoCall, CacheAddsNothing
<1>2. IInv /\ [Next]_vars => IInv'
  <2> SUFFICES ASSUME IInv, [Next]_vars PROVE IInv'
    OBVIOUS
  <2>1. CASE Next
    BY <2>1, CallStep, RestartStep DEF Next
  <2>2. CASE UNCHANGED vars
    BY <2>2 DEF vars, IInv, ExactCache, CacheAddsNothing
  <2> QED
    BY <2>1, <2>2
<1>3. IInv => CacheAddsNothing
  BY DEF IInv
<1> QED
  BY <1>1, <1>2, <1>3, PTL DEF Spec
==============================================================================
