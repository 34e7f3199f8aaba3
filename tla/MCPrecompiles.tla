---------------------------- MODULE MCPrecompiles ----------------------------
(* Three inputs: empty; a small expmod; one with a long exponent, which is *)
(* longer than the output buffer.                                          *)
EXTENDS Precompiles

MCInputs ==
  {[key |-> 0, size |-> 0, base_len |-> 0, exp_len |-> 0, mod_len |-> 0, exp_bits |-> 0],
   [key |-> 1, size |-> 100, base_len |-> 1, exp_len |-> 2, mod_len |-> 1, exp_bits |-> 9],
   [key |-> 2, size |-> 257, base_len |-> 64, exp_len |-> 40, mod_len |-> 32, exp_bits |-> 256]}

(* A stub like the shipped one: outputs of sha256 and expmod, one longer   *)
(* than the buffer, a failure of ecmul, an output for address 3, made for  *)
(* ripemd160, that identity does not have, and an entry for address 8.     *)
MCStubs ==
  {[EmptyCache EXCEPT ![2][1] = 7, ![3][1] = 8, ![4][0] = 7, ![4][2] = 9, ![6][0] = Failed, ![8][0] = 7]}
==============================================================================
