------------------------------- MODULE MCHost -------------------------------
(* Instances of Host: a sender, a contract, the coinbase, Z03 and three    *)
(* addresses of contracts to be: by a transaction, by CREATE, by CREATE2.  *)
EXTENDS Host

CONSTANTS S, A, C, Z, K, N, M

MCAddress == {S, A, C, Z, K, N, M}
MCPrecompiles == {Z}
MCSalt == {0}
MCCreateAddress == [x \in {<<S, 0>>, <<A, 1>>} |-> IF x[1] = S THEN K ELSE N]
MCCreate2Address == [x \in {<<A, 0>>} |-> M]

MCCodes ==
  {EmptyCode, [size |-> 1, ef |-> FALSE], [size |-> 1, ef |-> TRUE],
   [size |-> max_code_size + 1, ef |-> FALSE]}

Loaded(balance, nonce, size, storage) ==
  [NoAccount EXCEPT !.exists = TRUE, !.balance = balance, !.nonce = nonce,
                    !.code = [size |-> size, ef |-> FALSE], !.storage = storage]

(* A state by the account at the address of CREATE2 and the one at Z03.    *)
State0(m, z) ==
  [a \in MCAddress |->
     CASE a = S -> Loaded(190002, 0, 0, 0)
       [] a = C -> Loaded(200000, 1, 0, 0)
       [] a = A -> Loaded(1, 1, 2, 0)
       [] a = M -> m
       [] a = Z -> z
       [] OTHER -> NoAccount]

(* The address of CREATE2 is free, prefunded, or has only code; Z03 is     *)
(* absent or an empty account.                                             *)
MCGenesis ==
  {State0(m, z) : m \in {NoAccount, Loaded(1, 0, 0, 1), Loaded(0, 0, 2, 0)},
                  z \in {NoAccount, Loaded(0, 0, 0, 0)}}
MCBlockGenesis == {State0(NoAccount, Loaded(0, 0, 0, 0)), State0(Loaded(1, 0, 0, 1), NoAccount)}

Tx(sender, to, value, gas_limit, price, priority, zeros, list) ==
  [sender |-> sender, to |-> to, value |-> value, gas_limit |-> gas_limit, max_gas_price |-> price,
   max_priority_gas_price |-> priority, zeros |-> zeros, nonzeros |-> 1, access_list |-> list]

Valid ==
  {Tx(S, A, 1, 26000, 3, 1, 2, <<[addr |-> N, keys |-> 1]>>),
   Tx(S, NoAddress, 1, 60000, 3, 2, 0, <<>>),
   Tx(C, A, 0, 30000, 2, 2, 0, <<>>),
   Tx(S, Z, 0, 30000, 2, 0, 0, <<>>)}

Invalid ==
  {Tx(S, A, 0, 30000, 2, 3, 0, <<>>),
   Tx(S, A, 0, 70000, 2, 1, 0, <<>>),
   Tx(S, A, 0, 30000, 1, 1, 0, <<>>),
   Tx(A, S, 0, 30000, 2, 1, 0, <<>>),
   Tx(S, NoAddress, 0, 60000, 2, 1, max_initcode_size, <<>>),
   Tx(S, A, 10003, 60000, 3, 1, 0, <<>>),
   Tx(S, A, 0, 21015, 2, 1, 0, <<>>)}

MCTransactions == Valid \cup Invalid
MCOneTransaction == {Tx(S, A, 1, 26000, 3, 1, 2, <<[addr |-> N, keys |-> 1]>>)}

(* None, one above a fifth of the gas used, and what setting a slot again  *)
(* takes back that an earlier transaction cleared.                         *)
MCRefunds == {0, 20000, -4800}

MCWithdrawals == {<<>>, <<[recipient |-> K, amount_in_gplanck |-> 5], [recipient |-> K, amount_in_gplanck |-> 2]>>}
==============================================================================
