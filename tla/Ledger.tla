------------------------------- MODULE Ledger -------------------------------
(***************************************************************************)
(* What the state transition promises to the users of a block: each        *)
(* transaction happens as one step on the balances, nonces, codes and      *)
(* storage of accounts, whatever messages it sent on the way.              *)
(***************************************************************************)
EXTENDS State

CONSTANTS Transactions, Withdrawals

VARIABLES
  world,    \* the accounts: nonce, balance, code, storage
  receipt,  \* of the last transaction: status, gas used, logs
  executed  \* the valid transactions of the block so far

vars == <<world, receipt, executed>>

Total(w) == MapThenFoldSet(+, 0, LAMBDA a : w[a].balance, LAMBDA s : CHOOSE a \in s : TRUE, Address)

(* A world in which t only paid for its gas.                               *)
OnlyFees(w, t, gas_used) ==
  LET charged == [w EXCEPT ![t.sender].balance = @ - gas_used * effective_gas_price(t),
                           ![t.sender].nonce = @ + 1]
  IN [charged EXCEPT ![coinbase].balance = @ + gas_used * priority_gas_price(t)]

(* A valid transaction costs gas, the base fee of which is the only value  *)
(* that disappears; its nonce is used up once; no contract is replaced,    *)
(* and the sender pays no more than gas and value.  If it fails, it costs  *)
(* anybody only gas, and gas within its limit.  The first of a block stays *)
(* within its limit in any case; beyond it, the sender may be overdrawn,   *)
(* but nobody else.                                                        *)
Execute(t) ==
  LET gas_used == receipt'.gas_used IN
  /\ world'[t.sender].nonce = world[t.sender].nonce + 1
  /\ gas_used >= 1
  /\ executed = 0 \/ receipt'.status # "SUCCESS" => gas_used <= t.gas_limit
  /\ executed' = executed + 1
  /\ valid_transaction(world[t.sender], t)
  /\ Total(world') = Total(world) - gas_used * base_fee
  /\ world'[t.sender].balance >= world[t.sender].balance - gas_used * effective_gas_price(t) - t.value
  /\ \A a \in Address :
       /\ world'[a].nonce >= world[a].nonce
       /\ world'[a].balance >= 0 \/ (a = t.sender /\ gas_used > t.gas_limit)
       /\ world[a].code # EmptyCode => world'[a].code = world[a].code
  /\ receipt'.status # "SUCCESS" => world' = OnlyFees(world, t, gas_used)

(* An invalid one changes nothing.                                         *)
Reject(t) ==
  /\ receipt'.gas_used = 0 /\ receipt'.logs = <<>>
  /\ ~valid_transaction(world[t.sender], t)
  /\ receipt'.status = validation_error(world[t.sender], t)
  /\ UNCHANGED <<world, executed>>

(* The end of the block pays the withdrawals and loses no data.            *)
Close(withdrawals) ==
  /\ \A a \in Address :
       /\ world'[a].balance = world[a].balance +
            MapThenFoldSet(+, 0, LAMBDA i : get_amount(withdrawals[i]), LAMBDA s : CHOOSE i \in s : TRUE,
                           {i \in DOMAIN withdrawals : withdrawals[i].recipient = a})
       /\ world'[a].nonce = world[a].nonce
       /\ world'[a].code = world[a].code
       /\ world'[a].storage = world[a].storage \/ world[a].code = EmptyCode
  /\ UNCHANGED <<receipt, executed>>

Next ==
  \/ \E t \in Transactions : Execute(t) \/ Reject(t)
  \/ \E withdrawals \in Withdrawals : Close(withdrawals)

Spec == executed = 0 /\ [][Next]_vars
==============================================================================
