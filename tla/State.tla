-------------------------------- MODULE State --------------------------------
(***************************************************************************)
(* The accounts of test/state: the operations of class State and Account   *)
(* on one map of accounts, the addresses of new contracts, and the         *)
(* validation and the prices of a transaction.                             *)
(*                                                                         *)
(* The map is a function on all addresses; an address that is not in the   *)
(* map has exists = FALSE.  Of the storage one slot's current value is     *)
(* kept (StorageSlot has the rest of it), of a code its size and whether   *)
(* its first byte is 0xEF.                                                 *)
(***************************************************************************)
EXTENDS Integers, Sequences, FiniteSets, Folds

CONSTANTS
  Address,        \* all addresses
  Precompiles,    \* the addresses Z01 .. Z09
  addr_03,        \* Z03
  CreateAddress,  \* what CREATE hashes to: sender, nonce -> address;
  Create2Address, \* what CREATE2 hashes to: sender, salt with init code -> address;
                  \*   bound: their domains are the creations of the model
  Salt,           \* the salts of CREATE2, each with its init code
  NonceMax,       \* the maximal nonce, 2^64 - 1
  base_fee,       \* BlockInfo: base fee,
  block_gas_limit,\*   gas limit
  coinbase,       \*   and beneficiary
  gplanck         \* planck per gplanck, 10^9

ASSUME AddressAssumption ==
  addr_03 \in Precompiles /\ Precompiles \subseteq Address /\ coinbase \in Address /\ IsFiniteSet(Address)
ASSUME NonceMaxAssumption == NonceMax \in Nat \ {0}
ASSUME CreateAddressAssumption ==
  /\ DOMAIN CreateAddress \subseteq Address \X (0 .. NonceMax)
  /\ DOMAIN Create2Address \subseteq Address \X Salt
  /\ \A x \in DOMAIN CreateAddress : CreateAddress[x] \in Address \ Precompiles
  /\ \A x \in DOMAIN Create2Address : Create2Address[x] \in Address \ Precompiles
ASSUME BlockAssumption == base_fee \in Nat /\ block_gas_limit \in Nat /\ gplanck \in Nat \ {0}

(* A code by its size in bytes and whether it starts with 0xEF.            *)
Code == [size : Nat, ef : BOOLEAN]
EmptyCode == [size |-> 0, ef |-> FALSE]

(* Account{}: what an address outside the map counts as.                   *)
NoAccount ==
  [exists |-> FALSE, nonce |-> 0, balance |-> 0, code |-> EmptyCode, storage |-> 0,
   erasable |-> FALSE, access_status |-> "COLD"]

Account ==
  [exists : BOOLEAN, nonce : 0 .. NonceMax, balance : Int, code : Code, storage : Nat,
   erasable : BOOLEAN, access_status : {"COLD", "WARM"}]

is_empty(acc) == acc.code = EmptyCode /\ acc.nonce = 0 /\ acc.balance = 0

(* get_or_insert() on the account of an address, new ones erasable or not. *)
get_or_insert(acc, erasable) ==
  IF acc.exists THEN acc ELSE [NoAccount EXCEPT !.exists = TRUE, !.erasable = erasable]

touch(acc) == [get_or_insert(acc, FALSE) EXCEPT !.erasable = TRUE]

(* Host::access_account, without the answer.                               *)
access_account(acc) == [get_or_insert(acc, TRUE) EXCEPT !.access_status = "WARM"]

(* Mutant: both balances are read before one is written.                   *)
transfer_stale(accounts, from, to, value) ==
  [accounts EXCEPT ![from].balance = @ - value, ![to].balance = accounts[to].balance + value]

(* sender.balance -= value, recipient.balance += value; they may be one.   *)
transfer(accounts, from, to, value) ==
  LET paid == [accounts EXCEPT ![from].balance = @ - value]
  IN [paid EXCEPT ![to].balance = @ + value]

compute_new_account_address(sender, sender_nonce, kind, salt) ==
  IF kind = "CREATE" THEN CreateAddress[sender, sender_nonce] ELSE Create2Address[sender, salt]

(* Whether the address of a creation is one of the model.                  *)
hashable(sender, sender_nonce, kind, salt) ==
  IF kind = "CREATE" THEN <<sender, sender_nonce>> \in DOMAIN CreateAddress
  ELSE <<sender, salt>> \in DOMAIN Create2Address

------------------------------------------------------------------------------
(* Transactions: sender, to (or NoAddress for a creation), value,          *)
(* gas_limit, max_gas_price, max_priority_gas_price, the numbers of zero   *)
(* and nonzero bytes of data, and the access list with its numbers of keys.*)

CONSTANT NoAddress
ASSUME NoAddressAssumption == NoAddress \notin Address

max_code_size == 24576
max_initcode_size == 2 * max_code_size
code_deposit_cost == 200

is_create(tx) == tx.to = NoAddress
data_size(tx) == tx.zeros + tx.nonzeros
num_words(size) == (size + 31) \div 32

compute_tx_data_cost(tx) == 4 * tx.zeros + 16 * tx.nonzeros

compute_access_list_cost(list) ==
  MapThenFoldSet(+, 0, LAMBDA i : 2400 + 1900 * list[i].keys,
                 LAMBDA s : CHOOSE i \in s : TRUE, DOMAIN list)

compute_tx_intrinsic_cost(tx) ==
  (IF is_create(tx) THEN 53000 + 2 * num_words(data_size(tx)) ELSE 21000)
    + compute_tx_data_cost(tx) + compute_access_list_cost(tx.access_list)

(* Mutant: the value is not part of what the sender must have.             *)
tx_cost_without_value(tx) == tx.gas_limit * tx.max_gas_price

(* The theoretical maximum of what a transaction costs its sender.         *)
tx_cost_limit(tx) == tx.gas_limit * tx.max_gas_price + tx.value

(* The checks in the order they are made: the first that fails decides.    *)
(* The nonce of the transaction is not looked at.                          *)
checks(sender_acc, tx) ==
  <<[fails |-> tx.max_priority_gas_price > tx.max_gas_price,          error |-> "TIP_GT_FEE_CAP"],
    [fails |-> tx.gas_limit > block_gas_limit,                        error |-> "GAS_LIMIT_REACHED"],
    [fails |-> tx.max_gas_price < base_fee,                           error |-> "FEE_CAP_LESS_THEN_BLOCKS"],
    [fails |-> sender_acc.code # EmptyCode,                           error |-> "SENDER_NOT_EOA"],
    [fails |-> sender_acc.nonce = NonceMax,                           error |-> "NONCE_HAS_MAX_VALUE"],
    [fails |-> is_create(tx) /\ data_size(tx) > max_initcode_size,    error |-> "INIT_CODE_SIZE_LIMIT_EXCEEDED"],
    [fails |-> sender_acc.balance < tx_cost_limit(tx),                error |-> "INSUFFICIENT_FUNDS"],
    [fails |-> compute_tx_intrinsic_cost(tx) > tx.gas_limit,          error |-> "INTRINSIC_GAS_TOO_LOW"]>>

failed_checks(sender_acc, tx) ==
  LET all == checks(sender_acc, tx) IN {i \in 1 .. 8 : all[i].fails}

valid_transaction(sender_acc, tx) == failed_checks(sender_acc, tx) = {}

validation_error(sender_acc, tx) ==
  LET failed == failed_checks(sender_acc, tx)
  IN checks(sender_acc, tx)[CHOOSE i \in failed : \A j \in failed : i <= j].error

min(a, b) == IF a <= b THEN a ELSE b

priority_gas_price(tx) == min(tx.max_priority_gas_price, tx.max_gas_price - base_fee)
effective_gas_price(tx) == base_fee + priority_gas_price(tx)
tx_max_cost(tx) == tx.gas_limit * effective_gas_price(tx)

(* Withdrawal::get_amount().                                               *)
get_amount(withdrawal) == withdrawal.amount_in_gplanck * gplanck
==============================================================================
