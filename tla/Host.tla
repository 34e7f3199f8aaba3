-------------------------------- MODULE Host --------------------------------
(***************************************************************************)
(* The host and the state transition (test/state/host.cpp, state.cpp): the *)
(* transactions of a block, each with its stack of messages, over accounts *)
(* with balances, nonces, codes and storage.                               *)
(*                                                                         *)
(* The interpreter is what it can do to the host: the program of a frame   *)
(* runs any of call_impl(), create_impl(), SSTORE, LOG and BALANCE, in any *)
(* order, and ends with any result an execution can have.  Gas inside a    *)
(* frame is left to StorageSlot and Instructions; here it is the gas of    *)
(* the message and what comes back of it.                                  *)
(*                                                                         *)
(* Balances are integers.  Where the program subtracts more than there is, *)
(* the balance goes below zero, and stands for what it is modulo 2^256;    *)
(* the model follows a block up to there and not beyond.                   *)
(***************************************************************************)
EXTENDS State

CONSTANTS
  Transactions,     \* the transactions that can be in the block
  Genesis,          \* the states the block can start from
  Codes,            \* the outputs of init codes
  Values,           \* values of calls and endowments
  Targets,          \* bound: the addresses programs call or look at
  CallGas,          \* gas of messages
  Spent,            \* bound: gas that executions use, apart from all of it
  Refunds,          \* gas refunds of executions, which may be negative
  Withdrawals,      \* the block's withdrawals: sequences of recipient and amount
  CallDepthLimit,   \* 1024 in the code
  MaxOps,           \* bound: operations of a transaction
  MaxTransactions   \* bound: transactions of the block that are executed

Transaction ==
  [sender : Address, to : Address \cup {NoAddress}, value : Nat, gas_limit : Nat,
   max_gas_price : Nat, max_priority_gas_price : Nat, zeros : Nat, nonzeros : Nat,
   access_list : Seq([addr : Address, keys : Nat])]

ASSUME TransactionsAssumption ==
  /\ Transactions \subseteq Transaction /\ Transactions # {}
  /\ \A tx \in Transactions : compute_tx_intrinsic_cost(tx) \in Nat \ {0}

(* A state is loaded with no account touched or warm; the loader takes the *)
(* senders of transactions to be in it.                                    *)
ASSUME GenesisAssumption ==
  \A s \in Genesis :
    /\ s \in [Address -> Account]
    /\ \A a \in Address : s[a].balance >= 0
    /\ \A a \in Address : ~s[a].exists => s[a] = NoAccount
    /\ \A a \in Address : ~s[a].erasable /\ s[a].access_status = "COLD"
    /\ \A tx \in Transactions : s[tx.sender].exists

ASSUME ParametersAssumption ==
  /\ Codes \subseteq Code
  /\ Values \subseteq Nat /\ 0 \in Values
  /\ Targets \subseteq Address
  /\ CallGas \subseteq Nat
  /\ Spent \subseteq Nat /\ 0 \in Spent /\ Refunds \subseteq Int /\ 0 \in Refunds
  /\ Withdrawals \subseteq Seq([recipient : Address, amount_in_gplanck : Nat])
  /\ CallDepthLimit \in Nat /\ MaxOps \in Nat /\ MaxTransactions \in Nat

VARIABLES
  accounts,  \* State::m_accounts
  logs,      \* Host::m_logs, of a Host that lives as long as the transaction
  frames,    \* the messages being executed, outermost first
  tx,        \* the transaction
  receipt,   \* of the last transaction, or why it was rejected
  block,     \* "open", or "final" once finalize() is done
  txs,       \* transactions executed so far
  ops,       \* operations of the transaction so far
  emitted,   \* history: all logs of the transaction, undone ones too
  failed,    \* history: the messages that failed
  start,     \* history: the world before the transaction
  supply     \* history: the sum of all balances there must be

vars == <<accounts, logs, frames, tx, receipt, block, txs, ops, emitted, failed, start, supply>>

depth == Len(frames)
top == frames[depth]

Creates == {"CREATE", "CREATE2"}

TotalBalance(accs) ==
  MapThenFoldSet(+, 0, LAMBDA a : accs[a].balance, LAMBDA s : CHOOSE a \in s : TRUE, Address)

(* What of an account belongs to the world state: access status, erasable  *)
(* flag and presence of an empty account do not.                           *)
Contents(acc) ==
  [nonce |-> acc.nonce, balance |-> acc.balance, code |-> acc.code, storage |-> acc.storage]

World(accs) == [a \in Address |-> Contents(accs[a])]

Init ==
  /\ accounts \in Genesis
  /\ logs = <<>>
  /\ frames = <<>>
  /\ tx = CHOOSE t \in Transactions : TRUE
  /\ receipt = [status |-> "NONE", gas_used |-> 0, logs |-> <<>>]
  /\ block = "open"
  /\ txs = 0
  /\ ops = 0
  /\ emitted = <<>>
  /\ failed = {}
  /\ start = World(accounts)
  /\ supply = TotalBalance(accounts)

------------------------------------------------------------------------------
(* Host::call up to the execution of code.                                 *)

(* Mutant: only the nonce shows that an address is taken.                  *)
collision_by_nonce(acc) == acc.exists /\ acc.nonce # 0

(* The check at the beginning of create().                                 *)
collision(acc) == acc.exists /\ (acc.nonce # 0 \/ acc.code # EmptyCode)

(* Mutant: a transaction's own message does not count.                     *)
bumps_nonce_of_creators(msg) == msg.kind \in Creates

(* Which messages use up a nonce of their sender.                          *)
bumps_nonce(msg) == depth = 0 \/ msg.kind \in Creates

(* prepare_message() refuses the message.                                  *)
nonce_exhausted(accs, msg) == bumps_nonce(msg) /\ accs[msg.sender].nonce = NonceMax

(* prepare_message(): the accounts with the sender's nonce increased and   *)
(* the new address, to, warm.                                              *)
prepared(accs, msg, to) ==
  LET bumped == IF bumps_nonce(msg) THEN [accs EXCEPT ![msg.sender].nonce = @ + 1] ELSE accs
  IN IF msg.kind \in Creates THEN [bumped EXCEPT ![to] = access_account(@)] ELSE bumped

(* Mutant: the nonce is left to be set when the code is stored.            *)
new_account_late_nonce(acc) == [get_or_insert(acc, FALSE) EXCEPT !.storage = 0]

(* create() up to the init code: the account with nonce 1 and no storage.  *)
new_account(acc) == [get_or_insert(acc, FALSE) EXCEPT !.nonce = 1, !.storage = 0]

(* The beginnings of execute_message() and create().                       *)
entered(accs, msg, to) ==
  CASE msg.kind \in Creates /\ collision(accs[to]) -> accs
    [] msg.kind \in Creates /\ ~collision(accs[to]) ->
         transfer([accs EXCEPT ![to] = new_account(@)], msg.sender, to, msg.value)
    [] msg.kind = "CALL" -> transfer([accs EXCEPT ![to] = touch(@)], msg.sender, to, msg.value)
    [] OTHER -> accs

(* What the frame runs: the code copied from the account, an init code, a  *)
(* precompile, or nothing; a collision has failed already.                 *)
runs(accs, msg, to) ==
  CASE msg.kind \in Creates -> IF collision(accs[to]) THEN "failed" ELSE "code"
    [] msg.kind \notin Creates /\ msg.code_address \in Precompiles -> "precompile"
    [] OTHER -> IF accs[msg.code_address].code = EmptyCode THEN "nothing" ELSE "code"

(* The frame of a message, with what Host::call saved before it.           *)
open_frame(saved, msg, to) ==
  frames' = Append(frames,
    [kind |-> msg.kind, sender |-> msg.sender, recipient |-> to, value |-> msg.value,
     static_mode |-> msg.static_mode, gas |-> msg.gas, runs |-> runs(saved, msg, to),
     snapshot |-> saved, logs_snapshot |-> Len(logs), id |-> IF depth = 0 THEN 0 ELSE ops + 1])

(* Mutant: the snapshot is taken before prepare_message().                 *)
host_call_early_snapshot(accs, msg) ==
  LET nonce == accs[msg.sender].nonce
      to == IF msg.kind \in Creates
            THEN compute_new_account_address(msg.sender, nonce, msg.kind, msg.salt) ELSE msg.recipient
  IN IF nonce_exhausted(accs, msg) THEN accounts' = accs /\ UNCHANGED frames
     ELSE /\ accounts' = entered(prepared(accs, msg, to), msg, to)
          /\ open_frame(accs, msg, to)

(* Host::call: a light failure when the sender's nonce is exhausted, else  *)
(* the snapshot is taken of the prepared state and the frame opened.       *)
host_call(accs, msg) ==
  LET nonce == accs[msg.sender].nonce
      to == IF msg.kind \in Creates
            THEN compute_new_account_address(msg.sender, nonce, msg.kind, msg.salt) ELSE msg.recipient
      saved == prepared(accs, msg, to)
  IN IF nonce_exhausted(accs, msg) THEN accounts' = accs /\ UNCHANGED frames
     ELSE /\ accounts' = entered(saved, msg, to)
          /\ open_frame(saved, msg, to)

------------------------------------------------------------------------------
(* The beginning of transition().                                          *)

(* Somebody was charged more than there was.                               *)
overdrawn == \E a \in Address : accounts[a].balance < 0

Between == frames = <<>> /\ block = "open" /\ ~overdrawn /\ txs < MaxTransactions

RejectTransaction(t) ==
  /\ Between
  /\ ~valid_transaction(accounts[t.sender], t)
  /\ receipt' = [status |-> validation_error(accounts[t.sender], t), gas_used |-> 0, logs |-> <<>>]
  /\ tx' = t
  /\ start' = World(accounts)
  /\ UNCHANGED <<accounts, logs, frames, block, txs, ops, emitted, failed, supply>>

build_message(t) ==
  [kind |-> IF is_create(t) THEN "CREATE" ELSE "CALL", sender |-> t.sender, recipient |-> t.to,
   code_address |-> t.to, value |-> t.value, static_mode |-> FALSE, salt |-> 0,
   gas |-> t.gas_limit - compute_tx_intrinsic_cost(t)]

(* The addresses warm from the start; the sender's account exists.         *)
warm_addresses(t) ==
  {coinbase, t.sender} \cup (IF is_create(t) THEN {} ELSE {t.to})
    \cup {t.access_list[i].addr : i \in DOMAIN t.access_list}

(* The sender pays the maximal cost and addresses are warmed.              *)
charged(accs, t) ==
  LET paid == [accs EXCEPT ![t.sender].balance = @ - tx_max_cost(t)]
  IN [a \in Address |-> IF a \in warm_addresses(t) THEN access_account(paid[a]) ELSE paid[a]]

StartTransaction(t) ==
  /\ Between
  /\ valid_transaction(accounts[t.sender], t)
  /\ is_create(t) => hashable(t.sender, accounts[t.sender].nonce, "CREATE", 0)
  /\ tx' = t
  /\ txs' = txs + 1
  /\ host_call(charged(accounts, t), build_message(t))
  /\ ops' = 0
  /\ start' = World(accounts)
  /\ emitted' = <<>>
  /\ failed' = {}
  /\ UNCHANGED <<logs, receipt, block, supply>>

------------------------------------------------------------------------------
(* Operations of the running code.                                         *)

Running ==
  /\ frames # <<>>
  /\ top.runs = "code"
  /\ ops < MaxOps
  /\ ops' = ops + 1
  /\ UNCHANGED <<tx, receipt, block, txs, start, supply, failed>>

(* The execution ends with an exception.                                   *)
Fail == frames' = [frames EXCEPT ![depth].runs = "failed"]

(* A "light" failure: the instruction pushes 0 and execution goes on.      *)
GoOn == UNCHANGED frames

(* Mutant: only STATICCALL itself is static.                               *)
mode_of_op(op) == op = "STATICCALL"

(* The flags of a message: STATICCALL sets static mode, other calls keep   *)
(* the mode of the frame.                                                  *)
inherited_mode(op) == top.static_mode \/ op = "STATICCALL"

(* The message of a call.                                                  *)
call_message(op, dst, value, gas) ==
  LET delegate == op = "DELEGATECALL"
  IN [kind |-> IF delegate THEN "DELEGATECALL" ELSE "CALL",
      sender |-> IF delegate THEN top.sender ELSE top.recipient,
      recipient |-> IF delegate THEN top.recipient ELSE dst,
      code_address |-> dst,
      value |-> IF delegate THEN top.value ELSE value,
      static_mode |-> inherited_mode(op),
      salt |-> 0, gas |-> gas]

(* call_impl(): dst is warmed in any case; then static mode, the depth and *)
(* the balance are checked.                                                *)
call_impl(op, dst, value, gas) ==
  /\ Running
  /\ op # "CALL" => value = 0
  /\ LET accs == [accounts EXCEPT ![dst] = access_account(@)]
     IN IF value # 0 /\ top.static_mode THEN accounts' = accs /\ Fail
        ELSE IF depth - 1 >= CallDepthLimit \/ accs[top.recipient].balance < value
        THEN accounts' = accs /\ GoOn
        ELSE host_call(accs, call_message(op, dst, value, gas))
  /\ UNCHANGED <<logs, emitted>>

(* create_impl(): static mode, the depth and the balance are checked.      *)
create_impl(op, endowment, salt, gas) ==
  /\ Running
  /\ hashable(top.recipient, accounts[top.recipient].nonce, op, salt)
  /\ LET msg == [kind |-> op, sender |-> top.recipient, recipient |-> NoAddress,
                 code_address |-> NoAddress, value |-> endowment, static_mode |-> FALSE,
                 salt |-> salt, gas |-> gas]
     IN IF top.static_mode THEN Fail /\ UNCHANGED accounts
        ELSE IF depth - 1 >= CallDepthLimit \/ accounts[top.recipient].balance < endowment
        THEN GoOn /\ UNCHANGED accounts
        ELSE host_call(accounts, msg)
  /\ UNCHANGED <<logs, emitted>>

(* SSTORE on the recipient's account.                                      *)
set_storage(value) ==
  /\ Running
  /\ IF top.static_mode THEN Fail /\ UNCHANGED accounts
     ELSE accounts' = [accounts EXCEPT ![top.recipient].storage = value] /\ GoOn
  /\ UNCHANGED <<logs, emitted>>

(* LOG0 .. LOG4; an entry carries the messages it was emitted under.       *)
emit_log ==
  /\ Running
  /\ LET log == [addr |-> top.recipient, under |-> {frames[k].id : k \in 1 .. depth}]
     IN IF top.static_mode THEN Fail /\ UNCHANGED <<logs, emitted>>
        ELSE logs' = Append(logs, log) /\ emitted' = Append(emitted, log) /\ GoOn
  /\ UNCHANGED accounts

(* BALANCE and the EXTCODE instructions.                                   *)
look_at(a) ==
  /\ Running
  /\ accounts' = [accounts EXCEPT ![a] = access_account(@)]
  /\ GoOn
  /\ UNCHANGED <<logs, emitted>>

------------------------------------------------------------------------------
(* The end of a message.                                                   *)

Failure == [status |-> "FAILURE", gas_left |-> 0, gas_refund |-> 0, output |-> EmptyCode]

(* What can be left of the gas of frame f.                                 *)
gas_left_of(f) == {0} \cup {g \in {f.gas - s : s \in Spent} : g >= 0}

(* The refunds an execution can end with.  A storage slot's original value *)
(* is kept for the whole block: only the first transaction is sure to add  *)
(* a refund before it takes it back (StorageSlot, RefundNeverOverdrawn).   *)
gas_refunds == {r \in Refunds : txs = 1 => r >= 0}

(* The results the execution of frame f can have; gas comes back after     *)
(* SUCCESS and REVERT only, a refund after SUCCESS only, code from init    *)
(* code only.                                                              *)
vm_results(f) ==
  LET succeeded == [status : {"SUCCESS"}, gas_left : gas_left_of(f), gas_refund : gas_refunds,
                    output : IF f.kind \in Creates THEN Codes ELSE {EmptyCode}]
      reverted == [status : {"REVERT"}, gas_left : gas_left_of(f), gas_refund : {0}, output : {EmptyCode}]
  IN CASE f.runs = "failed" -> {Failure}
       [] f.runs = "nothing" -> {r \in succeeded : r.gas_left = f.gas /\ r.gas_refund = 0}
       [] f.runs = "precompile" -> {Failure} \cup {r \in succeeded : r.gas_refund = 0}
       [] OTHER -> {Failure} \cup succeeded \cup reverted

(* What create() makes of the init code's result.                          *)
checked_result(f, r) ==
  LET gas_left == r.gas_left - code_deposit_cost * r.output.size
  IN IF f.kind \notin Creates \/ r.status # "SUCCESS" THEN r
     ELSE IF r.output.size > max_code_size \/ gas_left < 0 THEN Failure
     ELSE IF r.output.ef THEN [Failure EXCEPT !.status = "CONTRACT_VALIDATION_FAILURE"]
     ELSE [r EXCEPT !.gas_left = gas_left]

(* Mutant: the accounts as the transaction found them come back.           *)
restored_outermost(f) == frames[1].snapshot

(* The rest of Host::call after a failure: the snapshot comes back, but    *)
(* not the touch of Z03.                                                   *)
restored(f) ==
  IF accounts[addr_03].exists /\ accounts[addr_03].erasable
  THEN [f.snapshot EXCEPT ![addr_03] = touch(@)] ELSE f.snapshot

(* The accounts after message f ended with result r.                       *)
accounts_after(f, r) ==
  IF r.status # "SUCCESS" THEN restored(f)
  ELSE IF f.kind \in Creates THEN [accounts EXCEPT ![f.recipient].code = r.output]
  ELSE accounts

(* Mutant: logs stay.                                                      *)
logs_kept(f, r) == logs

logs_after(f, r) == IF r.status = "SUCCESS" THEN logs ELSE SubSeq(logs, 1, f.logs_snapshot)

failed_after(f, r) == IF r.status = "SUCCESS" THEN failed ELSE failed \cup {f.id}

(* Host::call returns into the frame below.                                *)
return_to_caller(vm_result) ==
  /\ depth > 1
  /\ LET r == checked_result(top, vm_result)
     IN /\ accounts' = accounts_after(top, r)
        /\ logs' = logs_after(top, r)
        /\ failed' = failed_after(top, r)
  /\ frames' = SubSeq(frames, 1, depth - 1)
  /\ UNCHANGED <<tx, receipt, block, txs, ops, emitted, start, supply>>

gas_used_by(r) ==
  LET used == tx.gas_limit - r.gas_left
  IN used - min(r.gas_refund, used \div 5)

(* The sender gets back what was not used, or pays what was used beyond    *)
(* the limit; the coinbase gets its part.                                  *)
settled(accs, gas_used) ==
  LET refunded == [accs EXCEPT ![tx.sender].balance =
                     @ + (tx_max_cost(tx) - gas_used * effective_gas_price(tx))]
      touched == [refunded EXCEPT ![coinbase] = touch(@)]
  IN [touched EXCEPT ![coinbase].balance = @ + gas_used * priority_gas_price(tx)]

(* The end of transition().  No account is ever marked as destructed.      *)
EndTransaction(vm_result) ==
  /\ depth = 1
  /\ LET r == checked_result(top, vm_result)
         gas_used == gas_used_by(r)
     IN /\ accounts' = settled(accounts_after(top, r), gas_used)
        /\ receipt' = [status |-> r.status, gas_used |-> gas_used, logs |-> logs_after(top, r)]
        /\ failed' = failed_after(top, r)
        /\ supply' = supply - gas_used * base_fee
  /\ frames' = <<>>
  /\ logs' = <<>>
  /\ UNCHANGED <<tx, block, txs, ops, emitted, start>>

(* finalize(): erases empty touched accounts, then pays the withdrawals.   *)
erased(accs) == [a \in Address |-> IF accs[a].erasable /\ is_empty(accs[a]) THEN NoAccount ELSE accs[a]]

amounts(withdrawals, a) ==
  MapThenFoldSet(+, 0, LAMBDA i : get_amount(withdrawals[i]), LAMBDA s : CHOOSE i \in s : TRUE,
                 {i \in DOMAIN withdrawals : withdrawals[i].recipient = a})

recipients(withdrawals) == {withdrawals[i].recipient : i \in DOMAIN withdrawals}

withdrawn(accs, withdrawals) ==
  [a \in Address |-> IF a \in recipients(withdrawals)
                     THEN [touch(accs[a]) EXCEPT !.balance = @ + amounts(withdrawals, a)] ELSE accs[a]]

Finalize(withdrawals) ==
  /\ frames = <<>> /\ ~overdrawn
  /\ block = "open"
  /\ block' = "final"
  /\ accounts' = withdrawn(erased(accounts), withdrawals)
  /\ start' = World(accounts)
  /\ supply' = supply + MapThenFoldSet(+, 0, LAMBDA a : amounts(withdrawals, a),
                                       LAMBDA s : CHOOSE a \in s : TRUE, recipients(withdrawals))
  /\ UNCHANGED <<logs, frames, tx, receipt, txs, ops, emitted, failed>>

Next ==
  \/ \E t \in Transactions : RejectTransaction(t) \/ StartTransaction(t)
  \/ \E op \in {"CALL", "STATICCALL", "DELEGATECALL"}, dst \in Targets, value \in Values, gas \in CallGas :
       call_impl(op, dst, value, gas)
  \/ \E op \in Creates, endowment \in Values, salt \in Salt, gas \in CallGas :
       create_impl(op, endowment, salt, gas)
  \/ \E value \in {0, 1} : set_storage(value)
  \/ emit_log
  \/ \E a \in Targets : look_at(a)
  \/ \E r \in (IF frames = <<>> THEN {} ELSE vm_results(top)) : return_to_caller(r) \/ EndTransaction(r)
  \/ \E w \in Withdrawals : Finalize(w)

Spec == Init /\ [][Next]_vars

------------------------------------------------------------------------------
(* Properties.                                                             *)

Frame ==
  [kind : {"CALL", "DELEGATECALL"} \cup Creates, sender : Address, recipient : Address, value : Nat,
   static_mode : BOOLEAN, gas : Nat, runs : {"code", "nothing", "precompile", "failed"},
   snapshot : [Address -> Account], logs_snapshot : Nat, id : Nat]

LogEntry == [addr : Address, under : SUBSET Nat]

(* State::get() is called on the senders and recipients of open messages,  *)
(* after the map was replaced by a snapshot too: the accounts are there.   *)
AccountsInUseExist ==
  \A k \in 1 .. depth :
    /\ accounts[frames[k].sender].exists
    /\ frames[k].runs # "failed" => accounts[frames[k].recipient].exists
    /\ accounts[tx.sender].exists

(* Types; nonces stay in 64 bits, an address outside the map has no data,  *)
(* only the innermost frame runs, and the accounts of open messages exist. *)
TypeOK ==
  /\ accounts \in [Address -> Account]
  /\ \A a \in Address : ~accounts[a].exists => accounts[a] = NoAccount
  /\ logs \in Seq(LogEntry) /\ emitted \in Seq(LogEntry)
  /\ frames \in Seq(Frame)
  /\ \A k \in 1 .. depth - 1 : frames[k].runs = "code"
  /\ depth <= CallDepthLimit + 1
  /\ tx \in Transactions
  /\ block \in {"open", "final"}
  /\ txs \in 0 .. MaxTransactions /\ ops \in 0 .. MaxOps
  /\ AccountsInUseExist

(* The assertions "ZVM must guarantee balance" of create() and its like in *)
(* execute_message(), and the subtractions in transition(): after the      *)
(* prepayment, in any frame and with the same account on both sides of a   *)
(* transfer, no balance is ever overdrawn.  The one way to overdraw one is *)
(* a negative refund: the sender's, at the end of a transaction that is    *)
(* not the first of its block, and then by no more than the gas charged    *)
(* beyond the limit.                                                       *)
BalancesCovered ==
  \A a \in Address :
    \/ accounts[a].balance >= 0
    \/ /\ frames = <<>> /\ a = tx.sender /\ txs > 1
       /\ accounts[a].balance >= (tx.gas_limit - receipt.gas_used) * effective_gas_price(tx)

Prepaid == IF frames = <<>> THEN 0 ELSE tx_max_cost(tx)

(* No value appears or is lost: the balances and what the sender has paid  *)
(* in advance add up to the supply, through transfers, endowments, nested  *)
(* failures, refunds and fees; only base fees leave it and withdrawals     *)
(* enter it.                                                               *)
ValueConserved == TotalBalance(accounts) + Prepaid = supply

(* The address of a contract under construction is taken: however its init *)
(* code comes back to the creator, the same address is never entered a     *)
(* second time (create() sets the nonce before the init code runs).        *)
OneCreationPerAddress ==
  \A j, k \in 1 .. depth :
    /\ j < k
    /\ frames[j].kind \in Creates /\ frames[k].kind \in Creates
    /\ frames[k].runs # "failed"
    => frames[j].recipient # frames[k].recipient

(* A contract never gets another code: what had code when a frame was      *)
(* opened has the same code as long as the frame is open, whatever is      *)
(* created, destroyed by a failure or created again meanwhile.             *)
CodeNeverReplaced ==
  \A k \in 1 .. depth, a \in Address :
    frames[k].snapshot[a].code # EmptyCode => accounts[a].code = frames[k].snapshot[a].code

(* A static message changes nothing of the world, itself or through any    *)
(* message below it, and emits no log.                                     *)
StaticMessagesChangeNothing ==
  \A k \in 1 .. depth :
    frames[k].static_mode =>
      World(accounts) = World(frames[k].snapshot) /\ Len(logs) = frames[k].logs_snapshot

(* The receipt has the logs emitted under messages none of which failed,   *)
(* in the order they were emitted, and no other.                           *)
ReceiptHasLogsOfSurvivors ==
  [][(frames # <<>> /\ frames' = <<>>) =>
       receipt'.logs = SelectSeq(emitted, LAMBDA l : l.under \cap failed' = {})]_vars

(* What a failure leaves: "the touch on this address is never reverted",   *)
(* so that Z03, once touched, stays so until the block is finalized; and   *)
(* "any state modification is not reverted" of prepare_message(), so that  *)
(* after a creation, failed or not, its address is warm, and its creator   *)
(* has used up a nonce for it and for each of its creations still open.    *)
Touched03 == accounts[addr_03].exists /\ accounts[addr_03].erasable
OpenCreations(a) == {k \in 1 .. depth : frames[k].kind \in Creates /\ frames[k].sender = a}
ExemptEffectsSurvive ==
  [][/\ Touched03 /\ block' = "open" => Touched03'
     /\ depth > 1 /\ frames' = SubSeq(frames, 1, depth - 1) /\ top.kind \in Creates =>
          /\ accounts'[top.recipient].access_status = "WARM"
          /\ accounts'[top.sender].nonce >=
               start[top.sender].nonce + Cardinality(OpenCreations(top.sender))]_vars

(* Transactions are atomic: seen between transactions, the host implements *)
(* Ledger.                                                                 *)
L == INSTANCE Ledger WITH
       world <- IF frames = <<>> THEN World(accounts) ELSE start,
       executed <- IF frames = <<>> THEN txs ELSE txs - 1
TransactionsAreAtomic == L!Spec
==============================================================================
