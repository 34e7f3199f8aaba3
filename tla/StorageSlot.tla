----------------------------- MODULE StorageSlot -----------------------------
(***************************************************************************)
(* One storage slot through nested call frames and through the             *)
(* transactions of a block: SLOAD and SSTORE (instructions_storage.cpp) on *)
(* the slot the host keeps (StorageValue, Host::set_storage,               *)
(* Host::access_storage), the frames Host::call opens, with the state it   *)
(* copies before and restores after a failure, the gas and refund that     *)
(* call_impl() hands back to the caller, and the gas transition() finally  *)
(* charges.  All frames run on the account that owns the slot (a           *)
(* DELEGATECALL, or a call that comes back).                               *)
(***************************************************************************)
EXTENDS StorageCosts, Sequences

CONSTANTS
  Values,           \* the values written, 0 among them
  GasLimits,        \* the execution gas limits of transactions
  CallGas,          \* the gas operands of calls
  MaxDepth,         \* bound: frames open at a time
  MaxOps,           \* bound: loads, stores and calls of a transaction
  MaxTransactions   \* bound: transactions of the block

ASSUME ValuesAssumption == Values \subseteq Nat /\ 0 \in Values
ASSUME GasLimitsAssumption == GasLimits \subseteq Nat
ASSUME CallGasAssumption == CallGas \subseteq Nat
ASSUME MaxDepthAssumption == MaxDepth \in Nat \ {0}
ASSUME MaxOpsAssumption == MaxOps \in Nat
ASSUME MaxTransactionsAssumption == MaxTransactions \in Nat

VARIABLES
  slot,      \* the StorageValue: current, original, access_status
  frames,    \* the open call frames, outermost first; empty between transactions
  tx_gas,    \* the execution gas limit of the transaction
  tx_listed, \* whether its access list has the slot
  gas_used,  \* of the last transaction's receipt, 0 before the first
  txs,       \* how many transactions have started
  ops        \* loads, stores and calls of the transaction so far

vars == <<slot, frames, tx_gas, tx_listed, gas_used, txs, ops>>

(* A call frame: the state Host::call saved, the ExecutionState's gas and  *)
(* refund, the mode, and how it ended.  msg_gas is the gas of the message  *)
(* a suspended frame has sent.  The fields spent and outer_refund are      *)
(* history: the gas SSTOREs were charged above warm_access, cold access    *)
(* apart, by this frame and the ones around it, and the refund of the      *)
(* frames around it.                                                       *)
Frame(saved, gas, static, spent, outer_refund) ==
  [snapshot |-> saved, gas_left |-> gas, gas_refund |-> 0, static_mode |-> static, msg_gas |-> 0,
   status |-> "RUNNING", spent |-> spent, outer_refund |-> outer_refund]

depth == Len(frames)
top == frames[depth]

(* The slot as it was loaded with the state before the block.              *)
Init ==
  /\ slot \in {[current |-> v, original |-> v, access_status |-> "COLD"] : v \in Values}
  /\ frames = <<>>
  /\ tx_gas = 0
  /\ tx_listed = FALSE
  /\ gas_used = 0
  /\ txs = 0
  /\ ops = 0

(* The beginning of transition(): the access list may warm the slot, and   *)
(* Host::call opens the first frame.                                       *)
StartTransaction(gas, listed) ==
  /\ frames = <<>>
  /\ txs < MaxTransactions
  /\ txs' = txs + 1
  /\ tx_gas' = gas
  /\ tx_listed' = listed
  /\ ops' = 0
  /\ slot' = [slot EXCEPT !.access_status = IF listed THEN "WARM" ELSE @]
  /\ frames' = <<Frame(slot', gas, FALSE, 0, 0)>>
  /\ UNCHANGED gas_used

------------------------------------------------------------------------------
(* Steps of the running frame.                                             *)

Running == frames # <<>> /\ top.status = "RUNNING"
CountOp == ops < MaxOps /\ ops' = ops + 1

(* The running frame becomes f.                                            *)
Update(f) == frames' = [frames EXCEPT ![depth] = f] /\ UNCHANGED <<tx_gas, tx_listed, gas_used, txs>>

(* The interpreter's loop ends.                                            *)
Exit(code, gas) == Update([top EXCEPT !.status = code, !.gas_left = gas])

cold_cost(cost) == IF slot.access_status = "COLD" THEN cost ELSE 0

(* SLOAD: the warm cost is the base cost, cold access costs the rest.      *)
sload ==
  /\ Running
  /\ CountOp
  /\ LET base == top.gas_left - gas_costs[OP_SLOAD]
         left == base - cold_cost(cold_sload_cost - warm_storage_read_cost)
     IN /\ slot' = IF base < 0 THEN slot ELSE [slot EXCEPT !.access_status = "WARM"]
        /\ IF left < 0 THEN Exit("OUT_OF_GAS", left)
           ELSE Update([top EXCEPT !.gas_left = left])

(* SSTORE: static mode, then the stipend, then access and write, and only  *)
(* then the charge.                                                        *)
sstore(value) ==
  /\ Running
  /\ CountOp
  /\ IF top.static_mode THEN Exit("STATIC_MODE_VIOLATION", top.gas_left) /\ UNCHANGED slot
     ELSE IF top.gas_left <= sstore_stipend THEN Exit("OUT_OF_GAS", top.gas_left) /\ UNCHANGED slot
     ELSE LET st == storage_status(slot.current, slot.original, value)
              left == top.gas_left - (sstore_gas_cost(st) + cold_cost(cold_sload_cost))
          IN /\ slot' = [slot EXCEPT !.current = value, !.access_status = "WARM"]
             /\ IF left < 0 THEN Exit("OUT_OF_GAS", left)
                ELSE Update([top EXCEPT !.gas_left = left,
                                        !.gas_refund = @ + sstore_gas_refund(st),
                                        !.spent = @ + (sstore_gas_cost(st) - warm_access)])

(* STOP or RETURN, and REVERT.                                             *)
Finish(code) == Running /\ code \in {SUCCESS, REVERT} /\ Exit(code, top.gas_left) /\ UNCHANGED <<slot, ops>>

min(a, b) == IF a <= b THEN a ELSE b

(* The running frame sends a message and waits for the frame it opens.     *)
OpenFrame(gas_left, msg_gas, static) ==
  /\ frames' = Append([frames EXCEPT ![depth] = [top EXCEPT !.gas_left = gas_left, !.msg_gas = msg_gas]],
                      Frame(slot, msg_gas, static, top.spent, top.outer_refund + top.gas_refund))
  /\ UNCHANGED <<tx_gas, tx_listed, gas_used, txs>>

(* Mutant: a plain call out of a static frame is not static.               *)
call_loses_mode(gas, static) ==
  /\ Running
  /\ CountOp
  /\ depth < MaxDepth
  /\ LET left == top.gas_left - gas_costs[OP_DELEGATECALL]
         msg_gas == min(gas, left - left \div 64)
     IN IF left < 0 THEN Exit("OUT_OF_GAS", left) ELSE OpenFrame(left, msg_gas, static)
  /\ UNCHANGED slot

(* Mutant: the operand is passed on as it is.                              *)
call_uncapped(gas, static) ==
  /\ Running
  /\ CountOp
  /\ depth < MaxDepth
  /\ LET left == top.gas_left - gas_costs[OP_DELEGATECALL] IN
       IF left < 0 THEN Exit("OUT_OF_GAS", left) ELSE OpenFrame(left, gas, static \/ top.static_mode)
  /\ UNCHANGED slot

(* call_impl() without value, on a warm account: all but a 64th of the gas *)
(* may be passed on.  Host::call saves the state.                          *)
call(gas, static) ==
  /\ Running
  /\ CountOp
  /\ depth < MaxDepth
  /\ LET left == top.gas_left - gas_costs[OP_DELEGATECALL]
         msg_gas == min(gas, left - left \div 64)
     IN IF left < 0 THEN Exit("OUT_OF_GAS", left)
        ELSE OpenFrame(left, msg_gas, static \/ top.static_mode)
  /\ UNCHANGED slot

------------------------------------------------------------------------------
(* The end of a frame.                                                     *)

Ended == frames # <<>> /\ top.status # "RUNNING"

(* What execute() puts into the result.                                    *)
result_gas_left == IF top.status \in {SUCCESS, REVERT} THEN top.gas_left ELSE 0
result_gas_refund == IF top.status = SUCCESS THEN top.gas_refund ELSE 0

(* Mutant: the state is not restored.                                      *)
Kept == slot

(* The rest of Host::call: a frame that did not succeed is undone.         *)
Restored == IF top.status = SUCCESS THEN slot ELSE top.snapshot

(* Back in call_impl() of the frame below.                                 *)
return_to_caller ==
  /\ Ended
  /\ depth > 1
  /\ slot' = Restored
  /\ LET caller == frames[depth - 1] IN
       frames' = Append(SubSeq(frames, 1, depth - 2),
         [caller EXCEPT !.gas_left = @ - (caller.msg_gas - result_gas_left),
                        !.gas_refund = @ + result_gas_refund,
                        !.msg_gas = 0,
                        !.spent = IF top.status = SUCCESS THEN top.spent ELSE @])
  /\ UNCHANGED <<tx_gas, tx_listed, gas_used, txs, ops>>

(* The intrinsic cost of a call without data: an entry of the access list  *)
(* is paid for per address and per key.                                    *)
storage_key_cost == 1900
address_cost == 2400
tx_cost == 21000 + (IF tx_listed THEN address_cost + storage_key_cost ELSE 0)
max_refund_quotient == 5

(* The end of transition(): refund and receipt.                            *)
EndTransaction ==
  /\ Ended
  /\ depth = 1
  /\ slot' = Restored
  /\ frames' = <<>>
  /\ LET used == tx_gas + tx_cost - result_gas_left
     IN gas_used' = used - min(result_gas_refund, used \div max_refund_quotient)
  /\ UNCHANGED <<tx_gas, tx_listed, txs, ops>>

Next ==
  \/ \E gas \in GasLimits, listed \in BOOLEAN : StartTransaction(gas, listed)
  \/ sload
  \/ \E value \in Values : sstore(value)
  \/ \E code \in {SUCCESS, REVERT} : Finish(code)
  \/ \E gas \in CallGas, static \in BOOLEAN : call(gas, static)
  \/ return_to_caller
  \/ EndTransaction

Spec == Init /\ [][Next]_vars

------------------------------------------------------------------------------
(* Properties.                                                             *)

Slots == [current : Values, original : Values, access_status : {"COLD", "WARM"}]
FrameStatus == {"RUNNING", SUCCESS, REVERT, "OUT_OF_GAS", "STATIC_MODE_VIOLATION"}

FrameSet ==
  [snapshot : Slots, gas_left : Int, gas_refund : Int, static_mode : BOOLEAN, msg_gas : Nat,
   status : FrameStatus, spent : Nat, outer_refund : Int]

(* Types; a frame has gas to go on with as long as it has not failed.      *)
TypeOK ==
  /\ slot \in Slots
  /\ frames \in Seq(FrameSet)
  /\ depth <= MaxDepth
  /\ \A k \in 1 .. depth : frames[k].status \in {"RUNNING", SUCCESS, REVERT} => frames[k].gas_left >= 0
  /\ \A k \in 1 .. depth - 1 : frames[k].status = "RUNNING"
  /\ tx_gas \in Nat
  /\ tx_listed \in BOOLEAN
  /\ gas_used \in Int
  /\ txs \in 0 .. MaxTransactions
  /\ ops \in 0 .. MaxOps

(* The slot as frame k leaves it to the frame it has called, or has now.   *)
SlotAfter(k) == IF k < depth THEN frames[k + 1].snapshot ELSE slot

(* What a slot has cost beyond warm accesses, by where it started and      *)
(* where it is: nothing when restored, the price of the one change it      *)
(* amounts to otherwise.                                                   *)
NetCost(s) ==
  CASE s.current = s.original -> 0
    [] s.current # s.original /\ s.original = 0 -> set - warm_access
    [] s.current # s.original /\ s.original # 0 /\ s.current = 0 -> reset - warm_access - clear
    [] OTHER -> reset - warm_access

(* However many writes a transaction makes, in whatever order and in       *)
(* whatever frames, failed ones among them, what it pays net of refunds    *)
(* depends only on the value the slot had and the value it has: the nine   *)
(* statuses and their refunds telescope across calls and reverts.          *)
NetCostDependsOnlyOnEnds ==
  \A k \in 1 .. depth :
    frames[k].status \in {"RUNNING", SUCCESS} =>
      frames[k].spent - (frames[k].outer_refund + frames[k].gas_refund)
        = NetCost(SlotAfter(k)) - NetCost(frames[1].snapshot)

(* In a transaction that finds the slot as the block left it, the refunds  *)
(* of all open frames together are never negative, although one frame's    *)
(* may be: it takes back no more than was given.                           *)
RefundNeverOverdrawn ==
  \A k \in 1 .. depth :
    frames[k].status \in {"RUNNING", SUCCESS}
      /\ frames[1].snapshot.current = frames[1].snapshot.original
      => frames[k].outer_refund + frames[k].gas_refund >= 0

(* The receipt charges some gas, as transition() asserts, and no more than *)
(* the transaction's limit, which it relies on when it gives the sender    *)
(* the rest back.                                                          *)
GasUsedWithinLimit == frames = <<>> /\ txs > 0 => gas_used \in 1 .. (tx_gas + tx_cost)

(* A call never makes its caller richer: when a frame is back, the caller  *)
(* has no more gas than before the call.                                   *)
CalleeReturnsNoExtraGas ==
  \A k \in 1 .. depth - 1 :
    /\ frames[k].msg_gas <= frames[k].gas_left
    /\ frames[k + 1].status \in {"RUNNING", SUCCESS, REVERT} =>
         frames[k + 1].gas_left <= frames[k].msg_gas

(* A frame in static mode changes nothing, neither itself nor through the  *)
(* frames it calls.                                                        *)
StaticFrameWritesNothing ==
  \A k \in 1 .. depth : frames[k].static_mode => slot.current = frames[k].snapshot.current
==============================================================================
