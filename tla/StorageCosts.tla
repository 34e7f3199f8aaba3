---------------------------- MODULE StorageCosts -----------------------------
(***************************************************************************)
(* The rules that price a storage write: the status Host::set_storage      *)
(* computes from the original, the current and the new value of a slot     *)
(* (test/state/host.cpp), and the gas cost and refund the instruction      *)
(* implementation attaches to each status (instructions_storage.cpp).      *)
(* Values are numbers; only equality and being zero matter.                *)
(***************************************************************************)
EXTENDS Opcodes

(* storage_cost_spec[ZVMC_SHANGHAI].                                       *)
warm_access == warm_storage_read_cost
set == 20000
reset == 5000 - cold_sload_cost
clear == 4800

(* The status set_storage() returns; slot is [current, original].          *)
storage_status(current, original, value) ==
  LET dirty == original # current
      restored == original = value
  IN CASE ~dirty /\ ~restored /\ current = 0 -> "ADDED"
       [] ~dirty /\ ~restored /\ current # 0 /\ value = 0 -> "DELETED"
       [] ~dirty /\ ~restored /\ current # 0 /\ value # 0 -> "MODIFIED"
       [] dirty /\ ~restored /\ current = 0 /\ value # 0 -> "DELETED_ADDED"
       [] dirty /\ ~restored /\ current # 0 /\ value = 0 -> "MODIFIED_DELETED"
       [] dirty /\ restored /\ current = 0 -> "DELETED_RESTORED"
       [] dirty /\ restored /\ current # 0 /\ value = 0 -> "ADDED_DELETED"
       [] dirty /\ restored /\ current # 0 /\ value # 0 -> "MODIFIED_RESTORED"
       [] OTHER -> "ASSIGNED"

(* sstore_costs: StorageStoreCost::gas_cost.                               *)
sstore_gas_cost(st) ==
  CASE st = "ADDED" -> set
    [] st \in {"DELETED", "MODIFIED"} -> reset
    [] OTHER -> warm_access

(* Mutant: deleting a slot that was modified before is not rewarded,       *)
(* adding it again takes the reward back.                                  *)
sstore_gas_refund_unrewarded(st) ==
  CASE st = "DELETED" -> clear
    [] st = "DELETED_ADDED" -> 0 - clear
    [] st = "DELETED_RESTORED" -> reset - warm_access - clear
    [] st = "ADDED_DELETED" -> set - warm_access
    [] st = "MODIFIED_RESTORED" -> reset - warm_access
    [] OTHER -> 0

(* sstore_costs: StorageStoreCost::gas_refund.                             *)
sstore_gas_refund(st) ==
  CASE st = "DELETED" -> clear
    [] st = "DELETED_ADDED" -> 0 - clear
    [] st = "MODIFIED_DELETED" -> clear
    [] st = "DELETED_RESTORED" -> reset - warm_access - clear
    [] st = "ADDED_DELETED" -> set - warm_access
    [] st = "MODIFIED_RESTORED" -> reset - warm_access
    [] OTHER -> 0

(* The gas an SSTORE must leave unspent before it starts.                  *)
sstore_stipend == 2300
==============================================================================
