--------------------------- MODULE MCStorageSlot ----------------------------
(* Three values, so that a slot can be changed twice without being         *)
(* restored, and gas for several writes, for none and for a partial one.   *)
EXTENDS StorageSlot
=============================================================================
