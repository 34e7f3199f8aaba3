-------------------------- MODULE StorageSlotProofs --------------------------
(***************************************************************************)
(* Proofs about module StorageSlot, for every set of values, gas limits    *)
(* and call gas, for any depth of calls and any number of operations and   *)
(* transactions.                                                           *)
(***************************************************************************)
EXTENDS StorageSlot, TLAPS

------------------------------------------------------------------------------
(* The price table.                                                        *)

(* The statuses as seen by the costs: where the slot was, where it goes.   *)
LEMMA StatusPrices ==
  ASSUME NEW c \in Nat, NEW o \in Nat, NEW v \in Nat
  PROVE  LET st == storage_status(c, o, v)
             price == sstore_gas_cost(st) - warm_access
             refund == sstore_gas_refund(st)
         IN /\ price \in Nat
            /\ refund \in Int
            /\ sstore_gas_cost(st) \in Nat
            /\ c = o /\ v # o => price = IF o = 0 THEN set - warm_access ELSE reset - warm_access
            /\ ~(c = o /\ v # o) => price = 0
  BY SMTT(60) DEF storage_status, sstore_gas_cost, sstore_gas_refund, warm_access, set, reset, clear,
         warm_storage_read_cost, cold_sload_cost

(* One write: its price less its refund is the difference of the net       *)
(* costs before and after.                                                 *)
LEMMA WriteTelescopes ==
  ASSUME NEW s \in Slots, NEW t \in Slots, t.original = s.original
  PROVE  LET st == storage_status(s.current, s.original, t.current)
         IN (sstore_gas_cost(st) - warm_access) - sstore_gas_refund(st) = NetCost(t) - NetCost(s)
  <1>1. s.current \in Nat /\ s.original \in Nat /\ t.current \in Nat
    BY ValuesAssumption DEF Slots
  <1> QED
    BY <1>1 DEF storage_status, sstore_gas_cost, sstore_gas_refund, NetCost, warm_access, set, reset, clear,
         warm_storage_read_cost, cold_sload_cost

(* Net costs are numbers.                                                  *)
LEMMA NetCostType ==
  ASSUME NEW s
  PROVE  NetCost(s) \in Int
  BY DEF NetCost, warm_access, set, reset, clear, warm_storage_read_cost, cold_sload_cost

(* The base costs of SLOAD and of a call.                                  *)
LEMMA BaseCosts == gas_costs[OP_SLOAD] \in Nat /\ gas_costs[OP_DELEGATECALL] \in Nat
  <1> USE DEF OP_SLOAD, OP_DELEGATECALL
  <1>1. OP_SLOAD \in Byte /\ OP_DELEGATECALL \in Byte
    BY DEF Byte
  <1>2. base_cost(OP_SLOAD) \in Nat
    BY DEF base_cost, warm_storage_read_cost, AnyLog, OP_LOG0, OP_LOG4
  <1>3. base_cost(OP_DELEGATECALL) \in Nat
    BY DEF base_cost, warm_storage_read_cost, AnyLog, OP_LOG0, OP_LOG4, AnyCall
  <1> QED
    BY <1>1, <1>2, <1>3 DEF gas_costs

------------------------------------------------------------------------------
(* The inductive invariant.                                                *)

Live(f) == f.status \in {"RUNNING", SUCCESS}

Clean(s) == s.current = s.original

(* The one-time price of making a slot differ from its original value.     *)
ChangePrice(s) ==
  IF Clean(s) THEN 0 ELSE IF s.original = 0 THEN set - warm_access ELSE reset - warm_access

(* A slot that differs from its original value has been paid for in full   *)
(* by the frames that are open, if the transaction found it clean.  This   *)
(* is what bounds a refund that is taken back.                             *)
ChangeIsPaid ==
  \A k \in 1 .. depth :
    Live(frames[k]) /\ Clean(frames[1].snapshot) => frames[k].spent >= ChangePrice(SlotAfter(k))

(* A frame knows the refund of the frames around it.                       *)
RefundsLinked ==
  \A k \in 1 .. depth - 1 :
    frames[k + 1].outer_refund = frames[k].outer_refund + frames[k].gas_refund

(* The frames inside a static frame are static.                            *)
StaticInherited ==
  \A j, k \in 1 .. depth : j <= k /\ frames[j].static_mode => frames[k].static_mode

(* The first frame has the gas of the transaction, and no frame around it. *)
FirstFrame ==
  frames # <<>> =>
    /\ frames[1].outer_refund = 0
    /\ frames[1].status \in {"RUNNING", SUCCESS, REVERT} => frames[1].gas_left <= tx_gas

IInv ==
  /\ TypeOK
  /\ NetCostDependsOnlyOnEnds
  /\ ChangeIsPaid
  /\ RefundsLinked
  /\ CalleeReturnsNoExtraGas
  /\ StaticInherited
  /\ StaticFrameWritesNothing
  /\ FirstFrame

(* A step inside a transaction keeps the state the transaction began with. *)
SameStart ==
  /\ frames # <<>> /\ frames' # <<>>
  /\ frames'[1].snapshot = frames[1].snapshot
  /\ UNCHANGED <<tx_gas, tx_listed, gas_used, txs>>

(* The frames are records of their type, the last one is the top.          *)
LEMMA FrameTypes ==
  ASSUME TypeOK, frames # <<>>
  PROVE  /\ depth \in Nat \ {0}
         /\ top \in FrameSet
         /\ \A k \in 1 .. depth : frames[k] \in FrameSet
  BY DEF TypeOK, depth, top

(* The fields of a frame.                                                  *)
LEMMA FieldTypes ==
  ASSUME NEW f \in FrameSet
  PROVE  /\ f.snapshot \in Slots
         /\ f.gas_left \in Int
         /\ f.gas_refund \in Int
         /\ f.static_mode \in BOOLEAN
         /\ f.msg_gas \in Nat
         /\ f.status \in FrameStatus
         /\ f.spent \in Nat
         /\ f.outer_refund \in Int
  BY DEF FrameSet

(* The updates the actions make to a frame.                                *)
LEMMA ExitUpdate ==
  ASSUME NEW f \in FrameSet, NEW st \in FrameStatus, NEW g \in Int
  PROVE  [f EXCEPT !.status = st, !.gas_left = g] \in FrameSet
  BY DEF FrameSet

(* SLOAD.                                                                  *)
LEMMA GasUpdate ==
  ASSUME NEW f \in FrameSet, NEW g \in Int
  PROVE  [f EXCEPT !.gas_left = g] \in FrameSet
  BY DEF FrameSet

(* SSTORE.                                                                 *)
LEMMA StoreUpdate ==
  ASSUME NEW f \in FrameSet, NEW g \in Int, NEW r \in Int, NEW p \in Nat
  PROVE  [f EXCEPT !.gas_left = g, !.gas_refund = r, !.spent = p] \in FrameSet
  BY DEF FrameSet

(* A call.                                                                 *)
LEMMA CallUpdate ==
  ASSUME NEW f \in FrameSet, NEW g \in Int, NEW m \in Nat
  PROVE  [f EXCEPT !.gas_left = g, !.msg_gas = m] \in FrameSet
  BY DEF FrameSet

(* The return from a call.                                                 *)
LEMMA ReturnUpdate ==
  ASSUME NEW f \in FrameSet, NEW g \in Int, NEW r \in Int, NEW m \in Nat, NEW p \in Nat
  PROVE  [f EXCEPT !.gas_left = g, !.gas_refund = r, !.msg_gas = m, !.spent = p] \in FrameSet
  BY DEF FrameSet

(* Two differences add up.                                                 *)
LEMMA DifferencesAdd ==
  ASSUME NEW s0 \in Int, NEW s1 \in Int, NEW r0 \in Int, NEW r1 \in Int, NEW o \in Int,
         NEW n0 \in Int, NEW n1 \in Int, NEW n \in Int,
         s0 - (o + r0) = n0 - n, (s1 - r1) - (s0 - r0) = n1 - n0
  PROVE  s1 - (o + r1) = n1 - n
  OBVIOUS

(* The running frame changes: its place in the stack, its mode and what    *)
(* was saved stay; price and refund follow the slot.                       *)
LEMMA UpdateStep ==
  ASSUME IInv, Running, NEW f \in FrameSet, Update(f),
         slot' \in Slots, ops' \in 0 .. MaxOps,
         f.snapshot = top.snapshot, f.outer_refund = top.outer_refund,
         f.static_mode = top.static_mode, f.gas_left <= top.gas_left,
         f.status \in {"RUNNING", SUCCESS, REVERT} => f.gas_left >= 0,
         Live(f) => (f.spent - f.gas_refund) - (top.spent - top.gas_refund) = NetCost(slot') - NetCost(slot),
         Live(f) /\ top.spent >= ChangePrice(slot) => f.spent >= ChangePrice(slot'),
         top.static_mode => slot'.current = slot.current
  PROVE  IInv' /\ SameStart
  <1>1. PICK d \in Nat \ {0} :
          /\ d = Len(frames) /\ top = frames[d] /\ top \in FrameSet /\ top.status = "RUNNING"
          /\ frames \in Seq(FrameSet) /\ \A k \in 1 .. d : frames[k] \in FrameSet
    BY FrameTypes DEF IInv, Running, depth, top, TypeOK
  <1>2. /\ frames' \in Seq(FrameSet) /\ Len(frames') = d /\ frames'[d] = f
        /\ \A k \in 1 .. d : k # d => frames'[k] = frames[k]
        /\ UNCHANGED <<tx_gas, tx_listed, gas_used, txs>>
    BY <1>1 DEF Update, depth
  <1>3. \A k \in 1 .. d : /\ frames'[k].snapshot = frames[k].snapshot
                          /\ frames'[k].outer_refund = frames[k].outer_refund
                          /\ frames'[k].static_mode = frames[k].static_mode
    BY <1>1, <1>2
  <1>4. TypeOK'
    BY <1>1, <1>2, SMTT(60) DEF IInv, TypeOK, depth
  <1>5. CalleeReturnsNoExtraGas'
    <2> SUFFICES ASSUME NEW k \in 1 .. d - 1
                 PROVE  /\ frames'[k].msg_gas <= frames'[k].gas_left
                        /\ frames'[k + 1].status \in {"RUNNING", SUCCESS, REVERT} =>
                             frames'[k + 1].gas_left <= frames'[k].msg_gas
      BY <1>2 DEF CalleeReturnsNoExtraGas, depth
    <2>1. /\ frames[k].msg_gas <= frames[k].gas_left
          /\ frames[k + 1].status \in {"RUNNING", SUCCESS, REVERT} => frames[k + 1].gas_left <= frames[k].msg_gas
      BY <1>1 DEF IInv, CalleeReturnsNoExtraGas, depth
    <2>2. k \in 1 .. d /\ k # d /\ k + 1 \in 1 .. d
      BY <1>1
    <2>3. frames'[k] = frames[k]
      BY <1>2, <2>2
    <2>4. CASE k + 1 # d
      <3>1. frames'[k + 1] = frames[k + 1]
        BY <1>2, <2>2, <2>4
      <3> QED
        BY <2>1, <2>3, <3>1
    <2>5. CASE k + 1 = d
      <3>1. f.gas_left \in Int /\ top.gas_left \in Int /\ frames[k] \in FrameSet /\ frames[k].msg_gas \in Nat
        BY <1>1, <2>2, FieldTypes
      <3>2. top.gas_left <= frames[k].msg_gas
        BY <1>1, <2>1, <2>5
      <3>3. frames'[k + 1].gas_left <= frames[k].msg_gas
        BY <1>2, <2>5, <3>1, <3>2
      <3> QED
        BY <2>1, <2>3, <3>3
    <2> QED
      BY <2>4, <2>5
  <1>6. StaticInherited' /\ StaticFrameWritesNothing'
    BY <1>1, <1>2, <1>3, SMTT(60) DEF IInv, StaticInherited, StaticFrameWritesNothing, depth
  <1>7. FirstFrame'
    <2>1. /\ frames[1].outer_refund = 0
          /\ frames[1].status \in {"RUNNING", SUCCESS, REVERT} => frames[1].gas_left <= tx_gas
      BY <1>1 DEF IInv, FirstFrame, Running
    <2>2. frames'[1].outer_refund = 0
      BY <1>1, <1>3, <2>1
    <2>3. CASE d = 1
      <3>1. f.gas_left \in Int /\ top.gas_left \in Int /\ tx_gas \in Nat
        BY <1>1, FieldTypes DEF IInv, TypeOK
      <3>2. f.gas_left <= tx_gas
        BY <1>1, <2>1, <2>3, <3>1
      <3> QED
        BY <1>2, <2>2, <2>3, <3>2 DEF FirstFrame
    <2>4. CASE d # 1
      <3>1. frames'[1] = frames[1]
        BY <1>1, <1>2, <2>4
      <3> QED
        BY <1>2, <2>1, <3>1 DEF FirstFrame
    <2> QED
      BY <2>3, <2>4
  <1>8. RefundsLinked'
    BY <1>1, <1>2, <1>3 DEF IInv, RefundsLinked, depth
  <1>9. \A k \in 1 .. d : k # d => SlotAfter(k)' = SlotAfter(k)
    BY <1>1, <1>2, <1>3 DEF SlotAfter, depth
  <1>10. SlotAfter(d) = slot /\ SlotAfter(d)' = slot'
    BY <1>1, <1>2 DEF SlotAfter, depth
  <1>11. frames'[1].snapshot = frames[1].snapshot
    BY <1>1, <1>3
  <1>12. NetCostDependsOnlyOnEnds'
    <2> SUFFICES ASSUME NEW k \in 1 .. d, frames'[k].status \in {"RUNNING", SUCCESS}
                 PROVE  frames'[k].spent - (frames'[k].outer_refund + frames'[k].gas_refund)
                          = NetCost(SlotAfter(k)') - NetCost(frames'[1].snapshot)
      BY <1>2 DEF NetCostDependsOnlyOnEnds, NetCost, depth
    <2>1. CASE k # d
      <3>1. frames'[k] = frames[k]
        BY <1>2, <2>1
      <3> QED
        BY <1>1, <1>9, <1>11, <2>1, <3>1 DEF IInv, NetCostDependsOnlyOnEnds, depth
    <2>2. CASE k = d
      <3>1. top.spent - (top.outer_refund + top.gas_refund) = NetCost(slot) - NetCost(frames[1].snapshot)
        BY <1>1, <1>10 DEF IInv, NetCostDependsOnlyOnEnds, depth
      <3>2. /\ f.spent \in Int /\ f.gas_refund \in Int /\ top.spent \in Int /\ top.gas_refund \in Int
            /\ top.outer_refund \in Int
        BY <1>1, FieldTypes
      <3>3. NetCost(slot) \in Int /\ NetCost(slot') \in Int /\ NetCost(frames[1].snapshot) \in Int
        BY NetCostType
      <3>4. (f.spent - f.gas_refund) - (top.spent - top.gas_refund) = NetCost(slot') - NetCost(slot)
        BY <1>2, <2>2 DEF Live
      <3>5. f.spent - (f.outer_refund + f.gas_refund) = NetCost(slot') - NetCost(frames[1].snapshot)
        <4> DEFINE n0 == NetCost(slot)
                   n1 == NetCost(slot')
                   n == NetCost(frames[1].snapshot)
        <4>1. n0 \in Int /\ n1 \in Int /\ n \in Int
          BY <3>3
        <4>2. top.spent - (top.outer_refund + top.gas_refund) = n0 - n
          BY <3>1
        <4>3. (f.spent - f.gas_refund) - (top.spent - top.gas_refund) = n1 - n0
          BY <3>4
        <4> HIDE DEF n0, n1, n
        <4>4. f.spent - (top.outer_refund + f.gas_refund) = n1 - n
          BY <3>2, <4>1, <4>2, <4>3, DifferencesAdd
        <4> QED
          BY <4>4 DEF n1, n
      <3> QED
        BY <1>2, <1>10, <1>11, <2>2, <3>5
    <2> QED
      BY <2>1, <2>2
  <1>13. ChangeIsPaid'
    <2> SUFFICES ASSUME NEW k \in 1 .. d, Live(frames'[k]), Clean(frames'[1].snapshot)
                 PROVE  frames'[k].spent >= ChangePrice(SlotAfter(k)')
      BY <1>2 DEF ChangeIsPaid, Live, Clean, ChangePrice, depth
    <2>1. CASE k # d
      <3>1. frames'[k] = frames[k]
        BY <1>2, <2>1
      <3> QED
        BY <1>1, <1>9, <1>11, <2>1, <3>1 DEF IInv, ChangeIsPaid, depth
    <2>2. CASE k = d
      <3>1. top.spent >= ChangePrice(slot)
        BY <1>1, <1>10, <1>11 DEF IInv, ChangeIsPaid, Live, depth
      <3> QED
        BY <1>2, <1>10, <2>2, <3>1
    <2> QED
      BY <2>1, <2>2
  <1>14. SameStart
    BY <1>1, <1>2, <1>11 DEF SameStart, Running
  <1> QED
    BY <1>4, <1>5, <1>6, <1>7, <1>8, <1>12, <1>13, <1>14 DEF IInv

(* A frame is suspended and a new one opened on the slot as it is.         *)
LEMMA OpenStep ==
  ASSUME IInv, Running, depth < MaxDepth, UNCHANGED slot, ops' \in 0 .. MaxOps,
         NEW g \in Nat, NEW m \in Nat, NEW static \in BOOLEAN,
         g <= top.gas_left, m <= g, top.static_mode => static, OpenFrame(g, m, static)
  PROVE  IInv' /\ SameStart
  <1> DEFINE caller == [top EXCEPT !.gas_left = g, !.msg_gas = m]
             new == Frame(slot, m, static, top.spent, top.outer_refund + top.gas_refund)
  <1>1. PICK d \in Nat \ {0} :
          /\ d = Len(frames) /\ top = frames[d] /\ top \in FrameSet /\ top.status = "RUNNING"
          /\ frames \in Seq(FrameSet) /\ \A k \in 1 .. d : frames[k] \in FrameSet
    BY FrameTypes DEF IInv, Running, depth, top, TypeOK
  <1>2. slot \in Slots /\ top.spent \in Nat /\ top.outer_refund \in Int /\ top.gas_refund \in Int
        /\ top.outer_refund + top.gas_refund \in Int /\ top.gas_left \in Int /\ top.msg_gas \in Nat
    BY <1>1, FieldTypes, SMTT(60) DEF IInv, TypeOK
  <1>3. caller \in FrameSet /\ new \in FrameSet
    <2>1. caller \in FrameSet
      <3>1. g \in Int
        OBVIOUS
      <3> QED
        BY <1>1, <3>1, CallUpdate
    <2>2. new \in FrameSet
      BY <1>2 DEF FrameSet, Frame, FrameStatus
    <2> QED
      BY <2>1, <2>2
  <1>4. /\ caller.snapshot = top.snapshot /\ caller.gas_left = g /\ caller.gas_refund = top.gas_refund
        /\ caller.static_mode = top.static_mode /\ caller.msg_gas = m /\ caller.status = "RUNNING"
        /\ caller.spent = top.spent /\ caller.outer_refund = top.outer_refund
    BY <1>1 DEF FrameSet
  <1>5. /\ new.snapshot = slot /\ new.gas_left = m /\ new.gas_refund = 0
        /\ new.static_mode = static /\ new.status = "RUNNING"
        /\ new.spent = top.spent /\ new.outer_refund = top.outer_refund + top.gas_refund
    BY DEF Frame
  <1>6. frames' = Append([frames EXCEPT ![d] = caller], new) /\ UNCHANGED <<tx_gas, tx_listed, gas_used, txs>>
    BY <1>1 DEF OpenFrame, depth
  <1> HIDE DEF caller, new
  <1>7. /\ frames' \in Seq(FrameSet) /\ Len(frames') = d + 1
        /\ frames'[d] = caller /\ frames'[d + 1] = new
        /\ \A k \in 1 .. d : k # d => frames'[k] = frames[k]
    BY <1>1, <1>3, <1>6
  <1>8. \A k \in 1 .. d : /\ frames'[k].snapshot = frames[k].snapshot
                          /\ frames'[k].outer_refund = frames[k].outer_refund
                          /\ frames'[k].gas_refund = frames[k].gas_refund
                          /\ frames'[k].spent = frames[k].spent
                          /\ frames'[k].status = frames[k].status
                          /\ frames'[k].static_mode = frames[k].static_mode
    BY <1>1, <1>4, <1>7
  <1>9. \A k \in 1 .. d + 1 : k \in 1 .. d \/ k = d + 1
    BY <1>1
  <1>10. TypeOK'
    <2>1. \A k \in 1 .. d + 1 :
            frames'[k].status \in {"RUNNING", SUCCESS, REVERT} => frames'[k].gas_left >= 0
      BY <1>1, <1>4, <1>5, <1>7, <1>9 DEF IInv, TypeOK, depth
    <2>2. \A k \in 1 .. d : frames'[k].status = "RUNNING"
      BY <1>1, <1>8 DEF IInv, TypeOK, depth
    <2>3. Len(frames') <= MaxDepth
      BY <1>1, <1>7, MaxDepthAssumption DEF depth
    <2> QED
      BY <1>1, <1>6, <1>7, <2>1, <2>2, <2>3 DEF IInv, TypeOK, depth
  <1>11. CalleeReturnsNoExtraGas'
    <2> SUFFICES ASSUME NEW k \in 1 .. d
                 PROVE  /\ frames'[k].msg_gas <= frames'[k].gas_left
                        /\ frames'[k + 1].status \in {"RUNNING", SUCCESS, REVERT} =>
                             frames'[k + 1].gas_left <= frames'[k].msg_gas
      BY <1>1, <1>7 DEF CalleeReturnsNoExtraGas, depth
    <2>1. CASE k = d
      BY <1>4, <1>5, <1>7, <2>1
    <2>2. CASE k # d
      <3>1. /\ k \in 1 .. d - 1 /\ k + 1 \in 1 .. d /\ frames'[k] = frames[k]
        BY <1>1, <1>7, <2>2
      <3>2. /\ frames[k].msg_gas <= frames[k].gas_left
            /\ frames[k + 1].status \in {"RUNNING", SUCCESS, REVERT} => frames[k + 1].gas_left <= frames[k].msg_gas
        BY <1>1, <3>1 DEF IInv, CalleeReturnsNoExtraGas, depth
      <3>3. CASE k + 1 # d
        BY <1>7, <3>1, <3>2, <3>3
      <3>4. CASE k + 1 = d
        <4>1. g <= frames[k].msg_gas
          BY <1>1, <1>2, <3>1, <3>2, <3>4, FieldTypes
        <4> QED
          BY <1>4, <1>7, <3>1, <3>2, <3>4, <4>1
      <3> QED
        BY <3>3, <3>4
    <2> QED
      BY <2>1, <2>2
  <1>12. StaticInherited'
    <2>1. \A j \in 1 .. d : frames[j].static_mode => top.static_mode
      BY <1>1 DEF IInv, StaticInherited, depth
    <2> QED
      BY <1>1, <1>5, <1>7, <1>8, <1>9, <2>1 DEF IInv, StaticInherited, depth
  <1>13. StaticFrameWritesNothing'
    BY <1>1, <1>5, <1>7, <1>8, <1>9 DEF IInv, StaticFrameWritesNothing, depth
  <1>14. FirstFrame'
    <2>1. /\ frames[1].outer_refund = 0
          /\ frames[1].status \in {"RUNNING", SUCCESS, REVERT} => frames[1].gas_left <= tx_gas
      BY <1>1 DEF IInv, FirstFrame, Running
    <2>2. frames'[1].outer_refund = 0
      BY <1>1, <1>8, <2>1
    <2>3. frames'[1].status \in {"RUNNING", SUCCESS, REVERT} => frames'[1].gas_left <= tx_gas
      <3>1. CASE d = 1
        BY <1>1, <1>2, <1>4, <1>7, <2>1, <3>1, SMTT(60) DEF IInv, TypeOK
      <3>2. CASE d # 1
        BY <1>1, <1>7, <2>1, <3>2
      <3> QED
        BY <3>1, <3>2
    <2> QED
      BY <1>6, <2>2, <2>3 DEF FirstFrame
  <1>15. RefundsLinked'
    BY <1>1, <1>5, <1>7, <1>8, <1>9 DEF IInv, RefundsLinked, depth
  <1>16. \A k \in 1 .. d : SlotAfter(k)' = SlotAfter(k)
    BY <1>1, <1>5, <1>7, <1>8 DEF SlotAfter, depth
  <1>17. SlotAfter(d) = slot /\ SlotAfter(d + 1)' = slot
    BY <1>1, <1>7 DEF SlotAfter, depth
  <1>18. NetCostDependsOnlyOnEnds'
    <2> SUFFICES ASSUME NEW k \in 1 .. d + 1, frames'[k].status \in {"RUNNING", SUCCESS}
                 PROVE  frames'[k].spent - (frames'[k].outer_refund + frames'[k].gas_refund)
                          = NetCost(SlotAfter(k)') - NetCost(frames'[1].snapshot)
      BY <1>7 DEF NetCostDependsOnlyOnEnds, NetCost, depth
    <2>1. frames'[1].snapshot = frames[1].snapshot
      BY <1>1, <1>8
    <2>2. CASE k \in 1 .. d
      BY <1>1, <1>8, <1>16, <2>1, <2>2 DEF IInv, NetCostDependsOnlyOnEnds, depth
    <2>3. CASE k = d + 1
      <3>1. top.spent - (top.outer_refund + top.gas_refund) = NetCost(slot) - NetCost(frames[1].snapshot)
        BY <1>1, <1>17 DEF IInv, NetCostDependsOnlyOnEnds, depth
      <3>2. new.outer_refund + new.gas_refund = top.outer_refund + top.gas_refund
        BY <1>2, <1>5
      <3> QED
        BY <1>5, <1>7, <1>17, <2>1, <2>3, <3>1, <3>2
    <2> QED
      BY <1>9, <2>2, <2>3
  <1>19. ChangeIsPaid'
    <2> SUFFICES ASSUME NEW k \in 1 .. d + 1, Live(frames'[k]), Clean(frames'[1].snapshot)
                 PROVE  frames'[k].spent >= ChangePrice(SlotAfter(k)')
      BY <1>7 DEF ChangeIsPaid, Live, Clean, ChangePrice, depth
    <2>1. frames'[1].snapshot = frames[1].snapshot
      BY <1>1, <1>8
    <2>2. CASE k \in 1 .. d
      BY <1>1, <1>8, <1>16, <2>1, <2>2 DEF IInv, ChangeIsPaid, Live, depth
    <2>3. CASE k = d + 1
      <3>1. top.spent >= ChangePrice(slot)
        BY <1>1, <1>17, <2>1 DEF IInv, ChangeIsPaid, Live, depth
      <3> QED
        BY <1>5, <1>7, <1>17, <2>3, <3>1
    <2> QED
      BY <1>9, <2>2, <2>3
  <1>20. SameStart
    BY <1>1, <1>6, <1>7, <1>8 DEF SameStart, Running
  <1> QED
    BY <1>10, <1>11, <1>12, <1>13, <1>14, <1>15, <1>18, <1>19, <1>20 DEF IInv

(* A frame has ended: its caller goes on, with the state kept or restored. *)
LEMMA ReturnStep ==
  ASSUME IInv, return_to_caller
  PROVE  IInv' /\ SameStart
  <1>1. PICK d \in Nat \ {0, 1} :
          /\ d = Len(frames) /\ top = frames[d] /\ top \in FrameSet
          /\ frames \in Seq(FrameSet) /\ \A k \in 1 .. d : frames[k] \in FrameSet
    <2>1. TypeOK /\ frames # <<>> /\ depth > 1
      BY DEF IInv, return_to_caller, Ended
    <2>2. depth \in Nat \ {0, 1} /\ top \in FrameSet /\ \A k \in 1 .. depth : frames[k] \in FrameSet
      BY <2>1, FrameTypes
    <2> QED
      BY <2>1, <2>2 DEF depth, top, TypeOK
  <1>2. PICK n \in Nat \ {0} : n = d - 1
    BY <1>1
  <1> DEFINE caller == frames[n]
             gas == caller.gas_left - (caller.msg_gas - result_gas_left)
             refund == caller.gas_refund + result_gas_refund
             spent == IF top.status = SUCCESS THEN top.spent ELSE caller.spent
             back == [caller EXCEPT !.gas_left = gas, !.gas_refund = refund, !.msg_gas = 0, !.spent = spent]
  <1>3. /\ frames' = Append(SubSeq(frames, 1, n - 1), back)
        /\ slot' = Restored /\ UNCHANGED <<tx_gas, tx_listed, gas_used, txs, ops>>
    BY <1>1, <1>2 DEF return_to_caller, depth
  <1>4. /\ caller \in FrameSet /\ caller.status = "RUNNING" /\ caller.gas_left >= 0
        /\ caller.msg_gas <= caller.gas_left
        /\ top.status \in {"RUNNING", SUCCESS, REVERT} => top.gas_left <= caller.msg_gas /\ top.gas_left >= 0
        /\ top.outer_refund = caller.outer_refund + caller.gas_refund
    <2>1. n \in 1 .. d /\ n \in 1 .. d - 1 /\ d \in 1 .. d /\ n + 1 = d
      BY <1>1, <1>2
    <2> QED
      BY <1>1, <2>1 DEF IInv, TypeOK, CalleeReturnsNoExtraGas, RefundsLinked, depth
  <1>5. /\ caller.gas_left \in Int /\ caller.msg_gas \in Nat /\ caller.gas_refund \in Int
        /\ caller.spent \in Nat /\ caller.outer_refund \in Int
        /\ top.gas_left \in Int /\ top.gas_refund \in Int /\ top.spent \in Nat /\ top.outer_refund \in Int
        /\ top.snapshot \in Slots /\ slot \in Slots
    BY <1>1, <1>4, FieldTypes DEF IInv, TypeOK
  <1>6. result_gas_left \in Nat /\ result_gas_left <= caller.msg_gas /\ result_gas_refund \in Int
    BY <1>4, <1>5 DEF result_gas_left, result_gas_refund
  <1>7. gas \in Int /\ gas >= 0 /\ gas <= caller.gas_left /\ refund \in Int /\ spent \in Nat
    BY <1>4, <1>5, <1>6
  <1>8. back \in FrameSet
    <2> HIDE DEF gas, refund, spent, caller
    <2> QED
      BY <1>4, <1>7, ReturnUpdate
  <1>9. /\ back.snapshot = caller.snapshot /\ back.outer_refund = caller.outer_refund
        /\ back.static_mode = caller.static_mode /\ back.status = "RUNNING"
        /\ back.gas_left = gas /\ back.gas_refund = refund /\ back.spent = spent
    BY <1>4 DEF FrameSet
  <1>10. slot' \in Slots
    BY <1>3, <1>5 DEF Restored
  <1> HIDE DEF back, gas, refund, spent
  <1>11. /\ frames' \in Seq(FrameSet) /\ Len(frames') = n /\ frames'[n] = back
         /\ \A k \in 1 .. n : k # n => frames'[k] = frames[k]
    BY <1>1, <1>2, <1>3, <1>8
  <1>12. \A k \in 1 .. n : /\ k \in 1 .. d /\ k \in 1 .. d - 1
                           /\ frames'[k].snapshot = frames[k].snapshot
                           /\ frames'[k].outer_refund = frames[k].outer_refund
                           /\ frames'[k].static_mode = frames[k].static_mode
                           /\ frames'[k].status = frames[k].status
    BY <1>1, <1>2, <1>4, <1>9, <1>11, SMTT(60)
  <1>13. TypeOK'
    <2>1. \A k \in 1 .. n : frames[k].status = "RUNNING" /\ frames[k].gas_left >= 0
      BY <1>1, <1>12 DEF IInv, TypeOK, depth
    <2>2. \A k \in 1 .. n : frames'[k].gas_left >= 0 /\ frames'[k].status = "RUNNING"
      BY <1>7, <1>9, <1>11, <1>12, <2>1
    <2>3. Len(frames') <= MaxDepth
      BY <1>1, <1>2, <1>11, MaxDepthAssumption DEF IInv, TypeOK, depth
    <2> QED
      BY <1>3, <1>10, <1>11, <2>2, <2>3, SMTT(60) DEF IInv, TypeOK, depth
  <1>14. CalleeReturnsNoExtraGas'
    <2> SUFFICES ASSUME NEW k \in 1 .. n - 1
                 PROVE  /\ frames'[k].msg_gas <= frames'[k].gas_left
                        /\ frames'[k + 1].status \in {"RUNNING", SUCCESS, REVERT} =>
                             frames'[k + 1].gas_left <= frames'[k].msg_gas
      BY <1>11 DEF CalleeReturnsNoExtraGas, depth
    <2>1. k \in 1 .. n /\ k # n /\ k + 1 \in 1 .. n /\ k \in 1 .. d - 1 /\ frames'[k] = frames[k]
      BY <1>1, <1>2, <1>11
    <2>2. /\ frames[k].msg_gas <= frames[k].gas_left
          /\ frames[k + 1].status \in {"RUNNING", SUCCESS, REVERT} => frames[k + 1].gas_left <= frames[k].msg_gas
      BY <1>1, <2>1 DEF IInv, CalleeReturnsNoExtraGas, depth
    <2>3. CASE k + 1 # n
      BY <1>11, <2>1, <2>2, <2>3
    <2>4. CASE k + 1 = n
      <3>1. frames[k].msg_gas \in Nat
        BY <1>1, <1>12, <2>1, FieldTypes
      <3>2. caller.gas_left <= frames[k].msg_gas
        BY <1>4, <2>2, <2>4
      <3>3. gas <= frames[k].msg_gas
        BY <1>5, <1>7, <3>1, <3>2
      <3> QED
        BY <1>9, <1>11, <2>1, <2>2, <2>4, <3>3
    <2> QED
      BY <2>3, <2>4
  <1>15. StaticInherited'
    BY <1>1, <1>11, <1>12 DEF IInv, StaticInherited, depth
  <1>16. StaticFrameWritesNothing'
    <2> SUFFICES ASSUME NEW k \in 1 .. n, frames'[k].static_mode
                 PROVE  slot'.current = frames'[k].snapshot.current
      BY <1>11 DEF StaticFrameWritesNothing, depth
    <2>1. k \in 1 .. d /\ d \in 1 .. d /\ k <= d /\ frames[k].static_mode
      BY <1>1, <1>2, <1>12
    <2>2. top.static_mode
      BY <1>1, <2>1 DEF IInv, StaticInherited, depth
    <2>3. slot.current = top.snapshot.current /\ slot.current = frames[k].snapshot.current
      BY <1>1, <2>1, <2>2 DEF IInv, StaticFrameWritesNothing, depth
    <2> QED
      BY <1>3, <1>12, <2>3 DEF Restored
  <1>17. FirstFrame'
    <2>1. /\ frames[1].outer_refund = 0
          /\ frames[1].status \in {"RUNNING", SUCCESS, REVERT} => frames[1].gas_left <= tx_gas
      BY <1>1 DEF IInv, FirstFrame
    <2>2. frames'[1].outer_refund = 0
      BY <1>2, <1>12, <2>1
    <2>3. frames'[1].status \in {"RUNNING", SUCCESS, REVERT} => frames'[1].gas_left <= tx_gas
      <3>1. CASE n = 1
        <4>1. tx_gas \in Nat
          BY DEF IInv, TypeOK
        <4>2. caller.gas_left <= tx_gas
          BY <1>4, <2>1, <3>1
        <4>3. gas <= tx_gas
          BY <1>5, <1>7, <4>1, <4>2
        <4> QED
          BY <1>9, <1>11, <3>1, <4>3
      <3>2. CASE n # 1
        BY <1>2, <1>11, <2>1, <3>2
      <3> QED
        BY <3>1, <3>2
    <2> QED
      BY <1>3, <2>2, <2>3 DEF FirstFrame
  <1>18. RefundsLinked'
    <2> SUFFICES ASSUME NEW k \in 1 .. n - 1
                 PROVE  frames'[k + 1].outer_refund = frames'[k].outer_refund + frames'[k].gas_refund
      BY <1>11 DEF RefundsLinked, depth
    <2>1. k \in 1 .. n /\ k # n /\ k + 1 \in 1 .. n /\ k \in 1 .. d - 1 /\ frames'[k] = frames[k]
      BY <1>1, <1>2, <1>11
    <2> QED
      BY <1>1, <1>12, <2>1 DEF IInv, RefundsLinked, depth
  <1>19. \A k \in 1 .. n : k # n => SlotAfter(k)' = SlotAfter(k)
    BY <1>1, <1>2, <1>11, <1>12 DEF SlotAfter, depth
  <1>20. SlotAfter(n)' = slot' /\ SlotAfter(n) = top.snapshot /\ SlotAfter(d) = slot
    BY <1>1, <1>2, <1>11 DEF SlotAfter, depth
  <1>21. /\ top.status = SUCCESS => slot' = slot /\ spent = top.spent /\ refund = caller.gas_refund + top.gas_refund
         /\ top.status # SUCCESS => slot' = top.snapshot /\ spent = caller.spent /\ refund = caller.gas_refund
    BY <1>3, <1>5 DEF Restored, spent, refund, result_gas_refund
  <1>22. frames'[1].snapshot = frames[1].snapshot
    BY <1>2, <1>12
  <1>23. NetCostDependsOnlyOnEnds'
    <2> SUFFICES ASSUME NEW k \in 1 .. n, frames'[k].status \in {"RUNNING", SUCCESS}
                 PROVE  frames'[k].spent - (frames'[k].outer_refund + frames'[k].gas_refund)
                          = NetCost(SlotAfter(k)') - NetCost(frames'[1].snapshot)
      BY <1>11 DEF NetCostDependsOnlyOnEnds, NetCost, depth
    <2>1. CASE k # n
      BY <1>1, <1>11, <1>12, <1>19, <1>22, <2>1 DEF IInv, NetCostDependsOnlyOnEnds, depth
    <2>2. CASE k = n /\ top.status = SUCCESS
      <3>1. top.spent - (top.outer_refund + top.gas_refund) = NetCost(slot) - NetCost(frames[1].snapshot)
        BY <1>1, <1>20, <2>2 DEF IInv, NetCostDependsOnlyOnEnds, depth
      <3>2. back.outer_refund + back.gas_refund = top.outer_refund + top.gas_refund
        BY <1>4, <1>5, <1>9, <1>21, <2>2
      <3> QED
        BY <1>9, <1>11, <1>20, <1>21, <1>22, <2>2, <3>1, <3>2
    <2>3. CASE k = n /\ top.status # SUCCESS
      <3>1. caller.spent - (caller.outer_refund + caller.gas_refund)
              = NetCost(top.snapshot) - NetCost(frames[1].snapshot)
        BY <1>1, <1>4, <1>12, <1>20, <2>3 DEF IInv, NetCostDependsOnlyOnEnds, depth
      <3> QED
        BY <1>9, <1>11, <1>20, <1>21, <1>22, <2>3, <3>1
    <2> QED
      BY <2>1, <2>2, <2>3
  <1>24. ChangeIsPaid'
    <2> SUFFICES ASSUME NEW k \in 1 .. n, Live(frames'[k]), Clean(frames'[1].snapshot)
                 PROVE  frames'[k].spent >= ChangePrice(SlotAfter(k)')
      BY <1>11 DEF ChangeIsPaid, Live, Clean, ChangePrice, depth
    <2>1. CASE k # n
      BY <1>1, <1>11, <1>12, <1>19, <1>22, <2>1 DEF IInv, ChangeIsPaid, depth
    <2>2. CASE k = n /\ top.status = SUCCESS
      <3>1. top.spent >= ChangePrice(slot)
        BY <1>1, <1>20, <1>22, <2>2 DEF IInv, ChangeIsPaid, Live, depth
      <3> QED
        BY <1>9, <1>11, <1>20, <1>21, <2>2, <3>1
    <2>3. CASE k = n /\ top.status # SUCCESS
      <3>1. caller.spent >= ChangePrice(top.snapshot)
        BY <1>1, <1>4, <1>12, <1>20, <1>22, <2>3 DEF IInv, ChangeIsPaid, Live, depth
      <3> QED
        BY <1>9, <1>11, <1>20, <1>21, <2>3, <3>1
    <2> QED
      BY <2>1, <2>2, <2>3
  <1>25. SameStart
    BY <1>1, <1>3, <1>11, <1>22 DEF SameStart
  <1> QED
    BY <1>13, <1>14, <1>15, <1>16, <1>17, <1>18, <1>23, <1>24, <1>25 DEF IInv

------------------------------------------------------------------------------
(* The actions.                                                            *)

(* The running frame ends.                                                 *)
LEMMA ExitStep ==
  ASSUME IInv, Running, NEW st \in FrameStatus \ {"RUNNING"}, NEW g \in Int, g <= top.gas_left,
         st \in {SUCCESS, REVERT} => g >= 0, Exit(st, g),
         slot' \in Slots, ops' \in 0 .. MaxOps, st = SUCCESS => slot' = slot,
         top.static_mode => slot'.current = slot.current
  PROVE  IInv' /\ SameStart
  <1> DEFINE f == [top EXCEPT !.status = st, !.gas_left = g]
  <1>1. top \in FrameSet
    BY FrameTypes DEF IInv, Running
  <1>2. f \in FrameSet
    BY <1>1, ExitUpdate
  <1>3. /\ f.snapshot = top.snapshot /\ f.outer_refund = top.outer_refund
        /\ f.static_mode = top.static_mode /\ f.gas_left = g /\ f.status = st
        /\ f.spent = top.spent /\ f.gas_refund = top.gas_refund
    BY <1>1 DEF FrameSet
  <1>4. Update(f)
    BY DEF Exit
  <1> HIDE DEF f
  <1>5. Live(f) => slot' = slot
    BY <1>3 DEF Live
  <1>6. Live(f) => (f.spent - f.gas_refund) - (top.spent - top.gas_refund) = NetCost(slot') - NetCost(slot)
    BY <1>1, <1>3, <1>5, FieldTypes, NetCostType
  <1>7. Live(f) /\ top.spent >= ChangePrice(slot) => f.spent >= ChangePrice(slot')
    BY <1>3, <1>5
  <1> QED
    BY <1>2, <1>3, <1>4, <1>6, <1>7, UpdateStep

(* The type of what the actions read.                                      *)
LEMMA TopTypes ==
  ASSUME IInv, Running
  PROVE  /\ top \in FrameSet /\ top.gas_left \in Int /\ top.gas_left >= 0 /\ top.spent \in Nat
         /\ top.gas_refund \in Int /\ top.outer_refund \in Int /\ top.static_mode \in BOOLEAN
         /\ slot \in Slots
  <1>1. top \in FrameSet /\ depth \in Nat \ {0}
    BY FrameTypes DEF IInv, Running
  <1>2. top.gas_left >= 0
    BY <1>1 DEF IInv, TypeOK, Running, top
  <1> QED
    BY <1>1, <1>2, FieldTypes DEF IInv, TypeOK

(* SLOAD.                                                                  *)
LEMMA SloadStep ==
  ASSUME IInv, sload
  PROVE  IInv' /\ SameStart
  <1> DEFINE base == top.gas_left - gas_costs[OP_SLOAD]
             left == base - cold_cost(cold_sload_cost - warm_storage_read_cost)
             f == [top EXCEPT !.gas_left = left]
  <1>1. Running /\ ops' \in 0 .. MaxOps
    BY MaxOpsAssumption DEF sload, CountOp, IInv, TypeOK
  <1>2. cold_cost(cold_sload_cost - warm_storage_read_cost) \in Nat
    BY DEF cold_cost, cold_sload_cost, warm_storage_read_cost
  <1>3. base \in Int /\ left \in Int /\ left <= base /\ left <= top.gas_left
    BY <1>1, <1>2, TopTypes, BaseCosts
  <1>4. /\ slot' \in Slots /\ slot'.current = slot.current /\ slot'.original = slot.original
    BY <1>1, TopTypes DEF sload, Slots
  <1>5. CASE left < 0
    <2>1. Exit("OUT_OF_GAS", left)
      BY <1>5 DEF sload
    <2> HIDE DEF left
    <2> QED
      BY <1>1, <1>3, <1>4, <2>1, ExitStep DEF FrameStatus, SUCCESS, REVERT
  <1>6. CASE ~(left < 0)
    <2>1. Update(f)
      BY <1>6 DEF sload
    <2> HIDE DEF left
    <2>2. f \in FrameSet
      BY <1>1, <1>3, TopTypes, GasUpdate
    <2>3. /\ f.snapshot = top.snapshot /\ f.outer_refund = top.outer_refund
          /\ f.static_mode = top.static_mode /\ f.gas_left = left /\ f.status = top.status
          /\ f.spent = top.spent /\ f.gas_refund = top.gas_refund
      BY <1>1, TopTypes DEF FrameSet
    <2> HIDE DEF f
    <2>4. NetCost(slot') = NetCost(slot) /\ ChangePrice(slot') = ChangePrice(slot)
      BY <1>4 DEF NetCost, ChangePrice, Clean
    <2>5. (f.spent - f.gas_refund) - (top.spent - top.gas_refund) = NetCost(slot') - NetCost(slot)
      BY <1>1, <2>3, <2>4, TopTypes, NetCostType
    <2>6. f.gas_left >= 0
      BY <1>3, <1>6, <2>3
    <2> QED
      BY <1>1, <1>3, <1>4, <2>1, <2>2, <2>3, <2>4, <2>5, <2>6, UpdateStep
  <1> QED
    BY <1>5, <1>6

(* STOP, RETURN and REVERT.                                                *)
LEMMA FinishStep ==
  ASSUME IInv, NEW code \in {SUCCESS, REVERT}, Finish(code)
  PROVE  IInv' /\ SameStart
  <1>1. Running /\ Exit(code, top.gas_left) /\ UNCHANGED <<slot, ops>>
    BY DEF Finish
  <1>2. ops' \in 0 .. MaxOps /\ code \in FrameStatus \ {"RUNNING"}
    BY <1>1 DEF IInv, TypeOK, FrameStatus, SUCCESS, REVERT
  <1> QED
    BY <1>1, <1>2, TopTypes, ExitStep

(* A call passes on no more than it has.                                   *)
LEMMA CallStep ==
  ASSUME IInv, NEW gas \in CallGas, NEW static \in BOOLEAN, call(gas, static)
  PROVE  IInv' /\ SameStart
  <1> DEFINE left == top.gas_left - gas_costs[OP_DELEGATECALL]
             m == min(gas, left - left \div 64)
  <1>1. Running /\ ops' \in 0 .. MaxOps /\ depth < MaxDepth /\ UNCHANGED slot
    BY MaxOpsAssumption DEF call, CountOp, IInv, TypeOK
  <1>2. left \in Int /\ left <= top.gas_left
    BY <1>1, TopTypes, BaseCosts
  <1>3. CASE left < 0
    <2>1. Exit("OUT_OF_GAS", left)
      BY <1>3 DEF call
    <2> HIDE DEF left
    <2> QED
      BY <1>1, <1>2, <2>1, TopTypes, ExitStep DEF FrameStatus, SUCCESS, REVERT
  <1>4. CASE ~(left < 0)
    <2>1. OpenFrame(left, m, static \/ top.static_mode)
      BY <1>4 DEF call
    <2> HIDE DEF left
    <2>2. left \in Nat
      BY <1>2, <1>4
    <2>3. left - left \div 64 \in 0 .. left
      BY <2>2
    <2>4. m \in Nat /\ m <= left
      BY <2>2, <2>3, CallGasAssumption DEF min
    <2>5. (static \/ top.static_mode) \in BOOLEAN
      OBVIOUS
    <2> HIDE DEF m
    <2> QED
      BY <1>1, <1>2, <2>1, <2>2, <2>4, <2>5, OpenStep
  <1> QED
    BY <1>3, <1>4

(* What a write does to the price that must have been paid.                *)
LEMMA WriteIsPaid ==
  ASSUME NEW s \in Slots, NEW t \in Slots, t.original = s.original, NEW p \in Nat, p >= ChangePrice(s)
  PROVE  LET st == storage_status(s.current, s.original, t.current)
         IN p + (sstore_gas_cost(st) - warm_access) >= ChangePrice(t)
  <1> DEFINE st == storage_status(s.current, s.original, t.current)
             price == sstore_gas_cost(st) - warm_access
  <1>1. s.current \in Nat /\ s.original \in Nat /\ t.current \in Nat
    BY ValuesAssumption DEF Slots
  <1>2. /\ price \in Nat
        /\ s.current = s.original /\ t.current # s.original =>
             price = IF s.original = 0 THEN set - warm_access ELSE reset - warm_access
    BY <1>1, StatusPrices, ZenonT(60)
  <1> HIDE DEF price
  <1>3. set - warm_access \in Nat /\ reset - warm_access \in Nat
    BY DEF set, reset, warm_access, warm_storage_read_cost, cold_sload_cost
  <1>4. p + price >= ChangePrice(t)
    BY <1>1, <1>2, <1>3 DEF ChangePrice, Clean
  <1> QED
    BY <1>4 DEF price

(* SSTORE: the three ways it fails, the last after the write, and the way  *)
(* it succeeds.                                                            *)
LEMMA SstoreStep ==
  ASSUME IInv, NEW value \in Values, sstore(value)
  PROVE  IInv' /\ SameStart
  <1> DEFINE st == storage_status(slot.current, slot.original, value)
             cost == sstore_gas_cost(st) + cold_cost(cold_sload_cost)
             left == top.gas_left - cost
             refund == top.gas_refund + sstore_gas_refund(st)
             spent == top.spent + (sstore_gas_cost(st) - warm_access)
             f == [top EXCEPT !.gas_left = left, !.gas_refund = refund, !.spent = spent]
  <1>1. Running /\ ops' \in 0 .. MaxOps
    BY MaxOpsAssumption DEF sstore, CountOp, IInv, TypeOK
  <1>2. /\ top.gas_left \in Int /\ top.gas_left >= 0 /\ top.spent \in Nat /\ top.gas_refund \in Int
        /\ top \in FrameSet /\ slot \in Slots
    BY <1>1, TopTypes
  <1>3. CASE top.static_mode
    <2>1. Exit("STATIC_MODE_VIOLATION", top.gas_left) /\ UNCHANGED slot
      BY <1>3 DEF sstore
    <2> QED
      BY <1>1, <1>2, <2>1, ExitStep DEF FrameStatus, SUCCESS, REVERT
  <1>4. CASE ~top.static_mode /\ top.gas_left <= sstore_stipend
    <2>1. Exit("OUT_OF_GAS", top.gas_left) /\ UNCHANGED slot
      BY <1>4 DEF sstore
    <2> QED
      BY <1>1, <1>2, <2>1, ExitStep DEF FrameStatus, SUCCESS, REVERT
  <1>5. CASE ~top.static_mode /\ ~(top.gas_left <= sstore_stipend)
    <2>1. slot' = [slot EXCEPT !.current = value, !.access_status = "WARM"]
      BY <1>5 DEF sstore
    <2>2. slot' \in Slots /\ slot'.current = value /\ slot'.original = slot.original
      BY <1>2, <2>1 DEF Slots
    <2>3. slot.current \in Nat /\ slot.original \in Nat /\ value \in Nat
      BY <1>2, ValuesAssumption DEF Slots
    <2>4. /\ sstore_gas_cost(st) - warm_access \in Nat /\ sstore_gas_cost(st) \in Nat
          /\ sstore_gas_refund(st) \in Int
      BY <2>3, StatusPrices
    <2>5. cold_cost(cold_sload_cost) \in Nat
      BY DEF cold_cost, cold_sload_cost
    <2>6. left \in Int /\ left <= top.gas_left /\ refund \in Int /\ spent \in Nat
      BY <1>2, <2>4, <2>5
    <2>7. CASE left < 0
      <3>1. Exit("OUT_OF_GAS", left)
        BY <1>5, <2>7 DEF sstore
      <3> HIDE DEF left
      <3> QED
        BY <1>1, <1>5, <2>2, <2>6, <3>1, ExitStep DEF FrameStatus, SUCCESS, REVERT
    <2>8. CASE ~(left < 0)
      <3>1. Update(f)
        BY <1>5, <2>8 DEF sstore
      <3>2. spent - refund - (top.spent - top.gas_refund)
              = (sstore_gas_cost(st) - warm_access) - sstore_gas_refund(st)
        BY <1>2, <2>4 DEF warm_access, warm_storage_read_cost
      <3>3. spent - refund - (top.spent - top.gas_refund) = NetCost(slot') - NetCost(slot)
        BY <1>2, <2>2, <3>2, WriteTelescopes
      <3>4. top.spent >= ChangePrice(slot) => spent >= ChangePrice(slot')
        BY <1>2, <2>2, WriteIsPaid
      <3> HIDE DEF left, refund, spent
      <3>5. f \in FrameSet
        BY <1>2, <2>6, StoreUpdate
      <3>6. /\ f.snapshot = top.snapshot /\ f.outer_refund = top.outer_refund
            /\ f.static_mode = top.static_mode /\ f.gas_left = left
            /\ f.spent = spent /\ f.gas_refund = refund
        BY <1>2 DEF FrameSet
      <3> HIDE DEF f
      <3>7. f.gas_left >= 0
        BY <2>6, <2>8, <3>6
      <3> QED
        BY <1>1, <1>5, <2>2, <2>6, <3>1, <3>3, <3>4, <3>5, <3>6, <3>7, UpdateStep
    <2> QED
      BY <2>7, <2>8
  <1> QED
    BY <1>3, <1>4, <1>5

(* A transaction opens one frame, which has seen no write yet.             *)
LEMMA StartStep ==
  ASSUME IInv, NEW gas \in GasLimits, NEW listed \in BOOLEAN, StartTransaction(gas, listed)
  PROVE  /\ IInv'
         /\ frames' # <<>> /\ frames'[1].snapshot = slot'
         /\ slot'.current = slot.current /\ slot'.original = slot.original
  <1> DEFINE f == Frame(slot', gas, FALSE, 0, 0)
  <1>1. /\ slot' \in Slots /\ slot'.current = slot.current /\ slot'.original = slot.original
    BY DEF StartTransaction, IInv, TypeOK, Slots
  <1>2. gas \in Nat
    BY GasLimitsAssumption
  <1>3. f \in FrameSet
    BY <1>1, <1>2 DEF Frame, FrameSet, FrameStatus
  <1>4. /\ f.snapshot = slot' /\ f.gas_left = gas /\ f.gas_refund = 0 /\ f.static_mode = FALSE
        /\ f.status = "RUNNING" /\ f.spent = 0 /\ f.outer_refund = 0
    BY DEF Frame
  <1>5. frames' = <<f>> /\ tx_gas' = gas /\ tx_listed' \in BOOLEAN /\ ops' = 0 /\ txs' = txs + 1 /\ txs < MaxTransactions /\ gas_used' = gas_used
    BY DEF StartTransaction
  <1> HIDE DEF f
  <1>6. /\ frames' \in Seq(FrameSet) /\ Len(frames') = 1 /\ frames'[1] = f /\ frames' # <<>>
    BY <1>3, <1>5
  <1>7. txs' \in 0 .. MaxTransactions /\ ops' \in 0 .. MaxOps
    BY <1>5, MaxTransactionsAssumption, MaxOpsAssumption DEF IInv, TypeOK
  <1>8. TypeOK'
    BY <1>1, <1>2, <1>4, <1>5, <1>6, <1>7, MaxDepthAssumption DEF IInv, TypeOK, depth
  <1>9. SlotAfter(1)' = slot'
    BY <1>6 DEF SlotAfter, depth
  <1>10. NetCostDependsOnlyOnEnds'
    <2> SUFFICES ASSUME NEW k \in 1 .. 1
                 PROVE  frames'[k].spent - (frames'[k].outer_refund + frames'[k].gas_refund)
                          = NetCost(SlotAfter(k)') - NetCost(frames'[1].snapshot)
      BY <1>6 DEF NetCostDependsOnlyOnEnds, NetCost, depth
    <2>1. k = 1
      OBVIOUS
    <2> QED
      BY <1>4, <1>6, <1>9, <2>1, NetCostType
  <1>11. ChangeIsPaid'
    <2> SUFFICES ASSUME NEW k \in 1 .. 1, Clean(frames'[1].snapshot)
                 PROVE  frames'[k].spent >= ChangePrice(SlotAfter(k)')
      BY <1>6 DEF ChangeIsPaid, Live, Clean, ChangePrice, depth
    <2>1. k = 1
      OBVIOUS
    <2> QED
      BY <1>4, <1>6, <1>9, <2>1 DEF ChangePrice
  <1>12. RefundsLinked' /\ CalleeReturnsNoExtraGas'
    BY <1>6 DEF RefundsLinked, CalleeReturnsNoExtraGas, depth
  <1>13. StaticInherited' /\ StaticFrameWritesNothing'
    BY <1>4, <1>6 DEF StaticInherited, StaticFrameWritesNothing, depth
  <1>14. FirstFrame'
    BY <1>2, <1>4, <1>5, <1>6 DEF FirstFrame
  <1> QED
    BY <1>1, <1>4, <1>6, <1>8, <1>10, <1>11, <1>12, <1>13, <1>14 DEF IInv

(* Without frames only the types are left of the invariant.                *)
LEMMA NoFrames ==
  ASSUME TypeOK, frames = <<>>
  PROVE  IInv
  <1>1. depth = 0
    BY DEF depth
  <1> QED
    BY <1>1 DEF IInv, NetCostDependsOnlyOnEnds, ChangeIsPaid, RefundsLinked, CalleeReturnsNoExtraGas,
         StaticInherited, StaticFrameWritesNothing, FirstFrame

(* The intrinsic cost, with or without an access list.                     *)
LEMMA TxCost == tx_cost \in Nat /\ tx_cost >= 21000
  BY DEF tx_cost, address_cost, storage_key_cost

(* The end of a transaction: what is left of the limit, and the refund.    *)
LEMMA EndStep ==
  ASSUME IInv, EndTransaction
  PROVE  /\ IInv' /\ frames' = <<>> /\ tx_gas' = tx_gas /\ txs' = txs
         /\ result_gas_left \in 0 .. tx_gas
         /\ result_gas_refund \in Int
  <1>1. frames # <<>> /\ depth = 1 /\ top = frames[1] /\ top \in FrameSet /\ frames[1] \in FrameSet
    BY FrameTypes DEF IInv, EndTransaction, Ended, top
  <1>2. top.gas_left \in Int /\ top.gas_refund \in Int /\ top.snapshot \in Slots /\ slot \in Slots /\ tx_gas \in Nat
    BY <1>1, FieldTypes DEF IInv, TypeOK
  <1>3. result_gas_left \in 0 .. tx_gas
    <2>1. top.status \in {SUCCESS, REVERT} => top.gas_left >= 0
      BY <1>1 DEF IInv, TypeOK
    <2>2. top.status \in {SUCCESS, REVERT} => top.gas_left <= tx_gas
      BY <1>1 DEF IInv, FirstFrame
    <2> QED
      BY <1>2, <2>1, <2>2 DEF result_gas_left
  <1>4. result_gas_refund \in Int
    BY <1>2 DEF result_gas_refund
  <1>5. slot' \in Slots
    BY <1>2 DEF EndTransaction, Restored
  <1>6. gas_used' \in Int
    <2> DEFINE used == tx_gas + tx_cost - result_gas_left
    <2>1. used \in Int
      BY <1>2, <1>3, TxCost
    <2>2. gas_used' = used - min(result_gas_refund, used \div max_refund_quotient)
      BY DEF EndTransaction
    <2> HIDE DEF used
    <2>3. used \div max_refund_quotient \in Int
      BY <2>1 DEF max_refund_quotient
    <2>4. min(result_gas_refund, used \div max_refund_quotient) \in Int
      BY <1>4, <2>3 DEF min
    <2> QED
      BY <2>1, <2>2, <2>4
  <1>7. frames' = <<>> /\ UNCHANGED <<tx_gas, tx_listed, txs, ops>>
    BY DEF EndTransaction
  <1>8. TypeOK'
    BY <1>5, <1>6, <1>7, MaxDepthAssumption DEF IInv, TypeOK, depth
  <1>9. depth' = 0
    BY <1>7 DEF depth
  <1>10. IInv'
    BY <1>7, <1>8, <1>9 DEF IInv, NetCostDependsOnlyOnEnds, ChangeIsPaid, RefundsLinked, CalleeReturnsNoExtraGas,
         StaticInherited, StaticFrameWritesNothing, FirstFrame
  <1> QED
    BY <1>3, <1>4, <1>7, <1>10

------------------------------------------------------------------------------
(* The theorems.                                                           *)

(* Before the first transaction.                                           *)
LEMMA InitEstablishes == Init => IInv /\ txs = 0 /\ Clean(slot)
  <1> SUFFICES ASSUME Init PROVE IInv /\ txs = 0 /\ Clean(slot)
    OBVIOUS
  <1>1. PICK v \in Values : slot = [current |-> v, original |-> v, access_status |-> "COLD"]
    BY DEF Init
  <1>2. slot \in Slots /\ Clean(slot)
    BY <1>1 DEF Slots, Clean
  <1>a. tx_listed \in BOOLEAN
    BY Zenon DEF Init
  <1>3. TypeOK
    BY <1>2, <1>a, MaxDepthAssumption, MaxOpsAssumption, MaxTransactionsAssumption DEF Init, TypeOK, depth
  <1> QED
    BY <1>2, <1>3, NoFrames DEF Init

(* Every step keeps the invariant.                                         *)
LEMMA NextPreserves == IInv /\ [Next]_vars => IInv'
  <1> SUFFICES ASSUME IInv, [Next]_vars PROVE IInv'
    OBVIOUS
  <1>1. ASSUME NEW gas \in GasLimits, NEW listed \in BOOLEAN, StartTransaction(gas, listed) PROVE IInv'
    BY <1>1, StartStep
  <1>2. CASE sload
    BY <1>2, SloadStep
  <1>3. ASSUME NEW value \in Values, sstore(value) PROVE IInv'
    BY <1>3, SstoreStep
  <1>4. ASSUME NEW code \in {SUCCESS, REVERT}, Finish(code) PROVE IInv'
    BY <1>4, FinishStep
  <1>5. ASSUME NEW gas \in CallGas, NEW static \in BOOLEAN, call(gas, static) PROVE IInv'
    BY <1>5, CallStep
  <1>6. CASE return_to_caller
    BY <1>6, ReturnStep
  <1>7. CASE EndTransaction
    BY <1>7, EndStep
  <1>8. CASE UNCHANGED vars
    BY <1>8 DEF vars, IInv, TypeOK, NetCostDependsOnlyOnEnds, ChangeIsPaid, RefundsLinked,
         CalleeReturnsNoExtraGas, StaticInherited, StaticFrameWritesNothing, FirstFrame, SlotAfter, depth,
         NetCost, ChangePrice, Clean, Live
  <1> QED
    BY <1>1, <1>2, <1>3, <1>4, <1>5, <1>6, <1>7, <1>8 DEF Next

(* The invariant holds of every behaviour of SLOADs, SSTOREs, calls,       *)
(* returns and transactions.                                               *)
THEOREM Invariance == Spec => []IInv
  <1>1. Init => IInv
    BY InitEstablishes
  <1> QED
    BY <1>1, NextPreserves, PTL DEF Spec

(* Types, and: a frame that has not failed has gas that is not negative.   *)
THEOREM TypeCorrect == Spec => []TypeOK
  <1>1. IInv => TypeOK
    BY DEF IInv
  <1> QED
    BY <1>1, Invariance, PTL

(* The net price of the writes of a transaction is a function of the value *)
(* the slot had and the value it has, through any nesting of calls, failed *)
(* ones among them: the cost and refund table of instructions_storage.cpp  *)
(* telescopes.                                                             *)
THEOREM NetCostTelescopes == Spec => []NetCostDependsOnlyOnEnds
  <1>1. IInv => NetCostDependsOnlyOnEnds
    BY DEF IInv
  <1> QED
    BY <1>1, Invariance, PTL

(* No call returns more gas than it was given, or is given more than the   *)
(* caller has: call_impl() and the results of Host::call.                  *)
THEOREM CallsCreateNoGas == Spec => []CalleeReturnsNoExtraGas
  <1>1. IInv => CalleeReturnsNoExtraGas
    BY DEF IInv
  <1> QED
    BY <1>1, Invariance, PTL

(* A static frame, and whatever it calls, leaves the slot as it is: the    *)
(* flag that call_impl() passes on and the check of sstore().              *)
THEOREM StaticCallsWriteNothing == Spec => []StaticFrameWritesNothing
  <1>1. IInv => StaticFrameWritesNothing
    BY DEF IInv
  <1> QED
    BY <1>1, Invariance, PTL

(* A slot's net cost is at most the price of its change.                   *)
LEMMA NetCostBounded ==
  ASSUME NEW s
  PROVE  /\ NetCost(s) <= ChangePrice(s)
         /\ ChangePrice(s) \in Nat
         /\ Clean(s) => NetCost(s) = 0
  BY DEF NetCost, ChangePrice, Clean, warm_access, set, reset, clear, warm_storage_read_cost, cold_sload_cost

(* What was paid for the change covers what refunds can take back.         *)
LEMMA RefundsCovered == IInv => RefundNeverOverdrawn
  <1> SUFFICES ASSUME IInv, NEW k \in 1 .. depth, frames[k].status \in {"RUNNING", SUCCESS},
                      frames[1].snapshot.current = frames[1].snapshot.original
               PROVE  frames[k].outer_refund + frames[k].gas_refund >= 0
    BY DEF RefundNeverOverdrawn
  <1>1. frames # <<>>
    BY DEF depth
  <1>2. frames[k] \in FrameSet
    BY <1>1, FrameTypes DEF IInv
  <1>3. frames[k].spent \in Nat /\ frames[k].outer_refund \in Int /\ frames[k].gas_refund \in Int
    BY <1>2, FieldTypes
  <1>4. NetCost(frames[1].snapshot) = 0
    BY NetCostBounded DEF Clean
  <1>5. frames[k].spent - (frames[k].outer_refund + frames[k].gas_refund) = NetCost(SlotAfter(k)) - 0
    BY <1>4 DEF IInv, NetCostDependsOnlyOnEnds
  <1>6. frames[k].spent >= ChangePrice(SlotAfter(k))
    BY DEF IInv, ChangeIsPaid, Live, Clean
  <1>7. NetCost(SlotAfter(k)) <= ChangePrice(SlotAfter(k)) /\ ChangePrice(SlotAfter(k)) \in Nat
        /\ NetCost(SlotAfter(k)) \in Int
    BY NetCostBounded, NetCostType
  <1> QED
    BY <1>3, <1>5, <1>6, <1>7

(* The refunds of all open frames together are not negative in a           *)
(* transaction that finds the slot clean, although an inner frame may take *)
(* back what an outer one was given.                                       *)
THEOREM RefundCovered == Spec => []RefundNeverOverdrawn
  BY Invariance, RefundsCovered, PTL

(* What transition() computes for the receipt of a transaction that found  *)
(* the slot clean.                                                         *)
LEMMA EndWithinLimit ==
  ASSUME IInv, EndTransaction, Clean(frames[1].snapshot)
  PROVE  gas_used' \in 1 .. (tx_gas + tx_cost)
  <1> DEFINE used == tx_gas + tx_cost - result_gas_left
             fifth == used \div max_refund_quotient
  <1>1. frames # <<>> /\ depth = 1 /\ top = frames[1] /\ top \in FrameSet /\ tx_gas \in Nat
    BY FrameTypes DEF IInv, EndTransaction, Ended, top, TypeOK
  <1>2. top.outer_refund = 0 /\ top.gas_refund \in Int
    BY <1>1, FieldTypes DEF IInv, FirstFrame
  <1>3. result_gas_refund \in Nat
    <2>1. CASE top.status = SUCCESS
      <3>1. top.outer_refund + top.gas_refund >= 0
        BY <1>1, <2>1, RefundsCovered DEF RefundNeverOverdrawn, Clean
      <3> QED
        BY <1>2, <2>1, <3>1 DEF result_gas_refund
    <2>2. CASE top.status # SUCCESS
      BY <2>2 DEF result_gas_refund
    <2> QED
      BY <2>1, <2>2
  <1>4. used \in tx_cost .. (tx_gas + tx_cost) /\ used \in Nat
    BY <1>1, EndStep, TxCost
  <1>5. gas_used' = used - min(result_gas_refund, fifth)
    BY DEF EndTransaction
  <1>6. used >= tx_cost /\ used <= tx_gas + tx_cost
    BY <1>4, <1>1, TxCost
  <1> HIDE DEF used
  <1>7. fifth \in Nat /\ 5 * fifth <= used
    BY <1>4 DEF max_refund_quotient
  <1> HIDE DEF fifth
  <1>8. min(result_gas_refund, fifth) \in Nat /\ min(result_gas_refund, fifth) <= fifth
    BY <1>3, <1>7 DEF min
  <1>9. gas_used' \in Int /\ gas_used' >= 1 /\ gas_used' <= used
    BY <1>4, <1>5, <1>6, <1>7, <1>8, TxCost
  <1> QED
    BY <1>1, <1>4, <1>6, <1>9, TxCost

(* A transaction that finds the slot as the block loaded it is charged at  *)
(* least 1 gas, as transition() asserts, and at most its limit.            *)
THEOREM CleanStartWithinLimit ==
  Spec => [][EndTransaction /\ Clean(frames[1].snapshot) => gas_used' \in 1 .. (tx_gas + tx_cost)]_vars
  <1>1. IInv /\ [Next]_vars =>
          [EndTransaction /\ Clean(frames[1].snapshot) => gas_used' \in 1 .. (tx_gas + tx_cost)]_vars
    BY EndWithinLimit
  <1> QED
    BY <1>1, Invariance, PTL DEF Spec

(* What is true of the first transaction of a block: it finds the slot     *)
(* clean.                                                                  *)
FirstTransaction ==
  /\ txs = 0 => frames = <<>> /\ Clean(slot)
  /\ txs \in {0, 1} /\ frames # <<>> => Clean(frames[1].snapshot)
  /\ txs \in {0, 1} => GasUsedWithinLimit

(* The first transaction starts on a clean slot and keeps it saved.        *)
LEMMA FirstTransactionStep ==
  ASSUME IInv, FirstTransaction, [Next]_vars
  PROVE  FirstTransaction'
  <1>0. txs \in Nat /\ frames \in Seq(FrameSet)
    BY MaxTransactionsAssumption DEF IInv, TypeOK
  <1>1. ASSUME SameStart PROVE FirstTransaction'
    <2>1. txs # 0
      BY <1>1 DEF SameStart, FirstTransaction
    <2> QED
      BY <1>1, <2>1 DEF SameStart, FirstTransaction, GasUsedWithinLimit, Clean
  <1>2. ASSUME NEW gas \in GasLimits, NEW listed \in BOOLEAN, StartTransaction(gas, listed)
        PROVE  FirstTransaction'
    <2>1. /\ frames' # <<>> /\ frames'[1].snapshot = slot'
          /\ slot'.current = slot.current /\ slot'.original = slot.original
      BY <1>2, StartStep
    <2>2. txs' = txs + 1
      BY <1>2 DEF StartTransaction
    <2>3. txs' = 1 => Clean(slot)
      BY <1>0, <2>2 DEF FirstTransaction
    <2> QED
      BY <1>0, <2>1, <2>2, <2>3 DEF FirstTransaction, GasUsedWithinLimit, Clean
  <1>3. CASE EndTransaction
    <2>1. frames' = <<>> /\ tx_gas' = tx_gas /\ tx_cost' = tx_cost /\ txs' = txs /\ frames # <<>>
      BY <1>3, EndStep DEF EndTransaction, Ended, tx_cost
    <2>2. txs # 0
      BY <2>1 DEF FirstTransaction
    <2>3. txs = 1 => gas_used' \in 1 .. (tx_gas + tx_cost)
      BY <1>3, <2>1, EndWithinLimit DEF FirstTransaction
    <2> QED
      BY <2>1, <2>2, <2>3 DEF FirstTransaction, GasUsedWithinLimit
  <1>4. CASE UNCHANGED vars
    BY <1>4 DEF vars, FirstTransaction, GasUsedWithinLimit, Clean, tx_cost
  <1> QED
    BY <1>1, <1>2, <1>3, <1>4, SloadStep, SstoreStep, FinishStep, CallStep, ReturnStep DEF Next

(* In a block of one transaction the receipt is within the limit, for      *)
(* every program of loads, stores and calls.  The assumption is needed:    *)
(* the slot a later transaction finds need not be clean.                   *)
THEOREM FirstTransactionWithinLimit ==
  ASSUME MaxTransactions <= 1
  PROVE  Spec => []GasUsedWithinLimit
  <1>1. Init => FirstTransaction
    BY InitEstablishes DEF Init, FirstTransaction, GasUsedWithinLimit
  <1>2. IInv /\ FirstTransaction /\ [Next]_vars => FirstTransaction'
    BY FirstTransactionStep
  <1>3. IInv /\ FirstTransaction => GasUsedWithinLimit
    <2> SUFFICES ASSUME IInv, FirstTransaction PROVE GasUsedWithinLimit
      OBVIOUS
    <2>1. txs \in 0 .. MaxTransactions
      BY DEF IInv, TypeOK
    <2>2. txs \in {0, 1}
      BY <2>1, MaxTransactionsAssumption
    <2> QED
      BY <2>2 DEF FirstTransaction
  <1> QED
    BY <1>1, <1>2, <1>3, Invariance, PTL DEF Spec
==============================================================================
