------------------------ MODULE SignalExposure_proofs ------------------------
(***************************************************************************)
(* Proofs about the positions of a single executor: any signals, symbols   *)
(* and limits, one host. With two hosts both limits can be passed, for     *)
(* each reads the broker before the other's order is filled.               *)
(***************************************************************************)
EXTENDS SignalExecution_proofs, FiniteSetTheorems

(* How a host's step moves it: it lets its signal go; counts the positions;*)
(* finds the exposure clear; or goes on with the signal it cleared.        *)
Moved(p) ==
    \/ pc'[p] \in {"idle", "scan"}
    \/ pc'[p] = "counted" /\ CapacityLeft
    \/ /\ pc[p] = "counted" /\ pc'[p] = "exposed"
       /\ cur'[p] = cur[p] /\ ExposureClear(cur[p])
    \/ pc[p] \in Cleared /\ pc'[p] \in Holding /\ cur'[p] = cur[p]

(* A host leaves the positions and their history to the broker, except     *)
(* that it protects some.                                                  *)
LEMMA HostMoves ==
    ASSUME TypeOK, NEW p \in Host, HostStep(p) \/ Restart(p)
    PROVE  UNCHANGED <<open, late, fills>> /\ bare' \subseteq bare /\ Moved(p)
  <1> DEFINE Goal == UNCHANGED <<open, late, fills>> /\ bare' \subseteq bare /\ Moved(p)
  <1> USE DEF TypeOK, Moved, Cleared, Holding, hostVars, brokerVars, history
  <1>1. CASE Poll(p)
    BY <1>1 DEF Poll, Goto
  <1>2. CASE EndPoll(p)
    BY <1>2 DEF EndPoll, Goto
  <1>3. CASE PassExposure(p)
    BY <1>3 DEF PassExposure, Goto
  <1>4. CASE ExposureBlocks(p)
    BY <1>4 DEF ExposureBlocks, Finish, Goto
  <1>5. CASE Claim(p)
    BY <1>5 DEF Claim, Goto
  <1>6. CASE ClaimFails(p)
    BY <1>6 DEF ClaimFails, Finish, Goto
  <1>7. CASE Enter(p)
    BY <1>7 DEF Enter, Goto
  <1>8. CASE EnterBlocked(p)
    BY <1>8 DEF EnterBlocked, Fail, Goto
  <1>9. CASE Vet(p)
    BY <1>9 DEF Vet, Goto
  <1>10. CASE VetFails(p)
    BY <1>10 DEF VetFails, Fail, Goto
  <1>11. CASE Quarantine(p)
    BY <1>11 DEF Quarantine, Goto
  <1>12. CASE QuarantineUnsaved(p)
    BY <1>12 DEF QuarantineUnsaved, Fail, Goto
  <1>13. CASE RecheckFails(p)
    BY <1>13 DEF RecheckFails, Fail, Goto
  <1>14. CASE Submit(p)
    BY <1>14 DEF Submit, Goto
  <1>15. CASE OutcomeUnknown(p)
    BY <1>15 DEF OutcomeUnknown, Fail, Goto
  <1>16. CASE ProtectionVerified(p)
    BY <1>16 DEF ProtectionVerified, Goto
  <1>17. CASE ProtectionUnverified(p)
    BY <1>17 DEF ProtectionUnverified, Goto
  <1>18. CASE RecordVerified(p)
    BY <1>18 DEF RecordVerified, Finish, Goto
  <1>19. CASE RecordUnverified(p)
    BY <1>19 DEF RecordUnverified, Fail, Goto
  <1>20. CASE RecordExecutedUnsaved(p)
    BY <1>20 DEF RecordExecutedUnsaved, Fail, Goto
  <1>21. CASE RecordRefused(p)
    BY <1>21 DEF RecordRefused, Goto
  <1>22. CASE RecordRefusedUnsaved(p)
    BY <1>22 DEF RecordRefusedUnsaved, Fail, Goto
  <1>23. CASE Retry(p)
    BY <1>23 DEF Retry, Goto
  <1>24. CASE GiveUp(p)
    BY <1>24 DEF GiveUp, Finish, Goto
  <1>25. CASE Requeue(p)
    BY <1>25 DEF Requeue, Finish, Goto
  <1>26. CASE Restart(p)
    BY <1>26 DEF Restart, Goto
  <1>27. ASSUME NEW s \in Signal, PassOver(p, s) PROVE Goal
    BY <1>27 DEF PassOver
  <1>28. ASSUME NEW s \in Signal, PassCapacity(p, s) PROVE Goal
    BY <1>28 DEF PassCapacity, Goto
  <1> QED
    BY <1>1, <1>2, <1>3, <1>4, <1>5, <1>6, <1>7, <1>8, <1>9, <1>10,
       <1>11, <1>12, <1>13, <1>14, <1>15, <1>16, <1>17, <1>18, <1>19,
       <1>20, <1>21, <1>22, <1>23, <1>24, <1>25, <1>26, <1>27, <1>28
       DEF HostStep

(* No position is added, none stops being late without closing, and the    *)
(* hosts stay with their signals.                                          *)
Eased ==
    /\ UNCHANGED <<fills, cur>>
    /\ open' \subseteq open
    /\ open' \ late' \subseteq open \ late
    /\ bare' \ late' \subseteq bare \ late
    /\ \A p \in Host : pc'[p] = pc[p] \/ (pc[p] \in Holding /\ pc'[p] \in Holding)

(* A step that is neither a host's nor a fill.                             *)
LEMMA OthersEase ==
    ASSUME TypeOK, [Next]_vars,
           ~ \E p \in Host : HostStep(p) \/ Restart(p),
           ~ \E p \in Host, s \in Signal : BrokerFills(p, s)
    PROVE  Eased
  <1> USE DEF TypeOK, Eased, Holding, hostVars, brokerVars, history
  <1>1. ASSUME NEW p \in Host, NEW s \in Signal, BrokerAccepts(p, s) PROVE Eased
    BY <1>1 DEF BrokerAccepts, Goto, Awaits
  <1>2. ASSUME NEW p \in Host, NEW s \in Signal, BrokerRefuses(p, s) PROVE Eased
    BY <1>2 DEF BrokerRefuses, Goto, Awaits
  <1>3. ASSUME NEW p \in Host, NEW s \in Signal, OrderVanishes(p, s) PROVE Eased
    BY <1>3 DEF OrderVanishes
  <1>4. ASSUME NEW o \in Order, PositionCloses(o) PROVE Eased
    BY <1>4 DEF PositionCloses
  <1>5. ASSUME NEW o \in Order, PositionRepaired(o) PROVE Eased
    BY <1>5 DEF PositionRepaired
  <1>6. CASE SetSwitches
    BY <1>6 DEF SetSwitches
  <1>7. CASE UNCHANGED vars
    BY <1>7 DEF vars
  <1> QED
    BY <1>1, <1>2, <1>3, <1>4, <1>5, <1>6, <1>7 DEF Next, BrokerStep

(* What a fill does: one position more, of the signal the host settles, or *)
(* a late one.                                                             *)
LEMMA FillAdds ==
    ASSUME TypeOK, NEW p \in Host, NEW s \in Signal, BrokerFills(p, s)
    PROVE  /\ cur' = cur
           /\ open' = open \cup {<<p, s>>}
           /\ bare' \subseteq bare \cup {<<p, s>>}
           /\ late' = IF Settling(p, s) THEN late ELSE late \cup {<<p, s>>}
           /\ fills'[p][s] > 0
           /\ \A o \in Order : fills[o[1]][o[2]] > 0 => fills'[o[1]][o[2]] > 0
           /\ \A q \in Host : pc'[q] = pc[q] \/ (pc[q] \in Holding /\ pc'[q] \in Holding)
  <1> USE DEF TypeOK, Order
  <1>1. fills'[p][s] = fills[p][s] + 1 /\ fills[p][s] \in Nat
    BY DEF BrokerFills
  <1>2. ASSUME NEW o \in Order, fills[o[1]][o[2]] > 0 PROVE fills'[o[1]][o[2]] > 0
    <2>1. CASE o = <<p, s>>
      BY <2>1, <1>1
    <2>2. CASE o # <<p, s>>
      <3>1. PICK q \in Host, r \in Signal : o = <<q, r>>
        OBVIOUS
      <3>2. fills'[q][r] = fills[q][r]
        BY <2>2, <3>1 DEF BrokerFills
      <3> QED
        BY <1>2, <3>1, <3>2
    <2> QED
      BY <2>1, <2>2
  <1>3. /\ \A q \in Host : pc'[q] = pc[q] \/ (pc[q] \in Holding /\ pc'[q] \in Holding)
        /\ cur' = cur /\ bare' \subseteq bare \cup {<<p, s>>}
    BY DEF BrokerFills, Awaits, Holding
  <1> QED
    BY <1>1, <1>2, <1>3 DEF BrokerFills

-----------------------------------------------------------------------------
(* One position per symbol                                                 *)

(* Initially nothing is open.                                              *)
LEMMA ExposureInit == Init => StackingOnlyFromLate /\ \A h \in Host : ExposureInv(h)
  BY DEF Init, StackingOnlyFromLate, ExposureInv, Cleared, Holding

(* Every step keeps what a single host may rely on since it found the      *)
(* exposure clear, and so never stacks two positions that are not late.    *)
LEMMA ExposureNext ==
    ASSUME NEW h, Host = {h}, TypeOK, ExposureInv(h), StackingOnlyFromLate, [Next]_vars
    PROVE  ExposureInv(h)' /\ StackingOnlyFromLate'
  <1> USE DEF ExposureInv, StackingOnlyFromLate
  <1>0. h \in Host /\ bare \subseteq open /\ open \subseteq Order /\ TypeOK'
    BY TypeNext DEF TypeOK
  <1>1. CASE \E p \in Host : HostStep(p) \/ Restart(p)
    <2>1. UNCHANGED <<open, late, fills>> /\ bare' \subseteq bare /\ Moved(h)
      BY <1>1, HostMoves
    <2>2. CASE pc'[h] \in {"idle", "scan", "counted"}
      BY <2>1, <2>2 DEF Cleared, Holding
    <2>3. CASE pc[h] = "counted" /\ cur'[h] = cur[h] /\ ExposureClear(cur[h])
      BY <2>1, <2>3 DEF ExposureClear
    <2>4. CASE pc[h] \in Cleared /\ cur'[h] = cur[h]
      BY <2>1, <2>4
    <2> QED
      BY <2>1, <2>2, <2>3, <2>4 DEF Moved
  <1>2. ASSUME NEW p \in Host, NEW s \in Signal, BrokerFills(p, s)
        PROVE  ExposureInv(h)' /\ StackingOnlyFromLate'
    <2> USE FillAdds, <1>2
    <2>1. p = h
      OBVIOUS
    <2>2. \A o \in open' : fills'[o[1]][o[2]] > 0
      BY <1>0
    <2>3. pc'[h] \in Cleared => pc[h] \in Cleared
      BY <1>0 DEF Cleared
    <2>4. CASE ~ Settling(p, s)
      <3>1. open' \ late' \subseteq open \ late /\ bare' \ late' \subseteq bare \ late
        BY <2>4
      <3> QED
        BY <2>2, <2>3, <3>1
    <2>5. CASE Settling(p, s)
      <3>1. cur[h] = s /\ pc[h] \in Cleared
        BY <2>1, <2>5 DEF Settling, Cleared
      <3>2. /\ open' \ late' \subseteq (open \ late) \cup {<<h, s>>}
            /\ bare' \ late' \subseteq (bare \ late) \cup {<<h, s>>}
        BY <2>1, <2>5
      <3>3. \A o \in open \ late : SymbolOf[o[2]] = SymbolOf[s] => o = <<h, s>>
        <4>1. \A o \in Order : o[2] = s => o = <<h, s>>
          BY DEF Order
        <4> QED
          BY <1>0, <3>1, <4>1
      <3> QED
        BY <2>2, <3>1, <3>2, <3>3
    <2> QED
      BY <2>4, <2>5
  <1>3. CASE Eased
    <2>1. pc'[h] \in Cleared => pc[h] \in Cleared
      BY <1>0, <1>3 DEF Cleared, Eased
    <2> QED
      BY <1>3, <2>1 DEF Eased
  <1> QED
    BY <1>1, <1>2, <1>3, OthersEase

(* With one host the exposure invariant holds always.                      *)
LEMMA ExposureHolds ==
    ASSUME NEW CONSTANT h, Host = {h}
    PROVE  Spec => [](ExposureInv(h) /\ StackingOnlyFromLate)
  <1>1. Init => ExposureInv(h) /\ StackingOnlyFromLate
    BY ExposureInit
  <1>2. TypeOK /\ (ExposureInv(h) /\ StackingOnlyFromLate) /\ [Next]_vars
        => (ExposureInv(h) /\ StackingOnlyFromLate)'
    BY ExposureNext
  <1> QED
    BY <1>1, <1>2, TypeCorrect, PTL DEF Spec

(* One executor never holds two positions on a symbol, those filled after  *)
(* it had let their signal go apart: the check of the open positions, made *)
(* before the claim, still holds when the order is filled.                 *)
THEOREM StackingOnlyFromLateHolds ==
    ASSUME NEW CONSTANT h, Host = {h}
    PROVE  Spec => []StackingOnlyFromLate
  BY ExposureHolds, PTL

(* A host with a durable file stands before a submission only of a signal  *)
(* of which it has had no order executed.                                  *)
SubmitsUnfilled ==
    \A p \in Durable : pc[p] = "quarantined" /\ cur[p] \in Signal =>
        ~ (fills[p][cur[p]] > 0)

(* It follows from the invariant of the state file.                        *)
LEMMA SubmitsUnfilledHolds == Spec => []SubmitsUnfilled
  <1>1. (\A h \in Durable, s \in Signal : JournalInv(h, s)) => SubmitsUnfilled
    BY DEF JournalInv, Ordered, SubmitsUnfilled
  <1> QED
    BY <1>1, JournalHolds, PTL

(* One executor with a durable file sends no order while a position that   *)
(* is not late stands without stop loss and take profit: its own signal    *)
(* has no order out when it submits.                                       *)
THEOREM NoOrderOverBarePositionHolds ==
    ASSUME NEW CONSTANT h, Host = {h}, Durable = {h}
    PROVE  Spec => NoOrderOverBarePosition
  <1>1. TypeOK /\ (ExposureInv(h) /\ StackingOnlyFromLate) /\ SubmitsUnfilled
        /\ [Next]_vars
        => [wire' \subseteq wire \/ bare \subseteq late]_vars
    <2> SUFFICES ASSUME TypeOK, ExposureInv(h),
                        SubmitsUnfilled, [Next]_vars, ~ (wire' \subseteq wire)
                 PROVE  bare \subseteq late
      OBVIOUS
    <2>1. wire' \subseteq Order
      BY TypeNext DEF TypeOK
    <2>2. PICK p \in Host, s \in Signal : <<p, s>> \in wire' /\ <<p, s>> \notin wire
      BY <2>1 DEF Order
    <2>3. pc[h] = "quarantined"
      BY <2>2, OnlySubmitSends
    <2>4. cur[h] \in Signal
      BY <2>3, CurTyped
    <2>5. ~ (fills[h][cur[h]] > 0)
      BY <2>3, <2>4 DEF SubmitsUnfilled
    <2>6. \A o \in bare \ late : o[2] = cur[h] /\ o[1] = h /\ fills[o[1]][o[2]] > 0
      BY <2>3 DEF ExposureInv, Cleared, Holding, TypeOK, Order
    <2> QED
      BY <2>5, <2>6
  <1> QED
    BY <1>1, ExposureHolds, SubmitsUnfilledHolds, TypeCorrect, PTL DEF Spec, NoOrderOverBarePosition

-----------------------------------------------------------------------------
(* The number of positions                                                 *)

(* Initially nothing is open, which is not above the limit.                *)
LEMMA RoomInit == Init => CapacityUnlessLate /\ \A h \in Host : RoomInv(h)
  <1> SUFFICES ASSUME Init PROVE CapacityUnlessLate /\ \A h \in Host : RoomInv(h)
    OBVIOUS
  <1>1. open = {} /\ IsFiniteSet(open) /\ Cardinality(open \ late) = 0
    <2>1. open = {} /\ open \ late = {}
      BY DEF Init
    <2> QED
      BY <2>1, FS_EmptySet
  <1> QED
    BY <1>1, BoundsAssumption DEF Init, RoomInv, CapacityUnlessLate

(* Fewer positions need no more room.                                      *)
LEMMA FewerFit ==
    ASSUME NEW S, NEW T, IsFiniteSet(S), T \subseteq S
    PROVE  IsFiniteSet(T) /\ Cardinality(T) <= Cardinality(S)
           /\ Cardinality(T) \in Nat /\ Cardinality(S) \in Nat
  BY FS_Subset, FS_CardinalityType

(* One position more needs room for one more.                              *)
LEMMA OneMore ==
    ASSUME NEW S, NEW x, IsFiniteSet(S)
    PROVE  IsFiniteSet(S \cup {x}) /\ Cardinality(S \cup {x}) <= Cardinality(S) + 1
  <1>1. Cardinality(S) \in Nat
    BY FS_CardinalityType
  <1>2. /\ IsFiniteSet(S \cup {x})
        /\ Cardinality(S \cup {x}) = IF x \in S THEN Cardinality(S) ELSE Cardinality(S) + 1
    BY FS_AddElement
  <1> QED
    BY <1>1, <1>2

(* Every step keeps the room a single host found, and the limit.           *)
LEMMA RoomNext ==
    ASSUME NEW h, Host = {h}, TypeOK, RoomInv(h), CapacityUnlessLate, [Next]_vars
    PROVE  RoomInv(h)' /\ CapacityUnlessLate'
  <1> DEFINE others == {o \in open \ late : o[2] # cur[h]}
  <1> USE BoundsAssumption
  <1>0. h \in Host /\ open \subseteq Order /\ TypeOK'
    BY TypeNext DEF TypeOK
  <1>1. IsFiniteSet(open) /\ IsFiniteSet(open \ late) /\ IsFiniteSet(others)
    BY FewerFit DEF RoomInv
  <1>2. ASSUME open' \subseteq open, open' \ late' \subseteq open \ late
        PROVE  IsFiniteSet(open') /\ CapacityUnlessLate'
    <2>1. IsFiniteSet(open')
      BY <1>1, <1>2, FewerFit
    <2>2. /\ Cardinality(open' \ late') <= Cardinality(open \ late)
          /\ Cardinality(open' \ late') \in Nat /\ Cardinality(open \ late) \in Nat
      BY <1>1, <1>2, FewerFit
    <2> QED
      BY <2>1, <2>2 DEF CapacityUnlessLate
  <1>3. ASSUME others' \subseteq others, pc[h] \notin {"idle", "scan"}
        PROVE  Cardinality(others') < MaxPositions
    BY <1>1, <1>3, FewerFit DEF RoomInv
  <1>4. CASE \E p \in Host : HostStep(p) \/ Restart(p)
    <2>1. UNCHANGED <<open, late>> /\ Moved(h)
      BY <1>4, HostMoves
    <2>2. IsFiniteSet(open') /\ CapacityUnlessLate'
      BY <1>2, <2>1
    <2>3. CASE pc'[h] \in {"idle", "scan"}
      BY <2>2, <2>3 DEF RoomInv
    <2>4. CASE CapacityLeft
      <3>1. others' \subseteq open
        BY <2>1
      <3>2. Cardinality(others') < MaxPositions
        BY <1>1, <2>4, <3>1, FewerFit DEF CapacityLeft
      <3> QED
        BY <2>2, <3>2 DEF RoomInv
    <2>5. CASE pc[h] \notin {"idle", "scan"} /\ cur'[h] = cur[h]
      <3>1. Cardinality(others') < MaxPositions
        BY <1>3, <2>1, <2>5
      <3> QED
        BY <2>2, <3>1 DEF RoomInv
    <2> QED
      BY <2>1, <2>3, <2>4, <2>5 DEF Moved, Cleared, Holding
  <1>5. ASSUME NEW p \in Host, NEW s \in Signal, BrokerFills(p, s)
        PROVE  RoomInv(h)' /\ CapacityUnlessLate'
    <2>1. /\ p = h /\ cur' = cur
          /\ open' = open \cup {<<h, s>>}
          /\ late' = IF Settling(h, s) THEN late ELSE late \cup {<<h, s>>}
          /\ pc'[h] \notin {"idle", "scan"} => pc[h] \notin {"idle", "scan"}
      BY <1>5, FillAdds DEF Holding
    <2>2. IsFiniteSet(open')
      BY <1>1, <2>1, FS_AddElement
    <2>3. others' \subseteq others
      BY <2>1 DEF Settling
    <2>4. RoomInv(h)'
      BY <1>3, <2>1, <2>2, <2>3 DEF RoomInv
    <2>5. CASE ~ Settling(h, s)
      <3>1. open' \ late' \subseteq open \ late
        BY <2>1, <2>5
      <3> QED
        BY <1>1, <2>4, <3>1, FewerFit DEF CapacityUnlessLate
    <2>6. CASE Settling(h, s)
      <3>1. open' \ late' \subseteq others \cup {<<h, s>>}
        <4>1. cur[h] = s
          BY <2>6 DEF Settling
        <4>2. \A o \in Order : o[2] = s => o = <<h, s>>
          BY DEF Order
        <4> QED
          BY <1>0, <2>1, <2>6, <4>1, <4>2
      <3>2. Cardinality(others) < MaxPositions
        BY <2>6 DEF RoomInv, Settling, Holding
      <3>3. /\ IsFiniteSet(others \cup {<<h, s>>})
            /\ Cardinality(others \cup {<<h, s>>}) <= Cardinality(others) + 1
        BY <1>1, OneMore
      <3>4. Cardinality(open' \ late') <= MaxPositions
        BY <1>1, <3>1, <3>2, <3>3, FewerFit, FS_CardinalityType
      <3> QED
        BY <2>4, <3>4 DEF CapacityUnlessLate
    <2> QED
      BY <2>5, <2>6
  <1>6. CASE Eased
    <2>1. /\ IsFiniteSet(open') /\ CapacityUnlessLate'
          /\ pc'[h] \notin {"idle", "scan"} => pc[h] \notin {"idle", "scan"}
          /\ others' \subseteq others
      BY <1>0, <1>2, <1>6 DEF Eased, Holding
    <2> QED
      BY <1>3, <2>1 DEF RoomInv
  <1> QED
    BY <1>4, <1>5, <1>6, OthersEase

(* One executor never holds more positions than it may, those filled after *)
(* it had let their signal go apart: the count, made before the claim, is  *)
(* not out of date when the order is filled.                               *)
THEOREM CapacityUnlessLateHolds ==
    ASSUME NEW CONSTANT h, Host = {h}
    PROVE  Spec => []CapacityUnlessLate
  <1>1. Init => RoomInv(h) /\ CapacityUnlessLate
    BY RoomInit
  <1>2. TypeOK /\ (RoomInv(h) /\ CapacityUnlessLate) /\ [Next]_vars
        => (RoomInv(h) /\ CapacityUnlessLate)'
    BY RoomNext
  <1> QED
    BY <1>1, <1>2, TypeCorrect, PTL DEF Spec
==============================================================================
