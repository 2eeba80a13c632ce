----------------------- MODULE CheckpointStore_proofs -----------------------
(***************************************************************************)
(* Proofs about CheckpointStore for any set of instances and contents and  *)
(* any bounds.                                                             *)
(***************************************************************************)
EXTENDS CheckpointStore, TLAPS

(* A lease that was granted is a lease.                                    *)
LEMMA GrantedType ==
    ASSUME NEW r \in Robot
    PROVE  Granted(r) \in Lease
BY LeaseAssumption DEF Granted, Lease

(* Every variable keeps its type.                                          *)
LEMMA TypeStep == TypeOK /\ [Next]_svars => TypeOK'
<1> SUFFICES ASSUME TypeOK, [Next]_svars PROVE TypeOK'
    OBVIOUS
<1> USE DEF TypeOK, Row, Receipt, Revision
<1>1. ASSUME NEW r \in Robot, Acquire(r) PROVE TypeOK'
      BY <1>1, GrantedType DEF Acquire
<1>2. ASSUME NEW r \in Robot, Touch(r) PROVE TypeOK'
      BY <1>2, GrantedType DEF Touch
<1>3. ASSUME NEW r \in Robot, NEW base \in 0 .. 2 * MaxRevision, NEW rev \in Revision,
             NEW d \in Data, Save(r, base, rev, d)
      PROVE  TypeOK'
  <2>1. lease' \in Lease
        BY <1>3, GrantedType DEF Save
  <2>2. base \in Nat
        BY BoundAssumption
  <2>3. CASE SaveRepeated(base, rev, d)
    <3>1. receipts[rev] \in Receipt
          BY <2>3 DEF SaveRepeated, Repeated
    <3>2. [version |-> receipts[rev].version, rev |-> rev, data |-> d] \in Row
          BY <3>1, BoundAssumption
    <3> QED BY <2>1, <2>3, <3>2 DEF SaveRepeated, Answered
  <2>4. CASE SaveLegacy(base, rev, d)
    <3>1. row \in Row
          BY <2>4 DEF SaveLegacy, Legacy
    <3>2. [version |-> row.version, rev |-> rev, data |-> d] \in Row
          BY <3>1, BoundAssumption
    <3> QED BY <2>1, <2>2, <2>4, <3>1, <3>2 DEF SaveLegacy, Answered
  <2>5. CASE SaveNew(base, rev, d)
    <3>1. RowVersion \in Nat
          BY DEF RowVersion
    <3>2. [version |-> RowVersion + 1, rev |-> rev, data |-> d] \in Row
          BY <3>1, BoundAssumption
    <3> QED BY <2>1, <2>2, <2>5, <3>1, <3>2 DEF SaveNew, Answered
  <2> QED BY <1>3, <2>3, <2>4, <2>5 DEF Save
<1>4. CASE Tick
      BY <1>4, LeaseAssumption DEF Tick, Aged, Lease
<1>5. CASE UNCHANGED svars
      BY <1>5 DEF svars
<1> QED BY <1>1, <1>2, <1>3, <1>4, <1>5 DEF Next

(* Every reachable state has the types of TypeOK.                          *)
THEOREM TypeCorrect == Spec => []TypeOK
<1>1. Init => TypeOK
      BY BoundAssumption, LeaseAssumption
      DEF Init, TypeOK, Row, Receipt, Revision, Lease, NoLease
<1> QED BY <1>1, TypeStep, PTL DEF Spec

(* A receipt stands for a checkpoint.                                      *)
LEMMA ReceiptedType == ASSUME TypeOK PROVE Receipted \subseteq Row
BY BoundAssumption DEF TypeOK, Receipted, Row, Receipt, Revision

(* A receipt that is added stands for one more checkpoint.                 *)
LEMMA ReceiptAdded ==
    ASSUME TypeOK, NEW rev \in Revision, NEW base \in Nat, NEW d \in Data, NEW v \in Nat,
           receipts[rev] = None,
           receipts' = [receipts EXCEPT ![rev] =
                           [base |-> base, data |-> d, version |-> v]]
    PROVE  Receipted' = Receipted \cup {[version |-> v, rev |-> rev, data |-> d]}
<1>1. [base |-> base, data |-> d, version |-> v] # None
      BY NoneAssumption DEF Receipt
<1>2. receipts' \in [Revision -> Receipt \cup {None}]
      BY DEF TypeOK, Receipt
<1>3. \A r \in Revision : r # rev => receipts'[r] = receipts[r]
      BY DEF TypeOK
<1>4. receipts'[rev] = [base |-> base, data |-> d, version |-> v]
      BY DEF TypeOK
<1> QED BY <1>1, <1>3, <1>4 DEF Receipted

(* A first save adds the receipt of the row it writes, an adopted row gets *)
(* its own.                                                                *)
LEMMA SavedIsReceipted ==
    ASSUME TypeOK, NEW base \in Nat, NEW rev \in Revision, NEW d \in Data,
           SaveNew(base, rev, d) \/ SaveLegacy(base, rev, d)
    PROVE  Receipted' = Receipted \cup {row'}
<1>1. CASE SaveNew(base, rev, d)
  <2>1. RowVersion + 1 \in Nat
        BY DEF TypeOK, Row, RowVersion
  <2>2. /\ receipts[rev] = None
        /\ receipts' = [receipts EXCEPT ![rev] =
                           [base |-> base, data |-> d, version |-> RowVersion + 1]]
        /\ row' = [version |-> RowVersion + 1, rev |-> rev, data |-> d]
        BY <1>1 DEF SaveNew
  <2>3. Receipted' = Receipted \cup {[version |-> RowVersion + 1, rev |-> rev, data |-> d]}
    <3> HIDE DEF RowVersion
    <3> QED BY <2>1, <2>2, ReceiptAdded
  <2> QED BY <2>2, <2>3
<1>2. CASE SaveLegacy(base, rev, d)
  <2>1. row \in Row /\ row = [version |-> row.version, rev |-> rev, data |-> d]
        BY <1>2 DEF SaveLegacy, Legacy, TypeOK, Row
  <2>2. /\ receipts[rev] = None
        /\ receipts' = [receipts EXCEPT ![rev] =
                           [base |-> base, data |-> d, version |-> row.version]]
        /\ row' = row
        BY <1>2 DEF SaveLegacy, Legacy
  <2>3. row.version \in Nat
        BY <2>1 DEF Row
  <2>4. Receipted' = Receipted \cup {[version |-> row.version, rev |-> rev, data |-> d]}
        BY <2>2, <2>3, ReceiptAdded
  <2> QED BY <2>1, <2>2, <2>4
<1> QED BY <1>1, <1>2

(* A first save of a revision is newer than everything stored before, and  *)
(* the strengthening is kept.                                              *)
LEMMA NewKeepsReceipts ==
    ASSUME TypeOK, ReceiptInv, NEW base \in Nat, NEW rev \in Revision, NEW d \in Data,
           SaveNew(base, rev, d)
    PROVE  ReceiptInv'
<1> DEFINE c == [version |-> RowVersion + 1, rev |-> rev, data |-> d]
<1>1. RowVersion \in Nat
      BY DEF TypeOK, Row, RowVersion
<1>3. row' = c /\ c \in Row /\ row' # None
      BY <1>1, BoundAssumption, NoneAssumption DEF SaveNew, Row, Revision
<1>2. Receipted' = Receipted \cup {c}
      BY <1>3, SavedIsReceipted
<1>4. \A b \in Receipted : /\ b \in Row
                           /\ b.rev < c.rev
                           /\ b.version < c.version
  <2>1. \A b \in Receipted : b.version \in Nat /\ b.rev \in Nat
        BY ReceiptedType DEF Row
  <2>2. ASSUME NEW b \in Receipted PROVE b.rev < rev /\ b.version < RowVersion + 1
    <3>1. row # None /\ b.rev <= row.rev /\ b.version <= row.version
          BY DEF ReceiptInv
    <3>2. row.rev < rev /\ row.rev \in Nat /\ row.version \in Nat /\ RowVersion = row.version
          BY <3>1 DEF SaveNew, Current, TypeOK, Row, RowVersion, Revision
    <3> QED BY <2>1, <3>1, <3>2, BoundAssumption DEF Revision
  <2> QED BY <2>2, ReceiptedType
<1>5. c.rev \in Nat /\ c.version \in Nat /\ \A b \in Receipted : b.rev \in Nat /\ b.version \in Nat
      BY <1>1, <1>4, BoundAssumption DEF Row, Revision
<1>6. Agree(Receipted')
      BY <1>2, <1>4, <1>5 DEF ReceiptInv, Agree
<1>7. replies' \subseteq Receipted'
      BY <1>2 DEF SaveNew, Answered, ReceiptInv
<1>8. \A b \in Receipted' : /\ row' # None /\ b.rev <= row'.rev /\ b.version <= row'.version
                            /\ b.rev = row'.rev <=> b.version = row'.version
                            /\ b.rev = row'.rev => b = row'
      BY <1>2, <1>3, <1>4, <1>5
<1> QED BY <1>6, <1>7, <1>8 DEF ReceiptInv

(* Adopting a row of an earlier release gives it the receipt it lacked.    *)
LEMMA LegacyKeepsReceipts ==
    ASSUME TypeOK, ReceiptInv, NEW base \in Nat, NEW rev \in Revision, NEW d \in Data,
           SaveLegacy(base, rev, d)
    PROVE  ReceiptInv'
<1>1. row \in Row /\ row = [version |-> row.version, rev |-> rev, data |-> d]
      BY DEF SaveLegacy, Legacy, TypeOK, Row
<1>2. Receipted' = Receipted \cup {row}
      BY SavedIsReceipted DEF SaveLegacy
<1>3. row' = row /\ row # None /\ row.rev \in Nat /\ row.version \in Nat
      BY <1>1, BoundAssumption, NoneAssumption DEF SaveLegacy, Row, Revision
<1>4. \A b \in Receipted : b.rev \in Nat /\ b.version \in Nat
      BY ReceiptedType, BoundAssumption DEF Row, Revision
<1>5. \A b \in Receipted : /\ b.rev <= row.rev /\ b.version <= row.version
                           /\ b.rev = row.rev <=> b.version = row.version
                           /\ b.rev = row.rev => b = row
      BY DEF ReceiptInv
<1>6. Agree(Receipted')
      BY <1>2, <1>3, <1>4, <1>5 DEF ReceiptInv, Agree
<1>7. replies' \subseteq Receipted'
      BY <1>1, <1>2 DEF SaveLegacy, Answered, ReceiptInv
<1> QED BY <1>2, <1>3, <1>5, <1>6, <1>7 DEF ReceiptInv

(* A repeated save returns the version its receipt names.                  *)
LEMMA RepeatKeepsReceipts ==
    ASSUME TypeOK, ReceiptInv, NEW base \in Nat, NEW rev \in Revision, NEW d \in Data,
           SaveRepeated(base, rev, d)
    PROVE  ReceiptInv'
<1>1. Receipted' = Receipted /\ row' = row
      BY DEF SaveRepeated, Receipted
<1>2. [version |-> receipts[rev].version, rev |-> rev, data |-> d] \in Receipted
      BY DEF SaveRepeated, Repeated, Receipted
<1>3. replies' \subseteq Receipted'
      BY <1>1, <1>2 DEF SaveRepeated, Answered, ReceiptInv
<1> QED BY <1>1, <1>3 DEF ReceiptInv

(* Every step keeps the strengthening.                                     *)
LEMMA ReceiptStep == TypeOK /\ ReceiptInv /\ [Next]_svars => ReceiptInv'
<1> SUFFICES ASSUME TypeOK, ReceiptInv, [Next]_svars PROVE ReceiptInv'
    OBVIOUS
<1>1. ASSUME UNCHANGED <<row, receipts, replies>> PROVE ReceiptInv'
  <2>1. Receipted' = Receipted
        BY <1>1 DEF Receipted
  <2> QED BY <1>1, <2>1 DEF ReceiptInv
<1>2. ASSUME NEW r \in Robot, Acquire(r) \/ Touch(r) PROVE ReceiptInv'
      BY <1>1, <1>2 DEF Acquire, Touch
<1>3. ASSUME NEW r \in Robot, NEW base \in 0 .. 2 * MaxRevision, NEW rev \in Revision,
             NEW d \in Data, Save(r, base, rev, d)
      PROVE  ReceiptInv'
  <2>1. base \in Nat
        BY BoundAssumption
  <2> QED BY <1>3, <2>1, NewKeepsReceipts, LegacyKeepsReceipts, RepeatKeepsReceipts DEF Save
<1>4. CASE Tick \/ UNCHANGED svars
      BY <1>1, <1>4 DEF Tick, svars
<1> QED BY <1>2, <1>3, <1>4 DEF Next

(* In every reachable state receipts, row and replies fit together.        *)
THEOREM ReceiptsCorrect == Spec => []ReceiptInv
<1>1. Init => ReceiptInv
      BY DEF Init, ReceiptInv, Receipted, Agree
<1> QED BY <1>1, ReceiptStep, TypeCorrect, PTL DEF Spec

(* A repeated save is harmless: whatever save ever returned is consistent. *)
THEOREM RepliesAgreeHolds == Spec => []RepliesAgree
<1>1. ReceiptInv => RepliesAgree
      BY DEF ReceiptInv, RepliesAgree, Agree
<1> QED BY <1>1, ReceiptsCorrect, PTL
-----------------------------------------------------------------------------
(* Every step of the store is a step of the register or leaves it alone.   *)
LEMMA RegisterStep ==
    TypeOK /\ ReceiptInv /\ [Next]_svars => [Register!RNext]_(Register!fvars)
<1> SUFFICES ASSUME TypeOK, ReceiptInv, [Next]_svars
             PROVE  [Register!RNext]_(Register!fvars)
    OBVIOUS
<1>1. ASSUME UNCHANGED <<row, receipts, replies>> PROVE UNCHANGED Register!fvars
      BY <1>1 DEF Register!fvars, Receipted
<1>2. ASSUME NEW base \in Nat, NEW rev \in Revision, NEW d \in Data, SaveNew(base, rev, d)
      PROVE  Register!RNext
  <2>1. RowVersion \in Nat /\ RowVersion = Register!Version(row)
        BY DEF TypeOK, Row, RowVersion, Register!Version
  <2>2. Receipted' = Receipted \cup {row'}
        BY <1>2, SavedIsReceipted
  <2>3. Register!Newer(row, rev)
        BY <1>2 DEF SaveNew, Current, Register!Newer
  <2>4. Register!Commit(rev, d)
        BY <1>2, <2>1, <2>2, <2>3 DEF SaveNew, Answered, Register!Commit
  <2> QED BY <2>4 DEF Register!RNext
<1>3. ASSUME NEW base \in Nat, NEW rev \in Revision, NEW d \in Data, SaveLegacy(base, rev, d)
      PROVE  Register!RNext
  <2>1. row \in Row /\ row = [version |-> row.version, rev |-> rev, data |-> d] /\ row # None
        BY <1>3 DEF SaveLegacy, Legacy, TypeOK, Row
  <2>3. Receipted' = Receipted \cup {row}
        BY <1>3, SavedIsReceipted DEF SaveLegacy
  <2>4. Register!Reply(row)
        BY <1>3, <2>1, <2>3 DEF SaveLegacy, Answered, Register!Reply
  <2> QED BY <2>4 DEF Register!RNext
<1>4. ASSUME NEW base \in Nat, NEW rev \in Revision, NEW d \in Data, SaveRepeated(base, rev, d)
      PROVE  Register!RNext
  <2> DEFINE c == [version |-> receipts[rev].version, rev |-> rev, data |-> d]
  <2>1. c \in Receipted /\ Receipted' = Receipted /\ row' = row
        BY <1>4 DEF SaveRepeated, Repeated, Receipted
  <2>2. c # None
        BY <2>1, ReceiptedType, NoneAssumption
  <2>3. Register!Reply(c)
        BY <1>4, <2>1, <2>2 DEF SaveRepeated, Answered, Register!Reply
  <2> QED BY <2>1, <2>3 DEF Register!RNext
<1>5. ASSUME NEW r \in Robot, Acquire(r) \/ Touch(r) PROVE UNCHANGED Register!fvars
      BY <1>1, <1>5 DEF Acquire, Touch
<1>6. ASSUME NEW r \in Robot, NEW base \in 0 .. 2 * MaxRevision, NEW rev \in Revision,
             NEW d \in Data, Save(r, base, rev, d)
      PROVE  Register!RNext
  <2>1. base \in Nat
        BY BoundAssumption
  <2> QED BY <1>2, <1>3, <1>4, <1>6, <2>1 DEF Save
<1>7. CASE Tick \/ UNCHANGED svars
      BY <1>1, <1>7 DEF Tick, svars
<1> QED BY <1>5, <1>6, <1>7 DEF Next

(* The store implements the forward-only register.                         *)
THEOREM StoreImplementsRegister == Spec => StoreIsRegister
<1>1. Init => Register!RInit
  <2> SUFFICES ASSUME Init PROVE Register!RInit
      OBVIOUS
  <2>1. Receipted = {}
        BY DEF Init, Receipted
  <2>2. row \in Register!Checkpoint \cup {None}
        BY DEF Init, Register!Checkpoint
  <2> QED BY <2>1, <2>2 DEF Init, Register!RInit
<1> QED BY <1>1, RegisterStep, TypeCorrect, ReceiptsCorrect, PTL
        DEF Spec, StoreIsRegister, Register!RSpec
=============================================================================
