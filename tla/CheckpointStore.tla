-------------------------- MODULE CheckpointStore ---------------------------
(***************************************************************************)
(* The durable part of the checkpoint bridge, class Store of               *)
(* cbot_bridge/server.py, for one account and symbol: the lease, the       *)
(* checkpoint with its version, and the receipts that make a repeated save *)
(* harmless.  Every method is one SQLite transaction, so every method is   *)
(* one action and a crash falls between two of them; a save that commits   *)
(* may still never be answered.  A refused save is rolled back, its touch  *)
(* of the lease included.                                                  *)
(*                                                                         *)
(* The robots are anything that calls the store: any instance, with any    *)
(* base, revision and content.                                             *)
(***************************************************************************)
EXTENDS BridgeLease

CONSTANTS Data,         \* the contents of a checkpoint, as their digests
          None,         \* no row, no receipt
          MaxRevision   \* bound: the largest revision a robot saves

Revision == 0 .. MaxRevision
Row      == [version : Nat, rev : Nat, data : Data]
Receipt  == [base : Nat, data : Data, version : Nat]

ASSUME BoundAssumption == MaxRevision \in Nat
ASSUME NoneAssumption  == None \notin Row \cup Receipt

VARIABLES lease,     \* row of bridge_leases
          row,       \* row of checkpoints
          receipts,  \* table checkpoint_receipts, by revision
          replies    \* history: the checkpoints save returned the version of

svars == <<lease, row, receipts, replies>>

TypeOK == /\ lease \in Lease
          /\ row \in Row \cup {None}
          /\ receipts \in [Revision -> Receipt \cup {None}]
          /\ replies \subseteq Row

RowVersion == IF row = None THEN 0 ELSE row.version

(* An empty database, or one whose row an earlier release wrote before     *)
(* there were receipts.                                                    *)
Init == /\ lease = NoLease
        /\ \/ row = None
           \/ \E v \in 1 .. MaxRevision, r \in Revision, d \in Data :
                 row = [version |-> v, rev |-> r, data |-> d]
        /\ receipts = [r \in Revision |-> None]
        /\ replies = {}
-----------------------------------------------------------------------------
Acquire(r) == /\ Free(lease, r)
              /\ lease' = Granted(r)
              /\ UNCHANGED <<row, receipts, replies>>

Touch(r) == /\ Held(lease, r)
            /\ lease' = Granted(r)
            /\ UNCHANGED <<row, receipts, replies>>

(* Faults for the mutation check: a receipt found by its revision alone,  *)
(* and a store that only compares the base.                                *)
Repeated_ByRevision(base, rev, data) == receipts[rev] # None
Current_BaseOnly(base, rev)          == base = RowVersion

(* The same save as one that has a receipt.                                *)
Repeated(base, rev, data) == /\ receipts[rev] # None
                             /\ receipts[rev].base = base
                             /\ receipts[rev].data = data

(* The row was written by this save, before there were receipts.           *)
Legacy(base, rev, data) == /\ receipts[rev] = None
                           /\ row # None
                           /\ rev = row.rev
                           /\ base + 1 = row.version
                           /\ data = row.data

(* Neither REVISION_CONFLICT nor STATE_REVISION_NOT_INCREASING.            *)
Current(base, rev) == base = RowVersion /\ (row # None => rev > row.rev)

Answered(version, rev, data) ==
    replies' \in {replies,
                  replies \cup {[version |-> version, rev |-> rev, data |-> data]}}

SaveRepeated(base, rev, data) ==
    /\ Repeated(base, rev, data)
    /\ Answered(receipts[rev].version, rev, data)
    /\ UNCHANGED <<row, receipts>>

SaveLegacy(base, rev, data) ==
    /\ Legacy(base, rev, data)
    /\ receipts' = [receipts EXCEPT ![rev] =
                       [base |-> base, data |-> data, version |-> row.version]]
    /\ Answered(row.version, rev, data)
    /\ UNCHANGED row

SaveNew(base, rev, data) ==
    /\ receipts[rev] = None
    /\ ~Legacy(base, rev, data)
    /\ Current(base, rev)
    /\ row' = [version |-> RowVersion + 1, rev |-> rev, data |-> data]
    /\ receipts' = [receipts EXCEPT ![rev] =
                       [base |-> base, data |-> data, version |-> RowVersion + 1]]
    /\ Answered(RowVersion + 1, rev, data)

Save(r, base, rev, data) ==
    /\ Held(lease, r)
    /\ \/ SaveRepeated(base, rev, data)
       \/ SaveLegacy(base, rev, data)
       \/ SaveNew(base, rev, data)
    /\ lease' = Granted(r)

Tick == /\ lease' = Aged(lease)
        /\ UNCHANGED <<row, receipts, replies>>

Next == \/ \E r \in Robot : \/ Acquire(r)
                            \/ Touch(r)
                            \/ \E base \in 0 .. 2 * MaxRevision,
                                  rev \in Revision, d \in Data :
                                      Save(r, base, rev, d)
        \/ Tick

Spec == Init /\ [][Next]_svars
-----------------------------------------------------------------------------
(* Whatever was confirmed to a robot is consistent: save never returns two *)
(* versions for one revision, nor one version for two contents, and later  *)
(* revisions have later versions, however often and by whomever a save is  *)
(* repeated after its acknowledgement was lost.                            *)
Agree(S) == \A a, b \in S : /\ a.rev < b.rev <=> a.version < b.version
                            /\ a.rev = b.rev => a = b

RepliesAgree == Agree(replies)

Receipted == {[version |-> receipts[r].version, rev |-> r, data |-> receipts[r].data] :
                 r \in {q \in Revision : receipts[q] # None}}

(* The store implements the register it promises: bases, receipts and the  *)
(* adoption of old rows never show.                                        *)
Register == INSTANCE ForwardRegister WITH Empty <- None, current <- row,
                                          recorded <- Receipted

StoreIsRegister == Register!RSpec
-----------------------------------------------------------------------------
(* The strengthening: receipts agree with each other and with the row, and *)
(* every reply has its receipt.                                            *)
ReceiptInv == /\ Agree(Receipted)
              /\ \A c \in Receipted : row # None /\ c.rev <= row.rev /\ c.version <= row.version
              /\ \A c \in Receipted : c.rev = row.rev <=> c.version = row.version
              /\ \A c \in Receipted : c.rev = row.rev => c = row
              /\ replies \subseteq Receipted
=============================================================================
