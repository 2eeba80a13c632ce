-------------------------- MODULE ForwardRegister ---------------------------
(***************************************************************************)
(* What the checkpoint store promises a robot: a register whose revisions  *)
(* only go forward, each under a version of its own, and replies that name *)
(* the version under which exactly that checkpoint was stored.  How the    *)
(* store keeps the promise (bases, receipts, leases, rows of an older      *)
(* release) is the business of CheckpointStore, which implements this.     *)
(***************************************************************************)
EXTENDS Naturals

CONSTANTS Revision,  \* the revisions a robot counts its checkpoints with
          Data,      \* the contents of a checkpoint
          Empty      \* a register that was never written

Checkpoint == [version : Nat, rev : Revision, data : Data]

VARIABLES current,    \* the checkpoint the register holds
          recorded,   \* the checkpoints it can be asked about again
          replies     \* the checkpoints it has confirmed to a robot

fvars == <<current, recorded, replies>>

Version(c)  == IF c = Empty THEN 0 ELSE c.version
Newer(c, r) == c # Empty => r > c.rev

RTypeOK == /\ current \in Checkpoint \cup {Empty}
           /\ recorded \subseteq Checkpoint
           /\ replies \subseteq Checkpoint

RInit == /\ current \in Checkpoint \cup {Empty}
         /\ recorded = {}
         /\ replies = {}

(* A newer revision becomes the current one; the reply may be lost.        *)
Commit(r, d) == /\ Newer(current, r)
                /\ current' = [version |-> Version(current) + 1, rev |-> r, data |-> d]
                /\ recorded' = recorded \cup {current'}
                /\ replies' \in {replies, replies \cup {current'}}

(* A checkpoint that was stored is confirmed, perhaps once more.           *)
Reply(c) == /\ c # Empty
            /\ recorded' = recorded \cup {c}
            /\ replies' \in {replies, replies \cup {c}}
            /\ UNCHANGED current

RNext == \/ \E r \in Revision, d \in Data : Commit(r, d)
         \/ \E c \in recorded \cup {current} : Reply(c)

RSpec == RInit /\ [][RNext]_fvars
=============================================================================
