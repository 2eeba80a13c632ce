----------------------- MODULE CheckpointRobot_proofs -----------------------
(***************************************************************************)
(* Proofs about CheckpointRobot for any contract, bounds and faults: its   *)
(* types, that the local log of a robot is never behind the bridge, that   *)
(* the bridge refuses no save of it, and that it sends an order only for   *)
(* an intent the bridge has and once (it implements WriteAheadIntent), and *)
(* counts what was filled.                                                 *)
(*                                                                         *)
(* A callback is a chain of methods.  What one method does to the memory,  *)
(* the log and the save is stated once (Follows), proved for each method   *)
(* and carried along the chain (FollowsTrans); the second half does the    *)
(* same for what the copies of the checkpoint tell of the orders (Ordered, *)
(* Carries, Onward), and the invariant of that half is OrderInv.           *)
(***************************************************************************)
EXTENDS CheckpointRobot, FiniteSetTheorems, TLAPS

(* A robot whose log is not ahead of its memory.                           *)
Led(r) == r \in Robot /\ (r.wal # None => r.wal.rev <= r.st.rev)

(* The same connection, with the same save on its way.                     *)
SameLink(r, t) == /\ t.ready = r.ready /\ t.up = r.up
                  /\ t.busy = r.busy /\ t.sent = r.sent
                  /\ t.remote = r.remote /\ t.persisted = r.persisted

(* A save is sent: it is in the log, and later than what the bridge has.   *)
Sends(r, t) == /\ r.ready /\ ~r.busy /\ t.save \in Save /\ t.wal # None
               /\ t.save.rev <= t.wal.rev /\ t.save.data.rev = t.save.rev
               /\ t.save.base = r.remote /\ t.save.rev > r.persisted
               /\ t.ready => t.busy /\ t.sent = t.save.rev

(* What every method of the robot does to its memory, log and save: the    *)
(* revision does not fall, a log that is written is not older than the     *)
(* memory was, at most one save is sent, and nothing closed is opened.     *)
Follows(r, t) ==
    /\ Led(t)
    /\ t.st.rev >= r.st.rev
    /\ t.wal = r.wal \/ (t.wal # None /\ t.wal.rev >= r.st.rev)
    /\ \/ t.save = r.save /\ (t.ready => t.busy = r.busy /\ t.sent = r.sent)
       \/ Sends(r, t)
    /\ Closed(r) \subseteq Closed(t)
    /\ \/ /\ t.ready = r.ready /\ t.up = r.up
          /\ t.remote = r.remote /\ t.persisted = r.persisted
       \/ t.up = "down" /\ ~t.ready

(* One method after another.                                               *)
LEMMA FollowsTrans ==
    ASSUME NEW r, NEW t, NEW u, Led(r), Follows(r, t), Follows(t, u)
    PROVE  Follows(r, u)
  <1>1. r.st.rev \in Nat /\ t.st.rev \in Nat /\ u.st.rev \in Nat
    BY DEF Follows, Led, Robot, Checkpoint
  <1>2. /\ r.wal # None => r.wal.rev \in Nat
        /\ t.wal # None => t.wal.rev \in Nat /\ t.wal.rev <= t.st.rev
        /\ u.wal # None => u.wal.rev \in Nat
    BY DEF Follows, Led, Robot, Checkpoint
  <1>3. /\ u.ready => /\ t.ready /\ u.remote = t.remote /\ u.persisted = t.persisted
        /\ t.ready => /\ r.ready /\ t.remote = r.remote /\ t.persisted = r.persisted
    BY DEF Follows
  <1>4. /\ Led(u) /\ u.st.rev >= r.st.rev /\ Closed(r) \subseteq Closed(u)
        /\ \/ /\ u.ready = r.ready /\ u.up = r.up
              /\ u.remote = r.remote /\ u.persisted = r.persisted
           \/ u.up = "down" /\ ~u.ready
    BY <1>1 DEF Follows
  <1>5. u.wal = r.wal \/ (u.wal # None /\ u.wal.rev >= r.st.rev)
    BY <1>1, <1>2 DEF Follows
  <1>6. CASE Sends(t, u)
    <2>1. ~Sends(r, t)
      BY <1>6 DEF Sends
    <2>2. t.save = r.save /\ t.busy = r.busy
      BY <1>6, <2>1 DEF Follows, Sends
    <2>3. Sends(r, u)
      BY <1>3, <1>6, <2>2 DEF Sends
    <2> QED
      BY <2>3, <1>4, <1>5 DEF Follows
  <1>7. CASE Sends(r, t) /\ ~Sends(t, u)
    <2>1. u.save = t.save /\ (u.ready => u.busy = t.busy /\ u.sent = t.sent)
      BY <1>7 DEF Follows
    <2>2. t.save.rev \in Nat
      BY <1>7 DEF Sends, Save
    <2>3. u.wal = t.wal \/ (u.wal # None /\ u.wal.rev >= t.st.rev)
      BY DEF Follows
    <2>4. u.wal # None /\ u.save.rev <= u.wal.rev
      BY <1>1, <1>2, <1>7, <2>1, <2>2, <2>3 DEF Sends
    <2>5. Sends(r, u)
      BY <1>3, <1>7, <2>1, <2>4 DEF Sends
    <2> QED
      BY <2>5, <1>4, <1>5 DEF Follows
  <1>8. CASE ~Sends(r, t) /\ ~Sends(t, u)
    <2>1. u.save = r.save /\ (u.ready => u.busy = r.busy /\ u.sent = r.sent)
      BY <1>3, <1>8 DEF Follows
    <2> QED
      BY <2>1, <1>4, <1>5 DEF Follows
  <1> QED
    BY <1>6, <1>7, <1>8

(* A method that leaves log, save and connection alone.                    *)
LEMMA Quiet ==
    ASSUME NEW r, NEW t \in Robot, Led(r), t.st.rev >= r.st.rev,
           t.wal = r.wal, t.save = r.save, SameLink(r, t),
           Closed(r) \subseteq Closed(t)
    PROVE  Follows(r, t)
  BY DEF Follows, Led, Robot, Checkpoint, SameLink

(* A robot follows itself.                                                 *)
LEMMA FollowsSelf ==
    ASSUME NEW r, Led(r)
    PROVE  Follows(r, r)
  <1>1. r \in Robot /\ r.st.rev >= r.st.rev
    BY DEF Led, Robot, Checkpoint
  <1> QED
    BY <1>1, Quiet DEF SameLink

(* The revision goes up by one.                                            *)
LEMMA ChangedFollows ==
    ASSUME NEW r, Led(r)
    PROVE  Follows(r, Changed(r)) /\ Changed(r).st.rev = r.st.rev + 1
  <1>1. Changed(r) \in Robot
    BY DEF Changed, Led, Robot, Checkpoint
  <1>2. Changed(r).st.rev = r.st.rev + 1 /\ r.st.rev \in Nat
    BY DEF Changed, Led, Robot, Checkpoint
  <1>3. /\ Changed(r).wal = r.wal /\ Changed(r).save = r.save
        /\ SameLink(r, Changed(r))
        /\ Closed(r) \subseteq Closed(Changed(r))
    BY DEF Changed, Led, Robot, Closed, SameLink
  <1> QED
    BY <1>1, <1>2, <1>3, Quiet

(* The log is written, and what goes to the bridge is what is in it.       *)
LEMMA PersistFollows ==
    ASSUME NEW r, Led(r)
    PROVE  Follows(r, Persist(r)) /\ Persist(r).wal = r.st /\ Persist(r).st = r.st
  <1> DEFINE w == [r EXCEPT !.wal = r.st]
             s == [w EXCEPT !.busy = TRUE, !.sent = r.st.rev,
                            !.save = [base |-> r.remote, rev |-> r.st.rev, data |-> r.st]]
  <1>0. r \in Robot /\ r.st \in Checkpoint /\ r.st.rev \in Nat /\ r.st # None
    BY NoneAssumption DEF Led, Robot, Checkpoint
  <1>1. w \in Robot /\ s \in Robot
    BY <1>0 DEF Robot, Save
  <1>2. /\ w.st = r.st /\ w.wal = r.st /\ w.save = r.save /\ SameLink(r, w)
        /\ Closed(w) = Closed(r)
    BY <1>0 DEF Robot, Closed, SameLink
  <1>3. /\ s.st = r.st /\ s.wal = r.st /\ s.ready = r.ready /\ s.up = r.up
        /\ s.remote = r.remote /\ s.persisted = r.persisted
        /\ s.busy /\ s.sent = r.st.rev
        /\ s.save.base = r.remote /\ s.save.rev = r.st.rev /\ s.save.data = r.st
        /\ Closed(s) = Closed(r) /\ s.save \in Save
    BY <1>0 DEF Robot, Closed, Save
  <1>4. Follows(r, w)
    BY <1>0, <1>1, <1>2 DEF Follows, Led, SameLink
  <1>5. ASSUME r.ready, ~r.busy, r.st.rev > r.persisted PROVE Follows(r, s)
    <2>1. Led(s) /\ s.st.rev >= r.st.rev /\ s.wal # None /\ s.wal.rev >= r.st.rev
      BY <1>0, <1>1, <1>3 DEF Led
    <2>2. Sends(r, s)
      BY <1>0, <1>3, <1>5 DEF Sends
    <2> HIDE DEF s
    <2> QED
      BY <1>3, <2>1, <2>2 DEF Follows
  <1> QED
    BY <1>2, <1>3, <1>4, <1>5 DEF Persist

(* A quarantine is persisted.                                              *)
LEMMA QuarantineFollows ==
    ASSUME NEW r, Led(r)
    PROVE  Follows(r, Quarantine(r))
  <1> DEFINE q == [r EXCEPT !.st.quarantined = TRUE]
  <1>1. q \in Robot
    BY DEF Led, Robot, Checkpoint
  <1>2. /\ q.st.rev = r.st.rev /\ q.wal = r.wal /\ q.save = r.save
        /\ SameLink(r, q) /\ Closed(q) = Closed(r)
        /\ r.st.rev \in Nat
    BY DEF Led, Robot, Checkpoint, Closed, SameLink
  <1> HIDE DEF q
  <1>3. Follows(r, q)
    BY <1>1, <1>2, Quiet
  <1>4. Follows(q, Changed(q)) /\ Follows(Changed(q), Persist(Changed(q)))
    BY <1>3, ChangedFollows, PersistFollows DEF Follows
  <1>5. Follows(r, Persist(Changed(q)))
    BY <1>3, <1>4, FollowsTrans DEF Follows
  <1> QED
    BY <1>5 DEF Quarantine, q

(* The intent is dropped, the revision stays.                              *)
LEMMA ClearPendingFollows ==
    ASSUME NEW r, Led(r)
    PROVE  Follows(r, ClearPending(r))
  <1>1. ClearPending(r) \in Robot
    BY DEF ClearPending, Led, Robot, Checkpoint
  <1>2. /\ ClearPending(r).st.rev = r.st.rev /\ ClearPending(r).wal = r.wal
        /\ ClearPending(r).save = r.save /\ SameLink(r, ClearPending(r))
        /\ Closed(ClearPending(r)) = Closed(r)
        /\ r.st.rev \in Nat
    BY DEF ClearPending, Led, Robot, Checkpoint, Closed, SameLink
  <1> QED
    BY <1>1, <1>2, Quiet

(* A change of the basket alone.                                           *)
LEMMA BasketFollows ==
    ASSUME NEW r, Led(r), NEW b \in Basket \cup {None}
    PROVE  Follows(r, [r EXCEPT !.st.basket = b])
  <1> DEFINE t == [r EXCEPT !.st.basket = b]
  <1>1. t \in Robot
    BY DEF Led, Robot, Checkpoint
  <1>2. /\ t.st.rev = r.st.rev /\ t.wal = r.wal /\ t.save = r.save
        /\ SameLink(r, t) /\ Closed(t) = Closed(r)
        /\ r.st.rev \in Nat
    BY DEF Led, Robot, Checkpoint, Closed, SameLink
  <1> HIDE DEF t
  <1>3. Follows(r, t)
    BY <1>1, <1>2, Quiet
  <1> QED
    BY <1>3 DEF t

(* The queue is cancelled, with its intent or without.                     *)
LEMMA CancelQueueFollows ==
    ASSUME NEW r, Led(r)
    PROVE  Follows(r, CancelQueue(r))
  <1> DEFINE b == [r.st.basket EXCEPT !.left = 0, !.queue = None]
             q == [r EXCEPT !.st.basket.left = 0, !.st.basket.queue = None]
             c == IF r.st.quarantined THEN q ELSE ClearPending(q)
  <1>1. CASE r.st.basket = None
    <2>1. CancelQueue(r) = r
      BY <1>1 DEF CancelQueue
    <2> QED
      BY <2>1, FollowsSelf
  <1>2. CASE r.st.basket # None
    <2>1. b \in Basket
      BY <1>2 DEF Led, Robot, Checkpoint, Basket
    <2>2. q = [r EXCEPT !.st.basket = b]
      BY DEF Led, Robot, Checkpoint
    <2>3. Follows(r, q)
      BY <2>1, <2>2, BasketFollows
    <2> HIDE DEF q
    <2>4. Follows(q, c)
      <3>1. Led(q)
        BY <2>3 DEF Follows
      <3> QED
        BY <3>1, ClearPendingFollows, FollowsSelf
    <2> HIDE DEF c
    <2>5. Follows(c, Changed(c))
      BY <2>4, ChangedFollows DEF Follows
    <2>6. Follows(r, Changed(c))
      BY <2>3, <2>4, <2>5, FollowsTrans DEF Follows
    <2> QED
      BY <1>2, <2>6 DEF CancelQueue, c, q
  <1> QED
    BY <1>1, <1>2

(* A child is counted in its basket.                                       *)
LEMMA AcceptFollows ==
    ASSUME NEW r, Led(r), NEW stage \in Stage, r.st.basket # None, r.st.basket.left >= 1
    PROVE  Follows(r, Accept(r, stage))
  <1> DEFINE b == r.st.basket
             done == b.left = 1
             n == [b EXCEPT !.accepted[stage] = @ + 1, !.left = @ - 1,
                            !.next  = IF done /\ @ < stage + 1 THEN stage + 1 ELSE @,
                            !.queue = IF done THEN None ELSE @]
  <1>1. b \in Basket
    BY DEF Led, Robot, Checkpoint
  <1>2. stage + 1 \in 0 .. Stages
    BY ContractAssumption DEF Stage
  <1>3. [b.accepted EXCEPT ![stage] = @ + 1] \in [Stage -> Nat] /\ b.left - 1 \in Nat
    BY <1>1 DEF Basket
  <1>4. n \in Basket
    BY <1>1, <1>2, <1>3 DEF Basket
  <1>5. Follows(r, [r EXCEPT !.st.basket = n])
    BY <1>4, BasketFollows
  <1> QED
    BY <1>5 DEF Accept

(* An exposure without a basket is given one it can be left with.          *)
LEMMA ExitOnlyFollows ==
    ASSUME NEW r, Led(r), NEW t \in RecoverExposureForExitOnly(r)
    PROVE  Follows(r, t)
  <1>1. CASE r.open = {}
    <2>1. t = r
      BY <1>1 DEF RecoverExposureForExitOnly
    <2> QED
      BY <2>1, FollowsSelf
  <1>2. ASSUME NEW l \in r.open
        PROVE  Follows(r, [r EXCEPT !.st.basket =
                      [at |-> l[1], queue |-> None, left |-> 0, next |-> Stages,
                       seq |-> 0, accepted |-> [s \in Stage |-> 0]]])
    <2>1. l[1] \in 1 .. MaxTime /\ Stages \in 0 .. Stages
      BY ContractAssumption DEF Led, Robot, Label
    <2>2. [at |-> l[1], queue |-> None, left |-> 0, next |-> Stages, seq |-> 0,
           accepted |-> [s \in Stage |-> 0]] \in Basket
      BY <2>1 DEF Basket
    <2> QED
      BY <2>2, BasketFollows
  <1> QED
    BY <1>1, <1>2 DEF RecoverExposureForExitOnly

(* What the broker has of a robot: positions, orders and faults may change,*)
(* and positions may close.                                                *)
LEMMA BrokerFollows ==
    ASSUME NEW r, NEW t \in Robot, Led(r), t.st = r.st, t.wal = r.wal, t.save = r.save,
           SameLink(r, t), Closed(r) \subseteq Closed(t)
    PROVE  Follows(r, t)
  <1>1. t.st.rev >= r.st.rev
    BY DEF Led, Robot, Checkpoint
  <1> QED
    BY <1>1, Quiet

(* The intent that a crash left is accounted for.                          *)
LEMMA RecoverAttemptFollows ==
    ASSUME NEW r, Led(r), NEW t \in RecoverAttempt(r)
    PROVE  Follows(r, t)
  <1> DEFINE l == r.st.pending
             b == r.st.basket
             x == Accept(r, l[2])
             a == Changed(ClearPending(x))
             n == [r EXCEPT !.bare = @ \cup {l}]
             q == Quarantine(r)
             c == [q EXCEPT !.open = @ \ {l}, !.bare = @ \ {l}, !.returned = @ \cup {l}]
  <1>1. CASE l = None \/ b = None
    BY <1>1, FollowsSelf DEF RecoverAttempt
  <1>2. CASE l # None /\ b # None /\ (l \notin r.open \cup settled \/ b.left < 1 \/ b.queue # l[2])
    BY <1>2, QuarantineFollows DEF RecoverAttempt
  <1>3. CASE /\ l # None /\ b # None
             /\ ~(l \notin r.open \cup settled \/ b.left < 1 \/ b.queue # l[2])
    <2>1. l \in Label /\ l[2] \in Stage /\ b \in Basket /\ b.left >= 1
      BY <1>3 DEF Led, Robot, Checkpoint, Label, Basket
    <2>2. Follows(r, a)
      <3>1. Follows(r, x)
        BY <1>3, <2>1, AcceptFollows
      <3> HIDE DEF x
      <3>2. Follows(x, ClearPending(x)) /\ Follows(ClearPending(x), a)
        BY <3>1, ClearPendingFollows, ChangedFollows DEF Follows
      <3> QED
        BY <3>1, <3>2, FollowsTrans DEF Follows
    <2>3. Follows(r, Quarantine(a))
      <3> HIDE DEF a
      <3> QED
        BY <2>2, QuarantineFollows, FollowsTrans DEF Follows
    <2>4. Follows(r, Quarantine(n))
      <3>1. n \in Robot
        BY <2>1 DEF Led, Robot
      <3>2. /\ n.st = r.st /\ n.wal = r.wal /\ n.save = r.save /\ SameLink(r, n)
            /\ Closed(r) \subseteq Closed(n)
        BY DEF Led, Robot, Closed, SameLink
      <3> HIDE DEF n
      <3>3. Follows(r, n)
        BY <3>1, <3>2, BrokerFollows
      <3> QED
        BY <3>3, QuarantineFollows, FollowsTrans DEF Follows
    <2>5. Follows(r, c)
      <3>1. Follows(r, q) /\ Led(q)
        BY QuarantineFollows DEF Follows
      <3> HIDE DEF q
      <3>2. c \in Robot
        BY <2>1, <3>1 DEF Led, Robot
      <3>3. /\ c.st = q.st /\ c.wal = q.wal /\ c.save = q.save /\ SameLink(q, c)
            /\ Closed(q) \subseteq Closed(c)
        BY <3>1 DEF Led, Robot, Closed, SameLink
      <3> HIDE DEF c
      <3>4. Follows(q, c)
        BY <3>1, <3>2, <3>3, BrokerFollows
      <3> QED
        BY <3>1, <3>4, FollowsTrans DEF Follows
    <2>6. t \in {Quarantine(r), a, Quarantine(a), Quarantine(n), c}
      BY <1>3 DEF RecoverAttempt
    <2>7. Follows(r, Quarantine(r))
      BY QuarantineFollows
    <2> QED
      BY <2>2, <2>3, <2>4, <2>5, <2>6, <2>7
  <1> QED
    BY <1>1, <1>2, <1>3

(* The positions at the broker are compared with the basket.               *)
LEMMA ReconcileFollows ==
    ASSUME NEW r, Led(r), NEW t \in ReconcileExposure(r)
    PROVE  Follows(r, t)
  <1>1. CASE t = r
    BY <1>1, FollowsSelf
  <1>2. Follows(r, Quarantine(r)) /\ Led(Quarantine(r))
    BY QuarantineFollows DEF Follows
  <1>3. CASE t \in RecoverExposureForExitOnly(Quarantine(r))
    BY <1>2, <1>3, ExitOnlyFollows, FollowsTrans DEF Follows
  <1> QED
    BY <1>1, <1>2, <1>3 DEF ReconcileExposure

(* After its handshake a robot has written its log.                        *)
LEMMA ReconciledFollows ==
    ASSUME NEW r, Led(r), NEW t \in Reconciled(r)
    PROVE  Follows(r, t) /\ t.wal # None /\ t.wal.rev >= r.st.rev
  <1>1. PICK x \in RecoverAttempt(r) : \E y \in ReconcileExposure(x) : t = Persist(Changed(y))
    BY DEF Reconciled
  <1>2. PICK y \in ReconcileExposure(x) : t = Persist(Changed(y))
    BY <1>1
  <1>3. Follows(r, x) /\ Led(x)
    BY RecoverAttemptFollows DEF Follows
  <1>4. Follows(x, y) /\ Led(y)
    BY <1>3, ReconcileFollows DEF Follows
  <1>5. Follows(y, Changed(y)) /\ Led(Changed(y))
    BY <1>4, ChangedFollows DEF Follows
  <1>6. Follows(Changed(y), t) /\ t.wal = Changed(y).st
    BY <1>2, <1>5, PersistFollows DEF Follows
  <1>7. Follows(r, Changed(y))
    BY <1>3, <1>4, <1>5, FollowsTrans DEF Follows
  <1>8. Changed(y).st # None /\ Changed(y).st.rev >= r.st.rev
    BY <1>5, <1>7, NoneAssumption DEF Led, Robot, Follows
  <1> QED
    BY <1>3, <1>6, <1>7, <1>8, FollowsTrans DEF Follows

-----------------------------------------------------------------------------
(* The queue                                                               *)

(* The intent is prepared under a new label, for the queue as it is.       *)
LEMMA PrepareFollows ==
    ASSUME NEW r, Led(r), Queued(r)
    PROVE  /\ Follows(r, Prepare(r))
           /\ Prepare(r).st.pending # None /\ Prepare(r).st.basket # None
           /\ Prepare(r).st.basket.left > 0
  <1> DEFINE b == r.st.basket
             n == [b EXCEPT !.seq = @ + 1]
             l == <<b.at, b.queue, b.seq + 1>>
             x == [r EXCEPT !.here = TRUE, !.submitted = FALSE, !.st.basket.seq = @ + 1,
                            !.st.pending = <<b.at, b.queue, b.seq + 1>>]
  <1>1. b \in Basket /\ b.left > 0
    BY DEF Queued, Led, Robot, Checkpoint
  <1>2. l \in Label /\ n \in Basket /\ n.left = b.left
    BY <1>1 DEF Queued, Basket, Label
  <1>3. x.st = [r.st EXCEPT !.basket = n, !.pending = l]
    BY DEF Led, Robot, Checkpoint
  <1>4. /\ x.st \in Checkpoint /\ x.st.rev = r.st.rev
        /\ x.st.pending = l /\ x.st.basket = n
    BY <1>2, <1>3 DEF Led, Robot, Checkpoint
  <1>5. x \in Robot
    BY <1>4 DEF Led, Robot
  <1>6. /\ x.wal = r.wal /\ x.save = r.save /\ SameLink(r, x)
        /\ Closed(r) \subseteq Closed(x)
    BY DEF Led, Robot, Closed, SameLink
  <1> HIDE DEF x
  <1>7. x.st.rev >= r.st.rev
    BY <1>4 DEF Led, Robot, Checkpoint
  <1>8. Follows(r, x) /\ Led(x)
    BY <1>5, <1>6, <1>7, Quiet DEF Follows
  <1>9. Follows(x, Changed(x)) /\ Led(Changed(x))
    BY <1>8, ChangedFollows DEF Follows
  <1>10. /\ Changed(x).st.pending = l /\ Changed(x).st.basket = n
    BY <1>4, <1>5 DEF Changed, Robot, Checkpoint
  <1>11. /\ Follows(Changed(x), Persist(Changed(x)))
         /\ Persist(Changed(x)).st = Changed(x).st
    BY <1>9, PersistFollows
  <1>12. Follows(r, Persist(Changed(x)))
    BY <1>8, <1>9, <1>11, FollowsTrans DEF Follows
  <1>13. Prepare(r) = Persist(Changed(x))
    BY DEF Prepare, x
  <1>14. l # None /\ n # None
    BY <1>2, NoneAssumption
  <1> QED
    BY <1>1, <1>2, <1>10, <1>11, <1>12, <1>13, <1>14

(* What the broker makes of an order, the robot's end in the middle of it  *)
(* included.                                                               *)
LEMMA SendOrderFollows ==
    ASSUME NEW r, Led(r), r.st.pending # None, r.st.basket # None,
           r.st.basket.left > 0, NEW t \in SendOrder(r)
    PROVE  Follows(r, t)
  <1> DEFINE l == r.st.pending
             s == [r EXCEPT !.submitted = TRUE, !.orders = @ \cup {l}]
             filled == [s EXCEPT !.open = @ \cup {l}]
             shut   == [s EXCEPT !.returned = @ \cup {l}]
             naked  == [filled EXCEPT !.bare = @ \cup {l}]
             taken  == Accept(filled, l[2])
  <1>1. l \in Label /\ l[2] \in Stage /\ r.st.basket.left >= 1
    BY DEF Led, Robot, Checkpoint, Label, Basket
  <1> DEFINE Same(x) ==
          /\ x \in Robot /\ x.st = r.st /\ x.wal = r.wal /\ x.save = r.save
          /\ SameLink(r, x) /\ Closed(r) \subseteq Closed(x)
          /\ x.faults = r.faults
  <1>2. \A x \in {s, filled, shut, naked} : Same(x)
    <2>1. Same(s)
      <3>1. s \in Robot
        BY <1>1 DEF Led, Robot
      <3>2. /\ s.st = r.st /\ s.wal = r.wal /\ s.save = r.save
            /\ SameLink(r, s) /\ Closed(r) \subseteq Closed(s)
            /\ s.faults = r.faults
        BY DEF Led, Robot, Closed, SameLink
      <3> HIDE DEF s
      <3> QED
        BY <3>1, <3>2
    <2>2. Same(filled)
      <3>1. filled \in Robot
        BY <1>1 DEF Led, Robot
      <3>2. /\ filled.st = r.st /\ filled.wal = r.wal /\ filled.save = r.save
            /\ SameLink(r, filled) /\ Closed(r) \subseteq Closed(filled)
            /\ filled.faults = r.faults
        BY DEF Led, Robot, Closed, SameLink
      <3> HIDE DEF filled
      <3> QED
        BY <3>1, <3>2
    <2>3. Same(shut)
      <3>1. shut \in Robot
        BY <1>1 DEF Led, Robot
      <3>2. /\ shut.st = r.st /\ shut.wal = r.wal /\ shut.save = r.save
            /\ SameLink(r, shut) /\ Closed(r) \subseteq Closed(shut)
            /\ shut.faults = r.faults
        BY DEF Led, Robot, Closed, SameLink
      <3> HIDE DEF shut
      <3> QED
        BY <3>1, <3>2
    <2>4. Same(naked)
      <3>1. naked \in Robot
        BY <1>1 DEF Led, Robot
      <3>2. /\ naked.st = r.st /\ naked.wal = r.wal /\ naked.save = r.save
            /\ SameLink(r, naked) /\ Closed(r) \subseteq Closed(naked)
            /\ naked.faults = r.faults
        BY DEF Led, Robot, Closed, SameLink
      <3> HIDE DEF naked
      <3> QED
        BY <3>1, <3>2
    <2> HIDE DEF s, filled, shut, naked, Same
    <2> QED
      BY <2>1, <2>2, <2>3, <2>4
  <1>3. \A x \in {s, filled, shut, naked} : Follows(r, x) /\ Led(x)
    <2> SUFFICES ASSUME NEW x \in {s, filled, shut, naked}
                 PROVE  Follows(r, x) /\ Led(x)
      OBVIOUS
    <2> HIDE DEF s, filled, shut, naked
    <2> QED
      BY <1>2, BrokerFollows DEF Follows
  <1>4. /\ t \in {Quarantine(s), Quarantine(filled), Quarantine(naked), Quarantine(shut),
                   Persist(Changed(ClearPending(taken))),
                   Persist(Changed(CancelQueue(ClearPending(shut))))}
        \/ (r.faults > 0 /\ t \in {Crashed(s), Crashed(filled)})
    BY DEF SendOrder
  <1>5. filled.st.basket # None /\ filled.st.basket.left >= 1
    BY <1>1, <1>2
  <1> HIDE DEF s, filled, shut, naked, l
  <1>6. \A x \in {s, filled, shut, naked} : Follows(r, Quarantine(x))
    BY <1>3, QuarantineFollows, FollowsTrans
  <1>7. Follows(r, Persist(Changed(ClearPending(taken))))
    <2>1. Follows(filled, taken) /\ Led(taken)
      BY <1>1, <1>3, <1>5, AcceptFollows DEF Follows
    <2> HIDE DEF taken
    <2>2. Follows(r, taken)
      BY <1>3, <2>1, FollowsTrans
    <2>3. Follows(r, ClearPending(taken)) /\ Led(ClearPending(taken))
      BY <2>1, <2>2, ClearPendingFollows, FollowsTrans DEF Follows
    <2>4. Follows(r, Changed(ClearPending(taken))) /\ Led(Changed(ClearPending(taken)))
      BY <2>3, ChangedFollows, FollowsTrans DEF Follows
    <2> QED
      BY <2>4, PersistFollows, FollowsTrans
  <1>8. Follows(r, Persist(Changed(CancelQueue(ClearPending(shut)))))
    <2>1. Follows(r, ClearPending(shut)) /\ Led(ClearPending(shut))
      BY <1>3, ClearPendingFollows, FollowsTrans DEF Follows
    <2> DEFINE c == CancelQueue(ClearPending(shut))
    <2>2. Follows(r, c) /\ Led(c)
      BY <2>1, CancelQueueFollows, FollowsTrans DEF Follows
    <2> HIDE DEF c
    <2>3. Follows(r, Changed(c)) /\ Led(Changed(c))
      BY <2>2, ChangedFollows, FollowsTrans DEF Follows
    <2>4. Follows(r, Persist(Changed(c)))
      BY <2>3, PersistFollows, FollowsTrans
    <2> QED
      BY <2>4 DEF c
  <1>9. ASSUME r.faults > 0, NEW x \in {s, filled} PROVE Follows(r, Crashed(x))
    <2>0. x \in Robot /\ r.faults - 1 \in 0 .. MaxFaults /\ x.faults = r.faults
      BY <1>2, <1>9, ContractAssumption DEF Led, Robot
    <2>1. Crashed(x) \in Robot
      BY <2>0 DEF Crashed, Robot
    <2>2. /\ Crashed(x).st = r.st /\ Crashed(x).wal = r.wal /\ Crashed(x).save = r.save
          /\ Crashed(x).up = "down" /\ ~Crashed(x).ready /\ Closed(r) \subseteq Closed(Crashed(x))
      BY <1>2 DEF Crashed, Robot, Closed
    <2>3. r.st.rev >= r.st.rev
      BY DEF Led, Robot, Checkpoint
    <2> QED
      BY <2>1, <2>2, <2>3 DEF Follows, Led
  <1> QED
    BY <1>4, <1>6, <1>7, <1>8, <1>9

(* A queued child is prepared, sent or cancelled.                          *)
LEMMA ProcessQueueFollows ==
    ASSUME NEW r, Led(r), NEW verdict, NEW t \in ProcessQueue(r, verdict)
    PROVE  Follows(r, t)
  <1>1. CASE t = r
    BY <1>1, FollowsSelf
  <1>2. CASE t = CancelQueue(r)
    BY <1>2, CancelQueueFollows
  <1>3. ASSUME Queued(r), NEW p, p = IF r.st.pending = None THEN Prepare(r) ELSE r,
               t \in IF Durable(p) THEN SendOrder(p) ELSE {p}
        PROVE  Follows(r, t)
    <2>1. /\ Follows(r, p) /\ p.st.pending # None /\ p.st.basket # None
          /\ p.st.basket.left > 0
      BY <1>3, PrepareFollows, FollowsSelf DEF Queued
    <2>2. Follows(p, t)
      BY <1>3, <2>1, SendOrderFollows, FollowsSelf DEF Follows
    <2> QED
      BY <2>1, <2>2, FollowsTrans DEF Follows
  <1> QED
    BY <1>1, <1>2, <1>3 DEF ProcessQueue

-----------------------------------------------------------------------------
(* Positions and bars                                                      *)

(* Bare and expired positions are protected or closed.                     *)
LEMMA TreatedFollows ==
    ASSUME NEW r, Led(r), NEW t \in Treated(r)
    PROVE  Follows(r, t)
  <1>1. CASE t = r
    BY <1>1, FollowsSelf
  <1>2. ASSUME NEW q \in {r, Quarantine(r)}, NEW old,
               NEW c \in SUBSET r.open, NEW p \in SUBSET r.bare, NEW loss \in SUBSET r.open,
               t = Treat(q, old, c, p, loss)
        PROVE  Follows(r, t)
    <2> DEFINE n == [q EXCEPT !.open = @ \ c, !.bare = @ \ (c \cup p),
                              !.won = @ \cup (c \ loss), !.lost = @ \cup (c \cap loss)]
    <2>1. Follows(r, q) /\ Led(q)
      BY <1>2, QuarantineFollows, FollowsSelf DEF Follows
    <2>2. c \subseteq Label
      BY DEF Led, Robot
    <2>3. n \in Robot
      BY <2>1, <2>2 DEF Led, Robot
    <2>4. /\ n.st = q.st /\ n.wal = q.wal /\ n.save = q.save /\ SameLink(q, n)
          /\ Closed(q) \subseteq Closed(n)
      BY <2>1 DEF Led, Robot, Closed, SameLink
    <2>5. t \in {n, Quarantine(n)}
      BY <1>2 DEF Treat
    <2> HIDE DEF n
    <2>6. Follows(r, n) /\ Led(n)
      BY <2>1, <2>3, <2>4, BrokerFollows, FollowsTrans DEF Follows
    <2> QED
      BY <2>5, <2>6, QuarantineFollows, FollowsTrans
  <1>3. CASE ~(r.st.basket = None \/ r.open = {})
    <2> DEFINE old == Expired(r.st.basket)
               q   == IF r.bare # {} THEN Quarantine(r) ELSE r
    <2>1. t \in {Treat(q, old, c, p, loss) :
                    c \in SUBSET (IF old THEN r.open ELSE r.open \cap r.bare),
                    p \in SUBSET r.bare, loss \in SUBSET r.open}
      BY <1>3 DEF Treated
    <2>2. q \in {r, Quarantine(r)}
      OBVIOUS
    <2> HIDE DEF old, q
    <2>3. PICK c \in SUBSET (IF old THEN r.open ELSE r.open \cap r.bare),
               p \in SUBSET r.bare, loss \in SUBSET r.open : t = Treat(q, old, c, p, loss)
      BY <2>1
    <2>4. c \in SUBSET r.open
      BY <2>3
    <2> QED
      BY <1>2, <2>2, <2>3, <2>4
  <1> QED
    BY <1>1, <1>3 DEF Treated

(* A change of the memory alone.                                           *)
LEMMA MemoryFollows ==
    ASSUME NEW r, Led(r), NEW m \in Checkpoint, m.rev >= r.st.rev
    PROVE  Follows(r, [r EXCEPT !.st = m])
  <1> DEFINE t == [r EXCEPT !.st = m]
  <1>1. t \in Robot
    BY DEF Led, Robot
  <1>2. /\ t.st = m /\ t.wal = r.wal /\ t.save = r.save
        /\ SameLink(r, t) /\ Closed(t) = Closed(r)
    BY DEF Led, Robot, Closed, SameLink
  <1> HIDE DEF t
  <1>3. Follows(r, t)
    BY <1>1, <1>2, Quiet
  <1> QED
    BY <1>3 DEF t

(* A change of the memory and its revision.                                *)
LEMMA MemoryChangedFollows ==
    ASSUME NEW r, Led(r), NEW m \in Checkpoint, m.rev >= r.st.rev
    PROVE  Follows(r, Changed([r EXCEPT !.st = m]))
  <1> DEFINE t == [r EXCEPT !.st = m]
  <1>1. Follows(r, t)
    BY MemoryFollows
  <1> HIDE DEF t
  <1>2. Follows(t, Changed(t))
    BY <1>1, ChangedFollows DEF Follows
  <1>3. Follows(r, Changed(t))
    BY <1>1, <1>2, FollowsTrans
  <1> QED
    BY <1>3 DEF t

(* A settled basket leaves the robot with its times.                       *)
LEMMA SettledFollows ==
    ASSUME NEW r, Led(r), now \in 1 .. MaxTime
    PROVE  Follows(r, Settled(r))
  <1> DEFINE later == /\ AcceptedSum(r.st.basket) > 0
                      /\ Cardinality(InBasket(r.lost \cap settled, r.st.basket))
                           > Cardinality(InBasket(r.won \cap settled, r.st.basket))
             m == [r.st EXCEPT !.exit = now, !.basket = None,
                               !.resume = IF later THEN now + Cooldown ELSE @]
             x == [r EXCEPT !.st.exit = now, !.st.basket = None,
                            !.st.resume = IF later THEN now + Cooldown ELSE @]
  <1>1. Settled(r) = Changed(x)
    BY DEF Settled
  <1> HIDE DEF later
  <1>2. r.st \in Checkpoint /\ now \in Nat /\ now + Cooldown \in Nat
    BY ContractAssumption DEF Led, Robot
  <1>3. m \in Checkpoint
    BY <1>2 DEF Checkpoint
  <1>4. m.rev >= r.st.rev
    BY <1>2 DEF Checkpoint
  <1>5. x = [r EXCEPT !.st = m]
    BY DEF Led, Robot, Checkpoint
  <1> HIDE DEF m, x
  <1> QED
    BY <1>1, <1>3, <1>4, <1>5, MemoryChangedFollows

(* The end of a basket, quarantined or cancelled on the way to it.         *)
LEMMA ConcludedFollows ==
    ASSUME NEW r, Led(r), now \in 1 .. MaxTime
    PROVE  Follows(r, Concluded(r))
  <1> DEFINE t == IF now > r.st.basket.at + AddTime THEN CancelQueue(r) ELSE r
             f == IF t.st.pending = None THEN t
                  ELSE IF t.here /\ ~t.submitted THEN CancelQueue(t)
                  ELSE Quarantine(t)
  <1>1. Follows(r, t)
    BY CancelQueueFollows, FollowsSelf
  <1>2. Concluded(r) \in {r, t, Finish(f)}
    BY DEF Concluded
  <1> HIDE DEF t
  <1>3. Led(t)
    BY <1>1 DEF Follows
  <1>4. Follows(t, f)
    BY <1>3, CancelQueueFollows, QuarantineFollows, FollowsSelf
  <1> HIDE DEF f
  <1>5. Led(f)
    BY <1>4 DEF Follows
  <1>6. Follows(f, Finish(f))
    BY <1>5, SettledFollows, FollowsSelf DEF Finish
  <1>7. Follows(r, f)
    BY <1>1, <1>4, FollowsTrans
  <1>8. Follows(r, Finish(f))
    BY <1>6, <1>7, FollowsTrans
  <1> QED
    BY <1>1, <1>2, <1>8, FollowsSelf

(* ManagePositions.                                                        *)
LEMMA ManageFollows ==
    ASSUME NEW r, Led(r), now \in 1 .. MaxTime, NEW t \in ManagePositions(r)
    PROVE  Follows(r, t)
  <1> DEFINE known == IF r.st.basket = None /\ r.open # {}
                      THEN RecoverExposureForExitOnly(Quarantine(r)) ELSE {r}
  <1>1. PICK x \in UNION {Treated(k) : k \in known} : t = Concluded(x)
    BY DEF ManagePositions
  <1>2. PICK k \in known : x \in Treated(k)
    BY <1>1
  <1>3. Follows(r, Quarantine(r)) /\ Led(Quarantine(r))
    BY QuarantineFollows DEF Follows
  <1>4. Follows(r, k) /\ Led(k)
    BY <1>2, <1>3, ExitOnlyFollows, FollowsSelf, FollowsTrans DEF Follows
  <1>5. Follows(r, x) /\ Led(x)
    BY <1>2, <1>4, TreatedFollows, FollowsTrans DEF Follows
  <1> QED
    BY <1>1, <1>5, ConcludedFollows, FollowsTrans

(* Three fields of the basket, set at once.                                *)
Queueing(r, v, l, w) ==
    [r EXCEPT !.st.basket.queue = v, !.st.basket.left = l, !.st.basket.next = w]

LEMMA QueueingFollows ==
    ASSUME NEW r, Led(r), r.st.basket \in Basket,
           NEW v \in Stage \cup {None}, NEW l \in Nat, NEW w \in 0 .. Stages
    PROVE  Follows(r, Queueing(r, v, l, w))
  <1> DEFINE b  == [r.st.basket EXCEPT !.queue = v, !.left = l, !.next = w]
             s2 == [r.st EXCEPT !.basket = [r.st.basket EXCEPT !.queue = v, !.left = l]]
             s3 == [r.st EXCEPT !.basket = b]
  <1>1. r \in Robot /\ r.st \in Checkpoint
    BY DEF Led, Robot
  <1>2. [r EXCEPT !.st.basket.queue = v, !.st.basket.left = l] = [r EXCEPT !.st = s2]
    BY <1>1 DEF Robot, Checkpoint, Basket
  <1>3. s3 = [s2 EXCEPT !.basket.next = w]
    BY <1>1 DEF Checkpoint, Basket
  <1>4. Queueing(r, v, l, w) = [[r EXCEPT !.st = s2] EXCEPT !.st.basket.next = w]
    BY <1>2 DEF Queueing
  <1>5. [[r EXCEPT !.st = s2] EXCEPT !.st.basket.next = w]
           = [r EXCEPT !.st = [s2 EXCEPT !.basket.next = w]]
    BY <1>1 DEF Robot
  <1>6. Queueing(r, v, l, w) = [r EXCEPT !.st = s3]
    BY <1>3, <1>4, <1>5
  <1>7. b \in Basket
    BY DEF Basket
  <1>8. s3 \in Checkpoint /\ s3.rev >= r.st.rev
    BY <1>1, <1>7 DEF Checkpoint
  <1> HIDE DEF s3
  <1> QED
    BY <1>6, <1>8, MemoryFollows

(* A stage is added while there is one.                                    *)
LEMMA QueueStageFollows ==
    ASSUME NEW r, Led(r), NEW wanted \in 0 .. MaxWanted, Adds(r)
    PROVE  Follows(r, QueueStage(r, wanted))
  <1> DEFINE s == r.st.basket.next
             v == IF wanted = 0 THEN None ELSE s
             x == Queueing(r, v, wanted, s + 1)
  <1>1. r.st.basket \in Basket /\ s < Stages /\ s \in Nat /\ Stages \in Nat /\ wanted \in Nat
    BY ContractAssumption DEF Led, Robot, Checkpoint, Adds, Basket
  <1>2. v \in Stage \cup {None} /\ s + 1 \in 0 .. Stages
    BY <1>1 DEF Stage
  <1>3. QueueStage(r, wanted) = Changed(x)
    BY DEF QueueStage, Queueing
  <1>4. Follows(r, x)
    BY <1>1, <1>2, QueueingFollows
  <1> HIDE DEF x
  <1> QED
    BY <1>3, <1>4, ChangedFollows, FollowsTrans DEF Follows

(* A signal starts a basket.                                               *)
LEMMA PrepareBasketFollows ==
    ASSUME NEW r, Led(r), NEW wanted \in 0 .. MaxWanted, now \in 1 .. MaxTime
    PROVE  Follows(r, PrepareBasket(r, wanted))
  <1> DEFINE m == [r.st EXCEPT !.signal = now]
             x == [r EXCEPT !.st.signal = now]
             s == Changed(x)
             b == [at |-> now, queue |-> 0, left |-> wanted, next |-> 1, seq |-> 0,
                   accepted |-> [y \in Stage |-> 0]]
  <1>1. m \in Checkpoint /\ m.rev >= r.st.rev
    BY DEF Led, Robot, Checkpoint
  <1>2. x = [r EXCEPT !.st = m]
    BY DEF Led, Robot, Checkpoint
  <1>3. b \in Basket
    BY ContractAssumption DEF Basket, Stage
  <1>4. PrepareBasket(r, wanted) = IF wanted = 0 THEN s
                                   ELSE Changed([s EXCEPT !.st.basket = b])
    BY DEF PrepareBasket
  <1> HIDE DEF m, x, b
  <1>5. Follows(r, s) /\ Led(s)
    BY <1>1, <1>2, MemoryChangedFollows DEF Follows
  <1> HIDE DEF s
  <1> DEFINE y == [s EXCEPT !.st.basket = b]
  <1>6. Follows(s, y)
    BY <1>3, <1>5, BasketFollows
  <1> HIDE DEF y
  <1>7. Follows(s, Changed(y))
    BY <1>5, <1>6, ChangedFollows, FollowsTrans DEF Follows
  <1>8. Follows(r, Changed(y))
    BY <1>5, <1>7, FollowsTrans
  <1> QED
    BY <1>4, <1>5, <1>8 DEF y

(* A completed bar.                                                        *)
LEMMA BarFollows ==
    ASSUME NEW r, Led(r), NEW wanted \in 0 .. MaxWanted, now \in 1 .. MaxTime
    PROVE  Follows(r, Bar(r, wanted))
  <1> DEFINE a == IF Adds(r) THEN QueueStage(r, wanted) ELSE r
             b == Changed(a)
  <1>1. Follows(r, a) /\ Led(a)
    BY QueueStageFollows, FollowsSelf DEF Follows
  <1>2. Bar(r, wanted) = IF MayStart(b) THEN PrepareBasket(b, wanted) ELSE b
    BY DEF Bar
  <1> HIDE DEF a
  <1>3. Follows(r, b) /\ Led(b)
    BY <1>1, ChangedFollows, FollowsTrans DEF Follows
  <1> HIDE DEF b
  <1>4. Follows(r, PrepareBasket(b, wanted))
    BY <1>3, PrepareBasketFollows, FollowsTrans
  <1> QED
    BY <1>2, <1>3, <1>4

-----------------------------------------------------------------------------
(* The callbacks                                                           *)

Inv == TypeOK /\ LogInv /\ SaveInv

(* A robot that was never started, at an empty bridge.                     *)
LEMMA InitInv == Init => Inv
  <1> SUFFICES ASSUME Init PROVE Inv
    OBVIOUS
  <1>1. Fresh \in Checkpoint
    BY DEF Fresh, Checkpoint
  <1>2. robot \in Robot
    BY <1>1, ContractAssumption DEF Init, Robot
  <1>3. 1 \in 1 .. MaxTime
    BY ContractAssumption
  <1>4. TypeOK
    BY <1>2, <1>3 DEF Init, TypeOK
  <1>5. LogInv /\ SaveInv
    BY DEF Init, LogInv, Logged, SaveInv, Saved
  <1> QED
    BY <1>4, <1>5 DEF Inv

(* What the log promises is kept by every method.                          *)
LEMMA LoggedKeeps ==
    ASSUME NEW x, NEW t, NEW m, Led(x), Follows(x, t), t.st.rev <= MaxRev,
           row \in Row \cup {None}, Logged(x, m)
    PROVE  Logged(t, m)
  <1>1. /\ x.st.rev \in Nat /\ t.st.rev \in Nat /\ MaxRev \in Nat
        /\ t.st.rev >= x.st.rev
        /\ x.wal # None => x.wal.rev \in Nat /\ x.wal.rev <= x.st.rev
        /\ t.wal # None => t.wal.rev \in Nat /\ t.wal.rev <= t.st.rev
        /\ x.save # None => x.save.rev \in Nat
        /\ t.save # None => t.save.rev \in Nat
        /\ row # None => row.rev \in Nat
    BY ContractAssumption DEF Led, Follows, Robot, Checkpoint, Save, Row
  <1>2. t.ready => x.ready /\ t.up = x.up
    BY DEF Follows
  <1>3. t.wal = x.wal \/ (t.wal # None /\ t.wal.rev >= x.st.rev)
    BY DEF Follows
  <1>4. t.ready => t.up = "up" /\ t.wal # None
    BY <1>2, <1>3 DEF Logged
  <1>5. t.ready /\ row # None => row.rev <= t.wal.rev
    BY <1>1, <1>2, <1>3 DEF Logged
  <1>6. t.save # None => /\ t.save.rev <= MaxRev
                         /\ t.save.data.rev = t.save.rev
                         /\ t.ready => t.save.rev <= t.wal.rev
    <2>1. CASE t.save = x.save
      BY <2>1, <1>1, <1>2, <1>3 DEF Logged
    <2>2. CASE Sends(x, t)
      BY <2>2, <1>1 DEF Sends
    <2> QED
      BY <2>1, <2>2 DEF Follows
  <1>7. m # None /\ m.type = "ready" =>
           /\ ~t.ready /\ t.save = None
           /\ m.data = IF row = None THEN None ELSE row.data
    BY <1>2 DEF Logged, Follows, Sends
  <1> QED
    BY <1>1, <1>4, <1>5, <1>6, <1>7 DEF Logged

(* So is what a connected robot knows of the bridge.                       *)
LEMMA SavedKeeps ==
    ASSUME NEW x, NEW t, NEW m, Led(x), Follows(x, t), row \in Row \cup {None}, Saved(x, m)
    PROVE  Saved(t, m)
  <1>1. t.ready => /\ x.ready /\ t.remote = x.remote /\ t.persisted = x.persisted
    BY DEF Follows
  <1>2. CASE Sends(x, t)
    <2>1. /\ x.save = None /\ m = None /\ t.save # None
          /\ t.save.base = Store!RowVersion
          /\ row # None => row.rev <= x.persisted
      BY <1>2, NoneAssumption DEF Saved, Sends
    <2>2. /\ x.persisted \in Nat /\ t.save.rev \in Nat /\ t.save.rev > x.persisted
          /\ row # None => row.rev \in Nat
      BY <1>2 DEF Sends, Save, Led, Robot, Row
    <2>3. Store!Current(t.save.base, t.save.rev)
      BY <2>1, <2>2 DEF Store!Current
    <2> QED
      BY <1>2, <2>1, <2>3 DEF Saved, Sends
  <1>3. CASE t.save = x.save /\ (t.ready => t.busy = x.busy /\ t.sent = x.sent)
    BY <1>1, <1>3 DEF Saved
  <1> QED
    BY <1>2, <1>3 DEF Follows

(* A callback that follows a robot with its answer taken.                  *)
LEMMA CallbackKeeps ==
    ASSUME Inv, NEW x, Led(x), Closed(robot) \subseteq Closed(x),
           Logged(x, mail'), Saved(x, mail'),
           Follows(x, robot'), robot'.st.rev <= MaxRev,
           mail' \in {mail, None}, UNCHANGED <<row, receipts, settled, now>>
    PROVE  Inv'
  <1>1. robot' \in Robot /\ settled' \subseteq Closed(robot') /\ row \in Row \cup {None}
    BY DEF Follows, Led, Inv, TypeOK
  <1>2. TypeOK'
    BY <1>1 DEF Inv, TypeOK
  <1>3. Logged(robot', mail')
    BY <1>1, LoggedKeeps
  <1>4. LogInv'
    BY <1>3 DEF LogInv, Logged
  <1>5. Saved(robot', mail')
    BY <1>1, SavedKeeps
  <1>6. SaveInv'
    BY <1>5 DEF Inv, SaveInv, Saved, Store!RowVersion, Store!Current
  <1> QED
    BY <1>2, <1>4, <1>6 DEF Inv

(* A robot that is not connected and keeps its log and save.               *)
LEMMA ApartKeeps ==
    ASSUME Inv, robot' \in Robot, ~robot'.ready, Closed(robot) \subseteq Closed(robot'),
           robot'.wal \in {robot.wal, None},
           robot'.up = "up" /\ robot'.wal # None => robot'.wal.rev <= robot'.st.rev,
           robot'.save = robot.save,
           mail' \in {mail, None}, UNCHANGED <<row, receipts, settled, now>>
    PROVE  Inv'
  <1>1. settled' \subseteq Closed(robot')
    BY DEF Inv, TypeOK
  <1>2. TypeOK'
    BY <1>1 DEF Inv, TypeOK
  <1>3. robot'.save # None => /\ robot'.save.rev <= MaxRev
                              /\ robot'.save.data.rev = robot'.save.rev
    BY DEF Inv, LogInv, Logged
  <1>4. mail' # None /\ mail'.type = "ready" =>
            /\ ~robot'.ready /\ robot'.save = None
            /\ mail'.data = IF row' = None THEN None ELSE row'.data
    BY DEF Inv, LogInv, Logged
  <1>5. row' # None => row'.data.rev = row'.rev
    BY DEF Inv, LogInv, Logged
  <1>6. LogInv'
    BY <1>3, <1>4, <1>5 DEF LogInv, Logged
  <1>7. SaveInv'
    BY DEF Inv, SaveInv, Saved, Store!RowVersion, Store!Current
  <1> QED
    BY <1>2, <1>6, <1>7 DEF Inv

(* A start from the log, or from the positions where there is none.        *)
LEMMA OnStartKeeps == Inv /\ OnStart => Inv'
  <1> SUFFICES ASSUME Inv, OnStart PROVE Inv'
    OBVIOUS
  <1>0. /\ robot \in Robot /\ robot.up = "down" /\ ~robot.ready
        /\ mail' \in {mail, None} /\ UNCHANGED <<row, receipts, settled, now>>
    BY DEF Inv, TypeOK, LogInv, Logged, OnStart
  <1>1. ASSUME robot.wal = None,
               NEW r \in FreshState(robot), robot' = [r EXCEPT !.up = "up", !.persisted = r.st.rev]
        PROVE  Inv'
    <2> DEFINE x == [robot EXCEPT !.st = Fresh]
               y == [robot EXCEPT !.st = [Fresh EXCEPT !.quarantined = TRUE]]
    <2>1. Fresh \in Checkpoint /\ [Fresh EXCEPT !.quarantined = TRUE] \in Checkpoint
      BY DEF Fresh, Checkpoint
    <2>2. \A z \in {x, y} : /\ z \in Robot /\ z.wal = None /\ ~z.ready /\ z.save = robot.save
                            /\ Closed(z) = Closed(robot)
      <3>1. /\ x \in Robot /\ x.wal = None /\ ~x.ready /\ x.save = robot.save
            /\ Closed(x) = Closed(robot)
        BY <1>0, <1>1, <2>1 DEF Robot, Closed
      <3>2. /\ y \in Robot /\ y.wal = None /\ ~y.ready /\ y.save = robot.save
            /\ Closed(y) = Closed(robot)
        BY <1>0, <1>1, <2>1 DEF Robot, Closed
      <3> HIDE DEF x, y
      <3> QED
        BY <3>1, <3>2
    <2>3. r = x \/ r \in RecoverExposureForExitOnly(y)
      BY <1>1 DEF FreshState
    <2> HIDE DEF x, y
    <2>4. /\ r \in Robot /\ r.wal = None /\ ~r.ready /\ r.save = robot.save
          /\ Closed(robot) \subseteq Closed(r)
      <3>1. CASE r = x
        BY <3>1, <2>2
      <3>2. CASE r \in RecoverExposureForExitOnly(y)
        <4>1. \/ r = y
              \/ \E b : r = [y EXCEPT !.st.basket = b]
          BY <3>2 DEF RecoverExposureForExitOnly
        <4>2. r.wal = y.wal /\ r.ready = y.ready /\ r.save = y.save /\ Closed(r) = Closed(y)
          BY <2>2, <4>1 DEF Robot, Closed
        <4>3. Led(y)
          BY <2>2 DEF Led
        <4>4. r \in Robot
          BY <3>2, <4>3, ExitOnlyFollows DEF Follows, Led
        <4> QED
          BY <2>2, <4>2, <4>4
      <3> QED
        BY <2>3, <3>1, <3>2
    <2>5. /\ robot' \in Robot /\ robot'.wal = None /\ ~robot'.ready /\ robot'.save = robot.save
          /\ Closed(robot) \subseteq Closed(robot')
      BY <1>1, <2>4 DEF Robot, Checkpoint, Closed
    <2> QED
      BY <1>0, <2>5, ApartKeeps
  <1>2. ASSUME robot.wal # None, robot' = [robot EXCEPT !.up = "up", !.st = robot.wal,
                                                        !.persisted = robot.wal.rev]
        PROVE  Inv'
    <2>1. robot.wal \in Checkpoint /\ robot.wal.rev \in Nat
      BY <1>0, <1>2 DEF Robot, Checkpoint
    <2>2. /\ robot' \in Robot /\ robot'.wal = robot.wal /\ robot'.st = robot.wal
          /\ ~robot'.ready /\ robot'.save = robot.save /\ Closed(robot) \subseteq Closed(robot')
      BY <1>0, <1>2, <2>1 DEF Robot, Closed
    <2>3. robot'.wal.rev <= robot'.st.rev
      BY <2>1, <2>2
    <2> QED
      BY <1>0, <2>2, <2>3, ApartKeeps
  <1>3. ASSUME robot' = [robot EXCEPT !.up = "stopped"]
        PROVE  Inv'
    <2>1. /\ robot' \in Robot /\ robot'.wal = robot.wal /\ robot'.up # "up"
          /\ ~robot'.ready /\ robot'.save = robot.save /\ Closed(robot) \subseteq Closed(robot')
      BY <1>0, <1>3 DEF Robot, Closed
    <2> QED
      BY <1>0, <2>1, ApartKeeps
  <1> QED
    BY <1>1, <1>2, <1>3 DEF OnStart, Becomes

(* A timer's cycle, with a bar or without.                                 *)
LEMMA CycleKeeps ==
    ASSUME Inv, NEW wanted \in (0 .. MaxWanted) \cup {None}, NEW verdict, Cycle(wanted, verdict)
    PROVE  Inv'
  <1>1. Led(robot) /\ robot.up = "up" /\ now \in 1 .. MaxTime
    BY DEF Inv, TypeOK, LogInv, Logged, Led, Cycle
  <1>0. Logged(robot, mail) /\ Saved(robot, mail)
    BY DEF Inv, LogInv, SaveInv
  <1> DEFINE Bars(m)  == IF wanted # None THEN Bar(m, wanted) ELSE m
             Afters(m) == IF ~m.ready THEN {m}
                          ELSE {IF q.up = "up" THEN Persist(q) ELSE q :
                                   q \in ProcessQueue(Bars(m), verdict)}
  <1>2. PICK m \in ManagePositions(robot) : robot' \in Afters(m)
    BY DEF Cycle, Becomes
  <1>3. robot'.st.rev <= MaxRev /\ UNCHANGED <<row, receipts, mail, settled, now>>
    BY DEF Cycle, Becomes
  <1>4. Follows(robot, m) /\ Led(m)
    BY <1>1, ManageFollows DEF Follows
  <1>5. CASE ~m.ready
    <2>1. Follows(robot, robot')
      BY <1>2, <1>4, <1>5
    <2> QED
      BY <1>0, <1>1, <1>3, <2>1, CallbackKeeps
  <1>6. CASE m.ready
    <2>1. PICK q \in ProcessQueue(Bars(m), verdict) :
             robot' = IF q.up = "up" THEN Persist(q) ELSE q
      BY <1>2, <1>6
    <2>2. Follows(m, Bars(m))
      BY <1>1, <1>4, BarFollows, FollowsSelf
    <2> HIDE DEF Bars
    <2>3. Follows(robot, Bars(m)) /\ Led(Bars(m))
      BY <1>1, <1>4, <2>2, FollowsTrans DEF Follows
    <2>4. Follows(robot, q) /\ Led(q)
      BY <1>1, <2>3, ProcessQueueFollows, FollowsTrans DEF Follows
    <2>5. Follows(robot, Persist(q))
      BY <1>1, <2>4, PersistFollows, FollowsTrans
    <2>6. Follows(robot, robot')
      BY <2>1, <2>4, <2>5
    <2> QED
      BY <1>0, <1>1, <1>3, <2>6, CallbackKeeps
  <1> QED
    BY <1>5, <1>6

(* The handshake takes the later of the two checkpoints, and logs it.      *)
LEMMA ReceiveReadyKeeps == Inv /\ ReceiveReady => Inv'
  <1> SUFFICES ASSUME Inv, ReceiveReady PROVE Inv'
    OBVIOUS
  <1> DEFINE other == mail.data
             x == [robot EXCEPT !.remote = mail.version]
             a == Adopt(robot, mail.version, mail.data)
             z == [a EXCEPT !.ready = TRUE, !.busy = FALSE, !.persisted = a.st.rev]
  <1>1. /\ robot \in Robot /\ robot.up = "up" /\ ~robot.ready /\ Led(robot)
        /\ mail # None /\ mail.type = "ready" /\ mail' = None
        /\ UNCHANGED <<row, receipts, settled, now>>
    BY DEF Inv, TypeOK, LogInv, Logged, ReceiveReady, Led
  <1>2. /\ mail.version \in Nat /\ other \in Checkpoint \cup {None}
        /\ robot.save = None
        /\ other = IF row = None THEN None ELSE row.data
        /\ row # None => row.data \in Checkpoint /\ row.data.rev = row.rev
    BY <1>1 DEF Inv, TypeOK, LogInv, Logged, Mail, Row
  <1>3. /\ Led(x) /\ Closed(x) = Closed(robot) /\ Logged(x, mail') /\ Saved(x, mail')
    <2>1. x \in Robot
      BY <1>1, <1>2 DEF Robot
    <2>2. /\ x.st = robot.st /\ x.wal = robot.wal /\ x.save = robot.save
          /\ x.ready = robot.ready /\ x.up = robot.up /\ Closed(x) = Closed(robot)
      BY <1>1 DEF Robot, Closed
    <2> HIDE DEF x
    <2>3. Logged(x, mail')
      BY <1>1, <2>2 DEF Inv, LogInv, Logged
    <2>4. Saved(x, mail')
      BY <1>1, <2>2 DEF Inv, SaveInv, Saved
    <2> QED
      BY <1>1, <2>1, <2>2, <2>3, <2>4 DEF Led
  <1>4. CASE robot' = Quarantine(x) /\ robot'.st.rev <= MaxRev
    <2> HIDE DEF x
    <2>1. Follows(x, robot')
      BY <1>3, <1>4, QuarantineFollows
    <2> QED
      BY <1>1, <1>3, <1>4, <2>1, CallbackKeeps
  <1>5. CASE robot' = x /\ robot'.st.rev <= MaxRev
    <2> HIDE DEF x
    <2>1. Follows(x, robot')
      BY <1>3, <1>5, FollowsSelf
    <2> QED
      BY <1>1, <1>3, <1>5, <2>1, CallbackKeeps
  <1>6. CASE robot' \in Reconciled(z) /\ robot'.st.rev <= MaxRev
    <2>1. /\ a \in Robot /\ a.st \in Checkpoint /\ a.wal = robot.wal /\ a.save = None
          /\ a.up = "up" /\ Closed(a) = Closed(robot) /\ a.st.rev \in Nat
          /\ a.st.rev >= robot.st.rev /\ a.remote = mail.version
          /\ other # None => a.st.rev >= other.rev
      <3> DEFINE m == IF other # None /\ other.rev >= robot.st.rev THEN other ELSE robot.st
      <3>1. m \in Checkpoint /\ robot.st \in Checkpoint
        BY <1>1, <1>2, NoneAssumption DEF Robot
      <3>2. a = [robot EXCEPT !.remote = mail.version, !.st = m]
        BY DEF Adopt
      <3>3. /\ m.rev \in Nat /\ m.rev >= robot.st.rev
            /\ other # None => m.rev >= other.rev
        BY <1>1, <1>2, <3>1 DEF Checkpoint
      <3> HIDE DEF m, a, other
      <3> QED
        BY <1>1, <1>2, <3>1, <3>2, <3>3 DEF Robot, Closed
    <2> HIDE DEF a
    <2>2. /\ z \in Robot /\ z.st = a.st /\ z.wal = robot.wal /\ z.save = None
          /\ z.up = "up" /\ z.ready /\ Closed(z) = Closed(robot)
          /\ ~z.busy /\ z.remote = mail.version /\ z.persisted = a.st.rev
      BY <2>1 DEF Robot, Closed
    <2> HIDE DEF z, other
    <2>3. Led(z)
      BY <1>1, <2>1, <2>2 DEF Led, Robot, Checkpoint
    <2>4. /\ Follows(z, robot') /\ robot'.wal # None /\ robot'.wal.rev >= a.st.rev
          /\ Led(robot')
      <3>1. robot' \in Reconciled(z)
        BY <1>6 DEF z
      <3>2. /\ Follows(z, robot') /\ robot'.wal # None /\ robot'.wal.rev >= z.st.rev
        BY <2>3, <3>1, ReconciledFollows
      <3> QED
        BY <2>2, <3>2 DEF Follows
    <2>5. TypeOK'
      BY <1>1, <2>2, <2>4 DEF Follows, Led, Inv, TypeOK
    <2>6. /\ robot'.wal.rev \in Nat /\ robot'.st.rev \in Nat /\ robot'.wal.rev <= robot'.st.rev
          /\ MaxRev \in Nat
      BY <2>4, ContractAssumption DEF Led, Robot, Checkpoint
    <2>7. robot'.ready => robot'.up = "up"
      BY <2>2, <2>4 DEF Follows
    <2>12. row # None => /\ a.st.rev >= row.rev /\ row.rev \in Nat
                         /\ row.data.rev = row.rev
      <3>1. row # None => other # None /\ other.rev = row.rev
        BY <1>2, NoneAssumption
      <3> QED
        BY <1>2, <2>1, <3>1 DEF Inv, TypeOK, Row
    <2>8. row' # None => row'.rev <= robot'.wal.rev /\ row'.data.rev = row'.rev
      BY <1>1, <2>1, <2>4, <2>6, <2>12
    <2>9. robot'.save # None => /\ robot'.save.rev <= MaxRev
                                /\ robot'.save.data.rev = robot'.save.rev
                                /\ robot'.save.rev <= robot'.wal.rev
      <3>1. robot'.save # None =>
               /\ robot'.save \in Save /\ robot'.save.rev <= robot'.wal.rev
               /\ robot'.save.data.rev = robot'.save.rev
        BY <2>2, <2>4 DEF Follows, Sends
      <3>2. robot'.save # None => robot'.save.rev \in Nat
        BY <3>1 DEF Save
      <3> QED
        BY <1>6, <2>6, <3>1, <3>2
    <2>10. LogInv'
      BY <1>1, <2>4, <2>6, <2>7, <2>8, <2>9 DEF LogInv, Logged
    <2>11. Saved(z, None)
      <3>1. mail.version = Store!RowVersion
        BY <1>1 DEF Inv, SaveInv, Saved
      <3> QED
        BY <2>1, <2>2, <2>12, <3>1 DEF Saved
    <2>13. SaveInv'
      <3>1. Saved(robot', None)
        BY <2>3, <2>4, <2>11, SavedKeeps DEF Inv, TypeOK
      <3> QED
        BY <1>1, <3>1 DEF Inv, SaveInv, Saved, Store!RowVersion, Store!Current
    <2> QED
      BY <2>5, <2>10, <2>13 DEF Inv
  <1>7. \/ robot' = Quarantine(x) /\ robot'.st.rev <= MaxRev
        \/ robot' = x /\ robot'.st.rev <= MaxRev
        \/ robot' \in Reconciled(z) /\ robot'.st.rev <= MaxRev
    BY DEF ReceiveReady, Becomes
  <1> QED
    BY <1>4, <1>5, <1>6, <1>7

(* An acknowledgement, and the order it was waited for with.               *)
LEMMA ReceiveAckKeeps ==
    ASSUME Inv, NEW verdict, ReceiveAck(verdict)
    PROVE  Inv'
  <1> DEFINE x == [robot EXCEPT !.remote = mail.version, !.persisted = mail.rev, !.busy = FALSE]
  <1>1. /\ robot \in Robot /\ robot.up = "up" /\ Led(robot)
        /\ mail # None /\ mail.type = "ack" /\ mail' = None
        /\ UNCHANGED <<row, receipts, settled, now>>
    BY DEF Inv, TypeOK, LogInv, Logged, ReceiveAck, Led
  <1>2. mail.version \in Nat /\ mail.rev \in Nat
    BY <1>1 DEF Inv, TypeOK, Mail
  <1>3. CASE robot' \in ProcessQueue(Persist(x), verdict) /\ robot.busy /\ robot'.st.rev <= MaxRev
    <2>1. x \in Robot
      BY <1>1, <1>2 DEF Robot
    <2>2. /\ x.st = robot.st /\ x.wal = robot.wal /\ x.save = robot.save
          /\ x.ready = robot.ready /\ x.up = robot.up /\ Closed(x) = Closed(robot)
          /\ ~x.busy /\ x.remote = mail.version /\ x.persisted = mail.rev
      BY <1>1 DEF Robot, Closed
    <2> HIDE DEF x
    <2>3. Led(x) /\ Logged(x, mail')
      BY <1>1, <2>1, <2>2 DEF Inv, LogInv, Logged, Led
    <2>4. Saved(x, mail')
      <3>1. /\ mail.version = Store!RowVersion /\ robot.save = None
            /\ row # None /\ row.rev = mail.rev
        BY <1>1 DEF Inv, SaveInv, Saved
      <3> QED
        BY <1>1, <1>2, <2>2, <3>1 DEF Saved
    <2> DEFINE y == Persist(x)
    <2>5. Follows(x, y) /\ Led(y) /\ robot' \in ProcessQueue(y, verdict)
      BY <1>3, <2>3, PersistFollows DEF Follows
    <2> HIDE DEF y
    <2>6. Follows(x, robot')
      BY <2>3, <2>5, ProcessQueueFollows, FollowsTrans
    <2> QED
      BY <1>1, <1>3, <2>2, <2>3, <2>4, <2>6, CallbackKeeps
  <1>4. CASE UNCHANGED robot /\ (~robot.busy \/ mail.rev # robot.sent)
    BY <1>1, <1>4 DEF Inv, SaveInv, Saved, ReceiveAck
  <1> QED
    BY <1>3, <1>4 DEF ReceiveAck, Becomes

(* The connection breaks.                                                  *)
LEMMA BridgeOfflineKeeps == Inv /\ BridgeOffline => Inv'
  <1> SUFFICES ASSUME Inv, BridgeOffline PROVE Inv'
    OBVIOUS
  <1>1. /\ robot \in Robot /\ Led(robot) /\ robot.faults - 1 \in 0 .. MaxFaults
    BY ContractAssumption DEF Inv, TypeOK, LogInv, Logged, Led, BridgeOffline, Robot
  <1>2. robot' = [[robot EXCEPT !.ready = FALSE, !.busy = FALSE] EXCEPT !.faults = @ - 1]
    BY DEF BridgeOffline, Offline
  <1>3. /\ robot' \in Robot /\ ~robot'.ready /\ Closed(robot) \subseteq Closed(robot')
        /\ robot'.wal = robot.wal /\ robot'.st = robot.st /\ robot'.save = robot.save
    BY <1>1, <1>2 DEF Robot, Closed
  <1>4. mail' \in {mail, None} /\ UNCHANGED <<row, receipts, settled, now>>
    BY DEF BridgeOffline
  <1> QED
    BY <1>1, <1>3, <1>4, ApartKeeps DEF Led

(* The robot crashes.                                                      *)
LEMMA CrashKeeps == Inv /\ Crash => Inv'
  <1> SUFFICES ASSUME Inv, Crash PROVE Inv'
    OBVIOUS
  <1>1. robot \in Robot /\ robot.faults - 1 \in 0 .. MaxFaults
    BY ContractAssumption DEF Inv, TypeOK, Crash, Robot
  <1>2. /\ robot' \in Robot /\ ~robot'.ready /\ Closed(robot) \subseteq Closed(robot')
        /\ robot'.wal = robot.wal /\ robot'.up # "up" /\ robot'.save = robot.save
    BY <1>1 DEF Crash, Crashed, Robot, Closed
  <1>3. mail' \in {mail, None} /\ UNCHANGED <<row, receipts, settled, now>>
    BY DEF Crash
  <1> QED
    BY <1>2, <1>3, ApartKeeps

(* The robot is stopped.                                                   *)
LEMMA OnStopKeeps == Inv /\ OnStop => Inv'
  <1> SUFFICES ASSUME Inv, OnStop PROVE Inv'
    OBVIOUS
  <1> DEFINE p == Persist(robot)
  <1>1. /\ robot \in Robot /\ Led(robot) /\ robot.faults - 1 \in 0 .. MaxFaults
        /\ row \in Row \cup {None} /\ Logged(robot, mail) /\ Saved(robot, mail)
        /\ mail' = None /\ UNCHANGED <<row, receipts, settled, now>>
        /\ robot' = Crashed(p) /\ robot'.st.rev <= MaxRev
    BY ContractAssumption
       DEF Inv, TypeOK, LogInv, Logged, SaveInv, Saved, Led, OnStop, Becomes, Robot
  <1>2. Follows(robot, p) /\ p \in Robot /\ p.st = robot.st /\ p.faults = robot.faults
    BY <1>1, PersistFollows DEF Persist, Follows, Led, Robot
  <1> HIDE DEF p
  <1>3. /\ robot' \in Robot /\ ~robot'.ready /\ robot'.up = "down" /\ robot'.st = p.st
        /\ robot'.save = p.save /\ Closed(robot') = Closed(p)
    BY <1>1, <1>2 DEF Crashed, Robot, Closed
  <1>4. Logged(p, mail) /\ Saved(p, mail)
    BY <1>1, <1>2, <1>3, LoggedKeeps, SavedKeeps
  <1>5. TypeOK'
    BY <1>1, <1>2, <1>3 DEF Inv, TypeOK, Follows
  <1>6. LogInv'
    BY <1>1, <1>3, <1>4 DEF LogInv, Logged
  <1>7. SaveInv'
    BY <1>1, <1>3, <1>4 DEF Inv, SaveInv, Saved, Store!RowVersion, Store!Current
  <1> QED
    BY <1>5, <1>6, <1>7 DEF Inv

(* The log is lost, while the robot does not run.                          *)
LEMMA LoseStorageKeeps == Inv /\ LoseStorage => Inv'
  <1> SUFFICES ASSUME Inv, LoseStorage PROVE Inv'
    OBVIOUS
  <1>1. robot \in Robot /\ ~robot.ready
    BY DEF Inv, TypeOK, LogInv, Logged, LoseStorage
  <1>2. /\ robot' \in Robot /\ ~robot'.ready /\ Closed(robot) \subseteq Closed(robot')
        /\ robot'.wal = None /\ robot'.save = robot.save
    BY <1>1 DEF LoseStorage, Robot, Closed
  <1>3. mail' \in {mail, None} /\ UNCHANGED <<row, receipts, settled, now>>
    BY DEF LoseStorage
  <1> QED
    BY <1>2, <1>3, ApartKeeps

-----------------------------------------------------------------------------
(* The bridge, the broker and the clock                                    *)

(* A new session is answered with the row of the bridge.                   *)
LEMMA HelloKeeps == Inv /\ Hello => Inv'
  <1> SUFFICES ASSUME Inv, Hello PROVE Inv'
    OBVIOUS
  <1>1. /\ robot \in Robot /\ Led(robot) /\ ~robot.ready
        /\ row \in Row \cup {None}
    BY DEF Inv, TypeOK, LogInv, Logged, Hello, Led
  <1>2. /\ robot' \in Robot /\ ~robot'.ready /\ Closed(robot') = Closed(robot)
        /\ robot'.wal = robot.wal /\ robot'.st = robot.st /\ robot'.save = None
    BY <1>1 DEF Hello, Robot, Closed
  <1>3. Store!RowVersion \in Nat
    BY <1>1 DEF Store!RowVersion, Row
  <1>4. /\ mail'.type = "ready" /\ mail' \in Mail
        /\ mail'.data = IF row = None THEN None ELSE row.data
    BY <1>1, <1>3 DEF Hello, Mail, Row
  <1>5. UNCHANGED <<row, receipts, settled, now>>
    BY DEF Hello
  <1>6. TypeOK'
    BY <1>2, <1>4, <1>5 DEF Inv, TypeOK
  <1>7. LogInv'
    BY <1>1, <1>2, <1>4, <1>5 DEF Inv, LogInv, Logged, Led
  <1>8. SaveInv'
    <2>1. Saved(robot', mail')
      BY <1>2, <1>4 DEF Saved, Hello
    <2> QED
      BY <1>5, <2>1 DEF Inv, SaveInv, Saved, Store!RowVersion, Store!Current
  <1> QED
    BY <1>6, <1>7, <1>8 DEF Inv

(* The save that is under way is new to the bridge, and is written.        *)
LEMMA SaveIsNew ==
    ASSUME Inv, robot.save # None
    PROVE  /\ robot.save \in Save /\ robot.save.rev \in 0 .. MaxRev
           /\ receipts[robot.save.rev] = None
           /\ Store!Current(robot.save.base, robot.save.rev)
           /\ row # None => row.rev \in Nat /\ robot.save.rev > row.rev
           /\ mail = None
  <1>1. robot.save \in Save /\ robot.save.rev \in Nat
    BY DEF Inv, TypeOK, Robot, Save
  <1>2. robot.save.rev \in 0 .. MaxRev
    BY <1>1, ContractAssumption DEF Inv, LogInv, Logged
  <1>3. Store!Current(robot.save.base, robot.save.rev) /\ mail = None
    BY DEF Inv, SaveInv, Saved
  <1>4. row # None => row.rev \in Nat /\ robot.save.rev > row.rev
    BY <1>3 DEF Inv, TypeOK, Row, Store!Current
  <1>5. receipts[robot.save.rev] # None => row # None /\ robot.save.rev <= row.rev
    BY <1>2 DEF Inv, SaveInv
  <1>6. receipts[robot.save.rev] = None
    BY <1>1, <1>4, <1>5
  <1> QED
    BY <1>1, <1>2, <1>3, <1>4, <1>6

(* What the bridge reads is written, and receipted.                        *)
LEMMA SaveStored ==
    ASSUME Inv, BridgeSaves
    PROVE  /\ row' = [version |-> Store!RowVersion + 1, rev |-> robot.save.rev,
                      data |-> robot.save.data]
           /\ receipts' = [receipts EXCEPT ![robot.save.rev] =
                              [base |-> robot.save.base, data |-> robot.save.data,
                               version |-> Store!RowVersion + 1]]
  <1> DEFINE s == robot.save
  <1>1. receipts[s.rev] = None /\ s # None /\ (row # None => s.rev > row.rev /\ row.rev \in Nat)
    BY SaveIsNew DEF BridgeSaves
  <1>2. s.rev \in Nat
    BY SaveIsNew DEF BridgeSaves, Save
  <1>3. ~Store!SaveRepeated(s.base, s.rev, s.data)
    BY <1>1 DEF Store!SaveRepeated, Store!Repeated
  <1>4. ~Store!SaveLegacy(s.base, s.rev, s.data)
    BY <1>1, <1>2 DEF Store!SaveLegacy, Store!Legacy
  <1>5. Store!SaveNew(s.base, s.rev, s.data)
    BY <1>3, <1>4 DEF BridgeSaves, Store!Save
  <1> QED
    BY <1>5 DEF Store!SaveNew

(* The bridge writes only what is in the log of a connected robot.         *)
LEMMA BridgeSavesKeeps == Inv /\ BridgeSaves => Inv'
  <1> SUFFICES ASSUME Inv, BridgeSaves PROVE Inv'
    OBVIOUS
  <1> DEFINE s == robot.save
             v == Store!RowVersion + 1
             e == [base |-> s.base, data |-> s.data, version |-> v]
             Receipt == [base : Nat, data : Checkpoint, version : Nat]
  <1>1. /\ robot \in Robot /\ s \in Save /\ s # None /\ s.base \in Nat /\ s.rev \in Nat
        /\ s.data \in Checkpoint /\ s.rev \in 0 .. MaxRev /\ s.data.rev = s.rev
        /\ robot.ready => s.rev <= robot.wal.rev
        /\ receipts[s.rev] = None /\ mail = None
        /\ row # None => row.rev \in Nat /\ s.rev > row.rev
    BY SaveIsNew DEF Inv, TypeOK, LogInv, Logged, BridgeSaves, Save
  <1>2. row \in Row \cup {None} /\ receipts \in [0 .. MaxRev -> Receipt \cup {None}]
    BY DEF Inv, TypeOK
  <1>3. v \in Nat
    BY <1>2 DEF Store!RowVersion, Row
  <1>4. row' = [version |-> v, rev |-> s.rev, data |-> s.data] /\ receipts' = [receipts EXCEPT ![s.rev] = e]
    BY SaveStored
  <1>5. e \in Receipt /\ e.version = v
    BY <1>1, <1>3
  <1> HIDE DEF e, Receipt
  <1>6. /\ receipts' \in [0 .. MaxRev -> Receipt \cup {None}]
        /\ receipts'[s.rev].version = v
        /\ \A n \in 0 .. MaxRev : receipts'[n] # None => receipts[n] # None \/ n = s.rev
    BY <1>1, <1>2, <1>4, <1>5
  <1>7. /\ row' \in Row /\ row' # None /\ row'.version = v
        /\ row'.rev = s.rev /\ row'.data = s.data
    BY <1>1, <1>3, <1>4, NoneAssumption DEF Row
  <1>8. /\ robot' \in Robot /\ SameLink(robot, robot')
        /\ robot'.wal = robot.wal /\ robot'.st = robot.st /\ robot'.save = None
        /\ Closed(robot') = Closed(robot)
    BY <1>1 DEF BridgeSaves, Robot, Closed, SameLink
  <1>9. \/ mail' = None /\ ~robot.ready
        \/ /\ robot.ready /\ mail' \in Mail /\ mail'.type = "ack"
           /\ mail'.version = v /\ mail'.rev = s.rev
    <2> HIDE DEF v, s
    <2>1. mail' = IF robot.ready THEN [type |-> "ack", rev |-> s.rev, version |-> v] ELSE None
      BY <1>6 DEF BridgeSaves, s
    <2>2. [type |-> "ack", rev |-> s.rev, version |-> v] \in Mail
      BY <1>1, <1>3 DEF Mail
    <2> QED
      BY <2>1, <2>2
  <1>10. UNCHANGED <<settled, now>>
    BY DEF BridgeSaves
  <1>11. TypeOK'
    BY <1>6, <1>7, <1>8, <1>9, <1>10 DEF Inv, TypeOK, Receipt
  <1>12. LogInv'
    BY <1>1, <1>7, <1>8, <1>9 DEF Inv, LogInv, Logged, SameLink
  <1>13. SaveInv'
    <2>1. \A n \in 0 .. MaxRev : receipts'[n] # None => row' # None /\ n <= row'.rev
      BY <1>1, <1>6, <1>7 DEF Inv, SaveInv
    <2>2. (Store!RowVersion)' = v
      BY <1>7 DEF Store!RowVersion
    <2>3. robot.ready => robot.busy /\ robot.sent = s.rev
      BY <1>1 DEF Inv, SaveInv, Saved
    <2> HIDE DEF v, s
    <2>4. mail' # None \/ ~robot.ready
      BY <1>9, NoneAssumption
    <2>5. Saved(robot, mail)'
      BY <1>7, <1>8, <1>9, <2>2, <2>3, <2>4 DEF Saved, SameLink
    <2> QED
      BY <2>1, <2>5 DEF SaveInv
  <1> QED
    BY <1>11, <1>12, <1>13 DEF Inv

(* A step that leaves the memory, the log, the connection and the bridge.  *)
LEMMA UntouchedKeeps ==
    ASSUME Inv, TypeOK', robot'.st = robot.st, robot'.wal = robot.wal, robot'.save = robot.save,
           SameLink(robot, robot'), UNCHANGED <<row, receipts, mail>>
    PROVE  Inv'
  <1>1. LogInv'
    BY DEF Inv, LogInv, Logged, SameLink
  <1>2. SaveInv'
    BY DEF Inv, SaveInv, Saved, SameLink, Store!RowVersion, Store!Current
  <1> QED
    BY <1>1, <1>2 DEF Inv

(* Positions, their history and time.                                      *)
LEMMA PositionClosesKeeps ==
    ASSUME Inv, NEW l \in robot.open, PositionCloses(l)
    PROVE  Inv'
  <1>1. robot \in Robot /\ l \in Label
    BY DEF Inv, TypeOK, Robot
  <1>2. \/ robot' = [robot EXCEPT !.open = @ \ {l}, !.bare = @ \ {l}, !.won = @ \cup {l}]
        \/ robot' = [robot EXCEPT !.open = @ \ {l}, !.bare = @ \ {l}, !.lost = @ \cup {l}]
    BY DEF PositionCloses
  <1>3. /\ robot' \in Robot /\ SameLink(robot, robot')
        /\ robot'.wal = robot.wal /\ robot'.st = robot.st /\ robot'.save = robot.save
        /\ Closed(robot) \subseteq Closed(robot')
    <2>1. CASE robot' = [robot EXCEPT !.open = @ \ {l}, !.bare = @ \ {l}, !.won = @ \cup {l}]
      BY <1>1, <2>1 DEF Robot, Closed, SameLink
    <2>2. CASE robot' = [robot EXCEPT !.open = @ \ {l}, !.bare = @ \ {l}, !.lost = @ \cup {l}]
      BY <1>1, <2>2 DEF Robot, Closed, SameLink
    <2> QED
      BY <1>2, <2>1, <2>2
  <1>4. UNCHANGED <<row, receipts, mail, settled, now>>
    BY DEF PositionCloses
  <1>5. TypeOK'
    BY <1>3, <1>4 DEF Inv, TypeOK
  <1> QED
    BY <1>3, <1>4, <1>5, UntouchedKeeps

(* The history shows a closing.                                            *)
LEMMA HistoryShowsKeeps ==
    ASSUME Inv, NEW l \in Closed(robot), HistoryShows(l)
    PROVE  Inv'
  <1>1. TypeOK'
    BY DEF Inv, TypeOK, HistoryShows
  <1> QED
    BY <1>1, UntouchedKeeps DEF HistoryShows, SameLink

(* Time passes.                                                            *)
LEMMA TickKeeps == Inv /\ Tick => Inv'
  <1> SUFFICES ASSUME Inv, Tick PROVE Inv'
    OBVIOUS
  <1>1. TypeOK'
    BY ContractAssumption DEF Inv, TypeOK, Tick
  <1> QED
    BY <1>1, UntouchedKeeps DEF Tick, SameLink

(* Every step keeps the invariant.                                         *)
LEMMA NextKeeps == Inv /\ [Next]_vars => Inv'
  <1> SUFFICES ASSUME Inv, [Next]_vars PROVE Inv'
    OBVIOUS
  <1>1. CASE OnStart
    BY <1>1, OnStartKeeps
  <1>2. CASE ReceiveReady
    BY <1>2, ReceiveReadyKeeps
  <1>3. CASE BridgeOffline
    BY <1>3, BridgeOfflineKeeps
  <1>4. CASE Crash
    BY <1>4, CrashKeeps
  <1>5. CASE LoseStorage
    BY <1>5, LoseStorageKeeps
  <1>6. ASSUME NEW verdict \in Verdict, ReceiveAck(verdict)
        PROVE  Inv'
    BY <1>6, ReceiveAckKeeps
  <1>7. ASSUME NEW verdict \in Verdict, NEW wanted \in (0 .. MaxWanted) \cup {None},
               Cycle(wanted, verdict)
        PROVE  Inv'
    BY <1>7, CycleKeeps
  <1>8. CASE Hello
    BY <1>8, HelloKeeps
  <1>9. CASE BridgeSaves
    BY <1>9, BridgeSavesKeeps
  <1>10. CASE Tick
    BY <1>10, TickKeeps
  <1>11. ASSUME NEW l \in robot.open, PositionCloses(l)
         PROVE  Inv'
    BY <1>11, PositionClosesKeeps
  <1>12. ASSUME NEW l \in Closed(robot), HistoryShows(l)
         PROVE  Inv'
    BY <1>12, HistoryShowsKeeps
  <1>13. CASE UNCHANGED vars
    <2>1. TypeOK'
      BY <1>13 DEF Inv, TypeOK, vars
    <2> QED
      BY <1>13, <2>1, UntouchedKeeps DEF vars, SameLink
  <1>14. CASE OnStop
    BY <1>14, OnStopKeeps
  <1> QED
    BY <1>1, <1>2, <1>3, <1>4, <1>5, <1>6, <1>7, <1>8, <1>9, <1>10, <1>11, <1>12, <1>13, <1>14
       DEF Next

-----------------------------------------------------------------------------
(* What the copies of a checkpoint tell of the orders                      *)

(* A robot between two methods, with all that OrderInv says of it.         *)
Ordered(r) == Led(r) /\ Copies(r) /\ Intended(r) /\ Accounts(r.st, r)

(* A robot that knows its orders, whether or not its intent may be sent.   *)
Known(r) == Led(r) /\ Copies(r) /\ Accounts(r.st, r)

(* The positions, the attempt and the connection are the same.             *)
Body(r, t) == /\ t.open = r.open /\ t.bare = r.bare /\ t.won = r.won /\ t.lost = r.lost
              /\ t.returned = r.returned /\ t.orders = r.orders /\ t.faults = r.faults
              /\ t.here = r.here /\ t.submitted = r.submitted
              /\ t.ready = r.ready /\ t.up = r.up

(* Nothing is on its way to the broker, or ever will be.                   *)
Idle(r) == r.st.pending = None \/ r.st.quarantined

(* A method that sends no order.                                           *)
Carries(r, t) == Ordered(t) /\ t.orders = r.orders

(* Fewer fills are counted by the same checkpoint.                         *)
LEMMA CountedSame ==
    ASSUME NEW c \in Checkpoint, NEW F, IsFiniteSet(F), NEW G \in SUBSET F,
           c.basket # None, Counted(c, F)
    PROVE  Counted(c, G)
  <1> SUFFICES ASSUME NEW s \in Stage
               PROVE  Cardinality({l \in G : l[1] = c.basket.at /\ l[2] = s /\ l # c.pending})
                          <= c.basket.accepted[s]
    BY DEF Counted
  <1> DEFINE A == {l \in F : l[1] = c.basket.at /\ l[2] = s /\ l # c.pending}
             B == {l \in G : l[1] = c.basket.at /\ l[2] = s /\ l # c.pending}
  <1>1. B \in SUBSET A /\ A \in SUBSET F
    OBVIOUS
  <1>2. Cardinality(A) <= c.basket.accepted[s]
    BY DEF Counted
  <1>3. c.basket.accepted[s] \in Nat
    BY DEF Checkpoint, Basket
  <1> HIDE DEF A, B
  <1>4. IsFiniteSet(A)
    BY <1>1, FS_Subset
  <1>5. Cardinality(B) <= Cardinality(A) /\ Cardinality(A) \in Nat
    BY <1>1, <1>4, FS_Subset, FS_CardinalityType
  <1>6. IsFiniteSet(B) /\ Cardinality(B) \in Nat
    BY <1>1, <1>4, FS_Subset, FS_CardinalityType
  <1> QED
    BY <1>2, <1>3, <1>5, <1>6 DEF B

(* A checkpoint that differs in its revision and its times only, for a     *)
(* robot with the same orders and no more fills; or the same in quarantine.*)
LEMMA AccountsSame ==
    ASSUME NEW c \in Checkpoint, NEW d \in Checkpoint, NEW r, NEW t, Accounts(c, r),
           d.basket = c.basket, d.pending = c.pending, d.signal = c.signal,
           d.quarantined = c.quarantined, d.rev >= c.rev,
           t.orders = r.orders, Fills(t) \subseteq Fills(r), IsFiniteSet(Fills(r))
    PROVE  Accounts(d, t)
  <1>1. Bounded(d)
    BY DEF Accounts, Bounded, Checkpoint, Label, Basket
  <1>2. Valid(c) => Valid(d)
    BY DEF Valid
  <1>3. c.basket # None /\ Counted(c, Fills(r)) => Counted(d, Fills(t))
    <2>1. c.basket # None /\ Counted(c, Fills(r)) => Counted(c, Fills(t))
      BY CountedSame
    <2> QED
      BY <2>1 DEF Counted
  <1> QED
    BY <1>1, <1>2, <1>3 DEF Accounts

(* A quarantined checkpoint starts nothing.                                *)
LEMMA AccountsQuarantined ==
    ASSUME NEW c, NEW r, c.quarantined, Bounded(c)
    PROVE  Accounts(c, r)
  BY DEF Accounts

(* A method that only changes the memory, or closes positions.             *)
LEMMA CopiesSame ==
    ASSUME NEW r, NEW t, Led(r), Led(t), Copies(r), t.wal = r.wal, t.save = r.save,
           SameLink(r, t), t.orders = r.orders, Fills(t) \subseteq Fills(r),
           t.open \subseteq r.open,
           t.st.rev >= r.st.rev, t.here => r.here \/ t.up = "up",
           row \in Row \cup {None}
    PROVE  Copies(t)
  <1>1. IsFiniteSet(Fills(r)) /\ Fills(t) \subseteq t.orders
    BY FS_Subset DEF Copies
  <1>2. \A c \in Checkpoint : Accounts(c, r) => Accounts(c, t)
    <2> SUFFICES ASSUME NEW c \in Checkpoint, Accounts(c, r) PROVE Accounts(c, t)
      OBVIOUS
    <2>1. c.rev >= c.rev
      BY DEF Checkpoint
    <2> QED
      BY <1>1, <2>1, AccountsSame
  <1>3. /\ r.wal # None => r.wal \in Checkpoint
        /\ r.save # None => r.save.data \in Checkpoint
        /\ row # None => row.data \in Checkpoint
        /\ r.st.rev \in Nat /\ t.st.rev \in Nat /\ r.persisted \in Nat /\ r.sent \in Nat
    BY DEF Led, Robot, Save, Row, Checkpoint
  <1>4. /\ t.wal # None => Accounts(t.wal, t) \/ (t.wal = Fresh /\ t.open = {})
        /\ t.save # None => Accounts(t.save.data, t)
        /\ row # None => Accounts(row.data, t)
    BY <1>2, <1>3 DEF Copies
  <1>5. /\ t.ready => t.persisted <= t.st.rev
        /\ t.ready /\ t.busy => t.persisted < t.sent /\ t.sent <= t.st.rev
        /\ t.ready /\ ~t.busy => t.save = None
        /\ t.up # "up" => ~t.ready /\ ~t.here
    BY <1>3 DEF Copies, SameLink
  <1> QED
    BY <1>1, <1>4, <1>5 DEF Copies

(* The same intent at the same or a later revision.                        *)
LEMMA IntendedSame ==
    ASSUME NEW r, NEW t, Led(r), Led(t), Copies(r), Intended(r), t.wal = r.wal, t.save = r.save,
           SameLink(r, t), t.orders = r.orders, t.st.rev >= r.st.rev,
           t.st.pending = r.st.pending, t.st.quarantined = r.st.quarantined,
           t.here = r.here, t.submitted = r.submitted
    PROVE  Intended(t)
  <1>1. /\ r.st.rev \in Nat /\ t.st.rev \in Nat /\ r.persisted \in Nat /\ r.sent \in Nat
        /\ r.ready => r.persisted <= r.st.rev
        /\ r.ready /\ r.busy => r.sent <= r.st.rev
    BY DEF Led, Robot, Checkpoint, Copies
  <1>2. t.persisted >= t.st.rev => r.persisted >= r.st.rev
    BY <1>1 DEF SameLink
  <1>3. t.ready /\ t.busy /\ t.sent = t.st.rev => r.sent = r.st.rev
    BY <1>1 DEF SameLink
  <1> QED
    BY <1>2, <1>3 DEF Intended, SameLink

(* A method that leaves the intent is ordered if the memory is.            *)
LEMMA MemoryOrdered ==
    ASSUME NEW r, NEW t, Led(r), Led(t), Copies(r), t.wal = r.wal, t.save = r.save,
           SameLink(r, t), t.orders = r.orders, Fills(t) \subseteq Fills(r),
           t.open \subseteq r.open,
           t.st.rev >= r.st.rev, t.here => r.here \/ t.up = "up",
           row \in Row \cup {None}, Accounts(t.st, t),
           \/ Idle(t)
           \/ /\ Intended(r)
              /\ t.st.pending = r.st.pending /\ t.st.quarantined = r.st.quarantined
              /\ t.here = r.here /\ t.submitted = r.submitted
    PROVE  Carries(r, t)
  <1>1. Copies(t)
    BY CopiesSame
  <1>2. Intended(t)
    <2>1. CASE Idle(t)
      BY <2>1 DEF Idle, Intended
    <2> QED
      BY <2>1, IntendedSame
  <1> QED
    BY <1>1, <1>2 DEF Carries, Ordered

(* The revision goes up.                                                   *)
LEMMA ChangedOrdered ==
    ASSUME NEW r, Ordered(r), row \in Row \cup {None}
    PROVE  Carries(r, Changed(r)) /\ (Idle(r) => Idle(Changed(r)))
  <1> DEFINE t == Changed(r)
  <1>1. /\ Led(t) /\ t.st.rev = r.st.rev + 1 /\ r.st \in Checkpoint /\ t.st \in Checkpoint
        /\ r.st.rev \in Nat
    BY ChangedFollows DEF Ordered, Led, Robot, Checkpoint, Follows
  <1>2. /\ t.wal = r.wal /\ t.save = r.save /\ SameLink(r, t) /\ t.orders = r.orders
        /\ Fills(t) = Fills(r) /\ t.open = r.open /\ t.here = r.here /\ t.submitted = r.submitted
        /\ t.st.basket = r.st.basket /\ t.st.pending = r.st.pending
        /\ t.st.signal = r.st.signal /\ t.st.quarantined = r.st.quarantined
    BY DEF Ordered, Changed, Led, Robot, Checkpoint, SameLink, Fills
  <1> HIDE DEF t
  <1>3. IsFiniteSet(Fills(r))
    BY FS_Subset DEF Ordered, Copies
  <1>4. Accounts(t.st, t)
    BY <1>1, <1>2, <1>3, AccountsSame DEF Ordered
  <1>5. Carries(r, t)
    BY <1>1, <1>2, <1>4, MemoryOrdered DEF Ordered
  <1> QED
    BY <1>2, <1>5 DEF Idle, t

(* The log is written, and a save is sent if none is under way.            *)
Written(r, t) ==
    /\ t.st = r.st /\ t.wal = r.st /\ t.persisted = r.persisted
    /\ \/ /\ t.save = r.save /\ t.busy = r.busy /\ t.sent = r.sent
          /\ ~(r.ready /\ ~r.busy /\ r.st.rev > r.persisted)
       \/ /\ r.ready /\ ~r.busy /\ r.st.rev > r.persisted
          /\ t.save \in Save /\ t.save.data = r.st /\ t.busy /\ t.sent = r.st.rev

LEMMA PersistWritten ==
    ASSUME NEW r, Led(r)
    PROVE  Written(r, Persist(r)) /\ Led(Persist(r)) /\ Body(r, Persist(r))
  <1> DEFINE w == [r EXCEPT !.wal = r.st]
             s == [w EXCEPT !.busy = TRUE, !.sent = r.st.rev,
                            !.save = [base |-> r.remote, rev |-> r.st.rev, data |-> r.st]]
  <1>1. Led(Persist(r))
    BY PersistFollows DEF Follows
  <1>2. r \in Robot /\ r.st \in Checkpoint
    BY DEF Led, Robot
  <1>3. /\ Body(r, w) /\ w.st = r.st /\ w.wal = r.st /\ w.persisted = r.persisted
        /\ w.save = r.save /\ w.busy = r.busy /\ w.sent = r.sent
    BY <1>2 DEF Robot, Body
  <1>4. /\ Body(r, s) /\ s.st = r.st /\ s.wal = r.st /\ s.persisted = r.persisted
        /\ s.save \in Save /\ s.save.data = r.st /\ s.busy /\ s.sent = r.st.rev
    BY <1>2 DEF Robot, Body, Save, Checkpoint
  <1>5. Persist(r) = IF r.ready /\ ~r.busy /\ r.st.rev > r.persisted THEN s ELSE w
    BY DEF Persist
  <1> HIDE DEF w, s
  <1> QED
    BY <1>1, <1>3, <1>4, <1>5 DEF Written

(* What it writes tells of the orders what its memory does.                *)
LEMMA PersistKnown ==
    ASSUME NEW r, Known(r), row \in Row \cup {None}
    PROVE  Known(Persist(r))
  <1> DEFINE t == Persist(r)
  <1>1. Written(r, t) /\ Led(t) /\ Body(r, t)
    BY PersistWritten DEF Known
  <1> HIDE DEF t
  <1>2. /\ r.st \in Checkpoint /\ r.st.rev \in Nat /\ r.persisted \in Nat /\ r.sent \in Nat
        /\ r.save # None => r.save.data \in Checkpoint
        /\ row # None => row.data \in Checkpoint
    BY DEF Known, Led, Robot, Checkpoint, Save, Row
  <1>3. IsFiniteSet(Fills(r)) /\ Fills(t) = Fills(r) /\ t.open = r.open /\ t.orders = r.orders
    BY <1>1, FS_Subset DEF Known, Copies, Fills, Body
  <1>4. \A c \in Checkpoint : Accounts(c, r) => Accounts(c, t)
    <2> SUFFICES ASSUME NEW c \in Checkpoint, Accounts(c, r) PROVE Accounts(c, t)
      OBVIOUS
    <2>1. c.rev >= c.rev
      BY DEF Checkpoint
    <2> QED
      BY <1>3, <2>1, AccountsSame
  <1>5. Accounts(t.st, t) /\ Accounts(t.wal, t)
    BY <1>1, <1>2, <1>4 DEF Known, Written
  <1>6. row # None => Accounts(row.data, t) /\ row.data.pending \in Intents \cup {None}
    BY <1>2, <1>4 DEF Known, Copies
  <1>7. t.save # None => Accounts(t.save.data, t)
    BY <1>1, <1>2, <1>4, <1>5 DEF Known, Copies, Written
  <1>8. t.orders \subseteq Intents /\ IsFiniteSet(t.orders) /\ Fills(t) \subseteq t.orders
    BY <1>3 DEF Known, Copies
  <1>9. /\ t.ready => t.persisted <= t.st.rev
        /\ t.ready /\ t.busy => t.persisted < t.sent /\ t.sent <= t.st.rev
        /\ t.ready /\ ~t.busy => t.save = None
        /\ t.up # "up" => ~t.ready /\ ~t.here
    BY <1>1, <1>2 DEF Known, Copies, Written, Body
  <1>10. Copies(t)
    BY <1>5, <1>6, <1>7, <1>8, <1>9 DEF Copies
  <1> QED
    BY <1>1, <1>5, <1>10 DEF Known, t

(* The intent is in what is written; a new one is still to be saved.       *)
LEMMA PersistOrdered ==
    ASSUME NEW r, Known(r), row \in Row \cup {None},
           \/ Intended(r)
           \/ /\ r.ready /\ r.st.pending \notin r.orders /\ r.persisted < r.st.rev
              /\ r.busy => r.sent < r.st.rev
    PROVE  Carries(r, Persist(r)) /\ Persist(r).st = r.st
  <1> DEFINE t == Persist(r)
  <1>1. Written(r, t) /\ Body(r, t)
    BY PersistWritten DEF Known
  <1>2. Known(t)
    BY PersistKnown
  <1> HIDE DEF t
  <1>3. /\ r.st.rev \in Nat /\ r.persisted \in Nat /\ r.sent \in Nat /\ r.st # None
        /\ t.save \in Save => t.save # None
    BY NoneAssumption DEF Known, Led, Robot, Checkpoint
  <1>4. CASE Intended(r)
    <2>1. Intended(t)
      BY <1>1, <1>3, <1>4 DEF Written, Body, Intended
    <2> QED
      BY <1>1, <1>2, <2>1 DEF Carries, Ordered, Known, Written, Body, t
  <1>5. CASE /\ r.ready /\ r.st.pending \notin r.orders /\ r.persisted < r.st.rev
             /\ r.busy => r.sent < r.st.rev
    <2>1. Intended(t)
      BY <1>1, <1>3, <1>5 DEF Written, Body, Intended
    <2> QED
      BY <1>1, <1>2, <2>1 DEF Carries, Ordered, Known, Written, Body, t
  <1> QED
    BY <1>4, <1>5

(* A revision and a save touch neither positions nor the connection.       *)
LEMMA BodyKept ==
    ASSUME NEW r, Led(r)
    PROVE  Body(r, Changed(r)) /\ Body(r, Persist(r)) /\ Body(r, Quarantine(r))
  <1>1. \A x \in Robot : Body(x, Changed(x))
    BY DEF Body, Changed, Robot
  <1>2. \A x \in Robot : Body(x, Persist(x))
    <2> SUFFICES ASSUME NEW x \in Robot PROVE Body(x, Persist(x))
      OBVIOUS
    <2> DEFINE w == [x EXCEPT !.wal = x.st]
               s == [w EXCEPT !.busy = TRUE, !.sent = x.st.rev,
                              !.save = [base |-> x.remote, rev |-> x.st.rev, data |-> x.st]]
    <2>1. Body(x, w)
      BY DEF Body, Robot
    <2>2. Body(x, s)
      BY DEF Body, Robot
    <2> QED
      BY <2>1, <2>2 DEF Persist
  <1> DEFINE q == [r EXCEPT !.st.quarantined = TRUE]
  <1>3. q \in Robot /\ Body(r, q) /\ (q.wal # None => q.wal.rev <= q.st.rev)
    BY DEF Led, Body, Robot, Checkpoint
  <1> HIDE DEF q
  <1>4. Changed(q) \in Robot
    BY <1>3, ChangedFollows DEF Follows, Led
  <1>5. Body(q, Changed(q)) /\ Body(Changed(q), Persist(Changed(q)))
    BY <1>1, <1>2, <1>3, <1>4
  <1>6. Body(r, Quarantine(r))
    BY <1>3, <1>5 DEF Body, Quarantine, q
  <1> QED
    BY <1>1, <1>2, <1>6 DEF Led

(* After a quarantine nothing is sent, whatever was under way.             *)
LEMMA QuarantineOrdered ==
    ASSUME NEW r, Led(r), Copies(r), Bounded(r.st), row \in Row \cup {None}
    PROVE  /\ Carries(r, Quarantine(r)) /\ Idle(Quarantine(r)) /\ Body(r, Quarantine(r))
           /\ Quarantine(r).st.quarantined
           /\ Quarantine(r).st.basket = r.st.basket
           /\ Quarantine(r).st.pending = r.st.pending
  <1> DEFINE q == [r EXCEPT !.st.quarantined = TRUE]
             t == Persist(Changed(q))
  <1>1. r.st \in Checkpoint /\ r.st.rev \in Nat /\ q \in Robot /\ q.st \in Checkpoint
    BY DEF Led, Robot, Checkpoint
  <1>2. /\ q.wal = r.wal /\ q.save = r.save /\ SameLink(r, q) /\ q.orders = r.orders
        /\ Fills(q) = Fills(r) /\ q.open = r.open /\ q.here = r.here
        /\ q.st.rev = r.st.rev /\ q.st.basket = r.st.basket /\ q.st.pending = r.st.pending
        /\ q.st.quarantined
    BY DEF Led, Robot, Checkpoint, SameLink, Fills
  <1> HIDE DEF q
  <1>3. Led(q) /\ Accounts(q.st, q) /\ Idle(q) /\ q.st.rev >= r.st.rev
    BY <1>1, <1>2 DEF Led, Bounded, Accounts, Idle
  <1>4. Carries(r, q)
    BY <1>2, <1>3, MemoryOrdered
  <1>5. Carries(q, Changed(q)) /\ Idle(Changed(q))
    BY <1>3, <1>4, ChangedOrdered DEF Carries
  <1>6. /\ Changed(q).st.quarantined /\ Changed(q).st.basket = r.st.basket
        /\ Changed(q).st.pending = r.st.pending
    BY <1>1, <1>2 DEF Changed, Robot, Checkpoint
  <1>7. Carries(Changed(q), t) /\ t.st = Changed(q).st
    BY <1>5, PersistOrdered DEF Carries, Ordered, Known
  <1>8. Quarantine(r) = t
    BY DEF Quarantine, q
  <1>9. Carries(r, t) /\ Idle(t)
    BY <1>4, <1>5, <1>6, <1>7 DEF Carries, Idle
  <1> HIDE DEF t
  <1> QED
    BY <1>6, <1>7, <1>8, <1>9, BodyKept

(* What else a robot does to its positions: it closes some.                *)
LEMMA BrokerOrdered ==
    ASSUME NEW r, Ordered(r), NEW t \in Robot, t.st = r.st, t.wal = r.wal, t.save = r.save,
           SameLink(r, t), t.orders = r.orders, Fills(t) \subseteq Fills(r),
           t.open \subseteq r.open,
           t.here = r.here, t.submitted = r.submitted, row \in Row \cup {None}
    PROVE  Carries(r, t) /\ (Idle(r) => Idle(t))
  <1>1. Led(t) /\ t.st \in Checkpoint /\ t.st.rev >= r.st.rev
    BY DEF Ordered, Led, Robot, Checkpoint
  <1>2. IsFiniteSet(Fills(r))
    BY FS_Subset DEF Ordered, Copies
  <1>3. Accounts(t.st, t)
    BY <1>1, <1>2, AccountsSame DEF Ordered
  <1>4. Carries(r, t)
    BY <1>1, <1>3, MemoryOrdered DEF Ordered
  <1> QED
    BY <1>4 DEF Idle

-----------------------------------------------------------------------------
(* Counting children                                                       *)

(* An intent that was not filled makes no difference to the count.         *)
LEMMA CountedDropped ==
    ASSUME NEW c \in Checkpoint, NEW d \in Checkpoint, NEW F \in SUBSET Label,
           c.basket # None, d.basket # None, d.basket.at = c.basket.at,
           d.basket.accepted = c.basket.accepted, d.pending \notin F,
           c.pending \notin F, Counted(c, F)
    PROVE  Counted(d, F)
  <1> SUFFICES ASSUME NEW s \in Stage
               PROVE  Cardinality({l \in F : l[1] = d.basket.at /\ l[2] = s /\ l # d.pending})
                          <= d.basket.accepted[s]
    BY DEF Counted
  <1>1. {l \in F : l[1] = d.basket.at /\ l[2] = s /\ l # d.pending}
            = {l \in F : l[1] = c.basket.at /\ l[2] = s /\ l # c.pending}
    OBVIOUS
  <1> QED
    BY <1>1 DEF Counted

(* A filled child is counted when its intent is dropped.                   *)
LEMMA CountedAccepted ==
    ASSUME NEW c \in Checkpoint, NEW d \in Checkpoint, NEW F \in SUBSET Label,
           IsFiniteSet(F), c.basket # None, d.basket # None, d.basket.at = c.basket.at,
           c.pending \in Label, d.pending = None,
           d.basket.accepted = [c.basket.accepted EXCEPT ![c.pending[2]] = @ + 1],
           Counted(c, F)
    PROVE  Counted(d, F)
  <1> SUFFICES ASSUME NEW s \in Stage
               PROVE  Cardinality({l \in F : l[1] = d.basket.at /\ l[2] = s /\ l # d.pending})
                          <= d.basket.accepted[s]
    BY DEF Counted
  <1> DEFINE A == {l \in F : l[1] = c.basket.at /\ l[2] = s /\ l # c.pending}
             B == {l \in F : l[1] = d.basket.at /\ l[2] = s /\ l # d.pending}
  <1>1. c.basket \in Basket /\ c.pending[2] \in Stage
    BY DEF Checkpoint, Label
  <1>2. c.basket.accepted \in [Stage -> Nat]
    BY <1>1 DEF Basket
  <1>3. Cardinality(A) <= c.basket.accepted[s]
    BY DEF Counted
  <1>4. IsFiniteSet(A) /\ Cardinality(A) \in Nat
    <2>1. A \in SUBSET F
      OBVIOUS
    <2> HIDE DEF A
    <2> QED
      BY <2>1, FS_Subset, FS_CardinalityType
  <1>5. CASE s # c.pending[2]
    <2>1. A = B
      BY <1>5, NoneAssumption
    <2>2. d.basket.accepted[s] = c.basket.accepted[s]
      BY <1>2, <1>5
    <2> QED
      BY <1>3, <2>1, <2>2
  <1>6. CASE s = c.pending[2]
    <2>1. B \in SUBSET (A \cup {c.pending})
      OBVIOUS
    <2>2. d.basket.accepted[s] = c.basket.accepted[s] + 1 /\ c.basket.accepted[s] \in Nat
      BY <1>1, <1>2, <1>6
    <2> HIDE DEF A
    <2>3. /\ IsFiniteSet(A \cup {c.pending})
          /\ Cardinality(A \cup {c.pending}) \in {Cardinality(A), Cardinality(A) + 1}
      BY <1>4, FS_AddElement
    <2> DEFINE C == A \cup {c.pending}
    <2> HIDE DEF C, B
    <2>4. Cardinality(B) <= Cardinality(C) /\ Cardinality(B) \in Nat
      BY <2>1, <2>3, FS_Subset, FS_CardinalityType DEF C
    <2>5. Cardinality(C) <= Cardinality(A) + 1 /\ Cardinality(C) \in Nat
      BY <1>4, <2>3 DEF C
    <2>6. Cardinality(B) <= d.basket.accepted[s]
      BY <1>3, <1>4, <2>2, <2>4, <2>5
    <2> QED
      BY <2>6 DEF B
  <1> QED
    BY <1>5, <1>6

(* A fill of the intent itself is not counted yet.                         *)
LEMMA CountedOwn ==
    ASSUME NEW c, NEW F, NEW G, G \subseteq F \cup {c.pending},
           IsFiniteSet(F), c \in Checkpoint, c.basket # None, Counted(c, F)
    PROVE  Counted(c, G)
  <1> DEFINE H == F \cap G
  <1>1. H \in SUBSET F
    OBVIOUS
  <1>2. Counted(c, H)
    <2> HIDE DEF H
    <2> QED
      BY <1>1, CountedSame
  <1>3. \A s : {l \in G : l[1] = c.basket.at /\ l[2] = s /\ l # c.pending}
                  = {l \in H : l[1] = c.basket.at /\ l[2] = s /\ l # c.pending}
    OBVIOUS
  <1> HIDE DEF H
  <1> QED
    BY <1>2, <1>3 DEF Counted

-----------------------------------------------------------------------------
(* Methods that drop the intent                                            *)

(* The intent can go without being counted.                                *)
MayDrop(r) == \/ r.st.quarantined
              \/ r.st.pending \notin Fills(r)
              \/ r.st.basket # None /\ now > r.st.basket.at + AddTime

(* The fills of a robot are labels, and finitely many.                     *)
LEMMA FillsFinite ==
    ASSUME NEW r, Led(r), Copies(r)
    PROVE  Fills(r) \in SUBSET Label /\ IsFiniteSet(Fills(r)) /\ None \notin Fills(r)
  <1>1. Fills(r) \in SUBSET Label
    BY DEF Led, Robot, Fills
  <1>2. IsFiniteSet(Fills(r))
    BY FS_Subset DEF Copies
  <1> QED
    BY <1>1, <1>2, NoneAssumption

(* What is known of the orders stays when the intent is not counted.       *)
LEMMA AccountsDropped ==
    ASSUME NEW r, Known(r), MayDrop(r), NEW d \in Checkpoint, NEW t,
           d.pending = None, d.rev >= r.st.rev, d.quarantined = r.st.quarantined,
           d.signal = r.st.signal,
           d.basket = None <=> r.st.basket = None,
           d.basket # None => /\ d.basket.at = r.st.basket.at
                              /\ d.basket.seq = r.st.basket.seq
                              /\ d.basket.accepted = r.st.basket.accepted,
           t.orders = r.orders, Fills(t) = Fills(r)
    PROVE  Accounts(d, t)
  <1>1. r.st \in Checkpoint /\ r.st.rev \in Nat /\ d.rev \in Nat
    BY DEF Known, Led, Robot, Checkpoint
  <1>2. Bounded(d)
    <2>1. d.basket # None => d.basket.seq \in Nat /\ d.basket.seq <= r.st.rev
      BY <1>1 DEF Known, Accounts, Bounded, Checkpoint, Basket
    <2> QED
      BY <1>1, <2>1 DEF Bounded
  <1>3. CASE r.st.quarantined
    BY <1>2, <1>3 DEF Accounts
  <1>4. CASE ~r.st.quarantined
    <2>1. Valid(d)
      BY DEF Valid
    <2>2. ASSUME d.basket # None, ~(now > d.basket.at + AddTime)
          PROVE  Counted(d, Fills(t))
      <3>1. Counted(r.st, Fills(r)) /\ r.st.pending \notin Fills(r)
        BY <1>4, <2>2 DEF Known, Accounts, MayDrop
      <3>2. Fills(r) \in SUBSET Label
        BY FillsFinite DEF Known
      <3> QED
        BY <1>1, <2>2, <3>1, <3>2, NoneAssumption, CountedDropped
    <2> QED
      BY <1>2, <1>4, <2>1, <2>2 DEF Accounts, Known
  <1> QED
    BY <1>3, <1>4

(* The intent is dropped.                                                  *)
LEMMA ClearPendingOrdered ==
    ASSUME NEW r, Known(r), MayDrop(r), row \in Row \cup {None}
    PROVE  /\ Carries(r, ClearPending(r)) /\ Idle(ClearPending(r))
           /\ MayDrop(ClearPending(r))
  <1> DEFINE t == ClearPending(r)
  <1>1. /\ r.st \in Checkpoint /\ r.st.rev \in Nat /\ Led(t) /\ t.st \in Checkpoint
        /\ t.st.rev >= r.st.rev
    BY ClearPendingFollows DEF Known, Led, Robot, Checkpoint, Follows
  <1>2. /\ t.wal = r.wal /\ t.save = r.save /\ SameLink(r, t) /\ t.orders = r.orders
        /\ Fills(t) = Fills(r) /\ t.open = r.open /\ ~t.here
        /\ t.st.pending = None /\ t.st.basket = r.st.basket
        /\ t.st.quarantined = r.st.quarantined /\ t.st.signal = r.st.signal
    BY DEF Known, ClearPending, Led, Robot, Checkpoint, SameLink, Fills
  <1> HIDE DEF t
  <1>3. Accounts(t.st, t)
    BY <1>1, <1>2, AccountsDropped
  <1>4. Idle(t)
    BY <1>2 DEF Idle
  <1>5. Carries(r, t)
    BY <1>1, <1>2, <1>3, <1>4, MemoryOrdered DEF Known
  <1>6. MayDrop(t)
    BY <1>2, FillsFinite DEF MayDrop, Known
  <1> QED
    BY <1>4, <1>5, <1>6 DEF t

(* The queue is cancelled, with its intent if there is no quarantine.      *)
LEMMA CancelQueueOrdered ==
    ASSUME NEW r, Known(r), MayDrop(r), row \in Row \cup {None}
    PROVE  /\ Carries(r, CancelQueue(r)) /\ Idle(CancelQueue(r))
           /\ CancelQueue(r).open = r.open /\ CancelQueue(r).ready = r.ready
           /\ CancelQueue(r).st.basket = None <=> r.st.basket = None
           /\ r.st.basket # None => CancelQueue(r).st.basket.at = r.st.basket.at
           /\ CancelQueue(r).here => r.here
  <1>1. CASE r.st.basket = None
    <2>1. Idle(r)
      BY <1>1 DEF Known, Accounts, Valid, Idle
    <2>2. Ordered(r)
      BY <2>1 DEF Known, Ordered, Idle, Intended
    <2> QED
      BY <1>1, <2>1, <2>2 DEF CancelQueue, Carries
  <1>2. CASE r.st.basket # None
    <2> DEFINE b == [r.st.basket EXCEPT !.left = 0, !.queue = None]
               q == [r EXCEPT !.st.basket.left = 0, !.st.basket.queue = None]
               c == IF r.st.quarantined THEN q ELSE ClearPending(q)
    <2>1. r \in Robot /\ r.st \in Checkpoint /\ r.st.basket \in Basket /\ r.st.rev \in Nat
      BY <1>2 DEF Known, Led, Robot, Checkpoint
    <2>2. b \in Basket /\ b.at = r.st.basket.at /\ b.seq = r.st.basket.seq
          /\ b.accepted = r.st.basket.accepted
      BY <2>1 DEF Basket
    <2>3. b # None
      BY <2>2, NoneAssumption
    <2>4. q = [r EXCEPT !.st.basket = b]
      BY <2>1 DEF Robot, Checkpoint, Basket
    <2> HIDE DEF b, q
    <2>5. /\ q \in Robot /\ q.st \in Checkpoint /\ q.st.basket = b /\ q.st.rev = r.st.rev
          /\ q.st.pending = r.st.pending /\ q.st.quarantined = r.st.quarantined
          /\ q.st.signal = r.st.signal /\ q.wal = r.wal /\ q.save = r.save /\ SameLink(r, q)
          /\ q.orders = r.orders /\ Fills(q) = Fills(r) /\ q.open = r.open /\ q.here = r.here
          /\ q.open = r.open /\ q.ready = r.ready
      BY <2>1, <2>2, <2>4 DEF Robot, Checkpoint, SameLink, Fills
    <2>6. /\ c \in Robot /\ c.st \in Checkpoint /\ c.st.basket = b /\ c.st.rev = r.st.rev
          /\ c.st.pending \in {None, r.st.pending} /\ c.st.quarantined = r.st.quarantined
          /\ (c.st.quarantined \/ c.st.pending = None)
          /\ c.st.signal = r.st.signal /\ c.wal = r.wal /\ c.save = r.save /\ SameLink(r, c)
          /\ c.orders = r.orders /\ Fills(c) = Fills(r) /\ c.open = r.open /\ (c.here => r.here)
          /\ c.open = r.open /\ c.ready = r.ready
      <3>1. CASE r.st.quarantined
        BY <2>5, <3>1
      <3>2. CASE ~r.st.quarantined
        BY <2>5, <3>2 DEF ClearPending, Robot, Checkpoint, SameLink, Fills
      <3> QED
        BY <3>1, <3>2
    <2>7. CancelQueue(r) = Changed(c)
      BY <1>2 DEF CancelQueue, q
    <2> HIDE DEF c
    <2>8. Led(c) /\ c.st.rev >= r.st.rev /\ Idle(c)
      BY <2>1, <2>6 DEF Known, Led, Idle
    <2>9. Accounts(c.st, c)
      <3>1. CASE r.st.quarantined
        <4>1. Bounded(c.st)
          BY <2>2, <2>3, <2>6, <1>2 DEF Known, Accounts, Bounded
        <4> QED
          BY <2>6, <3>1, <4>1 DEF Accounts
      <3>2. CASE ~r.st.quarantined
        BY <1>2, <2>2, <2>3, <2>6, <2>8, <3>2, AccountsDropped
      <3> QED
        BY <3>1, <3>2
    <2>10. Carries(r, c)
      BY <2>6, <2>8, <2>9, MemoryOrdered DEF Known
    <2>11. Carries(c, Changed(c)) /\ Idle(Changed(c)) /\ Body(c, Changed(c))
      BY <2>8, <2>10, ChangedOrdered, BodyKept DEF Carries
    <2>12. Changed(c).st.basket = b
      BY <2>6 DEF Changed, Robot, Checkpoint
    <2>13. Carries(r, Changed(c))
      BY <2>10, <2>11 DEF Carries
    <2> QED
      BY <1>2, <2>2, <2>3, <2>6, <2>7, <2>11, <2>12, <2>13 DEF Body
  <1> QED
    BY <1>1, <1>2

(* A filled child is accounted for, and its intent dropped.                *)
LEMMA AcceptOrdered ==
    ASSUME NEW r, Known(r), row \in Row \cup {None},
           r.st.pending # None, r.st.basket # None, r.st.basket.left >= 1
    PROVE  /\ Carries(r, Changed(ClearPending(Accept(r, r.st.pending[2]))))
           /\ Idle(Changed(ClearPending(Accept(r, r.st.pending[2]))))
           /\ Changed(ClearPending(Accept(r, r.st.pending[2]))).open = r.open
  <1> DEFINE l == r.st.pending
             b == r.st.basket
             done == b.left = 1
             n == [b EXCEPT !.accepted[l[2]] = @ + 1, !.left = @ - 1,
                            !.next  = IF done /\ @ < l[2] + 1 THEN l[2] + 1 ELSE @,
                            !.queue = IF done THEN None ELSE @]
             x == Accept(r, l[2])
             t == ClearPending(x)
  <1>1. /\ r \in Robot /\ r.st \in Checkpoint /\ b \in Basket /\ r.st.rev \in Nat
        /\ l \in Label /\ l[2] \in Stage /\ b.left >= 1
    BY DEF Known, Led, Robot, Checkpoint, Label
  <1>2. Follows(r, x)
    BY <1>1, AcceptFollows DEF Known
  <1>3. Follows(x, t) /\ Led(t)
    <2> HIDE DEF x
    <2> QED
      BY <1>2, ClearPendingFollows DEF Follows
  <1>4. x = [r EXCEPT !.st.basket = n]
    BY DEF Accept
  <1>5. n.at = b.at /\ n.seq = b.seq /\ n.accepted = [b.accepted EXCEPT ![l[2]] = @ + 1]
    BY <1>1 DEF Basket
  <1> HIDE DEF n
  <1>6. /\ x.st.basket = n /\ x.st.rev = r.st.rev /\ x.st.quarantined = r.st.quarantined
        /\ x.st.signal = r.st.signal /\ x.wal = r.wal /\ x.save = r.save /\ SameLink(r, x)
        /\ x.orders = r.orders /\ Fills(x) = Fills(r) /\ x.open = r.open
        /\ x \in Robot /\ x.st \in Checkpoint
    BY <1>1, <1>2, <1>4 DEF Follows, Led, Robot, Checkpoint, SameLink, Fills
  <1>7. n \in Basket \cup {None}
    BY <1>6 DEF Checkpoint
  <1> HIDE DEF x
  <1>8. /\ t.st.basket = n /\ t.st.rev = r.st.rev /\ t.st.quarantined = r.st.quarantined
        /\ t.st.signal = r.st.signal /\ t.wal = r.wal /\ t.save = r.save /\ SameLink(r, t)
        /\ t.orders = r.orders /\ Fills(t) = Fills(r) /\ t.open = r.open /\ ~t.here
        /\ t.st.pending = None /\ t.st \in Checkpoint
    BY <1>1, <1>6 DEF ClearPending, Robot, Checkpoint, SameLink, Fills
  <1> HIDE DEF t
  <1>9. Bounded(t.st)
    BY <1>1, <1>5, <1>8 DEF Known, Accounts, Bounded
  <1>10. Accounts(t.st, t)
    <2>1. CASE r.st.quarantined
      BY <1>8, <1>9, <2>1 DEF Accounts
    <2>2. CASE ~r.st.quarantined
      <3>1. Valid(t.st)
        BY <1>8 DEF Valid
      <3>2. ASSUME n # None, Counted(r.st, Fills(r))
            PROVE  Counted(t.st, Fills(t))
        <4>1. Fills(r) \in SUBSET Label /\ IsFiniteSet(Fills(r))
          BY FillsFinite DEF Known
        <4> QED
          BY <1>1, <1>5, <1>8, <3>2, <4>1, CountedAccepted
      <3> QED
        BY <1>5, <1>8, <1>9, <2>2, <3>1, <3>2 DEF Accounts, Known
    <2> QED
      BY <2>1, <2>2
  <1>11. Idle(t) /\ t.st.rev >= r.st.rev
    BY <1>1, <1>8 DEF Idle
  <1>12. Carries(r, t)
    BY <1>3, <1>8, <1>10, <1>11, MemoryOrdered DEF Known
  <1>13. Carries(t, Changed(t)) /\ Idle(Changed(t)) /\ Body(t, Changed(t))
    BY <1>3, <1>11, <1>12, ChangedOrdered, BodyKept DEF Carries
  <1> QED
    BY <1>8, <1>12, <1>13 DEF Carries, Body, t, x

-----------------------------------------------------------------------------
(* The handshake                                                           *)

(* A quarantined robot that leaves what it finds open starts nothing.      *)
LEMMA ExitOnlyOrdered ==
    ASSUME NEW r, Led(r), Copies(r), Bounded(r.st), r.st.quarantined,
           row \in Row \cup {None}, NEW t \in RecoverExposureForExitOnly(r)
    PROVE  Carries(r, t) /\ Idle(t) /\ t.st.quarantined /\ Body(r, t)
  <1>1. Ordered(r) /\ Idle(r)
    BY DEF Ordered, Idle, Intended, Accounts
  <1>2. CASE r.open = {}
    <2>1. t = r
      BY <1>2 DEF RecoverExposureForExitOnly
    <2> QED
      BY <1>1, <2>1 DEF Carries, Body
  <1>3. CASE r.open # {}
    <2>1. PICK l \in r.open :
              t = [r EXCEPT !.st.basket = [at |-> l[1], queue |-> None, left |-> 0, next |-> Stages,
                                           seq |-> 0, accepted |-> [s \in Stage |-> 0]]]
      BY <1>3 DEF RecoverExposureForExitOnly
    <2> DEFINE b == [at |-> l[1], queue |-> None, left |-> 0, next |-> Stages,
                     seq |-> 0, accepted |-> [s \in Stage |-> 0]]
    <2>2. r \in Robot /\ r.st \in Checkpoint /\ r.st.rev \in Nat /\ l \in Label
      BY DEF Led, Robot, Checkpoint
    <2>3. b \in Basket /\ b.seq = 0
      BY <2>2, ContractAssumption DEF Label, Basket
    <2>4. t = [r EXCEPT !.st.basket = b]
      BY <2>1
    <2> HIDE DEF b
    <2>5. Led(t)
      BY <2>3, <2>4, BasketFollows DEF Follows
    <2>6. /\ t.st.basket = b /\ t.st.rev = r.st.rev /\ t.st.quarantined
          /\ t.st.pending = r.st.pending /\ t.wal = r.wal /\ t.save = r.save /\ SameLink(r, t)
          /\ Body(r, t) /\ Fills(t) = Fills(r) /\ t.open = r.open
      BY <2>2, <2>4 DEF Robot, Checkpoint, SameLink, Fills, Body
    <2>7. Bounded(t.st)
      BY <2>2, <2>3, <2>6 DEF Bounded
    <2>8. Accounts(t.st, t) /\ Idle(t) /\ t.st.rev >= r.st.rev
      BY <2>2, <2>6, <2>7 DEF Accounts, Idle
    <2>9. Carries(r, t)
      BY <2>5, <2>6, <2>8, MemoryOrdered DEF Body
    <2> QED
      BY <2>6, <2>8, <2>9
  <1> QED
    BY <1>2, <1>3

(* The intent that a crash left is counted, or stops the robot.            *)
LEMMA RecoverAttemptOrdered ==
    ASSUME NEW r, Known(r), row \in Row \cup {None}, NEW t \in RecoverAttempt(r)
    PROVE  Carries(r, t) /\ Idle(t)
  <1> DEFINE l == r.st.pending
             b == r.st.basket
             a == Changed(ClearPending(Accept(r, l[2])))
             n == [r EXCEPT !.bare = @ \cup {l}]
             q == Quarantine(r)
             c == [q EXCEPT !.open = @ \ {l}, !.bare = @ \ {l}, !.returned = @ \cup {l}]
  <1>0. Bounded(r.st)
    BY DEF Known, Accounts
  <1>1. CASE l = None \/ b = None
    <2>1. t = r
      BY <1>1 DEF RecoverAttempt
    <2>2. Idle(r)
      BY <1>1 DEF Known, Accounts, Valid, Idle
    <2> QED
      BY <2>1, <2>2 DEF Known, Carries, Ordered, Idle, Intended
  <1>2. CASE l # None /\ b # None /\ (l \notin r.open \cup settled \/ b.left < 1 \/ b.queue # l[2])
    <2>1. t = Quarantine(r)
      BY <1>2 DEF RecoverAttempt
    <2> QED
      BY <1>0, <2>1, QuarantineOrdered DEF Known
  <1>3. CASE /\ l # None /\ b # None
             /\ ~(l \notin r.open \cup settled \/ b.left < 1 \/ b.queue # l[2])
    <2>1. l \in Label /\ b \in Basket /\ b.left >= 1
      BY <1>3 DEF Known, Led, Robot, Checkpoint, Basket
    <2>2. Carries(r, a) /\ Idle(a)
      BY <1>3, <2>1, AcceptOrdered
    <2>3. Carries(r, Quarantine(a)) /\ Idle(Quarantine(a))
      <3> HIDE DEF a
      <3>1. Led(a) /\ Copies(a) /\ Bounded(a.st)
        BY <2>2 DEF Carries, Ordered, Accounts
      <3> QED
        BY <2>2, <3>1, QuarantineOrdered DEF Carries
    <2>4. Carries(r, Quarantine(n)) /\ Idle(Quarantine(n))
      <3>1. r \in Robot /\ n \in Robot
        BY <2>1 DEF Known, Led, Robot
      <3>2. /\ n.st = r.st /\ n.wal = r.wal /\ n.save = r.save /\ SameLink(r, n)
            /\ n.orders = r.orders /\ Fills(n) = Fills(r) /\ n.open = r.open /\ n.here = r.here
        BY <3>1 DEF Robot, Fills, SameLink
      <3> HIDE DEF n
      <3>3. Led(n) /\ n.st.rev >= r.st.rev
        BY <3>1, <3>2 DEF Known, Led, Robot, Checkpoint
      <3>4. Copies(n)
        BY <3>2, <3>3, CopiesSame DEF Known
      <3> QED
        BY <1>0, <3>2, <3>3, <3>4, QuarantineOrdered DEF Carries
    <2>5. Carries(r, c) /\ Idle(c)
      <3>1. Carries(r, q) /\ Idle(q) /\ q \in Robot
        BY <1>0, QuarantineOrdered DEF Known, Carries, Ordered, Led
      <3> HIDE DEF q
      <3>2. c \in Robot
        BY <2>1, <3>1 DEF Robot
      <3>3. /\ c.st = q.st /\ c.wal = q.wal /\ c.save = q.save /\ SameLink(q, c)
            /\ c.orders = q.orders /\ Fills(c) \subseteq Fills(q) /\ c.open \subseteq q.open
            /\ c.here = q.here /\ c.submitted = q.submitted
        BY <3>1 DEF Robot, Fills, SameLink
      <3> HIDE DEF c
      <3>4. Carries(q, c) /\ Idle(c)
        BY <3>1, <3>2, <3>3, BrokerOrdered DEF Carries
      <3> QED
        BY <3>1, <3>4 DEF Carries
    <2>6. t \in {Quarantine(r), a, Quarantine(a), Quarantine(n), c}
      BY <1>3 DEF RecoverAttempt
    <2>7. Carries(r, Quarantine(r)) /\ Idle(Quarantine(r))
      BY <1>0, QuarantineOrdered DEF Known
    <2> QED
      BY <2>2, <2>3, <2>4, <2>5, <2>6, <2>7
  <1> QED
    BY <1>1, <1>2, <1>3

(* The comparison with the broker leaves the robot or quarantines it.      *)
LEMMA ReconcileOrdered ==
    ASSUME NEW r, Ordered(r), Idle(r), row \in Row \cup {None}, NEW t \in ReconcileExposure(r)
    PROVE  Carries(r, t) /\ Idle(t)
  <1> DEFINE q == Quarantine(r)
  <1>1. CASE t = r
    BY <1>1 DEF Carries
  <1>2. Carries(r, q) /\ Idle(q) /\ q.st.quarantined
    BY QuarantineOrdered DEF Ordered, Accounts
  <1>3. CASE t = q
    BY <1>2, <1>3
  <1>4. t = r \/ t = q \/ t \in RecoverExposureForExitOnly(q)
    BY DEF ReconcileExposure
  <1> HIDE DEF q
  <1>5. CASE t \in RecoverExposureForExitOnly(q)
    <2>1. Led(q) /\ Copies(q) /\ Bounded(q.st)
      BY <1>2 DEF Carries, Ordered, Accounts
    <2>2. Carries(q, t) /\ Idle(t)
      BY <1>2, <1>5, <2>1, ExitOnlyOrdered
    <2> QED
      BY <1>2, <2>2 DEF Carries
  <1> QED
    BY <1>1, <1>3, <1>4, <1>5

(* After its handshake a robot has no intent, or is quarantined.           *)
LEMMA ReconciledOrdered ==
    ASSUME NEW r, Known(r), row \in Row \cup {None}, NEW t \in Reconciled(r)
    PROVE  Carries(r, t) /\ Idle(t)
  <1>1. PICK x \in RecoverAttempt(r) : \E y \in ReconcileExposure(x) : t = Persist(Changed(y))
    BY DEF Reconciled
  <1>2. PICK y \in ReconcileExposure(x) : t = Persist(Changed(y))
    BY <1>1
  <1>3. Carries(r, x) /\ Idle(x)
    BY RecoverAttemptOrdered
  <1>4. Carries(x, y) /\ Idle(y)
    BY <1>3, ReconcileOrdered DEF Carries
  <1>5. Carries(y, Changed(y)) /\ Idle(Changed(y))
    BY <1>4, ChangedOrdered DEF Carries
  <1> DEFINE z == Changed(y)
  <1> HIDE DEF z
  <1>6. Carries(z, Persist(z)) /\ Persist(z).st = z.st
    BY <1>5, PersistOrdered DEF Carries, Ordered, Known, z
  <1> QED
    BY <1>2, <1>3, <1>4, <1>5, <1>6 DEF Carries, Idle, z

-----------------------------------------------------------------------------
(* An order                                                                *)

(* The connection of a robot, as far as its copies depend on it.           *)
Linked(t) == /\ t.ready => t.persisted <= t.st.rev
             /\ t.ready /\ t.busy => t.persisted < t.sent /\ t.sent <= t.st.rev
             /\ t.ready /\ ~t.busy => t.save = None
             /\ t.up # "up" => ~t.ready /\ ~t.here

(* A copy that is lost takes nothing from the others.                      *)
LEMMA CopiesMoved ==
    ASSUME NEW r \in Robot, Copies(r), NEW t, t.wal \in {r.wal, None}, t.save \in {r.save, None},
           t.orders = r.orders, Fills(t) \subseteq Fills(r), t.open \subseteq r.open,
           Linked(t), row \in Row \cup {None}
    PROVE  Copies(t)
  <1>1. /\ r.wal # None => r.wal \in Checkpoint
        /\ r.save # None => r.save.data \in Checkpoint
        /\ row # None => row.data \in Checkpoint
    BY DEF Robot, Save, Row
  <1>2. \A c \in Checkpoint : Accounts(c, r) => Accounts(c, t)
    <2> SUFFICES ASSUME NEW c \in Checkpoint, Accounts(c, r) PROVE Accounts(c, t)
      OBVIOUS
    <2>1. c.rev >= c.rev /\ IsFiniteSet(Fills(r))
      BY FS_Subset DEF Checkpoint, Copies
    <2> QED
      BY <2>1, AccountsSame
  <1>3. /\ t.wal # None => Accounts(t.wal, t) \/ (t.wal = Fresh /\ t.open = {})
        /\ t.save # None => Accounts(t.save.data, t)
        /\ row # None => Accounts(row.data, t)
    BY <1>1, <1>2 DEF Copies
  <1> QED
    BY <1>3 DEF Copies, Linked

(* The robot ends: its copies are what is left of it.                      *)
LEMMA CrashedCopies ==
    ASSUME NEW r, Led(r), Copies(r), r.faults > 0, row \in Row \cup {None}
    PROVE  /\ Led(Crashed(r)) /\ Copies(Crashed(r)) /\ Intended(Crashed(r))
           /\ Crashed(r).orders = r.orders /\ Crashed(r).st = r.st
           /\ Crashed(r).open = r.open /\ ~Crashed(r).ready /\ Crashed(r).up = "down"
           /\ Fills(Crashed(r)) = Fills(r)
  <1> DEFINE t == Crashed(r)
  <1>1. r \in Robot /\ r.faults - 1 \in 0 .. MaxFaults
    BY ContractAssumption DEF Led, Robot
  <1>2. t \in Robot
    BY <1>1 DEF Crashed, Robot
  <1>3. /\ t.st = r.st /\ t.wal = r.wal /\ t.save = r.save /\ t.orders = r.orders
        /\ t.up = "down" /\ ~t.ready /\ ~t.here /\ Fills(t) = Fills(r) /\ t.open = r.open
    BY <1>1 DEF Crashed, Robot, Fills
  <1> HIDE DEF t
  <1>4. Led(t) /\ Linked(t) /\ Intended(t)
    BY <1>2, <1>3 DEF Led, Linked, Intended
  <1>5. Copies(t)
    BY <1>1, <1>3, <1>4, CopiesMoved
  <1> QED
    BY <1>3, <1>4, <1>5 DEF t

LEMMA CrashedOrdered ==
    ASSUME NEW r, Known(r), r.faults > 0, row \in Row \cup {None}
    PROVE  Carries(r, Crashed(r))
  <1>1. r.st \in Checkpoint /\ r.st.rev >= r.st.rev /\ IsFiniteSet(Fills(r))
    BY FillsFinite DEF Known, Led, Robot, Checkpoint
  <1>2. /\ Led(Crashed(r)) /\ Copies(Crashed(r)) /\ Intended(Crashed(r))
        /\ Crashed(r).orders = r.orders /\ Crashed(r).st = r.st
        /\ Fills(Crashed(r)) = Fills(r)
    BY CrashedCopies DEF Known
  <1>3. Accounts(Crashed(r).st, Crashed(r))
    BY <1>1, <1>2, AccountsSame DEF Known
  <1> QED
    BY <1>2, <1>3 DEF Carries, Ordered

(* A checkpoint knows the order of its own intent.                         *)
LEMMA AccountsOwn ==
    ASSUME NEW c \in Checkpoint, NEW r, NEW x, Accounts(c, r), c.pending # None,
           x.orders = r.orders \cup {c.pending}, Fills(x) \subseteq Fills(r) \cup {c.pending},
           IsFiniteSet(Fills(r))
    PROVE  Accounts(c, x)
  <1>1. CASE c.quarantined
    BY <1>1 DEF Accounts
  <1>2. CASE ~c.quarantined
    <2>1. /\ c.basket # None /\ c.basket \in Basket
          /\ c.pending = <<c.basket.at, c.basket.queue, c.basket.seq>>
      BY <1>2 DEF Accounts, Valid, Checkpoint
    <2>2. c.basket.seq <= c.basket.seq /\ c.pending[1] = c.basket.at /\ c.pending[3] = c.basket.seq
      BY <2>1 DEF Basket
    <2>3. Counted(c, Fills(r)) => Counted(c, Fills(x))
      BY <2>1, CountedOwn
    <2> QED
      BY <1>2, <2>1, <2>2, <2>3 DEF Accounts
  <1> QED
    BY <1>1, <1>2

(* The order of an intent that is in every copy.                           *)
LEMMA SentKnown ==
    ASSUME NEW r, Known(r), row \in Row \cup {None}, r.st.pending # None,
           r.wal # None, r.wal.pending = r.st.pending, r.save = None,
           row # None, row.data.pending = r.st.pending,
           NEW x \in Robot, x.st = r.st, x.wal = r.wal, x.save = r.save, SameLink(r, x),
           x.orders = r.orders \cup {r.st.pending}, x.here = r.here,
           Fills(x) \subseteq Fills(r) \cup {r.st.pending}
    PROVE  Known(x)
  <1>1. r.st \in Checkpoint /\ r.wal \in Checkpoint /\ row.data \in Checkpoint
    BY DEF Known, Led, Robot, Row
  <1>2. IsFiniteSet(Fills(r))
    BY FillsFinite DEF Known
  <1>3. Accounts(x.st, x) /\ Accounts(x.wal, x) /\ Accounts(row.data, x)
    <2>1. r.wal # Fresh
      BY DEF Fresh
    <2>2. Accounts(r.st, r) /\ Accounts(r.wal, r) /\ Accounts(row.data, r)
      BY <2>1 DEF Known, Copies
    <2>3. \A c \in Checkpoint : Accounts(c, r) /\ c.pending = r.st.pending => Accounts(c, x)
      BY <1>2, AccountsOwn
    <2> QED
      BY <1>1, <2>2, <2>3
  <1>4. r.st.pending \in Intents /\ row.data.pending \in Intents \cup {None}
    BY DEF Known, Copies
  <1>5. IsFiniteSet(x.orders)
    <2>1. IsFiniteSet(r.orders)
      BY DEF Known, Copies
    <2> QED
      BY <2>1, FS_AddElement
  <1>6. Fills(x) \subseteq x.orders /\ x.orders \subseteq Intents
    BY <1>4 DEF Known, Copies
  <1>7. /\ x.ready => x.persisted <= x.st.rev
        /\ x.ready /\ x.busy => x.persisted < x.sent /\ x.sent <= x.st.rev
        /\ x.up # "up" => ~x.ready /\ ~x.here
    BY DEF Known, Copies, SameLink
  <1>8. Copies(x)
    BY <1>3, <1>4, <1>5, <1>6, <1>7 DEF Copies
  <1> QED
    BY <1>3, <1>8 DEF Known, Led

(* A robot after a callback: it sent nothing, or one recorded intent that  *)
(* it had not sent before.                                                 *)
Onward(r, t) ==
    /\ Ordered(t)
    /\ \/ t.orders = r.orders
       \/ \E l \in (Intents \cap Label) \ r.orders :
              l[3] <= t.st.rev /\ t.orders = r.orders \cup {l}

(* SendOrder, whatever the broker answers, and if the robot ends.          *)
LEMMA SendOrderOrdered ==
    ASSUME NEW r, Ordered(r), row \in Row \cup {None}, r.ready, Durable(r),
           r.st.pending # None, r.st.basket # None, ~r.st.quarantined,
           NEW t \in SendOrder(r)
    PROVE  Onward(r, t)
  <1> DEFINE l == r.st.pending
             s == [r EXCEPT !.submitted = TRUE, !.orders = @ \cup {l}]
             filled == [s EXCEPT !.open = @ \cup {l}]
             shut   == [s EXCEPT !.returned = @ \cup {l}]
             naked  == [filled EXCEPT !.bare = @ \cup {l}]
             taken  == Accept(filled, l[2])
             Same(x) == /\ x \in Robot /\ x.st = r.st /\ x.wal = r.wal /\ x.save = r.save
                        /\ SameLink(r, x) /\ x.orders = r.orders \cup {l} /\ x.here = r.here
                        /\ Fills(x) \subseteq Fills(r) \cup {l} /\ x.faults = r.faults
  <1>1. /\ r \in Robot /\ r.st \in Checkpoint /\ l \in Label /\ r.st.rev \in Nat
        /\ r.persisted \in Nat /\ r.sent \in Nat
    BY DEF Ordered, Led, Robot, Checkpoint
  <1>2. /\ l \notin r.orders /\ r.wal # None /\ r.wal.pending = l
        /\ row # None /\ row.data.pending = l /\ l \in Intents /\ r.save = None
    <2>1. ~r.busy
      BY <1>1 DEF Durable, Ordered, Copies
    <2> QED
      BY <2>1 DEF Durable, Ordered, Copies, Intended
  <1>3. Valid(r.st) /\ r.st.basket.left >= 1 /\ l[3] <= r.st.rev /\ Bounded(r.st)
    BY DEF Ordered, Accounts, Valid, Bounded
  <1>4. Same(s)
    <2>1. s \in Robot
      BY <1>1 DEF Robot
    <2> QED
      BY <1>1, <2>1 DEF Robot, SameLink, Fills
  <1>5. Same(filled)
    <2>1. filled \in Robot
      BY <1>1 DEF Robot
    <2> QED
      BY <1>1, <2>1 DEF Robot, SameLink, Fills
  <1>6. Same(shut) /\ Fills(shut) = Fills(r)
    <2>1. shut \in Robot
      BY <1>1 DEF Robot
    <2> QED
      BY <1>1, <2>1 DEF Robot, SameLink, Fills
  <1>7. Same(naked)
    <2>1. naked \in Robot
      BY <1>1 DEF Robot
    <2> QED
      BY <1>1, <2>1 DEF Robot, SameLink, Fills
  <1>8. /\ t \in {Quarantine(s), Quarantine(filled), Quarantine(naked), Quarantine(shut),
                   Persist(Changed(ClearPending(taken))),
                   Persist(Changed(CancelQueue(ClearPending(shut))))}
        \/ (r.faults > 0 /\ t \in {Crashed(s), Crashed(filled)})
    BY DEF SendOrder
  <1> HIDE DEF s, filled, shut, naked
  <1>9. \A x \in {s, filled, shut, naked} : Known(x) /\ x.st = r.st /\ x.orders = r.orders \cup {l}
                                            /\ x.faults = r.faults
    <2> SUFFICES ASSUME NEW x \in {s, filled, shut, naked}
                 PROVE  Known(x)
      BY <1>4, <1>5, <1>6, <1>7
    <2>1. Same(x)
      BY <1>4, <1>5, <1>6, <1>7
    <2> QED
      BY <1>2, <2>1, SentKnown DEF Known, Ordered
  <1> HIDE DEF Same
  <1>10. SUFFICES Ordered(t) /\ t.orders = r.orders \cup {l}
    <2>1. r.st.basket.left > 0
      BY <1>1, <1>3 DEF Checkpoint, Basket
    <2>2. Follows(r, t)
      BY <2>1, SendOrderFollows DEF Ordered
    <2>3. t.st.rev >= r.st.rev /\ t.st.rev \in Nat /\ l[3] \in Nat
      BY <1>1, <2>2 DEF Follows, Led, Robot, Checkpoint, Label
    <2>4. l[3] <= t.st.rev
      BY <1>1, <1>3, <2>3
    <2> QED
      BY <1>1, <1>2, <2>4 DEF Onward
  <1>11. \A x \in {s, filled, shut, naked} : Carries(x, Quarantine(x))
    BY <1>3, <1>9, QuarantineOrdered DEF Known
  <1>12. CASE t = Persist(Changed(ClearPending(taken)))
    <2> DEFINE a == Changed(ClearPending(Accept(filled, filled.st.pending[2])))
    <2>1. /\ Known(filled) /\ filled.st = r.st /\ filled.orders = r.orders \cup {l}
      BY <1>9
    <2>2. Carries(filled, a) /\ Idle(a)
      BY <1>3, <2>1, AcceptOrdered
    <2>3. t = Persist(a)
      BY <1>12, <2>1
    <2> HIDE DEF a
    <2>4. Carries(a, Persist(a))
      BY <2>2, PersistOrdered DEF Carries, Ordered, Known
    <2> QED
      BY <2>1, <2>2, <2>3, <2>4 DEF Carries
  <1>13. CASE t = Persist(Changed(CancelQueue(ClearPending(shut))))
    <2> DEFINE p == ClearPending(shut)
               c == CancelQueue(p)
               d == Changed(c)
    <2>1. Known(shut) /\ shut.orders = r.orders \cup {l}
      BY <1>9
    <2>2. MayDrop(shut)
      BY <1>2, <1>6, <1>9 DEF MayDrop, Ordered, Copies
    <2>3. Carries(shut, p) /\ MayDrop(p)
      BY <2>1, <2>2, ClearPendingOrdered
    <2> HIDE DEF p
    <2>4. Carries(p, c) /\ Idle(c)
      BY <2>3, CancelQueueOrdered DEF Carries, Ordered, Known
    <2> HIDE DEF c
    <2>5. Carries(c, d)
      BY <2>4, ChangedOrdered DEF Carries
    <2> HIDE DEF d
    <2>6. Carries(d, Persist(d))
      BY <2>5, PersistOrdered DEF Carries, Ordered, Known
    <2>7. t = Persist(d)
      BY <1>13 DEF p, c, d
    <2> QED
      BY <2>1, <2>3, <2>4, <2>5, <2>6, <2>7 DEF Carries
  <1>14. ASSUME r.faults > 0, NEW x \in {s, filled}, t = Crashed(x)
         PROVE  Ordered(t) /\ t.orders = r.orders \cup {l}
    <2>1. Known(x) /\ x.faults > 0 /\ x.orders = r.orders \cup {l}
      BY <1>9, <1>14
    <2> QED
      BY <1>14, <2>1, CrashedOrdered DEF Carries
  <1>15. ASSUME NEW x \in {s, filled, shut, naked}, t = Quarantine(x)
         PROVE  Ordered(t) /\ t.orders = r.orders \cup {l}
    BY <1>9, <1>11, <1>15 DEF Carries
  <1> QED
    BY <1>8, <1>12, <1>13, <1>14, <1>15

(* A new intent has a label that no order has.                             *)
LEMMA PrepareOrdered ==
    ASSUME NEW r, Ordered(r), row \in Row \cup {None}, r.ready, Queued(r), r.st.pending = None
    PROVE  Carries(r, Prepare(r)) /\ Prepare(r).ready /\ ~Prepare(r).st.quarantined
  <1> DEFINE b == r.st.basket
             n == [b EXCEPT !.seq = @ + 1]
             l == <<b.at, b.queue, b.seq + 1>>
             x == [r EXCEPT !.here = TRUE, !.submitted = FALSE, !.st.basket.seq = @ + 1,
                            !.st.pending = <<b.at, b.queue, b.seq + 1>>]
             t == Changed(x)
  <1>1. /\ r \in Robot /\ r.st \in Checkpoint /\ b \in Basket /\ b.left > 0 /\ r.st.rev \in Nat
        /\ r.persisted \in Nat /\ r.sent \in Nat /\ b.seq \in Nat /\ b.left \in Nat
    BY DEF Queued, Ordered, Led, Robot, Checkpoint, Basket
  <1>2. /\ l \in Label /\ n \in Basket /\ n.left = b.left /\ n.at = b.at /\ n.queue = b.queue
        /\ n.seq = b.seq + 1 /\ n.accepted = b.accepted
    BY <1>1 DEF Queued, Basket, Label
  <1>3. n # None /\ l # None
    BY <1>2, NoneAssumption
  <1>4. x.st = [r.st EXCEPT !.basket = n, !.pending = l]
    BY <1>1 DEF Robot, Checkpoint
  <1>5. /\ x.st \in Checkpoint /\ x.st.rev = r.st.rev /\ x.st.signal = r.st.signal
        /\ x.st.quarantined = r.st.quarantined /\ x.st.pending = l /\ x.st.basket = n
    <2> HIDE DEF x, n, l
    <2> QED
      BY <1>1, <1>2, <1>4 DEF Checkpoint
  <1>6. /\ x \in Robot /\ x.wal = r.wal /\ x.save = r.save /\ SameLink(r, x)
        /\ x.orders = r.orders /\ Fills(x) = Fills(r) /\ x.open = r.open /\ x.ready = r.ready
    BY <1>1, <1>5 DEF Robot, SameLink, Fills
  <1> HIDE DEF x
  <1>7. /\ t \in Robot /\ t.st \in Checkpoint /\ t.st.rev = r.st.rev + 1
        /\ t.st.signal = r.st.signal /\ t.st.quarantined = r.st.quarantined
        /\ t.st.pending = l /\ t.st.basket = n
        /\ t.wal = r.wal /\ t.save = r.save /\ SameLink(r, t)
        /\ t.orders = r.orders /\ Fills(t) = Fills(r) /\ t.open = r.open /\ t.ready = r.ready
    <2> HIDE DEF n, l
    <2>1. t.st = [x.st EXCEPT !.rev = @ + 1]
      BY <1>6 DEF Changed, Robot
    <2>2. /\ t.wal = x.wal /\ t.save = x.save /\ SameLink(x, t)
          /\ t.orders = x.orders /\ Fills(t) = Fills(x) /\ t.open = x.open /\ t.ready = x.ready
      BY <1>6 DEF Changed, Robot, SameLink, Fills
    <2>3. t \in Robot
      BY <1>5, <1>6, ChangedFollows DEF Follows, Led, Ordered
    <2> HIDE DEF t
    <2>4. t.st \in Checkpoint
      BY <2>3 DEF Robot
    <2>5. /\ t.st.rev = r.st.rev + 1 /\ t.st.signal = r.st.signal
          /\ t.st.quarantined = r.st.quarantined /\ t.st.pending = l /\ t.st.basket = n
      BY <1>1, <1>5, <2>1 DEF Checkpoint
    <2>6. SameLink(r, t) /\ Fills(t) = Fills(r) /\ t.open = r.open
      BY <1>6, <2>2 DEF SameLink
    <2> QED
      BY <1>6, <2>2, <2>3, <2>4, <2>5, <2>6
  <1>8. Prepare(r) = Persist(t)
    BY DEF Prepare, x
  <1> HIDE DEF t, n
  <1>9. t.st.rev >= r.st.rev /\ t.up = "up"
    BY <1>1, <1>7 DEF Ordered, Copies, SameLink
  <1>10. Led(t)
    BY <1>1, <1>7, <1>9 DEF Ordered, Led, Robot, Checkpoint
  <1>11. Bounded(r.st) /\ Accounts(r.st, r) /\ ~r.st.quarantined
    BY DEF Ordered, Accounts, Queued
  <1>12. \A o \in r.orders : o[1] = b.at => o[3] <= b.seq
    BY <1>11 DEF Accounts, Queued
  <1>13. l \notin r.orders /\ l \notin Fills(r)
    <2>1. l[1] = b.at /\ ~(l[3] <= b.seq)
      BY <1>1
    <2> HIDE DEF l
    <2> QED
      BY <1>12, <2>1 DEF Ordered, Copies
  <1>14. Accounts(t.st, t)
    <2>1. Bounded(t.st)
      BY <1>1, <1>2, <1>7, <1>11 DEF Bounded, Queued
    <2>2. Valid(t.st)
      BY <1>1, <1>2, <1>3, <1>7 DEF Valid
    <2>3. \A o \in t.orders : o[1] = n.at => o[3] <= n.seq
      <3> SUFFICES ASSUME NEW o \in r.orders, o[1] = b.at PROVE o[3] <= b.seq + 1
        BY <1>2, <1>7
      <3>1. o[3] \in Nat /\ o[3] <= b.seq
        BY <1>1, <1>12 DEF Robot, Label
      <3> QED
        BY <1>1, <3>1
    <2>4. Counted(r.st, Fills(r)) => Counted(t.st, Fills(t))
      <3>1. Fills(r) \in SUBSET Label /\ r.st.basket # None /\ r.st.pending \notin Fills(r)
        BY FillsFinite DEF Ordered, Queued
      <3> QED
        BY <1>1, <1>2, <1>3, <1>7, <1>13, <3>1, CountedDropped
    <2>5. /\ \A o \in r.orders : o[1] <= r.st.signal
          /\ b.at <= r.st.signal
          /\ now > b.at + AddTime \/ Counted(r.st, Fills(r))
      BY <1>11 DEF Accounts, Queued
    <2> QED
      BY <1>2, <1>3, <1>7, <2>1, <2>2, <2>3, <2>4, <2>5 DEF Accounts
  <1>15. Copies(t)
    BY <1>7, <1>9, <1>10, CopiesSame DEF Ordered
  <1>16. t.persisted < t.st.rev /\ (t.busy => t.sent < t.st.rev)
    <2>1. r.persisted <= r.st.rev /\ (r.busy => r.sent <= r.st.rev)
      BY DEF Ordered, Copies
    <2> QED
      BY <1>1, <1>7, <2>1 DEF SameLink
  <1>17. Carries(t, Persist(t)) /\ Persist(t).st = t.st
    BY <1>7, <1>10, <1>13, <1>14, <1>15, <1>16, PersistOrdered DEF Known
  <1>18. Body(t, Persist(t))
    BY <1>10, BodyKept
  <1> QED
    BY <1>7, <1>8, <1>11, <1>17, <1>18 DEF Carries, Body

(* A queued child is prepared, sent or cancelled.                          *)
LEMMA ProcessQueueOrdered ==
    ASSUME NEW r, Ordered(r), row \in Row \cup {None}, r.ready,
           NEW verdict, NEW t \in ProcessQueue(r, verdict)
    PROVE  Onward(r, t)
  <1>1. CASE t = r
    BY <1>1 DEF Onward
  <1>2. CASE t = CancelQueue(r) /\ Queued(r)
    <2>1. MayDrop(r)
      <3>1. CASE r.st.pending = None
        BY <3>1, FillsFinite DEF MayDrop, Ordered
      <3>2. CASE r.st.pending # None
        BY <1>2, <3>2 DEF MayDrop, Ordered, Queued, Intended, Copies
      <3> QED
        BY <3>1, <3>2
    <2> QED
      BY <1>2, <2>1, CancelQueueOrdered DEF Carries, Onward, Ordered, Known
  <1>3. ASSUME Queued(r), NEW p, p = IF r.st.pending = None THEN Prepare(r) ELSE r,
               t \in IF Durable(p) THEN SendOrder(p) ELSE {p}
        PROVE  Onward(r, t)
    <2>1. Carries(r, p) /\ p.ready
      BY <1>3, PrepareOrdered DEF Carries
    <2>2. /\ p.st.pending # None /\ p.st.basket # None
      BY <1>3, PrepareFollows DEF Queued, Ordered
    <2>3. ~p.st.quarantined
      BY <1>3, PrepareOrdered DEF Queued
    <2>4. CASE t = p
      BY <2>1, <2>4 DEF Carries, Onward
    <2>5. CASE Durable(p) /\ t \in SendOrder(p)
      <3>1. Onward(p, t)
        BY <2>1, <2>2, <2>3, <2>5, SendOrderOrdered DEF Carries
      <3> QED
        BY <2>1, <3>1 DEF Carries, Onward
    <2> QED
      BY <1>3, <2>4, <2>5
  <1> QED
    BY <1>1, <1>2, <1>3 DEF ProcessQueue

-----------------------------------------------------------------------------
(* Positions, baskets and bars                                             *)

(* Positions are protected or closed; what cannot be quarantines the robot.*)
LEMMA TreatedOrdered ==
    ASSUME NEW r, Ordered(r), row \in Row \cup {None}, NEW t \in Treated(r)
    PROVE  Carries(r, t)
  <1>1. CASE t = r
    BY <1>1 DEF Carries
  <1>2. ASSUME NEW q \in {r, Quarantine(r)}, NEW old,
               NEW c \in SUBSET r.open, NEW p \in SUBSET r.bare, NEW loss \in SUBSET r.open,
               t = Treat(q, old, c, p, loss)
        PROVE  Carries(r, t)
    <2> DEFINE n == [q EXCEPT !.open = @ \ c, !.bare = @ \ (c \cup p),
                              !.won = @ \cup (c \ loss), !.lost = @ \cup (c \cap loss)]
    <2>1. Carries(r, q) /\ q.open = r.open
      BY <1>2, QuarantineOrdered DEF Ordered, Accounts, Carries, Body
    <2>2. c \subseteq Label /\ q \in Robot
      BY <2>1 DEF Carries, Ordered, Led, Robot
    <2>3. n \in Robot
      BY <2>2 DEF Robot
    <2>4. /\ n.st = q.st /\ n.wal = q.wal /\ n.save = q.save /\ SameLink(q, n)
          /\ n.orders = q.orders /\ n.here = q.here /\ n.submitted = q.submitted
      BY <2>2 DEF Robot, SameLink
    <2>5. Fills(n) \subseteq Fills(q) /\ n.open \subseteq q.open
      BY <2>1, <2>2 DEF Robot, Fills
    <2>6. t \in {n, Quarantine(n)}
      BY <1>2 DEF Treat
    <2> HIDE DEF n
    <2>7. Carries(q, n)
      BY <2>1, <2>3, <2>4, <2>5, BrokerOrdered DEF Carries
    <2>8. Carries(n, Quarantine(n))
      BY <2>7, QuarantineOrdered DEF Carries, Ordered, Accounts
    <2> QED
      BY <2>1, <2>6, <2>7, <2>8 DEF Carries
  <1>3. CASE ~(r.st.basket = None \/ r.open = {})
    <2> DEFINE old == Expired(r.st.basket)
               q   == IF r.bare # {} THEN Quarantine(r) ELSE r
    <2>1. t \in {Treat(q, old, c, p, loss) :
                    c \in SUBSET (IF old THEN r.open ELSE r.open \cap r.bare),
                    p \in SUBSET r.bare, loss \in SUBSET r.open}
      BY <1>3 DEF Treated
    <2>2. q \in {r, Quarantine(r)}
      OBVIOUS
    <2> HIDE DEF old, q
    <2>3. PICK c \in SUBSET (IF old THEN r.open ELSE r.open \cap r.bare),
               p \in SUBSET r.bare, loss \in SUBSET r.open : t = Treat(q, old, c, p, loss)
      BY <2>1
    <2>4. c \in SUBSET r.open
      BY <2>3
    <2> QED
      BY <1>2, <2>2, <2>3, <2>4
  <1> QED
    BY <1>1, <1>3 DEF Treated

(* Another basket for the same intent.                                     *)
LEMMA MemoryChanged ==
    ASSUME NEW r, Ordered(r), row \in Row \cup {None}, NEW m \in Checkpoint,
           m.rev >= r.st.rev, m.pending = r.st.pending, m.quarantined = r.st.quarantined,
           Accounts(m, r)
    PROVE  /\ Carries(r, Changed([r EXCEPT !.st = m])) /\ Body(r, Changed([r EXCEPT !.st = m]))
           /\ Changed([r EXCEPT !.st = m]).st = [m EXCEPT !.rev = @ + 1]
  <1> DEFINE t == [r EXCEPT !.st = m]
  <1>1. r \in Robot
    BY DEF Ordered, Led
  <1>2. /\ t \in Robot /\ t.st = m /\ t.wal = r.wal /\ t.save = r.save /\ SameLink(r, t)
        /\ Body(r, t) /\ Fills(t) = Fills(r) /\ t.open = r.open
    BY <1>1 DEF Robot, SameLink, Body, Fills
  <1>3. Led(t)
    BY MemoryFollows DEF Ordered, Follows
  <1> HIDE DEF t
  <1>4. Accounts(t.st, t)
    <2>1. m.rev >= m.rev /\ IsFiniteSet(Fills(r))
      BY FillsFinite DEF Checkpoint, Ordered
    <2> QED
      BY <1>2, <2>1, AccountsSame DEF Body
  <1>5. Carries(r, t)
    BY <1>2, <1>3, <1>4, MemoryOrdered DEF Ordered, Body
  <1>6. Carries(t, Changed(t)) /\ Body(t, Changed(t))
    BY <1>3, <1>5, ChangedOrdered, BodyKept DEF Carries
  <1>7. Changed(t).st = [m EXCEPT !.rev = @ + 1]
    BY <1>2 DEF Changed, Robot
  <1> QED
    BY <1>2, <1>5, <1>6, <1>7 DEF Carries, Body, t

(* A basket ends without an intent, or in quarantine.                      *)
LEMMA SettledOrdered ==
    ASSUME NEW r, Ordered(r), Idle(r), row \in Row \cup {None}, now \in 1 .. MaxTime
    PROVE  Carries(r, Settled(r))
  <1> DEFINE later == /\ AcceptedSum(r.st.basket) > 0
                      /\ Cardinality(InBasket(r.lost \cap settled, r.st.basket))
                           > Cardinality(InBasket(r.won \cap settled, r.st.basket))
             m == [r.st EXCEPT !.exit = now, !.basket = None,
                               !.resume = IF later THEN now + Cooldown ELSE @]
             x == [r EXCEPT !.st.exit = now, !.st.basket = None,
                            !.st.resume = IF later THEN now + Cooldown ELSE @]
  <1>1. Settled(r) = Changed(x)
    BY DEF Settled
  <1> HIDE DEF later
  <1>2. r \in Robot /\ r.st \in Checkpoint /\ now \in Nat /\ now + Cooldown \in Nat
    BY ContractAssumption DEF Ordered, Led, Robot
  <1>3. /\ m \in Checkpoint /\ m.rev = r.st.rev /\ m.basket = None /\ m.pending = r.st.pending
        /\ m.quarantined = r.st.quarantined /\ m.signal = r.st.signal
    BY <1>2 DEF Checkpoint
  <1>4. x = [r EXCEPT !.st = m]
    BY <1>2 DEF Robot, Checkpoint
  <1> HIDE DEF m, x
  <1>5. Accounts(m, r)
    <2>1. Bounded(m)
      BY <1>3 DEF Ordered, Accounts, Bounded
    <2>2. m.quarantined \/ m.pending = None
      BY <1>3 DEF Idle
    <2> QED
      BY <1>3, <2>1, <2>2 DEF Accounts, Ordered, Valid
  <1>6. m.rev >= r.st.rev
    BY <1>2, <1>3 DEF Checkpoint
  <1>7. Carries(r, Changed([r EXCEPT !.st = m]))
    BY <1>3, <1>5, <1>6, MemoryChanged
  <1> QED
    BY <1>1, <1>4, <1>7

(* The end of a basket: its queue goes when its time is over, an intent    *)
(* that was not submitted when its positions are.                          *)
LEMMA ConcludedOrdered ==
    ASSUME NEW r, Ordered(r), row \in Row \cup {None}, now \in 1 .. MaxTime
    PROVE  Carries(r, Concluded(r))
  <1> DEFINE t == IF now > r.st.basket.at + AddTime THEN CancelQueue(r) ELSE r
             f == IF t.st.pending = None THEN t
                  ELSE IF t.here /\ ~t.submitted THEN CancelQueue(t)
                  ELSE Quarantine(t)
  <1>1. CASE r.st.basket = None
    BY <1>1 DEF Concluded, Carries
  <1>2. CASE r.st.basket # None
    <2>1. Carries(r, t)
      <3>1. CASE now > r.st.basket.at + AddTime
        BY <1>2, <3>1, CancelQueueOrdered DEF MayDrop, Ordered, Known
      <3>2. CASE ~(now > r.st.basket.at + AddTime)
        BY <3>2 DEF Carries
      <3> QED
        BY <3>1, <3>2
    <2>2. Concluded(r) \in {t, Finish(f)}
      BY <1>2 DEF Concluded
    <2> HIDE DEF t
    <2>3. Carries(t, f) /\ Idle(f)
      <3>1. CASE t.st.pending = None
        BY <2>1, <3>1 DEF Carries, Idle
      <3>2. CASE t.st.pending # None /\ t.here /\ ~t.submitted
        <4>1. MayDrop(t)
          BY <2>1, <3>2 DEF Carries, Ordered, MayDrop, Intended, Copies
        <4> QED
          BY <2>1, <3>2, <4>1, CancelQueueOrdered DEF Carries, Ordered, Known
      <3>3. CASE t.st.pending # None /\ ~(t.here /\ ~t.submitted)
        BY <2>1, <3>3, QuarantineOrdered DEF Carries, Ordered, Accounts
      <3> QED
        BY <3>1, <3>2, <3>3
    <2> HIDE DEF f
    <2>4. Carries(f, Finish(f))
      BY <2>3, SettledOrdered DEF Finish, Carries
    <2> QED
      BY <2>1, <2>2, <2>3, <2>4 DEF Carries
  <1> QED
    BY <1>1, <1>2

(* ManagePositions.                                                        *)
LEMMA ManageOrdered ==
    ASSUME NEW r, Ordered(r), row \in Row \cup {None}, now \in 1 .. MaxTime,
           NEW t \in ManagePositions(r)
    PROVE  Carries(r, t)
  <1> DEFINE known == IF r.st.basket = None /\ r.open # {}
                      THEN RecoverExposureForExitOnly(Quarantine(r)) ELSE {r}
  <1>1. PICK x \in UNION {Treated(k) : k \in known} : t = Concluded(x)
    BY DEF ManagePositions
  <1>2. PICK k \in known : x \in Treated(k)
    BY <1>1
  <1>3. Carries(r, Quarantine(r)) /\ Quarantine(r).st.quarantined
    BY QuarantineOrdered DEF Ordered, Accounts
  <1>4. Carries(r, k)
    <2>1. CASE k = r
      BY <2>1 DEF Carries
    <2>2. CASE k \in RecoverExposureForExitOnly(Quarantine(r))
      <3> DEFINE q == Quarantine(r)
      <3>1. Led(q) /\ Copies(q) /\ Bounded(q.st) /\ q.st.quarantined /\ q.orders = r.orders
        BY <1>3 DEF Carries, Ordered, Accounts
      <3>2. k \in RecoverExposureForExitOnly(q)
        BY <2>2
      <3> HIDE DEF q
      <3>3. Carries(q, k)
        BY <3>1, <3>2, ExitOnlyOrdered
      <3> QED
        BY <3>1, <3>3 DEF Carries
    <2> QED
      BY <1>2, <2>1, <2>2
  <1>5. Carries(k, x)
    BY <1>2, <1>4, TreatedOrdered DEF Carries
  <1>6. Carries(x, t)
    BY <1>1, <1>5, ConcludedOrdered DEF Carries
  <1> QED
    BY <1>4, <1>5, <1>6 DEF Carries

(* A stage is added when nothing is queued: there is no intent then.       *)
LEMMA QueueStageOrdered ==
    ASSUME NEW r, Ordered(r), row \in Row \cup {None}, NEW wanted \in 0 .. MaxWanted, Adds(r)
    PROVE  Carries(r, QueueStage(r, wanted)) /\ Body(r, QueueStage(r, wanted))
  <1> DEFINE s == r.st.basket.next
             v == IF wanted = 0 THEN None ELSE s
             b == [r.st.basket EXCEPT !.queue = v, !.left = wanted, !.next = s + 1]
             s2 == [r.st EXCEPT !.basket = [r.st.basket EXCEPT !.queue = v, !.left = wanted]]
             m == [r.st EXCEPT !.basket = b]
  <1>1. /\ r \in Robot /\ r.st \in Checkpoint /\ r.st.basket \in Basket /\ r.st.basket # None
        /\ s < Stages /\ s \in Nat /\ Stages \in Nat /\ wanted \in Nat
    BY ContractAssumption DEF Ordered, Led, Robot, Checkpoint, Adds, Basket
  <1>2. v \in Stage \cup {None} /\ s + 1 \in 0 .. Stages
    BY <1>1 DEF Stage
  <1>3. QueueStage(r, wanted) = Changed([r EXCEPT !.st = m])
    <2> HIDE DEF s, v
    <2>1. [r EXCEPT !.st.basket.queue = v, !.st.basket.left = wanted] = [r EXCEPT !.st = s2]
      BY <1>1 DEF Robot, Checkpoint, Basket
    <2>2. m = [s2 EXCEPT !.basket.next = s + 1]
      BY <1>1 DEF Checkpoint, Basket
    <2>3. [[r EXCEPT !.st = s2] EXCEPT !.st.basket.next = s + 1]
             = [r EXCEPT !.st = [s2 EXCEPT !.basket.next = s + 1]]
      BY <1>1 DEF Robot
    <2>4. QueueStage(r, wanted) = Changed([[r EXCEPT !.st = s2] EXCEPT !.st.basket.next = s + 1])
      BY <2>1 DEF QueueStage, s, v
    <2> QED
      BY <2>2, <2>3, <2>4
  <1>4. /\ b \in Basket /\ b.at = r.st.basket.at /\ b.seq = r.st.basket.seq
        /\ b.accepted = r.st.basket.accepted
    BY <1>1, <1>2 DEF Basket
  <1> HIDE DEF b
  <1>5. /\ m \in Checkpoint /\ m.rev = r.st.rev /\ m.basket = b /\ m.pending = r.st.pending
        /\ m.quarantined = r.st.quarantined /\ m.signal = r.st.signal
    BY <1>1, <1>4 DEF Checkpoint
  <1> HIDE DEF m
  <1>6. r.st.quarantined \/ r.st.pending = None
    <2> SUFFICES ASSUME ~r.st.quarantined, r.st.pending # None PROVE FALSE
      OBVIOUS
    <2>1. r.st.pending = <<r.st.basket.at, r.st.basket.queue, r.st.basket.seq>>
      BY DEF Ordered, Accounts, Valid
    <2>2. r.st.pending \in Label /\ r.st.pending[2] = None
      BY <1>1, <2>1 DEF Checkpoint, Adds
    <2> QED
      BY <2>2, NoneAssumption DEF Label
  <1>7. Accounts(m, r)
    <2>1. Bounded(m)
      BY <1>1, <1>4, <1>5 DEF Ordered, Accounts, Bounded
    <2>2. Counted(r.st, Fills(r)) => Counted(m, Fills(r))
      BY <1>4, <1>5 DEF Counted
    <2> QED
      BY <1>1, <1>4, <1>5, <1>6, <2>1, <2>2 DEF Ordered, Accounts, Valid
  <1>8. m.rev >= r.st.rev
    BY <1>1, <1>5 DEF Checkpoint
  <1>9. /\ Carries(r, Changed([r EXCEPT !.st = m]))
        /\ Body(r, Changed([r EXCEPT !.st = m]))
    BY <1>5, <1>7, <1>8, MemoryChanged
  <1> QED
    BY <1>3, <1>9

(* A new basket is later than every order there has been.                  *)
LEMMA PrepareBasketOrdered ==
    ASSUME NEW r, Ordered(r), row \in Row \cup {None}, NEW wanted \in 0 .. MaxWanted,
           now \in 1 .. MaxTime, MayStart(r)
    PROVE  Carries(r, PrepareBasket(r, wanted)) /\ Body(r, PrepareBasket(r, wanted))
  <1> DEFINE m == [r.st EXCEPT !.signal = now]
             x == [r EXCEPT !.st.signal = now]
             s == Changed(x)
             b == [at |-> now, queue |-> 0, left |-> wanted, next |-> 1, seq |-> 0,
                   accepted |-> [y \in Stage |-> 0]]
             k == [s.st EXCEPT !.basket = b]
  <1>1. /\ r \in Robot /\ r.st \in Checkpoint /\ r.st.rev \in Nat /\ now \in Nat
        /\ r.st.signal \in Nat /\ r.st.basket = None /\ ~r.st.quarantined /\ now > r.st.signal
    BY DEF Ordered, Led, Robot, Checkpoint, MayStart
  <1>2. /\ m \in Checkpoint /\ m.rev = r.st.rev /\ m.signal = now /\ m.basket = None
        /\ m.pending = r.st.pending /\ m.quarantined = r.st.quarantined
    BY <1>1 DEF Checkpoint
  <1>3. x = [r EXCEPT !.st = m]
    BY <1>1 DEF Robot, Checkpoint
  <1>4. /\ b \in Basket /\ b.at = now /\ b.seq = 0 /\ b.left = wanted
        /\ b.accepted = [y \in Stage |-> 0] /\ b # None
    <2>1. b \in Basket
      BY <1>1, ContractAssumption DEF Basket, Stage
    <2> QED
      BY <2>1, NoneAssumption
  <1>5. r.st.pending = None
    BY <1>1 DEF Ordered, Accounts, Valid
  <1>6. \A l \in r.orders : l[1] \in Nat /\ l[1] <= r.st.signal
    BY <1>1 DEF Ordered, Accounts, Robot, Label
  <1> HIDE DEF m, x, b
  <1>7. Accounts(m, r)
    <2>1. \A l \in r.orders : l[1] <= now
      BY <1>1, <1>6
    <2> QED
      BY <1>2, <1>5, <2>1 DEF Accounts, Bounded, Valid
  <1>8. /\ Carries(r, s) /\ Body(r, s) /\ s.st = [m EXCEPT !.rev = @ + 1]
    BY <1>1, <1>2, <1>3, <1>7, MemoryChanged
  <1>9. /\ s.st \in Checkpoint /\ s.st.rev \in Nat /\ s \in Robot
    BY <1>8 DEF Carries, Ordered, Led, Robot, Checkpoint
  <1>10. /\ s.st.signal = now /\ s.st.pending = None /\ ~s.st.quarantined
    BY <1>1, <1>2, <1>5, <1>8 DEF Checkpoint
  <1>11. PrepareBasket(r, wanted) = IF wanted = 0 THEN s
                                    ELSE Changed([s EXCEPT !.st.basket = b])
    BY DEF PrepareBasket, b, x
  <1>12. [s EXCEPT !.st.basket = b] = [s EXCEPT !.st = k]
    BY <1>9 DEF Robot
  <1> HIDE DEF s
  <1>13. /\ k \in Checkpoint /\ k.rev = s.st.rev /\ k.basket = b /\ k.signal = now
         /\ k.pending = None /\ k.quarantined = s.st.quarantined
    BY <1>4, <1>9, <1>10 DEF Checkpoint
  <1> HIDE DEF k
  <1>14. Accounts(k, s)
    <2>1. \A l \in s.orders : l[1] # now /\ l[1] <= now
      BY <1>1, <1>6, <1>8 DEF Carries
    <2>2. Counted(k, Fills(s))
      <3> SUFFICES ASSUME NEW y \in Stage
                   PROVE  Cardinality({l \in Fills(s) : l[1] = now /\ l[2] = y /\ l # k.pending}) <= 0
        BY <1>4, <1>13 DEF Counted
      <3>1. {l \in Fills(s) : l[1] = now /\ l[2] = y /\ l # k.pending} = {}
        BY <1>8, <2>1 DEF Carries, Ordered, Copies
      <3>2. Cardinality({}) = 0
        BY FS_EmptySet
      <3> QED
        BY <3>1, <3>2
    <2>3. Bounded(k)
      BY <1>4, <1>9, <1>13 DEF Bounded
    <2> QED
      BY <1>1, <1>4, <1>13, <2>1, <2>2, <2>3 DEF Accounts, Valid
  <1>15. k.rev >= s.st.rev
    BY <1>9, <1>13
  <1> DEFINE z == Changed([s EXCEPT !.st = k])
  <1>16. Carries(s, z) /\ Body(s, z)
    BY <1>8, <1>10, <1>13, <1>14, <1>15, MemoryChanged DEF Carries
  <1> HIDE DEF z
  <1>17. Carries(r, z) /\ Body(r, z)
    BY <1>8, <1>16 DEF Carries, Body
  <1> QED
    BY <1>8, <1>11, <1>12, <1>17 DEF z

(* A completed bar.                                                        *)
LEMMA BarOrdered ==
    ASSUME NEW r, Ordered(r), row \in Row \cup {None}, NEW wanted \in 0 .. MaxWanted,
           now \in 1 .. MaxTime
    PROVE  Carries(r, Bar(r, wanted)) /\ Bar(r, wanted).ready = r.ready
  <1> DEFINE a == IF Adds(r) THEN QueueStage(r, wanted) ELSE r
             b == Changed(a)
  <1>1. Carries(r, a) /\ Body(r, a)
    BY QueueStageOrdered DEF Carries, Body
  <1>2. Bar(r, wanted) = IF MayStart(b) THEN PrepareBasket(b, wanted) ELSE b
    BY DEF Bar
  <1> HIDE DEF a
  <1>3. Carries(a, b) /\ Body(a, b)
    BY <1>1, ChangedOrdered, BodyKept DEF Carries, Ordered
  <1> HIDE DEF b
  <1>4. ASSUME MayStart(b)
        PROVE  Carries(b, PrepareBasket(b, wanted)) /\ Body(b, PrepareBasket(b, wanted))
    BY <1>3, <1>4, PrepareBasketOrdered DEF Carries
  <1> QED
    BY <1>1, <1>2, <1>3, <1>4 DEF Carries, Body

-----------------------------------------------------------------------------
(* The callbacks, and what the orders are to WriteAheadIntent              *)

(* Nothing, or an intent is recorded, or a recorded one is sent.           *)
OrderStep == [WAL!INext]_(WAL!ivars)

(* The invariant of the next state, where the bridge and time do not move. *)
LEMMA OrdersStay ==
    ASSUME UNCHANGED <<row, receipts, now>>, Copies(robot'), Intended(robot'),
           Accounts(robot'.st, robot') \/ Blank(robot'),
           robot'.up = "stopped" => robot'.wal # None /\ ~Valid(robot'.wal)
    PROVE  OrderInv'
  <1>1. Intents' = Intents
    BY DEF Intents
  <1>2. \A c, r : (now' > c.basket.at + AddTime) <=> (now > c.basket.at + AddTime)
    OBVIOUS
  <1>3. Copies(robot)'
    BY <1>1 DEF Copies, Accounts, Bounded, Counted, Valid, Fills, Fresh
  <1>4. Intended(robot)'
    BY DEF Intended
  <1>5. (Accounts(robot.st, robot) \/ Blank(robot))'
    BY DEF Blank, Fresh, Accounts, Bounded, Counted, Valid, Fills
  <1>6. (robot.up = "stopped" => robot.wal # None /\ ~Valid(robot.wal))'
    BY DEF Valid
  <1> QED
    BY <1>3, <1>4, <1>5, <1>6 DEF OrderInv

(* A callback that goes onward from what the robot knows.                  *)
LEMMA OnwardStep ==
    ASSUME NEW r, r.orders = robot.orders, Onward(r, robot'), robot'.st.rev <= MaxRev,
           robot'.up # "stopped", UNCHANGED <<row, receipts, now>>
    PROVE  OrderInv' /\ OrderStep
  <1>1. OrderInv'
    BY OrdersStay DEF Onward, Ordered
  <1>2. Intents' = Intents
    BY DEF Intents
  <1>3. CASE robot'.orders = robot.orders
    BY <1>1, <1>2, <1>3 DEF OrderStep, WAL!ivars
  <1>4. ASSUME NEW l \in (Intents \cap Label) \ robot.orders, l[3] <= robot'.st.rev,
               robot'.orders = robot.orders \cup {l}
        PROVE  OrderStep
    <2>1. WAL!Order(l)
      BY <1>2, <1>4 DEF WAL!Order
    <2> QED
      BY <1>4, <2>1 DEF OrderStep, WAL!INext
  <1> QED
    BY <1>1, <1>3, <1>4 DEF Onward

(* A step that sends nothing and records nothing.                          *)
LEMMA SilentStep ==
    ASSUME UNCHANGED <<row, receipts, now>>, Copies(robot'), Intended(robot'),
           Accounts(robot'.st, robot') \/ Blank(robot'),
           robot'.up = "stopped" => robot'.wal # None /\ ~Valid(robot'.wal),
           robot'.orders = robot.orders
    PROVE  OrderInv' /\ OrderStep
  <1>1. OrderInv'
    BY OrdersStay
  <1>2. OrderStep
    BY DEF OrderStep, WAL!ivars, Intents
  <1> QED
    BY <1>1, <1>2

(* A robot that was never started.                                         *)
LEMMA InitOrders == Init => OrderInv /\ WAL!IInit
  <1> SUFFICES ASSUME Init PROVE OrderInv /\ WAL!IInit
    OBVIOUS
  <1>1. Intents = {}
    BY DEF Init, Intents
  <1>2. IsFiniteSet({})
    BY FS_EmptySet
  <1>3. Copies(robot)
    BY <1>2 DEF Init, Copies, Fills
  <1>4. Intended(robot) /\ Blank(robot)
    BY DEF Init, Intended, Blank, Fresh
  <1> QED
    BY <1>1, <1>3, <1>4 DEF Init, OrderInv, WAL!IInit

(* A start from the log knows what the log does; without one the robot is  *)
(* blank, or quarantined with what it found.                               *)
LEMMA OnStartOrders == Inv /\ OrderInv /\ OnStart => OrderInv' /\ OrderStep
  <1> SUFFICES ASSUME Inv, OrderInv, OnStart PROVE OrderInv' /\ OrderStep
    OBVIOUS
  <1>0. /\ robot \in Robot /\ robot.up = "down" /\ ~robot.ready /\ ~robot.here
        /\ Copies(robot) /\ row \in Row \cup {None}
        /\ UNCHANGED <<row, receipts, now>>
    BY DEF Inv, TypeOK, OnStart, OrderInv, Copies
  <1>1. ASSUME robot.wal = None,
               NEW r \in FreshState(robot), robot' = [r EXCEPT !.up = "up", !.persisted = r.st.rev]
        PROVE  OrderInv' /\ OrderStep
    <2> DEFINE y == [robot EXCEPT !.st = [Fresh EXCEPT !.quarantined = TRUE]]
    <2>1. CASE r = [robot EXCEPT !.st = Fresh] /\ robot.open = {}
      <3>1. /\ robot'.st = Fresh /\ robot'.open = {} /\ ~robot'.ready /\ robot'.up = "up"
            /\ robot'.wal = robot.wal /\ robot'.save = robot.save
            /\ robot'.orders = robot.orders
            /\ Fills(robot') = Fills(robot) /\ robot'.open = robot.open
            /\ ~robot'.here
        BY <1>0, <1>1, <2>1 DEF Robot, Fills
      <3>2. Copies(robot')
        BY <1>0, <3>1, CopiesMoved DEF Linked
      <3>3. Intended(robot') /\ Blank(robot')
        BY <3>1 DEF Intended, Blank
      <3> QED
        BY <1>0, <3>1, <3>2, <3>3, SilentStep
    <2>2. CASE r \in RecoverExposureForExitOnly(y)
      <3>1. /\ [Fresh EXCEPT !.quarantined = TRUE] \in Checkpoint
            /\ Bounded([Fresh EXCEPT !.quarantined = TRUE])
            /\ [Fresh EXCEPT !.quarantined = TRUE].quarantined
        BY DEF Fresh, Checkpoint, Bounded
      <3> DEFINE d == [Fresh EXCEPT !.quarantined = TRUE]
      <3> HIDE DEF d
      <3>2. /\ y \in Robot /\ y.wal = None /\ ~y.ready /\ ~y.here /\ y.save = robot.save
            /\ y.orders = robot.orders
            /\ Fills(y) = Fills(robot) /\ y.open = robot.open /\ y.st = d /\ y.up = "down"
        BY <1>0, <1>1, <3>1 DEF Robot, Fills, d
      <3> HIDE DEF y
      <3>3. Copies(y)
        BY <1>0, <3>2, CopiesMoved DEF Linked
      <3>4. Carries(y, r) /\ r.st.quarantined /\ Body(y, r)
        BY <1>0, <2>2, <3>1, <3>2, <3>3, ExitOnlyOrdered DEF Led, d
      <3>5. r \in Robot /\ r.st \in Checkpoint /\ Copies(r) /\ Bounded(r.st)
        BY <3>4 DEF Carries, Ordered, Led, Robot, Accounts
      <3>6. /\ robot'.st = r.st /\ ~robot'.ready /\ robot'.up = "up"
            /\ robot'.wal = r.wal /\ robot'.save = r.save
            /\ robot'.orders = r.orders /\ Fills(robot') = Fills(r) /\ robot'.open = r.open
        BY <1>1, <3>2, <3>4, <3>5 DEF Robot, Fills, Body
      <3>7. Copies(robot')
        BY <1>0, <3>5, <3>6, CopiesMoved DEF Linked
      <3>8. Intended(robot') /\ Accounts(robot'.st, robot')
        BY <3>4, <3>5, <3>6 DEF Intended, Accounts
      <3> QED
        BY <1>0, <3>2, <3>4, <3>6, <3>7, <3>8, SilentStep DEF Carries
    <2> QED
      BY <1>1, <2>1, <2>2 DEF FreshState
  <1>2. ASSUME robot.wal # None, robot' = [robot EXCEPT !.up = "up", !.st = robot.wal,
                                                        !.persisted = robot.wal.rev]
        PROVE  OrderInv' /\ OrderStep
    <2>1. /\ robot.wal \in Checkpoint /\ IsFiniteSet(Fills(robot))
          /\ Accounts(robot.wal, robot) \/ (robot.wal = Fresh /\ robot.open = {})
      BY <1>0, <1>2, FS_Subset DEF Robot, Copies
    <2>2. /\ robot'.wal = robot.wal /\ robot'.st = robot.wal /\ robot'.up = "up"
          /\ ~robot'.ready /\ ~robot'.here /\ robot'.save = robot.save
          /\ robot'.orders = robot.orders
          /\ Fills(robot') = Fills(robot) /\ robot'.open = robot.open
      BY <1>0, <1>2, <2>1 DEF Robot, Fills
    <2>3. Copies(robot')
      BY <1>0, <2>2, CopiesMoved DEF Linked
    <2>4. robot.wal.rev >= robot.wal.rev
      BY <2>1 DEF Checkpoint
    <2>5. (Accounts(robot'.st, robot') \/ Blank(robot')) /\ Intended(robot')
      BY <2>1, <2>2, <2>4, AccountsSame DEF Intended, Blank
    <2> QED
      BY <1>0, <2>2, <2>3, <2>5, SilentStep
  <1>3. ASSUME robot.wal # None, ~Valid(robot.wal), robot' = [robot EXCEPT !.up = "stopped"]
        PROVE  OrderInv' /\ OrderStep
    <2>1. /\ robot'.wal = robot.wal /\ robot'.st = robot.st /\ robot'.up = "stopped"
          /\ ~robot'.ready /\ ~robot'.here /\ robot'.save = robot.save
          /\ robot'.orders = robot.orders /\ Fills(robot') = Fills(robot)
          /\ robot'.open = robot.open /\ robot.st \in Checkpoint
      BY <1>0, <1>3 DEF Robot, Fills
    <2>2. Copies(robot')
      BY <1>0, <2>1, CopiesMoved DEF Linked
    <2>3. robot.st.rev >= robot.st.rev /\ IsFiniteSet(Fills(robot))
      BY <1>0, <2>1, FS_Subset DEF Checkpoint, Copies
    <2>4. Accounts(robot.st, robot) => Accounts(robot'.st, robot')
      BY <2>1, <2>3, AccountsSame
    <2>5. Accounts(robot'.st, robot') \/ Blank(robot')
      BY <2>1, <2>4 DEF OrderInv, Blank
    <2>6. Intended(robot')
      BY <2>1 DEF Intended
    <2> QED
      BY <1>0, <1>3, <2>1, <2>2, <2>5, <2>6, SilentStep
  <1> QED
    BY <1>1, <1>2, <1>3 DEF OnStart, Becomes

(* A timer's cycle; a blank robot has nothing to manage.                   *)
LEMMA CycleOrders ==
    ASSUME Inv, OrderInv, NEW wanted \in (0 .. MaxWanted) \cup {None}, NEW verdict,
           Cycle(wanted, verdict)
    PROVE  OrderInv' /\ OrderStep
  <1>1. /\ Led(robot) /\ robot.up = "up" /\ now \in 1 .. MaxTime
        /\ row \in Row \cup {None} /\ UNCHANGED <<row, receipts, now>>
    BY DEF Inv, TypeOK, LogInv, Logged, Led, Cycle
  <1> DEFINE Bars(m)  == IF wanted # None THEN Bar(m, wanted) ELSE m
             Afters(m) == IF ~m.ready THEN {m}
                          ELSE {IF q.up = "up" THEN Persist(q) ELSE q :
                                   q \in ProcessQueue(Bars(m), verdict)}
  <1>2. PICK m \in ManagePositions(robot) : robot' \in Afters(m)
    BY DEF Cycle, Becomes
  <1>3. robot'.st.rev <= MaxRev
    BY DEF Cycle, Becomes
  <1>4. CASE Blank(robot) /\ ~Accounts(robot.st, robot)
    <2>1. robot.st.basket = None /\ robot.open = {} /\ ~robot.ready
      BY <1>4 DEF Blank, Fresh
    <2>2. m = robot
      BY <1>2, <2>1 DEF ManagePositions, Treated, Concluded
    <2>3. robot' = robot
      BY <1>2, <2>1, <2>2
    <2> QED
      BY <1>1, <2>3, SilentStep DEF OrderInv
  <1>5. CASE Accounts(robot.st, robot)
    <2>1. Ordered(robot)
      BY <1>1, <1>5 DEF OrderInv, Ordered
    <2>2. Carries(robot, m)
      BY <1>1, <1>2, <2>1, ManageOrdered
    <2>3. robot'.up # "stopped"
      <3>1. Follows(robot, robot')
        <4>1. Follows(robot, m) /\ Led(m)
          BY <1>1, <1>2, ManageFollows DEF Follows
        <4>2. Follows(m, Bars(m))
          BY <1>1, <4>1, BarFollows, FollowsSelf
        <4>3. CASE ~m.ready
          BY <1>2, <4>1, <4>3
        <4>4. CASE m.ready
          <5>1. PICK q \in ProcessQueue(Bars(m), verdict) :
                   robot' = IF q.up = "up" THEN Persist(q) ELSE q
            BY <1>2, <4>4
          <5> HIDE DEF Bars
          <5>2. Follows(robot, Bars(m)) /\ Led(Bars(m))
            BY <1>1, <4>1, <4>2, FollowsTrans DEF Follows
          <5>3. Follows(robot, q) /\ Led(q)
            BY <1>1, <5>2, ProcessQueueFollows, FollowsTrans DEF Follows
          <5>4. Follows(robot, Persist(q))
            BY <1>1, <5>3, PersistFollows, FollowsTrans
          <5> QED
            BY <5>1, <5>3, <5>4
        <4> QED
          BY <4>3, <4>4
      <3> QED
        BY <1>1, <3>1 DEF Follows
    <2>4. CASE ~m.ready
      <3>1. Onward(m, robot')
        BY <1>2, <2>2, <2>4 DEF Carries, Onward
      <3> QED
        BY <1>1, <1>3, <2>2, <2>3, <3>1, OnwardStep DEF Carries
    <2>5. CASE m.ready
      <3>1. PICK q \in ProcessQueue(Bars(m), verdict) :
               robot' = IF q.up = "up" THEN Persist(q) ELSE q
        BY <1>2, <2>5
      <3>2. Carries(m, Bars(m)) /\ Bars(m).ready
        BY <1>1, <2>2, <2>5, BarOrdered DEF Carries
      <3> DEFINE b == Bars(m)
      <3>3. q \in ProcessQueue(b, verdict)
        OBVIOUS
      <3> HIDE DEF b
      <3>4. Carries(m, b) /\ b.ready
        BY <3>2 DEF b
      <3>5. Onward(b, q)
        BY <1>1, <3>3, <3>4, ProcessQueueOrdered DEF Carries
      <3>6. Carries(q, Persist(q)) /\ Persist(q).st = q.st
        BY <1>1, <3>5, PersistOrdered DEF Onward, Ordered, Known
      <3>7. Onward(b, robot')
        BY <3>1, <3>5, <3>6 DEF Onward, Carries
      <3> QED
        BY <1>1, <1>3, <2>2, <2>3, <3>4, <3>7, OnwardStep DEF Carries
    <2> QED
      BY <2>4, <2>5
  <1> QED
    BY <1>4, <1>5 DEF OrderInv

(* The handshake takes a checkpoint that knows every order: its own, or    *)
(* the bridge's, and an empty bridge has recorded none.                    *)
LEMMA ReceiveReadyOrders == Inv /\ OrderInv /\ ReceiveReady => OrderInv' /\ OrderStep
  <1> SUFFICES ASSUME Inv, OrderInv, ReceiveReady PROVE OrderInv' /\ OrderStep
    OBVIOUS
  <1> DEFINE other == mail.data
             x == [robot EXCEPT !.remote = mail.version]
             a == Adopt(robot, mail.version, mail.data)
             z == [a EXCEPT !.ready = TRUE, !.busy = FALSE, !.persisted = a.st.rev]
  <1>1. /\ robot \in Robot /\ robot.up = "up" /\ ~robot.ready /\ Led(robot)
        /\ mail # None /\ mail.type = "ready" /\ row \in Row \cup {None}
        /\ UNCHANGED <<row, receipts, now>>
        /\ Copies(robot) /\ Intended(robot)
    BY DEF Inv, TypeOK, LogInv, Logged, ReceiveReady, Led, OrderInv
  <1>2. /\ mail.version \in Nat /\ other \in Checkpoint \cup {None} /\ robot.save = None
        /\ other = IF row = None THEN None ELSE row.data
        /\ row # None => row.data \in Checkpoint
    BY <1>1 DEF Inv, TypeOK, LogInv, Logged, Mail, Row
  <1>3. robot.st \in Checkpoint /\ robot.st.rev \in Nat /\ IsFiniteSet(Fills(robot))
    BY <1>1, FillsFinite DEF Robot, Checkpoint
  <1>4. other # None => other \in Checkpoint /\ Accounts(other, robot)
    BY <1>1, <1>2 DEF Copies
  <1>5. Bounded(robot.st)
    BY DEF OrderInv, Accounts, Blank, Bounded, Fresh
  <1>6. other = None => Accounts(robot.st, robot)
    <2> SUFFICES ASSUME other = None, Blank(robot) PROVE Accounts(robot.st, robot)
      BY DEF OrderInv
    <2>1. row = None
      BY <1>2, NoneAssumption
    <2>2. Intents = {}
      BY <2>1 DEF Inv, SaveInv, Intents
    <2>3. robot.orders = {}
      BY <1>1, <2>2 DEF Copies
    <2> QED
      BY <1>5, <2>3 DEF Blank, Fresh, Accounts, Valid
  <1>7. /\ x \in Robot /\ x.st = robot.st /\ x.wal = robot.wal /\ x.save = robot.save
        /\ x.orders = robot.orders /\ Fills(x) = Fills(robot) /\ ~x.ready /\ x.up = "up"
        /\ x.here = robot.here /\ x.submitted = robot.submitted /\ x.open = robot.open
    BY <1>1, <1>2 DEF Robot, Fills
  <1>8. Led(x) /\ Copies(x) /\ Intended(x) /\ (Accounts(x.st, x) \/ Blank(x))
    <2> HIDE DEF x
    <2>1. Led(x)
      BY <1>1, <1>7 DEF Led
    <2>2. Copies(x)
      BY <1>1, <1>7, CopiesMoved DEF Linked
    <2>3. Intended(x)
      BY <1>1, <1>7 DEF Intended
    <2>4. robot.st.rev >= robot.st.rev
      BY <1>3
    <2>5. Accounts(robot.st, robot) => Accounts(x.st, x)
      BY <1>3, <1>7, <2>4, AccountsSame
    <2>6. Blank(robot) => Blank(x)
      BY <1>7 DEF Blank
    <2> QED
      BY <2>1, <2>2, <2>3, <2>5, <2>6 DEF OrderInv
  <1>9. CASE robot' = Quarantine(x)
    <2> HIDE DEF x
    <2>1. Carries(x, robot') /\ Body(x, robot')
      BY <1>1, <1>5, <1>7, <1>8, <1>9, QuarantineOrdered
    <2> QED
      BY <1>1, <1>7, <2>1, SilentStep DEF Carries, Ordered, Body
  <1>10. CASE robot' = x
    <2> HIDE DEF x
    <2> QED
      BY <1>1, <1>7, <1>8, <1>10, SilentStep
  <1>11. CASE /\ robot' \in Reconciled(z) /\ robot'.st.rev <= MaxRev
              /\ ~(other # None /\ other.rev = robot.st.rev /\ other # robot.st)
    <2> DEFINE m == IF other # None /\ other.rev >= robot.st.rev THEN other ELSE robot.st
    <2>1. m \in Checkpoint /\ m.rev \in Nat /\ m.rev >= robot.st.rev
      BY <1>2, <1>3 DEF Checkpoint
    <2>2. Accounts(m, robot)
      <3>1. CASE other = None
        BY <1>6, <3>1
      <3>2. CASE other # None /\ other.rev >= robot.st.rev
        BY <1>4, <3>2
      <3>3. CASE other # None /\ ~(other.rev >= robot.st.rev)
        <4>1. other.rev \in Nat /\ robot.st.rev # 0
          BY <1>3, <1>4, <3>3 DEF Checkpoint
        <4>2. ~Blank(robot)
          BY <4>1 DEF Blank, Fresh
        <4> QED
          BY <3>3, <4>2 DEF OrderInv
      <3> QED
        BY <3>1, <3>2, <3>3
    <2>3. a = [robot EXCEPT !.remote = mail.version, !.st = m]
      BY DEF Adopt
    <2> HIDE DEF m, a, other, x
    <2>4. /\ a \in Robot /\ a.st = m /\ a.wal = robot.wal /\ a.save = None /\ a.up = "up"
          /\ a.orders = robot.orders /\ Fills(a) = Fills(robot) /\ a.open = robot.open
      BY <1>1, <1>2, <2>1, <2>3 DEF Robot, Fills
    <2>5. /\ z \in Robot /\ z.st = m /\ z.wal = robot.wal /\ z.save = None /\ z.up = "up"
          /\ z.orders = robot.orders /\ Fills(z) = Fills(robot) /\ z.open = robot.open
          /\ z.ready /\ ~z.busy /\ z.persisted = m.rev
      BY <2>1, <2>4 DEF Robot, Fills
    <2>6. robot' \in Reconciled(z)
      BY <1>11
    <2> HIDE DEF z
    <2>7. Led(z)
      BY <1>1, <2>1, <2>5 DEF Led, Robot, Checkpoint
    <2>8. Copies(z)
      BY <1>1, <2>1, <2>5, CopiesMoved DEF Linked
    <2>9. Accounts(z.st, z)
      <3>1. m.rev >= m.rev
        BY <2>1
      <3> QED
        BY <1>3, <2>1, <2>2, <2>5, <3>1, AccountsSame
    <2>10. Carries(z, robot')
      BY <1>1, <2>6, <2>7, <2>8, <2>9, ReconciledOrdered DEF Known
    <2>11. robot'.up # "stopped"
      <3>1. Follows(z, robot')
        BY <2>6, <2>7, ReconciledFollows
      <3> QED
        BY <2>5, <3>1 DEF Follows
    <2> QED
      BY <1>1, <2>5, <2>10, <2>11, SilentStep DEF Carries, Ordered
  <1>12. \/ robot' = Quarantine(x)
         \/ robot' = x
         \/ /\ robot' \in Reconciled(z) /\ robot'.st.rev <= MaxRev
            /\ ~(other # None /\ other.rev = robot.st.rev /\ other # robot.st)
    BY DEF ReceiveReady, Becomes
  <1> QED
    BY <1>9, <1>10, <1>11, <1>12

(* An acknowledgement tells which intent the bridge has.                   *)
LEMMA ReceiveAckOrders ==
    ASSUME Inv, OrderInv, NEW verdict, ReceiveAck(verdict)
    PROVE  OrderInv' /\ OrderStep
  <1> DEFINE x == [robot EXCEPT !.remote = mail.version, !.persisted = mail.rev, !.busy = FALSE]
  <1>1. /\ robot \in Robot /\ robot.up = "up" /\ robot.ready /\ Led(robot)
        /\ mail # None /\ mail.type = "ack" /\ robot.save = None /\ row \in Row \cup {None}
        /\ UNCHANGED <<row, receipts, now>>
        /\ Copies(robot) /\ Intended(robot) /\ Accounts(robot.st, robot)
    BY DEF Inv, TypeOK, LogInv, Logged, SaveInv, Saved, ReceiveAck, Led, OrderInv, Blank
  <1>2. mail.version \in Nat /\ mail.rev \in Nat
    BY <1>1 DEF Inv, TypeOK, Mail
  <1>3. CASE /\ robot' \in ProcessQueue(Persist(x), verdict) /\ robot'.st.rev <= MaxRev
             /\ robot.busy /\ mail.rev = robot.sent
    <2>1. /\ x \in Robot /\ x.st = robot.st /\ x.wal = robot.wal /\ x.save = None
          /\ x.orders = robot.orders
          /\ Fills(x) = Fills(robot) /\ x.open = robot.open /\ x.ready /\ x.up = "up"
          /\ ~x.busy /\ x.persisted = robot.sent /\ x.here = robot.here
          /\ x.submitted = robot.submitted
      BY <1>1, <1>2, <1>3 DEF Robot, Fills
    <2> HIDE DEF x
    <2>2. /\ robot.st \in Checkpoint /\ robot.st.rev \in Nat /\ robot.sent \in Nat
          /\ robot.sent <= robot.st.rev /\ robot.st.rev >= robot.st.rev
          /\ IsFiniteSet(Fills(robot))
      BY <1>1, <1>3, FillsFinite DEF Robot, Checkpoint, Copies
    <2>3. Led(x)
      BY <1>1, <2>1 DEF Led
    <2>4. Copies(x)
      BY <1>1, <2>1, <2>2, CopiesMoved DEF Linked
    <2>5. Accounts(x.st, x)
      BY <1>1, <2>1, <2>2, AccountsSame
    <2>6. Intended(x)
      <3>1. x.persisted >= x.st.rev => robot.busy /\ robot.sent = robot.st.rev
        BY <1>3, <2>1, <2>2
      <3> QED
        BY <1>1, <2>1, <3>1 DEF Intended
    <2> DEFINE y == Persist(x)
    <2>7. Carries(x, y)
      BY <1>1, <2>3, <2>4, <2>5, <2>6, PersistOrdered DEF Known
    <2>8. y.ready /\ y.up = "up"
      BY <2>1, <2>3, BodyKept DEF Body
    <2>9. robot' \in ProcessQueue(y, verdict)
      BY <1>3
    <2> HIDE DEF y
    <2>10. Onward(y, robot')
      BY <1>1, <2>7, <2>8, <2>9, ProcessQueueOrdered DEF Carries
    <2>11. robot'.up # "stopped"
      <3>1. Follows(y, robot')
        BY <2>7, <2>9, ProcessQueueFollows DEF Carries, Ordered
      <3> QED
        BY <2>8, <3>1 DEF Follows
    <2> QED
      BY <1>1, <1>3, <2>1, <2>7, <2>10, <2>11, OnwardStep DEF Carries
  <1>4. CASE UNCHANGED robot
    BY <1>1, <1>4, SilentStep
  <1> QED
    BY <1>3, <1>4 DEF ReceiveAck, Becomes

(* The connection breaks.                                                  *)
LEMMA BridgeOfflineOrders == Inv /\ OrderInv /\ BridgeOffline => OrderInv' /\ OrderStep
  <1> SUFFICES ASSUME Inv, OrderInv, BridgeOffline PROVE OrderInv' /\ OrderStep
    OBVIOUS
  <1>1. /\ robot \in Robot /\ Led(robot) /\ robot.faults - 1 \in 0 .. MaxFaults
        /\ robot.ready /\ robot.up = "up" /\ row \in Row \cup {None}
        /\ UNCHANGED <<row, receipts, now>>
        /\ Copies(robot) /\ Intended(robot) /\ Accounts(robot.st, robot)
    BY ContractAssumption
       DEF Inv, TypeOK, LogInv, Logged, Led, BridgeOffline, Robot, OrderInv, Blank
  <1>2. robot' = [[robot EXCEPT !.ready = FALSE, !.busy = FALSE] EXCEPT !.faults = @ - 1]
    BY DEF BridgeOffline, Offline
  <1>3. /\ ~robot'.ready /\ robot'.up = "up" /\ robot'.wal = robot.wal /\ robot'.st = robot.st
        /\ robot'.save = robot.save /\ robot'.orders = robot.orders /\ robot'.here = robot.here
        /\ robot'.submitted = robot.submitted
        /\ Fills(robot') = Fills(robot) /\ robot'.open = robot.open
    BY <1>1, <1>2 DEF Robot, Fills
  <1>4. Copies(robot')
    BY <1>1, <1>3, CopiesMoved DEF Linked
  <1>5. Intended(robot')
    BY <1>1, <1>3 DEF Intended
  <1>6. /\ robot.st \in Checkpoint /\ robot.st.rev >= robot.st.rev /\ IsFiniteSet(Fills(robot))
    BY <1>1, FillsFinite DEF Robot, Checkpoint
  <1>7. Accounts(robot'.st, robot')
    BY <1>1, <1>3, <1>6, AccountsSame
  <1> QED
    BY <1>1, <1>3, <1>4, <1>5, <1>7, SilentStep

(* The robot crashes.                                                      *)
LEMMA CrashOrders == Inv /\ OrderInv /\ Crash => OrderInv' /\ OrderStep
  <1> SUFFICES ASSUME Inv, OrderInv, Crash PROVE OrderInv' /\ OrderStep
    OBVIOUS
  <1>1. /\ robot \in Robot /\ Led(robot) /\ robot.faults > 0 /\ row \in Row \cup {None}
        /\ Copies(robot) /\ UNCHANGED <<row, receipts, now>> /\ robot' = Crashed(robot)
    BY DEF Inv, TypeOK, LogInv, Logged, Led, Crash, OrderInv
  <1>2. /\ Copies(robot') /\ Intended(robot') /\ robot'.orders = robot.orders
        /\ robot'.st = robot.st /\ robot'.open = robot.open /\ ~robot'.ready
        /\ robot'.up = "down" /\ Fills(robot') = Fills(robot)
    BY <1>1, CrashedCopies
  <1>3. /\ robot.st \in Checkpoint /\ robot.st.rev >= robot.st.rev /\ IsFiniteSet(Fills(robot))
    BY <1>1, FillsFinite DEF Robot, Checkpoint
  <1>4. Accounts(robot.st, robot) => Accounts(robot'.st, robot')
    BY <1>2, <1>3, AccountsSame
  <1>5. Blank(robot) => Blank(robot')
    BY <1>2 DEF Blank
  <1> QED
    BY <1>1, <1>2, <1>4, <1>5, SilentStep DEF OrderInv

(* The robot is stopped: what a blank one writes knows of no order.        *)
LEMMA OnStopOrders == Inv /\ OrderInv /\ OnStop => OrderInv' /\ OrderStep
  <1> SUFFICES ASSUME Inv, OrderInv, OnStop PROVE OrderInv' /\ OrderStep
    OBVIOUS
  <1> DEFINE p == Persist(robot)
  <1>1. /\ robot \in Robot /\ Led(robot) /\ robot.faults > 0 /\ row \in Row \cup {None}
        /\ Copies(robot) /\ Intended(robot) /\ UNCHANGED <<row, receipts, now>>
        /\ robot' = Crashed(p)
    BY DEF Inv, TypeOK, LogInv, Logged, Led, OnStop, Becomes, OrderInv
  <1>2. Led(p) /\ Body(robot, p) /\ p.st = robot.st
    BY <1>1, PersistFollows, BodyKept DEF Follows
  <1>3. CASE Accounts(robot.st, robot)
    <2>1. Carries(robot, p)
      BY <1>1, <1>3, PersistOrdered DEF Known
    <2> HIDE DEF p
    <2>2. Carries(p, robot') /\ robot'.up = "down"
      BY <1>1, <1>2, <2>1, CrashedOrdered, CrashedCopies DEF Carries, Ordered, Known, Body
    <2> QED
      BY <1>1, <2>1, <2>2, SilentStep DEF Carries, Ordered
  <1>4. CASE Blank(robot) /\ ~Accounts(robot.st, robot)
    <2>1. p = [robot EXCEPT !.wal = Fresh]
      BY <1>4 DEF Blank, Persist
    <2> HIDE DEF p
    <2>2. /\ p \in Robot /\ p.wal = Fresh /\ p.open = {} /\ p.save = robot.save
          /\ p.orders = robot.orders /\ Fills(p) = Fills(robot) /\ ~p.ready
          /\ p.up = robot.up /\ p.here = robot.here
      BY <1>1, <1>2, <1>4, <2>1 DEF Robot, Led, Blank, Fills
    <2>3. \A c \in Checkpoint : Accounts(c, robot) => Accounts(c, p)
      <3> SUFFICES ASSUME NEW c \in Checkpoint, Accounts(c, robot) PROVE Accounts(c, p)
        OBVIOUS
      <3>1. c.rev >= c.rev /\ IsFiniteSet(Fills(robot))
        BY <1>1, FS_Subset DEF Checkpoint, Copies
      <3> QED
        BY <2>2, <3>1, AccountsSame
    <2>4. /\ robot.save # None => robot.save.data \in Checkpoint
          /\ row # None => row.data \in Checkpoint
      BY <1>1 DEF Robot, Save, Row
    <2>5. Copies(p)
      BY <1>1, <2>2, <2>3, <2>4 DEF Copies
    <2>6. /\ Copies(robot') /\ Intended(robot') /\ robot'.orders = p.orders
          /\ robot'.st = p.st /\ robot'.open = p.open /\ ~robot'.ready /\ robot'.up = "down"
      BY <1>1, <1>2, <2>5, CrashedCopies DEF Body
    <2>7. Blank(robot')
      BY <1>2, <1>4, <2>2, <2>6 DEF Blank
    <2> QED
      BY <1>1, <2>2, <2>6, <2>7, SilentStep
  <1> QED
    BY <1>3, <1>4 DEF OrderInv

(* A robot that is not connected loses a copy, or a position closes.       *)
LEMMA ApartOrders ==
    ASSUME Inv, OrderInv, robot'.wal \in {robot.wal, None}, robot'.save \in {robot.save, None},
           robot'.st = robot.st, robot'.orders = robot.orders, robot'.open \subseteq robot.open,
           Fills(robot') \subseteq Fills(robot), SameLink([robot EXCEPT !.up = robot'.up], robot'),
           robot'.here = robot.here, robot'.submitted = robot.submitted,
           \/ robot'.up = robot.up /\ robot'.wal = robot.wal
           \/ robot'.up = "down" /\ ~robot.ready /\ ~robot.here,
           robot'.save = robot.save \/ ~robot.ready,
           UNCHANGED <<row, receipts, now>>
    PROVE  OrderInv' /\ OrderStep
  <1>1. /\ robot \in Robot /\ row \in Row \cup {None} /\ Copies(robot) /\ Intended(robot)
    BY DEF Inv, TypeOK, OrderInv
  <1>2. /\ robot'.ready = robot.ready /\ robot'.busy = robot.busy /\ robot'.sent = robot.sent
        /\ robot'.persisted = robot.persisted
    BY <1>1 DEF SameLink, Robot
  <1>3. Linked(robot')
    BY <1>1, <1>2 DEF Linked, Copies
  <1>4. Copies(robot')
    BY <1>1, <1>3, CopiesMoved
  <1>5. Intended(robot')
    BY <1>1, <1>2 DEF Intended
  <1>6. /\ robot.st \in Checkpoint /\ robot.st.rev >= robot.st.rev /\ IsFiniteSet(Fills(robot))
    BY <1>1, FS_Subset DEF Robot, Checkpoint, Copies
  <1>7. Accounts(robot.st, robot) => Accounts(robot'.st, robot')
    BY <1>6, AccountsSame
  <1>8. Blank(robot) => Blank(robot')
    BY <1>2 DEF Blank
  <1>9. robot'.up = "stopped" => robot'.wal # None /\ ~Valid(robot'.wal)
    BY DEF OrderInv
  <1> QED
    BY <1>4, <1>5, <1>7, <1>8, <1>9, SilentStep DEF OrderInv

(* The log is lost.                                                        *)
LEMMA LoseStorageOrders == Inv /\ OrderInv /\ LoseStorage => OrderInv' /\ OrderStep
  <1> SUFFICES ASSUME Inv, OrderInv, LoseStorage PROVE OrderInv' /\ OrderStep
    OBVIOUS
  <1>1. robot \in Robot /\ ~robot.ready /\ ~robot.here
    BY DEF Inv, TypeOK, OrderInv, Copies, LoseStorage
  <1>2. /\ robot'.wal = None /\ robot'.save = robot.save /\ robot'.st = robot.st
        /\ robot'.orders = robot.orders /\ robot'.open = robot.open
        /\ Fills(robot') = Fills(robot) /\ SameLink([robot EXCEPT !.up = robot'.up], robot')
        /\ robot'.here = robot.here /\ robot'.submitted = robot.submitted /\ robot'.up = "down"
    BY <1>1 DEF LoseStorage, Robot, Fills, SameLink
  <1> QED
    BY <1>1, <1>2, ApartOrders DEF LoseStorage

(* A new session forgets what was not read.                                *)
LEMMA HelloOrders == Inv /\ OrderInv /\ Hello => OrderInv' /\ OrderStep
  <1> SUFFICES ASSUME Inv, OrderInv, Hello PROVE OrderInv' /\ OrderStep
    OBVIOUS
  <1>1. robot \in Robot /\ ~robot.ready /\ robot.up = "up"
    BY DEF Inv, TypeOK, Hello
  <1>2. /\ robot'.wal = robot.wal /\ robot'.save = None /\ robot'.st = robot.st
        /\ robot'.orders = robot.orders /\ robot'.open = robot.open
        /\ Fills(robot') = Fills(robot) /\ SameLink([robot EXCEPT !.up = robot'.up], robot')
        /\ robot'.here = robot.here /\ robot'.submitted = robot.submitted /\ robot'.up = robot.up
    BY <1>1 DEF Hello, Robot, Fills, SameLink
  <1> QED
    BY <1>1, <1>2, ApartOrders DEF Hello

(* A position closes.                                                      *)
LEMMA PositionClosesOrders ==
    ASSUME Inv, OrderInv, NEW l \in robot.open, PositionCloses(l)
    PROVE  OrderInv' /\ OrderStep
  <1>1. robot \in Robot
    BY DEF Inv, TypeOK
  <1> DEFINE Same == /\ robot'.wal = robot.wal /\ robot'.save = robot.save /\ robot'.st = robot.st
                     /\ robot'.orders = robot.orders /\ robot'.open \subseteq robot.open
                     /\ Fills(robot') \subseteq Fills(robot)
                     /\ SameLink([robot EXCEPT !.up = robot'.up], robot')
                     /\ robot'.here = robot.here /\ robot'.submitted = robot.submitted
                     /\ robot'.up = robot.up
  <1>2. CASE robot' = [robot EXCEPT !.open = @ \ {l}, !.bare = @ \ {l}, !.won = @ \cup {l}]
    <2>1. Same
      BY <1>1, <1>2 DEF Robot, Fills, SameLink
    <2> QED
      BY <2>1, ApartOrders DEF PositionCloses
  <1>3. CASE robot' = [robot EXCEPT !.open = @ \ {l}, !.bare = @ \ {l}, !.lost = @ \cup {l}]
    <2>1. Same
      BY <1>1, <1>3 DEF Robot, Fills, SameLink
    <2> QED
      BY <2>1, ApartOrders DEF PositionCloses
  <1> QED
    BY <1>2, <1>3 DEF PositionCloses

(* The bridge records the intent of a save; a robot that waited for it has *)
(* it in the row then.                                                     *)
LEMMA BridgeSavesOrders == Inv /\ OrderInv /\ BridgeSaves => OrderInv' /\ OrderStep
  <1> SUFFICES ASSUME Inv, OrderInv, BridgeSaves PROVE OrderInv' /\ OrderStep
    OBVIOUS
  <1> DEFINE s == robot.save
             l == robot.save.data.pending
  <1>1. /\ robot \in Robot /\ s \in Save /\ s # None /\ s.rev \in 0 .. MaxRev
        /\ s.data \in Checkpoint /\ receipts[s.rev] = None /\ s.data.rev = s.rev
    BY SaveIsNew DEF BridgeSaves, Save, Inv, TypeOK, LogInv, Logged
  <1>2. /\ Copies(robot) /\ Intended(robot) /\ Accounts(s.data, robot) /\ now' = now
    BY <1>1 DEF OrderInv, Copies, BridgeSaves
  <1>3. /\ row'.data = s.data /\ row' # None
        /\ receipts \in [0 .. MaxRev -> [base : Nat, data : Checkpoint, version : Nat] \cup {None}]
        /\ \A n \in 0 .. MaxRev : n # s.rev => receipts'[n] = receipts[n]
        /\ receipts'[s.rev].data = s.data /\ receipts'[s.rev] # None
    <2>1. receipts \in [0 .. MaxRev -> [base : Nat, data : Checkpoint, version : Nat] \cup {None}]
      BY DEF Inv, TypeOK
    <2>2. Store!RowVersion \in Nat
      BY DEF Inv, TypeOK, Row, Store!RowVersion
    <2> DEFINE e == [base |-> s.base, data |-> s.data, version |-> Store!RowVersion + 1]
               w == [version |-> Store!RowVersion + 1, rev |-> s.rev, data |-> s.data]
    <2>3. row' = w /\ receipts' = [receipts EXCEPT ![s.rev] = e]
      BY SaveStored
    <2>4. w \in Row /\ w.data = s.data /\ e.data = s.data
      BY <1>1, <2>2 DEF Row, Save
    <2>5. w # None
      BY <2>4, NoneAssumption
    <2>6. e # None
      <3>1. e \in [base : Nat, data : Checkpoint, version : Nat]
        BY <1>1, <2>2 DEF Save
      <3> HIDE DEF e
      <3> QED
        BY <3>1, NoneAssumption
    <2> HIDE DEF e, w
    <2> QED
      BY <1>1, <2>1, <2>3, <2>4, <2>5, <2>6
  <1>4. /\ robot'.wal = robot.wal /\ robot'.save = None /\ robot'.st = robot.st
        /\ robot'.orders = robot.orders /\ robot'.open = robot.open
        /\ Fills(robot') = Fills(robot) /\ SameLink(robot, robot')
        /\ robot'.here = robot.here /\ robot'.submitted = robot.submitted
    BY <1>1 DEF BridgeSaves, Robot, Fills, SameLink
  <1> HIDE DEF s, l
  <1>5. Intents' = Intents \cup ({l} \ {None})
    BY <1>1, <1>3 DEF Intents, l, s
  <1>6. \A c \in Checkpoint : Accounts(c, robot) => Accounts(c, robot')
    <2> SUFFICES ASSUME NEW c \in Checkpoint, Accounts(c, robot) PROVE Accounts(c, robot')
      OBVIOUS
    <2>1. c.rev >= c.rev /\ IsFiniteSet(Fills(robot))
      BY <1>2, FS_Subset DEF Checkpoint, Copies
    <2> QED
      BY <1>4, <2>1, AccountsSame
  <1>7. \A c : Accounts(c, robot)' <=> Accounts(c', robot')
    BY <1>2 DEF Accounts, Counted, Bounded, Valid, Fills
  <1>8. l # None => l \in Label
    BY <1>1 DEF Checkpoint, l, s
  <1>9. Copies(robot)'
    <2>1. (robot.wal # None => Accounts(robot.wal, robot)
                                  \/ (robot.wal = Fresh /\ robot.open = {}))'
      <3>1. robot.wal # None => /\ robot.wal \in Checkpoint
                                /\ \/ Accounts(robot.wal, robot)
                                   \/ robot.wal = Fresh /\ robot.open = {}
        BY <1>1, <1>2 DEF Robot, Copies
      <3>2. robot'.wal # None => \/ Accounts(robot'.wal, robot')
                                 \/ robot'.wal = Fresh /\ robot'.open = {}
        BY <1>4, <1>6, <3>1
      <3> QED
        BY <3>2, <1>2 DEF Accounts, Counted, Bounded, Valid, Fills, Fresh
    <2>2. Accounts(row.data, robot)'
      <3>1. Accounts(row'.data, robot')
        BY <1>1, <1>2, <1>3, <1>6
      <3> QED
        BY <3>1, <1>2 DEF Accounts, Counted, Bounded, Valid, Fills
    <2>3. row'.data.pending \in Intents' \cup {None}
      BY <1>3, <1>5 DEF l, s
    <2>4. /\ robot'.orders \subseteq Intents' /\ IsFiniteSet(robot'.orders)
          /\ Fills(robot') \subseteq robot'.orders
      BY <1>2, <1>4, <1>5 DEF Copies
    <2>5. /\ robot'.ready => robot'.persisted <= robot'.st.rev
          /\ robot'.ready /\ robot'.busy => /\ robot'.persisted < robot'.sent
                                          /\ robot'.sent <= robot'.st.rev
          /\ robot'.up # "up" => ~robot'.ready /\ ~robot'.here
      BY <1>2, <1>4 DEF Copies, SameLink
    <2>6. (Fills(robot) \subseteq robot.orders)'
      BY <2>4 DEF Fills
    <2> QED
      BY <1>4, <2>1, <2>2, <2>3, <2>4, <2>5, <2>6 DEF Copies
  <1>10. Intended(robot)'
    <2>1. robot.ready => robot.busy /\ robot.sent = s.rev
      BY <1>1, <1>2 DEF Inv, SaveInv, Saved, Copies, s
    <2>2. robot.ready => robot.persisted < robot.sent /\ robot.sent <= robot.st.rev
      BY <1>2, <2>1 DEF Copies
    <2>3. robot.ready => robot.persisted \in Nat /\ robot.sent \in Nat /\ robot.st.rev \in Nat
      BY <1>1 DEF Robot, Checkpoint
    <2>4. robot.ready => ~(robot.persisted >= robot.st.rev)
      BY <2>2, <2>3
    <2> QED
      BY <1>1, <1>2, <1>3, <1>4, <2>1, <2>4 DEF Intended, SameLink, s
  <1>11. (Accounts(robot.st, robot) \/ Blank(robot))'
    <2>1. robot.st \in Checkpoint
      BY <1>1 DEF Robot
    <2>2. Accounts(robot'.st, robot') \/ Blank(robot')
      BY <1>4, <1>6, <2>1 DEF OrderInv, Blank, SameLink
    <2> QED
      BY <1>2, <2>2 DEF Accounts, Counted, Bounded, Valid, Fills, Blank, Fresh
  <1>12. (robot.up = "stopped" => robot.wal # None /\ ~Valid(robot.wal))'
    BY <1>4 DEF OrderInv, SameLink, Valid
  <1>13. OrderInv'
    BY <1>9, <1>10, <1>11, <1>12 DEF OrderInv
  <1>14. OrderStep
    <2>1. CASE l \in Intents \cup {None}
      BY <1>4, <1>5, <2>1 DEF OrderStep, WAL!ivars
    <2>2. CASE l \notin Intents \cup {None}
      <3>1. l \in Label /\ l[3] <= s.rev
        BY <1>1, <1>2, <1>8, <2>2 DEF Accounts, Bounded, l, s
      <3>2. l[3] \in 1 .. MaxRev
        BY <1>1, <3>1, ContractAssumption DEF Label
      <3>3. l \in (1 .. MaxTime) \X Stage \X (1 .. MaxRev)
        BY <3>1, <3>2 DEF Label
      <3>4. WAL!Record(l)
        BY <1>4, <1>5, <2>2 DEF WAL!Record
      <3>5. l \in Intents' \ Intents
        BY <1>5, <2>2
      <3> QED
        BY <3>3, <3>4, <3>5 DEF OrderStep, WAL!INext
    <2> QED
      BY <2>1, <2>2
  <1> QED
    BY <1>13, <1>14

(* Time passes: what may be added to a basket only ends.                   *)
LEMMA TickOrders == Inv /\ OrderInv /\ Tick => OrderInv' /\ OrderStep
  <1> SUFFICES ASSUME Inv, OrderInv, Tick PROVE OrderInv' /\ OrderStep
    OBVIOUS
  <1>1. /\ robot \in Robot /\ row \in Row \cup {None} /\ now \in Nat /\ now' = now + 1
        /\ UNCHANGED <<robot, row, receipts>> /\ AddTime \in Nat
    BY ContractAssumption DEF Inv, TypeOK, Tick
  <1>2. Intents' = Intents
    BY <1>1 DEF Intents
  <1> DEFINE Later(c) ==
        /\ Bounded(c)
        /\ \/ c.quarantined
           \/ /\ Valid(c)
              /\ \A l \in robot.orders : l[1] <= c.signal
              /\ c.basket # None =>
                    /\ c.basket.at <= c.signal
                    /\ \A l \in robot.orders : l[1] = c.basket.at => l[3] <= c.basket.seq
                    /\ now' > c.basket.at + AddTime \/ Counted(c, Fills(robot))
  <1>3. \A c \in Checkpoint : Accounts(c, robot) => Later(c)
    <2> SUFFICES ASSUME NEW c \in Checkpoint, Accounts(c, robot) PROVE Later(c)
      OBVIOUS
    <2>1. c.basket # None => c.basket.at \in Nat
      BY DEF Checkpoint, Basket
    <2>2. c.basket # None /\ now > c.basket.at + AddTime => now' > c.basket.at + AddTime
      BY <1>1, <2>1
    <2> QED
      BY <2>2 DEF Accounts
  <1>4. /\ robot.st \in Checkpoint
        /\ robot.wal # None => robot.wal \in Checkpoint
        /\ robot.save # None => robot.save.data \in Checkpoint
        /\ row # None => row.data \in Checkpoint
    BY <1>1 DEF Robot, Save, Row
  <1>5. /\ robot.wal # None => Later(robot.wal) \/ (robot.wal = Fresh /\ robot.open = {})
        /\ robot.save # None => Later(robot.save.data)
        /\ row # None => Later(row.data)
        /\ Later(robot.st) \/ Blank(robot)
    BY <1>3, <1>4 DEF OrderInv, Copies
  <1>6. Copies(robot)'
    <2>1. /\ (robot.wal # None => Accounts(robot.wal, robot)
                                     \/ (robot.wal = Fresh /\ robot.open = {}))'
          /\ (robot.save # None => Accounts(robot.save.data, robot))'
          /\ (row # None => Accounts(row.data, robot))'
      BY <1>1, <1>5 DEF Accounts, Counted, Bounded, Valid, Fills, Fresh
    <2>2. (Fills(robot) \subseteq robot.orders)'
      BY <1>1 DEF OrderInv, Copies, Fills
    <2> QED
      BY <1>1, <1>2, <2>1, <2>2 DEF OrderInv, Copies
  <1>7. Intended(robot)'
    BY <1>1 DEF OrderInv, Intended
  <1>8. (Accounts(robot.st, robot) \/ Blank(robot))'
    BY <1>1, <1>5 DEF Accounts, Counted, Bounded, Valid, Fills, Blank, Fresh
  <1>9. (robot.up = "stopped" => robot.wal # None /\ ~Valid(robot.wal))'
    BY <1>1 DEF OrderInv, Valid
  <1>10. OrderStep
    BY <1>1, <1>2 DEF OrderStep, WAL!ivars
  <1> QED
    BY <1>6, <1>7, <1>8, <1>9, <1>10 DEF OrderInv

(* A step that leaves the robot, the bridge and time.                      *)
LEMMA UntouchedOrders ==
    ASSUME OrderInv, UNCHANGED <<robot, row, receipts, now>>
    PROVE  OrderInv' /\ OrderStep
  BY SilentStep DEF OrderInv

(* Every step keeps the invariant, and is a step of WriteAheadIntent.      *)
LEMMA NextOrders == Inv /\ OrderInv /\ [Next]_vars => OrderInv' /\ OrderStep
  <1> SUFFICES ASSUME Inv, OrderInv, [Next]_vars PROVE OrderInv' /\ OrderStep
    OBVIOUS
  <1>1. CASE OnStart
    BY <1>1, OnStartOrders
  <1>2. CASE ReceiveReady
    BY <1>2, ReceiveReadyOrders
  <1>3. CASE BridgeOffline
    BY <1>3, BridgeOfflineOrders
  <1>4. CASE Crash
    BY <1>4, CrashOrders
  <1>5. CASE LoseStorage
    BY <1>5, LoseStorageOrders
  <1>6. ASSUME NEW verdict \in Verdict, ReceiveAck(verdict)
        PROVE  OrderInv' /\ OrderStep
    BY <1>6, ReceiveAckOrders
  <1>7. ASSUME NEW verdict \in Verdict, NEW wanted \in (0 .. MaxWanted) \cup {None},
               Cycle(wanted, verdict)
        PROVE  OrderInv' /\ OrderStep
    BY <1>7, CycleOrders
  <1>8. CASE Hello
    BY <1>8, HelloOrders
  <1>9. CASE BridgeSaves
    BY <1>9, BridgeSavesOrders
  <1>10. CASE Tick
    BY <1>10, TickOrders
  <1>11. ASSUME NEW l \in robot.open, PositionCloses(l)
         PROVE  OrderInv' /\ OrderStep
    BY <1>11, PositionClosesOrders
  <1>12. ASSUME NEW l \in Closed(robot), HistoryShows(l)
         PROVE  OrderInv' /\ OrderStep
    BY <1>12, UntouchedOrders DEF HistoryShows
  <1>13. CASE UNCHANGED vars
    BY <1>13, UntouchedOrders DEF vars
  <1>14. CASE OnStop
    BY <1>14, OnStopOrders
  <1> QED
    BY <1>1, <1>2, <1>3, <1>4, <1>5, <1>6, <1>7, <1>8, <1>9, <1>10, <1>11, <1>12, <1>13, <1>14
       DEF Next
-----------------------------------------------------------------------------
(* The types, for any contract, bounds and faults.                         *)
THEOREM TypeCorrect == Spec => []TypeOK
  <1>1. Inv => TypeOK
    BY DEF Inv
  <1> QED
    BY <1>1, InitInv, NextKeeps, PTL DEF Spec

(* The local log of a connected robot is never behind the bridge.          *)
THEOREM LogLeadsHolds == Spec => []LogLeads
  <1>1. Inv => LogLeads
    BY DEF Inv, LogInv, Logged, LogLeads
  <1> QED
    BY <1>1, InitInv, NextKeeps, PTL DEF Spec

(* A save of a robot that works alone is never refused.                    *)
THEOREM SavesAreTakenHolds == Spec => []SavesAreTaken
  <1>1. Inv => SavesAreTaken
    <2> SUFFICES ASSUME Inv, robot.save # None
                 PROVE  /\ receipts[robot.save.rev] = None
                        /\ Store!Current(robot.save.base, robot.save.rev)
      BY DEF SavesAreTaken
    <2> QED
      BY SaveIsNew
  <1> QED
    BY <1>1, InitInv, NextKeeps, PTL DEF Spec

(* An order goes to the broker only for an intent that the bridge has      *)
(* stored, and once: the robot and its bridge implement WriteAheadIntent.  *)
THEOREM OrdersAreRecordedHolds == Spec => OrdersAreRecorded
  <1>1. Init => WAL!IInit
    BY InitOrders
  <1>2. Inv /\ OrderInv /\ [Next]_vars => [WAL!INext]_(WAL!ivars)
    BY NextOrders DEF OrderStep
  <1> QED
    BY <1>1, <1>2, InitInv, NextKeeps, InitOrders, NextOrders, PTL
       DEF Spec, OrdersAreRecorded, WAL!ISpec

(* A connected robot that may still add to its basket has counted what was *)
(* filled in it: what it has not counted is its intent, which is not sent. *)
THEOREM FillsAreCountedHolds == Spec => []FillsAreCounted
  <1>1. Inv /\ OrderInv => FillsAreCounted
    <2> DEFINE b == robot.st.basket
    <2> SUFFICES ASSUME Inv, OrderInv, robot.ready, ~robot.st.quarantined, b # None,
                        now <= b.at + AddTime, NEW s \in Stage
                 PROVE  Cardinality({l \in Fills(robot) : l[1] = b.at /\ l[2] = s})
                            <= b.accepted[s]
      BY DEF FillsAreCounted
    <2>1. robot.st \in Checkpoint /\ b.at \in Nat /\ now \in Nat /\ AddTime \in Nat
      <3>1. robot.st \in Checkpoint /\ now \in 1 .. MaxTime
        BY DEF Inv, TypeOK, Robot
      <3>2. b.at \in 1 .. MaxTime
        BY <3>1 DEF Checkpoint, Basket
      <3> QED
        BY <3>1, <3>2, ContractAssumption
    <2>2. Counted(robot.st, Fills(robot))
      BY <2>1 DEF OrderInv, Accounts, Blank
    <2>3. None \notin Label /\ robot.open \cup robot.won \cup robot.lost \subseteq Label
      BY NoneAssumption DEF Inv, TypeOK, Robot
    <2>4. robot.st.pending \notin Fills(robot)
      BY <2>3 DEF OrderInv, Intended, Copies, Fills
    <2>5. {l \in Fills(robot) : l[1] = b.at /\ l[2] = s /\ l # robot.st.pending}
              = {l \in Fills(robot) : l[1] = b.at /\ l[2] = s}
      BY <2>4
    <2> QED
      BY <2>2, <2>5 DEF Counted
  <1> QED
    BY <1>1, InitInv, NextKeeps, InitOrders, NextOrders, PTL DEF Spec

(* Only a quarantined robot refuses to start from its own log.             *)
THEOREM RefusesOnlyQuarantinedHolds == Spec => []RefusesOnlyQuarantined
  <1>1. OrderInv => RefusesOnlyQuarantined
    BY DEF OrderInv, Copies, Accounts, Fresh, Valid, RefusesOnlyQuarantined
  <1> QED
    BY <1>1, InitInv, NextKeeps, InitOrders, NextOrders, PTL DEF Spec
=============================================================================
