-------------------------- MODULE CheckpointRobot ---------------------------
(***************************************************************************)
(* A trading robot (RizanRobot.cs of xau-stable-v1.2.1) that works from a  *)
(* checkpoint: in its memory, in the local storage of its instance (the    *)
(* write-ahead log) and at the bridge, whose store is CheckpointStore.     *)
(* The robot crashes and is started again, the connection breaks, answers  *)
(* are lost, and the broker fills, refuses, leaves unprotected or closes.  *)
(*                                                                         *)
(* Every callback runs to its end on the main thread of the robot, so each *)
(* is one action.  It is put together from the methods it calls: operators *)
(* from the robot in the middle of a callback to the robot after it, or to *)
(* the set of robots the broker's answer leaves.  A crash in the middle    *)
(* matters only where the broker has been called, see SendOrder.           *)
(*                                                                         *)
(* Prices, budgets and signals decide nondeterministically; a batch is one *)
(* child; a position is never closed in part.  How long a robot trusts its *)
(* connection is the business of BridgeSession.  A robot without a bridge  *)
(* and the new reference price of a first child (XauSendReference.Refresh, *)
(* which may change how many are left to send) are left out.               *)
(***************************************************************************)
EXTENDS Naturals, FiniteSets, FiniteSetsExt, Folds

CONSTANTS None,       \* no value: no basket, no label, no message
          Stages,     \* stages of a basket
          MaxWanted,  \* children a stage may want
          AddTime, HoldTime, Cooldown,   \* the times of the contract
          MaxTime,    \* bound: the last point in time
          MaxRev,     \* bound: the largest revision
          MaxFaults,  \* bound: crashes and broken connections
          Losable     \* whether the local storage can be lost

ASSUME ContractAssumption ==
    /\ {Stages, MaxTime} \subseteq Nat \ {0}
    /\ {MaxWanted, AddTime, HoldTime, Cooldown, MaxRev, MaxFaults} \subseteq Nat
    /\ AddTime <= HoldTime
    /\ Losable \in BOOLEAN

VARIABLES robot,  \* the robot, its storage and its account at the broker
          row, receipts,  \* the tables of the bridge
          mail,   \* the answer of the bridge on its way to the robot
          settled,  \* labels whose closing the history of the account shows
          now

vars == <<robot, row, receipts, mail, settled, now>>

Stage == 0 .. Stages - 1
Label == (1 .. MaxTime) \X Stage \X (Nat \ {0})     \* basket, stage, sequence

Basket == [at : 1 .. MaxTime,            \* AtUtc, the basket's identity
           queue : Stage \cup {None},    \* QueueStage
           left : Nat,                   \* QueueRemaining
           next : 0 .. Stages, seq : Nat, accepted : [Stage -> Nat]]

Checkpoint == [rev : Nat, signal : Nat, exit : Nat, resume : Nat, quarantined : BOOLEAN,
               pending : Label \cup {None}, basket : Basket \cup {None}]

Save == [base : Nat, rev : Nat, data : Checkpoint]

Closed(r) == r.won \cup r.lost \cup r.returned

Robot == [up : {"down", "up", "stopped"}, st : Checkpoint,
          wal : Checkpoint \cup {None}, save : Save \cup {None},
          ready : BOOLEAN, busy : BOOLEAN,
          persisted : Nat, remote : Nat, sent : Nat,
          here : BOOLEAN, submitted : BOOLEAN,
          open : SUBSET Label, bare : SUBSET Label,
          won : SUBSET Label, lost : SUBSET Label,
          returned : SUBSET Label,   \* filled and closed at once
          orders : SUBSET Label,
          faults : 0 .. MaxFaults]   \* still to come

Row  == [version : Nat, rev : Nat, data : Checkpoint]
Mail == [type : {"ready"}, version : Nat, data : Checkpoint \cup {None}]
        \cup [type : {"ack"}, version : Nat, rev : Nat]

ASSUME NoneAssumption ==
    None \notin Stage \cup Label \cup Basket \cup Checkpoint \cup Save \cup Row \cup Mail
             \cup [base : Nat, data : Checkpoint, version : Nat]

TypeOK == /\ robot \in Robot
          /\ settled \subseteq Closed(robot)
          /\ row \in Row \cup {None}
          /\ receipts \in [0 .. MaxRev ->
                 [base : Nat, data : Checkpoint, version : Nat] \cup {None}]
          /\ mail \in Mail \cup {None}
          /\ now \in 1 .. MaxTime

Fresh == [rev |-> 0, signal |-> 0, exit |-> 0, resume |-> 0, quarantined |-> FALSE,
          pending |-> None, basket |-> None]

Init == /\ robot = [up |-> "down", st |-> Fresh, wal |-> None, save |-> None,
                    ready |-> FALSE, busy |-> FALSE,
                    persisted |-> 0, remote |-> 0, sent |-> 0,
                    here |-> FALSE, submitted |-> FALSE,
                    open |-> {}, bare |-> {}, won |-> {}, lost |-> {},
                    returned |-> {}, orders |-> {}, faults |-> MaxFaults]
        /\ row = None /\ receipts = [r \in 0 .. MaxRev |-> None]
        /\ mail = None /\ settled = {} /\ now = 1
-----------------------------------------------------------------------------
(* Small methods.  r is the robot in the middle of a callback.             *)

AcceptedSum(b) == FoldFunction(+, 0, b.accepted)

Changed(r) == [r EXCEPT !.st.rev = @ + 1]

(* A fault for the mutation check: the log is not written when a save goes *)
(* to the bridge.                                                          *)
Persist_BridgeOnly(r) ==
    IF r.ready /\ ~r.busy /\ r.st.rev > r.persisted
    THEN [r EXCEPT !.busy = TRUE, !.sent = r.st.rev,
                   !.save = [base |-> r.remote, rev |-> r.st.rev, data |-> r.st]]
    ELSE [r EXCEPT !.wal = r.st]

(* LocalStorage is written first; one save at a time goes to the bridge.   *)
Persist(r) ==
    LET w == [r EXCEPT !.wal = r.st]
    IN  IF r.ready /\ ~r.busy /\ r.st.rev > r.persisted
        THEN [w EXCEPT !.busy = TRUE, !.sent = r.st.rev,
                       !.save = [base |-> r.remote, rev |-> r.st.rev, data |-> r.st]]
        ELSE w

(* A fault for the mutation check: the acknowledgement is not waited for.  *)
Durable_LocalOnly(r) == r.ready

(* What is in memory is at the bridge.                                     *)
Durable(r) == r.ready /\ r.persisted >= r.st.rev

Quarantine(r) == Persist(Changed([r EXCEPT !.st.quarantined = TRUE]))

ClearPending(r) == [r EXCEPT !.here = FALSE, !.submitted = FALSE, !.st.pending = None]

(* A fault for the mutation check: the intent stays when its queue goes.   *)
CancelQueue_KeepsPending(r) ==
    IF r.st.basket = None THEN r
    ELSE Changed([r EXCEPT !.st.basket.left = 0, !.st.basket.queue = None])

(* A quarantined robot keeps its intent for the operator.                  *)
CancelQueue(r) ==
    IF r.st.basket = None THEN r
    ELSE LET q == [r EXCEPT !.st.basket.left = 0, !.st.basket.queue = None]
         IN  Changed(IF r.st.quarantined THEN q ELSE ClearPending(q))

(* XauBatchExecution.Accept for one child.                                 *)
Accept(r, stage) ==
    LET b    == r.st.basket
        done == b.left = 1
    IN  [r EXCEPT !.st.basket =
            [b EXCEPT !.accepted[stage] = @ + 1, !.left = @ - 1,
                      !.next  = IF done /\ @ < stage + 1 THEN stage + 1 ELSE @,
                      !.queue = IF done THEN None ELSE @]]

(* What a position says of itself is enough to leave it in time.           *)
RecoverExposureForExitOnly(r) ==
    IF r.open = {} THEN {r}
    ELSE {[r EXCEPT !.st.basket = [at |-> l[1], queue |-> None, left |-> 0, next |-> Stages,
                                   seq |-> 0, accepted |-> [s \in Stage |-> 0]]] : l \in r.open}

(* ValidateState, CHECKPOINT_BATCH_INTENT_INVALID.                         *)
Valid(s) ==
    s.pending # None =>
        /\ s.basket # None
        /\ s.basket.left >= 1
        /\ s.pending = <<s.basket.at, s.basket.queue, s.basket.seq>>
-----------------------------------------------------------------------------
(* A fault for the mutation check: an intent that is not found is dropped. *)
RecoverAttempt_Drops(r) ==
    IF r.st.pending = None \/ r.st.basket = None THEN {r}
    ELSE IF r.st.pending \in r.open \cup settled
         THEN {Changed(ClearPending(Accept(r, r.st.pending[2])))}
         ELSE {Changed(ClearPending(r))}

(* A position of the pending label, found at the broker after a restart or *)
(* a reconnect, is accounted for; one that is not found is never retried.  *)
RecoverAttempt(r) ==
    IF r.st.pending = None \/ r.st.basket = None THEN {r}
    ELSE LET l == r.st.pending
             b == r.st.basket
         IN  IF l \notin r.open \cup settled \/ b.left < 1 \/ b.queue # l[2]
             THEN {Quarantine(r)}
             ELSE LET a == Changed(ClearPending(Accept(r, l[2])))
                  IN  {Quarantine(r),           \* another volume or entry
                       a, Quarantine(a)} \cup   \* within the budget, or not
                      IF l \in r.open
                      THEN {Quarantine([r EXCEPT !.bare = @ \cup {l}]),
                            [Quarantine(r) EXCEPT !.open = @ \ {l}, !.bare = @ \ {l},
                                                  !.returned = @ \cup {l}]}
                      ELSE {}

Mismatch(r) ==
    LET b == r.st.basket
    IN  \/ \E l \in r.open : l[1] # b.at \/ l[3] > b.seq
        \/ \E s \in Stage : Cardinality({l \in r.open : l[2] = s}) > b.accepted[s]

ReconcileExposure(r) ==
    IF r.open = {} THEN {r}
    ELSE IF r.st.basket = None THEN RecoverExposureForExitOnly(Quarantine(r))
         ELSE IF Mismatch(r) THEN {Quarantine(r)} ELSE {r}

Reconciled(r) ==
    {Persist(Changed(y)) : y \in UNION {ReconcileExposure(x) : x \in RecoverAttempt(r)}}
-----------------------------------------------------------------------------
(* ProcessQueue.  Its verdict is of geometry, spread, volume and budget, or *)
(* to wait: trading is off, others hold positions, an order was just sent. *)

Verdict == {"wait", "unfit", "fit"}

Queued(r) == /\ r.st.basket # None
             /\ r.st.basket.queue # None /\ r.st.basket.left > 0
             /\ ~r.st.quarantined

TooLate(b) == \/ now >= b.at + HoldTime
              \/ b.queue = 0 /\ now > b.at
              \/ b.queue > 0 /\ now > b.at + AddTime

Prepare(r) ==
    LET b == r.st.basket
        p == [r EXCEPT !.here = TRUE, !.submitted = FALSE, !.st.basket.seq = @ + 1,
                       !.st.pending = <<b.at, b.queue, b.seq + 1>>]
    IN  Persist(Changed(p))

Crashed(r) == [r EXCEPT !.up = "down", !.faults = @ - 1,
                        !.ready = FALSE, !.busy = FALSE, !.here = FALSE,
                        !.submitted = FALSE, !.persisted = 0]

(* ExecuteMarketOrder and all that follows: refused, filled and protected, *)
(* filled but not protected (closed, or closing fails), beyond the budget  *)
(* (the same two).  Or the robot crashes with the order on its way.        *)
SendOrder(r) ==
    LET l == r.st.pending
        s == [r EXCEPT !.submitted = TRUE, !.orders = @ \cup {l}]
        filled == [s EXCEPT !.open = @ \cup {l}]
        shut   == [s EXCEPT !.returned = @ \cup {l}]
    IN  {Quarantine(s), Quarantine(filled),
         Persist(Changed(ClearPending(Accept(filled, l[2])))),
         Quarantine([filled EXCEPT !.bare = @ \cup {l}]),
         Quarantine(shut),
         Persist(Changed(CancelQueue(ClearPending(shut))))}
        \cup IF r.faults > 0 THEN {Crashed(s), Crashed(filled)} ELSE {}

ProcessQueue(r, verdict) ==
    IF ~Queued(r) \/ verdict = "wait" THEN {r}
    ELSE LET b == r.st.basket
         IN  IF TooLate(b) \/ (b.queue > 0 /\ r.open = {}) \/ verdict = "unfit"
             THEN {CancelQueue(r)}
             ELSE LET p == IF r.st.pending = None THEN Prepare(r) ELSE r
                  IN  IF Durable(p) THEN SendOrder(p) ELSE {p}
-----------------------------------------------------------------------------
(* ManagePositions.                                                        *)

(* Each position that is bare is protected, or closed, or stays bare; each *)
(* one that has expired is closed or stays.                                *)
Expired(b) == now >= b.at + HoldTime

Treat(r, old, c, p, loss) ==
    LET t == [r EXCEPT !.open = @ \ c, !.bare = @ \ (c \cup p),
                       !.won = @ \cup (c \ loss), !.lost = @ \cup (c \cap loss)]
    IN  IF old /\ t.open # {} THEN Quarantine(t) ELSE t

Treated(r) ==
    IF r.st.basket = None \/ r.open = {} THEN {r}
    ELSE LET old == Expired(r.st.basket)
             q   == IF r.bare # {} THEN Quarantine(r) ELSE r
         IN  {Treat(q, old, c, p, loss) :
                 c \in SUBSET (IF old THEN r.open ELSE r.open \cap r.bare),
                 p \in SUBSET r.bare, loss \in SUBSET r.open}

InBasket(S, b) == {l \in S : l[1] = b.at}

(* The basket is over: its loss, once the history shows all of it, starts  *)
(* the cooldown.                                                           *)
Settled(r) ==
    LET b == r.st.basket
    IN  Changed([r EXCEPT !.st.exit = now, !.st.basket = None,
            !.st.resume = IF AcceptedSum(b) > 0
                             /\ Cardinality(InBasket(r.lost \cap settled, b))
                                  > Cardinality(InBasket(r.won \cap settled, b))
                          THEN now + Cooldown ELSE @])

Finish(r) ==
    LET b == r.st.basket
    IN  IF AcceptedSum(b) > 0 /\ Cardinality(InBasket(settled, b)) # AcceptedSum(b)
        THEN r
        ELSE Settled(r)

Ended(r) == /\ r.open = {}
            /\ \/ AcceptedSum(r.st.basket) > 0
               \/ r.st.basket.queue = None
               \/ Expired(r.st.basket)

Concluded(r) ==
    IF r.st.basket = None THEN r
    ELSE LET b == r.st.basket
             t == IF now > b.at + AddTime THEN CancelQueue(r) ELSE r
         IN  IF ~Ended(t) THEN t
             ELSE Finish(IF t.st.pending = None THEN t
                         ELSE IF t.here /\ ~t.submitted THEN CancelQueue(t)
                         ELSE Quarantine(t))

ManagePositions(r) ==
    LET known == IF r.st.basket = None /\ r.open # {}
                 THEN RecoverExposureForExitOnly(Quarantine(r)) ELSE {r}
    IN  {Concluded(t) : t \in UNION {Treated(k) : k \in known}}
-----------------------------------------------------------------------------
(* A completed bar: a stage may be added, a signal may start a basket.     *)

(* A fault for the mutation check: the stage after the next is noted.      *)
QueueStage_Skips(r, wanted) ==
    LET s == r.st.basket.next
    IN  Changed([r EXCEPT !.st.basket.queue = IF wanted = 0 THEN None ELSE s,
                          !.st.basket.left = wanted, !.st.basket.next = s + 2])

QueueStage(r, wanted) ==
    LET s == r.st.basket.next
    IN  Changed([r EXCEPT !.st.basket.queue = IF wanted = 0 THEN None ELSE s,
                          !.st.basket.left = wanted, !.st.basket.next = s + 1])

Adds(r) == /\ r.st.basket # None
           /\ r.open # {} /\ r.st.basket.queue = None
           /\ r.st.basket.next < Stages /\ now <= r.st.basket.at + AddTime

PrepareBasket(r, wanted) ==
    LET s == Changed([r EXCEPT !.st.signal = now])
    IN  IF wanted = 0 THEN s
        ELSE Changed([s EXCEPT !.st.basket =
                 [at |-> now, queue |-> 0, left |-> wanted, next |-> 1, seq |-> 0,
                  accepted |-> [x \in Stage |-> 0]]])

MayStart(r) == /\ r.st.basket = None /\ ~r.st.quarantined
               /\ now > r.st.signal /\ now > r.st.exit /\ now >= r.st.resume

(* A bar that decides nothing only raises the revision and is left out.    *)
Bar(r, wanted) ==
    LET a == IF Adds(r) THEN QueueStage(r, wanted) ELSE r
        b == Changed(a)
    IN  IF MayStart(b) THEN PrepareBasket(b, wanted) ELSE b
-----------------------------------------------------------------------------
(* The callbacks.  The bound on the revision is on what they leave.        *)

Becomes(S) == \E r \in S : r.st.rev <= MaxRev /\ robot' = r

Offline(r) == [r EXCEPT !.ready = FALSE, !.busy = FALSE]

(* OnStart.                                                                *)
FreshState(r) ==
    IF r.open \cup settled = {} THEN {[r EXCEPT !.st = Fresh]}
    ELSE RecoverExposureForExitOnly([r EXCEPT !.st = [Fresh EXCEPT !.quarantined = TRUE]])

OnStart ==
    /\ robot.up = "down"
    /\ IF robot.wal = None THEN Becomes({[r EXCEPT !.up = "up", !.persisted = r.st.rev] :
                                             r \in FreshState(robot)})
       ELSE IF Valid(robot.wal)
            THEN Becomes({[robot EXCEPT !.up = "up", !.st = robot.wal,
                                        !.persisted = robot.wal.rev]})
            ELSE Becomes({[robot EXCEPT !.up = "stopped"]})
    /\ UNCHANGED <<row, receipts, mail, settled, now>>

(* Cycle, with the children the signal or the confirmation of a completed  *)
(* bar wants, if there is one; offline it returns after ManagePositions,   *)
(* without a Persist.                                                      *)
Cycle(wanted, verdict) ==
    /\ robot.up = "up"
    /\ Becomes(UNION {IF ~m.ready THEN {m}
                      ELSE LET b == IF wanted # None THEN Bar(m, wanted) ELSE m
                           IN  {IF q.up = "up" THEN Persist(q) ELSE q : q \in ProcessQueue(b, verdict)} :
                        m \in ManagePositions(robot)})
    /\ UNCHANGED <<row, receipts, mail, settled, now>>

(* A fault for the mutation check: the version at the bridge is not noted. *)
Adopt_KeepsBase(r, version, other) ==
    [r EXCEPT !.st = IF other # None /\ other.rev >= r.st.rev THEN other ELSE @]

(* ReceiveBridge, type ready: the later of the two checkpoints is taken.   *)
Adopt(r, version, other) ==
    [r EXCEPT !.remote = version,
              !.st = IF other # None /\ other.rev >= r.st.rev THEN other ELSE @]

ReceiveReady ==
    /\ mail # None /\ mail.type = "ready"
    /\ robot.up = "up" /\ ~robot.ready
    /\ LET a == Adopt(robot, mail.version, mail.data)
           other == mail.data
       IN  IF other # None /\ other.rev = robot.st.rev /\ other # robot.st
           THEN Becomes({Quarantine([robot EXCEPT !.remote = mail.version])})
           ELSE IF other # None /\ ~Valid(a.st)
                THEN Becomes({[robot EXCEPT !.remote = mail.version]})
                ELSE Becomes(Reconciled([a EXCEPT !.ready = TRUE, !.busy = FALSE,
                                                  !.persisted = a.st.rev]))
    /\ mail' = None
    /\ UNCHANGED <<row, receipts, settled, now>>

ReceiveAck(verdict) ==
    /\ mail # None /\ mail.type = "ack"
    /\ robot.up = "up" /\ robot.ready
    /\ IF ~robot.busy \/ mail.rev # robot.sent THEN UNCHANGED robot
       ELSE Becomes(ProcessQueue(Persist([robot EXCEPT !.remote = mail.version,
                                                       !.persisted = mail.rev,
                                                       !.busy = FALSE]), verdict))
    /\ mail' = None
    /\ UNCHANGED <<row, receipts, settled, now>>

(* The connection breaks, or an answer does not come in time: the fence    *)
(* keeps the robot from what is still on its way to it.                    *)
BridgeOffline ==
    /\ robot.up = "up" /\ robot.ready /\ robot.faults > 0
    /\ robot' = [Offline(robot) EXCEPT !.faults = @ - 1]
    /\ mail' = None
    /\ UNCHANGED <<row, receipts, settled, now>>

Crash ==
    /\ robot.up = "up" /\ robot.faults > 0
    /\ robot' = Crashed(robot)
    /\ mail' = None
    /\ UNCHANGED <<row, receipts, settled, now>>

(* The robot is stopped: the state is written, and a save may still be read *)
(* from the socket.  A robot that refused its log writes the same again.    *)
OnStop ==
    /\ robot.up = "up" /\ robot.faults > 0
    /\ Becomes({Crashed(Persist(robot))})
    /\ mail' = None
    /\ UNCHANGED <<row, receipts, settled, now>>

LoseStorage ==
    /\ Losable /\ robot.up # "up" /\ robot.wal # None
    /\ robot' = [robot EXCEPT !.wal = None, !.up = "down"]
    /\ UNCHANGED <<row, receipts, mail, settled, now>>
-----------------------------------------------------------------------------
(* The bridge: a robot holds the lease while it is connected, so the store *)
(* is CheckpointStore's with one robot.  A new session starts when the old *)
(* one has ended, and what was not read from that is gone.                 *)

Store == INSTANCE CheckpointStore
         WITH Robot <- {"robot"}, Nobody <- None, LeaseTime <- 1, Data <- Checkpoint,
              MaxRevision <- MaxRev, lease <- [holder |-> "robot", left |-> 1],
              replies <- {}

Hello ==
    /\ robot.up = "up" /\ ~robot.ready /\ mail = None
    /\ mail' = [type |-> "ready", version |-> Store!RowVersion,
                data |-> IF row = None THEN None ELSE row.data]
    /\ robot' = [robot EXCEPT !.save = None]
    /\ UNCHANGED <<row, receipts, settled, now>>

(* The save is read and answered; the answer is lost if the robot has      *)
(* disposed of the socket.  A refusal would quarantine the robot; that     *)
(* there is none is SavesAreTaken.                                         *)
BridgeSaves ==
    /\ robot.save # None /\ mail = None
    /\ LET s == robot.save
       IN  /\ Store!Save("robot", s.base, s.rev, s.data)
           /\ mail' = IF robot.ready
                      THEN [type |-> "ack", rev |-> s.rev, version |-> receipts'[s.rev].version]
                      ELSE None
    /\ robot' = [robot EXCEPT !.save = None]
    /\ UNCHANGED <<settled, now>>
-----------------------------------------------------------------------------
(* The broker and the clock.                                               *)

PositionCloses(l) ==
    /\ \E result \in {"won", "lost"} :
           robot' = [robot EXCEPT !.open = @ \ {l}, !.bare = @ \ {l}, ![result] = @ \cup {l}]
    /\ UNCHANGED <<row, receipts, mail, settled, now>>

HistoryShows(l) ==
    /\ l \notin settled
    /\ settled' = settled \cup {l}
    /\ UNCHANGED <<robot, row, receipts, mail, now>>

Tick ==
    /\ now < MaxTime
    /\ now' = now + 1
    /\ UNCHANGED <<robot, row, receipts, mail, settled>>

Next == \/ OnStart \/ ReceiveReady \/ BridgeOffline \/ Crash \/ OnStop \/ LoseStorage
        \/ \E verdict \in Verdict : \/ ReceiveAck(verdict)
                                  \/ \E wanted \in (0 .. MaxWanted) \cup {None} :
                                        Cycle(wanted, verdict)
        \/ Hello \/ BridgeSaves \/ Tick
        \/ \E l \in robot.open : PositionCloses(l)
        \/ \E l \in Closed(robot) : HistoryShows(l)

Spec == Init /\ [][Next]_vars
-----------------------------------------------------------------------------
(* Every order has its intent at the bridge before it is sent and is sent  *)
(* once, through crashes, reconnects, repeated saves and lost answers.     *)
Intents == {receipts[n].data.pending : n \in {k \in 0 .. MaxRev : receipts[k] # None}} \ {None}

WAL == INSTANCE WriteAheadIntent WITH Label <- (1 .. MaxTime) \X Stage \X (1 .. MaxRev),
                                      recorded <- Intents, orders <- robot.orders

OrdersAreRecorded == WAL!ISpec

(* A connected robot that may still add to its basket has counted, stage   *)
(* by stage, every child that was filled in it: a fill that a crash hid    *)
(* from it is found or has stopped it, so no budget is spent twice.        *)
Fills(r) == r.open \cup r.won \cup r.lost

FillsAreCounted ==
    LET b == robot.st.basket
    IN  robot.ready /\ ~robot.st.quarantined /\ b # None /\ now <= b.at + AddTime
        => \A s \in Stage :
              Cardinality({l \in Fills(robot) : l[1] = b.at /\ l[2] = s}) <= b.accepted[s]

(* Since its handshake the local log of a robot is never behind the bridge:*)
(* what it starts from after a crash is the latest state, also when it     *)
(* cannot reach the bridge then.                                           *)
LogLeads == robot.ready /\ row # None => robot.wal # None /\ row.rev <= robot.wal.rev

(* The bridge refuses no save of a robot that works alone, whichever of    *)
(* its answers were lost: REVISION_CONFLICT always means a second robot.   *)
SavesAreTaken ==
    robot.save # None =>
        LET s == robot.save
        IN  \/ Store!Repeated(s.base, s.rev, s.data)
            \/ receipts[s.rev] = None /\ Store!Current(s.base, s.rev)

(* A robot that refuses to start from its own log had been quarantined: no *)
(* cancelled queue of a healthy robot leaves an intent without its batch   *)
(* (CancelQueue, ValidateState).                                           *)
RefusesOnlyQuarantined == robot.up = "stopped" => robot.wal.quarantined

(* A basket whose positions are all closed and in the history is not kept  *)
(* waiting for its settlement.                                             *)
SettlementEnds ==
    LET b == robot.st.basket
    IN  /\ robot.up = "up" /\ ~robot.st.quarantined
        /\ b # None /\ robot.st.pending = None
        /\ robot.open = {} /\ Closed(robot) = settled
        => AcceptedSum(b) \in {0, Cardinality(InBasket(settled, b))}
-----------------------------------------------------------------------------
(* The strengthening, of a robot r and an answer m on its way.  A log is   *)
(* never ahead of the memory of a robot that runs; what is on its way to   *)
(* the bridge is in the log; and what the bridge answers to a hello is     *)
(* what it still has when the answer arrives.                              *)
Logged(r, m) ==
    /\ r.ready => r.up = "up" /\ r.wal # None
    /\ r.up = "up" /\ r.wal # None => r.wal.rev <= r.st.rev
    /\ r.ready /\ row # None => row.rev <= r.wal.rev
    /\ r.save # None => /\ r.save.rev <= MaxRev
                        /\ r.save.data.rev = r.save.rev
                        /\ r.ready => r.save.rev <= r.wal.rev
    /\ row # None => row.data.rev = row.rev
    /\ m # None /\ m.type = "ready" =>
           /\ ~r.ready /\ r.save = None
           /\ m.data = IF row = None THEN None ELSE row.data

LogInv == Logged(robot, mail)

(* One save is under way at a time: it is in the socket, or its answer is. *)
(* Without one, a connected robot knows the version and the revision of    *)
(* the bridge.                                                             *)
Saved(r, m) ==
    /\ r.save # None => Store!Current(r.save.base, r.save.rev) /\ m = None
    /\ r.ready /\ ~r.busy => /\ r.save = None /\ m = None
                             /\ r.remote = Store!RowVersion
                             /\ row # None => row.rev <= r.persisted
    /\ r.ready /\ r.busy => /\ r.save = None => m # None
                            /\ r.save # None => r.sent = r.save.rev
    /\ m # None => /\ m.version = Store!RowVersion
                   /\ m.type = "ready" => ~r.ready
                   /\ m.type = "ack" /\ r.ready => r.busy /\ m.rev = r.sent
                   /\ m.type = "ack" => row # None /\ row.rev = m.rev

SaveInv == /\ Saved(robot, mail)
           /\ \A n \in 0 .. MaxRev : receipts[n] # None => row # None /\ n <= row.rev

(* What a checkpoint c tells of the orders of a robot r, if it is not      *)
(* quarantined: whatever it starts next has another label, and but for its *)
(* own intent it has counted what was filled in its basket, or may add     *)
(* nothing to that any more.                                               *)
Bounded(c) == /\ c.pending # None => c.pending[3] <= c.rev
              /\ c.basket # None => c.basket.seq <= c.rev

Counted(c, F) ==
    \A s \in Stage :
        Cardinality({l \in F : l[1] = c.basket.at /\ l[2] = s /\ l # c.pending})
            <= c.basket.accepted[s]

Accounts(c, r) ==
    /\ Bounded(c)
    /\ \/ c.quarantined
       \/ /\ Valid(c)
          /\ \A l \in r.orders : l[1] <= c.signal
          /\ c.basket # None =>
                /\ c.basket.at <= c.signal
                /\ \A l \in r.orders : l[1] = c.basket.at => l[3] <= c.basket.seq
                /\ now > c.basket.at + AddTime \/ Counted(c, Fills(r))

(* Every copy of the checkpoint does, whichever a robot starts from, or is *)
(* the log of one that had lost its log, found nothing and was stopped.    *)
Copies(r) == /\ r.wal # None => Accounts(r.wal, r) \/ (r.wal = Fresh /\ r.open = {})
             /\ r.save # None => Accounts(r.save.data, r)
             /\ row # None => /\ Accounts(row.data, r)
                              /\ row.data.pending \in Intents \cup {None}
             /\ r.orders \subseteq Intents /\ IsFiniteSet(r.orders)
             /\ Fills(r) \subseteq r.orders
             /\ r.ready => r.persisted <= r.st.rev
             /\ r.ready /\ r.busy => r.persisted < r.sent /\ r.sent <= r.st.rev
             /\ r.ready /\ ~r.busy => r.save = None
             /\ r.up # "up" => ~r.ready /\ ~r.here

(* An intent the robot would send is new, and in every copy it waited for. *)
Intended(r) ==
    LET l == r.st.pending
    IN  l # None /\ ~r.st.quarantined /\ (r.ready \/ (r.here /\ ~r.submitted))
        => /\ l \notin r.orders
           /\ r.ready => /\ r.wal # None /\ r.wal.pending = l
                         /\ r.persisted >= r.st.rev =>
                               row # None /\ row.data.pending = l
                         /\ r.busy /\ r.sent = r.st.rev =>
                               IF r.save # None THEN r.save.data.pending = l
                               ELSE row # None /\ row.data.pending = l

(* A robot that lost its log and found nothing knows of no order until the *)
(* bridge answers.                                                         *)
Blank(r) == r.st = Fresh /\ r.open = {} /\ ~r.ready

OrderInv == /\ Copies(robot) /\ Intended(robot)
            /\ Accounts(robot.st, robot) \/ Blank(robot)
            /\ robot.up = "stopped" => robot.wal # None /\ ~Valid(robot.wal)
=============================================================================
