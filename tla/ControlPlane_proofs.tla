------------------------ MODULE ControlPlane_proofs ------------------------
(* What is proved of ControlPlane for any number of threads, operators and *)
(* updates, and any age limit and read time.                               *)
EXTENDS ControlPlane, TLAPS

USE TimeAssumption

-----------------------------------------------------------------------------
(* Types                                                                   *)

(* A step changes only what it may, and to a value of its type: refresh    *)
(* caches a row that was read (ControlPlaneGate.refresh).                  *)
LEMMA TypeStep == TypeOK /\ [Next]_vars => TypeOK'
<1> SUFFICES ASSUME TypeOK, [Next]_vars PROVE TypeOK'
  OBVIOUS
<1> USE DEF TypeOK
<1>1. ASSUME NEW o \in Operator, ReadControl(o) PROVE TypeOK'
  BY <1>1 DEF ReadControl
<1>2. ASSUME NEW o \in Operator, UpdateFails(o) PROVE TypeOK'
  BY <1>2 DEF UpdateFails
<1>3. ASSUME NEW o \in Operator, NEW open \in BOOLEAN, UpdateControl(o, open)
      PROVE TypeOK'
  <2>1. current[o] \in Row
    BY <1>3 DEF UpdateControl, Unchanged
  <2>2. row' \in Row
    BY <1>3, <2>1 DEF UpdateControl, Row
  <2>3. closedAt' \in Nat
    BY <1>3 DEF UpdateControl
  <2> QED
    BY <1>3, <2>2, <2>3 DEF UpdateControl
<1>4. ASSUME NEW r \in Reader, AskStore(r) PROVE TypeOK'
  BY <1>4 DEF AskStore
<1>5. ASSUME NEW r \in Reader, ReadRow(r) PROVE TypeOK'
  <2>1. [row |-> row, at |-> now] \in Snapshot
    BY DEF Snapshot
  <2> QED
    BY <1>5, <2>1 DEF ReadRow
<1>6. ASSUME NEW r \in Reader, StoreState(r) PROVE TypeOK'
  <2>1. cache' \in CachedControlState
    BY <1>6 DEF StoreState, CachedControlState
  <2> QED
    BY <1>6, <2>1 DEF StoreState
<1>7. ASSUME NEW r \in Reader, ReadFails(r) PROVE TypeOK'
  BY <1>7 DEF ReadFails
<1>8. ASSUME NEW t \in Thread, Start(t) \/ Stop(t) \/ WorkerEnds(t) PROVE TypeOK'
  BY <1>8 DEF Start, Stop, WorkerEnds
<1>9. CASE Restart
  BY <1>9 DEF Restart
<1>10. CASE Tick
  BY <1>10 DEF Tick
<1>11. CASE UNCHANGED vars
  BY <1>11 DEF vars
<1> QED
  BY <1>1, <1>2, <1>3, <1>4, <1>5, <1>6, <1>7, <1>8, <1>9, <1>10, <1>11 DEF Next

(* Every reachable state is well typed.                                    *)
THEOREM TypeCorrect == Spec => []TypeOK
<1>1. Init => TypeOK
  BY DEF Init, TypeOK, Row
<1> QED
  BY <1>1, TypeStep, PTL DEF Spec

-----------------------------------------------------------------------------
(* The age of what the gate believes                                       *)

(* What refresh stores was read at most one read time before, and a read   *)
(* that lets orders through was made before the row was closed.            *)
LEMMA AgeStep == TypeOK /\ TypeOK' /\ AgeInv /\ [Next]_vars => AgeInv'
<1> SUFFICES ASSUME TypeOK, TypeOK', AgeInv, [Next]_vars PROVE AgeInv'
  OBVIOUS
<1> USE DEF TypeOK, AgeInv, SnapshotInv, Snapshot, CachedControlState, Row
<1>1. ASSUME NEW o \in Operator, ReadControl(o) \/ UpdateFails(o) PROVE AgeInv'
  BY <1>1 DEF ReadControl, UpdateFails
<1>2. ASSUME NEW o \in Operator, NEW open \in BOOLEAN, UpdateControl(o, open)
      PROVE AgeInv'
  <2>1. /\ UNCHANGED <<now, reading, cache>>
        /\ row'.open = open
        /\ closedAt' = IF row.open /\ ~open THEN now ELSE closedAt
    BY <1>2 DEF UpdateControl
  <2> QED
    BY <2>1
<1>3. ASSUME NEW r \in Reader, AskStore(r) \/ ReadFails(r) PROVE AgeInv'
  <2>1. reading'[r] \notin Snapshot
    BY <1>3, ValueAssumption DEF AskStore, ReadFails
  <2>2. \A q \in Reader : q # r => reading'[q] = reading[q]
    BY <1>3 DEF AskStore, ReadFails
  <2> QED
    BY <1>3, <2>1, <2>2 DEF AskStore, ReadFails
<1>4. ASSUME NEW r \in Reader, ReadRow(r) PROVE AgeInv'
  BY <1>4 DEF ReadRow
<1>5. ASSUME NEW r \in Reader, StoreState(r) PROVE AgeInv'
  <2>1. /\ UNCHANGED <<now, row, closedAt>>
        /\ cache'.snapshot = reading[r]
        /\ cache'.refreshed = now
        /\ reading[r] \in Snapshot
        /\ SnapshotInv(reading[r], now)
    BY <1>5 DEF StoreState
  <2>2. \A q \in Reader : reading'[q] \in Snapshot => reading'[q] = reading[q]
    BY <1>5, ValueAssumption DEF StoreState
  <2> QED
    BY <2>1, <2>2
<1>6. ASSUME NEW t \in Thread, Start(t) \/ Stop(t) \/ WorkerEnds(t) PROVE AgeInv'
  BY <1>6 DEF Start, Stop, WorkerEnds
<1>7. CASE Restart
  BY <1>7, ValueAssumption DEF Restart
<1>8. CASE Tick
  BY <1>8 DEF Tick
<1>9. CASE UNCHANGED vars
  BY <1>9 DEF vars
<1> QED
  BY <1>1, <1>2, <1>3, <1>4, <1>5, <1>6, <1>7, <1>8, <1>9 DEF Next

(* A row closed for longer than the age limit and the longest read stops   *)
(* every order, whoever refreshes the cache (assert_orders_allowed).       *)
THEOREM StopTakesEffectHolds == Spec => []StopTakesEffect
<1>1. Init => AgeInv
  BY ValueAssumption DEF Init, AgeInv
<1>2. TypeOK /\ AgeInv => StopTakesEffect
  BY DEF TypeOK, AgeInv, SnapshotInv, Snapshot, CachedControlState, Row,
         StopTakesEffect, OrdersAllowed, Fresh
<1> QED
  BY <1>1, <1>2, AgeStep, TypeCorrect, PTL DEF Spec

-----------------------------------------------------------------------------
(* The versioned update                                                    *)

(* Equal versions stay equal rows: only the update that found the current  *)
(* version writes the next one (set_execution_control).                    *)
LEMMA VersionStep == TypeOK /\ VersionInv /\ [Next]_vars => VersionInv'
<1> SUFFICES ASSUME TypeOK, VersionInv, [Next]_vars PROVE VersionInv'
  OBVIOUS
<1> USE DEF TypeOK, VersionInv, Row
<1>1. ASSUME NEW o \in Operator, ReadControl(o) \/ UpdateFails(o) PROVE VersionInv'
  BY <1>1 DEF ReadControl, UpdateFails
<1>2. ASSUME NEW o \in Operator, NEW open \in BOOLEAN, UpdateControl(o, open)
      PROVE VersionInv'
  <2>1. row'.version = row.version + 1
    BY <1>2 DEF UpdateControl, Unchanged
  <2>2. \A p \in Operator : current'[p] # Nothing => current'[p] = current[p]
    BY <1>2 DEF UpdateControl
  <2>3. \A p \in Operator : current[p] # Nothing => current[p].version < row'.version
    BY <2>1
  <2> QED
    BY <2>1, <2>2, <2>3
<1>3. ASSUME UNCHANGED <<row, current>> PROVE VersionInv'
  BY <1>3
<1> QED
  BY <1>1, <1>2, <1>3 DEF Next, AskStore, ReadRow, StoreState, ReadFails, Start, Stop,
     WorkerEnds, Restart, Tick, vars

(* An update replaces only the row it read, so one that read the row       *)
(* before somebody else's stop never undoes it (set_execution_control).    *)
THEOREM NoLostUpdateHolds == Spec => NoLostUpdate
<1>1. Init => VersionInv
  BY DEF Init, VersionInv
<1>2. TypeOK /\ VersionInv /\ [Next]_vars =>
        [row' # row => \E o \in Operator : current[o] = row /\ current'[o] = Nothing]_vars
  <2> SUFFICES ASSUME TypeOK, VersionInv, Next, row' # row
               PROVE  \E o \in Operator : current[o] = row /\ current'[o] = Nothing
    BY DEF vars
  <2>1. PICK o \in Operator, open \in BOOLEAN : UpdateControl(o, open)
    BY DEF Next, ReadControl, UpdateFails, AskStore, ReadRow, StoreState, ReadFails,
           Start, Stop, WorkerEnds, Restart, Tick
  <2>2. current[o] = row
    BY <2>1 DEF UpdateControl, Unchanged, VersionInv
  <2>3. current'[o] = Nothing
    BY <2>1 DEF UpdateControl, TypeOK
  <2> QED
    BY <2>2, <2>3
<1> QED
  BY <1>1, <1>2, VersionStep, TypeCorrect, PTL DEF Spec, NoLostUpdate

-----------------------------------------------------------------------------
(* One reader                                                              *)

(* While the main thread does not refresh beside a worker, one thread reads *)
(* at a time and what it brings is not older than the cache                *)
(* (ControlPlaneRefreshWorker.start and stop).                             *)
LEMMA OneReaderStep ==
  TypeOK /\ TypeOK' /\ OneReader /\ ~reanchors /\ ((Next /\ ~Restart) \/ UNCHANGED vars)
    => OneReader'
<1> SUFFICES ASSUME TypeOK, TypeOK', OneReader, ~reanchors,
                    (Next /\ ~Restart) \/ UNCHANGED vars
             PROVE  OneReader'
  OBVIOUS
<1> USE DEF TypeOK, OneReader, Alive
<1>0. Main \notin Thread /\ Thread \subseteq Reader /\ Main \in Reader
  BY ThreadAssumption DEF Reader
<1>1. ASSUME NEW o \in Operator, ReadControl(o) \/ UpdateFails(o) PROVE OneReader'
  BY <1>1 DEF ReadControl, UpdateFails
<1>2. ASSUME NEW o \in Operator, NEW open \in BOOLEAN, UpdateControl(o, open)
      PROVE OneReader'
  <2>1. row.version \in Nat /\ row'.version = row.version + 1
    BY <1>2 DEF UpdateControl, Unchanged, Row
  <2>2. \A s \in Snapshot : s.row.version <= row.version => s.row.version <= row'.version
    BY <2>1 DEF Snapshot, Row
  <2>3. UNCHANGED <<worker, reading, cache>>
    BY <1>2 DEF UpdateControl
  <2> QED
    BY <2>2, <2>3 DEF CachedControlState
<1>3. ASSUME NEW r \in Reader, AskStore(r) PROVE OneReader'
  <2>1. /\ UNCHANGED <<row, worker, cache>>
        /\ reading' = [reading EXCEPT ![r] = Asked]
        /\ r = Main => \A t \in Thread : ~Alive(t)
        /\ r # Main => Alive(r)
    BY <1>3 DEF AskStore, MayRead
  <2>2. \A q \in Reader : reading'[q] \in Snapshot => reading'[q] = reading[q]
    BY <2>1, ValueAssumption
  <2>3. \A q \in Reader : q # r => reading'[q] = reading[q]
    BY <2>1
  <2> QED
    BY <1>0, <2>1, <2>2, <2>3
<1>4. ASSUME NEW r \in Reader, ReadRow(r) PROVE OneReader'
  <2>1. /\ UNCHANGED <<row, worker, cache>>
        /\ reading[r] # Nothing
        /\ reading'[r] = [row |-> row, at |-> now]
    BY <1>4, ValueAssumption DEF ReadRow
  <2>2. \A q \in Reader : q # r => reading'[q] = reading[q]
    BY <1>4 DEF ReadRow
  <2>3. reading'[r].row.version <= row'.version
    BY <2>1 DEF Row
  <2>4. cache' # Nothing => cache'.snapshot.row.version <= reading'[r].row.version
    BY <2>1
  <2> QED
    BY <1>0, <2>1, <2>2, <2>3, <2>4
<1>5. ASSUME NEW r \in Reader, StoreState(r) PROVE OneReader'
  <2>1. /\ UNCHANGED <<row, worker>>
        /\ reading[r] \in Snapshot
        /\ cache'.snapshot = reading[r]
        /\ reading'[r] = Nothing
    BY <1>5 DEF StoreState
  <2>2. \A q \in Reader : q # r => reading'[q] = reading[q]
    BY <1>5 DEF StoreState
  <2>3. \A q \in Reader : q # r => reading[q] = Nothing
    BY <1>0, <2>1, ValueAssumption DEF Reader
  <2>4. \A q \in Reader : reading'[q] = Nothing
    BY <2>1, <2>2, <2>3
  <2> QED
    BY <1>0, <2>1, <2>4, ValueAssumption
<1>6. ASSUME NEW r \in Reader, ReadFails(r) PROVE OneReader'
  <2>1. UNCHANGED <<row, worker, cache>> /\ reading'[r] = Nothing
    BY <1>6 DEF ReadFails
  <2>2. \A q \in Reader : q # r => reading'[q] = reading[q]
    BY <1>6 DEF ReadFails
  <2> QED
    BY <1>0, <2>1, <2>2, ValueAssumption
<1>7. ASSUME NEW t \in Thread, Start(t) PROVE OneReader'
  BY <1>0, <1>7 DEF Start, MayStart
<1>8. ASSUME NEW t \in Thread, Stop(t) PROVE OneReader'
  BY <1>0, <1>8 DEF Stop
<1>9. ASSUME NEW t \in Thread, WorkerEnds(t) PROVE OneReader'
  BY <1>0, <1>9 DEF WorkerEnds
<1>10. CASE Tick
  BY <1>10 DEF Tick
<1>11. CASE UNCHANGED vars
  BY <1>11 DEF vars
<1> QED
  BY <1>1, <1>2, <1>3, <1>4, <1>5, <1>6, <1>7, <1>8, <1>9, <1>10, <1>11 DEF Next

(* Which kind of executor the process is changes only with the process,    *)
(* and a new one has read nothing yet (ControlPlaneGate.__init__).         *)
LEMMA OneReaderInvStep ==
  TypeOK /\ TypeOK' /\ OneReaderInv /\ [Next]_vars => OneReaderInv'
<1> SUFFICES ASSUME TypeOK, TypeOK', OneReaderInv, [Next]_vars, ~reanchors'
             PROVE  OneReader'
  BY DEF OneReaderInv
<1>1. CASE Restart
  BY <1>1, ThreadAssumption, ValueAssumption DEF Restart, OneReader, Alive, Reader, TypeOK
<1>2. CASE ~Restart
  <2>1. reanchors' = reanchors
    BY <1>2 DEF Next, vars, ReadControl, UpdateFails, UpdateControl, AskStore, ReadRow,
       StoreState, ReadFails, Start, Stop, WorkerEnds, Tick
  <2>2. OneReader
    BY <2>1 DEF OneReaderInv
  <2> QED
    BY <1>2, <2>1, <2>2, OneReaderStep
<1> QED
  BY <1>1, <1>2

(* Where one thread refreshes at a time the gate never goes back to an     *)
(* older row, also when a stopped worker is still reading.                 *)
THEOREM CacheMovesForwardHolds == Spec => CacheMovesForward
<1>1. Init => OneReaderInv
  BY ValueAssumption DEF Init, OneReaderInv, OneReader, Alive, Reader
<1>2. TypeOK /\ OneReaderInv /\ [Next]_vars =>
        [~reanchors /\ cache # Nothing /\ cache' # Nothing =>
           cache'.snapshot.row.version >= cache.snapshot.row.version]_vars
  <2> SUFFICES ASSUME TypeOK, OneReaderInv, Next, ~reanchors,
                      cache # Nothing, cache' # Nothing
               PROVE  cache'.snapshot.row.version >= cache.snapshot.row.version
    BY DEF vars
  <2>1. cache.snapshot.row.version \in Nat
    BY DEF TypeOK, CachedControlState, Snapshot, Row
  <2>2. CASE cache' = cache
    BY <2>1, <2>2
  <2>3. ASSUME NEW r \in Reader, StoreState(r)
        PROVE  cache'.snapshot.row.version >= cache.snapshot.row.version
    <3>1. reading[r] \in Snapshot /\ cache'.snapshot = reading[r]
      BY <2>3 DEF StoreState
    <3>2. cache.snapshot.row.version <= reading[r].row.version
      BY <3>1 DEF OneReaderInv, OneReader
    <3>3. reading[r].row.version \in Nat
      BY <3>1 DEF Snapshot, Row
    <3> QED
      BY <2>1, <3>1, <3>2, <3>3
  <2> QED
    BY <2>2, <2>3 DEF Next, ReadControl, UpdateControl, UpdateFails, AskStore, ReadRow,
       ReadFails, Start, Stop, WorkerEnds, Restart, Tick
<1>3. TypeOK /\ TypeOK' /\ OneReaderInv /\ [Next]_vars => OneReaderInv'
  BY OneReaderInvStep
<1> QED
  BY <1>1, <1>2, <1>3, TypeCorrect, PTL DEF Spec, CacheMovesForward
=============================================================================
