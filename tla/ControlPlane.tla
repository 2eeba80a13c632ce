---------------------------- MODULE ControlPlane ----------------------------
(***************************************************************************)
(* The control plane (execution/control_plane.py): the row with which an   *)
(* operator stops or allows orders, the versioned update that writes it    *)
(* (storage/supabase_operational.py), and the cache of it in the executor  *)
(* process, filled by refreshes that read the row first and look at the    *)
(* clock afterwards.                                                       *)
(*                                                                         *)
(* The cache is refreshed by a background worker thread and by the main    *)
(* thread: before the worker starts (cli.py), or, in the executors that    *)
(* re-anchor, also right before each order while the worker is running.    *)
(*                                                                         *)
(* A row is its version and whether it lets orders through: no emergency   *)
(* stop, new orders enabled, and the mode of the executor.                 *)
(***************************************************************************)
EXTENDS Naturals

CONSTANTS
    Thread,         \* the worker threads a process may start
    Main,           \* its main thread
    Operator,       \* who writes the row
    MaxAge,         \* ControlPlaneGate.max_age_seconds
    ReadTime,       \* the longest a read takes from the row to the cache
    MaxVersion,     \* bound of the model: updates of the row
    MaxTime,        \* bound of the model: time
    Asked,          \* a read is under way and the store has not answered
    Nothing         \* no cached state, no read under way, no row to replace

ASSUME ThreadAssumption == Main \notin Thread
ASSUME TimeAssumption   == MaxAge \in Nat /\ ReadTime \in Nat

VARIABLES
    now,        \* the monotonic clock
    row,        \* the row of execution_control
    current,    \* the row each operator read and is about to replace
    reanchors,  \* the executor's main thread also refreshes beside a worker
    worker,     \* each worker thread
    reading,    \* what each thread read and has not stored yet
    cache,      \* ControlPlaneGate._state
    closedAt    \* history: when the row last stopped letting orders through

vars == <<now, row, current, reanchors, worker, reading, cache, closedAt>>

Reader == Thread \cup {Main}

Row == [version : Nat, open : BOOLEAN]

(* A snapshot remembers, for the properties, when the row had this value.  *)
Snapshot == [row : Row, at : Nat]

CachedControlState == [snapshot : Snapshot, refreshed : Nat]

ASSUME ValueAssumption ==
    /\ Nothing \notin Row \cup Snapshot \cup CachedControlState
    /\ Asked \notin Snapshot \cup {Nothing}

TypeOK ==
    /\ now \in Nat
    /\ row \in Row
    /\ current \in [Operator -> Row \cup {Nothing}]
    /\ reanchors \in BOOLEAN
    /\ worker \in [Thread -> {"off", "running", "stopping"}]
    /\ reading \in [Reader -> Snapshot \cup {Asked, Nothing}]
    /\ cache \in CachedControlState \cup {Nothing}
    /\ closedAt \in Nat

(* The bootstrap row is closed.                                            *)
Init ==
    /\ now = 0
    /\ row = [version |-> 1, open |-> FALSE]
    /\ current = [o \in Operator |-> Nothing]
    /\ reanchors \in BOOLEAN
    /\ worker = [t \in Thread |-> "off"]
    /\ reading = [r \in Reader |-> Nothing]
    /\ cache = Nothing
    /\ closedAt = 0

-----------------------------------------------------------------------------
(* Faults for the mutation check, named after what they replace.           *)
Fresh_AnyAge(c)          == c # Nothing
MayStart_Again(t)        == worker[t] = "off"
Unchanged_AnyVersion(o)  == current[o] # Nothing

Fresh(c) == c # Nothing /\ now - c.refreshed <= MaxAge

(* assert_orders_allowed                                                   *)
OrdersAllowed == Fresh(cache) /\ cache.snapshot.row.open

Alive(t) == worker[t] # "off"

(* start returns early while a thread is alive, also one that was told to  *)
(* stop and has not ended.                                                 *)
MayStart(t) == \A u \in Thread : ~Alive(u)

(* The conditional update finds the version the operator read.             *)
Unchanged(o) == current[o] # Nothing /\ current[o].version = row.version

-----------------------------------------------------------------------------
(* The operators: set_execution_control                                    *)

ReadControl(o) ==
    /\ current[o] = Nothing
    /\ current' = [current EXCEPT ![o] = row]
    /\ UNCHANGED <<now, row, worker, reading, cache, closedAt, reanchors>>

UpdateControl(o, open) ==
    /\ Unchanged(o)
    /\ row.version < MaxVersion
    /\ row' = [version |-> current[o].version + 1, open |-> open]
    /\ current' = [current EXCEPT ![o] = Nothing]
    /\ closedAt' = IF row.open /\ ~open THEN now ELSE closedAt
    /\ UNCHANGED <<now, worker, reading, cache, reanchors>>

(* It lost the race, or the call failed before it reached the row.         *)
UpdateFails(o) ==
    /\ current[o] # Nothing
    /\ current' = [current EXCEPT ![o] = Nothing]
    /\ UNCHANGED <<now, row, worker, reading, cache, closedAt, reanchors>>

-----------------------------------------------------------------------------
(* The executor process: refresh_once, start, stop                         *)

MayRead(r) ==
    /\ r = Main => reanchors \/ \A t \in Thread : ~Alive(t)
    /\ r # Main => worker[r] = "running"

(* The thread looked at the stop flag and calls refresh_once; from here on *)
(* a stop does not reach it.                                               *)
AskStore(r) ==
    /\ reading[r] = Nothing
    /\ MayRead(r)
    /\ reading' = [reading EXCEPT ![r] = Asked]
    /\ UNCHANGED <<now, row, current, worker, cache, closedAt, reanchors>>

(* The store answers with the row as it is now.                            *)
ReadRow(r) ==
    /\ reading[r] = Asked
    /\ reading' = [reading EXCEPT ![r] = [row |-> row, at |-> now]]
    /\ UNCHANGED <<now, row, current, worker, cache, closedAt, reanchors>>

(* The answer is back: it is stored with the time of this moment.          *)
StoreState(r) ==
    /\ reading[r] \in Snapshot
    /\ cache' = [snapshot |-> reading[r], refreshed |-> now]
    /\ reading' = [reading EXCEPT ![r] = Nothing]
    /\ UNCHANGED <<now, row, current, worker, closedAt, reanchors>>

(* A fault: what a failed read brought is cached too.                      *)
ReadFails_Cached(r) ==
    /\ reading[r] # Nothing
    /\ cache' = [snapshot |-> Nothing, refreshed |-> now]
    /\ reading' = [reading EXCEPT ![r] = Nothing]
    /\ UNCHANGED <<now, row, current, worker, closedAt, reanchors>>

(* The read failed: the last good state is kept.                           *)
ReadFails(r) ==
    /\ reading[r] # Nothing
    /\ reading' = [reading EXCEPT ![r] = Nothing]
    /\ UNCHANGED <<now, row, current, worker, cache, closedAt, reanchors>>

Start(t) ==
    /\ reading[Main] = Nothing
    /\ MayStart(t)
    /\ worker' = [worker EXCEPT ![t] = "running"]
    /\ UNCHANGED <<now, row, current, reading, cache, closedAt, reanchors>>

(* The stop flag is set; a read under way may outlast the join.            *)
Stop(t) ==
    /\ reading[Main] = Nothing
    /\ worker[t] = "running"
    /\ worker' = [worker EXCEPT ![t] = "stopping"]
    /\ UNCHANGED <<now, row, current, reading, cache, closedAt, reanchors>>

WorkerEnds(t) ==
    /\ worker[t] = "stopping"
    /\ reading[t] = Nothing
    /\ worker' = [worker EXCEPT ![t] = "off"]
    /\ UNCHANGED <<now, row, current, reading, cache, closedAt, reanchors>>

(* The process dies; the next one is of either kind of executor.           *)
Restart ==
    /\ reanchors' \in BOOLEAN
    /\ worker' = [t \in Thread |-> "off"]
    /\ reading' = [r \in Reader |-> Nothing]
    /\ cache' = Nothing
    /\ UNCHANGED <<now, row, current, closedAt>>

(* Time passes, except that a read ends within its time-out.               *)
Tick ==
    /\ now < MaxTime
    /\ \A r \in Reader : reading[r] \in Snapshot => now - reading[r].at < ReadTime
    /\ now' = now + 1
    /\ UNCHANGED <<row, current, worker, reading, cache, closedAt, reanchors>>

-----------------------------------------------------------------------------
Next ==
    \/ \E o \in Operator :
         ReadControl(o) \/ UpdateFails(o) \/ \E open \in BOOLEAN : UpdateControl(o, open)
    \/ \E r \in Reader : AskStore(r) \/ ReadRow(r) \/ StoreState(r) \/ ReadFails(r)
    \/ \E t \in Thread : Start(t) \/ Stop(t) \/ WorkerEnds(t)
    \/ Restart
    \/ Tick

Spec == Init /\ [][Next]_vars

-----------------------------------------------------------------------------
(* Properties                                                              *)

(* However slow the reads, however many threads refresh, and whatever      *)
(* fails: once the row has been closed for longer than the age limit and   *)
(* the longest read together, no order passes the gate. The age alone is   *)
(* not the bound, because it is counted from the end of the read           *)
(* (ControlPlaneGate.refresh).                                             *)
StopTakesEffect ==
    ~row.open /\ now - closedAt > MaxAge + ReadTime => ~OrdersAllowed

(* An update only ever replaces the row it read: an enable that read the   *)
(* row before an emergency stop cannot undo the stop. That it was asked    *)
(* for before it read the row is not compared (set_execution_control).     *)
NoLostUpdate ==
    [][row' # row => \E o \in Operator : current[o] = row /\ current'[o] = Nothing]_vars

(* In an executor that refreshes from one thread at a time, the cache      *)
(* never goes back to an older row, also when a worker is stopped in the   *)
(* middle of a read and another is started                                 *)
(* (ControlPlaneRefreshWorker.start).                                      *)
CacheMovesForward ==
    [][~reanchors /\ cache # Nothing /\ cache' # Nothing =>
           cache'.snapshot.row.version >= cache.snapshot.row.version]_vars
-----------------------------------------------------------------------------
(* Inductive invariants                                                    *)

(* A snapshot was read in the past, at most one read time ago when it is   *)
(* stored at time t; and if it lets orders through although the row does   *)
(* not, then the row was closed after it was read.                         *)
SnapshotInv(s, t) ==
    /\ s.at <= t
    /\ t <= s.at + ReadTime
    /\ s.row.open /\ ~row.open => s.at <= closedAt

AgeInv ==
    /\ closedAt <= now
    /\ \A r \in Reader : reading[r] \in Snapshot => SnapshotInv(reading[r], now)
    /\ cache # Nothing =>
         SnapshotInv(cache.snapshot, cache.refreshed) /\ cache.refreshed <= now

(* Versions name rows: no operator holds a row of the current version that *)
(* is not the current row.                                                 *)
VersionInv ==
    \A o \in Operator : current[o] # Nothing =>
        /\ current[o].version <= row.version
        /\ current[o].version = row.version => current[o] = row

(* One reader at a time, unless the executor re-anchors: at most one     *)
(* worker is alive, the main thread does not read beside it, and a thread  *)
(* that is off does not read; what is being read is not older than the     *)
(* cache.                                                                  *)
OneReader ==
    /\ \A t, u \in Thread : Alive(t) /\ Alive(u) => t = u
    /\ \A t \in Thread : reading[t] # Nothing => Alive(t)
    /\ reading[Main] # Nothing => \A t \in Thread : ~Alive(t)
    /\ \A r \in Reader : reading[r] \in Snapshot =>
         /\ reading[r].row.version <= row.version
         /\ cache # Nothing => cache.snapshot.row.version <= reading[r].row.version
    /\ cache # Nothing => cache.snapshot.row.version <= row.version

OneReaderInv == ~reanchors => OneReader
=============================================================================
