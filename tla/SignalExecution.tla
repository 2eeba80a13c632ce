-------------------------- MODULE SignalExecution --------------------------
(***************************************************************************)
(* From a durable signal to a broker position: the executor                *)
(* (execution/demo_autotrade.py), the router (execution/router.py), the    *)
(* duplicate guard and its file, the submission of the cTrader gateway,    *)
(* the signals table they share, and the broker at the other end.          *)
(*                                                                         *)
(* A host is one executor process. It polls the table, claims one signal   *)
(* at a time by compare-and-set, vets it, journals it as uncertain,        *)
(* submits it, verifies the protection of the position, and records the    *)
(* outcome. It may be killed between any two of these steps. The broker    *)
(* acknowledges an order before or when it fills it, and may fill or drop  *)
(* one whose reply is lost, or which it acknowledged, at any later time.   *)
(*                                                                         *)
(* Data the control does not depend on is a nondeterministic choice: what  *)
(* makes a signal ineligible, stale, or fail preflight, and whether the    *)
(* text of an error matches TRANSIENT_ERROR_MARKERS.                       *)
(***************************************************************************)
EXTENDS Naturals, FiniteSets, DuplicateGuard

CONSTANTS
    Host,           \* executor processes
    Durable,        \* the hosts whose state file survives a restart
    Symbol,         \* traded symbols
    SymbolOf,       \* the symbol of each signal
    MaxPositions,   \* demo_safety.max_concurrent_positions
    MaxAttempts,    \* Len(SAFE_RETRY_DELAYS_SECONDS) + 1
    MaxFills,       \* bound of the model: executed orders per host and signal
    Switches,       \* bound of the model: the switches that are ever thrown
    NoSignal        \* a host that works on nothing

ASSUME HostAssumption    == Durable \subseteq Host
ASSUME SignalAssumption  == NoSignal \notin Signal /\ SymbolOf \in [Signal -> Symbol]
ASSUME BoundsAssumption  == /\ MaxPositions \in Nat
                            /\ MaxAttempts \in Nat \ {0}
                            /\ MaxFills \in Nat

VARIABLES
    table,      \* signals.state of each row
    pc,         \* where the host is in poll_once / execute
    todo,       \* the rows the current poll read and has not handled
    cur,        \* the signal the host works on
    attempt,    \* number of the current call of router.execute
    fault,      \* class of the error text the retry decision will read
    latch,      \* router._post_fill_protection_block, as a class of its code
    guard,      \* the duplicate guard in memory
    journal,    \* the duplicate guard's file
    wire,       \* orders sent whose fate the broker has not decided
    fills,      \* how many orders of a host for a signal the broker executed
    open,       \* open positions
    bare,       \* open positions without stop loss and take profit
    killed,     \* the kill switch
    permit,     \* the cached control plane lets orders through
    sinceHalt,  \* history: orders a host sent since the system was halted
    late,       \* history: orders filled after their host was done with them
    reoffered   \* history: signals put back on offer by a host that had
                \* recorded them as executed

hostVars   == <<pc, todo, cur, attempt, fault, latch>>
guardVars  == <<guard, journal>>
brokerVars == <<wire, fills, open, bare>>
switchVars == <<killed, permit>>
history    == <<sinceHalt, late, reoffered>>
vars == <<table, hostVars, guardVars, brokerVars, switchVars, history>>

Order == Host \X Signal
Fault == {"transient", "permanent"}

(* The steps between a successful claim and the end of the signal.         *)
Holding == {"claimed", "vetting", "vetted", "quarantined", "waiting", "accepted",
            "verified", "unverified", "refused", "failed"}
Step == {"idle", "scan", "counted", "exposed"} \cup Holding

TypeOK ==
    /\ table \in [Signal -> {"EXECUTION_READY", "COOLDOWN"}]
    /\ pc \in [Host -> Step]
    /\ todo \in [Host -> SUBSET Signal]
    /\ cur \in [Host -> Signal \cup {NoSignal}]
    /\ \A p \in Host : cur[p] = NoSignal <=> pc[p] \in {"idle", "scan"}
    /\ attempt \in [Host -> 0 .. MaxAttempts]
    /\ fault \in [Host -> Fault \cup {"none"}]
    /\ latch \in [Host -> Fault \cup {"none"}]
    /\ guard \in [Host -> Guard]
    /\ journal \in [Host -> Journal]
    /\ wire \subseteq Order
    /\ fills \in [Host -> [Signal -> Nat]]
    /\ open \subseteq Order
    /\ bare \subseteq open
    /\ killed \in BOOLEAN
    /\ permit \in BOOLEAN
    /\ sinceHalt \in [Host -> Nat]
    /\ late \subseteq Order
    /\ reoffered \subseteq Signal

Init ==
    /\ table = [s \in Signal |-> "EXECUTION_READY"]
    /\ pc = [p \in Host |-> "idle"]
    /\ todo = [p \in Host |-> {}]
    /\ cur = [p \in Host |-> NoSignal]
    /\ attempt = [p \in Host |-> 0]
    /\ fault = [p \in Host |-> "none"]
    /\ latch = [p \in Host |-> "none"]
    /\ guard = [p \in Host |-> Load(EmptyJournal)]
    /\ journal = [p \in Host |-> EmptyJournal]
    /\ wire = {}
    /\ fills = [p \in Host |-> [s \in Signal |-> 0]]
    /\ open = {}
    /\ bare = {}
    /\ killed = FALSE
    /\ permit = TRUE
    /\ sinceHalt = [p \in Host |-> 0]
    /\ late = {}
    /\ reoffered = {}

-----------------------------------------------------------------------------
(* Helpers                                                                 *)

Goto(p, label) == pc' = [pc EXCEPT ![p] = label]

(* The host works on no signal.                                            *)
Forget(p) ==
    /\ cur' = [cur EXCEPT ![p] = NoSignal]
    /\ attempt' = [attempt EXCEPT ![p] = 0]
    /\ fault' = [fault EXCEPT ![p] = "none"]

(* Faults for the mutation check, each a plausible slip in the helper it   *)
(* is named after.                                                         *)
Offered_Always(s)              == s \in Signal
CapacityLeft_OffByOne          == Cardinality(open) <= MaxPositions
SafetyBlocked_NoKillSwitch(p)  == latch[p] # "none"
SafetyBlocked_NoLatch(p)       == killed /\ p \in Host
AttemptsLeft_OffByOne(p)       == attempt[p] <= MaxAttempts
Retryable_Uncertain(p)         == fault[p] = "transient"
Finish_KeepsRow(p) == Goto(p, "scan") /\ Forget(p) /\ UNCHANGED todo
ExposureClear_AnySymbol(s)     == s \in Signal /\ bare = {}
ExposureClear_Protected(s)     == \A o \in open \ bare : SymbolOf[o[2]] # SymbolOf[s]

Offered(s) == table[s] = "EXECUTION_READY"

Settling(p, s) == pc[p] \in Holding /\ cur[p] = s

(* The current signal is done: the poll goes on with the next row, and the *)
(* attempt and the error of this one are forgotten.                        *)
Finish(p) ==
    /\ Goto(p, "scan")
    /\ todo' = [todo EXCEPT ![p] = @ \ {cur[p]}]
    /\ Forget(p)

(* router.execute raised: the executor decides what to do with the signal. *)
Fail(p, f) ==
    /\ Goto(p, "failed")
    /\ fault' = [fault EXCEPT ![p] = f]

Halted == killed \/ ~permit

SafetyBlocked(p) == killed \/ latch[p] # "none"

(* The class of the error a failed dynamic-safety check raises: the kill   *)
(* switch is looked at first, then the latch, then the age of the signal.  *)
(* The latch's text carries the protection code, so it has its class.      *)
SafetyFault(p) == IF ~killed /\ latch[p] # "none" THEN latch[p] ELSE "permanent"

CapacityLeft == Cardinality(open) < MaxPositions

(* Every position the broker shows has its protection, and none is on the  *)
(* symbol of the signal.                                                   *)
ExposureClear(s) ==
    /\ bare = {}
    /\ \A o \in open : SymbolOf[o[2]] # SymbolOf[s]

Remember(p, g) == guard' = [guard EXCEPT ![p] = g]
Save(p, g)     == journal' = [journal EXCEPT ![p] = Persist(g)]

-----------------------------------------------------------------------------
(* The executor: poll, reconcile exposure, claim                           *)

Poll(p) ==
    /\ pc[p] = "idle"
    /\ permit
    /\ Goto(p, "scan")
    /\ todo' = [todo EXCEPT ![p] = {s \in Signal : Offered(s)}]
    /\ UNCHANGED <<table, cur, attempt, fault, latch, guardVars, brokerVars,
                   switchVars, history>>

EndPoll(p) ==
    /\ pc[p] = "scan"
    /\ todo[p] = {}
    /\ Goto(p, "idle")
    /\ UNCHANGED <<table, todo, cur, attempt, fault, latch, guardVars, brokerVars,
                   switchVars, history>>

(* The row is not eligible, the broker cannot be read, or it has as many   *)
(* positions as are allowed.                                               *)
PassOver(p, s) ==
    /\ pc[p] = "scan"
    /\ s \in todo[p]
    /\ todo' = [todo EXCEPT ![p] = @ \ {s}]
    /\ UNCHANGED <<table, pc, cur, attempt, fault, latch, guardVars, brokerVars,
                   switchVars, history>>

(* The broker is read twice: first how many positions it has, then which.  *)
PassCapacity(p, s) ==
    /\ pc[p] = "scan"
    /\ s \in todo[p]
    /\ CapacityLeft
    /\ Goto(p, "counted")
    /\ cur' = [cur EXCEPT ![p] = s]
    /\ UNCHANGED <<table, todo, attempt, fault, latch, guardVars, brokerVars,
                   switchVars, history>>

PassExposure(p) ==
    /\ pc[p] = "counted"
    /\ ExposureClear(cur[p])
    /\ Goto(p, "exposed")
    /\ UNCHANGED <<table, todo, cur, attempt, fault, latch, guardVars, brokerVars,
                   switchVars, history>>

ExposureBlocks(p) ==
    /\ pc[p] = "counted"
    /\ Finish(p)
    /\ UNCHANGED <<table, latch, guardVars, brokerVars, switchVars,
                   history>>

Claim(p) ==
    /\ pc[p] = "exposed"
    /\ Offered(cur[p])
    /\ table' = [table EXCEPT ![cur[p]] = "COOLDOWN"]
    /\ Goto(p, "claimed")
    /\ attempt' = [attempt EXCEPT ![p] = 1]
    /\ UNCHANGED <<todo, cur, fault, latch, guardVars, brokerVars, switchVars,
                   history>>

(* The row is gone, or the call fails; a call that fails may have been     *)
(* applied by the store before its answer was lost.                        *)
ClaimFails(p) ==
    /\ pc[p] = "exposed"
    /\ table' \in {table, [table EXCEPT ![cur[p]] = "COOLDOWN"]}
    /\ Finish(p)
    /\ UNCHANGED <<latch, guardVars, brokerVars, switchVars,
                   history>>

-----------------------------------------------------------------------------
(* The router: router.execute up to the submission                         *)

Enter(p) ==
    /\ pc[p] = "claimed"
    /\ ~SafetyBlocked(p)
    /\ ~IsDuplicate(guard[p], cur[p])
    /\ Remember(p, TryClaim(guard[p], cur[p]))
    /\ Goto(p, "vetting")
    /\ UNCHANGED <<table, todo, cur, attempt, fault, latch, journal, brokerVars,
                   switchVars, history>>

(* Kill switch, latch, stale signal or duplicate.                          *)
EnterBlocked(p) ==
    /\ pc[p] = "claimed"
    /\ Fail(p, SafetyFault(p))
    /\ UNCHANGED <<table, todo, cur, attempt, latch, guardVars, brokerVars,
                   switchVars, history>>

(* Session, account, environment gates, position count, control plane and  *)
(* preflight all pass.                                                     *)
Vet(p) ==
    /\ pc[p] = "vetting"
    /\ CapacityLeft
    /\ permit
    /\ Goto(p, "vetted")
    /\ UNCHANGED <<table, todo, cur, attempt, fault, latch, guardVars, brokerVars,
                   switchVars, history>>

VetFails(p) ==
    /\ pc[p] = "vetting"
    /\ \E f \in Fault : Fail(p, f)
    /\ Remember(p, ReleaseClaim(guard[p], cur[p]))
    /\ UNCHANGED <<table, todo, cur, attempt, latch, journal, brokerVars,
                   switchVars, history>>

(* The second look at the mutable safety state, then mark_submitting.      *)
Quarantine(p) ==
    /\ pc[p] = "vetted"
    /\ ~SafetyBlocked(p)
    /\ permit
    /\ Remember(p, MarkUncertain(guard[p], cur[p]))
    /\ Save(p, MarkUncertain(guard[p], cur[p]))
    /\ Goto(p, "quarantined")
    /\ UNCHANGED <<table, todo, cur, attempt, fault, latch, brokerVars,
                   switchVars, history>>

(* The file could not be written: nothing is sent, the memory of the       *)
(* process keeps the signal uncertain.                                     *)
QuarantineUnsaved(p) ==
    /\ pc[p] = "vetted"
    /\ ~SafetyBlocked(p)
    /\ permit
    /\ Remember(p, ReleaseClaim(MarkUncertain(guard[p], cur[p]), cur[p]))
    /\ \E f \in Fault : Fail(p, f)
    /\ UNCHANGED <<table, todo, cur, attempt, latch, journal, brokerVars,
                   switchVars, history>>

RecheckFails(p) ==
    /\ pc[p] = "vetted"
    /\ Fail(p, SafetyFault(p))
    /\ Remember(p, ReleaseClaim(guard[p], cur[p]))
    /\ UNCHANGED <<table, todo, cur, attempt, latch, journal, brokerVars,
                   switchVars, history>>

Submit(p) ==
    /\ pc[p] = "quarantined"
    /\ wire' = wire \cup {<<p, cur[p]>>}
    /\ sinceHalt' = [sinceHalt EXCEPT ![p] = IF Halted THEN @ + 1 ELSE @]
    /\ Goto(p, "waiting")
    /\ UNCHANGED <<table, todo, cur, attempt, fault, latch, guardVars, fills, open,
                   bare, switchVars, late, reoffered>>

-----------------------------------------------------------------------------
(* The broker and the network                                              *)

Awaits(p, s) == pc[p] = "waiting" /\ cur[p] = s

(* The broker acknowledges the order it is about to fill.                  *)
BrokerAccepts(p, s) ==
    /\ <<p, s>> \in wire
    /\ Awaits(p, s)
    /\ Goto(p, "accepted")
    /\ UNCHANGED <<table, todo, cur, attempt, fault, latch, guardVars, brokerVars,
                   switchVars, history>>

(* The order becomes a position, with or without its server-side           *)
(* protection; if the host still waits and the reply is not lost, the fill *)
(* is its acceptance.                                                      *)
BrokerFills(p, s) ==
    /\ <<p, s>> \in wire
    /\ fills[p][s] < MaxFills
    /\ wire' = wire \ {<<p, s>>}
    /\ fills' = [fills EXCEPT ![p][s] = @ + 1]
    /\ open' = open \cup {<<p, s>>}
    /\ bare' \in {bare, bare \cup {<<p, s>>}}
    /\ late' = IF Settling(p, s) THEN late ELSE late \cup {<<p, s>>}
    /\ pc' \in {pc} \cup (IF Awaits(p, s) THEN {[pc EXCEPT ![p] = "accepted"]} ELSE {})
    /\ UNCHANGED <<table, todo, cur, attempt, fault, latch, guardVars, switchVars,
                   sinceHalt, reoffered>>

(* A definitive refusal; its text may contain a transient marker.          *)
BrokerRefuses(p, s) ==
    /\ <<p, s>> \in wire
    /\ Awaits(p, s)
    /\ wire' = wire \ {<<p, s>>}
    /\ Goto(p, "refused")
    /\ fault' \in {[fault EXCEPT ![p] = f] : f \in Fault}
    /\ UNCHANGED <<table, todo, cur, attempt, latch, guardVars, fills, open, bare,
                   switchVars, history>>

(* The order never reaches the broker, its refusal never comes back, or it *)
(* is dropped after it was acknowledged.                                   *)
OrderVanishes(p, s) ==
    /\ <<p, s>> \in wire
    /\ wire' = wire \ {<<p, s>>}
    /\ UNCHANGED <<table, hostVars, guardVars, fills, open, bare, switchVars,
                   history>>

PositionCloses(o) ==
    /\ o \in open
    /\ open' = open \ {o}
    /\ bare' = bare \ {o}
    /\ late' = late \ {o}
    /\ UNCHANGED <<table, hostVars, guardVars, wire, fills, switchVars, sinceHalt,
                   reoffered>>

(* Another worker, the trader or an amend that arrives late attaches the   *)
(* missing protection.                                                     *)
PositionRepaired(o) ==
    /\ o \in bare
    /\ bare' = bare \ {o}
    /\ UNCHANGED <<table, hostVars, guardVars, wire, fills, open, switchVars,
                   history>>

-----------------------------------------------------------------------------
(* The router: after the submission                                        *)

(* Fault for the mutation check: a timeout taken for a refusal.            *)
OutcomeUnknown_Refused(p) ==
    /\ pc[p] = "waiting"
    /\ \E f \in Fault : Fail(p, f)
    /\ Remember(p, ResolveRefused(guard[p], cur[p]))
    /\ Save(p, ResolveRefused(guard[p], cur[p]))
    /\ UNCHANGED <<table, todo, cur, attempt, latch, brokerVars, switchVars,
                   history>>

(* No reply in time, or a transport error: the outcome is unknown and the  *)
(* signal stays quarantined.                                               *)
OutcomeUnknown(p) ==
    /\ pc[p] = "waiting"
    /\ \E f \in Fault : Fail(p, f)
    /\ UNCHANGED <<table, todo, cur, attempt, latch, guardVars, brokerVars,
                   switchVars, history>>

(* Still inside the submission: the protection manager finds the position  *)
(* and its stop loss and take profit, or attaches them and reads them back.*)
ProtectionVerified(p) ==
    /\ pc[p] = "accepted"
    /\ <<p, cur[p]>> \in open
    /\ bare' = bare \ {<<p, cur[p]>>}
    /\ Goto(p, "verified")
    /\ UNCHANGED <<table, todo, cur, attempt, fault, latch, guardVars, wire, fills,
                   open, switchVars, history>>

(* It gives up: no position to be seen in time, a reply lost, an amend     *)
(* refused. An amend that was sent may have been applied.                  *)
ProtectionUnverified(p) ==
    /\ pc[p] = "accepted"
    /\ bare' \in {bare, bare \ {<<p, cur[p]>>}}
    /\ Goto(p, "unverified")
    /\ UNCHANGED <<table, todo, cur, attempt, fault, latch, guardVars, wire, fills,
                   open, switchVars, history>>

RecordVerified(p) ==
    /\ pc[p] = "verified"
    /\ Remember(p, MarkExecuted(guard[p], cur[p]))
    /\ Save(p, MarkExecuted(guard[p], cur[p]))
    /\ Finish(p)
    /\ UNCHANGED <<table, latch, brokerVars, switchVars, history>>

(* The latch keeps the protection code; the error carries code and message.*)
RecordUnverified(p) ==
    /\ pc[p] = "unverified"
    /\ Remember(p, MarkExecuted(guard[p], cur[p]))
    /\ Save(p, MarkExecuted(guard[p], cur[p]))
    /\ \E code, message \in Fault :
         /\ latch' = [latch EXCEPT ![p] = code]
         /\ Fail(p, IF code = "transient" THEN code ELSE message)
    /\ UNCHANGED <<table, todo, cur, attempt, brokerVars, switchVars, history>>

(* The file could not be written: the memory of the process knows the      *)
(* signal as executed, the file still holds it as uncertain.               *)
RecordExecutedUnsaved(p) ==
    /\ pc[p] \in {"verified", "unverified"}
    /\ Remember(p, MarkExecuted(guard[p], cur[p]))
    /\ \E f \in Fault : Fail(p, f)
    /\ UNCHANGED <<table, todo, cur, attempt, latch, journal, brokerVars,
                   switchVars, history>>

(* The quarantine is lifted and the claim released; the error keeps the    *)
(* class of the broker's text.                                             *)
RecordRefused(p) ==
    /\ pc[p] = "refused"
    /\ LET g == ReleaseClaim(ResolveRefused(guard[p], cur[p]), cur[p])
       IN  Remember(p, g) /\ Save(p, g)
    /\ Goto(p, "failed")
    /\ UNCHANGED <<table, todo, cur, attempt, fault, latch, brokerVars, switchVars,
                   history>>

RecordRefusedUnsaved(p) ==
    /\ pc[p] = "refused"
    /\ Remember(p, ResolveRefused(guard[p], cur[p]))
    /\ \E f \in Fault : Fail(p, f)
    /\ UNCHANGED <<table, todo, cur, attempt, latch, journal, brokerVars,
                   switchVars, history>>

-----------------------------------------------------------------------------
(* The executor: retry, requeue or give up                                 *)

Retryable(p) == ~IsUncertain(guard[p], cur[p]) /\ fault[p] = "transient"

AttemptsLeft(p) == attempt[p] < MaxAttempts

(* A fault for the mutation check: the attempts are not counted.           *)
Retry_NotCounted(p) ==
    /\ pc[p] = "failed"
    /\ Retryable(p)
    /\ AttemptsLeft(p)
    /\ fault' = [fault EXCEPT ![p] = "none"]
    /\ Goto(p, "claimed")
    /\ UNCHANGED <<attempt, table, todo, cur, latch, guardVars, brokerVars,
                   switchVars, history>>

Retry(p) ==
    /\ pc[p] = "failed"
    /\ Retryable(p)
    /\ AttemptsLeft(p)
    /\ attempt' = [attempt EXCEPT ![p] = @ + 1]
    /\ fault' = [fault EXCEPT ![p] = "none"]
    /\ Goto(p, "claimed")
    /\ UNCHANGED <<table, todo, cur, latch, guardVars, brokerVars,
                   switchVars, history>>

GiveUp(p) ==
    /\ pc[p] = "failed"
    /\ ~Retryable(p)
    /\ Finish(p)
    /\ UNCHANGED <<table, latch, guardVars, brokerVars, switchVars,
                   history>>

(* COOLDOWN -> EXECUTION_READY; the update may fail.                       *)
Requeue(p) ==
    /\ pc[p] = "failed"
    /\ Retryable(p)
    /\ ~AttemptsLeft(p)
    /\ \/ /\ table' = [table EXCEPT ![cur[p]] = "EXECUTION_READY"]
          /\ reoffered' = reoffered \cup ({cur[p]} \cap guard[p].seen)
       \/ UNCHANGED <<table, reoffered>>
    /\ Finish(p)
    /\ UNCHANGED <<latch, guardVars, brokerVars, switchVars,
                   sinceHalt, late>>

-----------------------------------------------------------------------------
(* Restarts and switches                                                   *)

(* The process dies and a new one starts: it reads what its state file     *)
(* holds, if the file outlived the old process.                            *)
Restart(p) ==
    LET j == IF p \in Durable THEN journal[p] ELSE EmptyJournal
    IN  /\ Goto(p, "idle")
        /\ todo' = [todo EXCEPT ![p] = {}]
        /\ Forget(p)
        /\ latch' = [latch EXCEPT ![p] = "none"]
        /\ Remember(p, Load(j))
        /\ journal' = [journal EXCEPT ![p] = j]
        /\ UNCHANGED <<table, brokerVars, switchVars, history>>

(* The operator engages or releases the kill switch; the control plane's   *)
(* cached state starts or stops allowing orders.                           *)
SetSwitches ==
    /\ \/ "kill" \in Switches /\ killed' = ~killed /\ UNCHANGED permit
       \/ "control" \in Switches /\ permit' = ~permit /\ UNCHANGED killed
    /\ sinceHalt' = IF Halted /\ Halted' THEN sinceHalt ELSE [p \in Host |-> 0]
    /\ UNCHANGED <<table, hostVars, guardVars, brokerVars, late, reoffered>>

-----------------------------------------------------------------------------
HostStep(p) ==
    \/ Poll(p) \/ EndPoll(p)
    \/ \E s \in Signal : PassOver(p, s) \/ PassCapacity(p, s)
    \/ PassExposure(p) \/ ExposureBlocks(p)
    \/ Claim(p) \/ ClaimFails(p)
    \/ Enter(p) \/ EnterBlocked(p)
    \/ Vet(p) \/ VetFails(p)
    \/ Quarantine(p) \/ QuarantineUnsaved(p) \/ RecheckFails(p)
    \/ Submit(p) \/ OutcomeUnknown(p)
    \/ ProtectionVerified(p) \/ ProtectionUnverified(p)
    \/ RecordVerified(p) \/ RecordUnverified(p) \/ RecordExecutedUnsaved(p)
    \/ RecordRefused(p) \/ RecordRefusedUnsaved(p)
    \/ Retry(p) \/ GiveUp(p) \/ Requeue(p)

BrokerStep ==
    \/ \E p \in Host, s \in Signal :
         \/ BrokerAccepts(p, s) \/ BrokerFills(p, s)
         \/ BrokerRefuses(p, s) \/ OrderVanishes(p, s)
    \/ \E o \in Order : PositionCloses(o) \/ PositionRepaired(o)

Next ==
    \/ \E p \in Host : HostStep(p) \/ Restart(p)
    \/ BrokerStep
    \/ SetSwitches

Spec == Init /\ [][Next]_vars

(* A host that is not killed goes on: every call it makes has a timeout,   *)
(* and the waits between attempts are bounded.                             *)
FairSpec == Spec /\ \A p \in Host : WF_vars(HostStep(p))

-----------------------------------------------------------------------------
(* Properties                                                              *)

(* A host whose state file survives restarts never has more than one order *)
(* of a signal executed, whatever it forgets, retries or requeues          *)
(* (duplicate_guard.py: blocked until explicit reconciliation).            *)
HostAtMostOnce == \A p \in Durable, s \in Signal : fills[p][s] <= 1

(* Write-ahead: an order on its way or executed is in the host's file, so  *)
(* a crash at any point cannot turn it into a blind retry (router.py:256). *)
JournalCoversOrders ==
    \A p \in Durable, s \in Signal :
        <<p, s>> \in wire \/ fills[p][s] > 0 => s \in Known(journal[p])

(* Two hosts never work on the same signal, and the row they work on is    *)
(* not on offer (claim_signal_for_execution).                              *)
ClaimExclusive ==
    \A p, q \in Host, s \in Signal :
        Settling(p, s) => table[s] = "COOLDOWN" /\ (Settling(q, s) => p = q)

(* A signal with an order the broker may still execute is not on offer,    *)
(* not even after a crash that loses the guard, unless an executor put it  *)
(* back on offer after it had recorded it as executed.                     *)
OpenOrderNotOffered ==
    \A p \in Host, s \in Signal \ reoffered : <<p, s>> \in wire => table[s] = "COOLDOWN"

(* Over all hosts, durable or not, a signal is executed at most once unless*)
(* an executor put it back on offer after it had recorded it as executed.  *)
AtMostOnceUnlessReoffered ==
    \A s \in Signal \ reoffered :
        /\ \A p \in Host : fills[p][s] <= 1
        /\ \A p, q \in Host : fills[p][s] > 0 /\ fills[q][s] > 0 => p = q

(* After a kill switch or a control-plane stop a host sends at most the one*)
(* order that had passed its last check.                                   *)
AtMostOneOrderAfterHalt ==
    Halted => \A p \in Host : sinceHalt[p] <= 1

(* One durable host: two positions on a symbol happen only when the order  *)
(* of one of them was filled after the host had let it go, as of unknown   *)
(* outcome or acknowledged and not yet filled (_broker_exposure_block).    *)
StackingOnlyFromLate ==
    \A o1, o2 \in open \ late : SymbolOf[o1[2]] = SymbolOf[o2[2]] => o1 = o2

(* One durable host: apart from such orders the capacity limit holds.      *)
CapacityUnlessLate == Cardinality(open \ late) <= MaxPositions

(* One durable host: an order is never sent while a position stands without*)
(* stop loss and take profit, such orders apart; not even by a process     *)
(* restarted without the latch (BROKER_POSITION_UNPROTECTED).              *)
NoOrderOverBarePosition ==
    [][wire' \subseteq wire \/ bare \subseteq late]_vars

(* Once a fill could not be protected, that process sends nothing more     *)
(* until it is restarted, even after the position is closed or repaired.   *)
LatchStopsOrders ==
    [][\A p \in Host : latch[p] # "none" =>
           \A s \in Signal : <<p, s>> \in wire' => <<p, s>> \in wire]_vars

(* Retries are bounded: a poll that starts ends, whatever the broker and   *)
(* the store answer.                                                       *)
PollEnds == \A p \in Host : pc[p] # "idle" ~> pc[p] = "idle"

(* The steps of a poll in the order a signal takes them.                   *)
Phase == [scan |-> 0, counted |-> 1, exposed |-> 2, claimed |-> 3, vetting |-> 4,
          vetted |-> 5, quarantined |-> 6, waiting |-> 7, accepted |-> 8,
          verified |-> 9, unverified |-> 9, refused |-> 9, failed |-> 10]

(* A row is done, or it gets its next attempt, or that goes a step further.*)
Nearer(p) ==
    \/ pc'[p] = "idle"
    \/ todo'[p] \subseteq todo[p] /\ todo'[p] # todo[p]
    \/ /\ todo'[p] = todo[p]
       /\ \/ attempt'[p] > attempt[p]
          \/ attempt'[p] = attempt[p] /\ Phase[pc'[p]] > Phase[pc[p]]

(* Why a poll ends: every step of its host brings it nearer to its end, a  *)
(* retry included, and no other host, broker or operator takes it back     *)
(* (_execute_claimed_with_retry, and the one pass over the rows).          *)
PollGoesForward ==
    [][\A p \in Host : pc[p] # "idle" =>
           /\ HostStep(p) => Nearer(p)
           /\ Nearer(p) \/ UNCHANGED <<pc[p], todo[p], cur[p], attempt[p]>>]_vars

(* What demo_autotrade.py:154 says of a requeue: "only after proven        *)
(* pre-submit failure".                                                    *)
RequeueOnlyBeforeFill ==
    [][\A s \in Signal : table[s] = "COOLDOWN" /\ table'[s] = "EXECUTION_READY" =>
           \A p \in Host : fills[p][s] = 0]_vars
-----------------------------------------------------------------------------
(* Inductive invariants                                                    *)

Quarantining == {"quarantined", "waiting", "accepted", "verified", "unverified",
                 "refused"}

(* An order of the host for the signal is on its way or was executed.      *)
Ordered(p, s) == <<p, s>> \in wire \/ fills[p][s] > 0

(* Of one host with a durable file and one signal: an order on its way or  *)
(* executed is known to the guard and to the file, and a host about to     *)
(* submit has nothing out for the signal.                                  *)
JournalInv(p, s) ==
    /\ Ordered(p, s) => s \in Known(guard[p]) /\ s \in Known(journal[p])
    /\ <<p, s>> \in wire => fills[p][s] = 0
    /\ fills[p][s] <= 1
    /\ cur[p] = s =>
         /\ pc[p] \in {"vetting", "vetted"} => s \notin Known(guard[p])
         /\ pc[p] \in Quarantining =>
              s \in guard[p].uncertain /\ s \in journal[p].uncertain
         /\ pc[p] \in {"quarantined", "refused"} => ~ Ordered(p, s)

(* One host at a time settles a signal, and the row is not on offer.       *)
ClaimInv(s) ==
    \A p, q \in Host : Settling(p, s) =>
        table[s] = "COOLDOWN" /\ (Settling(q, s) => p = q)

(* The steps at which a host may handle a signal it sent an order for.     *)
AfterOrder == {"waiting", "accepted", "verified", "unverified", "failed", "claimed"}

(* Of one signal over all hosts: while it is being submitted the guard has *)
(* it in quarantine; and once it is ordered, unless it was put back on     *)
(* offer, there is one order of it, the row is not on offer, and at most   *)
(* the host that sent the order still handles it, and knows it.            *)
OrderInv(s) ==
    /\ \A p \in Host : cur[p] = s /\ pc[p] \in Quarantining => s \in guard[p].uncertain
    /\ s \notin reoffered => \A p, q \in Host : Ordered(p, s) =>
         /\ fills[p][s] <= 1
         /\ <<p, s>> \in wire => fills[p][s] = 0
         /\ table[s] = "COOLDOWN"
         /\ Ordered(q, s) => p = q
         /\ Settling(q, s) =>
              q = p /\ pc[p] \in AfterOrder /\ s \in Known(guard[p])

(* Of one host: while latched it does not stand right before a submission; *)
(* while the system is halted it has sent at most one order, none if it    *)
(* still stands there.                                                     *)
StopInv(p) ==
    /\ latch[p] # "none" => pc[p] # "quarantined"
    /\ ~ Halted => sinceHalt[p] = 0
    /\ sinceHalt[p] <= 1
    /\ pc[p] = "quarantined" => sinceHalt[p] = 0

(* Of one host: the row it works on is one its poll still has to handle,   *)
(* and before its claim no attempt is counted.                             *)
WorkInv(p) == /\ cur[p] # NoSignal => cur[p] \in todo[p]
              /\ pc[p] \notin Holding => attempt[p] = 0

(* The steps at which a host has found the exposure clear.                 *)
Cleared == {"exposed"} \cup Holding

(* Of a single host: an open position was filled; and since it found the   *)
(* exposure clear, the positions that are not late are of its own signal,  *)
(* or protected and on another symbol.                                     *)
ExposureInv(p) ==
    /\ \A o \in open : fills[o[1]][o[2]] > 0
    /\ pc[p] \in Cleared =>
         /\ \A o \in open \ late :
              o[2] = cur[p] \/ SymbolOf[o[2]] # SymbolOf[cur[p]]
         /\ \A o \in bare \ late : o[2] = cur[p]

(* Of a single host: since it counted the positions, those that are        *)
(* neither late nor of its own signal leave room for one more.             *)
RoomInv(p) ==
    /\ IsFiniteSet(open)
    /\ pc[p] \notin {"idle", "scan"} =>
         Cardinality({o \in open \ late : o[2] # cur[p]}) < MaxPositions
=============================================================================
