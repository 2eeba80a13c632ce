----------------------- MODULE SignalExecution_proofs -----------------------
(***************************************************************************)
(* Proofs about SignalExecution for any set of hosts, signals and symbols. *)
(***************************************************************************)
EXTENDS SignalExecution, TLAPS

(* The operators of the duplicate guard keep its type.                     *)
LEMMA GuardTypes ==
    ASSUME NEW g \in Guard, NEW s \in Signal
    PROVE  /\ TryClaim(g, s) \in Guard
           /\ ReleaseClaim(g, s) \in Guard
           /\ MarkUncertain(g, s) \in Guard
           /\ MarkExecuted(g, s) \in Guard
           /\ ResolveRefused(g, s) \in Guard
           /\ Persist(g) \in Journal
  BY DEF Guard, Journal, TryClaim, ReleaseClaim, MarkUncertain, MarkExecuted,
         ResolveRefused, Persist

(* What is in a state file loads as a guard, and no file as an empty one.  *)
LEMMA JournalTypes ==
    /\ EmptyJournal \in Journal
    /\ \A j \in Journal : Load(j) \in Guard
  BY DEF EmptyJournal, Journal, Guard, Load

(* Every host step has the current signal it is about.                     *)
LEMMA CurTyped ==
    ASSUME TypeOK, NEW p \in Host, pc[p] \notin {"idle", "scan"}
    PROVE  cur[p] \in Signal
  BY DEF TypeOK

(* The initial state is well typed.                                        *)
LEMMA TypeInit == Init => TypeOK
  <1> SUFFICES ASSUME Init PROVE TypeOK
    OBVIOUS
  <1>1. guard \in [Host -> Guard] /\ journal \in [Host -> Journal]
    BY JournalTypes DEF Init
  <1>2. wire \subseteq Order /\ open \subseteq Order /\ bare \subseteq open
    BY DEF Init
  <1>3. \A p \in Host : cur[p] = NoSignal <=> pc[p] \in {"idle", "scan"}
    BY DEF Init
  <1>4. fills \in [Host -> [Signal -> Nat]]
    BY DEF Init
  <1>5. /\ attempt \in [Host -> 0 .. MaxAttempts]
        /\ sinceHalt \in [Host -> Nat]
    BY BoundsAssumption DEF Init
  <1>6. /\ table \in [Signal -> {"EXECUTION_READY", "COOLDOWN"}]
        /\ pc \in [Host -> Step]
        /\ fault \in [Host -> Fault \cup {"none"}]
        /\ latch \in [Host -> Fault \cup {"none"}]
    BY DEF Init, Step, Fault
  <1>7. /\ todo \in [Host -> SUBSET Signal]
        /\ cur \in [Host -> Signal \cup {NoSignal}]
        /\ killed \in BOOLEAN /\ permit \in BOOLEAN
        /\ late \subseteq Order /\ reoffered \subseteq Signal
    BY DEF Init
  <1> QED
    BY <1>1, <1>2, <1>3, <1>4, <1>5, <1>6, <1>7 DEF TypeOK

(* Every step of a host, the broker or the operator keeps the types.       *)
LEMMA TypeNext == TypeOK /\ [Next]_vars => TypeOK'
  <1> SUFFICES ASSUME TypeOK, [Next]_vars PROVE TypeOK'
    OBVIOUS
  <1> USE SignalAssumption, BoundsAssumption
      DEF TypeOK, Step, Holding, Fault, hostVars, guardVars, brokerVars, switchVars, history
  <1>1. ASSUME NEW p \in Host, Poll(p) PROVE TypeOK'
    BY <1>1 DEF Poll, Goto, Offered
  <1>2. ASSUME NEW p \in Host, EndPoll(p) PROVE TypeOK'
    BY <1>2 DEF EndPoll, Goto
  <1>3. ASSUME NEW p \in Host, PassExposure(p) PROVE TypeOK'
    BY <1>3 DEF PassExposure, Goto
  <1>4. ASSUME NEW p \in Host, ExposureBlocks(p) PROVE TypeOK'
    BY <1>4, CurTyped DEF ExposureBlocks, Finish, Forget, Goto
  <1>5. ASSUME NEW p \in Host, Claim(p) PROVE TypeOK'
    <2>1. cur[p] \in Signal
      BY <1>5, CurTyped DEF Claim
    <2>2. attempt' \in [Host -> 0 .. MaxAttempts]
      BY <1>5 DEF Claim
    <2> QED
      BY <1>5, <2>1, <2>2 DEF Claim, Goto
  <1>6. ASSUME NEW p \in Host, ClaimFails(p) PROVE TypeOK'
    BY <1>6, CurTyped DEF ClaimFails, Finish, Forget, Goto
  <1>7. ASSUME NEW p \in Host, Enter(p) PROVE TypeOK'
    BY <1>7, CurTyped, GuardTypes
       DEF Enter, Remember, Goto
  <1>8. ASSUME NEW p \in Host, EnterBlocked(p) PROVE TypeOK'
    BY <1>8 DEF EnterBlocked, Fail, Goto, SafetyFault
  <1>9. ASSUME NEW p \in Host, Vet(p) PROVE TypeOK'
    BY <1>9 DEF Vet, Goto
  <1>10. ASSUME NEW p \in Host, VetFails(p) PROVE TypeOK'
    <2>1. ReleaseClaim(guard[p], cur[p]) \in Guard
      BY <1>10, CurTyped, GuardTypes DEF VetFails
    <2>2. PICK f \in Fault : Fail(p, f)
      BY <1>10 DEF VetFails
    <2> QED
      BY <1>10, <2>1, <2>2 DEF VetFails, Remember, Fail, Goto
  <1>11. ASSUME NEW p \in Host, Quarantine(p) PROVE TypeOK'
    BY <1>11, CurTyped, GuardTypes
       DEF Quarantine, Remember, Goto, Save
  <1>12. ASSUME NEW p \in Host, QuarantineUnsaved(p) PROVE TypeOK'
    <2>1. ReleaseClaim(MarkUncertain(guard[p], cur[p]), cur[p]) \in Guard
      BY <1>12, CurTyped, GuardTypes DEF QuarantineUnsaved
    <2>2. PICK f \in Fault : Fail(p, f)
      BY <1>12 DEF QuarantineUnsaved
    <2> QED
      BY <1>12, <2>1, <2>2 DEF QuarantineUnsaved, Remember, Fail, Goto
  <1>13. ASSUME NEW p \in Host, RecheckFails(p) PROVE TypeOK'
    BY <1>13, CurTyped, GuardTypes
       DEF RecheckFails, Remember, Fail, Goto, SafetyFault
  <1>14. ASSUME NEW p \in Host, Submit(p) PROVE TypeOK'
    <2>1. <<p, cur[p]>> \in Order
      BY <1>14, CurTyped DEF Submit, Order
    <2>2. wire' \subseteq Order
      BY <1>14, <2>1 DEF Submit
    <2>3. sinceHalt' \in [Host -> Nat]
      BY <1>14 DEF Submit
    <2> QED
      BY <1>14, <2>2, <2>3 DEF Submit, Goto
  <1>15. ASSUME NEW p \in Host, OutcomeUnknown(p) PROVE TypeOK'
    BY <1>15 DEF OutcomeUnknown, Fail, Goto
  <1>16. ASSUME NEW p \in Host, ProtectionVerified(p) PROVE TypeOK'
    BY <1>16, CurTyped DEF ProtectionVerified, Goto
  <1>17. ASSUME NEW p \in Host, ProtectionUnverified(p) PROVE TypeOK'
    BY <1>17, CurTyped DEF ProtectionUnverified, Goto
  <1>18. ASSUME NEW p \in Host, RecordVerified(p) PROVE TypeOK'
    <2>1. MarkExecuted(guard[p], cur[p]) \in Guard
      BY <1>18, CurTyped, GuardTypes DEF RecordVerified
    <2>2. guard' \in [Host -> Guard] /\ journal' \in [Host -> Journal]
      BY <1>18, <2>1, GuardTypes, CurTyped DEF RecordVerified, Remember, Save
    <2>3. pc' \in [Host -> Step] /\ \A q \in Host : cur'[q] = NoSignal <=> pc'[q] \in {"idle", "scan"}
      BY <1>18 DEF RecordVerified, Finish, Forget, Goto
    <2>4. /\ todo' \in [Host -> SUBSET Signal]
          /\ cur' \in [Host -> Signal \cup {NoSignal}]
      BY <1>18 DEF RecordVerified, Finish, Forget
    <2>5. /\ attempt' \in [Host -> 0 .. MaxAttempts]
          /\ fault' \in [Host -> Fault \cup {"none"}]
      BY <1>18 DEF RecordVerified, Finish, Forget
    <2>6. UNCHANGED <<table, latch, brokerVars, switchVars, history>>
      BY <1>18 DEF RecordVerified
    <2> QED
      BY <2>2, <2>3, <2>4, <2>5, <2>6
  <1>19. ASSUME NEW p \in Host, RecordUnverified(p) PROVE TypeOK'
    <2>1. MarkExecuted(guard[p], cur[p]) \in Guard /\ Persist(MarkExecuted(guard[p], cur[p])) \in Journal
      BY <1>19, CurTyped, GuardTypes DEF RecordUnverified
    <2>2. PICK code \in Fault, message \in Fault :
            /\ latch' = [latch EXCEPT ![p] = code]
            /\ Fail(p, IF code = "transient" THEN code ELSE message)
      BY <1>19 DEF RecordUnverified
    <2> QED
      BY <1>19, <2>1, <2>2 DEF RecordUnverified, Remember, Fail, Goto, Save
  <1>20. ASSUME NEW p \in Host, RecordExecutedUnsaved(p) PROVE TypeOK'
    <2>1. MarkExecuted(guard[p], cur[p]) \in Guard
      BY <1>20, CurTyped, GuardTypes DEF RecordExecutedUnsaved
    <2>2. PICK f \in Fault : Fail(p, f)
      BY <1>20 DEF RecordExecutedUnsaved
    <2> QED
      BY <1>20, <2>1, <2>2 DEF RecordExecutedUnsaved, Remember, Fail, Goto
  <1>21. ASSUME NEW p \in Host, RecordRefused(p) PROVE TypeOK'
    BY <1>21, CurTyped, GuardTypes
       DEF RecordRefused, Remember, Goto, Save
  <1>22. ASSUME NEW p \in Host, RecordRefusedUnsaved(p) PROVE TypeOK'
    <2>1. ResolveRefused(guard[p], cur[p]) \in Guard
      BY <1>22, CurTyped, GuardTypes DEF RecordRefusedUnsaved
    <2>2. PICK f \in Fault : Fail(p, f)
      BY <1>22 DEF RecordRefusedUnsaved
    <2> QED
      BY <1>22, <2>1, <2>2 DEF RecordRefusedUnsaved, Remember, Fail, Goto
  <1>23. ASSUME NEW p \in Host, Retry(p) PROVE TypeOK'
    BY <1>23 DEF Retry, Goto, AttemptsLeft
  <1>24. ASSUME NEW p \in Host, GiveUp(p) PROVE TypeOK'
    BY <1>24, CurTyped DEF GiveUp, Finish, Forget, Goto
  <1>25. ASSUME NEW p \in Host, Requeue(p) PROVE TypeOK'
    <2>1. cur[p] \in Signal
      BY <1>25, CurTyped DEF Requeue
    <2>2. /\ table' \in [Signal -> {"EXECUTION_READY", "COOLDOWN"}]
          /\ reoffered' \subseteq Signal
      BY <1>25, <2>1 DEF Requeue
    <2> QED
      BY <1>25, <2>1, <2>2 DEF Requeue, Finish, Forget, Goto
  <1>26. ASSUME NEW p \in Host, Restart(p) PROVE TypeOK'
    BY <1>26, JournalTypes DEF Restart, Forget, Goto, Remember, Save
  <1>27. ASSUME NEW p \in Host, NEW s \in Signal, PassOver(p, s) PROVE TypeOK'
    BY <1>27 DEF PassOver
  <1>28. ASSUME NEW p \in Host, NEW s \in Signal, PassCapacity(p, s) PROVE TypeOK'
    BY <1>28 DEF PassCapacity, Goto
  <1>29. ASSUME NEW p \in Host, NEW s \in Signal, BrokerAccepts(p, s) PROVE TypeOK'
    BY <1>29 DEF BrokerAccepts, Goto, Awaits
  <1>30. ASSUME NEW p \in Host, NEW s \in Signal, BrokerFills(p, s) PROVE TypeOK'
    <2>1. <<p, s>> \in Order /\ fills[p][s] \in Nat
      BY DEF Order
    <2>2. pc' \in [Host -> Step] /\ \A q \in Host : cur'[q] = NoSignal <=> pc'[q] \in {"idle", "scan"}
      <3>1. pc' = pc \/ (pc[p] = "waiting" /\ pc' = [pc EXCEPT ![p] = "accepted"])
        BY <1>30 DEF BrokerFills, Awaits
      <3>2. cur' = cur
        BY <1>30 DEF BrokerFills
      <3> QED
        BY <3>1, <3>2
    <2>3. fills' \in [Host -> [Signal -> Nat]]
      BY <1>30, <2>1 DEF BrokerFills
    <2>4. wire' \subseteq Order /\ open' \subseteq Order /\ bare' \subseteq open' /\ late' \subseteq Order
      BY <1>30, <2>1 DEF BrokerFills
    <2> QED
      BY <1>30, <2>2, <2>3, <2>4 DEF BrokerFills
  <1>31. ASSUME NEW p \in Host, NEW s \in Signal, BrokerRefuses(p, s) PROVE TypeOK'
    BY <1>31 DEF BrokerRefuses, Goto, Awaits
  <1>32. ASSUME NEW p \in Host, NEW s \in Signal, OrderVanishes(p, s) PROVE TypeOK'
    BY <1>32 DEF OrderVanishes
  <1>33. ASSUME NEW o \in Order, PositionCloses(o) PROVE TypeOK'
    BY <1>33 DEF PositionCloses
  <1>34. ASSUME NEW o \in Order, PositionRepaired(o) PROVE TypeOK'
    BY <1>34 DEF PositionRepaired
  <1>35. CASE SetSwitches
    BY <1>35 DEF SetSwitches
  <1>36. CASE UNCHANGED vars
    BY <1>36 DEF vars
  <1> QED
    BY <1>1, <1>2, <1>3, <1>4, <1>5, <1>6, <1>7, <1>8, <1>9, <1>10,
       <1>11, <1>12, <1>13, <1>14, <1>15, <1>16, <1>17, <1>18, <1>19,
       <1>20, <1>21, <1>22, <1>23, <1>24, <1>25, <1>26, <1>27, <1>28,
       <1>29, <1>30, <1>31, <1>32, <1>33, <1>34, <1>35, <1>36
       DEF Next, HostStep, BrokerStep

(* The variables keep their types, and a host has a current signal exactly *)
(* while it works on one.                                                  *)
THEOREM TypeCorrect == Spec => []TypeOK
  BY TypeInit, TypeNext, PTL DEF Spec
-----------------------------------------------------------------------------
(* What the operations of the guard do to what it knows.                   *)
LEMMA GuardFacts ==
    ASSUME NEW g \in Guard, NEW s \in Signal
    PROVE  /\ TryClaim(g, s).seen = g.seen
           /\ TryClaim(g, s).uncertain = g.uncertain
           /\ ReleaseClaim(g, s).seen = g.seen
           /\ ReleaseClaim(g, s).uncertain = g.uncertain
           /\ MarkUncertain(g, s).seen = g.seen
           /\ MarkUncertain(g, s).uncertain = g.uncertain \cup {s}
           /\ MarkExecuted(g, s).seen = g.seen \cup {s}
           /\ MarkExecuted(g, s).uncertain = g.uncertain \ {s}
           /\ ResolveRefused(g, s).seen = g.seen
           /\ ResolveRefused(g, s).uncertain = g.uncertain \ {s}
           /\ Persist(g).seen = g.seen
           /\ Persist(g).uncertain = g.uncertain
  BY DEF Guard, TryClaim, ReleaseClaim, MarkUncertain, MarkExecuted,
         ResolveRefused, Persist

-----------------------------------------------------------------------------
(* What each step that touches the guard does to what the hosts know       *)

(* Host p now knows the signals in known, those in unsure as uncertain; no *)
(* other host's guard changes.                                             *)
GuardMoves(p, known, unsure) ==
    \A q \in Host :
        /\ Known(guard'[q]) = IF q = p THEN known ELSE Known(guard[q])
        /\ guard'[q].uncertain = IF q = p THEN unsure ELSE guard[q].uncertain

(* The file of p now holds what its guard holds.                           *)
JournalFollows(p) ==
    \A q \in Host :
        /\ Known(journal'[q]) = IF q = p THEN Known(guard'[q]) ELSE Known(journal[q])
        /\ journal'[q].uncertain = IF q = p THEN guard'[q].uncertain
                                            ELSE journal[q].uncertain

(* Entering execute claims the signal and leaves what is known.            *)
LEMMA EnterGuard ==
    ASSUME TypeOK, NEW p \in Host, Enter(p)
    PROVE  GuardMoves(p, Known(guard[p]),
                      guard[p].uncertain)
  <1> DEFINE g == TryClaim(guard[p], cur[p])
  <1>1. guard[p] \in Guard /\ cur[p] \in Signal
    BY CurTyped DEF Enter, TypeOK
  <1>2. g \in Guard /\ g.seen = guard[p].seen /\ g.uncertain = guard[p].uncertain
    BY <1>1, GuardFacts, GuardTypes
  <1>3. guard' = [guard EXCEPT ![p] = g]
    BY DEF Enter, Remember
  <1> HIDE DEF g
  <1> QED
    BY <1>2, <1>3 DEF GuardMoves, Known, TypeOK

(* A failed preflight lets go of the claim and knows what it knew.         *)
LEMMA VetFailsGuard ==
    ASSUME TypeOK, NEW p \in Host, VetFails(p)
    PROVE  GuardMoves(p, Known(guard[p]),
                      guard[p].uncertain)
  <1> DEFINE g == ReleaseClaim(guard[p], cur[p])
  <1>1. guard[p] \in Guard /\ cur[p] \in Signal
    BY CurTyped DEF VetFails, TypeOK
  <1>2. g \in Guard /\ g.seen = guard[p].seen /\ g.uncertain = guard[p].uncertain
    BY <1>1, GuardFacts, GuardTypes
  <1>3. guard' = [guard EXCEPT ![p] = g]
    BY DEF VetFails, Remember
  <1> HIDE DEF g
  <1> QED
    BY <1>2, <1>3 DEF GuardMoves, Known, TypeOK

(* The quarantine adds the signal to what guard and file know.             *)
LEMMA QuarantineGuard ==
    ASSUME TypeOK, NEW p \in Host, Quarantine(p)
    PROVE  /\ GuardMoves(p, Known(guard[p]) \cup {cur[p]},
                         guard[p].uncertain \cup {cur[p]})
           /\ JournalFollows(p)
  <1> DEFINE g == MarkUncertain(guard[p], cur[p])
  <1>1. guard[p] \in Guard /\ cur[p] \in Signal
    BY CurTyped DEF Quarantine, TypeOK
  <1>2. g \in Guard /\ g.seen = guard[p].seen /\ g.uncertain = guard[p].uncertain \cup {cur[p]}
    BY <1>1, GuardFacts, GuardTypes
  <1>3. guard' = [guard EXCEPT ![p] = g]
    BY DEF Quarantine, Remember
  <1>4. journal' = [journal EXCEPT ![p] = Persist(g)]
    BY DEF Quarantine, Save
  <1>5. Persist(g).seen = g.seen /\ Persist(g).uncertain = g.uncertain
    BY <1>1, <1>2, GuardFacts
  <1> HIDE DEF g
  <1>6. GuardMoves(p, Known(guard[p]) \cup {cur[p]}, guard[p].uncertain \cup {cur[p]})
    BY <1>2, <1>3 DEF GuardMoves, Known, TypeOK
  <1>7. JournalFollows(p)
    BY <1>3, <1>4, <1>5 DEF JournalFollows, Known, TypeOK
  <1> QED
    BY <1>6, <1>7

(* When its write fails only the guard knows; the file is as before.       *)
LEMMA QuarantineUnsavedGuard ==
    ASSUME TypeOK, NEW p \in Host, QuarantineUnsaved(p)
    PROVE  GuardMoves(p, Known(guard[p]) \cup {cur[p]},
                      guard[p].uncertain \cup {cur[p]})
  <1> DEFINE m == MarkUncertain(guard[p], cur[p])
             g == ReleaseClaim(m, cur[p])
  <1>1. guard[p] \in Guard /\ cur[p] \in Signal
    BY CurTyped DEF QuarantineUnsaved, TypeOK
  <1>2. m \in Guard /\ m.seen = guard[p].seen /\ m.uncertain = guard[p].uncertain \cup {cur[p]}
    BY <1>1, GuardFacts, GuardTypes
  <1>3. guard' = [guard EXCEPT ![p] = g]
    BY DEF QuarantineUnsaved, Remember
  <1> HIDE DEF m
  <1>8. g \in Guard /\ g.seen = m.seen /\ g.uncertain = m.uncertain
    BY <1>1, <1>2, GuardFacts, GuardTypes
  <1> HIDE DEF g
  <1> QED
    BY <1>2, <1>3, <1>8 DEF GuardMoves, Known, TypeOK

(* A late block lets go of the claim and knows what it knew.               *)
LEMMA RecheckFailsGuard ==
    ASSUME TypeOK, NEW p \in Host, RecheckFails(p)
    PROVE  GuardMoves(p, Known(guard[p]),
                      guard[p].uncertain)
  <1> DEFINE g == ReleaseClaim(guard[p], cur[p])
  <1>1. guard[p] \in Guard /\ cur[p] \in Signal
    BY CurTyped DEF RecheckFails, TypeOK
  <1>2. g \in Guard /\ g.seen = guard[p].seen /\ g.uncertain = guard[p].uncertain
    BY <1>1, GuardFacts, GuardTypes
  <1>3. guard' = [guard EXCEPT ![p] = g]
    BY DEF RecheckFails, Remember
  <1> HIDE DEF g
  <1> QED
    BY <1>2, <1>3 DEF GuardMoves, Known, TypeOK

(* A verified fill is recorded as executed in guard and file.              *)
LEMMA RecordVerifiedGuard ==
    ASSUME TypeOK, NEW p \in Host, RecordVerified(p)
    PROVE  /\ GuardMoves(p, Known(guard[p]) \cup {cur[p]},
                         guard[p].uncertain \ {cur[p]})
           /\ JournalFollows(p)
  <1> DEFINE g == MarkExecuted(guard[p], cur[p])
  <1>1. guard[p] \in Guard /\ cur[p] \in Signal
    BY CurTyped DEF RecordVerified, TypeOK
  <1>2. g \in Guard /\ g.seen = guard[p].seen \cup {cur[p]} /\ g.uncertain = guard[p].uncertain \ {cur[p]}
    BY <1>1, GuardFacts, GuardTypes
  <1>3. guard' = [guard EXCEPT ![p] = g]
    BY DEF RecordVerified, Remember
  <1>4. journal' = [journal EXCEPT ![p] = Persist(g)]
    BY DEF RecordVerified, Save
  <1>5. Persist(g).seen = g.seen /\ Persist(g).uncertain = g.uncertain
    BY <1>1, <1>2, GuardFacts
  <1> HIDE DEF g
  <1>6. GuardMoves(p, Known(guard[p]) \cup {cur[p]}, guard[p].uncertain \ {cur[p]})
    BY <1>2, <1>3 DEF GuardMoves, Known, TypeOK
  <1>7. JournalFollows(p)
    BY <1>3, <1>4, <1>5 DEF JournalFollows, Known, TypeOK
  <1> QED
    BY <1>6, <1>7

(* An unprotected fill is recorded as executed all the same.               *)
LEMMA RecordUnverifiedGuard ==
    ASSUME TypeOK, NEW p \in Host, RecordUnverified(p)
    PROVE  /\ GuardMoves(p, Known(guard[p]) \cup {cur[p]},
                         guard[p].uncertain \ {cur[p]})
           /\ JournalFollows(p)
  <1> DEFINE g == MarkExecuted(guard[p], cur[p])
  <1>1. guard[p] \in Guard /\ cur[p] \in Signal
    BY CurTyped DEF RecordUnverified, TypeOK
  <1>2. g \in Guard /\ g.seen = guard[p].seen \cup {cur[p]} /\ g.uncertain = guard[p].uncertain \ {cur[p]}
    BY <1>1, GuardFacts, GuardTypes
  <1>3. guard' = [guard EXCEPT ![p] = g]
    BY DEF RecordUnverified, Remember
  <1>4. journal' = [journal EXCEPT ![p] = Persist(g)]
    BY DEF RecordUnverified, Save
  <1>5. Persist(g).seen = g.seen /\ Persist(g).uncertain = g.uncertain
    BY <1>1, <1>2, GuardFacts
  <1> HIDE DEF g
  <1>6. GuardMoves(p, Known(guard[p]) \cup {cur[p]}, guard[p].uncertain \ {cur[p]})
    BY <1>2, <1>3 DEF GuardMoves, Known, TypeOK
  <1>7. JournalFollows(p)
    BY <1>3, <1>4, <1>5 DEF JournalFollows, Known, TypeOK
  <1> QED
    BY <1>6, <1>7

(* A fill whose record cannot be written is known to the guard only.       *)
LEMMA RecordExecutedUnsavedGuard ==
    ASSUME TypeOK, NEW p \in Host, RecordExecutedUnsaved(p)
    PROVE  GuardMoves(p, Known(guard[p]) \cup {cur[p]},
                      guard[p].uncertain \ {cur[p]})
  <1> DEFINE g == MarkExecuted(guard[p], cur[p])
  <1>1. guard[p] \in Guard /\ cur[p] \in Signal
    BY CurTyped DEF RecordExecutedUnsaved, TypeOK
  <1>2. g \in Guard /\ g.seen = guard[p].seen \cup {cur[p]} /\ g.uncertain = guard[p].uncertain \ {cur[p]}
    BY <1>1, GuardFacts, GuardTypes
  <1>3. guard' = [guard EXCEPT ![p] = g]
    BY DEF RecordExecutedUnsaved, Remember
  <1> HIDE DEF g
  <1> QED
    BY <1>2, <1>3 DEF GuardMoves, Known, TypeOK

(* A refusal takes the signal out of the uncertain ones, in both.          *)
LEMMA RecordRefusedGuard ==
    ASSUME TypeOK, NEW p \in Host, RecordRefused(p)
    PROVE  /\ GuardMoves(p, guard[p].seen \cup (guard[p].uncertain \ {cur[p]}),
                         guard[p].uncertain \ {cur[p]})
           /\ JournalFollows(p)
  <1> DEFINE m == ResolveRefused(guard[p], cur[p])
             g == ReleaseClaim(m, cur[p])
  <1>1. guard[p] \in Guard /\ cur[p] \in Signal
    BY CurTyped DEF RecordRefused, TypeOK
  <1>2. m \in Guard /\ m.seen = guard[p].seen /\ m.uncertain = guard[p].uncertain \ {cur[p]}
    BY <1>1, GuardFacts, GuardTypes
  <1>3. guard' = [guard EXCEPT ![p] = g]
    BY DEF RecordRefused, Remember
  <1>4. journal' = [journal EXCEPT ![p] = Persist(g)]
    BY DEF RecordRefused, Save
  <1> HIDE DEF m
  <1>8. g \in Guard /\ g.seen = m.seen /\ g.uncertain = m.uncertain
    BY <1>1, <1>2, GuardFacts, GuardTypes
  <1>5. Persist(g).seen = g.seen /\ Persist(g).uncertain = g.uncertain
    BY <1>1, <1>8, GuardFacts
  <1> HIDE DEF g
  <1>6. GuardMoves(p, guard[p].seen \cup (guard[p].uncertain \ {cur[p]}), guard[p].uncertain \ {cur[p]})
    BY <1>2, <1>3, <1>8 DEF GuardMoves, Known, TypeOK
  <1>7. JournalFollows(p)
    BY <1>3, <1>4, <1>5 DEF JournalFollows, Known, TypeOK
  <1> QED
    BY <1>6, <1>7

(* A refusal that cannot be written leaves the file uncertain.             *)
LEMMA RecordRefusedUnsavedGuard ==
    ASSUME TypeOK, NEW p \in Host, RecordRefusedUnsaved(p)
    PROVE  GuardMoves(p, guard[p].seen \cup (guard[p].uncertain \ {cur[p]}),
                      guard[p].uncertain \ {cur[p]})
  <1> DEFINE g == ResolveRefused(guard[p], cur[p])
  <1>1. guard[p] \in Guard /\ cur[p] \in Signal
    BY CurTyped DEF RecordRefusedUnsaved, TypeOK
  <1>2. g \in Guard /\ g.seen = guard[p].seen /\ g.uncertain = guard[p].uncertain \ {cur[p]}
    BY <1>1, GuardFacts, GuardTypes
  <1>3. guard' = [guard EXCEPT ![p] = g]
    BY DEF RecordRefusedUnsaved, Remember
  <1> HIDE DEF g
  <1> QED
    BY <1>2, <1>3 DEF GuardMoves, Known, TypeOK

-----------------------------------------------------------------------------
(* The write-ahead journal                                                 *)

(* Nothing is ordered before the first poll.                               *)
LEMMA JournalInit == Init => \A h \in Durable, s \in Signal : JournalInv(h, s)
  BY HostAssumption DEF Init, JournalInv, Quarantining, Ordered

(* A step that leaves the orders alone and, of the signal, what the host   *)
(* knows, keeps the invariant if it starts no new stage of a submission.   *)
LEMMA JournalFrame ==
    ASSUME NEW h \in Durable, NEW s \in Signal, JournalInv(h, s),
           UNCHANGED <<wire, fills>>,
           Ordered(h, s) => s \in Known(guard'[h]) /\ s \in Known(journal'[h]),
           cur'[h] = s =>
             \/ pc'[h] \notin Quarantining \cup {"vetting", "vetted"}
             \/ /\ cur[h] = s /\ pc'[h] = pc[h]
                /\ s \in Known(guard'[h]) => s \in Known(guard[h])
                /\ s \in guard[h].uncertain => s \in guard'[h].uncertain
                /\ s \in journal[h].uncertain => s \in journal'[h].uncertain
    PROVE  JournalInv(h, s)'
  BY DEF JournalInv, Ordered, Quarantining

(* Every step keeps the journal ahead of the orders of a durable host.     *)
LEMMA JournalNext ==
    ASSUME TypeOK, [Next]_vars,
           NEW h \in Durable, NEW s \in Signal, JournalInv(h, s)
    PROVE  JournalInv(h, s)'
  <1>0. h \in Host
    BY HostAssumption
  <1> USE <1>0 DEF JournalInv, Ordered, TypeOK, GuardMoves, JournalFollows,
          Quarantining, hostVars, guardVars, brokerVars, switchVars
  <1>1. ASSUME NEW p \in Host, Poll(p) PROVE JournalInv(h, s)'
    BY <1>1 DEF Poll, Goto, Offered
  <1>2. ASSUME NEW p \in Host, EndPoll(p) PROVE JournalInv(h, s)'
    BY <1>2 DEF EndPoll, Goto
  <1>3. ASSUME NEW p \in Host, PassExposure(p) PROVE JournalInv(h, s)'
    BY <1>3 DEF PassExposure, Goto
  <1>4. ASSUME NEW p \in Host, ExposureBlocks(p) PROVE JournalInv(h, s)'
    BY <1>4 DEF ExposureBlocks, Finish, Forget, Goto
  <1>5. ASSUME NEW p \in Host, Claim(p) PROVE JournalInv(h, s)'
    BY <1>5 DEF Claim, Goto, Offered
  <1>6. ASSUME NEW p \in Host, ClaimFails(p) PROVE JournalInv(h, s)'
    BY <1>6 DEF ClaimFails, Finish, Forget, Goto
  <1>7. ASSUME NEW p \in Host, Enter(p) PROVE JournalInv(h, s)'
    BY <1>7, EnterGuard DEF Enter, Goto, IsDuplicate
  <1>8. ASSUME NEW p \in Host, EnterBlocked(p) PROVE JournalInv(h, s)'
    BY <1>8 DEF EnterBlocked, Fail, Goto
  <1>9. ASSUME NEW p \in Host, Vet(p) PROVE JournalInv(h, s)'
    BY <1>9 DEF Vet, Goto
  <1>10. ASSUME NEW p \in Host, VetFails(p) PROVE JournalInv(h, s)'
    <2>1. pc' = [pc EXCEPT ![p] = "failed"]
      BY <1>10 DEF VetFails, Fail, Goto
    <2> QED
      BY <1>10, <2>1, VetFailsGuard DEF VetFails
  <1>11. ASSUME NEW p \in Host, Quarantine(p) PROVE JournalInv(h, s)'
    <2>1. CASE p = h /\ cur[p] = s
      <3>1. /\ pc[p] = "vetted"
            /\ pc' = [pc EXCEPT ![p] = "quarantined"]
            /\ UNCHANGED <<cur, wire, fills>>
        BY <1>11 DEF Quarantine, Goto
      <3>2. <<h, s>> \notin wire /\ fills[h][s] = 0
        BY <2>1, <3>1
      <3>3. s \in guard'[h].uncertain /\ s \in journal'[h].uncertain
        BY <2>1, <1>11, QuarantineGuard
      <3> QED
        BY <2>1, <3>1, <3>2, <3>3
    <2>2. CASE ~(p = h /\ cur[p] = s)
      BY <2>2, <1>11, QuarantineGuard DEF Quarantine, Goto
    <2> QED
      BY <2>1, <2>2
  <1>12. ASSUME NEW p \in Host, QuarantineUnsaved(p) PROVE JournalInv(h, s)'
    <2>1. CASE p = h /\ cur[p] = s
      BY <2>1, <1>12, QuarantineUnsavedGuard DEF QuarantineUnsaved, Fail, Goto
    <2>2. CASE ~(p = h /\ cur[p] = s)
      <3>1. /\ pc' = [pc EXCEPT ![p] = "failed"]
            /\ UNCHANGED <<cur, wire, fills, journal>>
        BY <1>12 DEF QuarantineUnsaved, Fail, Goto
      <3>2. /\ Known(guard[h]) \subseteq Known(guard'[h])
            /\ p # h => Known(guard'[h]) = Known(guard[h])
            /\ guard[h].uncertain \subseteq guard'[h].uncertain
        BY <1>12, QuarantineUnsavedGuard
      <3> QED
        BY <2>2, <3>1, <3>2, JournalFrame
    <2> QED
      BY <2>1, <2>2
  <1>13. ASSUME NEW p \in Host, RecheckFails(p) PROVE JournalInv(h, s)'
    BY <1>13, RecheckFailsGuard DEF RecheckFails, Fail, Goto
  <1>14. ASSUME NEW p \in Host, Submit(p) PROVE JournalInv(h, s)'
    <2>1. CASE p = h /\ cur[p] = s
      <3>1. /\ pc[p] = "quarantined"
            /\ pc' = [pc EXCEPT ![p] = "waiting"]
            /\ UNCHANGED <<cur, guard, journal, fills>>
        BY <1>14 DEF Submit, Goto
      <3>2. fills[h][s] = 0 /\ s \in guard[h].uncertain /\ s \in journal[h].uncertain
        BY <2>1, <3>1
      <3>3. s \in Known(guard[h]) /\ s \in Known(journal[h])
        BY <3>2 DEF Known
      <3> QED
        BY <2>1, <3>1, <3>2, <3>3
    <2>2. CASE ~(p = h /\ cur[p] = s)
      BY <2>2, <1>14 DEF Submit, Goto
    <2> QED
      BY <2>1, <2>2
  <1>15. ASSUME NEW p \in Host, OutcomeUnknown(p) PROVE JournalInv(h, s)'
    BY <1>15 DEF OutcomeUnknown, Fail, Goto
  <1>16. ASSUME NEW p \in Host, ProtectionVerified(p) PROVE JournalInv(h, s)'
    BY <1>16 DEF ProtectionVerified, Goto
  <1>17. ASSUME NEW p \in Host, ProtectionUnverified(p) PROVE JournalInv(h, s)'
    BY <1>17 DEF ProtectionUnverified, Goto
  <1>18. ASSUME NEW p \in Host, RecordVerified(p) PROVE JournalInv(h, s)'
    <2>1. /\ pc'[p] \notin Quarantining \cup {"vetting", "vetted"}
          /\ \A q \in Host : q # p => pc'[q] = pc[q] /\ cur'[q] = cur[q]
          /\ UNCHANGED <<wire, fills>>
      BY <1>18 DEF RecordVerified, Finish, Forget, Goto
    <2>2. CASE p = h
      <3>1. Known(guard[h]) \subseteq Known(guard'[h])
        BY <2>2, <1>18, RecordVerifiedGuard
      <3>2. Known(journal'[h]) = Known(guard'[h])
        BY <2>2, <1>18, RecordVerifiedGuard
      <3> QED
        BY <2>1, <2>2, <3>1, <3>2, JournalFrame
    <2>3. CASE p # h
      <3>1. /\ Known(guard'[h]) = Known(guard[h]) /\ guard'[h].uncertain = guard[h].uncertain
            /\ journal'[h].uncertain = journal[h].uncertain /\ Known(journal'[h]) = Known(journal[h])
        <4>1. GuardMoves(p, Known(guard[p]) \cup {cur[p]}, guard[p].uncertain \ {cur[p]})
              /\ JournalFollows(p)
          BY <1>18, RecordVerifiedGuard
        <4> QED
          BY <2>3, <4>1
      <3> QED
        BY <2>1, <2>3, <3>1, JournalFrame
    <2> QED
      BY <2>2, <2>3
  <1>19. ASSUME NEW p \in Host, RecordUnverified(p) PROVE JournalInv(h, s)'
    <2>1. /\ pc'[p] \notin Quarantining \cup {"vetting", "vetted"}
          /\ \A q \in Host : q # p => pc'[q] = pc[q] /\ cur'[q] = cur[q]
          /\ UNCHANGED <<wire, fills>>
      BY <1>19 DEF RecordUnverified, Fail, Goto
    <2>2. CASE p = h
      <3>1. Known(guard[h]) \subseteq Known(guard'[h])
        BY <2>2, <1>19, RecordUnverifiedGuard
      <3>2. Known(journal'[h]) = Known(guard'[h])
        BY <2>2, <1>19, RecordUnverifiedGuard
      <3> QED
        BY <2>1, <2>2, <3>1, <3>2, JournalFrame
    <2>3. CASE p # h
      <3>1. /\ Known(guard'[h]) = Known(guard[h]) /\ guard'[h].uncertain = guard[h].uncertain
            /\ journal'[h].uncertain = journal[h].uncertain /\ Known(journal'[h]) = Known(journal[h])
        <4>1. GuardMoves(p, Known(guard[p]) \cup {cur[p]}, guard[p].uncertain \ {cur[p]})
              /\ JournalFollows(p)
          BY <1>19, RecordUnverifiedGuard
        <4> QED
          BY <2>3, <4>1
      <3> QED
        BY <2>1, <2>3, <3>1, JournalFrame
    <2> QED
      BY <2>2, <2>3
  <1>20. ASSUME NEW p \in Host, RecordExecutedUnsaved(p) PROVE JournalInv(h, s)'
    <2>1. /\ pc'[p] \notin Quarantining \cup {"vetting", "vetted"}
          /\ \A q \in Host : q # p => pc'[q] = pc[q] /\ cur'[q] = cur[q]
          /\ UNCHANGED <<wire, fills>>
      BY <1>20 DEF RecordExecutedUnsaved, Fail, Goto
    <2>2. CASE p = h
      <3>1. Known(guard[h]) \subseteq Known(guard'[h])
        BY <2>2, <1>20, RecordExecutedUnsavedGuard
      <3>2. UNCHANGED journal
        BY <1>20 DEF RecordExecutedUnsaved
      <3> QED
        BY <2>1, <2>2, <3>1, <3>2, JournalFrame
    <2>3. CASE p # h
      <3>1. /\ Known(guard'[h]) = Known(guard[h]) /\ guard'[h].uncertain = guard[h].uncertain
            /\ UNCHANGED journal
        BY <2>3, <1>20, RecordExecutedUnsavedGuard DEF RecordExecutedUnsaved
      <3> QED
        BY <2>1, <2>3, <3>1, JournalFrame
    <2> QED
      BY <2>2, <2>3
  <1>21. ASSUME NEW p \in Host, RecordRefused(p) PROVE JournalInv(h, s)'
    <2>1. CASE p = h /\ cur[p] = s
      BY <2>1, <1>21, RecordRefusedGuard DEF RecordRefused, Goto
    <2>2. CASE ~(p = h /\ cur[p] = s)
      <3>1. /\ pc' = [pc EXCEPT ![p] = "failed"]
            /\ UNCHANGED <<cur, wire, fills>>
        BY <1>21 DEF RecordRefused, Goto
      <3>2. /\ GuardMoves(p, guard[p].seen \cup (guard[p].uncertain \ {cur[p]}),
                          guard[p].uncertain \ {cur[p]})
            /\ JournalFollows(p)
        BY <1>21, RecordRefusedGuard
      <3>3. /\ s \in Known(guard[h]) <=> s \in Known(guard'[h])
            /\ s \in guard[h].uncertain /\ p # h => s \in guard'[h].uncertain
        <4>1. CASE p # h
          BY <4>1, <3>2
        <4>2. CASE p = h
          BY <2>2, <4>2, <3>2 DEF Known
        <4> QED
          BY <4>1, <4>2
      <3>4. /\ <<h, s>> \in wire \/ fills[h][s] > 0 => s \in Known(journal'[h])
            /\ s \in journal[h].uncertain /\ p # h => s \in journal'[h].uncertain
        <4>1. CASE p # h
          BY <4>1, <3>2
        <4>2. CASE p = h
          BY <4>2, <3>2, <3>3
        <4> QED
          BY <4>1, <4>2
      <3> QED
        <4>1. CASE p # h
          BY <4>1, <3>1, <3>3, <3>4
        <4>2. CASE p = h
          BY <2>2, <4>2, <3>1, <3>3, <3>4
        <4> QED
          BY <4>1, <4>2
    <2> QED
      BY <2>1, <2>2
  <1>22. ASSUME NEW p \in Host, RecordRefusedUnsaved(p) PROVE JournalInv(h, s)'
    <2>1. CASE p = h /\ cur[p] = s
      BY <2>1, <1>22, RecordRefusedUnsavedGuard DEF RecordRefusedUnsaved, Fail, Goto
    <2>2. CASE ~(p = h /\ cur[p] = s)
      <3>1. /\ pc' = [pc EXCEPT ![p] = "failed"]
            /\ UNCHANGED <<cur, wire, fills>>
        BY <1>22 DEF RecordRefusedUnsaved, Goto, Fail
      <3>2. /\ GuardMoves(p, guard[p].seen \cup (guard[p].uncertain \ {cur[p]}),
                          guard[p].uncertain \ {cur[p]})
        BY <1>22, RecordRefusedUnsavedGuard
      <3>3. /\ s \in Known(guard[h]) <=> s \in Known(guard'[h])
            /\ s \in guard[h].uncertain /\ p # h => s \in guard'[h].uncertain
        <4>1. CASE p # h
          BY <4>1, <3>2
        <4>2. CASE p = h
          BY <2>2, <4>2, <3>2 DEF Known
        <4> QED
          BY <4>1, <4>2
      <3>4. UNCHANGED journal
        BY <1>22 DEF RecordRefusedUnsaved
      <3> QED
        <4>1. CASE p # h
          BY <4>1, <3>1, <3>3, <3>4
        <4>2. CASE p = h
          BY <2>2, <4>2, <3>1, <3>3, <3>4
        <4> QED
          BY <4>1, <4>2
    <2> QED
      BY <2>1, <2>2
  <1>23. ASSUME NEW p \in Host, Retry(p) PROVE JournalInv(h, s)'
    BY <1>23 DEF Retry, Goto
  <1>24. ASSUME NEW p \in Host, GiveUp(p) PROVE JournalInv(h, s)'
    BY <1>24 DEF GiveUp, Finish, Forget, Goto
  <1>25. ASSUME NEW p \in Host, Requeue(p) PROVE JournalInv(h, s)'
    BY <1>25 DEF Requeue, Finish, Forget, Goto
  <1>26. ASSUME NEW p \in Host, Restart(p) PROVE JournalInv(h, s)'
    BY <1>26, JournalTypes DEF Restart, Forget, Goto, Remember, Load, Known
  <1>27. ASSUME NEW p \in Host, NEW r \in Signal, PassOver(p, r) PROVE JournalInv(h, s)'
    BY <1>27 DEF PassOver
  <1>28. ASSUME NEW p \in Host, NEW r \in Signal, PassCapacity(p, r) PROVE JournalInv(h, s)'
    BY <1>28 DEF PassCapacity, Goto
  <1>29. ASSUME NEW p \in Host, NEW r \in Signal, BrokerAccepts(p, r) PROVE JournalInv(h, s)'
    BY <1>29 DEF BrokerAccepts, Goto, Awaits
  <1>30. ASSUME NEW p \in Host, NEW r \in Signal, BrokerFills(p, r) PROVE JournalInv(h, s)'
    <2>1. CASE p = h /\ r = s
      BY <2>1, <1>30 DEF BrokerFills, Awaits, Settling
    <2>2. CASE ~(p = h /\ r = s)
      BY <2>2, <1>30 DEF BrokerFills, Awaits, Settling
    <2> QED
      BY <2>1, <2>2
  <1>31. ASSUME NEW p \in Host, NEW r \in Signal, BrokerRefuses(p, r) PROVE JournalInv(h, s)'
    <2>1. CASE p = h /\ r = s
      BY <2>1, <1>31 DEF BrokerRefuses, Goto, Awaits
    <2>2. CASE ~(p = h /\ r = s)
      <3>1. /\ pc' = [pc EXCEPT ![p] = "refused"] /\ cur[p] = r
            /\ wire' = wire \ {<<p, r>>}
            /\ UNCHANGED <<cur, guard, journal, fills>>
        BY <1>31 DEF BrokerRefuses, Goto, Awaits
      <3> QED
        BY <2>2, <3>1
    <2> QED
      BY <2>1, <2>2
  <1>32. ASSUME NEW p \in Host, NEW r \in Signal, OrderVanishes(p, r) PROVE JournalInv(h, s)'
    BY <1>32 DEF OrderVanishes
  <1>33. ASSUME NEW o \in Order, PositionCloses(o) PROVE JournalInv(h, s)'
    BY <1>33 DEF PositionCloses
  <1>34. ASSUME NEW o \in Order, PositionRepaired(o) PROVE JournalInv(h, s)'
    BY <1>34 DEF PositionRepaired
  <1>35. CASE SetSwitches
    BY <1>35 DEF SetSwitches
  <1>36. CASE UNCHANGED vars
    BY <1>36 DEF vars
  <1> QED
    BY <1>1, <1>2, <1>3, <1>4, <1>5, <1>6, <1>7, <1>8, <1>9, <1>10,
       <1>11, <1>12, <1>13, <1>14, <1>15, <1>16, <1>17, <1>18, <1>19,
       <1>20, <1>21, <1>22, <1>23, <1>24, <1>25, <1>26, <1>27, <1>28,
       <1>29, <1>30, <1>31, <1>32, <1>33, <1>34, <1>35, <1>36
       DEF Next, HostStep, BrokerStep

(* The journal of a durable host is ahead of its orders always.            *)
LEMMA JournalHolds == Spec => [](\A h \in Durable, s \in Signal : JournalInv(h, s))
  <1>1. Init => \A h \in Durable, s \in Signal : JournalInv(h, s)
    BY JournalInit
  <1>2. TypeOK /\ [Next]_vars
        /\ (\A h \in Durable, s \in Signal : JournalInv(h, s))
        => (\A h \in Durable, s \in Signal : JournalInv(h, s))'
    BY JournalNext
  <1> QED
    BY <1>1, <1>2, TypeCorrect, PTL DEF Spec

(* A host whose file survives restarts has at most one order of a signal   *)
(* executed.                                                               *)
THEOREM HostAtMostOnceHolds == Spec => []HostAtMostOnce
  <1>1. (\A h \in Durable, s \in Signal : JournalInv(h, s)) => HostAtMostOnce
    BY DEF JournalInv, HostAtMostOnce
  <1> QED
    BY <1>1, JournalHolds, PTL

(* Every order on its way or executed is in the file of its host.          *)
THEOREM JournalCoversOrdersHolds == Spec => []JournalCoversOrders
  <1>1. (\A h \in Durable, s \in Signal : JournalInv(h, s)) => JournalCoversOrders
    BY DEF JournalInv, JournalCoversOrders, Ordered
  <1> QED
    BY <1>1, JournalHolds, PTL

-----------------------------------------------------------------------------
(* One host at a time                                                      *)

(* Before the first poll nobody works on a signal.                         *)
LEMMA ClaimInit == Init => \A s \in Signal : ClaimInv(s)
  BY DEF Init, ClaimInv, Settling, Holding

(* Every step keeps the signal with the one host that claimed it.          *)
LEMMA ClaimNext ==
    ASSUME TypeOK, [Next]_vars, NEW s \in Signal, ClaimInv(s)
    PROVE  ClaimInv(s)'
  <1> USE SignalAssumption
      DEF ClaimInv, Settling, Holding, TypeOK, hostVars, guardVars, brokerVars, switchVars
  <1>1. ASSUME NEW p \in Host, Poll(p) PROVE ClaimInv(s)'
    BY <1>1 DEF Poll, Goto, Offered
  <1>2. ASSUME NEW p \in Host, EndPoll(p) PROVE ClaimInv(s)'
    BY <1>2 DEF EndPoll, Goto
  <1>3. ASSUME NEW p \in Host, PassExposure(p) PROVE ClaimInv(s)'
    BY <1>3 DEF PassExposure, Goto
  <1>4. ASSUME NEW p \in Host, ExposureBlocks(p) PROVE ClaimInv(s)'
    BY <1>4 DEF ExposureBlocks, Finish, Forget, Goto
  <1>5. ASSUME NEW p \in Host, Claim(p) PROVE ClaimInv(s)'
    BY <1>5 DEF Claim, Goto, Offered
  <1>6. ASSUME NEW p \in Host, ClaimFails(p) PROVE ClaimInv(s)'
    BY <1>6 DEF ClaimFails, Finish, Forget, Goto
  <1>7. ASSUME NEW p \in Host, Enter(p) PROVE ClaimInv(s)'
    BY <1>7 DEF Enter, Goto
  <1>8. ASSUME NEW p \in Host, EnterBlocked(p) PROVE ClaimInv(s)'
    BY <1>8 DEF EnterBlocked, Fail, Goto
  <1>9. ASSUME NEW p \in Host, Vet(p) PROVE ClaimInv(s)'
    BY <1>9 DEF Vet, Goto
  <1>10. ASSUME NEW p \in Host, VetFails(p) PROVE ClaimInv(s)'
    BY <1>10 DEF VetFails, Fail, Goto
  <1>11. ASSUME NEW p \in Host, Quarantine(p) PROVE ClaimInv(s)'
    BY <1>11 DEF Quarantine, Goto
  <1>12. ASSUME NEW p \in Host, QuarantineUnsaved(p) PROVE ClaimInv(s)'
    BY <1>12 DEF QuarantineUnsaved, Fail, Goto
  <1>13. ASSUME NEW p \in Host, RecheckFails(p) PROVE ClaimInv(s)'
    BY <1>13 DEF RecheckFails, Fail, Goto
  <1>14. ASSUME NEW p \in Host, Submit(p) PROVE ClaimInv(s)'
    BY <1>14 DEF Submit, Goto
  <1>15. ASSUME NEW p \in Host, OutcomeUnknown(p) PROVE ClaimInv(s)'
    BY <1>15 DEF OutcomeUnknown, Fail, Goto
  <1>16. ASSUME NEW p \in Host, ProtectionVerified(p) PROVE ClaimInv(s)'
    BY <1>16 DEF ProtectionVerified, Goto
  <1>17. ASSUME NEW p \in Host, ProtectionUnverified(p) PROVE ClaimInv(s)'
    BY <1>17 DEF ProtectionUnverified, Goto
  <1>18. ASSUME NEW p \in Host, RecordVerified(p) PROVE ClaimInv(s)'
    BY <1>18 DEF RecordVerified, Finish, Forget, Goto
  <1>19. ASSUME NEW p \in Host, RecordUnverified(p) PROVE ClaimInv(s)'
    BY <1>19 DEF RecordUnverified, Fail, Goto
  <1>20. ASSUME NEW p \in Host, RecordExecutedUnsaved(p) PROVE ClaimInv(s)'
    BY <1>20 DEF RecordExecutedUnsaved, Fail, Goto
  <1>21. ASSUME NEW p \in Host, RecordRefused(p) PROVE ClaimInv(s)'
    BY <1>21 DEF RecordRefused, Goto
  <1>22. ASSUME NEW p \in Host, RecordRefusedUnsaved(p) PROVE ClaimInv(s)'
    BY <1>22 DEF RecordRefusedUnsaved, Fail, Goto
  <1>23. ASSUME NEW p \in Host, Retry(p) PROVE ClaimInv(s)'
    BY <1>23 DEF Retry, Goto
  <1>24. ASSUME NEW p \in Host, GiveUp(p) PROVE ClaimInv(s)'
    BY <1>24 DEF GiveUp, Finish, Forget, Goto
  <1>25. ASSUME NEW p \in Host, Requeue(p) PROVE ClaimInv(s)'
    BY <1>25 DEF Requeue, Finish, Forget, Goto
  <1>26. ASSUME NEW p \in Host, Restart(p) PROVE ClaimInv(s)'
    BY <1>26 DEF Restart, Forget, Goto
  <1>27. ASSUME NEW p \in Host, NEW r \in Signal, PassOver(p, r) PROVE ClaimInv(s)'
    BY <1>27 DEF PassOver
  <1>28. ASSUME NEW p \in Host, NEW r \in Signal, PassCapacity(p, r) PROVE ClaimInv(s)'
    BY <1>28 DEF PassCapacity, Goto
  <1>29. ASSUME NEW p \in Host, NEW r \in Signal, BrokerAccepts(p, r) PROVE ClaimInv(s)'
    BY <1>29 DEF BrokerAccepts, Goto, Awaits
  <1>30. ASSUME NEW p \in Host, NEW r \in Signal, BrokerFills(p, r) PROVE ClaimInv(s)'
    BY <1>30 DEF BrokerFills, Awaits
  <1>31. ASSUME NEW p \in Host, NEW r \in Signal, BrokerRefuses(p, r) PROVE ClaimInv(s)'
    BY <1>31 DEF BrokerRefuses, Goto, Awaits
  <1>32. ASSUME NEW p \in Host, NEW r \in Signal, OrderVanishes(p, r) PROVE ClaimInv(s)'
    BY <1>32 DEF OrderVanishes
  <1>33. ASSUME NEW o \in Order, PositionCloses(o) PROVE ClaimInv(s)'
    BY <1>33 DEF PositionCloses
  <1>34. ASSUME NEW o \in Order, PositionRepaired(o) PROVE ClaimInv(s)'
    BY <1>34 DEF PositionRepaired
  <1>35. CASE SetSwitches
    BY <1>35 DEF SetSwitches
  <1>36. CASE UNCHANGED vars
    BY <1>36 DEF vars
  <1> QED
    BY <1>1, <1>2, <1>3, <1>4, <1>5, <1>6, <1>7, <1>8, <1>9, <1>10,
       <1>11, <1>12, <1>13, <1>14, <1>15, <1>16, <1>17, <1>18, <1>19,
       <1>20, <1>21, <1>22, <1>23, <1>24, <1>25, <1>26, <1>27, <1>28,
       <1>29, <1>30, <1>31, <1>32, <1>33, <1>34, <1>35, <1>36
       DEF Next, HostStep, BrokerStep

(* A signal is worked on by one host at a time always.                     *)
LEMMA ClaimHolds == Spec => [](\A s \in Signal : ClaimInv(s))
  <1>1. TypeOK /\ [Next]_vars /\ (\A s \in Signal : ClaimInv(s))
        => (\A s \in Signal : ClaimInv(s))'
    BY ClaimNext
  <1> QED
    BY <1>1, ClaimInit, TypeCorrect, PTL DEF Spec

(* Two hosts never work on the same signal, and the row they work on is    *)
(* not on offer.                                                           *)
THEOREM ClaimExclusiveHolds == Spec => []ClaimExclusive
  <1>1. (\A s \in Signal : ClaimInv(s)) => ClaimExclusive
    BY DEF ClaimInv, ClaimExclusive
  <1> QED
    BY <1>1, ClaimHolds, PTL

-----------------------------------------------------------------------------
(* One order of a signal over all hosts                                    *)

(* Before the first poll no signal has an order.                           *)
LEMMA OrderInit == Init => \A s \in Signal : OrderInv(s)
  BY DEF Init, OrderInv, Ordered, Quarantining

(* A host goes from one step on a signal to another: if it sent an order   *)
(* for it, the step is one of those after an order, and its guard still    *)
(* knows the signal.                                                       *)
LEMMA OrderHeld ==
    ASSUME TypeOK, NEW s \in Signal, OrderInv(s),
           NEW p \in Host, pc[p] \in Holding, NEW step \in Holding,
           UNCHANGED <<table, cur, wire, fills, reoffered>>,
           pc' = [pc EXCEPT ![p] = step],
           \A q \in Host : q # p => /\ Known(guard'[q]) = Known(guard[q])
                                   /\ guard'[q].uncertain = guard[q].uncertain,
           cur[p] = s /\ step \in Quarantining => s \in guard'[p].uncertain,
           cur[p] = s /\ pc[p] \in AfterOrder /\ s \in Known(guard[p]) =>
             step \in AfterOrder /\ s \in Known(guard'[p])
    PROVE  OrderInv(s)'
  <1> USE DEF TypeOK, Settling
  <1>1. \A q \in Host : /\ Settling(q, s)' <=> Settling(q, s)
                        /\ Ordered(q, s)' <=> Ordered(q, s)
                        /\ q # p => pc'[q] = pc[q]
    BY DEF Holding, Ordered
  <1>2. \A q \in Host : cur'[q] = s /\ pc'[q] \in Quarantining => s \in guard'[q].uncertain
    BY <1>1 DEF OrderInv
  <1>3. ASSUME s \notin reoffered', NEW o \in Host, NEW q \in Host, Ordered(o, s)'
        PROVE  /\ fills'[o][s] <= 1
               /\ <<o, s>> \in wire' => fills'[o][s] = 0
               /\ table'[s] = "COOLDOWN"
               /\ Ordered(q, s)' => o = q
    BY <1>1, <1>3 DEF OrderInv
  <1>4. ASSUME s \notin reoffered', NEW o \in Host, NEW q \in Host, Ordered(o, s)',
               Settling(q, s)'
        PROVE  q = o /\ pc'[o] \in AfterOrder /\ s \in Known(guard'[o])
    <2>0. s \notin reoffered /\ Ordered(o, s) /\ Settling(q, s)
      BY <1>1, <1>4
    <2>1. q = o /\ pc[o] \in AfterOrder /\ s \in Known(guard[o]) /\ cur[o] = s
      BY <2>0 DEF OrderInv
    <2>2. CASE o = p
      BY <2>1, <2>2
    <2>3. CASE o # p
      BY <2>1, <2>3, <1>1
    <2> QED
      BY <2>2, <2>3
  <1> QED
    BY <1>2, <1>3, <1>4 DEF OrderInv

(* Every step keeps the order of a signal the only one.                    *)
LEMMA OrderNext ==
    ASSUME TypeOK, [Next]_vars, NEW s \in Signal, ClaimInv(s), OrderInv(s)
    PROVE  OrderInv(s)'
  <1> USE SignalAssumption DEF hostVars, guardVars, brokerVars, switchVars
  <1>1. ASSUME NEW p \in Host, Poll(p) PROVE OrderInv(s)'
    BY <1>1
       DEF Poll, Goto, Offered, OrderInv, Ordered, Settling, Holding, Quarantining, AfterOrder, TypeOK, history
  <1>2. ASSUME NEW p \in Host, EndPoll(p) PROVE OrderInv(s)'
    BY <1>2
       DEF EndPoll, Goto, OrderInv, Ordered, Settling, Holding, Quarantining, AfterOrder, TypeOK, history
  <1>3. ASSUME NEW p \in Host, PassExposure(p) PROVE OrderInv(s)'
    BY <1>3
       DEF PassExposure, Goto, OrderInv, Ordered, Settling, Holding, Quarantining, AfterOrder, TypeOK, history
  <1>4. ASSUME NEW p \in Host, ExposureBlocks(p) PROVE OrderInv(s)'
    BY <1>4
       DEF ExposureBlocks, Finish, Forget, Goto, OrderInv, Ordered, Settling, Holding, Quarantining, AfterOrder, TypeOK, history
  <1>5. ASSUME NEW p \in Host, Claim(p) PROVE OrderInv(s)'
    BY <1>5
       DEF Claim, Goto, Offered, OrderInv, Ordered, Settling, Holding, Quarantining, AfterOrder, TypeOK, history
  <1>6. ASSUME NEW p \in Host, ClaimFails(p) PROVE OrderInv(s)'
    BY <1>6
       DEF ClaimFails, Finish, Forget, Goto, OrderInv, Ordered, Settling, Holding, Quarantining, AfterOrder, TypeOK, history
  <1>7. ASSUME NEW p \in Host, Enter(p) PROVE OrderInv(s)'
    <2>1. /\ pc' = [pc EXCEPT ![p] = "vetting"]
          /\ UNCHANGED <<table, cur, wire, fills, reoffered>>
      BY <1>7 DEF Enter, Goto, history
    <2>2. pc[p] \in Holding /\ "vetting" \in Holding
      BY <1>7 DEF Enter, Holding
    <2>3. \A q \in Host : q # p => /\ Known(guard'[q]) = Known(guard[q])
                                   /\ guard'[q].uncertain = guard[q].uncertain
      BY <1>7, EnterGuard DEF GuardMoves
    <2>4. cur[p] \notin Known(guard[p]) /\ "vetting" \notin Quarantining
      BY <1>7 DEF Enter, IsDuplicate, Quarantining
    <2> QED
      BY <2>1, <2>2, <2>3, <2>4, OrderHeld
  <1>8. ASSUME NEW p \in Host, EnterBlocked(p) PROVE OrderInv(s)'
    <2>1. /\ pc' = [pc EXCEPT ![p] = "failed"]
          /\ UNCHANGED <<table, cur, wire, fills, reoffered>>
      BY <1>8 DEF EnterBlocked, Fail, Goto, history
    <2>2. pc[p] \in Holding /\ "failed" \in Holding
      BY <1>8 DEF EnterBlocked, Holding
    <2>3. UNCHANGED guard
      BY <1>8 DEF EnterBlocked
    <2>4. "failed" \in AfterOrder /\ ("failed" \notin Quarantining)
      BY <1>8 DEF EnterBlocked, AfterOrder, Quarantining, OrderInv
    <2> QED
      BY <2>1, <2>2, <2>3, <2>4, OrderHeld
  <1>9. ASSUME NEW p \in Host, Vet(p) PROVE OrderInv(s)'
    <2>1. /\ pc' = [pc EXCEPT ![p] = "vetted"]
          /\ UNCHANGED <<table, cur, wire, fills, reoffered>>
      BY <1>9 DEF Vet, Goto, history
    <2>2. pc[p] \in Holding /\ "vetted" \in Holding
      BY <1>9 DEF Vet, Holding
    <2>3. UNCHANGED guard
      BY <1>9 DEF Vet
    <2>4. pc[p] \notin AfterOrder /\ "vetted" \notin Quarantining
      BY <1>9 DEF Vet, AfterOrder, Quarantining
    <2> QED
      BY <2>1, <2>2, <2>3, <2>4, OrderHeld
  <1>10. ASSUME NEW p \in Host, VetFails(p) PROVE OrderInv(s)'
    <2>1. /\ pc' = [pc EXCEPT ![p] = "failed"]
          /\ UNCHANGED <<table, cur, wire, fills, reoffered>>
      BY <1>10 DEF VetFails, Fail, Goto, history
    <2>2. pc[p] \in Holding /\ "failed" \in Holding
      BY <1>10 DEF VetFails, Holding
    <2>3. \A q \in Host : q # p => /\ Known(guard'[q]) = Known(guard[q])
                                   /\ guard'[q].uncertain = guard[q].uncertain
      BY <1>10, VetFailsGuard DEF GuardMoves
    <2>4. pc[p] \notin AfterOrder /\ "failed" \notin Quarantining
      BY <1>10 DEF VetFails, AfterOrder, Quarantining
    <2> QED
      BY <2>1, <2>2, <2>3, <2>4, OrderHeld
  <1>11. ASSUME NEW p \in Host, Quarantine(p) PROVE OrderInv(s)'
    <2>1. /\ pc' = [pc EXCEPT ![p] = "quarantined"]
          /\ UNCHANGED <<table, cur, wire, fills, reoffered>>
      BY <1>11 DEF Quarantine, Goto, history
    <2>2. pc[p] \in Holding /\ "quarantined" \in Holding
      BY <1>11 DEF Quarantine, Holding
    <2>3. \A q \in Host : q # p => /\ Known(guard'[q]) = Known(guard[q])
                                   /\ guard'[q].uncertain = guard[q].uncertain
      BY <1>11, QuarantineGuard DEF GuardMoves
    <2>4. cur[p] \in guard'[p].uncertain /\ pc[p] \notin AfterOrder
      BY <1>11, QuarantineGuard DEF GuardMoves, Quarantine, AfterOrder
    <2> QED
      BY <2>1, <2>2, <2>3, <2>4, OrderHeld
  <1>12. ASSUME NEW p \in Host, QuarantineUnsaved(p) PROVE OrderInv(s)'
    <2>1. /\ pc' = [pc EXCEPT ![p] = "failed"]
          /\ UNCHANGED <<table, cur, wire, fills, reoffered>>
      BY <1>12 DEF QuarantineUnsaved, Fail, Goto, history
    <2>2. pc[p] \in Holding /\ "failed" \in Holding
      BY <1>12 DEF QuarantineUnsaved, Holding
    <2>3. \A q \in Host : q # p => /\ Known(guard'[q]) = Known(guard[q])
                                   /\ guard'[q].uncertain = guard[q].uncertain
      BY <1>12, QuarantineUnsavedGuard DEF GuardMoves
    <2>4. pc[p] \notin AfterOrder /\ "failed" \notin Quarantining
      BY <1>12 DEF QuarantineUnsaved, AfterOrder, Quarantining
    <2> QED
      BY <2>1, <2>2, <2>3, <2>4, OrderHeld
  <1>13. ASSUME NEW p \in Host, RecheckFails(p) PROVE OrderInv(s)'
    <2>1. /\ pc' = [pc EXCEPT ![p] = "failed"]
          /\ UNCHANGED <<table, cur, wire, fills, reoffered>>
      BY <1>13 DEF RecheckFails, Fail, Goto, history
    <2>2. pc[p] \in Holding /\ "failed" \in Holding
      BY <1>13 DEF RecheckFails, Holding
    <2>3. \A q \in Host : q # p => /\ Known(guard'[q]) = Known(guard[q])
                                   /\ guard'[q].uncertain = guard[q].uncertain
      BY <1>13, RecheckFailsGuard DEF GuardMoves
    <2>4. pc[p] \notin AfterOrder /\ "failed" \notin Quarantining
      BY <1>13 DEF RecheckFails, AfterOrder, Quarantining
    <2> QED
      BY <2>1, <2>2, <2>3, <2>4, OrderHeld
  <1>14. ASSUME NEW p \in Host, Submit(p) PROVE OrderInv(s)'
    <2>1. /\ pc[p] = "quarantined" /\ cur[p] \in Signal
          /\ pc' = [pc EXCEPT ![p] = "waiting"]
          /\ wire' = wire \cup {<<p, cur[p]>>}
          /\ UNCHANGED <<table, cur, guard, fills, reoffered>>
      BY <1>14, CurTyped DEF Submit, Goto
    <2>2. CASE cur[p] # s
      <3>1. \A q \in Host : <<q, s>> \in wire' <=> <<q, s>> \in wire
        BY <2>1, <2>2
      <3> QED
        BY <2>1, <2>2, <3>1 DEF OrderInv, Ordered, Settling, Holding, Quarantining, AfterOrder, TypeOK
    <2>3. CASE cur[p] = s
      <3>1. Settling(p, s) /\ s \in guard[p].uncertain /\ s \in Known(guard[p])
        BY <2>1, <2>3 DEF OrderInv, Settling, Holding, Quarantining, Known
      <3>2. table[s] = "COOLDOWN" /\ \A q \in Host : Settling(q, s) => q = p
        BY <3>1 DEF ClaimInv
      <3>3. s \notin reoffered => \A q \in Host : ~ Ordered(q, s)
        BY <2>1, <3>1 DEF OrderInv, AfterOrder
      <3>4. s \notin reoffered => \A q \in Host : fills[q][s] = 0 /\ <<q, s>> \notin wire
        BY <3>3 DEF Ordered, TypeOK
      <3>5. \A q \in Host : Settling(q, s)' => q = p
        BY <2>1, <3>2 DEF Settling, Holding, TypeOK
      <3>6. \A q \in Host : cur'[q] = s /\ pc'[q] \in Quarantining => s \in guard'[q].uncertain
        BY <2>1, <3>1 DEF OrderInv, Quarantining, TypeOK
      <3>7. pc'[p] \in AfterOrder /\ \A q \in Host : <<q, s>> \in wire' => <<q, s>> \in wire \/ q = p
        BY <2>1 DEF AfterOrder, TypeOK
      <3> QED
        BY <2>1, <3>1, <3>2, <3>4, <3>5, <3>6, <3>7 DEF OrderInv, Ordered
    <2> QED
      BY <2>2, <2>3
  <1>15. ASSUME NEW p \in Host, OutcomeUnknown(p) PROVE OrderInv(s)'
    <2>1. /\ pc' = [pc EXCEPT ![p] = "failed"]
          /\ UNCHANGED <<table, cur, wire, fills, reoffered>>
      BY <1>15 DEF OutcomeUnknown, Fail, Goto, history
    <2>2. pc[p] \in Holding /\ "failed" \in Holding
      BY <1>15 DEF OutcomeUnknown, Holding
    <2>3. UNCHANGED guard
      BY <1>15 DEF OutcomeUnknown
    <2>4. "failed" \in AfterOrder /\ ("failed" \notin Quarantining)
      BY <1>15 DEF OutcomeUnknown, AfterOrder, Quarantining, OrderInv
    <2> QED
      BY <2>1, <2>2, <2>3, <2>4, OrderHeld
  <1>16. ASSUME NEW p \in Host, ProtectionVerified(p) PROVE OrderInv(s)'
    <2>1. /\ pc' = [pc EXCEPT ![p] = "verified"]
          /\ UNCHANGED <<table, cur, wire, fills, reoffered>>
      BY <1>16 DEF ProtectionVerified, Goto, history
    <2>2. pc[p] \in Holding /\ "verified" \in Holding
      BY <1>16 DEF ProtectionVerified, Holding
    <2>3. UNCHANGED guard
      BY <1>16 DEF ProtectionVerified
    <2>4. "verified" \in AfterOrder /\ (cur[p] = s => s \in guard[p].uncertain)
      BY <1>16 DEF ProtectionVerified, AfterOrder, Quarantining, OrderInv
    <2> QED
      BY <2>1, <2>2, <2>3, <2>4, OrderHeld
  <1>17. ASSUME NEW p \in Host, ProtectionUnverified(p) PROVE OrderInv(s)'
    <2>1. /\ pc' = [pc EXCEPT ![p] = "unverified"]
          /\ UNCHANGED <<table, cur, wire, fills, reoffered>>
      BY <1>17 DEF ProtectionUnverified, Goto, history
    <2>2. pc[p] \in Holding /\ "unverified" \in Holding
      BY <1>17 DEF ProtectionUnverified, Holding
    <2>3. UNCHANGED guard
      BY <1>17 DEF ProtectionUnverified
    <2>4. "unverified" \in AfterOrder /\ (cur[p] = s => s \in guard[p].uncertain)
      BY <1>17 DEF ProtectionUnverified, AfterOrder, Quarantining, OrderInv
    <2> QED
      BY <2>1, <2>2, <2>3, <2>4, OrderHeld
  <1>18. ASSUME NEW p \in Host, RecordVerified(p) PROVE OrderInv(s)'
    <2>1. /\ pc' = [pc EXCEPT ![p] = "scan"]
          /\ cur' = [cur EXCEPT ![p] = NoSignal]
          /\ UNCHANGED <<table, wire, fills, reoffered>>
      BY <1>18 DEF RecordVerified, Finish, Forget, Goto, history
    <2>2. \A q \in Host : q # p => /\ Known(guard'[q]) = Known(guard[q])
                                   /\ guard'[q].uncertain = guard[q].uncertain
      BY <1>18, RecordVerifiedGuard DEF GuardMoves
    <2>3. \A q \in Host : cur'[q] = s /\ pc'[q] \in Holding =>
            q # p /\ cur[q] = s /\ pc'[q] = pc[q]
      BY <2>1 DEF Holding, TypeOK
    <2>4. Quarantining \subseteq Holding
      BY DEF Quarantining, Holding
    <2> QED
      BY <2>1, <2>2, <2>3, <2>4 DEF OrderInv, Ordered, Settling
  <1>19. ASSUME NEW p \in Host, RecordUnverified(p) PROVE OrderInv(s)'
    <2>1. /\ pc' = [pc EXCEPT ![p] = "failed"]
          /\ UNCHANGED <<table, cur, wire, fills, reoffered>>
      BY <1>19 DEF RecordUnverified, Fail, Goto, history
    <2>2. pc[p] \in Holding /\ "failed" \in Holding
      BY <1>19 DEF RecordUnverified, Holding
    <2>3. \A q \in Host : q # p => /\ Known(guard'[q]) = Known(guard[q])
                                   /\ guard'[q].uncertain = guard[q].uncertain
      BY <1>19, RecordUnverifiedGuard DEF GuardMoves
    <2>4. cur[p] \in Known(guard'[p]) /\ "failed" \in AfterOrder \ Quarantining
      BY <1>19, RecordUnverifiedGuard DEF GuardMoves, AfterOrder, Quarantining
    <2> QED
      BY <2>1, <2>2, <2>3, <2>4, OrderHeld
  <1>20. ASSUME NEW p \in Host, RecordExecutedUnsaved(p) PROVE OrderInv(s)'
    <2>1. /\ pc' = [pc EXCEPT ![p] = "failed"]
          /\ UNCHANGED <<table, cur, wire, fills, reoffered>>
      BY <1>20 DEF RecordExecutedUnsaved, Fail, Goto, history
    <2>2. pc[p] \in Holding /\ "failed" \in Holding
      BY <1>20 DEF RecordExecutedUnsaved, Holding
    <2>3. \A q \in Host : q # p => /\ Known(guard'[q]) = Known(guard[q])
                                   /\ guard'[q].uncertain = guard[q].uncertain
      BY <1>20, RecordExecutedUnsavedGuard DEF GuardMoves
    <2>4. cur[p] \in Known(guard'[p]) /\ "failed" \in AfterOrder \ Quarantining
      BY <1>20, RecordExecutedUnsavedGuard DEF GuardMoves, AfterOrder, Quarantining
    <2> QED
      BY <2>1, <2>2, <2>3, <2>4, OrderHeld
  <1>21. ASSUME NEW p \in Host, RecordRefused(p) PROVE OrderInv(s)'
    <2>1. /\ pc' = [pc EXCEPT ![p] = "failed"]
          /\ UNCHANGED <<table, cur, wire, fills, reoffered>>
      BY <1>21 DEF RecordRefused, Goto, history
    <2>2. pc[p] \in Holding /\ "failed" \in Holding
      BY <1>21 DEF RecordRefused, Holding
    <2>3. \A q \in Host : q # p => /\ Known(guard'[q]) = Known(guard[q])
                                   /\ guard'[q].uncertain = guard[q].uncertain
      BY <1>21, RecordRefusedGuard DEF GuardMoves
    <2>4. pc[p] \notin AfterOrder /\ "failed" \notin Quarantining
      BY <1>21 DEF RecordRefused, AfterOrder, Quarantining
    <2> QED
      BY <2>1, <2>2, <2>3, <2>4, OrderHeld
  <1>22. ASSUME NEW p \in Host, RecordRefusedUnsaved(p) PROVE OrderInv(s)'
    <2>1. /\ pc' = [pc EXCEPT ![p] = "failed"]
          /\ UNCHANGED <<table, cur, wire, fills, reoffered>>
      BY <1>22 DEF RecordRefusedUnsaved, Fail, Goto, history
    <2>2. pc[p] \in Holding /\ "failed" \in Holding
      BY <1>22 DEF RecordRefusedUnsaved, Holding
    <2>3. \A q \in Host : q # p => /\ Known(guard'[q]) = Known(guard[q])
                                   /\ guard'[q].uncertain = guard[q].uncertain
      BY <1>22, RecordRefusedUnsavedGuard DEF GuardMoves
    <2>4. pc[p] \notin AfterOrder /\ "failed" \notin Quarantining
      BY <1>22 DEF RecordRefusedUnsaved, AfterOrder, Quarantining
    <2> QED
      BY <2>1, <2>2, <2>3, <2>4, OrderHeld
  <1>23. ASSUME NEW p \in Host, Retry(p) PROVE OrderInv(s)'
    <2>1. /\ pc' = [pc EXCEPT ![p] = "claimed"]
          /\ UNCHANGED <<table, cur, wire, fills, reoffered>>
      BY <1>23 DEF Retry, Goto, history
    <2>2. pc[p] \in Holding /\ "claimed" \in Holding
      BY <1>23 DEF Retry, Holding
    <2>3. UNCHANGED guard
      BY <1>23 DEF Retry
    <2>4. "claimed" \in AfterOrder /\ ("claimed" \notin Quarantining)
      BY <1>23 DEF Retry, AfterOrder, Quarantining, OrderInv
    <2> QED
      BY <2>1, <2>2, <2>3, <2>4, OrderHeld
  <1>24. ASSUME NEW p \in Host, GiveUp(p) PROVE OrderInv(s)'
    BY <1>24
       DEF GiveUp, Finish, Forget, Goto, OrderInv, Ordered, Settling, Holding, Quarantining, AfterOrder, TypeOK, history
  <1>25. ASSUME NEW p \in Host, Requeue(p) PROVE OrderInv(s)'
    <2>1. /\ pc[p] = "failed" /\ cur[p] \in Signal /\ cur[p] \notin guard[p].uncertain
          /\ pc' = [pc EXCEPT ![p] = "scan"]
          /\ cur' = [cur EXCEPT ![p] = NoSignal]
          /\ UNCHANGED <<guard, wire, fills>>
      BY <1>25, CurTyped DEF Requeue, Finish, Forget, Goto, Retryable, IsUncertain
    <2>2. \A q \in Host : cur'[q] = s /\ pc'[q] \in Holding =>
            q # p /\ cur[q] = s /\ pc'[q] = pc[q]
      BY <2>1 DEF Holding, TypeOK
    <2>3. \A q \in Host : cur'[q] = s /\ pc'[q] \in Quarantining => s \in guard'[q].uncertain
      BY <2>1, <2>2 DEF OrderInv, Quarantining, Holding
    <2>4. CASE UNCHANGED <<table, reoffered>>
      BY <2>1, <2>2, <2>3, <2>4 DEF OrderInv, Ordered, Settling
    <2>5. CASE /\ table' = [table EXCEPT ![cur[p]] = "EXECUTION_READY"]
               /\ reoffered' = reoffered \cup ({cur[p]} \cap guard[p].seen)
      <3>1. CASE cur[p] # s
        <4>1. table'[s] = table[s] /\ (s \in reoffered' <=> s \in reoffered)
          BY <2>5, <3>1 DEF TypeOK
        <4> QED
          BY <2>1, <2>2, <2>3, <4>1 DEF OrderInv, Ordered, Settling
      <3>2. CASE cur[p] = s
        <4>1. ASSUME s \notin reoffered', NEW q \in Host PROVE ~ Ordered(q, s)
          <5>1. s \notin reoffered /\ s \notin Known(guard[p]) /\ Settling(p, s)
            BY <2>1, <2>5, <3>2, <4>1 DEF Known, Settling, Holding
          <5> QED
            BY <5>1 DEF OrderInv
        <4> QED
          BY <2>1, <2>3, <4>1 DEF OrderInv, Ordered
      <3> QED
        BY <3>1, <3>2
    <2> QED
      BY <1>25, <2>4, <2>5 DEF Requeue
  <1>26. ASSUME NEW p \in Host, Restart(p) PROVE OrderInv(s)'
    <2>1. /\ pc' = [pc EXCEPT ![p] = "idle"]
          /\ cur' = [cur EXCEPT ![p] = NoSignal]
          /\ \A q \in Host : q # p => guard'[q] = guard[q]
          /\ UNCHANGED <<table, wire, fills, reoffered>>
      BY <1>26 DEF Restart, Forget, Goto, Remember, TypeOK, history
    <2>2. \A q \in Host : cur'[q] = s /\ pc'[q] \in Holding =>
            q # p /\ cur[q] = s /\ pc'[q] = pc[q] /\ guard'[q] = guard[q]
      BY <2>1 DEF Holding, TypeOK
    <2>3. Quarantining \subseteq Holding
      BY DEF Quarantining, Holding
    <2> QED
      BY <2>1, <2>2, <2>3 DEF OrderInv, Ordered, Settling
  <1>27. ASSUME NEW p \in Host, NEW r \in Signal, PassOver(p, r) PROVE OrderInv(s)'
    BY <1>27
       DEF PassOver, OrderInv, Ordered, Settling, Holding, Quarantining, AfterOrder, TypeOK, history
  <1>28. ASSUME NEW p \in Host, NEW r \in Signal, PassCapacity(p, r) PROVE OrderInv(s)'
    BY <1>28
       DEF PassCapacity, Goto, OrderInv, Ordered, Settling, Holding, Quarantining, AfterOrder, TypeOK, history
  <1>29. ASSUME NEW p \in Host, NEW r \in Signal, BrokerAccepts(p, r) PROVE OrderInv(s)'
    <2>1. /\ <<p, r>> \in wire /\ pc[p] = "waiting" /\ cur[p] = r
          /\ pc' = [pc EXCEPT ![p] = "accepted"]
          /\ wire' = wire
          /\ UNCHANGED <<table, cur, guard, fills, reoffered>>
      BY <1>29 DEF BrokerAccepts, Awaits, Goto, history
    <2>2. \A q \in Host : /\ Settling(q, s)' <=> Settling(q, s)
                          /\ pc'[q] \in Quarantining => pc[q] \in Quarantining
                          /\ q # p => pc'[q] = pc[q]
      BY <2>1 DEF Settling, Holding, Quarantining, TypeOK
    <2>3. \A q \in Host : Ordered(q, s)' => Ordered(q, s)
      BY <2>1 DEF Ordered
    <2>4. pc'[p] \in AfterOrder
      BY <2>1 DEF AfterOrder, TypeOK
    <2> QED
      BY <2>1, <2>2, <2>3, <2>4 DEF OrderInv
  <1>30. ASSUME NEW p \in Host, NEW r \in Signal, BrokerFills(p, r) PROVE OrderInv(s)'
    <2>1. /\ <<p, r>> \in wire
          /\ wire' = wire \ {<<p, r>>}
          /\ fills' = [fills EXCEPT ![p][r] = @ + 1]
          /\ UNCHANGED <<table, cur, guard, reoffered>>
      BY <1>30 DEF BrokerFills
    <2>2. \A q \in Host : /\ pc'[q] = pc[q] \/ (pc[q] = "waiting" /\ pc'[q] = "accepted")
                          /\ Settling(q, s)' <=> Settling(q, s)
      <3>1. pc' = pc \/ (pc[p] = "waiting" /\ pc' = [pc EXCEPT ![p] = "accepted"])
        BY <1>30 DEF BrokerFills, Awaits
      <3> QED
        BY <2>1, <3>1 DEF Settling, Holding, TypeOK
    <2>3. \A q \in Host : /\ pc'[q] \in Quarantining => pc[q] \in Quarantining
                          /\ pc[q] \in AfterOrder => pc'[q] \in AfterOrder
      BY <2>2 DEF Quarantining, AfterOrder
    <2>4. CASE r # s
      <3>1. \A q \in Host : /\ fills'[q][s] = fills[q][s]
                            /\ <<q, s>> \in wire' <=> <<q, s>> \in wire
        BY <2>1, <2>4 DEF TypeOK
      <3> QED
        BY <2>1, <2>2, <2>3, <3>1 DEF OrderInv, Ordered
    <2>5. CASE r = s
      <3>1. \A q \in Host : q # p => /\ fills'[q][s] = fills[q][s]
                                     /\ <<q, s>> \in wire' <=> <<q, s>> \in wire
        BY <2>1, <2>5 DEF TypeOK
      <3>2. <<p, s>> \notin wire' /\ fills'[p][s] = fills[p][s] + 1 /\ fills[p][s] \in Nat
        BY <2>1, <2>5 DEF TypeOK
      <3>3. Ordered(p, s) /\ \A q \in Host : Ordered(q, s)' => Ordered(q, s)
        BY <2>1, <2>5, <3>1 DEF Ordered
      <3>4. \A q \in Host : cur'[q] = s /\ pc'[q] \in Quarantining => s \in guard'[q].uncertain
        BY <2>1, <2>3 DEF OrderInv
      <3>5. ASSUME s \notin reoffered PROVE fills'[p][s] = 1
        BY <2>1, <2>5, <3>2, <3>3, <3>5 DEF OrderInv
      <3>6. ASSUME s \notin reoffered, NEW o \in Host, NEW q \in Host, Ordered(o, s)'
            PROVE  /\ o = p
                   /\ table'[s] = "COOLDOWN"
                   /\ Ordered(q, s)' => o = q
                   /\ Settling(q, s)' =>
                        q = o /\ pc'[o] \in AfterOrder /\ s \in Known(guard'[o])
        BY <2>1, <2>2, <2>3, <3>3, <3>6 DEF OrderInv
      <3> QED
        BY <2>1, <3>2, <3>4, <3>5, <3>6 DEF OrderInv
    <2> QED
      BY <2>4, <2>5
  <1>31. ASSUME NEW p \in Host, NEW r \in Signal, BrokerRefuses(p, r) PROVE OrderInv(s)'
    <2>1. /\ <<p, r>> \in wire /\ pc[p] = "waiting" /\ cur[p] = r
          /\ pc' = [pc EXCEPT ![p] = "refused"]
          /\ wire' = wire \ {<<p, r>>}
          /\ UNCHANGED <<table, cur, guard, fills, reoffered>>
      BY <1>31 DEF BrokerRefuses, Awaits, Goto, history
    <2>2. \A q \in Host : /\ Settling(q, s)' <=> Settling(q, s)
                          /\ pc'[q] \in Quarantining => pc[q] \in Quarantining
                          /\ q # p => pc'[q] = pc[q]
      BY <2>1 DEF Settling, Holding, Quarantining, TypeOK
    <2>3. \A q \in Host : Ordered(q, s)' => Ordered(q, s)
      BY <2>1 DEF Ordered
    <2>4. s \notin reoffered /\ r = s => ~ Ordered(p, s)'
      BY <2>1 DEF OrderInv, Ordered
    <2>5. r # s => ~ Settling(p, s)
      BY <2>1 DEF Settling
    <2> QED
      BY <2>1, <2>2, <2>3, <2>4, <2>5 DEF OrderInv
  <1>32. ASSUME NEW p \in Host, NEW r \in Signal, OrderVanishes(p, r) PROVE OrderInv(s)'
    BY <1>32
       DEF OrderVanishes, OrderInv, Ordered, Settling, Holding, Quarantining, AfterOrder, TypeOK, history
  <1>33. ASSUME NEW o \in Order, PositionCloses(o) PROVE OrderInv(s)'
    BY <1>33
       DEF PositionCloses, OrderInv, Ordered, Settling, Holding, Quarantining, AfterOrder, TypeOK, history
  <1>34. ASSUME NEW o \in Order, PositionRepaired(o) PROVE OrderInv(s)'
    BY <1>34
       DEF PositionRepaired, OrderInv, Ordered, Settling, Holding, Quarantining, AfterOrder, TypeOK, history
  <1>35. CASE SetSwitches
    BY <1>35 DEF SetSwitches, OrderInv, Ordered, Settling, Holding, Quarantining, AfterOrder, TypeOK, history
  <1>36. CASE UNCHANGED vars
    BY <1>36 DEF vars, OrderInv, Ordered, Settling, Holding, Quarantining, AfterOrder, TypeOK, history
  <1> QED
    BY <1>1, <1>2, <1>3, <1>4, <1>5, <1>6, <1>7, <1>8, <1>9, <1>10,
       <1>11, <1>12, <1>13, <1>14, <1>15, <1>16, <1>17, <1>18, <1>19,
       <1>20, <1>21, <1>22, <1>23, <1>24, <1>25, <1>26, <1>27, <1>28,
       <1>29, <1>30, <1>31, <1>32, <1>33, <1>34, <1>35, <1>36
       DEF Next, HostStep, BrokerStep

(* The invariant of a signal's orders holds always.                        *)
LEMMA OrderHolds == Spec => [](\A s \in Signal : OrderInv(s))
  <1>1. TypeOK /\ [Next]_vars /\ (\A s \in Signal : ClaimInv(s))
        /\ (\A s \in Signal : OrderInv(s))
        => (\A s \in Signal : OrderInv(s))'
    BY OrderNext
  <1> QED
    BY <1>1, OrderInit, ClaimHolds, TypeCorrect, PTL DEF Spec

(* A signal with an order the broker may still execute is not on offer, to *)
(* no host, with or without a file that survives restarts, unless it was   *)
(* put back on offer after it had been recorded as executed.               *)
THEOREM OpenOrderNotOfferedHolds == Spec => []OpenOrderNotOffered
  <1>1. (\A s \in Signal : OrderInv(s)) => OpenOrderNotOffered
    BY DEF OrderInv, OpenOrderNotOffered, Ordered
  <1> QED
    BY <1>1, OrderHolds, PTL

(* Over all hosts a signal is executed at most once, with the same         *)
(* exception: the requeue after an accepted order is the only way to a     *)
(* second fill.                                                            *)
THEOREM AtMostOnceHolds == Spec => []AtMostOnceUnlessReoffered
  <1>1. TypeOK /\ (\A s \in Signal : OrderInv(s)) => AtMostOnceUnlessReoffered
    <2> SUFFICES ASSUME TypeOK, NEW s \in Signal, s \notin reoffered, OrderInv(s)
                 PROVE  /\ \A p \in Host : fills[p][s] <= 1
                        /\ \A p, q \in Host : fills[p][s] > 0 /\ fills[q][s] > 0 => p = q
      BY DEF AtMostOnceUnlessReoffered
    <2>1. \A p \in Host : fills[p][s] \in Nat
      BY DEF TypeOK
    <2>2. \A p, q \in Host : fills[p][s] > 0 =>
            fills[p][s] <= 1 /\ (fills[q][s] > 0 => p = q)
      BY DEF OrderInv, Ordered
    <2> QED
      BY <2>1, <2>2
  <1> QED
    BY <1>1, OrderHolds, TypeCorrect, PTL
-----------------------------------------------------------------------------
(* Stopping                                                                *)

(* Before the first poll no order was sent and nothing is latched.         *)
LEMMA StopInit == Init => \A h \in Host : StopInv(h)
  BY DEF Init, StopInv

(* Every step keeps what a halted or latched host may still do.            *)
LEMMA StopNext ==
    ASSUME TypeOK, [Next]_vars, NEW h \in Host, StopInv(h)
    PROVE  StopInv(h)'
  <1> USE DEF StopInv, Halted, TypeOK, hostVars, brokerVars, switchVars, history
  <1>1. ASSUME NEW p \in Host, Poll(p) PROVE StopInv(h)'
    BY <1>1 DEF Poll, Goto, Offered
  <1>2. ASSUME NEW p \in Host, EndPoll(p) PROVE StopInv(h)'
    BY <1>2 DEF EndPoll, Goto
  <1>3. ASSUME NEW p \in Host, PassExposure(p) PROVE StopInv(h)'
    BY <1>3 DEF PassExposure, Goto
  <1>4. ASSUME NEW p \in Host, ExposureBlocks(p) PROVE StopInv(h)'
    BY <1>4 DEF ExposureBlocks, Finish, Forget, Goto
  <1>5. ASSUME NEW p \in Host, Claim(p) PROVE StopInv(h)'
    BY <1>5 DEF Claim, Goto, Offered
  <1>6. ASSUME NEW p \in Host, ClaimFails(p) PROVE StopInv(h)'
    BY <1>6 DEF ClaimFails, Finish, Forget, Goto
  <1>7. ASSUME NEW p \in Host, Enter(p) PROVE StopInv(h)'
    BY <1>7 DEF Enter, Goto
  <1>8. ASSUME NEW p \in Host, EnterBlocked(p) PROVE StopInv(h)'
    BY <1>8 DEF EnterBlocked, Fail, Goto
  <1>9. ASSUME NEW p \in Host, Vet(p) PROVE StopInv(h)'
    BY <1>9 DEF Vet, Goto
  <1>10. ASSUME NEW p \in Host, VetFails(p) PROVE StopInv(h)'
    BY <1>10 DEF VetFails, Fail, Goto
  <1>11. ASSUME NEW p \in Host, Quarantine(p) PROVE StopInv(h)'
    BY <1>11 DEF Quarantine, Goto, SafetyBlocked
  <1>12. ASSUME NEW p \in Host, QuarantineUnsaved(p) PROVE StopInv(h)'
    BY <1>12 DEF QuarantineUnsaved, Fail, Goto
  <1>13. ASSUME NEW p \in Host, RecheckFails(p) PROVE StopInv(h)'
    BY <1>13 DEF RecheckFails, Fail, Goto
  <1>14. ASSUME NEW p \in Host, Submit(p) PROVE StopInv(h)'
    BY <1>14 DEF Submit, Goto
  <1>15. ASSUME NEW p \in Host, OutcomeUnknown(p) PROVE StopInv(h)'
    BY <1>15 DEF OutcomeUnknown, Fail, Goto
  <1>16. ASSUME NEW p \in Host, ProtectionVerified(p) PROVE StopInv(h)'
    BY <1>16 DEF ProtectionVerified, Goto
  <1>17. ASSUME NEW p \in Host, ProtectionUnverified(p) PROVE StopInv(h)'
    BY <1>17 DEF ProtectionUnverified, Goto
  <1>18. ASSUME NEW p \in Host, RecordVerified(p) PROVE StopInv(h)'
    BY <1>18 DEF RecordVerified, Finish, Forget, Goto
  <1>19. ASSUME NEW p \in Host, RecordUnverified(p) PROVE StopInv(h)'
    BY <1>19 DEF RecordUnverified, Fail, Goto
  <1>20. ASSUME NEW p \in Host, RecordExecutedUnsaved(p) PROVE StopInv(h)'
    BY <1>20 DEF RecordExecutedUnsaved, Fail, Goto
  <1>21. ASSUME NEW p \in Host, RecordRefused(p) PROVE StopInv(h)'
    BY <1>21 DEF RecordRefused, Goto
  <1>22. ASSUME NEW p \in Host, RecordRefusedUnsaved(p) PROVE StopInv(h)'
    BY <1>22 DEF RecordRefusedUnsaved, Fail, Goto
  <1>23. ASSUME NEW p \in Host, Retry(p) PROVE StopInv(h)'
    BY <1>23 DEF Retry, Goto
  <1>24. ASSUME NEW p \in Host, GiveUp(p) PROVE StopInv(h)'
    BY <1>24 DEF GiveUp, Finish, Forget, Goto
  <1>25. ASSUME NEW p \in Host, Requeue(p) PROVE StopInv(h)'
    BY <1>25 DEF Requeue, Finish, Forget, Goto
  <1>26. ASSUME NEW p \in Host, Restart(p) PROVE StopInv(h)'
    BY <1>26 DEF Restart, Forget, Goto
  <1>27. ASSUME NEW p \in Host, NEW r \in Signal, PassOver(p, r) PROVE StopInv(h)'
    BY <1>27 DEF PassOver
  <1>28. ASSUME NEW p \in Host, NEW r \in Signal, PassCapacity(p, r) PROVE StopInv(h)'
    BY <1>28 DEF PassCapacity, Goto
  <1>29. ASSUME NEW p \in Host, NEW r \in Signal, BrokerAccepts(p, r) PROVE StopInv(h)'
    BY <1>29 DEF BrokerAccepts, Goto, Awaits
  <1>30. ASSUME NEW p \in Host, NEW r \in Signal, BrokerFills(p, r) PROVE StopInv(h)'
    BY <1>30 DEF BrokerFills, Awaits
  <1>31. ASSUME NEW p \in Host, NEW r \in Signal, BrokerRefuses(p, r) PROVE StopInv(h)'
    BY <1>31 DEF BrokerRefuses, Goto, Awaits
  <1>32. ASSUME NEW p \in Host, NEW r \in Signal, OrderVanishes(p, r) PROVE StopInv(h)'
    BY <1>32 DEF OrderVanishes
  <1>33. ASSUME NEW o \in Order, PositionCloses(o) PROVE StopInv(h)'
    BY <1>33 DEF PositionCloses
  <1>34. ASSUME NEW o \in Order, PositionRepaired(o) PROVE StopInv(h)'
    BY <1>34 DEF PositionRepaired
  <1>35. CASE SetSwitches
    BY <1>35 DEF SetSwitches
  <1>36. CASE UNCHANGED vars
    BY <1>36 DEF vars
  <1> QED
    BY <1>1, <1>2, <1>3, <1>4, <1>5, <1>6, <1>7, <1>8, <1>9, <1>10,
       <1>11, <1>12, <1>13, <1>14, <1>15, <1>16, <1>17, <1>18, <1>19,
       <1>20, <1>21, <1>22, <1>23, <1>24, <1>25, <1>26, <1>27, <1>28,
       <1>29, <1>30, <1>31, <1>32, <1>33, <1>34, <1>35, <1>36
       DEF Next, HostStep, BrokerStep

(* The invariant of a halted or latched host holds always.                 *)
LEMMA StopHolds == Spec => [](\A h \in Host : StopInv(h))
  <1>1. TypeOK /\ [Next]_vars /\ (\A h \in Host : StopInv(h))
        => (\A h \in Host : StopInv(h))'
    BY StopNext
  <1> QED
    BY <1>1, StopInit, TypeCorrect, PTL DEF Spec

(* Once the system is halted, a host sends at most the one order that had  *)
(* passed its last check.                                                  *)
THEOREM AtMostOneOrderAfterHaltHolds == Spec => []AtMostOneOrderAfterHalt
  <1>1. (\A h \in Host : StopInv(h)) => AtMostOneOrderAfterHalt
    BY DEF StopInv, AtMostOneOrderAfterHalt
  <1> QED
    BY <1>1, StopHolds, PTL

(* Only a submission puts an order on its way, and it is of the host's     *)
(* current signal.                                                         *)
LEMMA OnlySubmitSends ==
    ASSUME TypeOK, [Next]_vars, NEW h \in Host, NEW s \in Signal,
           <<h, s>> \in wire', <<h, s>> \notin wire
    PROVE  pc[h] = "quarantined"
  <1> USE DEF hostVars, brokerVars, switchVars, history
  <1>1. ASSUME NEW p \in Host, Poll(p) PROVE pc[h] = "quarantined"
    BY <1>1 DEF Poll
  <1>2. ASSUME NEW p \in Host, EndPoll(p) PROVE pc[h] = "quarantined"
    BY <1>2 DEF EndPoll
  <1>3. ASSUME NEW p \in Host, PassExposure(p) PROVE pc[h] = "quarantined"
    BY <1>3 DEF PassExposure
  <1>4. ASSUME NEW p \in Host, ExposureBlocks(p) PROVE pc[h] = "quarantined"
    BY <1>4 DEF ExposureBlocks
  <1>5. ASSUME NEW p \in Host, Claim(p) PROVE pc[h] = "quarantined"
    BY <1>5 DEF Claim
  <1>6. ASSUME NEW p \in Host, ClaimFails(p) PROVE pc[h] = "quarantined"
    BY <1>6 DEF ClaimFails
  <1>7. ASSUME NEW p \in Host, Enter(p) PROVE pc[h] = "quarantined"
    BY <1>7 DEF Enter
  <1>8. ASSUME NEW p \in Host, EnterBlocked(p) PROVE pc[h] = "quarantined"
    BY <1>8 DEF EnterBlocked
  <1>9. ASSUME NEW p \in Host, Vet(p) PROVE pc[h] = "quarantined"
    BY <1>9 DEF Vet
  <1>10. ASSUME NEW p \in Host, VetFails(p) PROVE pc[h] = "quarantined"
    BY <1>10 DEF VetFails
  <1>11. ASSUME NEW p \in Host, Quarantine(p) PROVE pc[h] = "quarantined"
    BY <1>11 DEF Quarantine
  <1>12. ASSUME NEW p \in Host, QuarantineUnsaved(p) PROVE pc[h] = "quarantined"
    BY <1>12 DEF QuarantineUnsaved
  <1>13. ASSUME NEW p \in Host, RecheckFails(p) PROVE pc[h] = "quarantined"
    BY <1>13 DEF RecheckFails
  <1>14. ASSUME NEW p \in Host, Submit(p) PROVE pc[h] = "quarantined"
    BY <1>14 DEF Submit
  <1>15. ASSUME NEW p \in Host, OutcomeUnknown(p) PROVE pc[h] = "quarantined"
    BY <1>15 DEF OutcomeUnknown
  <1>16. ASSUME NEW p \in Host, ProtectionVerified(p) PROVE pc[h] = "quarantined"
    BY <1>16 DEF ProtectionVerified
  <1>17. ASSUME NEW p \in Host, ProtectionUnverified(p) PROVE pc[h] = "quarantined"
    BY <1>17 DEF ProtectionUnverified
  <1>18. ASSUME NEW p \in Host, RecordVerified(p) PROVE pc[h] = "quarantined"
    BY <1>18 DEF RecordVerified
  <1>19. ASSUME NEW p \in Host, RecordUnverified(p) PROVE pc[h] = "quarantined"
    BY <1>19 DEF RecordUnverified
  <1>20. ASSUME NEW p \in Host, RecordExecutedUnsaved(p) PROVE pc[h] = "quarantined"
    BY <1>20 DEF RecordExecutedUnsaved
  <1>21. ASSUME NEW p \in Host, RecordRefused(p) PROVE pc[h] = "quarantined"
    BY <1>21 DEF RecordRefused
  <1>22. ASSUME NEW p \in Host, RecordRefusedUnsaved(p) PROVE pc[h] = "quarantined"
    BY <1>22 DEF RecordRefusedUnsaved
  <1>23. ASSUME NEW p \in Host, Retry(p) PROVE pc[h] = "quarantined"
    BY <1>23 DEF Retry
  <1>24. ASSUME NEW p \in Host, GiveUp(p) PROVE pc[h] = "quarantined"
    BY <1>24 DEF GiveUp
  <1>25. ASSUME NEW p \in Host, Requeue(p) PROVE pc[h] = "quarantined"
    BY <1>25 DEF Requeue
  <1>26. ASSUME NEW p \in Host, Restart(p) PROVE pc[h] = "quarantined"
    BY <1>26 DEF Restart
  <1>27. ASSUME NEW p \in Host, NEW r \in Signal, PassOver(p, r) PROVE pc[h] = "quarantined"
    BY <1>27 DEF PassOver
  <1>28. ASSUME NEW p \in Host, NEW r \in Signal, PassCapacity(p, r) PROVE pc[h] = "quarantined"
    BY <1>28 DEF PassCapacity
  <1>29. ASSUME NEW p \in Host, NEW r \in Signal, BrokerAccepts(p, r) PROVE pc[h] = "quarantined"
    BY <1>29 DEF BrokerAccepts
  <1>30. ASSUME NEW p \in Host, NEW r \in Signal, BrokerFills(p, r) PROVE pc[h] = "quarantined"
    BY <1>30 DEF BrokerFills
  <1>31. ASSUME NEW p \in Host, NEW r \in Signal, BrokerRefuses(p, r) PROVE pc[h] = "quarantined"
    BY <1>31 DEF BrokerRefuses
  <1>32. ASSUME NEW p \in Host, NEW r \in Signal, OrderVanishes(p, r) PROVE pc[h] = "quarantined"
    BY <1>32 DEF OrderVanishes
  <1>33. ASSUME NEW o \in Order, PositionCloses(o) PROVE pc[h] = "quarantined"
    BY <1>33 DEF PositionCloses
  <1>34. ASSUME NEW o \in Order, PositionRepaired(o) PROVE pc[h] = "quarantined"
    BY <1>34 DEF PositionRepaired
  <1>35. CASE SetSwitches
    BY <1>35 DEF SetSwitches
  <1>36. CASE UNCHANGED vars
    BY <1>36 DEF vars
  <1> QED
    BY <1>1, <1>2, <1>3, <1>4, <1>5, <1>6, <1>7, <1>8, <1>9, <1>10,
       <1>11, <1>12, <1>13, <1>14, <1>15, <1>16, <1>17, <1>18, <1>19,
       <1>20, <1>21, <1>22, <1>23, <1>24, <1>25, <1>26, <1>27, <1>28,
       <1>29, <1>30, <1>31, <1>32, <1>33, <1>34, <1>35, <1>36
       DEF Next, HostStep, BrokerStep

(* A host whose latch is set sends no order, until it is restarted.        *)
THEOREM LatchStopsOrdersHolds == Spec => LatchStopsOrders
  <1>1. TypeOK /\ (\A h \in Host : StopInv(h)) /\ [Next]_vars
        => [\A p \in Host : latch[p] # "none" =>
               \A s \in Signal : <<p, s>> \in wire' => <<p, s>> \in wire]_vars
    BY OnlySubmitSends DEF StopInv
  <1> QED
    BY <1>1, StopHolds, TypeCorrect, PTL DEF Spec, LatchStopsOrders
-----------------------------------------------------------------------------
(* Polling to the end                                                      *)

(* A step leaves where a host is in its poll.                              *)
Stays(p) == UNCHANGED <<pc[p], todo[p], cur[p], attempt[p]>>

(* The host takes its next step with the same row and attempt.             *)
Steps(p) == /\ todo' = todo /\ attempt' = attempt
            /\ \E label \in Step : /\ pc' = [pc EXCEPT ![p] = label]
                                   /\ Phase[label] > Phase[pc[p]]
                                   /\ pc[p] \in Holding => label \in Holding
            /\ \/ cur' = cur
               \/ \E s \in todo[p] : cur' = [cur EXCEPT ![p] = s]

(* The row is done, and it was still to be handled.                        *)
LetsGo(p) == Finish(p) /\ pc[p] \notin {"idle", "scan"}

(* Every step of a poll takes one of these forms.                          *)
LEMMA HostStepForms ==
    ASSUME TypeOK, NEW p \in Host, HostStep(p), pc[p] # "idle"
    PROVE  \/ Steps(p)
           \/ LetsGo(p)
           \/ EndPoll(p)
           \/ \E s \in Signal : PassOver(p, s)
           \/ Claim(p) \/ Retry(p)
  <1>1. CASE PassExposure(p)
    BY <1>1 DEF PassExposure, Steps, Goto, Phase, Step, Holding
  <1>2. CASE ExposureBlocks(p)
    BY <1>2 DEF ExposureBlocks, LetsGo
  <1>3. CASE ClaimFails(p)
    BY <1>3 DEF ClaimFails, LetsGo
  <1>4. CASE Enter(p)
    BY <1>4 DEF Enter, Steps, Goto, Phase, Step, Holding
  <1>5. CASE EnterBlocked(p)
    BY <1>5 DEF EnterBlocked, Steps, Fail, Goto, Phase, Step, Holding
  <1>6. CASE Vet(p)
    BY <1>6 DEF Vet, Steps, Goto, Phase, Step, Holding
  <1>7. CASE VetFails(p)
    BY <1>7 DEF VetFails, Steps, Fail, Goto, Phase, Step, Holding
  <1>8. CASE Quarantine(p)
    BY <1>8 DEF Quarantine, Steps, Goto, Phase, Step, Holding
  <1>9. CASE QuarantineUnsaved(p)
    BY <1>9 DEF QuarantineUnsaved, Steps, Fail, Goto, Phase, Step, Holding
  <1>10. CASE RecheckFails(p)
    BY <1>10 DEF RecheckFails, Steps, Fail, Goto, Phase, Step, Holding
  <1>11. CASE Submit(p)
    BY <1>11 DEF Submit, Steps, Goto, Phase, Step, Holding
  <1>12. CASE OutcomeUnknown(p)
    BY <1>12 DEF OutcomeUnknown, Steps, Fail, Goto, Phase, Step, Holding
  <1>13. CASE ProtectionVerified(p)
    BY <1>13 DEF ProtectionVerified, Steps, Goto, Phase, Step, Holding
  <1>14. CASE ProtectionUnverified(p)
    BY <1>14 DEF ProtectionUnverified, Steps, Goto, Phase, Step, Holding
  <1>15. CASE RecordVerified(p)
    BY <1>15 DEF RecordVerified, LetsGo
  <1>16. CASE RecordUnverified(p)
    BY <1>16 DEF RecordUnverified, Steps, Fail, Goto, Phase, Step, Holding
  <1>17. CASE RecordExecutedUnsaved(p)
    BY <1>17 DEF RecordExecutedUnsaved, Steps, Fail, Goto, Phase, Step, Holding
  <1>18. CASE RecordRefused(p)
    BY <1>18 DEF RecordRefused, Steps, Goto, Phase, Step, Holding
  <1>19. CASE RecordRefusedUnsaved(p)
    BY <1>19 DEF RecordRefusedUnsaved, Steps, Fail, Goto, Phase, Step, Holding
  <1>20. CASE GiveUp(p)
    BY <1>20 DEF GiveUp, LetsGo
  <1>21. CASE Requeue(p)
    BY <1>21 DEF Requeue, LetsGo
  <1>22. ASSUME NEW s \in Signal, PassCapacity(p, s) PROVE Steps(p)
    <2>1. todo' = todo /\ attempt' = attempt /\ \E r \in todo[p] : cur' = [cur EXCEPT ![p] = r]
      BY <1>22 DEF PassCapacity
    <2>2. pc' = [pc EXCEPT ![p] = "counted"] /\ pc[p] = "scan"
      BY <1>22 DEF PassCapacity, Goto
    <2>3. Phase["counted"] > Phase["scan"] /\ "scan" \notin Holding /\ "counted" \in Step
      BY DEF Phase, Step, Holding
    <2> QED
      BY <2>1, <2>2, <2>3 DEF Steps
  <1> QED
    BY <1>1, <1>2, <1>3, <1>4, <1>5, <1>6, <1>7, <1>8, <1>9, <1>10,
       <1>11, <1>12, <1>13, <1>14, <1>15, <1>16, <1>17, <1>18, <1>19, <1>20,
       <1>21, <1>22
       DEF HostStep, Poll

(* Each of them brings the poll of its host nearer to its end, and leaves  *)
(* those of other hosts alone.                                             *)
LEMMA HostNearer ==
    ASSUME TypeOK, NEW p \in Host, HostStep(p), pc[p] # "idle", WorkInv(p)
    PROVE  Nearer(p) /\ WorkInv(p)' /\ \A q \in Host \ {p} : Stays(q)
  <1> USE DEF Nearer, WorkInv, Stays
  <1>1. CASE Steps(p)
    BY <1>1 DEF Steps, TypeOK
  <1>2. CASE LetsGo(p)
    <2>1. cur[p] \in todo[p] /\ todo'[p] = todo[p] \ {cur[p]}
      BY <1>2, CurTyped, SignalAssumption DEF LetsGo, Finish, TypeOK
    <2>2. cur'[p] = NoSignal /\ attempt'[p] = 0 /\ \A q \in Host \ {p} : Stays(q)
      BY <1>2 DEF LetsGo, Finish, Forget, Goto, TypeOK
    <2> QED
      BY <2>1, <2>2
  <1>3. CASE EndPoll(p)
    BY <1>3 DEF EndPoll, Goto, TypeOK, Holding
  <1>4. ASSUME NEW s \in Signal, PassOver(p, s)
        PROVE  Nearer(p) /\ WorkInv(p)' /\ \A q \in Host \ {p} : Stays(q)
    <2>1. s \in todo[p] /\ todo'[p] = todo[p] \ {s} /\ cur'[p] = NoSignal /\ attempt'[p] = 0
      BY <1>4 DEF PassOver, TypeOK, Holding
    <2>2. \A q \in Host \ {p} : Stays(q)
      BY <1>4 DEF PassOver, TypeOK
    <2> QED
      BY <2>1, <2>2
  <1>5. CASE Claim(p)
    <2>1. attempt[p] = 0
      BY <1>5 DEF Claim, Holding
    <2> QED
      BY <1>5, <2>1 DEF Claim, Goto, TypeOK, Holding
  <1>6. CASE Retry(p)
    BY <1>6 DEF Retry, Goto, TypeOK, Holding
  <1> QED
    BY <1>1, <1>2, <1>3, <1>4, <1>5, <1>6, HostStepForms

(* The broker moves a host that awaits its answer, or none.                *)
LEMMA BrokerForward ==
    ASSUME TypeOK, NEW p \in Host, NEW s \in Signal,
           \/ BrokerAccepts(p, s) \/ BrokerFills(p, s)
           \/ BrokerRefuses(p, s) \/ OrderVanishes(p, s)
    PROVE  (Steps(p) /\ cur' = cur) \/ \A q \in Host : Stays(q)
  <1>1. BrokerAccepts(p, s) => Steps(p) /\ cur' = cur
    BY DEF BrokerAccepts, Awaits, Goto, hostVars, Steps, Phase, Step, Holding
  <1>2. BrokerRefuses(p, s) => Steps(p) /\ cur' = cur
    BY DEF BrokerRefuses, Awaits, Goto, Steps, Phase, Step, Holding
  <1>3. BrokerFills(p, s) => (Steps(p) /\ cur' = cur) \/ \A q \in Host : Stays(q)
    BY DEF BrokerFills, Awaits, Stays, Steps, Phase, Step, Holding
  <1>4. OrderVanishes(p, s) => \A q \in Host : Stays(q)
    BY DEF OrderVanishes, hostVars, Stays
  <1> QED
    BY <1>1, <1>2, <1>3, <1>4

(* Every step brings a poll nearer to its end or leaves it where it is.    *)
LEMMA ForwardNext ==
    ASSUME TypeOK, [Next]_vars, \A q \in Host : WorkInv(q), NEW p \in Host
    PROVE  WorkInv(p)' /\ (pc[p] # "idle" => Nearer(p) \/ Stays(p))
  <1>1. Stays(p) => WorkInv(p)'
    BY DEF Stays, WorkInv
  <1>2. ASSUME NEW h \in Host, Steps(h), cur' = cur
        PROVE  WorkInv(p)' /\ (Nearer(p) \/ Stays(p))
    BY <1>2 DEF Steps, WorkInv, Nearer, Stays, TypeOK
  <1>3. ASSUME NEW h \in Host, HostStep(h), pc[h] # "idle"
        PROVE  WorkInv(p)' /\ (Nearer(p) \/ Stays(p))
    BY <1>1, <1>3, HostNearer
  <1>4. ASSUME NEW h \in Host, HostStep(h), pc[h] = "idle"
        PROVE  WorkInv(p)' /\ (pc[p] # "idle" => Stays(p))
    <2>1. Poll(h)
      BY <1>4 DEF HostStep, EndPoll, PassOver, PassCapacity, PassExposure, ExposureBlocks, Claim,
         ClaimFails, Enter, EnterBlocked, Vet, VetFails, Quarantine, QuarantineUnsaved,
         RecheckFails, Submit, OutcomeUnknown, ProtectionVerified, ProtectionUnverified,
         RecordVerified, RecordUnverified, RecordExecutedUnsaved, RecordRefused,
         RecordRefusedUnsaved, Retry, GiveUp, Requeue
    <2>2. CASE p = h
      BY <2>1, <2>2 DEF Poll, Goto, TypeOK, WorkInv, Holding
    <2>3. CASE p # h
      BY <1>1, <2>1, <2>3 DEF Poll, Goto, TypeOK, Stays
    <2> QED
      BY <2>2, <2>3
  <1>5. ASSUME NEW h \in Host, Restart(h)
        PROVE  WorkInv(p)' /\ (Nearer(p) \/ Stays(p))
    <2>1. /\ pc'[h] = "idle" /\ WorkInv(h)' /\ \A q \in Host \ {h} : Stays(q)
      BY <1>5 DEF Restart, Goto, Forget, TypeOK, Stays, WorkInv, Holding
    <2> QED
      BY <1>1, <2>1 DEF Nearer
  <1>6. ASSUME NEW h \in Host, NEW s \in Signal,
               \/ BrokerAccepts(h, s) \/ BrokerFills(h, s)
               \/ BrokerRefuses(h, s) \/ OrderVanishes(h, s)
        PROVE  WorkInv(p)' /\ (Nearer(p) \/ Stays(p))
    BY <1>1, <1>2, <1>6, BrokerForward
  <1>7. CASE (\E o \in Order : PositionCloses(o) \/ PositionRepaired(o)) \/ SetSwitches
             \/ UNCHANGED vars
    <2>1. Stays(p)
      BY <1>7 DEF PositionCloses, PositionRepaired, SetSwitches, vars, hostVars, Stays
    <2> QED
      BY <1>1, <2>1
  <1> QED
    BY <1>3, <1>4, <1>5, <1>6, <1>7 DEF Next, BrokerStep

(* What a poll still has to handle, always.                                *)
LEMMA WorkHolds == Spec => [](\A p \in Host : WorkInv(p))
  <1>1. Init => \A p \in Host : WorkInv(p)
    BY DEF Init, WorkInv
  <1>2. TypeOK /\ [Next]_vars /\ (\A p \in Host : WorkInv(p)) => (\A p \in Host : WorkInv(p))'
    BY ForwardNext
  <1> QED
    BY <1>1, <1>2, TypeCorrect, PTL DEF Spec

(* A poll does a bounded amount of work, for any hosts, signals and        *)
(* attempts: each step of its host finishes a row, starts an attempt or    *)
(* takes one a step further, and nobody takes it back.                     *)
THEOREM PollGoesForwardHolds == Spec => PollGoesForward
  <1>1. TypeOK /\ (\A p \in Host : WorkInv(p)) /\ [Next]_vars =>
          [\A p \in Host : pc[p] # "idle" =>
              /\ HostStep(p) => Nearer(p)
              /\ Nearer(p) \/ UNCHANGED <<pc[p], todo[p], cur[p], attempt[p]>>]_vars
    BY HostNearer, ForwardNext DEF Stays
  <1> QED
    BY <1>1, WorkHolds, TypeCorrect, PTL DEF Spec, PollGoesForward
=============================================================================
