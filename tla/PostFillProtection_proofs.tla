--------------------- MODULE PostFillProtection_proofs ----------------------
(* What is proved of PostFillProtection for any number of reads and amends.*)
EXTENDS PostFillProtection, TLAPS

USE AttemptsAssumption, NothingAssumption

(* Every step keeps the types, and the count of the amends on their way.   *)
LEMMA TypeStep == TypeOK /\ [Next]_vars => TypeOK'
<1> SUFFICES ASSUME TypeOK, [Next]_vars PROVE TypeOK'
  OBVIOUS
<1>a. ASSUME NEW c \in Verified \cup Gone \cup Refused, Return(c), pc # "returned" PROVE TypeOK'
  <2>1. c # "none"
    BY DEF Verified, Gone, Refused
  <2> QED
    BY <1>a, <2>1 DEF TypeOK, Return, Guarded
<1>b. ASSUME NEW q, NEW r \in 1 .. ReconcileAttempts, Goto(q, r, amends), UNCHANGED wire,
             pc # "returned",
             \/ q \in {"waiting", "planning"} /\ pc \in {"called", "waiting", "planning"}
             \/ q \in {"rechecking", "amending"} /\ pc \in {"planning", "rechecking"}
             \/ q = "confirming" /\ pc = "confirming"
      PROVE  TypeOK'
  BY <1>b DEF TypeOK, Goto, Guarded
<1>c. ASSUME NEW p \in Position, NEW w \in 0 .. wire, World(p), wire' = w PROVE TypeOK'
  <2>1. pos' \in Position /\ UNCHANGED <<pc, reads, amends, code, seen>> /\ held' \in BOOLEAN
    BY <1>c DEF World, TypeOK, Guarded
  <2> QED
    BY <1>c, <2>1 DEF TypeOK
<1>e. ASSUME pc = "confirming", amends > 1, Goto("rechecking", reads, amends - 1), UNCHANGED wire
      PROVE  TypeOK'
  <2>1. /\ amends' \in 1 .. AmendAttempts /\ wire' + amends' <= AmendAttempts
        /\ reads' \in 1 .. ReconcileAttempts
    BY <1>e DEF TypeOK, Goto
  <2>2. pc' = "rechecking" /\ seen' = Nothing /\ held' \in BOOLEAN /\ pos' \in Position
        /\ code' = "none" /\ wire' \in 0 .. AmendAttempts
    BY <1>e DEF TypeOK, Goto, Guarded
  <2> QED
    BY <2>1, <2>2 DEF TypeOK
<1>d. reads \in 1 .. ReconcileAttempts /\ reads \in Nat
  BY DEF TypeOK
<1>1. CASE Call
  <2>1. CASE Return("ACCOUNT_OR_POSITION_ID")
    BY <1>1, <1>a, <2>1 DEF Call, Refused
  <2>2. CASE Goto("waiting", reads, amends) /\ UNCHANGED wire
    BY <1>1, <1>b, <1>d, <2>2 DEF Call
  <2> QED
    BY <1>1, <2>1, <2>2 DEF Call
<1>2. CASE WaitSees
  <2>1. CASE Judged("PROTECTION_VERIFIED")
    BY <1>2, <1>a, <2>1 DEF WaitSees, Judged, Verified, Refused
  <2>2. CASE Goto("planning", reads, amends) /\ UNCHANGED wire
    BY <1>2, <1>b, <1>d, <2>2 DEF WaitSees
  <2> QED
    BY <1>2, <2>1, <2>2 DEF WaitSees
<1>3. CASE WaitMisses
  <2>1. CASE Return("POSITION_RECONCILE_TIMEOUT")
    BY <1>3, <1>a, <2>1 DEF WaitMisses, Refused
  <2>2. CASE reads # 1 /\ Goto("waiting", reads - 1, amends) /\ UNCHANGED wire
    <3>1. reads - 1 \in 1 .. ReconcileAttempts
      BY <1>d, <2>2
    <3> QED
      BY <1>3, <1>b, <2>2, <3>1 DEF WaitMisses
  <2> QED
    BY <1>3, <2>1, <2>2 DEF WaitMisses
<1>4. CASE Plan
  <2>1. CASE Return("BROKER_MIN_DISTANCE_REJECTED")
    BY <1>4, <1>a, <2>1 DEF Plan, Refused
  <2>2. CASE Goto("rechecking", reads, amends) /\ UNCHANGED wire
    BY <1>4, <1>b, <1>d, <2>2 DEF Plan
  <2> QED
    BY <1>4, <2>1, <2>2 DEF Plan
<1> USE DEF TypeOK, Goto, Return, World, Guarded, Verified, Gone, Refused, Position
<1>5. CASE RecheckSees
  BY <1>5 DEF RecheckSees, Judged
<1>6. CASE RecheckMisses
  BY <1>6 DEF RecheckMisses
<1>7. CASE SendAmend
  BY <1>7 DEF SendAmend
<1>8. CASE ConfirmLacks
  <2>1. CASE reads > 1
    <3>1. reads - 1 \in 1 .. ReconcileAttempts /\ pc = "confirming"
      BY <1>8, <2>1 DEF ConfirmLacks
    <3>2. Goto("confirming", reads - 1, amends) /\ UNCHANGED wire
      BY <1>8, <2>1 DEF ConfirmLacks
    <3> QED
      BY <3>1, <3>2
  <2>2. CASE reads <= 1 /\ amends > 1
    BY <1>8, <1>e, <2>2 DEF ConfirmLacks
  <2>3. CASE reads <= 1 /\ amends <= 1
    BY <1>8, <1>a, <2>3 DEF ConfirmLacks
  <2> QED
    BY <2>1, <2>2, <2>3
<1>9. CASE ConfirmSees
  BY <1>9 DEF ConfirmSees, Judged
<1>10. CASE ConfirmMisses
  BY <1>10 DEF ConfirmMisses
<1>11. CASE Appears
  BY <1>11 DEF Appears
<1>12. CASE Closes
  BY <1>12 DEF Closes
<1>13. CASE AmendExecuted
  BY <1>13, <1>c DEF AmendExecuted, Levels
<1>14. CASE OtherAmends
  BY <1>14 DEF OtherAmends
<1>15. CASE OtherChangesVolume
  BY <1>15 DEF OtherChangesVolume
<1>16. CASE Answers
  BY <1>16 DEF Answers, Answer
<1>17. CASE UNCHANGED vars
  BY <1>17 DEF vars
<1> QED
  BY <1>1, <1>2, <1>3, <1>4, <1>5, <1>6, <1>7, <1>8, <1>9, <1>10, <1>11, <1>12, <1>13, <1>14,
     <1>15, <1>16, <1>17 DEF Next, Ensure, Broker

(* Every reachable state is well typed: no more than one amend more than   *)
(* the attempts left is ever on its way.                                   *)
THEOREM TypeCorrect == Spec => []TypeOK
<1>1. Init => TypeOK
  BY DEF Init, TypeOK, Position, Guarded
<1> QED
  BY <1>1, TypeStep, PTL DEF Spec
-----------------------------------------------------------------------------
(* What the manager does to the position and to the history.               *)
LEMMA EnsureLooks ==
    ASSUME TypeOK, Ensure
    PROVE  /\ pc # "returned" /\ UNCHANGED pos
           /\ seen' = Nothing /\ held' = Guarded(pos)
           /\ \/ UNCHANGED code
              \/ code' \in Gone \cup Refused
              \/ code' \in Verified /\ Sees /\ Complete(seen)
<1> USE DEF Return, Goto
<1>1. CASE Call
  BY <1>1 DEF Call, Refused
<1>2. CASE WaitSees
  BY <1>2 DEF WaitSees, Judged, Refused, Verified
<1>3. CASE WaitMisses
  BY <1>3 DEF WaitMisses, Refused
<1>4. CASE Plan
  BY <1>4 DEF Plan, Refused
<1>5. CASE RecheckSees
  BY <1>5 DEF RecheckSees, Judged, Refused, Verified
<1>6. CASE RecheckMisses
  BY <1>6 DEF RecheckMisses, Gone
<1>7. CASE SendAmend
  BY <1>7 DEF SendAmend
<1>8. CASE ConfirmLacks
  BY <1>8 DEF ConfirmLacks, Refused
<1>9. CASE ConfirmSees
  BY <1>9 DEF ConfirmSees, Judged, Refused, Verified
<1>10. CASE ConfirmMisses
  BY <1>10 DEF ConfirmMisses, Gone
<1> QED
  BY <1>1, <1>2, <1>3, <1>4, <1>5, <1>6, <1>7, <1>8, <1>9, <1>10 DEF Ensure

(* What happens at the broker, but for the answers to reads.               *)
LEMMA BrokerLives ==
    ASSUME TypeOK, Broker
    PROVE  /\ UNCHANGED code
           /\ \/ Answers
              \/ UNCHANGED seen /\ held' = (held \/ Guarded(pos)')
<1>1. ASSUME NEW p, World(p) PROVE UNCHANGED <<code, seen>> /\ held' = (held \/ Guarded(pos)')
  BY <1>1 DEF World, Guarded
<1>2. CASE Answers
  BY <1>2 DEF Answers
<1> QED
  BY <1>1, <1>2 DEF Broker, Appears, Closes, AmendExecuted, OtherAmends, OtherChangesVolume

(* An answer is of a moment since its read was asked for.                  *)
LEMMA HeldStep == TypeOK /\ HeldInv /\ [Next]_vars => HeldInv'
<1> SUFFICES ASSUME TypeOK, HeldInv, [Next]_vars PROVE HeldInv'
  OBVIOUS
<1>1. CASE Ensure
  BY <1>1, EnsureLooks DEF HeldInv, Sees, Guarded
<1>2. CASE Answers
  BY <1>2 DEF Answers, HeldInv, Guarded, Complete
<1>3. CASE Broker /\ ~Answers
  BY <1>3, BrokerLives DEF HeldInv, Sees, Complete
<1>4. CASE UNCHANGED vars
  BY <1>4 DEF vars, HeldInv, Sees, Complete, Guarded
<1> QED
  BY <1>1, <1>2, <1>3, <1>4 DEF Next

(* What a verdict says of the moments since the last read was asked for.   *)
LEMMA VerdictStep == TypeOK /\ HeldInv /\ [Next]_vars => [Verdict!VNext]_(Verdict!pvars)
<1> SUFFICES ASSUME TypeOK, HeldInv, [Next]_vars PROVE [Verdict!VNext]_(Verdict!pvars)
  OBVIOUS
<1> DEFINE verdict == IF code = "none" THEN "none"
                      ELSE IF code \in Verified THEN "protected" ELSE "given up"
<1> USE DEF Verdict!VNext, Verdict!pvars
<1>1. CASE Ensure
  <2>1. verdict = "none" /\ held' = Guarded(pos) /\ UNCHANGED Guarded(pos)
    BY <1>1, EnsureLooks DEF TypeOK, Guarded
  <2>2. CASE UNCHANGED code
    BY <2>1, <2>2 DEF Verdict!LooksAgain
  <2>3. CASE code' \in Gone \cup Refused
    <3>1. verdict' = "given up"
      BY <2>3 DEF Gone, Refused, Verified
    <3> QED
      BY <2>1, <3>1 DEF Verdict!Ends
  <2>4. CASE code' \in Verified /\ Sees /\ Complete(seen)
    <3>1. verdict' = "protected" /\ held
      BY <2>4 DEF Verified, HeldInv
    <3> QED
      BY <2>1, <3>1 DEF Verdict!Ends
  <2> QED
    BY <1>1, <2>2, <2>3, <2>4, EnsureLooks
<1>2. CASE Broker
  <2>1. UNCHANGED verdict
    BY <1>2, BrokerLives
  <2>2. CASE Answers
    BY <2>1, <2>2 DEF Answers, Guarded
  <2>3. CASE held' = (held \/ Guarded(pos)')
    BY <2>1, <2>3 DEF Verdict!Lives, Guarded
  <2> QED
    BY <1>2, <2>2, <2>3, BrokerLives
<1>3. CASE UNCHANGED vars
  BY <1>3 DEF vars, Guarded
<1> QED
  BY <1>1, <1>2, <1>3 DEF Next

(* ensure implements the verdict the order path relies on, with others     *)
(* taking levels away between any two of its steps, and with answers that  *)
(* are as late as they can be (CTraderPostFillProtectionManager.ensure).   *)
THEOREM GivesVerdictHolds == Spec => GivesVerdict
<1>1. Init => HeldInv /\ Verdict!VInit
  BY DEF Init, HeldInv, Sees, Verdict!VInit, Guarded
<1>2. TypeOK /\ HeldInv /\ [Next]_vars => HeldInv'
  BY HeldStep
<1> QED
  BY <1>1, <1>2, TypeCorrect, VerdictStep, PTL DEF Spec, GivesVerdict, Verdict!VSpec
-----------------------------------------------------------------------------
(* Each step of ensure brings it nearer to its end.                        *)
LEMMA EnsureNearer == TypeOK /\ Ensure => Nearer
<1> SUFFICES ASSUME TypeOK, Ensure PROVE Nearer
  OBVIOUS
<1>0. reads \in Nat /\ amends \in Nat
  BY DEF TypeOK
<1>1. ASSUME NEW c, Return(c), pc # "returned" PROVE Nearer
  BY <1>1 DEF TypeOK, Return, Nearer, Phase
<1>2. CASE Call
  BY <1>1, <1>2 DEF Call, Goto, Nearer, Phase
<1>3. CASE WaitSees
  BY <1>1, <1>3 DEF WaitSees, Judged, Goto, Nearer, Phase
<1>4. CASE WaitMisses
  BY <1>0, <1>1, <1>4 DEF WaitMisses, Goto, Nearer
<1>5. CASE Plan
  BY <1>1, <1>5 DEF Plan, Goto, Nearer, Phase
<1>6. CASE RecheckSees
  BY <1>1, <1>6 DEF RecheckSees, Judged, Goto, Nearer, Phase
<1>7. CASE RecheckMisses
  BY <1>1, <1>7 DEF RecheckMisses
<1>8. CASE SendAmend
  BY <1>8 DEF SendAmend, Goto, Nearer, Phase
<1>9. CASE ConfirmLacks
  BY <1>0, <1>1, <1>9 DEF ConfirmLacks, Goto, Nearer
<1>10. CASE ConfirmSees
  BY <1>1, <1>10 DEF ConfirmSees, Judged
<1>11. CASE ConfirmMisses
  BY <1>1, <1>11 DEF ConfirmMisses
<1> QED
  BY <1>2, <1>3, <1>4, <1>5, <1>6, <1>7, <1>8, <1>9, <1>10, <1>11 DEF Ensure

(* ensure does a bounded amount of work for any numbers of reads and       *)
(* amends: each step uses up an attempt, a step of it or a read, and no    *)
(* step of the broker gives one back.                                      *)
THEOREM EnsureGoesForwardHolds == Spec => EnsureGoesForward
<1>1. TypeOK /\ [Next]_vars =>
        [(Ensure => Nearer) /\ (Nearer \/ UNCHANGED <<pc, reads, amends>>)]_vars
  <2> SUFFICES ASSUME TypeOK, [Next]_vars, ~UNCHANGED vars
               PROVE  (Ensure => Nearer) /\ (Nearer \/ UNCHANGED <<pc, reads, amends>>)
    OBVIOUS
  <2>1. Ensure => Nearer
    BY EnsureNearer
  <2>2. Broker => UNCHANGED <<pc, reads, amends>>
    BY DEF Broker, Answers, Appears, Closes, AmendExecuted, OtherAmends, OtherChangesVolume, World
  <2> QED
    BY <2>1, <2>2 DEF Next
<1> QED
  BY <1>1, TypeCorrect, PTL DEF EnsureGoesForward, Spec
=============================================================================
