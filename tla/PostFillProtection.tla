------------------------- MODULE PostFillProtection -------------------------
(***************************************************************************)
(* CTraderPostFillProtectionManager.ensure (ctrader_protection.py), called *)
(* after a market order was filled: it waits for the position in the list  *)
(* of the broker, amends its stop loss and take profit if they are missing *)
(* and reads back, with bounded numbers of reads and amends.               *)
(*                                                                         *)
(* A read is asked for, answered with the positions of that moment and     *)
(* judged later, or given up; an amend leaves and is executed later.  The  *)
(* position appears, closes, and is changed by others between any two of   *)
(* these.  An amend whose reply times out may still be executed, also after*)
(* ensure has returned; the answer to a read that timed out is dropped.    *)
(* Prices are left out: whether the planned levels still fit the market is *)
(* a nondeterministic choice.  SignalExecution has the outcome of all this *)
(* as its two actions ProtectionVerified and ProtectionUnverified.         *)
(***************************************************************************)
EXTENDS Naturals

CONSTANTS ReconcileAttempts,  \* reads of one wait
          AmendAttempts,      \* amends at most
          Nothing             \* no answer

ASSUME AttemptsAssumption == {ReconcileAttempts, AmendAttempts} \subseteq Nat \ {0}

VARIABLES pc,      \* where ensure is
          reads,   \* reads left in the wait it is in
          amends,  \* amends left, the one under way included
          code,    \* what ensure returned
          seen,    \* what the list of positions says of it, if that has come
          pos,     \* the position at the broker
          wire,    \* amends sent and not yet executed, refused or lost
          held     \* history: it had both levels at some moment since the
                   \* last read was asked for

vars == <<pc, reads, amends, code, seen, pos, wire, held>>

Levels == {"stopLoss", "takeProfit"}

Position == [state : {"hidden", "open", "closed"},  \* in the list of positions
             levels : SUBSET Levels,
             identity : {"submitted", "other"}]     \* symbol, side and volume

(* The answer may also say nothing of these, or leave out the entry price. *)
Answer == [levels : SUBSET Levels,
           identity : {"submitted", "other", "unsaid", "unpriced"}]

ASSUME NothingAssumption == Nothing \notin Answer

Verified == {"PROTECTION_VERIFIED", "PROTECTION_AMENDED_AND_VERIFIED"}
Gone     == {"POSITION_CLOSED_BEFORE_AMEND", "POSITION_CLOSED_DURING_PROTECTION"}
Refused  == {"ACCOUNT_OR_POSITION_ID", "POSITION_RECONCILE_TIMEOUT", "IDENTITY_MISMATCH",
             "POSITION_ENTRY_UNAVAILABLE", "BROKER_MIN_DISTANCE_REJECTED", "PROTECTION_AMEND_FAILED"}

TypeOK == /\ pc \in {"called", "waiting", "planning", "rechecking", "amending",
                     "confirming", "returned"}
          /\ reads \in 1 .. ReconcileAttempts
          /\ amends \in 1 .. AmendAttempts
          /\ code \in Verified \cup Gone \cup Refused \cup {"none"}
          /\ code = "none" <=> pc # "returned"
          /\ seen \in Answer \cup {Nothing}
          /\ pos \in Position
          /\ held \in BOOLEAN
          /\ wire \in 0 .. AmendAttempts
          /\ pc \in {"called", "waiting", "planning"} => wire = 0 /\ amends = AmendAttempts
          /\ pc \in {"rechecking", "amending"} => wire + amends <= AmendAttempts
          /\ wire + amends <= AmendAttempts + 1

Guarded(p) == p.state = "open" /\ p.levels = Levels

Init == /\ pc = "called"
        /\ reads = ReconcileAttempts /\ amends = AmendAttempts
        /\ code = "none"
        /\ seen = Nothing
        /\ pos \in {p \in Position : p.state # "closed"}
        /\ held = Guarded(pos)
        /\ wire = 0
-----------------------------------------------------------------------------
Complete(a) == a.levels = Levels

Return(c) == /\ pc' = "returned"
             /\ code' = c
             /\ seen' = Nothing
             /\ held' = Guarded(pos)
             /\ UNCHANGED <<reads, amends, pos, wire>>

Goto(next, r, a) == /\ pc' = next
                    /\ reads' = r /\ amends' = a
                    /\ seen' = Nothing
                    /\ held' = Guarded(pos)
                    /\ UNCHANGED <<code, pos>>

(* _reconcile_exact found the position, and what it says of it decides.  A *)
(* read that fails and one that does not show the position are the two     *)
(* ways to miss it, the first of them possible at any time.                *)
Sees == seen # Nothing

Judged(verified) == \/ seen.identity = "other" /\ Return("IDENTITY_MISMATCH")
                    \/ seen.identity = "unpriced" /\ Return("POSITION_ENTRY_UNAVAILABLE")
                    \/ /\ seen.identity \in {"submitted", "unsaid"} /\ Complete(seen)
                       /\ Return(verified)

Lacking == Sees /\ seen.identity \in {"submitted", "unsaid"} /\ ~Complete(seen)
-----------------------------------------------------------------------------
Call == /\ pc = "called"
        /\ \/ Return("ACCOUNT_OR_POSITION_ID")
           \/ Goto("waiting", reads, amends) /\ UNCHANGED wire

(* _wait_for_position, and the look at what it found.                      *)
WaitSees == /\ pc = "waiting"
            /\ Sees
            /\ \/ Judged("PROTECTION_VERIFIED")
               \/ Lacking /\ Goto("planning", reads, amends) /\ UNCHANGED wire

(* A fault for the mutation check: a read that fails is not counted.       *)
WaitMisses_Uncounted ==
    /\ pc = "waiting"
    /\ \/ Return("POSITION_RECONCILE_TIMEOUT")
       \/ Goto("waiting", reads, amends) /\ UNCHANGED wire

WaitMisses == /\ pc = "waiting"
              /\ IF reads = 1 THEN Return("POSITION_RECONCILE_TIMEOUT")
                              ELSE Goto("waiting", reads - 1, amends) /\ UNCHANGED wire

Plan == /\ pc = "planning"
        /\ \/ Return("BROKER_MIN_DISTANCE_REJECTED")
           \/ Goto("rechecking", reads, amends) /\ UNCHANGED wire

(* The read before each amend.                                             *)
RecheckSees == /\ pc = "rechecking"
               /\ Sees
               /\ \/ Judged("PROTECTION_VERIFIED")
                  \/ Lacking /\ Goto("amending", reads, amends) /\ UNCHANGED wire

RecheckMisses == pc = "rechecking" /\ Return("POSITION_CLOSED_BEFORE_AMEND")

(* A fault for the mutation check: the reply to an amend is believed.      *)
SendAmend_Believes ==
    /\ pc = "amending"
    /\ Return("PROTECTION_AMENDED_AND_VERIFIED")

(* The amend leaves, or its transport fails at once.                       *)
SendAmend == /\ pc = "amending"
             /\ Goto("confirming", ReconcileAttempts, amends)
             /\ wire' \in {wire, wire + 1}

(* A fault for the mutation check: the last attempt is repeated for ever.  *)
ConfirmLacks_Again ==
    /\ pc = "confirming"
    /\ Lacking
    /\ IF reads > 1 THEN Goto("confirming", reads - 1, amends)
                    ELSE Goto("rechecking", reads, IF amends > 1 THEN amends - 1 ELSE amends)
    /\ UNCHANGED wire

(* The reads after an amend.                                               *)
ConfirmLacks ==
    /\ pc = "confirming"
    /\ Lacking
    /\ IF reads > 1
       THEN Goto("confirming", reads - 1, amends) /\ UNCHANGED wire
       ELSE IF amends > 1
            THEN Goto("rechecking", reads, amends - 1) /\ UNCHANGED wire
            ELSE Return("PROTECTION_AMEND_FAILED")

ConfirmSees == pc = "confirming" /\ Sees /\ Judged("PROTECTION_AMENDED_AND_VERIFIED")

ConfirmMisses == pc = "confirming" /\ Return("POSITION_CLOSED_DURING_PROTECTION")

Ensure == \/ Call \/ WaitSees \/ WaitMisses \/ Plan \/ RecheckSees \/ RecheckMisses
          \/ SendAmend \/ ConfirmLacks \/ ConfirmSees \/ ConfirmMisses
-----------------------------------------------------------------------------
(* The broker and other clients.                                           *)

World(p) == /\ pos' = p
            /\ held' = (held \/ Guarded(p))
            /\ UNCHANGED <<pc, reads, amends, code, seen>>

(* The list of positions, as it is at this moment.                         *)
Answers == /\ pc \in {"waiting", "rechecking", "confirming"}
           /\ seen = Nothing /\ pos.state = "open"
           /\ \E said \in {pos.identity, "unsaid", "unpriced"} :
                  seen' = [levels |-> pos.levels, identity |-> said]
           /\ UNCHANGED <<pc, reads, amends, code, pos, wire, held>>

Appears == pos.state = "hidden" /\ World([pos EXCEPT !.state = "open"]) /\ UNCHANGED wire

Closes == pos.state = "open" /\ World([pos EXCEPT !.state = "closed"]) /\ UNCHANGED wire

AmendExecuted == /\ wire > 0
                 /\ wire' = wire - 1
                 /\ \/ World(pos)     \* refused, or lost
                    \/ pos.state = "open" /\ World([pos EXCEPT !.levels = Levels])

(* Other clients set and remove levels, and close a part.                  *)
OtherAmends == /\ pos.state = "open"
               /\ \E levels \in SUBSET Levels : World([pos EXCEPT !.levels = levels])
               /\ UNCHANGED wire

OtherChangesVolume == /\ pos.state = "open"
                      /\ World([pos EXCEPT !.identity = "other"])
                      /\ UNCHANGED wire

Broker == Answers \/ Appears \/ Closes \/ AmendExecuted \/ OtherAmends \/ OtherChangesVolume

Next == Ensure \/ Broker

Spec == Init /\ [][Next]_vars

(* The thread of the executor goes on: each of its calls has a time-out.   *)
FairSpec == Spec /\ WF_vars(Ensure)
-----------------------------------------------------------------------------
(* ensure gives the verdict the order path relies on: a fill is reported   *)
(* as protected only if the broker had both levels after the last read was *)
(* asked for, however amends are delayed, lost or overtaken by others, and *)
(* however late the answers are (CTraderPostFillProtectionManager.ensure). *)
Verdict == INSTANCE ProtectionVerdict
           WITH guarded <- Guarded(pos), held <- held,
                verdict <- IF code = "none" THEN "none"
                           ELSE IF code \in Verified THEN "protected" ELSE "given up"

GivesVerdict == Verdict!VSpec

Phase == [called |-> 0, waiting |-> 1, planning |-> 2, rechecking |-> 3,
          amending |-> 4, confirming |-> 5, returned |-> 6]

(* An attempt to amend is used up, or the attempt goes a step further, or  *)
(* one of the reads of the step is.                                        *)
Nearer == \/ amends' < amends
          \/ /\ amends' = amends
             /\ \/ Phase[pc'] > Phase[pc]
                \/ pc' = pc /\ reads' < reads

(* Why ensure ends: every read and every amend brings it nearer to its end,*)
(* and nothing the broker or other clients do takes it back.               *)
EnsureGoesForward ==
    [][(Ensure => Nearer) /\ (Nearer \/ UNCHANGED <<pc, reads, amends>>)]_vars

(* ensure ends, whatever the broker does.                                  *)
EnsureEnds == <>(pc = "returned")
-----------------------------------------------------------------------------
(* The strengthening: an answer that shows both levels is of a moment since*)
(* its read was asked for.                                                 *)
HeldInv == /\ Guarded(pos) => held
           /\ Sees /\ Complete(seen) => held
=============================================================================
