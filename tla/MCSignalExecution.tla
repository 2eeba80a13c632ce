------------------------- MODULE MCSignalExecution -------------------------
(* Instances of SignalExecution: one or two signals, on gold and euro.     *)
EXTENDS SignalExecution, TLC

CONSTANTS h1, h2, s1, s2, gold, euro

OneOnGold == s1 :> gold
TwoOnGold == (s1 :> gold) @@ (s2 :> gold)
OneOnEach == (s1 :> gold) @@ (s2 :> euro)

(* The inductive invariants of SignalExecution.                            *)
JournalInvAll == \A p \in Durable, s \in Signal : JournalInv(p, s)
ClaimInvAll   == \A s \in Signal : ClaimInv(s)
OrderInvAll   == \A s \in Signal : OrderInv(s)
StopInvAll    == \A p \in Host : StopInv(p)
ExposureInvAll == \A p \in Host : ExposureInv(p) /\ RoomInv(p)
=============================================================================
