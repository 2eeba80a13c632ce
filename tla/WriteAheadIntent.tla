-------------------------- MODULE WriteAheadIntent --------------------------
(***************************************************************************)
(* What a robot and its bridge promise together about orders: an order is  *)
(* sent only for an intent that has been recorded where a crash of the     *)
(* robot cannot reach it, and never twice for the same intent, however     *)
(* often the robot is restarted and however many messages are lost.        *)
(***************************************************************************)
CONSTANT Label    \* names of orders

VARIABLES recorded,  \* intents the bridge has stored
          orders     \* orders that went to the broker

ivars == <<recorded, orders>>

IInit == recorded = {} /\ orders = {}

Record(l) == /\ recorded' = recorded \cup {l}
             /\ UNCHANGED orders

Order(l) == /\ orders' = orders \cup {l}
            /\ UNCHANGED recorded

INext == \/ \E l \in recorded' \ recorded : l \in Label /\ Record(l)
         \/ \E l \in recorded \ orders : Order(l)

ISpec == IInit /\ [][INext]_ivars
=============================================================================
