------------------------- MODULE ProtectionVerdict --------------------------
(***************************************************************************)
(* What the order path may rely on when a fill has been looked after: the  *)
(* verdict is given once, and "protected" only if the position had both its*)
(* stop loss and its take profit at some moment since it was last looked   *)
(* at.  It may have lost them, or be closed, by the time the verdict is    *)
(* given.  Nothing is promised when the manager gives up, not even where it*)
(* says that the position is closed: it says so of a read that failed, too.*)
(***************************************************************************)
VARIABLES guarded,  \* the position has its stop loss and its take profit
          held,     \* it had at some moment since the last look began
          verdict   \* none, protected, given up

pvars == <<guarded, held, verdict>>

VInit == guarded \in BOOLEAN /\ held = guarded /\ verdict = "none"

(* The position lives its own life.                                        *)
Lives == /\ guarded' \in BOOLEAN
         /\ held' = (held \/ guarded')
         /\ UNCHANGED verdict

LooksAgain == verdict = "none" /\ held' = guarded /\ UNCHANGED <<guarded, verdict>>

Ends(v) == /\ verdict = "none" /\ verdict' = v
           /\ held' = guarded
           /\ UNCHANGED guarded

VNext == \/ Lives \/ LooksAgain
         \/ held /\ Ends("protected")
         \/ Ends("given up")

VSpec == VInit /\ [][VNext]_pvars
=============================================================================
