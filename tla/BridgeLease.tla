---------------------------- MODULE BridgeLease -----------------------------
(***************************************************************************)
(* The lease of cbot_bridge/server.py on one account and symbol, as        *)
(* operators on the row of table bridge_leases.  A lease names the robot   *)
(* instance that holds it and the time it has left (expires_at minus the   *)
(* clock, never below zero); it is not given back, it only runs out.       *)
(***************************************************************************)
EXTENDS Naturals

CONSTANTS Robot,      \* the robot instances that use the same account and symbol
          Nobody,     \* holder of the lease in a database without one
          LeaseTime   \* how long a lease lasts after it was taken or touched

ASSUME LeaseAssumption == LeaseTime \in Nat \ {0} /\ Nobody \notin Robot

Lease   == [holder : Robot \cup {Nobody}, left : 0 .. LeaseTime]
NoLease == [holder |-> Nobody, left |-> 0]

(* Faults for the mutation check: a lease that lasts a unit too long, one  *)
(* that a socket without the lease may take, and one that whoever has not  *)
(* lost it to another may touch after it ran out.                          *)
Granted_Long(r)  == [holder |-> r, left |-> LeaseTime + 1]
Free_Socket(l, r) == l.left <= 1 \/ l.holder = r

Granted(r) == [holder |-> r, left |-> LeaseTime]

(* acquire: LEASE_BUSY unless the lease has ended or is the caller's own.  *)
Free(l, r) == l.left = 0 \/ l.holder = r

(* _touch: LEASE_EXPIRED unless the caller holds it and it has not ended.  *)
Held(l, r) == l.holder = r /\ l.left > 0

(* A unit of time passes.                                                  *)
Aged(l) == [l EXCEPT !.left = IF @ = 0 THEN 0 ELSE @ - 1]
=============================================================================
