--------------------------- MODULE DuplicateGuard ---------------------------
(***************************************************************************)
(* The idempotency guard of execution/duplicate_guard.py, as operators on  *)
(* its in-memory state and on the file it persists.                        *)
(*                                                                         *)
(* A guard is the three sets one process keeps in memory; a journal is the *)
(* content of the state file: the executed and the uncertain signal ids.   *)
(* Every method changes the guard before it writes the file, so a failed   *)
(* write leaves the guard changed and the journal as it was; the module    *)
(* that uses these operators chooses whether the write succeeds.           *)
(***************************************************************************)
CONSTANT Signal

Guard   == [seen : SUBSET Signal, uncertain : SUBSET Signal, inflight : SUBSET Signal]
Journal == [seen : SUBSET Signal, uncertain : SUBSET Signal]

EmptyJournal == [seen |-> {}, uncertain |-> {}]

(* The ids a guard or a journal will never let through again.              *)
Known(g) == g.seen \cup g.uncertain

(* Faults for the mutation check: a file that forgets the quarantine, and  *)
(* a duplicate check that only looks at the running claims.                *)
Persist_SeenOnly(g)         == [seen |-> g.seen, uncertain |-> {}]
IsDuplicate_InFlight(g, s)  == s \in g.inflight

Load(j)    == [seen |-> j.seen, uncertain |-> j.uncertain, inflight |-> {}]
Persist(g) == [seen |-> g.seen, uncertain |-> g.uncertain]

IsDuplicate(g, s) == s \in Known(g) \cup g.inflight
IsUncertain(g, s) == s \in g.uncertain

TryClaim(g, s)      == [g EXCEPT !.inflight = @ \cup {s}]
ReleaseClaim(g, s)  == [g EXCEPT !.inflight = @ \ {s}]
MarkUncertain(g, s) == [g EXCEPT !.inflight = @ \ {s}, !.uncertain = @ \cup {s}]
MarkExecuted(g, s)  == [seen      |-> g.seen \cup {s},
                        uncertain |-> g.uncertain \ {s},
                        inflight  |-> g.inflight \ {s}]

(* resolve_uncertain(executed=False): the broker definitively refused.     *)
ResolveRefused(g, s) == [g EXCEPT !.uncertain = @ \ {s}]
=============================================================================
