--------------------------- MODULE TokenRotation ----------------------------
(***************************************************************************)
(* The cTrader credentials: a pair of an access and a refresh token that   *)
(* the broker replaces whenever the refresh token is used.  Sessions load  *)
(* the pair, use it, and when the broker does not accept it ask for a new  *)
(* one and store that (execution/ctrader_session.py, ctrader_tokens.py,    *)
(* factory.py, demo_ctrader_token_maintainer.py).                          *)
(*                                                                         *)
(* A pair is its number in the order in which the broker gave them out;    *)
(* only the last one is accepted, and pair 0 is the one in the environment *)
(* of every process.  Any request may fail for want of a connection.       *)
(* A session that raises, or whose process is killed, ends; one that was   *)
(* connected before is kept and connects again with what it has in memory. *)
(* A write of the durable row that times out may reach the store at any    *)
(* later time, when its session has moved on or is gone.                   *)
(* The durable row is in use (CTRADER_TOKEN_STATE_DURABLE=1).              *)
(***************************************************************************)
EXTENDS Naturals

CONSTANTS Maintainer,  \* runs of demo_ctrader_token_maintainer.py
          Sharing,     \* sessions of factory.py, which store what they get
          Standalone,  \* sessions of xau_standalone_ctrader_v253.py
          Allowed,     \* the sharing ones without CTRADER_DISABLE_TOKEN_REFRESH
          None,        \* no pair
          Tries,       \* tries to write the durable row
          MaxPair      \* bound of the model: the last pair the broker gives out

Session == Maintainer \cup Sharing \cup Standalone
Pair    == 0 .. MaxPair

ASSUME SessionAssumption ==
    /\ Maintainer \cap (Sharing \cup Standalone) = {} /\ Sharing \cap Standalone = {}
    /\ Allowed \subseteq Sharing
    /\ None \notin Nat
    /\ Tries \in Nat \ {0} /\ MaxPair \in Nat

VARIABLES current,  \* the pair the broker accepts
          expired,  \* its access token has run out
          row,      \* the pair in the durable row of runtime_heartbeats
          aged,     \* that row is 20 days old
          late,     \* per pair, its writes that timed out and may yet arrive
          file,     \* the local token file of each session's host
          pc, then, \* where a session is, and where it goes after a refresh
          pair,     \* the pair in its memory
          reason,   \* a maintainer saw no durable row, or an old one
          kept,     \* the session was connected: its owner keeps it
          tries,    \* writes of the durable row that seemed to fail
          unsaved,  \* the session got a pair and has not stored it
          lost      \* history: see Lose

broker  == <<current, expired>>
store   == <<row, aged, late, file>>
session == <<pc, then, pair, reason, kept, tries, unsaved>>
vars    == <<broker, store, session, lost>>

Place == {"off", "probed", "dated", "loaded", "resolving", "resolvingAgain",
          "binding", "bindingAgain", "up", "refreshing", "saving", "storing"}

TypeOK == /\ current \in Pair /\ expired \in BOOLEAN
          /\ row \in Pair \cup {None} /\ aged \in BOOLEAN
          /\ late \in [Pair -> Nat]
          /\ file \in [Session -> Pair \cup {None}]
          /\ pc \in [Session -> Place]
          /\ then \in [Session -> {"off", "resolving", "resolvingAgain", "bindingAgain"}]
          /\ pair \in [Session -> Pair \cup {None}]
          /\ reason \in [Session -> BOOLEAN]
          /\ kept \in [Session -> BOOLEAN] /\ unsaved \in [Session -> BOOLEAN]
          /\ tries \in [Session -> 0 .. Tries]
          /\ lost \in BOOLEAN
          /\ \A s \in Session : pc[s] \notin {"off", "probed", "dated"} => pair[s] # None

Init == /\ current = 0 /\ expired = FALSE
        /\ row = None /\ aged = FALSE
        /\ late = [p \in Pair |-> 0]
        /\ file = [s \in Session |-> None]
        /\ pc = [s \in Session |-> "off"] /\ then = [s \in Session |-> "off"]
        /\ pair = [s \in Session |-> None]
        /\ reason = [s \in Session |-> FALSE]
        /\ kept = [s \in Session |-> FALSE] /\ unsaved = [s \in Session |-> FALSE]
        /\ tries = [s \in Session |-> 0]
        /\ lost = FALSE
-----------------------------------------------------------------------------
(* A fault for the mutation check: every failure counts as a refusal.      *)
Refused_AnyError(s) == pair[s] # None

(* The broker accepts the session's access token, or says it is invalid.   *)
Accepted(s) == pair[s] = current /\ ~expired
Refused(s)  == ~Accepted(s)

(* CTraderTokenStateStore.load; the standalone sessions have their pair    *)
(* from the environment alone.                                             *)
Loaded(s) == IF s \in Standalone THEN 0
             ELSE IF row # None THEN row
             ELSE IF file[s] # None THEN file[s]
             ELSE 0

Goto(s, place) == pc' = [pc EXCEPT ![s] = place]

Refresh(s, place) == /\ Goto(s, "refreshing")
                     /\ then' = [then EXCEPT ![s] = place]

(* A pair is lost when its reply does not arrive, when the session that has*)
(* it ends before it is stored, or when the row is taken back over it.     *)
Lose(what) == lost' = (lost \/ what)

Leave(s) ==
    /\ Goto(s, "off")
    /\ pair' = [pair EXCEPT ![s] = None]
    /\ then' = [then EXCEPT ![s] = "off"]
    /\ reason' = [reason EXCEPT ![s] = FALSE]
    /\ kept' = [kept EXCEPT ![s] = FALSE]
    /\ tries' = [tries EXCEPT ![s] = 0]
    /\ unsaved' = [unsaved EXCEPT ![s] = FALSE]

(* An exception leaves the session: its owner closes it, unless it had     *)
(* been connected before; then ensure_connected is called again.           *)
Raise(s) ==
    \/ ~kept[s] /\ Leave(s)
    \/ /\ kept[s]
       /\ Goto(s, "binding")
       /\ then' = [then EXCEPT ![s] = "off"]
       /\ tries' = [tries EXCEPT ![s] = 0]
       /\ UNCHANGED <<pair, reason, kept, unsaved>>
-----------------------------------------------------------------------------
(* The maintainer reads the durable row three times: whether it is there   *)
(* and how old it is, then what it holds.                                  *)
Probe(s) == /\ s \in Maintainer /\ pc[s] = "off"
            /\ Goto(s, "probed")
            /\ reason' = [reason EXCEPT ![s] = (row = None)]
            /\ UNCHANGED <<broker, store, then, pair, kept, tries, unsaved, lost>>

ReadAge(s) == /\ pc[s] = "probed"
              /\ Goto(s, "dated")
              /\ reason' = [reason EXCEPT ![s] = @ \/ (row # None /\ aged)]
              /\ UNCHANGED <<broker, store, then, pair, kept, tries, unsaved, lost>>

Load(s) == /\ IF s \in Maintainer THEN pc[s] = "dated" /\ Goto(s, "loaded")
                                  ELSE pc[s] = "off" /\ Goto(s, "resolving")
           /\ pair' = [pair EXCEPT ![s] = Loaded(s)]
           /\ UNCHANGED <<broker, store, then, reason, kept, tries, unsaved, lost>>

(* _rotation_reason: a bootstrap or an old row without asking the broker;  *)
(* otherwise only when the broker says that the token is invalid.  Any     *)
(* other failure is raised.                                                *)
MustRotate(s) == /\ pc[s] = "loaded"
                 /\ reason[s] \/ Refused(s)
                 /\ Refresh(s, "resolving")
                 /\ UNCHANGED <<broker, store, pair, reason, kept, tries, unsaved, lost>>

NeedNotRotate(s) == /\ pc[s] = "loaded"
                    /\ ~reason[s] /\ Accepted(s)
                    /\ Goto(s, "resolving")
                    /\ UNCHANGED <<broker, store, then, pair, reason, kept, tries, unsaved, lost>>
-----------------------------------------------------------------------------
(* granted_accounts, which a failure of any kind makes refresh if that is  *)
(* allowed, and connect, which refreshes whether it is allowed or not.     *)
Resolve(s) == /\ s \notin Maintainer
              /\ pc[s] \in {"resolving", "resolvingAgain"}
              /\ Accepted(s)
              /\ Goto(s, "binding")
              /\ UNCHANGED <<broker, store, then, pair, reason, kept, tries, unsaved, lost>>

ResolveFails(s) == /\ pc[s] = "resolving" /\ s \in Allowed
                   /\ Refresh(s, "resolvingAgain")
                   /\ UNCHANGED <<broker, store, pair, reason, kept, tries, unsaved, lost>>

Bind(s) == /\ pc[s] \in {"binding", "bindingAgain"}
           /\ Accepted(s)
           /\ Goto(s, "up")
           /\ kept' = [kept EXCEPT ![s] = TRUE]
           /\ UNCHANGED <<broker, store, then, pair, reason, tries, unsaved, lost>>

BindFails(s) == /\ pc[s] = "binding"
                /\ Refresh(s, "bindingAgain")
                /\ UNCHANGED <<broker, store, pair, reason, kept, tries, unsaved, lost>>

(* The connection drops; the next use connects again.                      *)
Disconnect(s) == /\ pc[s] = "up"
                 /\ Goto(s, "binding")
                 /\ UNCHANGED <<broker, store, then, pair, reason, kept, tries, unsaved, lost>>
-----------------------------------------------------------------------------
(* _refresh_tokens: the broker replaces the pair, and the session has the  *)
(* new one, or its answer does not arrive in time.                         *)
Rotate(s) ==
    /\ pc[s] = "refreshing"
    /\ pair[s] = current /\ current < MaxPair
    /\ current' = current + 1 /\ expired' = FALSE
    /\ Goto(s, IF s \in Standalone THEN then[s] ELSE "saving")
    /\ pair' = [pair EXCEPT ![s] = current + 1]
    /\ unsaved' = [unsaved EXCEPT ![s] = TRUE]
    /\ UNCHANGED <<store, then, reason, kept, tries, lost>>

ReplyLost(s) ==
    /\ pc[s] = "refreshing"
    /\ pair[s] = current /\ current < MaxPair
    /\ current' = current + 1 /\ expired' = FALSE
    /\ Raise(s)
    /\ Lose(TRUE)
    /\ UNCHANGED store

(* The refresh token was spent by another session, the broker cannot be    *)
(* reached, the file cannot be written, or a second request fails.         *)
Fails(s) ==
    /\ pc[s] \in {"refreshing", "saving", "resolvingAgain", "bindingAgain"}
    /\ Raise(s)
    /\ Lose(unsaved[s] /\ ~kept[s])
    /\ UNCHANGED <<broker, store>>

(* A fault for the mutation check: only the file is written.               *)
SaveLocal_Only(s) ==
    /\ pc[s] = "saving"
    /\ file' = [file EXCEPT ![s] = pair[s]]
    /\ Goto(s, then[s])
    /\ unsaved' = [unsaved EXCEPT ![s] = FALSE]
    /\ UNCHANGED <<broker, row, aged, late, then, pair, reason, kept, tries, lost>>

(* save: the file first, then the row, which is written again when its     *)
(* answer is lost.                                                         *)
SaveLocal(s) ==
    /\ pc[s] = "saving"
    /\ file' = [file EXCEPT ![s] = pair[s]]
    /\ Goto(s, "storing")
    /\ UNCHANGED <<broker, row, aged, late, then, pair, reason, kept, tries, unsaved, lost>>

WriteRow(p) == /\ row' = p /\ aged' = FALSE
               /\ Lose(row # None /\ p < row)

SaveDurable(s) ==
    /\ pc[s] = "storing" /\ tries[s] < Tries
    /\ WriteRow(pair[s])
    /\ Goto(s, then[s])
    /\ tries' = [tries EXCEPT ![s] = 0]
    /\ unsaved' = [unsaved EXCEPT ![s] = FALSE]
    /\ UNCHANGED <<broker, late, file, then, pair, reason, kept>>

(* A fault for the mutation check: one try more than there are.            *)
SaveSeemsToFail_OnceMore(s) ==
    /\ pc[s] = "storing"
    /\ late' = [late EXCEPT ![pair[s]] = @ + 1]
    /\ tries' = [tries EXCEPT ![s] = @ + 1]
    /\ UNCHANGED <<broker, row, aged, file, pc, then, pair, reason, kept, unsaved, lost>>

SaveSeemsToFail(s) ==
    /\ pc[s] = "storing" /\ tries[s] < Tries
    /\ late' = [late EXCEPT ![pair[s]] = @ + 1]
    /\ tries' = [tries EXCEPT ![s] = @ + 1]
    /\ UNCHANGED <<broker, row, aged, file, pc, then, pair, reason, kept, unsaved, lost>>

(* The store applies a write whose client has given up waiting.            *)
LateWrite(p) ==
    /\ late[p] > 0
    /\ late' = [late EXCEPT ![p] = @ - 1]
    /\ WriteRow(p)
    /\ UNCHANGED <<broker, file, session>>

SaveGivesUp(s) ==
    /\ pc[s] = "storing" /\ tries[s] = Tries
    /\ Raise(s)
    /\ Lose(~kept[s])
    /\ UNCHANGED <<broker, store>>
-----------------------------------------------------------------------------
(* A fault for the mutation check: a closed session stores its pair again. *)
End_Stores(s) ==
    /\ pc[s] = "up"
    /\ Leave(s)
    /\ WriteRow(pair[s])
    /\ UNCHANGED <<broker, late, file>>

(* The session's work is done, it cannot go on, or its process is killed;  *)
(* the file of a runner goes with it.                                      *)
End(s) ==
    /\ pc[s] # "off"
    /\ Leave(s)
    /\ file' \in {file, [file EXCEPT ![s] = None]}
    /\ Lose(unsaved[s])
    /\ UNCHANGED <<broker, row, aged, late>>

(* Time passes: the access token expires, the row ages.                    *)
Expire == ~expired /\ expired' = TRUE /\ UNCHANGED <<current, store, session, lost>>
Age    == row # None /\ ~aged /\ aged' = TRUE /\ UNCHANGED <<broker, row, late, file, session, lost>>

Next == \/ \E s \in Session :
             \/ Probe(s) \/ ReadAge(s) \/ Load(s) \/ MustRotate(s) \/ NeedNotRotate(s)
             \/ Resolve(s) \/ ResolveFails(s) \/ Bind(s) \/ BindFails(s) \/ Disconnect(s)
             \/ Rotate(s) \/ ReplyLost(s) \/ Fails(s)
             \/ SaveLocal(s) \/ SaveDurable(s) \/ SaveSeemsToFail(s) \/ SaveGivesUp(s)
             \/ End(s)
        \/ \E p \in Pair : LateWrite(p)
        \/ Expire \/ Age

Spec == Init /\ [][Next]_vars
-----------------------------------------------------------------------------
(* Properties.                                                             *)

(* What the next run of a sharing process loads is what the broker takes.  *)
Stored == IF row # None THEN row = current
          ELSE current = 0 \/ \E s \in Session : file[s] = current

(* However many sessions refresh, and with whatever old pairs, the pair    *)
(* the broker accepts is in the store or with a session that has yet to    *)
(* store it, unless a reply was lost, a session ended in between, or a     *)
(* repeated or late write took the row back (save, _refresh_tokens).       *)
PairIsKept ==
    lost \/ Stored \/ \E s \in Session : unsaved[s] /\ pair[s] = current

(* The durable row goes back to an older pair only by a write that timed   *)
(* out, or by its repetition (_save_durable).  Nothing in the code         *)
(* prevents these two.                                                     *)
TimedOut(p) == \/ late[p] > 0
               \/ \E s \in Session : pc[s] = "storing" /\ tries[s] > 0 /\ pair[s] = p

RowMovesForward == [][row # None /\ row' # row => row' > row \/ TimedOut(row')]_vars

(* The maintainer never spends a pair the broker would still have accepted,*)
(* unless the row was old or missing: a failed connection is no reason     *)
(* (_rotation_reason).                                                     *)
SparesGoodPairs ==
    [][\A s \in Maintainer : pc[s] = "refreshing" /\ pc'[s] # pc[s] /\ current' # current =>
           reason[s] \/ expired]_vars

(* What xau_standalone_ctrader_v253.py:43 says: a session that may not     *)
(* refresh leaves the next run the pair it found.                          *)
NextRunNotStranded ==
    (\A s \in Session : pc[s] = "off") => Stored
-----------------------------------------------------------------------------
(* Inductive invariants.                                                   *)

(* No pair is newer than the broker's.                                     *)
NewestInv == /\ row # None => row <= current
             /\ \A p \in Pair : late[p] > 0 => p <= current
             /\ \A s \in Session : /\ pair[s] # None => pair[s] <= current
                                   /\ file[s] # None => file[s] <= current

(* Where a session may be with a pair it has not stored, and a maintainer. *)
PlaceInv ==
    \A s \in Session :
        /\ unsaved[s] => pc[s] \notin {"off", "probed", "dated"}
        /\ pc[s] \in {"refreshing", "saving", "storing"} => then[s] # "off"
        /\ s \in Maintainer =>
             /\ ~kept[s] /\ then[s] \in {"off", "resolving"}
             /\ pc[s] \notin {"binding", "bindingAgain", "up", "resolvingAgain"}

(* The pair is with a session, in the row, or the first one of all.        *)
HolderInv ==
    \/ lost \/ row = current \/ (row = None /\ current = 0)
    \/ \E s \in Session : unsaved[s] /\ pair[s] = current

(* Until its first write a session that got a pair is alone with it.       *)
First(s) == pc[s] = "saving" \/ (pc[s] = "storing" /\ tries[s] = 0)

FirstInv ==
    \A s \in Session : First(s) =>
        /\ current > 0 /\ pair[s] = current
        /\ row # current /\ late[current] = 0
        /\ \A u \in Session \ {s} : pair[u] # current /\ file[u] # current

(* A maintainer about to refresh has its reason.                           *)
ReasonInv ==
    \A s \in Maintainer : pc[s] = "refreshing" => reason[s] \/ expired \/ pair[s] # current
=============================================================================
