----------------------- MODULE TokenRotation_proofs ------------------------
(* What is proved of TokenRotation for any number of sessions of each      *)
(* kind, tries and pairs.                                                  *)
EXTENDS TokenRotation, TLAPS

USE SessionAssumption

-----------------------------------------------------------------------------
(* Types                                                                   *)

(* A session that leaves, or raises, keeps to its types.                   *)
LEMMA RaiseType ==
    ASSUME TypeOK, NEW s \in Session, Leave(s) \/ Raise(s), pc[s] # "off",
           pc[s] \notin {"probed", "dated"}
    PROVE  /\ pc' \in [Session -> Place]
           /\ then' \in [Session -> {"off", "resolving", "resolvingAgain", "bindingAgain"}]
           /\ pair' \in [Session -> Pair \cup {None}]
           /\ reason' \in [Session -> BOOLEAN]
           /\ kept' \in [Session -> BOOLEAN] /\ unsaved' \in [Session -> BOOLEAN]
           /\ tries' \in [Session -> 0 .. Tries]
           /\ \A u \in Session : pc'[u] \notin {"off", "probed", "dated"} => pair'[u] # None
<1> USE DEF TypeOK, Place, Goto
<1>0. 0 \in 0 .. Tries
  OBVIOUS
<1>1. CASE Leave(s)
  BY <1>0, <1>1 DEF Leave
<1>2. CASE Raise(s) /\ ~kept[s]
  BY <1>1, <1>2 DEF Raise
<1>3. CASE Raise(s) /\ kept[s]
  BY <1>0, <1>3 DEF Raise
<1> QED
  BY <1>1, <1>2, <1>3 DEF Raise

(* Every step of a session, and of the world, keeps the types.             *)
LEMMA TypeStep == TypeOK /\ [Next]_vars => TypeOK'
<1> SUFFICES ASSUME TypeOK, [Next]_vars PROVE TypeOK'
  OBVIOUS
<1> USE DEF TypeOK, Place, Goto, broker, store, session
<1>1. ASSUME NEW s \in Session, Probe(s) \/ ReadAge(s) PROVE TypeOK'
  BY <1>1 DEF Probe, ReadAge
<1>2. ASSUME NEW s \in Session, Load(s) PROVE TypeOK'
  <2>1. Loaded(s) \in Pair
    BY DEF Loaded, Pair
  <2>2. Loaded(s) # None
    BY <2>1 DEF Pair
  <2> QED
    BY <1>2, <2>1, <2>2 DEF Load
<1>3. ASSUME NEW s \in Session, MustRotate(s) \/ NeedNotRotate(s) PROVE TypeOK'
  BY <1>3 DEF MustRotate, NeedNotRotate, Refresh
<1>4. ASSUME NEW s \in Session, Resolve(s) \/ ResolveFails(s) PROVE TypeOK'
  BY <1>4 DEF Resolve, ResolveFails, Refresh
<1>5. ASSUME NEW s \in Session, Bind(s) \/ BindFails(s) \/ Disconnect(s) PROVE TypeOK'
  BY <1>5 DEF Bind, BindFails, Disconnect, Refresh
<1>6. ASSUME NEW s \in Session, Rotate(s) PROVE TypeOK'
  <2>1. current + 1 \in Pair /\ current + 1 # None
    BY <1>6 DEF Rotate, Pair
  <2> QED
    BY <1>6, <2>1 DEF Rotate
<1>7. ASSUME NEW s \in Session, ReplyLost(s) PROVE TypeOK'
  <2>1. current + 1 \in Pair
    BY <1>7 DEF ReplyLost, Pair
  <2> QED
    BY <1>7, <2>1, RaiseType DEF ReplyLost, Lose
<1>8. ASSUME NEW s \in Session, Fails(s) PROVE TypeOK'
  BY <1>8, RaiseType DEF Fails, Lose
<1>9. ASSUME NEW s \in Session, SaveLocal(s) PROVE TypeOK'
  BY <1>9 DEF SaveLocal
<1>10. ASSUME NEW s \in Session, SaveDurable(s) PROVE TypeOK'
  <2>1. pair[s] \in Pair
    BY <1>10 DEF SaveDurable
  <2>3. 0 \in 0 .. Tries
    OBVIOUS
  <2>2. row' \in Pair \cup {None} /\ aged' \in BOOLEAN /\ lost' \in BOOLEAN
    BY <1>10, <2>1 DEF SaveDurable, WriteRow, Lose
  <2> QED
    BY <1>10, <2>1, <2>2, <2>3 DEF SaveDurable
<1>16. ASSUME NEW s \in Session, SaveSeemsToFail(s) PROVE TypeOK'
  <2>1. tries[s] + 1 \in 0 .. Tries
    BY <1>16 DEF SaveSeemsToFail
  <2>3. pair[s] \in Pair
    BY <1>16 DEF SaveSeemsToFail
  <2>2. late' \in [Pair -> Nat]
    BY <1>16, <2>3 DEF SaveSeemsToFail
  <2> QED
    BY <1>16, <2>1, <2>2 DEF SaveSeemsToFail
<1>17. ASSUME NEW p \in Pair, LateWrite(p) PROVE TypeOK'
  <2>1. late' \in [Pair -> Nat]
    BY <1>17 DEF LateWrite
  <2> QED
    BY <1>17, <2>1 DEF LateWrite, WriteRow, Lose
<1>11. ASSUME NEW s \in Session, SaveGivesUp(s) PROVE TypeOK'
  BY <1>11, RaiseType DEF SaveGivesUp, Lose
<1>12. ASSUME NEW s \in Session, End(s) PROVE TypeOK'
  BY <1>12 DEF End, Leave, Lose
<1>13. CASE Expire
  BY <1>13 DEF Expire
<1>15. CASE Age
  BY <1>15 DEF Age
<1>14. CASE UNCHANGED vars
  BY <1>14 DEF vars
<1> QED
  BY <1>1, <1>2, <1>3, <1>4, <1>5, <1>6, <1>7, <1>8, <1>9, <1>10, <1>11, <1>12, <1>13, <1>14,
     <1>15, <1>16, <1>17 DEF Next

(* Every reachable state is well typed.                                    *)
THEOREM TypeCorrect == Spec => []TypeOK
<1>0. 0 \in 0 .. Tries /\ 0 \in 0 .. MaxPair
  OBVIOUS
<1>2. 0 \in Pair /\ [p \in Pair |-> 0] \in [Pair -> Nat]
  BY <1>0 DEF Pair
<1>1. Init => TypeOK
  BY <1>0, <1>2 DEF Init, TypeOK, Place
<1> QED
  BY <1>1, TypeStep, PTL DEF Spec
-----------------------------------------------------------------------------
(* Invariants                                                              *)

(* What a session does to its own memory leaves the others' as it is.      *)
LEMMA RaiseFrame ==
    ASSUME TypeOK, NEW s \in Session, Leave(s) \/ Raise(s), NEW u \in Session
    PROVE  /\ u # s => /\ pc'[u] = pc[u] /\ then'[u] = then[u] /\ pair'[u] = pair[u]
                       /\ reason'[u] = reason[u] /\ kept'[u] = kept[u]
                       /\ tries'[u] = tries[u] /\ unsaved'[u] = unsaved[u]
           /\ pc'[s] \in {"off", "binding"} /\ then'[s] = "off"
           /\ pair'[s] \in {None, pair[s]}
           /\ Leave(s) \/ kept[s]
           /\ Leave(s) => pc'[s] = "off" /\ ~kept'[s] /\ ~unsaved'[s]
           /\ ~Leave(s) => /\ pc'[s] = "binding" /\ kept'[s] /\ kept[s]
                           /\ unsaved'[s] = unsaved[s] /\ pair'[s] = pair[s]
<1> USE DEF TypeOK, Goto
<1>1. CASE Leave(s)
  BY <1>1 DEF Leave
<1>2. CASE Raise(s) /\ ~Leave(s)
  BY <1>2 DEF Raise
<1> QED
  BY <1>1, <1>2

(* No pair is newer than the broker's.                                     *)
LEMMA NewestStep == TypeOK /\ NewestInv /\ [Next]_vars => NewestInv'
<1> SUFFICES ASSUME TypeOK, NewestInv, [Next]_vars PROVE NewestInv'
  OBVIOUS
<1> USE DEF TypeOK, NewestInv, Pair, Goto, broker, store, session
<1>1. ASSUME NEW s \in Session,
             \/ Probe(s) \/ ReadAge(s) \/ MustRotate(s) \/ NeedNotRotate(s) \/ Resolve(s)
             \/ ResolveFails(s) \/ Bind(s) \/ BindFails(s) \/ Disconnect(s)
      PROVE NewestInv'
  BY <1>1 DEF Probe, ReadAge, MustRotate, NeedNotRotate, Resolve, ResolveFails, Bind, BindFails,
              Disconnect
<1>2. ASSUME NEW s \in Session, Load(s) PROVE NewestInv'
  <2>1. Loaded(s) \in Nat /\ Loaded(s) <= current
    BY DEF Loaded
  <2> QED
    BY <1>2, <2>1 DEF Load
<1>3. ASSUME NEW s \in Session, Rotate(s) PROVE NewestInv'
  BY <1>3 DEF Rotate
<1>a. ASSUME NEW s \in Session, UNCHANGED <<row, late>>, current' \in {current, current + 1},
             pair'[s] \in {None, pair[s]}, \A u \in Session \ {s} : pair'[u] = pair[u],
             \A u \in Session : file'[u] \in {None, file[u]}
      PROVE  NewestInv'
  <2>1. row # None => row <= current'
    BY <1>a
  <2>2. ASSUME NEW p \in Pair, late[p] > 0 PROVE p <= current'
    BY <1>a, <2>2
  <2>3. ASSUME NEW u \in Session, pair'[u] # None PROVE pair'[u] <= current'
    BY <1>a, <2>3
  <2>4. ASSUME NEW u \in Session, file'[u] # None PROVE file'[u] <= current'
    BY <1>a, <2>4
  <2> QED
    BY <1>a, <2>1, <2>2, <2>3, <2>4
<1>4. ASSUME NEW s \in Session, ReplyLost(s) PROVE NewestInv'
  <2>1. UNCHANGED <<row, late, file>> /\ current' = current + 1
    BY <1>4 DEF ReplyLost
  <2>2. pair'[s] \in {None, pair[s]} /\ \A u \in Session \ {s} : pair'[u] = pair[u]
    BY <1>4, RaiseFrame DEF ReplyLost
  <2> QED
    BY <1>a, <2>1, <2>2
<1>5. ASSUME NEW s \in Session, Fails(s) \/ SaveGivesUp(s) PROVE NewestInv'
  <2>1. UNCHANGED <<row, late, file, current>>
    BY <1>5 DEF Fails, SaveGivesUp
  <2>2. pair'[s] \in {None, pair[s]} /\ \A u \in Session \ {s} : pair'[u] = pair[u]
    BY <1>5, RaiseFrame DEF Fails, SaveGivesUp
  <2> QED
    BY <1>a, <2>1, <2>2
<1>6. ASSUME NEW s \in Session, SaveLocal(s) PROVE NewestInv'
  BY <1>6 DEF SaveLocal
<1>7. ASSUME NEW s \in Session, SaveDurable(s) \/ SaveSeemsToFail(s) PROVE NewestInv'
  <2>1. pair[s] \in Pair /\ pair[s] <= current
    BY <1>7 DEF SaveDurable, SaveSeemsToFail
  <2>2. UNCHANGED <<current, pair, file>> /\ row' \in {row, pair[s]}
    BY <1>7 DEF SaveDurable, SaveSeemsToFail, WriteRow
  <2>3. \A p \in Pair : p # pair[s] => late'[p] = late[p]
    BY <1>7 DEF SaveDurable, SaveSeemsToFail
  <2> QED
    BY <2>1, <2>2, <2>3
<1>12. ASSUME NEW p \in Pair, LateWrite(p) PROVE NewestInv'
  BY <1>12 DEF LateWrite, WriteRow
<1>8. ASSUME NEW s \in Session, End(s) PROVE NewestInv'
  <2>1. UNCHANGED <<row, late, current>> /\ \A u \in Session : file'[u] \in {None, file[u]}
    BY <1>8 DEF End
  <2>2. pair'[s] \in {None, pair[s]} /\ \A u \in Session \ {s} : pair'[u] = pair[u]
    BY <1>8, RaiseFrame DEF End
  <2> QED
    BY <1>a, <2>1, <2>2
<1>9. CASE Expire
  BY <1>9 DEF Expire
<1>10. CASE Age
  BY <1>10 DEF Age
<1>11. CASE UNCHANGED vars
  BY <1>11 DEF vars
<1> QED
  BY <1>1, <1>2, <1>3, <1>4, <1>5, <1>6, <1>7, <1>8, <1>9, <1>10, <1>11, <1>12
     DEF Next

(* Where a session may be.                                                 *)
LEMMA PlaceStep == TypeOK /\ PlaceInv /\ [Next]_vars => PlaceInv'
<1> SUFFICES ASSUME TypeOK, PlaceInv, [Next]_vars PROVE PlaceInv'
  OBVIOUS
<1> USE DEF TypeOK, PlaceInv, Goto, broker, store, session
<1>1. ASSUME NEW s \in Session,
             Probe(s) \/ ReadAge(s) \/ Load(s) \/ MustRotate(s) \/ NeedNotRotate(s)
      PROVE PlaceInv'
  BY <1>1 DEF Probe, ReadAge, Load, MustRotate, NeedNotRotate, Refresh
<1>2. ASSUME NEW s \in Session, Resolve(s) \/ ResolveFails(s) PROVE PlaceInv'
  BY <1>2 DEF Resolve, ResolveFails, Refresh
<1>3. ASSUME NEW s \in Session, Bind(s) \/ BindFails(s) \/ Disconnect(s) PROVE PlaceInv'
  BY <1>3 DEF Bind, BindFails, Disconnect, Refresh
<1>4. ASSUME NEW s \in Session, Rotate(s) PROVE PlaceInv'
  BY <1>4 DEF Rotate
<1>5. ASSUME NEW s \in Session, ReplyLost(s) \/ Fails(s) \/ SaveGivesUp(s) PROVE PlaceInv'
  BY <1>5, RaiseFrame DEF ReplyLost, Fails, SaveGivesUp
<1>6. ASSUME NEW s \in Session, SaveLocal(s) PROVE PlaceInv'
  BY <1>6 DEF SaveLocal
<1>7. ASSUME NEW s \in Session, SaveDurable(s) \/ SaveSeemsToFail(s) PROVE PlaceInv'
  BY <1>7 DEF SaveDurable, SaveSeemsToFail
<1>8. ASSUME NEW s \in Session, End(s) PROVE PlaceInv'
  BY <1>8, RaiseFrame DEF End
<1>9. CASE Expire \/ Age \/ \E p \in Pair : LateWrite(p)
  BY <1>9 DEF Expire, Age, LateWrite
<1>10. CASE UNCHANGED vars
  BY <1>10 DEF vars
<1> QED
  BY <1>1, <1>2, <1>3, <1>4, <1>5, <1>6, <1>7, <1>8, <1>9, <1>10 DEF Next

(* The pair the broker takes is with a session, in the row, or lost.       *)
LEMMA HolderStep ==
    TypeOK /\ NewestInv /\ PlaceInv /\ HolderInv /\ [Next]_vars => HolderInv'
<1> SUFFICES ASSUME TypeOK, NewestInv, PlaceInv, HolderInv, [Next]_vars PROVE HolderInv'
  OBVIOUS
<1> USE DEF TypeOK, Pair, HolderInv, Goto, Lose, broker, store, session
<1>1. ASSUME NEW s \in Session,
             \/ Probe(s) \/ ReadAge(s) \/ MustRotate(s) \/ NeedNotRotate(s) \/ Resolve(s)
             \/ ResolveFails(s) \/ Bind(s) \/ BindFails(s) \/ Disconnect(s)
      PROVE HolderInv'
  BY <1>1 DEF Probe, ReadAge, MustRotate, NeedNotRotate, Resolve, ResolveFails, Bind, BindFails,
              Disconnect
<1>2. ASSUME NEW s \in Session, Load(s) PROVE HolderInv'
  <2>1. ~unsaved[s]
    BY <1>2 DEF Load, PlaceInv
  <2> QED
    BY <1>2, <2>1 DEF Load
<1>3. ASSUME NEW s \in Session, Rotate(s) PROVE HolderInv'
  BY <1>3 DEF Rotate
<1>4. ASSUME NEW s \in Session, ReplyLost(s) PROVE HolderInv'
  BY <1>4 DEF ReplyLost
<1>5. ASSUME NEW s \in Session, Fails(s) \/ SaveGivesUp(s) PROVE HolderInv'
  <2>1. lost' \/ ~unsaved[s] \/ (unsaved'[s] /\ pair'[s] = pair[s])
    BY <1>5, RaiseFrame DEF Fails, SaveGivesUp, Raise, Leave
  <2>2. current' = current /\ row' = row /\ (lost => lost')
    BY <1>5 DEF Fails, SaveGivesUp
  <2>3. \A u \in Session \ {s} : unsaved'[u] = unsaved[u] /\ pair'[u] = pair[u]
    BY <1>5, RaiseFrame DEF Fails, SaveGivesUp
  <2> QED
    BY <2>1, <2>2, <2>3
<1>6. ASSUME NEW s \in Session, SaveLocal(s) PROVE HolderInv'
  BY <1>6 DEF SaveLocal
<1>7. ASSUME NEW s \in Session, SaveSeemsToFail(s) PROVE HolderInv'
  BY <1>7 DEF SaveSeemsToFail
<1>11. ASSUME NEW p \in Pair, WriteRow(p), p <= current, UNCHANGED <<current, pair>>,
              \A u \in Session : unsaved'[u] = unsaved[u] \/ pair[u] = p
       PROVE  HolderInv'
  <2>0. lost' = (lost \/ (row # None /\ p < row))
    BY <1>11 DEF WriteRow
  <2>5. lost' <=> lost \/ (row # None /\ p < row)
    BY <2>0, Zenon
  <2>1. p \in Nat /\ current \in Nat /\ row' = p
    BY <1>11 DEF WriteRow
  <2>2. CASE p = current
    BY <1>11, <2>1, <2>2
  <2>3. CASE p # current /\ row = current
    <3>1. p < row /\ row # None
      BY <1>11, <2>1, <2>3
    <3> QED
      BY <2>5, <3>1
  <2>4. CASE p # current /\ row # current
    <3>1. current # 0
      BY <1>11, <2>1, <2>4
    <3>2. lost \/ \E u \in Session : unsaved[u] /\ pair[u] = current
      BY <2>4, <3>1
    <3> QED
      BY <1>11, <2>1, <2>5, <2>4, <3>2
  <2> QED
    BY <2>2, <2>3, <2>4
<1>12. ASSUME NEW s \in Session, SaveDurable(s) PROVE HolderInv'
  <2>1. pair[s] \in Pair /\ pair[s] <= current
    BY <1>12 DEF SaveDurable, NewestInv
  <2> QED
    BY <1>11, <1>12, <2>1 DEF SaveDurable
<1>13. ASSUME NEW p \in Pair, LateWrite(p) PROVE HolderInv'
  BY <1>11, <1>13 DEF LateWrite, NewestInv
<1>8. ASSUME NEW s \in Session, End(s) PROVE HolderInv'
  <2>1. \A u \in Session \ {s} : unsaved'[u] = unsaved[u] /\ pair'[u] = pair[u]
    BY <1>8, RaiseFrame DEF End
  <2> QED
    BY <1>8, <2>1 DEF End
<1>9. CASE Expire \/ Age
  BY <1>9 DEF Expire, Age
<1>10. CASE UNCHANGED vars
  BY <1>10 DEF vars
<1> QED
  BY <1>1, <1>2, <1>3, <1>4, <1>5, <1>6, <1>7, <1>8, <1>9, <1>10, <1>12,
     <1>13 DEF Next

(* Until its first write a session is alone with its pair.                 *)
LEMMA FirstStep ==
    TypeOK /\ NewestInv /\ PlaceInv /\ FirstInv /\ [Next]_vars => FirstInv'
<1> SUFFICES ASSUME TypeOK, NewestInv, PlaceInv, FirstInv, [Next]_vars PROVE FirstInv'
  OBVIOUS
<1> USE DEF TypeOK, Pair, FirstInv, First, Goto, broker, store, session
<1>1. ASSUME NEW s \in Session,
             \/ Probe(s) \/ ReadAge(s) \/ MustRotate(s) \/ NeedNotRotate(s) \/ Resolve(s)
             \/ ResolveFails(s) \/ Bind(s) \/ BindFails(s) \/ Disconnect(s)
      PROVE FirstInv'
  BY <1>1 DEF Probe, ReadAge, MustRotate, NeedNotRotate, Resolve, ResolveFails, Bind, BindFails,
              Disconnect, Refresh
<1>2. ASSUME NEW s \in Session, Load(s) PROVE FirstInv'
  <2>1. \A u \in Session \ {s} : First(u) => Loaded(s) # current
    BY DEF Loaded
  <2> QED
    BY <1>2, <2>1 DEF Load
<1>3. ASSUME NEW s \in Session, Rotate(s) PROVE FirstInv'
  <2>1. \A u \in Session \ {s} : ~First(u)
    BY <1>3 DEF Rotate
  <2>2. \A u \in Session \ {s} : pair'[u] # current' /\ file'[u] # current'
    <3>1. current' = current + 1 /\ file' = file /\ \A u \in Session \ {s} : pair'[u] = pair[u]
      BY <1>3 DEF Rotate
    <3> QED
      BY <3>1 DEF NewestInv
  <2>3. row' # current' /\ late'[current'] = 0 /\ current' > 0 /\ pair'[s] = current'
    BY <1>3 DEF Rotate, NewestInv
  <2>4. \A u \in Session \ {s} : ~First(u)'
    BY <1>3, <2>1 DEF Rotate
  <2> QED
    BY <2>2, <2>3, <2>4
<1>4. ASSUME NEW s \in Session, ReplyLost(s) PROVE FirstInv'
  <2>1. \A u \in Session \ {s} : ~First(u)
    BY <1>4 DEF ReplyLost
  <2>2. pc'[s] \in {"off", "binding"}
    BY <1>4, RaiseFrame DEF ReplyLost
  <2>3. \A u \in Session \ {s} : pc'[u] = pc[u] /\ tries'[u] = tries[u]
    BY <1>4, RaiseFrame DEF ReplyLost
  <2> QED
    BY <2>1, <2>2, <2>3
<1>5. ASSUME NEW s \in Session, Fails(s) \/ SaveGivesUp(s) \/ End(s) PROVE FirstInv'
  <2>1. /\ current' = current /\ row' = row /\ late' = late
        /\ \A u \in Session : file'[u] \in {file[u], None}
    BY <1>5 DEF Fails, SaveGivesUp, End
  <2>2. /\ ~First(s)' /\ pair'[s] \in {None, pair[s]}
        /\ \A u \in Session \ {s} : (First(u)' <=> First(u)) /\ pair'[u] = pair[u]
    BY <1>5, RaiseFrame DEF Fails, SaveGivesUp, End
  <2>3. None # current
    OBVIOUS
  <2> QED
    BY <2>1, <2>2, <2>3
<1>6. ASSUME NEW s \in Session, SaveLocal(s) PROVE FirstInv'
  <2>1. \A u \in Session \ {s} : ~First(u)
    BY <1>6 DEF SaveLocal
  <2> QED
    BY <1>6, <2>1 DEF SaveLocal
<1>7. ASSUME NEW s \in Session, SaveDurable(s) \/ SaveSeemsToFail(s) PROVE FirstInv'
  <2>1. \A u \in Session \ {s} : First(u)' <=> First(u)
    BY <1>7 DEF SaveDurable, SaveSeemsToFail
  <2>2. \A u \in Session \ {s} : First(u) => pair[s] # current
    OBVIOUS
  <2>3. row' \in {row, pair[s]} /\ current' = current /\ file' = file /\ pair' = pair
    BY <1>7 DEF SaveDurable, SaveSeemsToFail, WriteRow
  <2>6. pair[s] # current => late'[current] = late[current]
    BY <1>7 DEF SaveDurable, SaveSeemsToFail
  <2>4. CASE SaveDurable(s)
    <3>1. ~First(s)'
      BY <2>4 DEF SaveDurable
    <3> QED
      BY <2>1, <2>2, <2>3, <2>6, <3>1
  <2>5. CASE SaveSeemsToFail(s)
    <3>1. ~First(s)'
      BY <2>5 DEF SaveSeemsToFail
    <3> QED
      BY <2>1, <2>2, <2>3, <2>6, <3>1
  <2> QED
    BY <1>7, <2>4, <2>5
<1>8. CASE Expire \/ Age
  BY <1>8 DEF Expire, Age
<1>9. CASE UNCHANGED vars
  BY <1>9 DEF vars
<1>10. ASSUME NEW p \in Pair, LateWrite(p) PROVE FirstInv'
  <2>1. /\ row' = p /\ current' = current /\ UNCHANGED <<pair, file, pc, tries>>
        /\ late[p] > 0 /\ late'[current] \in {late[current], late[current] - 1}
        /\ p # current => late'[current] = late[current]
    BY <1>10 DEF LateWrite, WriteRow
  <2>2. \A u \in Session : First(u) => p # current
    BY <2>1
  <2> QED
    BY <2>1, <2>2
<1> QED
  BY <1>1, <1>2, <1>3, <1>4, <1>5, <1>6, <1>7, <1>8, <1>9, <1>10 DEF Next

(* A maintainer about to refresh has its reason.                           *)
LEMMA ReasonStep ==
    TypeOK /\ NewestInv /\ PlaceInv /\ ReasonInv /\ [Next]_vars => ReasonInv'
<1> SUFFICES ASSUME TypeOK, NewestInv, PlaceInv, ReasonInv, [Next]_vars PROVE ReasonInv'
  OBVIOUS
<1>0. Maintainer \subseteq Session
  BY DEF Session
<1> USE <1>0 DEF TypeOK, Pair, ReasonInv, Goto, broker, store, session
<1>1. ASSUME NEW s \in Session, Probe(s) \/ ReadAge(s) \/ Load(s) PROVE ReasonInv'
  BY <1>1 DEF Probe, ReadAge, Load
<1>2. ASSUME NEW s \in Session, MustRotate(s) \/ NeedNotRotate(s) PROVE ReasonInv'
  BY <1>2 DEF MustRotate, NeedNotRotate, Refresh, Refused, Accepted
<1>3. ASSUME NEW s \in Session,
             Resolve(s) \/ ResolveFails(s) \/ Bind(s) \/ BindFails(s) \/ Disconnect(s)
      PROVE ReasonInv'
  BY <1>3 DEF Resolve, ResolveFails, Bind, BindFails, Disconnect, Refresh, PlaceInv
<1>4. ASSUME NEW s \in Session, Rotate(s) PROVE ReasonInv'
  BY <1>4 DEF Rotate, NewestInv, PlaceInv
<1>5. ASSUME NEW s \in Session, ReplyLost(s) PROVE ReasonInv'
  <2>1. current' = current + 1 /\ pc'[s] \in {"off", "binding"}
    BY <1>5, RaiseFrame DEF ReplyLost
  <2>2. \A u \in Session \ {s} : pc'[u] = pc[u] /\ pair'[u] = pair[u]
    BY <1>5, RaiseFrame DEF ReplyLost
  <2>3. \A u \in Session : pair[u] # current + 1
    BY DEF NewestInv
  <2> QED
    BY <2>1, <2>2, <2>3
<1>6. ASSUME NEW s \in Session, Fails(s) \/ SaveGivesUp(s) \/ End(s) PROVE ReasonInv'
  <2>1. UNCHANGED <<current, expired>> /\ (Leave(s) \/ Raise(s))
    BY <1>6 DEF Fails, SaveGivesUp, End
  <2>2. pc'[s] \in {"off", "binding"}
    BY <2>1, RaiseFrame
  <2>3. \A u \in Session \ {s} :
           pc'[u] = pc[u] /\ pair'[u] = pair[u] /\ reason'[u] = reason[u]
    BY <2>1, RaiseFrame
  <2> QED
    BY <2>1, <2>2, <2>3
<1>7. ASSUME NEW s \in Session, SaveLocal(s) \/ SaveDurable(s) \/ SaveSeemsToFail(s)
      PROVE ReasonInv'
  BY <1>7 DEF SaveLocal, SaveDurable, SaveSeemsToFail, PlaceInv
<1>8. CASE Expire \/ Age \/ \E p \in Pair : LateWrite(p)
  BY <1>8 DEF Expire, Age, LateWrite
<1>9. CASE UNCHANGED vars
  BY <1>9 DEF vars
<1> QED
  BY <1>1, <1>2, <1>3, <1>4, <1>5, <1>6, <1>7, <1>8, <1>9 DEF Next

(* All of them together, in every reachable state.                         *)
LEMMA Invariance ==
    Spec => [](TypeOK /\ NewestInv /\ PlaceInv /\ HolderInv /\ FirstInv /\ ReasonInv)
<1>1. Init => NewestInv /\ PlaceInv /\ HolderInv /\ FirstInv /\ ReasonInv
  BY DEF Init, NewestInv, PlaceInv, HolderInv, FirstInv, First, ReasonInv, Session
<1> QED
  BY <1>1, TypeCorrect, TypeStep, NewestStep, PlaceStep, HolderStep, FirstStep, ReasonStep, PTL
     DEF Spec

(* Which steps change the row, and which the broker's pair.                *)
LEMMA RowWriters ==
    ASSUME [Next]_vars, row' # row
    PROVE  (\E s \in Session : SaveDurable(s)) \/ \E p \in Pair : LateWrite(p)
BY DEF Next, SaveSeemsToFail, vars, store, Probe, ReadAge, Load, MustRotate, NeedNotRotate, Resolve, ResolveFails,
       Bind, BindFails, Disconnect, Rotate, ReplyLost, Fails, SaveLocal, SaveGivesUp, End,
       Expire, Age

LEMMA Rotations ==
    ASSUME [Next]_vars, current' # current
    PROVE  \E s \in Session : Rotate(s) \/ ReplyLost(s)
BY DEF Next, vars, broker, Probe, ReadAge, Load, MustRotate, NeedNotRotate, Resolve,
       ResolveFails, Bind, BindFails, Disconnect, Fails, SaveLocal, SaveDurable, SaveSeemsToFail,
       SaveGivesUp, End, LateWrite, Expire, Age
-----------------------------------------------------------------------------
(* The pair the broker accepts is in the store or with a session that has  *)
(* yet to store it, unless it was lost (ctrader_tokens.py save).           *)
THEOREM PairIsKeptHolds == Spec => []PairIsKept
<1>1. TypeOK /\ HolderInv => PairIsKept
  BY DEF TypeOK, Pair, HolderInv, PairIsKept, Stored
<1> QED
  BY <1>1, Invariance, PTL

(* Only a write that timed out, or its repetition, takes the row back      *)
(* (_save_durable).                                                        *)
THEOREM RowMovesForwardHolds == Spec => RowMovesForward
<1>1. TypeOK /\ NewestInv /\ FirstInv /\ [Next]_vars =>
          (row # None /\ row' # row => row' > row \/ TimedOut(row'))
  <2> SUFFICES ASSUME TypeOK, NewestInv, FirstInv, [Next]_vars, row # None, row' # row
               PROVE  row' > row \/ TimedOut(row')
    OBVIOUS
  <2>1. CASE \E p \in Pair : LateWrite(p)
    BY <2>1 DEF LateWrite, WriteRow, TimedOut
  <2>2. ASSUME NEW s \in Session, SaveDurable(s) PROVE row' > row \/ TimedOut(row')
    <3>1. pc[s] = "storing" /\ row' = pair[s] /\ tries[s] \in Nat
      BY <2>2 DEF SaveDurable, WriteRow, TypeOK
    <3>2. CASE tries[s] = 0
      BY <3>1, <3>2 DEF FirstInv, First, NewestInv, TypeOK, Pair
    <3> QED
      BY <3>1, <3>2 DEF TimedOut
  <2> QED
    BY <2>1, <2>2, RowWriters
<1> QED
  BY <1>1, Invariance, PTL DEF Spec, RowMovesForward

(* The maintainer spends no good pair without its reason                   *)
(* (_rotation_reason).                                                     *)
THEOREM SparesGoodPairsHolds == Spec => SparesGoodPairs
<1>1. TypeOK /\ PlaceInv /\ ReasonInv /\ [Next]_vars =>
          \A s \in Maintainer : pc[s] = "refreshing" /\ pc'[s] # pc[s] /\ current' # current =>
              reason[s] \/ expired
  <2> SUFFICES ASSUME TypeOK, PlaceInv, ReasonInv, [Next]_vars, NEW s \in Maintainer,
                      pc[s] = "refreshing", pc'[s] # pc[s], current' # current
               PROVE  reason[s] \/ expired
    OBVIOUS
  <2>1. PICK u \in Session : Rotate(u) \/ ReplyLost(u)
    BY Rotations
  <2>2. s \in Session
    BY DEF Session
  <2>3. u = s
    BY <2>1, <2>2, RaiseFrame DEF Rotate, ReplyLost, Goto, TypeOK
  <2> QED
    BY <2>1, <2>3 DEF Rotate, ReplyLost, ReasonInv
<1> QED
  BY <1>1, Invariance, PTL DEF Spec, SparesGoodPairs
=============================================================================
