------------------------ MODULE BridgeSession_proofs ------------------------
(***************************************************************************)
(* Proofs about BridgeSession for any set of robots and any values of its  *)
(* times that satisfy its assumptions.                                     *)
(***************************************************************************)
EXTENDS BridgeSession, SequenceTheorems, TLAPS

(* Handing out the lease gives a lease.                                    *)
LEMMA GrantedType == ASSUME NEW r \in Robot PROVE Granted(r) \in Lease
BY LeaseAssumption DEF Granted, Lease

(* The oldest age that is told apart is a time.                            *)
LEMMA LongestType == Longest \in Nat /\ AckWindow <= Longest /\ Longest > 0
BY SessionAssumption DEF Longest

(* The answers on their way stay ages of answers while time passes.        *)
LEMMA OlderType ==
    ASSUME NEW s \in Seq(0 .. MaxDelay), \A i \in DOMAIN s : s[i] < MaxDelay
    PROVE  /\ Older(s) \in Seq(0 .. MaxDelay)
           /\ DOMAIN Older(s) = DOMAIN s
           /\ \A i \in DOMAIN s : Older(s)[i] = s[i] + 1
<1>1. Older(s) \in [1 .. Len(s) -> 0 .. MaxDelay]
      BY SessionAssumption DEF Older
<1>2. Len(s) \in Nat /\ DOMAIN s = 1 .. Len(s)
      OBVIOUS
<1> QED BY <1>1, <1>2 DEF Older

(* Nothing on its way is a sequence of answers, and so is one answer more. *)
LEMMA AnswersType ==
    /\ <<>> \in Seq(0 .. MaxDelay)
    /\ <<0>> \in Seq(0 .. MaxDelay)
    /\ \A s \in Seq(0 .. MaxDelay) : Append(s, 0) \in Seq(0 .. MaxDelay)
BY SessionAssumption

(* What is on its way was sent at most MaxDelay ago.                       *)
LEMMA AnswerTimes ==
    ASSUME NEW s \in Seq(0 .. MaxDelay)
    PROVE  /\ \A i \in DOMAIN s : s[i] \in 0 .. MaxDelay
           /\ s # <<>> => 1 \in DOMAIN s
<1>1. s \in [1 .. Len(s) -> 0 .. MaxDelay] /\ DOMAIN s = 1 .. Len(s)
      BY LenProperties
<1>2. s # <<>> => Len(s) \in Nat \ {0}
      BY EmptySeq
<1> QED BY <1>1, <1>2

(* A lease whose time runs stays a lease.                                  *)
LEMMA AgedType ==
    ASSUME NEW l \in Lease
    PROVE  /\ Aged(l) \in Lease
           /\ Aged(l).holder = l.holder
           /\ Aged(l).left = IF l.left = 0 THEN 0 ELSE l.left - 1
<1>1. l.left \in 0 .. LeaseTime /\ l.holder \in Robot \cup {Nobody}
      BY DEF Lease
<1>2. DOMAIN l = {"holder", "left"}
      BY DEF Lease
<1> DEFINE n == IF l.left = 0 THEN 0 ELSE l.left - 1
<1>3. n \in 0 .. LeaseTime
      BY <1>1, LeaseAssumption
<1>4. Aged(l) = [l EXCEPT !.left = n]
      BY DEF Aged
<1> HIDE DEF n
<1>5. Aged(l) = [holder |-> l.holder, left |-> n]
      BY <1>4 DEF Lease
<1> QED BY <1>1, <1>3, <1>5 DEF Lease, n

(* Every variable keeps its type.                                          *)
LEMMA TypeStep == TypeOK /\ [Next]_vars => TypeOK'
<1> SUFFICES ASSUME TypeOK, [Next]_vars PROVE TypeOK'
    OBVIOUS
<1> USE DEF TypeOK
<1>0. /\ 0 \in 0 .. MaxDelay /\ 0 \in 0 .. Longest
      /\ <<>> \in Seq(0 .. MaxDelay)
      BY SessionAssumption, LongestType, AnswersType
<1>1. ASSUME NEW r \in Robot, Connect(r) PROVE TypeOK'
      BY <1>0, <1>1 DEF Connect
<1>2. ASSUME NEW r \in Robot, TimesOut(r) \/ Drops(r) \/ Dies(r) PROVE TypeOK'
  <2>1. Dispose(r)
        BY <1>2 DEF TimesOut, Drops, Dies, Offline
  <2>2. /\ hello' \in [Robot -> SUBSET {"current", "disposed"}]
        /\ answers' \in [Robot -> Seq(0 .. MaxDelay)]
        /\ attached' \in BOOLEAN
        BY <1>0, <2>1 DEF Dispose
  <2> QED BY <1>2, <2>2 DEF TimesOut, Drops, Dies, Offline
<1>3. ASSUME NEW r \in Robot, Ask(r) \/ TakeAnswer(r) \/ LosesAnswers(r) PROVE TypeOK'
  <2>1. CASE Ask(r)
        BY <2>1 DEF Ask
  <2>2. CASE TakeAnswer(r)
        BY <1>0, <2>2 DEF TakeAnswer
  <2>3. CASE LosesAnswers(r)
        BY <2>3 DEF LosesAnswers
  <2> QED BY <1>3, <2>1, <2>2, <2>3
<1>4. ASSUME NEW r \in Robot, NEW h \in {"current", "disposed"}, ReadHello(r, h)
      PROVE  TypeOK'
  <2>1. <<0>> \in Seq(0 .. MaxDelay)
        BY <1>0
  <2>2. CASE Admits(r)
        BY <1>4, <2>1, <2>2, GrantedType DEF ReadHello
  <2>3. CASE ~Admits(r)
        BY <1>4, <2>3 DEF ReadHello
  <2> QED BY <2>2, <2>3
<1>5. CASE Serve
  <2>1. CASE Held(lease, peer)
    <3>1. peer \in Robot /\ lease' \in Lease /\ asked' \in Nat
          BY <1>5, <2>1, GrantedType DEF Serve
    <3>2. answers' \in [Robot -> Seq(0 .. MaxDelay)]
      <4>1. answers' = [answers EXCEPT ![peer] = IF attached THEN Append(@, 0) ELSE @]
            BY <1>5, <2>1 DEF Serve
      <4>2. Append(answers[peer], 0) \in Seq(0 .. MaxDelay)
            BY <3>1, AnswersType
      <4> QED BY <4>1, <4>2, <3>1
    <3>3. UNCHANGED <<peer, attached, hello, view, age, calm>>
          BY <1>5, <2>1 DEF Serve
    <3> QED BY <3>1, <3>2, <3>3
  <2>2. CASE ~Held(lease, peer)
    <3>1. StartClosing /\ UNCHANGED <<lease, answers, hello, view, age, calm>>
          BY <1>5, <2>2 DEF Serve
    <3>2. peer' = peer /\ attached' = FALSE /\ asked' = 0
          BY <3>1 DEF StartClosing
    <3>3. attached' \in BOOLEAN /\ calm' \in BOOLEAN
          BY <3>1, <3>2
    <3> QED BY <3>1, <3>2, <3>3
  <2> QED BY <2>1, <2>2
<1>6. CASE SessionEnds \/ CalmsDown
  <2>1. CASE SessionEnds
    <3>1. EndSession /\ UNCHANGED <<lease, answers, hello, view, age, calm>>
          BY <2>1 DEF SessionEnds
    <3>2. peer' = Nobody /\ attached' = FALSE /\ asked' = 0
          BY <3>1 DEF EndSession
    <3>3. attached' \in BOOLEAN /\ calm' \in BOOLEAN
          BY <3>1, <3>2
    <3> QED BY <3>1, <3>2, <3>3
  <2>2. CASE CalmsDown
        BY <2>2 DEF CalmsDown
  <2> QED BY <1>6, <2>1, <2>2
<1>7. CASE Tick
  <2>1. lease' \in Lease
        BY <1>7, AgedType DEF Tick
  <2>2. age' \in [Robot -> 0 .. Longest]
        BY <1>7, LongestType DEF Tick
  <2>3. answers' \in [Robot -> Seq(0 .. MaxDelay)]
    <3>1. \A r \in Robot : Older(answers[r]) \in Seq(0 .. MaxDelay)
          BY <1>7, OlderType DEF Tick
    <3>2. answers' = [r \in Robot |-> Older(answers[r])]
          BY <1>7 DEF Tick
    <3> HIDE DEF TypeOK
    <3> QED BY <3>1, <3>2
  <2> QED BY <1>7, <2>1, <2>2, <2>3 DEF Tick
<1>8. CASE UNCHANGED vars
      BY <1>8 DEF vars
<1> QED BY <1>1, <1>2, <1>3, <1>4, <1>5, <1>6, <1>7, <1>8 DEF Next

(* Every reachable state has the types of TypeOK.                          *)
THEOREM TypeCorrect == Spec => []TypeOK
<1>1. Init => TypeOK
  <2>1. NoLease \in Lease
        BY LeaseAssumption DEF Lease, NoLease
  <2>2. 0 \in 0 .. Longest
        BY LongestType
  <2> SUFFICES ASSUME Init PROVE TypeOK
      OBVIOUS
  <2>3. attached \in BOOLEAN /\ calm \in BOOLEAN
        BY DEF Init
  <2>4. /\ lease \in Lease /\ peer \in Robot \cup {Nobody} /\ asked \in Nat
        /\ hello \in [Robot -> SUBSET {"current", "disposed"}]
        /\ view \in [Robot -> {"off", "connecting", "ready", "dead"}]
        BY <2>1 DEF Init
  <2>5. age \in [Robot -> 0 .. Longest] /\ answers \in [Robot -> Seq(0 .. MaxDelay)]
        BY <2>2, AnswersType DEF Init
  <2> QED BY <2>3, <2>4, <2>5 DEF TypeOK
<1> QED BY <1>1, TypeStep, PTL DEF Spec

(* The lease covers whoever has an answer on its way or trusts one that    *)
(* came: nobody else can be given it.                                      *)
LEMMA Covered ==
    ASSUME TypeOK, NEW q \in Robot, CoverInv(q),
           answers[q] # <<>> \/ Connected(q)
    PROVE  lease.holder = q /\ Held(lease, q)
<1> USE DEF TypeOK
<1>1. lease.left \in Nat /\ answers[q] \in Seq(0 .. MaxDelay)
      BY LeaseAssumption DEF Lease
<1>2. CASE answers[q] # <<>>
  <2>1. 1 \in DOMAIN answers[q] /\ answers[q][1] \in 0 .. MaxDelay
        BY <1>1, <1>2, AnswerTimes
  <2>2. lease.holder = q /\ lease.left + answers[q][1] >= LeaseTime
        BY <2>1 DEF CoverInv
  <2> QED BY <1>1, <2>1, <2>2, SessionAssumption, WindowAssumption, LeaseAssumption
          DEF Held
<1>3. CASE Connected(q)
  <2>1. lease.holder = q /\ lease.left + age[q] + MaxDelay >= LeaseTime
        BY <1>3 DEF CoverInv
  <2>2. age[q] \in Nat /\ age[q] < AckWindow
        BY <1>3, LongestType DEF Connected
  <2> QED BY <1>1, <2>1, <2>2, SessionAssumption, WindowAssumption, LeaseAssumption
          DEF Held
<1> QED BY <1>2, <1>3

(* A robot is not disturbed by a step that leaves the lease and what it    *)
(* sees alone.                                                             *)
LEMMA Undisturbed ==
    ASSUME NEW q \in Robot, SocketInv(q), CoverInv(q),
           lease' = lease, view'[q] = view[q], age'[q] = age[q],
           answers'[q] = answers[q],
           "current" \in hello'[q] => "current" \in hello[q],
           attached' /\ peer' = q => attached /\ peer = q
    PROVE  SocketInv(q)' /\ CoverInv(q)'
BY DEF SocketInv, CoverInv, Unserved, Connected

(* A robot without session, answers and trust needs no cover.              *)
LEMMA Uncovered ==
    ASSUME TypeOK, NEW q \in Robot, answers'[q] = <<>>, ~Connected(q)',
           "current" \in hello'[q] => view'[q] = "connecting",
           ~(attached' /\ peer' = q)
    PROVE  SocketInv(q)' /\ CoverInv(q)'
<1>1. DOMAIN answers'[q] = {}
      OBVIOUS
<1> QED BY <1>1 DEF SocketInv, CoverInv, Unserved

(* A robot that leaves its socket, and every other one.                    *)
LEMMA DisposeKeeps ==
    ASSUME TypeOK, SessionInv, NEW r \in Robot, Dispose(r), NEW v \in {"off", "dead"},
           view' = [view EXCEPT ![r] = v], UNCHANGED <<lease, peer, age>>
    PROVE  SessionInv'
<1> SUFFICES ASSUME NEW q \in Robot PROVE SocketInv(q)' /\ CoverInv(q)'
    BY DEF SessionInv
<1>1. SocketInv(q) /\ CoverInv(q)
      BY DEF SessionInv
<1>2. CASE q = r
  <2>1. answers'[q] = <<>> /\ "current" \notin hello'[q] /\ view'[q] = v
        BY <1>2 DEF Dispose, TypeOK
  <2>2. ~(attached' /\ peer' = q) /\ ~Connected(q)'
        BY <1>2, <2>1 DEF Dispose, Connected
  <2> QED BY <2>1, <2>2, Uncovered
<1>3. CASE q # r
  <2>1. answers'[q] = answers[q] /\ hello'[q] = hello[q] /\ view'[q] = view[q]
        BY <1>3 DEF Dispose, TypeOK
  <2>2. attached' /\ peer' = q => attached /\ peer = q
        BY DEF Dispose
  <2> QED BY <1>1, <2>1, <2>2, Undisturbed
<1> QED BY <1>2, <1>3

(* A hello that is read gives the lease to nobody but a robot that may     *)
(* have it: any other one has lost its trust before.                       *)
LEMMA ReadHelloKeeps ==
    ASSUME TypeOK, SessionInv, NEW r \in Robot, NEW h \in {"current", "disposed"},
           ReadHello(r, h)
    PROVE  SessionInv'
<1> SUFFICES ASSUME NEW q \in Robot PROVE SocketInv(q)' /\ CoverInv(q)'
    BY DEF SessionInv
<1>1. SocketInv(q) /\ CoverInv(q)
      BY DEF SessionInv
<1>2. /\ h \in hello[r] /\ hello' = [hello EXCEPT ![r] = @ \ {h}]
      /\ UNCHANGED <<asked, age, calm>>
      BY DEF ReadHello
<1>3. "current" \in hello'[q] => "current" \in hello[q]
      BY <1>2 DEF TypeOK
<1>4. CASE Admits(r)
  <2>1. /\ lease' = Granted(r) /\ peer' = r /\ attached' = (h = "current")
        /\ answers' = [answers EXCEPT ![r] = IF h = "current" THEN <<0>> ELSE @]
        /\ view' = view
        BY <1>4 DEF ReadHello
  <2>2. lease'.holder = r /\ lease'.left = LeaseTime
        BY <2>1 DEF Granted
  <2>3. CASE q # r
    <3>1. answers[q] = <<>> /\ ~Connected(q)
          BY <1>1, <1>4, <2>3, Covered DEF Admits, Free, Held
    <3>2. answers'[q] = <<>> /\ ~Connected(q)'
          BY <1>2, <2>1, <2>3, <3>1 DEF Connected, TypeOK
    <3> QED BY <1>1, <1>3, <2>1, <2>3, <3>2, Uncovered DEF SocketInv
  <2>4. CASE q = r /\ h = "current"
    <3>1. view'[q] = "connecting" /\ "current" \notin hello'[q]
          BY <1>1, <1>2, <2>1, <2>4 DEF SocketInv, TypeOK
    <3>2. answers'[q] = <<0>>
          BY <2>1, <2>4 DEF TypeOK
    <3>3. \A i \in DOMAIN answers'[q] : answers'[q][i] = 0
          BY <3>2
    <3>4. CoverInv(q)'
          BY <2>2, <2>4, <3>1, <3>3, LeaseAssumption DEF CoverInv, Connected
    <3> QED BY <3>1, <3>4 DEF SocketInv
  <2>5. CASE q = r /\ h = "disposed"
    <3>1. answers'[q] = answers[q] /\ attached' = FALSE
          BY <2>1, <2>5 DEF TypeOK
    <3>2. SocketInv(q)'
          BY <1>1, <1>3, <2>1, <3>1 DEF SocketInv, Unserved
    <3>3. \A i \in DOMAIN answers[q] : answers[q][i] \in Nat
          BY SessionAssumption DEF TypeOK
    <3>4. age'[q] \in Nat
          BY <1>2, LongestType DEF TypeOK
    <3>5. CoverInv(q)'
          BY <2>2, <2>5, <3>1, <3>3, <3>4, LeaseAssumption, SessionAssumption DEF CoverInv
    <3> QED BY <3>2, <3>5
  <2> QED BY <2>3, <2>4, <2>5
<1>5. CASE ~Admits(r)
  <2>1. /\ view' = [view EXCEPT ![r] = IF h = "current" THEN "off" ELSE @]
        /\ UNCHANGED <<lease, peer, attached, answers>>
        BY <1>5 DEF ReadHello
  <2>2. CASE q = r /\ h = "current"
    <3>1. answers[q] = <<>> /\ ~(attached /\ peer = q)
          BY <1>1, <1>2, <2>2 DEF SocketInv, Unserved
    <3>2. view'[q] = "off" /\ "current" \notin hello'[q]
          BY <1>2, <2>1, <2>2 DEF TypeOK
    <3>3. ~Connected(q)'
          BY <3>2 DEF Connected
    <3> QED BY <2>1, <3>1, <3>2, <3>3, Uncovered
  <2>3. CASE q # r \/ h = "disposed"
    <3>1. view'[q] = view[q]
          BY <2>1, <2>3 DEF TypeOK
    <3> QED BY <1>1, <1>2, <1>3, <2>1, <3>1, Undisturbed
  <2> QED BY <2>2, <2>3
<1> QED BY <1>4, <1>5

(* A request that is answered renews the lease of the robot that holds it. *)
LEMMA ServeKeeps == TypeOK /\ SessionInv /\ Serve => SessionInv'
<1> SUFFICES ASSUME TypeOK, SessionInv, Serve, NEW q \in Robot
             PROVE  SocketInv(q)' /\ CoverInv(q)'
    BY DEF SessionInv
<1>1. SocketInv(q) /\ CoverInv(q)
      BY DEF SessionInv
<1>2. peer # Nobody /\ peer \in Robot /\ UNCHANGED <<hello, view, age, calm>>
      BY DEF Serve, TypeOK
<1>3. CASE Held(lease, peer)
  <2>1. /\ lease' = Granted(peer) /\ UNCHANGED <<peer, attached>>
        /\ answers' = [answers EXCEPT ![peer] = IF attached THEN Append(@, 0) ELSE @]
        BY <1>3 DEF Serve
  <2>2. lease'.holder = peer /\ lease'.left = LeaseTime
        BY <2>1 DEF Granted
  <2>3. CASE q # peer
    <3>1. answers[q] = <<>> /\ ~Connected(q)
          BY <1>1, <1>3, <2>3, Covered DEF Held
    <3>2. answers'[q] = <<>> /\ ~Connected(q)'
          BY <1>2, <2>1, <2>3, <3>1 DEF Connected, TypeOK
    <3> QED BY <1>1, <1>2, <2>1, <2>3, <3>2, Uncovered DEF SocketInv
  <2>4. CASE q = peer
    <3>1. answers[q] \in Seq(0 .. MaxDelay) /\ answers'[q] \in Seq(0 .. MaxDelay)
          BY <2>1, <2>4, AnswersType DEF TypeOK
    <3>2. age'[q] \in Nat
          BY <1>2, LongestType DEF TypeOK
    <3>3. \A i \in DOMAIN answers'[q] : answers'[q][i] \in Nat
          BY <3>1, SessionAssumption
    <3>4. CoverInv(q)'
          BY <2>2, <2>4, <2>1, <3>2, <3>3, LeaseAssumption, SessionAssumption DEF CoverInv
    <3>5. attached \/ answers'[q] = answers[q]
          BY <2>1, <2>4 DEF TypeOK
    <3>6. SocketInv(q)'
          BY <1>1, <1>2, <2>1, <2>4, <3>5 DEF SocketInv, Unserved
    <3> QED BY <3>4, <3>6
  <2> QED BY <2>3, <2>4
<1>4. CASE ~Held(lease, peer)
  <2>1. /\ attached' = FALSE
        /\ UNCHANGED <<lease, answers>>
        BY <1>4 DEF Serve, StartClosing
  <2> QED BY <1>1, <1>2, <2>1, Undisturbed
<1> QED BY <1>3, <1>4

(* A unit of time takes as much from the lease as from what it covers.     *)
LEMMA TickKeeps == TypeOK /\ SessionInv /\ Tick => SessionInv'
<1> SUFFICES ASSUME TypeOK, SessionInv, Tick, NEW q \in Robot
             PROVE  SocketInv(q)' /\ CoverInv(q)'
    BY DEF SessionInv
<1>1. SocketInv(q) /\ CoverInv(q)
      BY DEF SessionInv
<1>2. /\ lease' = Aged(lease)
      /\ UNCHANGED <<peer, attached, asked, hello, view, calm>>
      /\ age'[q] = IF age[q] < Longest THEN age[q] + 1 ELSE age[q]
      /\ answers'[q] = Older(answers[q])
      BY DEF Tick
<1>3. /\ lease'.holder = lease.holder
      /\ lease'.left = IF lease.left = 0 THEN 0 ELSE lease.left - 1
      /\ lease.left \in Nat
      BY <1>2, AgedType, LeaseAssumption DEF TypeOK, Lease
<1>4. /\ answers[q] \in Seq(0 .. MaxDelay)
      /\ DOMAIN answers'[q] = DOMAIN answers[q]
      /\ \A i \in DOMAIN answers[q] : answers'[q][i] = answers[q][i] + 1
  <2>1. answers[q] \in Seq(0 .. MaxDelay) /\ \A i \in DOMAIN answers[q] : answers[q][i] < MaxDelay
        BY DEF Tick, TypeOK
  <2> QED BY <1>2, <2>1, OlderType
<1>5. SocketInv(q)'
  <2>1. answers[q] = <<>> => answers'[q] = <<>>
        BY <1>2 DEF Older
  <2> QED BY <1>1, <1>2, <2>1 DEF SocketInv, Unserved
<1>6. \A i \in DOMAIN answers'[q] :
          lease'.holder = q /\ lease'.left + answers'[q][i] >= LeaseTime
  <2> SUFFICES ASSUME NEW i \in DOMAIN answers[q]
               PROVE  lease'.holder = q /\ lease'.left + answers'[q][i] >= LeaseTime
      BY <1>4
  <2>1. lease.holder = q /\ lease.left + answers[q][i] >= LeaseTime
        BY <1>1 DEF CoverInv
  <2>2. answers[q][i] \in Nat
        BY <1>4, SessionAssumption
  <2> QED BY <1>3, <1>4, <2>1, <2>2, LeaseAssumption
<1>7. Connected(q)' => lease'.holder = q /\ lease'.left + age'[q] + MaxDelay >= LeaseTime
  <2>1. age[q] \in 0 .. Longest /\ Longest \in Nat /\ AckWindow <= Longest
        BY LongestType DEF TypeOK
  <2> SUFFICES ASSUME Connected(q)'
               PROVE  lease'.holder = q /\ lease'.left + age'[q] + MaxDelay >= LeaseTime
      OBVIOUS
  <2>2. view[q] = "ready" /\ age'[q] = age[q] + 1 /\ age[q] < AckWindow
        BY <1>2, <2>1, SessionAssumption DEF Connected
  <2>3. lease.holder = q /\ lease.left + age[q] + MaxDelay >= LeaseTime
        BY <1>1, <2>2 DEF CoverInv, Connected
  <2> QED BY <1>3, <2>1, <2>2, <2>3, LeaseAssumption, SessionAssumption
<1> QED BY <1>5, <1>6, <1>7 DEF CoverInv

(* Every step keeps every robot covered.                                   *)
LEMMA SessionStep == TypeOK /\ SessionInv /\ [Next]_vars => SessionInv'
<1> SUFFICES ASSUME TypeOK, SessionInv, [Next]_vars PROVE SessionInv'
    OBVIOUS
<1>0. \A q \in Robot : SocketInv(q) /\ CoverInv(q)
      BY DEF SessionInv
<1>1. ASSUME NEW r \in Robot, Connect(r) PROVE SessionInv'
  <2> SUFFICES ASSUME NEW q \in Robot PROVE SocketInv(q)' /\ CoverInv(q)'
      BY DEF SessionInv
  <2>1. CASE q = r
    <3>1. Unserved(q)' /\ view'[q] = "connecting"
          BY <1>0, <1>1, <2>1 DEF Connect, SocketInv, Unserved, TypeOK
    <3> QED BY <3>1, Uncovered DEF Unserved, Connected
  <2>2. CASE q # r
        BY <1>0, <1>1, <2>2, Undisturbed DEF Connect, TypeOK
  <2> QED BY <2>1, <2>2
<1>2. ASSUME NEW r \in Robot, TimesOut(r) \/ Drops(r) \/ Dies(r) PROVE SessionInv'
  <2>1. /\ Dispose(r) /\ UNCHANGED <<lease, peer, age>>
        /\ \E v \in {"off", "dead"} : view' = [view EXCEPT ![r] = v]
        BY <1>2 DEF TimesOut, Drops, Dies, Offline
  <2> QED BY <2>1, DisposeKeeps
<1>3. ASSUME NEW r \in Robot, Ask(r) PROVE SessionInv'
      BY <1>0, <1>3, Undisturbed DEF Ask, SessionInv
<1>4. ASSUME NEW r \in Robot, TakeAnswer(r) PROVE SessionInv'
  <2> SUFFICES ASSUME NEW q \in Robot PROVE SocketInv(q)' /\ CoverInv(q)'
      BY DEF SessionInv
  <2>1. CASE q = r
    <3>1. /\ answers[q] \in Seq(0 .. MaxDelay) /\ answers[q] # <<>>
          /\ answers'[q] = Tail(answers[q])
          /\ view'[q] = "ready" /\ age'[q] = 0
          /\ UNCHANGED <<lease, peer, attached, asked, hello, calm>>
          BY <1>4, <2>1 DEF TakeAnswer, TypeOK
    <3>2. "current" \notin hello'[q]
          BY <1>0, <3>1 DEF SocketInv, Unserved
    <3>3. \A i \in DOMAIN answers[q] :
              /\ answers[q][i] \in 0 .. MaxDelay
              /\ lease.holder = q /\ lease.left + answers[q][i] >= LeaseTime
          BY <1>0, <3>1, AnswerTimes DEF CoverInv
    <3>4. 1 \in DOMAIN answers[q]
          BY <3>1, AnswerTimes
    <3>5. lease.holder = q /\ lease.left + MaxDelay >= LeaseTime /\ lease.left \in Nat
          BY <3>3, <3>4, SessionAssumption, LeaseAssumption DEF TypeOK, Lease
    <3>6. \A i \in DOMAIN answers'[q] :
              i + 1 \in DOMAIN answers[q] /\ answers'[q][i] = answers[q][i + 1]
          BY <3>1
    <3>7. CoverInv(q)'
          BY <3>1, <3>3, <3>5, <3>6, SessionAssumption DEF CoverInv
    <3> QED BY <3>1, <3>2, <3>7 DEF SocketInv
  <2>2. CASE q # r
        BY <1>0, <1>4, <2>2, Undisturbed DEF TakeAnswer, TypeOK
  <2> QED BY <2>1, <2>2
<1>5. ASSUME NEW r \in Robot, LosesAnswers(r) PROVE SessionInv'
  <2> SUFFICES ASSUME NEW q \in Robot PROVE SocketInv(q)' /\ CoverInv(q)'
      BY DEF SessionInv
  <2>1. CASE q = r
    <3>1. answers'[q] = <<>> /\ UNCHANGED <<lease, peer, attached, hello, view, age>>
          BY <1>5, <2>1 DEF LosesAnswers, TypeOK
    <3>2. DOMAIN answers'[q] = {}
          BY <3>1
    <3> QED BY <1>0, <3>1, <3>2 DEF SocketInv, CoverInv, Unserved, Connected
  <2>2. CASE q # r
        BY <1>0, <1>5, <2>2, Undisturbed DEF LosesAnswers, TypeOK
  <2> QED BY <2>1, <2>2
<1>6. ASSUME NEW r \in Robot, NEW h \in {"current", "disposed"}, ReadHello(r, h)
      PROVE  SessionInv'
      BY <1>6, ReadHelloKeeps
<1>7. CASE SessionEnds
      BY <1>0, <1>7, Undisturbed DEF SessionEnds, EndSession, SessionInv
<1>8. CASE CalmsDown \/ UNCHANGED vars
      BY <1>0, <1>8, Undisturbed DEF CalmsDown, vars, SessionInv
<1> QED BY <1>1, <1>2, <1>3, <1>4, <1>5, <1>6, <1>7, <1>8, ServeKeeps, TickKeeps DEF Next

(* In every reachable state every robot is covered.                        *)
LEMMA SessionCorrect == Spec => [](TypeOK /\ SessionInv)
<1>1. Init => SessionInv
  <2> SUFFICES ASSUME Init, NEW q \in Robot PROVE SocketInv(q) /\ CoverInv(q)
      BY DEF SessionInv
  <2>1. /\ answers[q] = <<>> /\ view[q] = "off" /\ hello[q] = {} /\ attached = FALSE
        BY DEF Init
  <2>2. DOMAIN answers[q] = {}
        BY <2>1
  <2> QED BY <2>1, <2>2 DEF SocketInv, CoverInv, Unserved, Connected
<1>2. TypeOK /\ SessionInv /\ [Next]_vars => TypeOK' /\ SessionInv'
      BY TypeStep, SessionStep
<1> QED BY <1>1, <1>2, TypeCorrect, PTL DEF Spec

(* A robot that believes it is connected holds the lease.                  *)
THEOREM ConnectedHoldsAlways == Spec => []ConnectedHolds
<1>1. TypeOK /\ SessionInv => ConnectedHolds
      BY Covered DEF SessionInv, ConnectedHolds
<1> QED BY <1>1, SessionCorrect, PTL

(* No two robots believe at the same time that they are connected.         *)
THEOREM OneConnectedAlways == Spec => []OneConnected
<1>1. ConnectedHolds => OneConnected
      BY DEF ConnectedHolds, OneConnected, Held
<1> QED BY <1>1, ConnectedHoldsAlways, PTL
=============================================================================
