--------------------------- MODULE BridgeSession ----------------------------
(***************************************************************************)
(* Who works with the bridge, and for how long they believe it: the socket *)
(* handler of cbot_bridge/server.py on one side, the connection part of a  *)
(* robot (ConnectBridge, ServiceBridge, ReceiveBridge, BridgeOffline of    *)
(* RizanRobot.cs, xau-stable-v1.2.1) on the other, the lease between them. *)
(*                                                                         *)
(* A robot is one run of the program: each draws a lease id of its own, so *)
(* a restart is another robot.  A robot may send orders while it is ready  *)
(* and its last answer is younger than AckWindow.  Time is counted by what *)
(* is left of the lease and by ages, so no clock bounds the model.  What   *)
(* the messages carry is the business of CheckpointRobot.                  *)
(***************************************************************************)
EXTENDS BridgeLease, Sequences

CONSTANTS AckWindow,      \* how long a robot trusts its last answer
          HandshakeTime,  \* how long it waits for the answer to a hello
          MaxDelay,       \* the longest an answer is on its way
          MaxAsked        \* bound: requests, and answers, on one socket

ASSUME SessionAssumption == /\ AckWindow \in Nat \ {0} /\ HandshakeTime \in Nat
                            /\ MaxDelay \in Nat /\ MaxAsked \in Nat

(* What the lease is for: an answer that comes as late as it can still     *)
(* leaves the robot without trust before the lease it renewed has run out. *)
ASSUME WindowAssumption == AckWindow + MaxDelay <= LeaseTime

VARIABLES lease,    \* row of bridge_leases
          peer,     \* the robot whose socket is in peers, or Nobody
          attached, \* the robot at the other end and the handler still use
                    \* that socket
          asked,    \* how many requests the server has not read from it
          hello,    \* per robot, the hellos not yet read: of its current
                    \* socket, of one it has disposed of (the last of them)
          view,     \* per robot: off, connecting, ready, dead
          age,      \* per robot, time since its hello or its last answer
          answers,  \* per robot, what is on its way to its current socket:
                    \* the time since the server renewed the lease for it
          calm      \* the network has stopped failing

vars == <<lease, peer, attached, asked, hello, view, age, answers, calm>>

Longest == IF AckWindow < HandshakeTime THEN HandshakeTime ELSE AckWindow

TypeOK == /\ lease \in Lease
          /\ peer \in Robot \cup {Nobody}
          /\ attached \in BOOLEAN
          /\ asked \in Nat
          /\ hello \in [Robot -> SUBSET {"current", "disposed"}]
          /\ view \in [Robot -> {"off", "connecting", "ready", "dead"}]
          /\ age \in [Robot -> 0 .. Longest]
          /\ answers \in [Robot -> Seq(0 .. MaxDelay)]
          /\ calm \in BOOLEAN

(* A fault for the mutation check: trust for a unit longer.                *)
Connected_Longer(r) == view[r] = "ready" /\ age[r] <= AckWindow

(* Durable's condition on the connection.                                  *)
Connected(r) == view[r] = "ready" /\ age[r] < AckWindow

Init == /\ lease = NoLease
        /\ peer = Nobody
        /\ attached = FALSE
        /\ asked = 0
        /\ hello = [r \in Robot |-> {}]
        /\ view = [r \in Robot |-> "off"]
        /\ age = [r \in Robot |-> 0]
        /\ answers = [r \in Robot |-> <<>>]
        /\ calm = FALSE
-----------------------------------------------------------------------------
(* The robot.                                                              *)

Connect(r) ==
    /\ view[r] = "off"
    /\ view' = [view EXCEPT ![r] = "connecting"]
    /\ age' = [age EXCEPT ![r] = 0]
    /\ hello' = [hello EXCEPT ![r] = @ \cup {"current"}]
    /\ UNCHANGED <<lease, peer, attached, asked, answers, calm>>

(* Disposing of the socket: what is on its way to it is never received,    *)
(* what was sent over it may still be read.                                *)
Dispose(r) ==
    /\ hello' = [hello EXCEPT ![r] = IF "current" \in @ THEN {"disposed"} ELSE @]
    /\ answers' = [answers EXCEPT ![r] = <<>>]
    /\ attached' = (attached /\ peer # r)

Offline(r) ==
    /\ Dispose(r)
    /\ view' = [view EXCEPT ![r] = "off"]
    /\ UNCHANGED <<lease, peer, asked, age, calm>>

(* HANDSHAKE_TIMEOUT, HEARTBEAT_TIMEOUT and ACK_TIMEOUT.                   *)
TimesOut(r) ==
    /\ \/ view[r] = "connecting" /\ age[r] >= HandshakeTime
       \/ view[r] = "ready" /\ age[r] >= AckWindow
    /\ Offline(r)

(* SOCKET_DROP, a send that throws, a save that is not acknowledged in     *)
(* time, a message that is not understood.                                 *)
Drops(r) ==
    /\ ~calm
    /\ view[r] \in {"connecting", "ready"}
    /\ Offline(r)

Dies(r) ==
    /\ view[r] # "dead"
    /\ Dispose(r)
    /\ view' = [view EXCEPT ![r] = "dead"]
    /\ UNCHANGED <<lease, peer, asked, age, calm>>

(* A ping or a save; on a socket the server has given up it goes nowhere.  *)
Ask(r) ==
    /\ view[r] = "ready"
    /\ peer = r /\ attached
    /\ asked < MaxAsked
    /\ asked' = asked + 1
    /\ UNCHANGED <<lease, peer, attached, hello, view, age, answers, calm>>

(* ready, pong or ack.                                                     *)
TakeAnswer(r) ==
    /\ view[r] \in {"connecting", "ready"}
    /\ answers[r] # <<>>
    /\ answers' = [answers EXCEPT ![r] = Tail(@)]
    /\ view' = [view EXCEPT ![r] = "ready"]
    /\ age' = [age EXCEPT ![r] = 0]
    /\ UNCHANGED <<lease, peer, attached, asked, hello, calm>>
-----------------------------------------------------------------------------
(* The server.                                                             *)

(* A hello is read: the socket gets the session, or LEASE_BUSY.            *)
Admits(r) == peer = Nobody /\ Free(lease, r)

ReadHello(r, h) ==
    /\ h \in hello[r]
    /\ hello' = [hello EXCEPT ![r] = @ \ {h}]
    /\ IF Admits(r)
       THEN /\ lease' = Granted(r)
            /\ peer' = r
            /\ attached' = (h = "current")
            /\ answers' = [answers EXCEPT ![r] = IF h = "current" THEN <<0>> ELSE @]
            /\ UNCHANGED view
       ELSE /\ view' = [view EXCEPT ![r] = IF h = "current" THEN "off" ELSE @]
            /\ UNCHANGED <<lease, peer, attached, answers>>
    /\ UNCHANGED <<asked, age, calm>>

(* A fault for the mutation check: the session of a robot that is gone is  *)
(* not removed from peers.                                                 *)
EndSession_KeepsPeer ==
    /\ attached' = FALSE
    /\ asked' = 0
    /\ UNCHANGED peer

EndSession ==
    /\ peer' = Nobody
    /\ attached' = FALSE
    /\ asked' = 0

(* The close handshake begins: nothing more is read from the socket, which *)
(* stays in peers until the handshake is over.                             *)
StartClosing ==
    /\ attached' = FALSE
    /\ asked' = 0
    /\ UNCHANGED peer

(* A request is read and answered, or refused with LEASE_EXPIRED.          *)
Serve ==
    /\ peer # Nobody
    /\ asked > 0
    /\ \/ /\ Held(lease, peer)
          /\ lease' = Granted(peer)
          /\ asked' = asked - 1
          /\ attached => Len(answers[peer]) < MaxAsked
          /\ answers' = [answers EXCEPT ![peer] = IF attached THEN Append(@, 0) ELSE @]
          /\ UNCHANGED <<peer, attached>>
       \/ /\ ~Held(lease, peer)
          /\ StartClosing
          /\ UNCHANGED <<lease, answers>>
    /\ UNCHANGED <<hello, view, age, calm>>

(* The handler ends: the close handshake is over, the robot is gone,       *)
(* keep-alive got no answer, or the bridge restarts.  The lease stays in   *)
(* the database.                                                           *)
SessionEnds ==
    /\ peer # Nobody
    /\ calm => ~attached
    /\ EndSession
    /\ UNCHANGED <<lease, hello, view, age, answers, calm>>
-----------------------------------------------------------------------------
(* The network.                                                            *)

LosesAnswers(r) ==
    /\ ~(peer = r /\ attached)
    /\ answers[r] # <<>>
    /\ answers' = [answers EXCEPT ![r] = <<>>]
    /\ UNCHANGED <<lease, peer, attached, asked, hello, view, age, calm>>

(* From now on connections hold, and what is sent arrives before the next  *)
(* unit of time.                                                           *)
CalmsDown ==
    /\ ~calm
    /\ calm' = TRUE
    /\ UNCHANGED <<lease, peer, attached, asked, hello, view, age, answers>>

Older(s) == [i \in DOMAIN s |-> s[i] + 1]

Tick ==
    /\ \A r \in Robot : \A i \in DOMAIN answers[r] : answers[r][i] < MaxDelay
    /\ calm => \A r \in Robot : hello[r] = {} /\ answers[r] = <<>>
    /\ lease' = Aged(lease)
    /\ age' = [r \in Robot |-> IF age[r] < Longest THEN age[r] + 1 ELSE age[r]]
    /\ answers' = [r \in Robot |-> Older(answers[r])]
    /\ UNCHANGED <<peer, attached, asked, hello, view, calm>>
-----------------------------------------------------------------------------
Next == \/ \E r \in Robot : \/ Connect(r) \/ TimesOut(r) \/ Drops(r) \/ Dies(r)
                            \/ Ask(r) \/ TakeAnswer(r) \/ LosesAnswers(r)
                            \/ \E h \in {"current", "disposed"} : ReadHello(r, h)
        \/ Serve \/ SessionEnds \/ CalmsDown \/ Tick

Spec == Init /\ [][Next]_vars

(* The timer of each robot runs, the server reads its sockets and ends     *)
(* those whose robot is gone, messages arrive, and time passes whatever    *)
(* the rest does (the back-off of a robot is shorter than a unit).         *)
Fairness ==
    /\ \A r \in Robot : /\ WF_vars(Connect(r)) /\ WF_vars(TimesOut(r))
                        /\ WF_vars(TakeAnswer(r)) /\ WF_vars(LosesAnswers(r))
                        /\ \A h \in {"current", "disposed"} : WF_vars(ReadHello(r, h))
    /\ WF_vars(Serve)
    /\ WF_vars(SessionEnds)
    /\ SF_vars(Tick)

FairSpec == Spec /\ Fairness
-----------------------------------------------------------------------------
(* Two robots never both believe they are connected: one of them has       *)
(* stopped to trust its last answer before the lease that answer renewed   *)
(* can be given to the other, although nothing tells it that the server    *)
(* has closed its socket.                                                  *)
OneConnected == \A r, s \in Robot : Connected(r) /\ Connected(s) => r = s

(* A robot that believes it is connected holds the lease, so what it saves *)
(* is not refused and nobody else's save is accepted.                      *)
ConnectedHolds == \A r \in Robot : Connected(r) => Held(lease, r)

(* However the last holder ended, once the network holds a robot that is   *)
(* alone gets the bridge: the lease of a dead run is not kept alive by the *)
(* socket it left behind.                                                  *)
Alone(r) == /\ view[r] # "dead"
            /\ \A s \in Robot \ {r} : view[s] = "dead"

TakesOver == \A r \in Robot : calm /\ Alone(r) ~> view[r] \in {"ready", "dead"}
-----------------------------------------------------------------------------
(* The strengthening.  A hello not yet read, and a robot that is off, have *)
(* neither a session nor answers on their way; an answer on its way, and   *)
(* the trust in one that has arrived, are covered by what is left of the   *)
(* lease.                                                                  *)
Unserved(r) == answers[r] = <<>> /\ ~(attached /\ peer = r)

SocketInv(r) ==
    /\ "current" \in hello[r] => view[r] = "connecting" /\ Unserved(r)
    /\ view[r] \in {"off", "dead"} => Unserved(r)

CoverInv(r) ==
    /\ \A i \in DOMAIN answers[r] :
           lease.holder = r /\ lease.left + answers[r][i] >= LeaseTime
    /\ Connected(r) => lease.holder = r /\ lease.left + age[r] + MaxDelay >= LeaseTime

SessionInv == \A r \in Robot : SocketInv(r) /\ CoverInv(r)
=============================================================================
