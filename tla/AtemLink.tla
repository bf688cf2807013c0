------------------------------- MODULE AtemLink -------------------------------
(***************************************************************************)
(* The connection child, a device and the UDP network between them.        *)
(*                                                                         *)
(* The network loses (a datagram need never be delivered), duplicates (it  *)
(* stays after delivery) and reorders (any one may be delivered next).     *)
(* What it does not do is keep a datagram for ever: one whose id has       *)
(* fallen Lifetime packets behind its sender is gone.                      *)
(*                                                                         *)
(* The device is not part of the repository.  It is modelled from what the *)
(* child sends to it and expects of it.                                    *)
(***************************************************************************)
EXTENDS AtemSocketChild

CONSTANTS Window,       \* bound: packets in flight at once
          Lifetime,     \* packets after which a datagram has left the network
          LateHello,    \* may the answer to a HELLO be delivered late or again?
          StaleHello,   \* may a HELLO reach the device when it was answered already?
          KeepAlives,   \* the device's packets that carry no command
          MaxDevSends,  \* bound: device packets in a session
          MaxSessions,  \* bound: sessions the device starts
          MaxCommands   \* bound: packets the parent sends, ever

ASSUME LinkAssumption ==
    /\ Window \in Nat \ {0} /\ MaxDevSends \in Nat /\ MaxSessions \in Nat /\ MaxCommands \in Nat
    /\ Lifetime \in Nat /\ Window <= Lifetime /\ Window + Lifetime <= Tolerance + 1
    /\ LateHello \in BOOLEAN /\ StaleHello \in BOOLEAN
    /\ KeepAlives \subseteq Nat \ {0}
    /\ Sessions = 0 .. MaxSessions
    /\ 1 .. MaxDevSends \subseteq Payloads
    /\ TrackingIds = 1 .. MaxCommands

VARIABLES
    toDevice,      \* datagrams on their way to the device
    toChild,       \* datagrams on their way to the child
    devSession,    \* the device's current session, 0 for none
    devPort,       \* the socket it talks to
    devSessions,   \* sessions started so far
    answered,      \* sockets whose HELLO the device has answered
    devSent,       \* packets the device sent in its session, their ids 1, 2, ...
    devAcked,      \* how many of them it knows to be received
    devRecv,       \* id of the last packet it received in sequence
    commands,      \* auxiliary: packets the parent sent so far
    executed,      \* auxiliary: tracking ids of the packets the device accepted
    acknowledged,  \* auxiliary: tracking ids reported as acknowledged
    delivered      \* auxiliary: payloads given to the parent in this session

deviceVars == <<devSession, devPort, devSessions, answered, devSent, devAcked, devRecv,
                executed>>
history == <<commands, acknowledged, delivered>>
linkVars == <<childVars, toDevice, toChild, deviceVars, history>>

-----------------------------------------------------------------------------
(* The network *)

\* An id at most Lifetime - 1 packets behind `newest`.
Recent(newest, id) == (newest - id) % MaxPacketId < Lifetime

LastSentId == (nextSendPacketId + MaxPacketId - 1) % MaxPacketId

\* What is still under way when the child is in its next state: a datagram that
\* has not outlived its Lifetime, of or for a socket that is open; and, unless
\* StaleHello, no HELLO that the child has its answer to.
StillToDevice(d) ==
    /\ d.port \in openSockets'
    /\ d.kind = "hello" => StaleHello \/ connectionState' # "Established"
    /\ d.kind = "command" => Recent(LastSentId', d.packetId)
    /\ d.kind = "ack" => Recent(lastReceivedPacketId', d.ackId)

Carry(incoming) ==
    /\ toDevice' = {d \in toDevice \union sending' : StillToDevice(d)}
    /\ toChild' = {d \in incoming : d.port \in openSockets'}

\* A datagram of the device, with 0 in the fields that do not count.
FromDevice(flag, id, from, ackId, payload) ==
    [port |-> devPort', flags |-> {flag}, session |-> devSession', packetId |-> id,
     from |-> from, ackId |-> ackId, payload |-> payload]

StillToChild(d) ==
    /\ "AckRequest" \in d.flags => Recent(devSent' % MaxPacketId, d.packetId)
    /\ "AckReply" \in d.flags => Recent(devRecv', d.ackId)
    /\ "RetransmitRequest" \in d.flags => Recent(NextPacketId(devRecv'), d.from)

DeviceSends(ds) == toChild' = {d \in toChild \union ds : StillToChild(d)}

-----------------------------------------------------------------------------
(* The device *)

\* A HELLO opens a new session.  Unless LateHello, one HELLO of a socket is
\* answered once and its answer ends everything sent before it.
DevAnswerHello ==
    \E d \in toDevice :
        /\ d.kind = "hello"
        /\ LateHello \/ d.port \notin answered
        /\ devSessions < MaxSessions
        /\ devSessions' = devSessions + 1
        /\ devSession' = devSessions + 1
        /\ devPort' = d.port
        /\ answered' = answered \union {d.port}
        /\ devSent' = 0 /\ devAcked' = 0 /\ devRecv' = 0
        /\ LET hello == FromDevice("NewSessionId", 0, 0, 0, 0)
           IN  toChild' = IF LateHello THEN toChild \union {hello} ELSE {hello}
        /\ UNCHANGED <<executed, history, childVars, toDevice>>

\* The device sends a packet: a command, or a keep-alive.
DevSend ==
    /\ devSession # 0 /\ devSent < MaxDevSends
    /\ devSent - devAcked < Window
    /\ devSent' = devSent + 1
    /\ UNCHANGED <<devSession, devPort, devSessions, answered, devAcked, devRecv, executed>>
    /\ DeviceSends({FromDevice("AckRequest", devSent' % MaxPacketId, 0, 0,
                               IF devSent' \in KeepAlives THEN 0 ELSE devSent')})
    /\ UNCHANGED <<childVars, toDevice, history>>

ForSession(d) == d.port = devPort /\ d.session = devSession /\ devSession # 0

\* A packet of the child: the next one is accepted and acknowledged, an earlier
\* one acknowledged again, and a gap answered by asking for what is missing.
DevReceiveCommand ==
    \E d \in toDevice :
        /\ d.kind = "command" /\ ForSession(d)
        /\ UNCHANGED <<devSession, devPort, devSessions, answered, devSent, devAcked>>
        /\ \/ /\ d.packetId = NextPacketId(devRecv)
              /\ devRecv' = d.packetId
              /\ executed' = Append(executed, d.trackingId)
              /\ DeviceSends({FromDevice("AckReply", 0, 0, d.packetId, 0)})
           \/ /\ d.packetId # NextPacketId(devRecv)
              /\ UNCHANGED <<devRecv, executed>>
              /\ DeviceSends({IF IsPacketCoveredByAck(devRecv, d.packetId)
                              THEN FromDevice("AckReply", 0, 0, devRecv, 0)
                              ELSE FromDevice("RetransmitRequest", 0,
                                              NextPacketId(devRecv), 0, 0)})
        /\ UNCHANGED <<childVars, toDevice, history>>

\* An acknowledgement of the child covers every packet up to the one it names.
DevReceiveAck ==
    \E d \in toDevice :
        /\ d.kind = "ack" /\ ForSession(d)
        /\ \E n \in devAcked + 1 .. devSent :
             /\ d.ackId = n % MaxPacketId
             /\ devAcked' = n
        /\ UNCHANGED <<devSession, devPort, devSessions, answered, devSent, devRecv,
                       executed, childVars, toDevice, toChild, history>>

\* The device gives the session up: it timed out, or it restarted.
DevForget ==
    /\ devSession # 0
    /\ devSession' = 0 /\ devPort' = 0 /\ answered' = {}
    /\ devSent' = 0 /\ devAcked' = 0 /\ devRecv' = 0
    /\ UNCHANGED <<devSessions, executed, childVars, toDevice, toChild, history>>

DeviceStep == \/ DevAnswerHello \/ DevSend \/ DevReceiveCommand \/ DevReceiveAck
              \/ DevForget

-----------------------------------------------------------------------------
(* The child in its surroundings *)

\* Calls made to the parent, as it sees them.
Acknowledgements == UNION {posting'[i].ids : i \in {j \in DOMAIN posting' :
                                          posting'[j].type = "acknowledged"}}
CommandsPosted == {posting'[i] : i \in {j \in DOMAIN posting' :
                                          posting'[j].type = "commands"}}

LinkSendPackets ==
    \E n \in 1 .. MaxBatch :
        /\ commands + n <= MaxCommands
        /\ Cardinality(inFlight) + n <= Window
        /\ SendPackets([i \in 1 .. n |-> commands + i])
        /\ commands' = commands + n
        /\ Carry(toChild)
        /\ UNCHANGED <<deviceVars, acknowledged, delivered>>

\* Unless LateHello, the answer to a HELLO is delivered once, before the rest of
\* its session.
IsHelloAnswer(d) == "NewSessionId" \in d.flags
InTurn(d) == LateHello \/ IsHelloAnswer(d) \/ ~\E e \in toChild : IsHelloAnswer(e)
AfterDelivery(d) ==
    IF IsHelloAnswer(d) /\ ~LateHello THEN toChild \ {d} ELSE toChild

LinkReceivePacket ==
    \E d \in toChild :
        /\ InTurn(d) /\ InTime(d)
        /\ ReceivePacket(d)
        /\ Carry(AfterDelivery(d))
        /\ acknowledged' = acknowledged \union Acknowledgements
        /\ IF CommandsPosted = {}
           THEN delivered' = IF IsHelloAnswer(d) /\ d.session # sessionId THEN <<>>
                             ELSE delivered
           ELSE \E m \in CommandsPosted : delivered' = Append(delivered, m.payload)
        /\ UNCHANGED <<deviceVars, commands>>

ChildAlone == ParentStep \/ ResumeRestart \/ TimerStep \/ SocketStep

\* A step of the child that is neither a send nor a reception.
Alone(step) == /\ step
               /\ Carry(toChild)
               /\ UNCHANGED <<deviceVars, history>>

LinkChildAlone == Alone(ChildAlone)

LinkInit ==
    /\ Init
    /\ toDevice = {} /\ toChild = {}
    /\ devSession = 0 /\ devPort = 0 /\ devSessions = 0 /\ answered = {}
    /\ devSent = 0 /\ devAcked = 0 /\ devRecv = 0
    /\ commands = 0 /\ executed = <<>> /\ acknowledged = {} /\ delivered = <<>>

LinkNext == DeviceStep \/ LinkSendPackets \/ LinkReceivePacket \/ LinkChildAlone

LinkSpec == LinkInit /\ [][LinkNext]_linkVars

\* The device is not talking to the socket in use, so that nothing will be heard.
DeviceSilent == devSession = 0 \/ devPort # socket

\* Timers fire, callbacks come, the parent answers; the device answers a HELLO while
\* the child waits for it and, of HELLO answers sent again and again, the network
\* delivers one.  A silence is sure
\* to come only when the device is silent.
LinkFairness ==
    /\ WF_linkVars(Alone(ResumeRestart))
    /\ WF_linkVars(Alone(SocketClosed))
    /\ WF_linkVars(Alone(RetransmitOverdue \/ GiveUpOverdue))
    /\ WF_linkVars(DeviceSilent /\ Alone(Silence))
    /\ SF_linkVars(Alone(ReconnectTick))
    /\ WF_linkVars(connectionState = "SynSent" /\ DevAnswerHello)
    /\ SF_linkVars(LinkReceivePacket /\ \E d \in toChild \ toChild' : IsHelloAnswer(d))

FairLinkSpec == LinkSpec /\ LinkFairness

-----------------------------------------------------------------------------
(* Properties *)

\* The payloads the parent is given in a session are the ones the device sent in it:
\* in order, none missing, none twice, however the network reorders and repeats them
\* (atemSocketChild.ts:277-288).
DeliveredInOrder ==
    \A i \in DOMAIN delivered :
        /\ delivered[i] \notin KeepAlives
        /\ Cardinality(1 .. delivered[i] \ KeepAlives) = i

\* The device accepts the parent's packets in the order they were handed over, none
\* of them twice: no packet id is reused for another packet in a session, across the
\* wrap either (atemSocketChild.ts:173-174, 354-380).
ExecutedInOrder ==
    \A i, j \in DOMAIN executed : i < j => executed[i] < executed[j]

\* A packet reported as acknowledged was accepted by the device: an acknowledgement
\* of an earlier lap of the ids, or of an earlier session, covers nothing new
\* (atemSocketChild.ts:237-243, 292-309).
AcknowledgedWasExecuted ==
    \A t \in acknowledged : \E i \in DOMAIN executed : executed[i] = t

\* Child and device are in the same session.
InSession == /\ connectionState = "Established"
             /\ devSession # 0 /\ sessionId = devSession /\ socket = devPort

\* What the device takes to be received, and will not send again, was given to the
\* parent (atemSocketChild.ts:256-261, 275-288, 324-352).
AckIsHonest ==
    InSession => \A n \in 1 .. devAcked \ KeepAlives :
                    \E i \in DOMAIN delivered : delivered[i] = n

\* No packet stays in flight for ever: it is acknowledged, or the connection it was
\* sent on is given up, or the user disconnects (atemSocketChild.ts:401-425).  No help
\* of the network is needed.
\* A model that has used all its sockets can give up no more.
PacketsSettle ==
    \A t \in TrackingIds :
        (\E p \in inFlight : p.trackingId = t)
            ~> \/ \A p \in inFlight : p.trackingId # t
               \/ wanted = "disconnection" \/ socket = MaxSockets

\* As long as the user wants a connection there is one, or there will be: whatever
\* the device forgets and the network loses, child and device meet again in a session
\* (atemSocketChild.ts:94-107, 136-159).
Reconnects ==
    wanted = "connection" ~> \/ InSession
                             \/ wanted # "connection"
                             \/ socket = MaxSockets \/ devSessions = MaxSessions
=============================================================================
