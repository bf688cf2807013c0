---------------------------- MODULE AtemSocketChild ----------------------------
(***************************************************************************)
(* The connection child (src/lib/atemSocketChild.ts): the UDP socket, the  *)
(* session with the device, its timers, the packets in flight and the      *)
(* acknowledgements owed.  One action per entry point of the event loop: a *)
(* call from the parent thread, a datagram, a timer, and the two points    *)
(* where an `await` lets other events in (the socket's close callback and  *)
(* the parent's answer to onDisconnect).                                   *)
(*                                                                         *)
(* Each action leaves in `sending` the datagrams it sent and in `posting`  *)
(* the calls it made to the parent; a module that composes the child with  *)
(* a network and a parent carries them from there.                         *)
(*                                                                         *)
(* A definition named before the one it resembles is a slip that one       *)
(* invites; nothing uses it.                                               *)
(***************************************************************************)
EXTENDS PacketIds, Sequences, FiniteSets

CONSTANTS MaxPacketRetries,  \* MAX_PACKET_RETRIES
          MaxPacketPerAck,   \* MAX_PACKET_PER_ACK
          Overlap,           \* may the parent call while its disconnect is unfinished?
          SlowParent,        \* may its answer to onDisconnect() take longer than a HELLO and
                             \* the device's answer, or than packets are given up after?
          TrackingIds,       \* the parent's ids of the packets it sends
          Sessions,          \* session ids a device may choose; 0 is "none yet"
          Payloads,          \* command payloads a device may send; 0 is "none"
          MaxBatch,          \* bound: packets of one sendPackets call
          MaxSends,          \* bound: packets sent since the last (re)connection
          MaxSockets,        \* bound: sockets ever created
          MaxCalls           \* bound: connect and disconnect calls

ASSUME ChildAssumption ==
    /\ MaxPacketRetries \in Nat
    /\ MaxPacketPerAck \in Nat \ {0}
    /\ Overlap \in BOOLEAN /\ SlowParent \in BOOLEAN
    /\ Sessions \subseteq Nat /\ 0 \in Sessions
    /\ Payloads \subseteq Nat /\ 0 \in Payloads
    /\ MaxBatch \in Nat /\ MaxSends \in Nat
    /\ MaxSockets \in Nat \ {0} /\ MaxCalls \in Nat

VARIABLES
    connectionState,      \* _connectionState
    reconnectTimer,       \* is _reconnectTimer set?
    retransmitTimer,      \* is _retransmitTimer set?
    ackTimer,             \* is _ackTimer set?
    nextSendPacketId,     \* _nextSendPacketId
    sessionId,            \* _sessionId
    lastReceivedPacketId, \* _lastReceivedPacketId
    inFlight,             \* _inFlight, ordered by the field `order`
    receivedWithoutAck,   \* _receivedWithoutAck
    heard,                \* was anything received within CONNECTION_TIMEOUT?
    socket,               \* _socket, by the number of sockets created before it
    openSockets,          \* the sockets not yet closed
    restarting,           \* restartConnection calls awaiting onDisconnect()
    closing,              \* disconnect calls awaiting the close callback
    sending,              \* datagrams sent by the last step
    posting,              \* calls to the parent made by the last step
    order,                \* auxiliary: sendPacket calls since the last (re)connection
    greeted,              \* auxiliary: sockets a HELLO was sent from
    lastAckSent,          \* auxiliary: id in the last acknowledgement sent
    wanted,               \* auxiliary: what the parent asked for last
    calls,                \* auxiliary: connect and disconnect calls so far
    crossed               \* auxiliary: did the last disconnect come while a restart waited?

timers == <<reconnectTimer, retransmitTimer, ackTimer>>
sockets == <<socket, openSockets>>
receiver == <<lastReceivedPacketId, receivedWithoutAck, lastAckSent>>
sender == <<nextSendPacketId, inFlight, order>>
outputs == <<sending, posting>>
parentCalls == <<wanted, calls, crossed>>
childVars == <<connectionState, timers, sockets, receiver, sender, outputs,
               parentCalls, sessionId, heard, restarting, closing, greeted>>

-----------------------------------------------------------------------------
(* Data *)

ConnectionState == {"Closed", "SynSent", "Established", "Disconnected"}
PacketFlag == {"AckRequest", "NewSessionId", "RetransmitRequest", "AckReply"}

\* A packet sent and not acknowledged.  `session` is the session id written in
\* its header when it was built; `resent` stops counting when it can grow no
\* more relevant to the retry limit.
InFlightPacket == [order : Nat, packetId : PacketId, trackingId : TrackingIds,
                   session : Nat, resent : 0 .. MaxPacketRetries + 1]

\* Datagrams to the device.
Hello(port) == [kind |-> "hello", port |-> port]
Ack(port, session, id) ==
    [kind |-> "ack", port |-> port, session |-> session, ackId |-> id]
Command(port, p) == [kind |-> "command", port |-> port, session |-> p.session,
                     packetId |-> p.packetId, trackingId |-> p.trackingId]

\* Datagrams from the device: `from` is the id a retransmission is asked from.
DatagramsTo(ports) ==
            [port : ports, flags : SUBSET PacketFlag, session : Sessions,
             packetId : PacketId, from : PacketId, ackId : PacketId,
             payload : Payloads]
Datagram == DatagramsTo(Nat)

\* Calls to the parent.
Disconnected == [type |-> "disconnect"]
CommandsReceived(payload) == [type |-> "commands", payload |-> payload]
PacketsAcknowledged(ids) == [type |-> "acknowledged", ids |-> ids]

Optional(condition, call) == IF condition THEN <<call>> ELSE <<>>

SocketOpen == socket \in openSockets

-----------------------------------------------------------------------------
Init ==
    /\ connectionState = "Closed"
    /\ reconnectTimer = FALSE /\ retransmitTimer = FALSE /\ ackTimer = FALSE
    /\ nextSendPacketId = 1 /\ sessionId = 0
    /\ lastReceivedPacketId = 0 /\ inFlight = {} /\ receivedWithoutAck = 0
    /\ heard = TRUE
    /\ socket = 1 /\ openSockets = {1}
    /\ restarting = 0 /\ closing = 0
    /\ sending = {} /\ posting = <<>>
    /\ order = 0 /\ greeted = {} /\ lastAckSent = 0
    /\ wanted = "nothing" /\ calls = 0 /\ crossed = FALSE

-----------------------------------------------------------------------------
(* Timers and calls to the parent *)

StartTimersOnce == UNCHANGED reconnectTimer
StartTimers == reconnectTimer' = TRUE

ClearRetransmitTimerOnly == UNCHANGED reconnectTimer /\ retransmitTimer' = FALSE
ClearTimers == reconnectTimer' = FALSE /\ retransmitTimer' = FALSE

\* Closing the socket stops the delayed acknowledgement.
LeaveAckTimer == UNCHANGED ackTimer
ClearAckTimer == ackTimer' = FALSE

\* The retransmit timer runs exactly while packets are in flight.
OnlyClearRetransmitTimer(packets) == retransmitTimer' = (retransmitTimer /\ packets # {})
TriggerRetransmitTimer(packets) == retransmitTimer' = (packets # {})

NoOnDisconnect == posting' = <<>>
OnDisconnect == posting' = <<Disconnected>>

-----------------------------------------------------------------------------
(* (Re)connecting *)

ResetConnection ==
    sessionId' = 0 /\ inFlight' = {} /\ order' = 0 /\ nextSendPacketId' = 1

\* The part of restartConnection that follows the await: reset, arm the
\* reconnect timer, say HELLO.  Sending on a closed socket throws, before the
\* state becomes SynSent and after the timer was armed.
Redial ==
    /\ ResetConnection
    /\ StartTimers
    /\ posting' = <<>>
    /\ IF socket' \in openSockets'
       THEN /\ sending' = {Hello(socket')}
            /\ greeted' = greeted \union {socket'}
            /\ connectionState' = "SynSent"
       ELSE /\ sending' = {}
            /\ UNCHANGED <<greeted, connectionState>>

\* A new socket, the old one left as it is.
CreateSocket ==
    /\ socket < MaxSockets
    /\ socket' = socket + 1
    /\ openSockets' = openSockets \union {socket + 1}

\* A fresh socket replaces the current one, which closes.
RecreateSocket ==
    /\ socket < MaxSockets
    /\ socket' = socket + 1
    /\ openSockets' = (openSockets \ {socket}) \union {socket + 1}

\* restartConnection up to its await, when a session is lost.
AbandonSession ==
    /\ connectionState = "Established"
    /\ connectionState' = "Closed"
    /\ ClearTimers
    /\ ClearAckTimer
    /\ RecreateSocket
    /\ restarting' = restarting + 1
    /\ sending' = {}
    /\ OnDisconnect
    /\ UNCHANGED <<sender, sessionId, greeted>>

\* restartConnection after a disconnect: a new socket, the old one is left alone.
ReopenAndRedial ==
    /\ connectionState = "Disconnected"
    /\ CreateSocket
    /\ Redial
    /\ retransmitTimer' = FALSE
    /\ UNCHANGED <<ackTimer, restarting>>

RedialOnSameSocket ==
    /\ connectionState \in {"Closed", "SynSent"}
    /\ UNCHANGED sockets
    /\ Redial
    /\ retransmitTimer' = FALSE
    /\ UNCHANGED <<ackTimer, restarting>>

RestartConnection ==
    /\ \/ AbandonSession
       \/ ReopenAndRedial
       \/ RedialOnSameSocket
    /\ UNCHANGED <<receiver, closing>>

\* The parent answered onDisconnect(): the restart goes on, whatever happened
\* to the connection meanwhile.
ResumeRestart ==
    /\ restarting > 0
    /\ restarting' = restarting - 1
    /\ UNCHANGED sockets
    /\ Redial
    /\ UNCHANGED <<receiver, parentCalls, heard, closing,
                   retransmitTimer, ackTimer>>

-----------------------------------------------------------------------------
(* Calls of the parent *)

\* A call may come while a restart waits, whoever began that: a parent that awaits its
\* own calls does not know of the others.
MayCall == calls < MaxCalls /\ (Overlap \/ closing = 0)

Connect ==
    /\ MayCall
    /\ calls' = calls + 1 /\ wanted' = "connection" /\ crossed' = FALSE
    /\ RestartConnection
    /\ UNCHANGED heard

\* disconnect up to its await.  Closing a closed socket throws; the promise
\* then resolves at once.
Disconnect ==
    /\ MayCall
    /\ calls' = calls + 1 /\ wanted' = "disconnection" /\ crossed' = (restarting > 0)
    /\ ClearTimers
    /\ ClearAckTimer
    /\ sending' = {}
    /\ \/ /\ SocketOpen
          /\ openSockets' = openSockets \ {socket}
          /\ closing' = closing + 1
          /\ posting' = <<>>
          /\ UNCHANGED connectionState
       \/ /\ ~SocketOpen
          /\ connectionState' = "Disconnected"
          /\ OnDisconnect
          /\ UNCHANGED <<openSockets, closing>>
    /\ UNCHANGED <<socket, receiver, sender, sessionId, heard, restarting, greeted>>

\* The socket's close callback: disconnect goes on.
SocketClosed ==
    /\ closing > 0
    /\ closing' = closing - 1
    /\ connectionState' = "Disconnected"
    /\ sending' = {}
    /\ OnDisconnect
    /\ UNCHANGED <<timers, sockets, receiver, sender, parentCalls, sessionId,
                   heard, restarting, greeted>>

\* The i-th packet of a batch.
BatchPacketLastFirst(ids, i) ==
    [order |-> order + i, packetId |-> AdvancePacketId(nextSendPacketId, Len(ids) - i),
     trackingId |-> ids[i], session |-> sessionId, resent |-> 0]
BatchPacket(ids, i) ==
    [order |-> order + i, packetId |-> AdvancePacketId(nextSendPacketId, i - 1),
     trackingId |-> ids[i], session |-> sessionId, resent |-> 0]

\* sendPackets.  On a closed socket the first send throws, after its id was taken.
SendPackets(ids) ==
    /\ order + Len(ids) <= MaxSends
    /\ posting' = <<>>
    /\ \/ /\ SocketOpen
          /\ LET packets == {BatchPacket(ids, i) : i \in 1 .. Len(ids)}
             IN  /\ inFlight' = inFlight \union packets
                 /\ sending' = {Command(socket, p) : p \in packets}
          /\ nextSendPacketId' = AdvancePacketId(nextSendPacketId, Len(ids))
          /\ order' = order + Len(ids)
          /\ TriggerRetransmitTimer(inFlight')
       \/ /\ ~SocketOpen
          /\ nextSendPacketId' = AdvancePacketId(nextSendPacketId, 1)
          /\ order' = order + 1
          /\ sending' = {}
          /\ UNCHANGED <<inFlight, retransmitTimer>>
    /\ UNCHANGED <<connectionState, reconnectTimer, ackTimer, sockets, receiver,
                   parentCalls, sessionId, heard, restarting, closing, greeted>>

-----------------------------------------------------------------------------
(* Datagrams of the device *)

\* NewSessionId: the answer to HELLO, in whatever state it arrives.
KeepSequence(d) == UNCHANGED lastReceivedPacketId
StartSequence(d) == lastReceivedPacketId' = d.packetId

StartSession(d) ==
    /\ "NewSessionId" \in d.flags
    /\ connectionState' = "Established"
    /\ StartSequence(d)
    /\ lastAckSent' = d.packetId
    /\ sending' = {Ack(socket, d.session, d.packetId)}
    /\ posting' = <<>>
    /\ UNCHANGED <<timers, sockets, sender, receivedWithoutAck, restarting>>

IgnorePacket(d) ==
    /\ "NewSessionId" \notin d.flags
    /\ connectionState # "Established"
    /\ sending' = {} /\ posting' = <<>>
    /\ UNCHANGED <<connectionState, timers, sockets, receiver, sender, restarting>>

\* The packets _retransmitFrom sends again: the first one with the id asked for
\* and what follows it.
ResendFrom(fromId) ==
    {p \in inFlight :
        /\ \E first \in inFlight : /\ first.packetId = fromId
                                   /\ first.order <= p.order
        /\ p.packetId = fromId \/ ~IsPacketCoveredByAck(fromId, p.packetId)}

Resent(packets, resend) ==
    {IF p \in resend /\ p.resent <= MaxPacketRetries
     THEN [p EXCEPT !.resent = @ + 1] ELSE p : p \in packets}

\* The packet to acknowledge that comes next in the device's sequence, and one that
\* was already accepted.
IsAhead(d) ==
    /\ "AckRequest" \in d.flags
    /\ ~IsPacketCoveredByAck(lastReceivedPacketId, d.packetId)
IsNext(d) == /\ "AckRequest" \in d.flags
             /\ d.packetId = NextPacketId(lastReceivedPacketId)
IsAgain(d) == /\ "AckRequest" \in d.flags
              /\ ~IsNext(d)
              /\ IsPacketCoveredByAck(lastReceivedPacketId, d.packetId)

\* _sendOrQueueAck: enough is owed to acknowledge now, or the timer will.
AckIsOverdue == receivedWithoutAck + 1 > MaxPacketPerAck
AckIsDue == receivedWithoutAck + 1 >= MaxPacketPerAck

CountFirstOnly == /\ receivedWithoutAck' = IF AckIsDue THEN 0 ELSE receivedWithoutAck + 1
                  /\ ackTimer' = (~AckIsDue /\ (ackTimer \/ receivedWithoutAck = 0))
CountForAck == /\ receivedWithoutAck' = IF AckIsDue THEN 0 ELSE receivedWithoutAck + 1
               /\ ackTimer' = ~AckIsDue

\* The packets in flight that an acknowledgement covers.
AllInFlight(d) == {p \in inFlight : "AckReply" \in d.flags}
AckedPackets(d) == {p \in inFlight : /\ "AckReply" \in d.flags
                                     /\ IsPacketCoveredByAck(d.ackId, p.packetId)}

\* A packet of an established session: a retransmission asked for, then a packet
\* to acknowledge, then an acknowledgement.  When the retransmission is
\* impossible the session is abandoned, and the rest is done all the same.
ProcessPacket(d) ==
    LET asked  == "RetransmitRequest" \in d.flags
        fromId == d.from % MaxPacketId
        lost   == asked /\ \A p \in inFlight : p.packetId # fromId
        resend == IF asked THEN ResendFrom(fromId) ELSE {}
        ackNow == (IsNext(d) \/ IsAgain(d)) /\ AckIsDue
        acked  == AckedPackets(d)
    IN  /\ "NewSessionId" \notin d.flags
        /\ connectionState = "Established"
        /\ IF lost
           THEN /\ RecreateSocket
                /\ connectionState' = "Closed"
                /\ restarting' = restarting + 1
                /\ reconnectTimer' = FALSE
           ELSE UNCHANGED <<sockets, connectionState, restarting, reconnectTimer>>
        /\ lastReceivedPacketId' = IF IsNext(d) THEN d.packetId ELSE lastReceivedPacketId
        /\ IF IsNext(d) \/ IsAgain(d)
           THEN CountForAck
           ELSE /\ UNCHANGED receivedWithoutAck
                /\ ackTimer' = (ackTimer /\ ~lost)
        /\ lastAckSent' = IF ackNow THEN lastReceivedPacketId' ELSE lastAckSent
        /\ inFlight' = Resent(inFlight \ acked, resend)
        /\ IF "AckReply" \in d.flags
           THEN TriggerRetransmitTimer(inFlight')
           ELSE retransmitTimer' = (retransmitTimer /\ ~lost)
        /\ sending' = {Command(socket, p) : p \in resend} \union
                      (IF ackNow THEN {Ack(socket', d.session, lastReceivedPacketId')}
                                 ELSE {})
        /\ posting' = Optional(lost, Disconnected)
                      \o Optional(IsNext(d) /\ d.payload # 0, CommandsReceived(d.payload))
                      \o Optional("AckReply" \in d.flags,
                                  PacketsAcknowledged({p.trackingId : p \in acked}))
        /\ UNCHANGED <<nextSendPacketId, order>>

\* The guard SocketOpen is about what only calls that overlap bring about, an earlier
\* socket left open: what the code sends then throws on the socket in use, which is
\* closed, with nothing to catch it, and the thread is gone.
ReceivePacket(d) ==
    /\ d.port \in openSockets /\ SocketOpen
    /\ heard' = TRUE
    /\ sessionId' = d.session
    /\ StartSession(d) \/ IgnorePacket(d) \/ ProcessPacket(d)
    /\ UNCHANGED <<parentCalls, closing, greeted>>

\* A datagram whose length field is wrong counts as a sign of life, no more.
ReceiveMalformed ==
    /\ openSockets # {}
    /\ heard' = TRUE
    /\ sending' = {} /\ posting' = <<>>
    /\ UNCHANGED <<connectionState, timers, sockets, receiver, sender, parentCalls,
                   sessionId, restarting, closing, greeted>>

-----------------------------------------------------------------------------
(* Timers and socket errors *)

\* The id acknowledged: all up to the last one accepted.
AckId == lastReceivedPacketId

\* The delayed acknowledgement.
AckTimeout ==
    /\ ackTimer
    /\ ackTimer' = FALSE
    /\ receivedWithoutAck' = 0
    /\ lastAckSent' = AckId
    /\ sending' = {Ack(socket, sessionId, AckId)}
    /\ posting' = <<>>
    /\ UNCHANGED <<connectionState, reconnectTimer, retransmitTimer, sockets, sender,
                   parentCalls, lastReceivedPacketId, sessionId, heard, restarting,
                   closing, greeted>>

\* The packet sent longest ago: the only one that can be the first found to have
\* timed out, since a resent packet is younger than all before it.
Oldest == CHOOSE p \in inFlight : \A q \in inFlight : p.order <= q.order

MayAlwaysResend(p) == IsPacketCoveredByAck(nextSendPacketId, p.packetId)
MayResend(p) == /\ p.resent <= MaxPacketRetries
                /\ IsPacketCoveredByAck(nextSendPacketId, p.packetId)

\* The retransmit timer fires and nothing is in flight any more.
RetransmitTimerIdle ==
    /\ retransmitTimer /\ inFlight = {}
    /\ retransmitTimer' = FALSE
    /\ sending' = {} /\ posting' = <<>>
    /\ UNCHANGED <<connectionState, reconnectTimer, ackTimer, sockets, receiver, sender,
                   parentCalls, sessionId, heard, restarting, closing, greeted>>

\* The retransmit timer fires and the oldest packet is overdue.
RetransmitOverdue ==
    /\ retransmitTimer /\ inFlight # {}
    /\ MayResend(Oldest)
    /\ LET resend == ResendFrom(Oldest.packetId)
       IN  /\ inFlight' = Resent(inFlight, resend)
           /\ sending' = {Command(socket, p) : p \in resend}
    /\ posting' = <<>>
    /\ UNCHANGED <<connectionState, timers, sockets, receiver, nextSendPacketId, order,
                   parentCalls, sessionId, heard, restarting, closing, greeted>>

\* ... and it was resent too often, or it is too far behind.  That takes more than
\* IN_FLIGHT_TIMEOUT * MAX_PACKET_RETRIES, 0.6 s; the parent answers sooner unless
\* SlowParent.
GiveUpOverdue ==
    /\ retransmitTimer /\ inFlight # {}
    /\ ~MayResend(Oldest)
    /\ SlowParent \/ restarting = 0
    /\ RestartConnection
    /\ UNCHANGED <<parentCalls, heard>>

\* CONNECTION_TIMEOUT passes without a datagram.
Silence ==
    /\ heard
    /\ heard' = FALSE
    /\ sending' = {} /\ posting' = <<>>
    /\ UNCHANGED <<connectionState, timers, sockets, receiver, sender, parentCalls,
                   sessionId, restarting, closing, greeted>>

\* The reconnect timer fires after a silence.
ReconnectTick ==
    /\ reconnectTimer /\ ~heard
    /\ RestartConnection
    /\ UNCHANGED <<parentCalls, heard>>

\* The socket reports an error in an established session.
SocketError ==
    /\ connectionState = "Established" /\ openSockets # {}
    /\ RestartConnection
    /\ UNCHANGED <<parentCalls, heard>>

-----------------------------------------------------------------------------
ParentStep == Connect \/ Disconnect
TimerStep == \/ AckTimeout \/ RetransmitTimerIdle \/ RetransmitOverdue \/ GiveUpOverdue
             \/ Silence \/ ReconnectTick
SocketStep == SocketClosed \/ SocketError \/ ReceiveMalformed

Batches == UNION {[1 .. n -> TrackingIds] : n \in 1 .. MaxBatch}

\* The parent counts the packets it sends and numbers them so.
AreNew(ids) ==
    /\ \A i \in DOMAIN ids, p \in inFlight : p.trackingId # ids[i]
    /\ \A i, j \in DOMAIN ids : ids[i] = ids[j] => i = j

\* The answer to a HELLO comes later than the parent's to an onDisconnect() made
\* before it, unless SlowParent.
InTime(d) == "NewSessionId" \in d.flags => SlowParent \/ restarting = 0

\* The child among devices of which nothing is known but that they start a
\* session only on a socket that said HELLO.
Next ==
    \/ ParentStep
    \/ \E ids \in Batches : AreNew(ids) /\ SendPackets(ids)
    \/ \E d \in DatagramsTo(openSockets) :
                         /\ "NewSessionId" \in d.flags => d.port \in greeted
                         /\ InTime(d)
                         /\ ReceivePacket(d)
    \/ ResumeRestart
    \/ TimerStep
    \/ SocketStep

Spec == Init /\ [][Next]_childVars

-----------------------------------------------------------------------------
(* Properties *)

\* Every variable keeps to its range; in particular every packet id is one of the
\* ids that fit the wrap (atemSocketChild.ts:173-174).
TypeOK ==
    /\ connectionState \in ConnectionState
    /\ reconnectTimer \in BOOLEAN /\ retransmitTimer \in BOOLEAN /\ ackTimer \in BOOLEAN
    /\ nextSendPacketId \in PacketId /\ lastReceivedPacketId \in PacketId
    /\ lastAckSent \in PacketId
    /\ sessionId \in Sessions
    /\ inFlight \subseteq InFlightPacket
    /\ receivedWithoutAck \in 0 .. MaxPacketPerAck - 1
    /\ heard \in BOOLEAN
    /\ socket \in Nat /\ openSockets \subseteq 1 .. socket /\ greeted \subseteq 1 .. socket
    /\ restarting \in Nat /\ closing \in Nat /\ order \in Nat /\ calls \in Nat
    /\ wanted \in {"nothing", "connection", "disconnection"}
    /\ crossed \in BOOLEAN

\* The delayed-acknowledgement timer never outlives its socket: its callback sends
\* on the socket with nothing to catch the exception a closed one throws
\* (atemSocketChild.ts:204-207, 335-339).
AckTimerHasSocket == ackTimer => SocketOpen

\* A packet in flight is always watched: the retransmit timer runs, unless a restart
\* is under way that will drop the packet or the socket is closed; and when the timer
\* finds a packet to resend, the socket is open (atemSocketChild.ts:382-399).
InFlightIsWatched ==
    inFlight # {} => /\ retransmitTimer \/ restarting > 0 \/ ~SocketOpen
                     /\ retransmitTimer => SocketOpen

\* A connection that is up, or being opened, is always watched by the reconnect
\* timer, as long as no earlier socket was left open that a session could start on
\* (atemSocketChild.ts:94-107, 154).
ConnectionIsWatched ==
    /\ connectionState \in {"SynSent", "Established"}
    /\ SocketOpen /\ openSockets = {socket}
    => reconnectTimer

\* A packet accepted from the device is acknowledged, or the timer that will
\* acknowledge it runs (atemSocketChild.ts:275-288, 324-342).
AckIsOwed ==
    connectionState = "Established" /\ SocketOpen =>
        lastAckSent = lastReceivedPacketId \/ ackTimer

\* Between restarts the packets in flight are the last ones sent, without a gap, each
\* with the id that follows its predecessor's, and the next id is the one after them:
\* what the device accepts, and what a cumulative acknowledgement means, rest on it
\* (atemSocketChild.ts:173-174, 186-192, 295-306).
InFlightIsContiguous ==
    SocketOpen /\ restarting = 0 =>
        /\ nextSendPacketId = AdvancePacketId(1, order)
        /\ \A p \in inFlight :
             /\ p.order \in 1 .. order /\ p.packetId = p.order % MaxPacketId
             /\ \A n \in p.order .. order : \E q \in inFlight : q.order = n
        /\ \A p, q \in inFlight : p.order = q.order => p = q

\* A disconnection the user asked for lasts: once it is carried out, no socket is open,
\* no timer runs and the state says so, until the user connects again
\* (atemSocketChild.ts:116-123, the meaning of ConnectionState.Disconnected).  The
\* exception is one that met a restart that waits, which goes on regardless
\* (atemSocketChild.ts:148-157).
DisconnectionLasts ==
    wanted = "disconnection" /\ ~crossed /\ closing = 0 =>
        /\ connectionState = "Disconnected" /\ openSockets = {}
        /\ ~reconnectTimer /\ ~retransmitTimer /\ ~ackTimer

\* The parent is told of every session that ends (atemSocketChild.ts:139-143, 119-122).
LossIsReported ==
    [][connectionState = "Established" /\ connectionState' # "Established"
         => \E i \in DOMAIN posting' : posting'[i] = Disconnected]_childVars

\* No socket is left open but the current one, which alone is ever closed again
\* (atemSocketChild.ts:144-145, 196-201).
NoOrphanSocket == openSockets \subseteq {socket}
=============================================================================
