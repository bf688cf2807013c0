----------------------------- MODULE AtemLinkProofs -----------------------------
(***************************************************************************)
(* What child and device promise each other over the network, for every    *)
(* number of ids, sockets, sessions and packets.                           *)
(*                                                                         *)
(* The child in the link is the child on its own among particular devices  *)
(* and a particular parent; its invariants hold there too (LinkTypeInv,    *)
(* ChildInLink).  Child and device talk of one session at a time           *)
(* (SessionInv).  Behind every id under way stands the number of a packet  *)
(* in its session, and all the numbers either end compares lie within half *)
(* a lap, so that ids compare as their numbers do: from the device to the  *)
(* parent (ReceiveInv), and from the parent to the device (SendInv).       *)
(***************************************************************************)
EXTENDS AtemLink, AtemSocketChildProofs, FiniteSetTheorems

USE PacketIdAssumption, ChildAssumption, LinkAssumption

-----------------------------------------------------------------------------
(* The child in the link *)

\* The datagrams on their way, either way.
ToDevice ==
         [kind : {"hello"}, port : Nat]
    \union [kind : {"ack"}, port : Nat, session : Sessions, ackId : PacketId]
    \union [kind : {"command"}, port : Nat, session : Nat, packetId : PacketId,
            trackingId : TrackingIds]
ToChild == [port : Nat, flags : {{f} : f \in PacketFlag}, session : Sessions,
            packetId : PacketId, from : PacketId, ackId : PacketId, payload : Payloads]

LinkTypeOK ==
    /\ toDevice \subseteq ToDevice /\ toChild \subseteq ToChild
    /\ devSession \in Sessions /\ devSessions \in Sessions /\ devPort \in Nat
    /\ devSent \in 0 .. MaxDevSends /\ devAcked \in 0 .. devSent
    /\ devSent <= devAcked + Window
    /\ devRecv \in PacketId
    /\ commands \in 0 .. MaxCommands
    /\ executed \in Seq(TrackingIds) /\ delivered \in Seq(Nat)

\* The device talks to sockets that said HELLO; the parent's next packet is a new one.
Introduced ==
    /\ \A d \in toDevice : d.kind = "hello" => d.port \in greeted
    /\ \A d \in toChild : d.port \in greeted
    /\ devSession # 0 => devPort \in greeted
    /\ \A p \in inFlight : p.trackingId <= commands

LinkTypeInv == TypeOK /\ LinkTypeOK /\ Introduced

\* What a step of the child sends are datagrams, and a HELLO is remembered.
LEMMA SentTypes ==
    ASSUME TypeOK, TypeOK', Next
    PROVE  /\ sending' \subseteq ToDevice /\ greeted \subseteq greeted'
           /\ \A d \in sending' : d.kind = "hello" => d.port \in greeted'
<1> DEFINE Good == /\ sending' \subseteq ToDevice /\ greeted \subseteq greeted'
                   /\ \A d \in sending' : d.kind = "hello" => d.port \in greeted'
<1>1. /\ socket \in Nat /\ socket' \in Nat /\ sessionId \in Sessions
      /\ lastReceivedPacketId \in PacketId /\ lastReceivedPacketId' \in PacketId
      /\ inFlight \subseteq InFlightPacket /\ inFlight' \subseteq InFlightPacket
  BY DEF TypeOK
<1>2. ASSUME NEW port \in Nat, NEW s \in Sessions, NEW id \in PacketId
      PROVE  Ack(port, s, id) \in ToDevice /\ Ack(port, s, id).kind = "ack"
  BY <1>2 DEF Ack, ToDevice
<1>3. ASSUME NEW port \in Nat, NEW p \in InFlightPacket
      PROVE  Command(port, p) \in ToDevice /\ Command(port, p).kind = "command"
  BY <1>3 DEF Command, ToDevice, InFlightPacket
<1>4. ASSUME Redial PROVE Good
  <2>1. Hello(socket') \in ToDevice /\ Hello(socket').port = socket'
    BY <1>1 DEF Hello, ToDevice
  <2> QED
    BY <1>4, <2>1 DEF Redial
<1>5. ASSUME RestartConnection PROVE Good
  <2>1. CASE AbandonSession
    BY <2>1 DEF AbandonSession
  <2>2. CASE ReopenAndRedial \/ RedialOnSameSocket
    BY <1>4, <2>2 DEF ReopenAndRedial, RedialOnSameSocket
  <2> QED
    BY <1>5, <2>1, <2>2 DEF RestartConnection
<1>6. CASE Connect \/ GiveUpOverdue \/ ReconnectTick \/ SocketError
  BY <1>5, <1>6 DEF Connect, GiveUpOverdue, ReconnectTick, SocketError
<1>7. CASE ResumeRestart
  BY <1>4, <1>7 DEF ResumeRestart
<1>8. CASE Disconnect \/ SocketClosed \/ RetransmitTimerIdle \/ Silence \/ ReceiveMalformed
  BY <1>8 DEF Disconnect, SocketClosed, RetransmitTimerIdle, Silence, ReceiveMalformed
<1>9. CASE AckTimeout
  BY <1>1, <1>2, <1>9 DEF AckTimeout, AckId
<1>10. CASE RetransmitOverdue
  <2>1. ResendFrom(Oldest.packetId) \subseteq inFlight
    BY DEF ResendFrom
  <2> QED
    BY <1>1, <1>3, <1>10, <2>1 DEF RetransmitOverdue
<1>11. ASSUME NEW ids \in Batches, SendPackets(ids) PROVE Good
  <2>1. greeted' = greeted
    BY <1>11 DEF SendPackets
  <2>2. CASE SocketOpen
    <3> DEFINE packets == {BatchPacket(ids, i) : i \in 1 .. Len(ids)}
    <3>1. packets \subseteq inFlight' /\ sending' = {Command(socket, p) : p \in packets}
      BY <1>11, <2>2 DEF SendPackets
    <3> HIDE DEF packets
    <3> QED
      BY <1>1, <1>3, <2>1, <3>1
  <2>3. CASE ~SocketOpen
    BY <1>11, <2>1, <2>3 DEF SendPackets
  <2> QED
    BY <2>2, <2>3
<1>12. ASSUME NEW d \in DatagramsTo(openSockets), ReceivePacket(d) PROVE Good
  <2>1. greeted' = greeted /\ d.session \in Sessions /\ d.packetId \in PacketId
    BY <1>12 DEF ReceivePacket, DatagramsTo
  <2>2. CASE StartSession(d)
    BY <1>1, <1>2, <2>1, <2>2 DEF StartSession
  <2>3. CASE IgnorePacket(d)
    BY <2>1, <2>3 DEF IgnorePacket
  <2>4. CASE ProcessPacket(d)
    <3>1. PICK resend \in SUBSET inFlight, acks \in SUBSET {Ack(socket', d.session, lastReceivedPacketId')} :
              sending' = {Command(socket, p) : p \in resend} \union acks
      <4> DEFINE resend == IF "RetransmitRequest" \in d.flags
                           THEN ResendFrom(d.from % MaxPacketId) ELSE {}
                 acks == IF (IsNext(d) \/ IsAgain(d)) /\ AckIsDue
                         THEN {Ack(socket', d.session, lastReceivedPacketId')} ELSE {}
      <4>1. resend \in SUBSET inFlight
        BY DEF ResendFrom
      <4>2. sending' = {Command(socket, p) : p \in resend} \union acks
        BY <2>4 DEF ProcessPacket
      <4> QED
        BY <4>1, <4>2
    <3> QED
      BY <1>1, <1>2, <1>3, <2>1, <3>1
  <2> QED
    BY <1>12, <2>2, <2>3, <2>4 DEF ReceivePacket
<1> QED
  BY <1>6, <1>7, <1>8, <1>9, <1>10, <1>11, <1>12 DEF Next, ParentStep, TimerStep, SocketStep

\* The steps the child takes in the link are steps of the child on its own.
LEMMA LinkStepIsChildStep ==
    ASSUME LinkTypeInv, LinkSendPackets \/ LinkReceivePacket \/ LinkChildAlone
    PROVE  Next
<1>2. CASE LinkSendPackets
  <2>1. PICK n \in 1 .. MaxBatch : /\ commands + n <= MaxCommands
                                   /\ SendPackets([i \in 1 .. n |-> commands + i])
    BY <1>2 DEF LinkSendPackets
  <2> DEFINE ids == [i \in 1 .. n |-> commands + i]
  <2>2. commands \in Nat /\ \A p \in inFlight : p.trackingId <= commands /\ p.trackingId \in Nat
    <3>1. \A p \in inFlight : p.trackingId \in 1 .. MaxCommands
      BY DEF LinkTypeInv, TypeOK, InFlightPacket
    <3> QED
      BY <3>1 DEF LinkTypeInv, LinkTypeOK, Introduced
  <2>3. ids \in Batches
    <3>1. ids \in [1 .. n -> TrackingIds]
      BY <2>1, <2>2
    <3> QED
      BY <3>1 DEF Batches
  <2>4. AreNew(ids)
    <3>1. DOMAIN ids = 1 .. n /\ \A i \in 1 .. n : ids[i] = commands + i
      OBVIOUS
    <3> HIDE DEF ids
    <3> QED
      BY <2>2, <3>1 DEF AreNew
  <2> QED
    BY <2>1, <2>3, <2>4 DEF Next
<1>3. CASE LinkReceivePacket
  <2>1. PICK d \in toChild : ReceivePacket(d) /\ InTime(d)
    BY <1>3 DEF LinkReceivePacket
  <2>2. d \in ToChild /\ d.port \in greeted /\ d.port \in openSockets
    BY <2>1 DEF LinkTypeInv, LinkTypeOK, Introduced, ReceivePacket
  <2>3. d \in DatagramsTo(openSockets)
    BY <2>2 DEF ToChild, DatagramsTo
  <2> QED
    BY <2>1, <2>2, <2>3 DEF Next
<1>4. CASE LinkChildAlone
  BY <1>4 DEF LinkChildAlone, Alone, ChildAlone, Next
<1> QED
  BY <1>2, <1>3, <1>4

\* Datagrams of the device are datagrams to the child.
LEMMA FromDeviceTypes ==
    ASSUME NEW f \in PacketFlag, NEW id \in PacketId, NEW start \in PacketId,
           NEW ackId \in PacketId, NEW payload \in Payloads,
           devPort' \in greeted, devSession' \in Sessions, greeted \subseteq Nat
    PROVE  /\ FromDevice(f, id, start, ackId, payload) \in ToChild
           /\ FromDevice(f, id, start, ackId, payload).port \in greeted
  BY DEF FromDevice, ToChild

\* The steps of the device keep the types.
LEMMA DeviceTypes ==
    ASSUME LinkTypeInv, DeviceStep
    PROVE  LinkTypeOK' /\ Introduced'
<1>1. /\ toDevice \subseteq ToDevice /\ toChild \subseteq ToChild
      /\ devSession \in Sessions /\ devSessions \in Sessions /\ devPort \in Nat
      /\ devSent \in 0 .. MaxDevSends /\ devAcked \in 0 .. devSent
      /\ devSent <= devAcked + Window
      /\ devRecv \in PacketId
      /\ commands \in 0 .. MaxCommands
      /\ executed \in Seq(TrackingIds) /\ delivered \in Seq(Nat)
      /\ \A d \in toDevice : d.kind = "hello" => d.port \in greeted
      /\ \A d \in toChild : d.port \in greeted
      /\ devSession # 0 => devPort \in greeted
      /\ greeted \subseteq Nat
  BY DEF LinkTypeInv, LinkTypeOK, Introduced, TypeOK
<1>2. \A p \in inFlight : p.trackingId <= commands
  BY DEF LinkTypeInv, Introduced
<1>3. /\ 0 \in Sessions /\ 0 \in PacketId /\ 0 \in Payloads
      /\ Window \in Nat /\ MaxDevSends \in Nat /\ 1 .. MaxDevSends \subseteq Payloads
      /\ \A n \in Int : n % MaxPacketId \in PacketId
  <2>1. 0 \in PacketId
    BY DEF PacketId
  <2> QED
    BY <2>1, IdsOfNumbers
<1>4. CASE DevAnswerHello
  <2>1. PICK d \in toDevice :
           /\ d.kind = "hello" /\ devSessions < MaxSessions
           /\ devSessions' = devSessions + 1 /\ devSession' = devSessions + 1
           /\ devPort' = d.port
           /\ devSent' = 0 /\ devAcked' = 0 /\ devRecv' = 0
           /\ toChild' \subseteq toChild \union {FromDevice("NewSessionId", 0, 0, 0, 0)}
           /\ UNCHANGED <<executed, history, childVars, toDevice>>
    BY <1>4 DEF DevAnswerHello
  <2>2. devPort' \in greeted /\ devSession' \in Sessions /\ devSessions' \in Sessions
    <3>1. devSessions + 1 \in 0 .. MaxSessions
      BY <1>1, <2>1
    <3> QED
      BY <1>1, <2>1, <3>1
  <2>3. /\ FromDevice("NewSessionId", 0, 0, 0, 0) \in ToChild
        /\ FromDevice("NewSessionId", 0, 0, 0, 0).port \in greeted
    BY <1>1, <1>3, <2>2, FromDeviceTypes DEF PacketFlag
  <2>4. toChild' \subseteq ToChild /\ \A e \in toChild' : e.port \in greeted
    BY <1>1, <2>1, <2>3
  <2>5. UNCHANGED <<commands, delivered, executed, toDevice, inFlight, greeted>>
    BY <2>1 DEF history, childVars, sender
  <2>6. /\ devSent' \in 0 .. MaxDevSends /\ devAcked' \in 0 .. devSent'
        /\ devSent' <= devAcked' + Window /\ devPort' \in Nat
    <3>1. 0 \in 0 .. MaxDevSends /\ 0 \in 0 .. 0 /\ 0 <= 0 + Window
      BY <1>3
    <3> QED
      BY <1>1, <2>1, <2>2, <3>1
  <2> QED
    BY <1>1, <1>2, <1>3, <2>1, <2>2, <2>4, <2>5, <2>6 DEF LinkTypeOK, Introduced
<1>5. CASE DevSend
  <2> DEFINE payload == IF devSent' \in KeepAlives THEN 0 ELSE devSent'
             d == FromDevice("AckRequest", devSent' % MaxPacketId, 0, 0, payload)
  <2>1. /\ devSession # 0 /\ devSent < MaxDevSends /\ devSent - devAcked < Window
        /\ devSent' = devSent + 1
        /\ UNCHANGED <<devSession, devPort, devSessions, devAcked, devRecv, executed>>
        /\ toChild' \subseteq toChild \union {d}
        /\ UNCHANGED <<childVars, toDevice, history>>
    BY <1>5 DEF DevSend, DeviceSends
  <2>2. payload \in Payloads /\ devSent' % MaxPacketId \in PacketId
    <3>1. devSent' \in 1 .. MaxDevSends
      BY <1>1, <1>3, <2>1
    <3> QED
      BY <1>3, <3>1
  <2>3. devPort' \in greeted /\ devSession' \in Sessions
    BY <1>1, <2>1
  <2> HIDE DEF payload
  <2>4. d \in ToChild /\ d.port \in greeted
    BY <1>1, <1>3, <2>2, <2>3, FromDeviceTypes DEF PacketFlag
  <2> HIDE DEF d
  <2>5. toChild' \subseteq ToChild /\ \A e \in toChild' : e.port \in greeted
    BY <1>1, <2>1, <2>4
  <2>6. UNCHANGED <<commands, delivered, inFlight, greeted>>
    BY <2>1 DEF history, childVars, sender
  <2>7. devSent' \in 0 .. MaxDevSends /\ devAcked' \in 0 .. devSent' /\ devSent' <= devAcked' + Window
    BY <1>1, <1>3, <2>1
  <2> QED
    BY <1>1, <1>2, <2>1, <2>5, <2>6, <2>7 DEF LinkTypeOK, Introduced
<1>6. CASE DevReceiveCommand
  <2>1. PICK d \in toDevice :
           /\ d.kind = "command" /\ ForSession(d)
           /\ UNCHANGED <<devSession, devPort, devSessions, devSent, devAcked>>
           /\ UNCHANGED <<childVars, toDevice, history>>
           /\ \/ /\ d.packetId = NextPacketId(devRecv) /\ devRecv' = d.packetId
                 /\ executed' = Append(executed, d.trackingId)
              \/ UNCHANGED <<devRecv, executed>>
           /\ \/ DeviceSends({FromDevice("AckReply", 0, 0, d.packetId, 0)})
              \/ DeviceSends({FromDevice("AckReply", 0, 0, devRecv, 0)})
              \/ DeviceSends({FromDevice("RetransmitRequest", 0, NextPacketId(devRecv), 0, 0)})
    BY <1>6 DEF DevReceiveCommand
  <2>2. d.packetId \in PacketId /\ d.trackingId \in TrackingIds
    BY <1>1, <2>1 DEF ToDevice
  <2>3. devPort' \in greeted /\ devSession' \in Sessions /\ NextPacketId(devRecv) \in PacketId
    BY <1>1, <2>1, AdvanceIsPacketId DEF ForSession
  <2>4. ASSUME NEW e \in ToChild, e.port \in greeted, DeviceSends({e})
        PROVE  toChild' \subseteq ToChild /\ \A c \in toChild' : c.port \in greeted
    BY <1>1, <2>4 DEF DeviceSends
  <2>5. \A ackId \in PacketId : /\ FromDevice("AckReply", 0, 0, ackId, 0) \in ToChild
                                /\ FromDevice("AckReply", 0, 0, ackId, 0).port \in greeted
    BY <1>1, <1>3, <2>3, FromDeviceTypes DEF PacketFlag
  <2>6. /\ FromDevice("RetransmitRequest", 0, NextPacketId(devRecv), 0, 0) \in ToChild
        /\ FromDevice("RetransmitRequest", 0, NextPacketId(devRecv), 0, 0).port \in greeted
    BY <1>1, <1>3, <2>3, FromDeviceTypes DEF PacketFlag
  <2>7. toChild' \subseteq ToChild /\ \A e \in toChild' : e.port \in greeted
    BY <1>1, <2>1, <2>2, <2>4, <2>5, <2>6
  <2>8. UNCHANGED <<commands, delivered, inFlight, greeted>>
    BY <2>1 DEF history, childVars, sender
  <2>9. devRecv' \in PacketId /\ executed' \in Seq(TrackingIds)
    <3>1. Append(executed, d.trackingId) \in Seq(TrackingIds)
      BY <1>1, <2>2, AppendProperties
    <3> QED
      BY <1>1, <2>1, <2>2, <3>1
  <2> QED
    BY <1>1, <1>2, <2>1, <2>7, <2>8, <2>9 DEF LinkTypeOK, Introduced
<1>7. CASE DevReceiveAck
  <2>1. PICK n \in devAcked + 1 .. devSent :
           /\ devAcked' = n
           /\ UNCHANGED <<devSession, devPort, devSessions, devSent, devRecv,
                          executed, childVars, toDevice, toChild, history>>
    BY <1>7 DEF DevReceiveAck
  <2>2. UNCHANGED <<commands, delivered, inFlight, greeted>>
    BY <2>1 DEF history, childVars, sender
  <2>3. devAcked' \in 0 .. devSent /\ devSent <= devAcked' + Window
    BY <1>1, <1>3, <2>1
  <2> QED
    BY <1>1, <1>2, <2>1, <2>2, <2>3 DEF LinkTypeOK, Introduced
<1>8. CASE DevForget
  <2>1. UNCHANGED <<commands, delivered, inFlight, greeted>>
    BY <1>8 DEF DevForget, history, childVars, sender
  <2> QED
    BY <1>1, <1>2, <1>3, <1>8, <2>1 DEF DevForget, LinkTypeOK, Introduced
<1> QED
  BY <1>4, <1>5, <1>6, <1>7, <1>8 DEF DeviceStep

\* The same packet, resent or not.
SamePacket(p, q) == /\ p.order = q.order /\ p.packetId = q.packetId
                    /\ p.trackingId = q.trackingId /\ p.session = q.session

\* Resending packets counts it and does nothing else to them.
LEMMA ResentPackets ==
    ASSUME NEW packets \in SUBSET InFlightPacket, NEW resend
    PROVE  LET now == Resent(packets, resend)
           IN  /\ \A p \in now : \E q \in packets : SamePacket(p, q)
               /\ \A q \in packets : \E p \in now : SamePacket(p, q)
               /\ (\A p, q \in packets : p.order = q.order => p = q)
                    => \A p, q \in now : p.order = q.order => p = q
<1> DEFINE image(p) == IF p \in resend /\ p.resent <= MaxPacketRetries
                       THEN [p EXCEPT !.resent = @ + 1] ELSE p
           now == Resent(packets, resend)
<1>1. now = {image(p) : p \in packets}
  BY DEF Resent
<1>2. ASSUME NEW p \in packets PROVE SamePacket(image(p), p)
  BY DEF InFlightPacket, SamePacket
<1> HIDE DEF now, image
<1>3. /\ \A p \in now : \E q \in packets : SamePacket(p, q)
      /\ \A q \in packets : \E p \in now : SamePacket(p, q)
  BY <1>1, <1>2
<1>4. ASSUME \A p, q \in packets : p.order = q.order => p = q,
             NEW p \in now, NEW q \in now, p.order = q.order
      PROVE  p = q
  <2>1. PICK a \in packets : p = image(a)
    BY <1>1
  <2>2. PICK b \in packets : q = image(b)
    BY <1>1
  <2>3. a.order = b.order
    BY <1>2, <1>4, <2>1, <2>2 DEF SamePacket
  <2>4. a = b
    BY <1>4, <2>3
  <2> QED
    BY <2>1, <2>2, <2>4
<1> QED
  BY <1>3, <1>4 DEF now

\* Only a call of the parent puts packets in flight.
LEMMA OldPackets ==
    ASSUME TypeOK, \/ ChildAlone
                   \/ \E d \in toChild : ReceivePacket(d)
    PROVE  \A p \in inFlight' : \E q \in inFlight : SamePacket(p, q)
<1> DEFINE Old == \A p \in inFlight' : \E q \in inFlight : SamePacket(p, q)
<1>1. inFlight \subseteq InFlightPacket
  BY DEF TypeOK
<1>2. ASSUME inFlight' = {} \/ inFlight' = inFlight PROVE Old
  BY <1>2 DEF SamePacket
<1>3. ASSUME NEW packets \in SUBSET inFlight, NEW resend, inFlight' = Resent(packets, resend)
      PROVE  Old
  BY <1>1, <1>3, ResentPackets
<1>4. CASE Connect \/ GiveUpOverdue \/ ReconnectTick \/ SocketError \/ ResumeRestart
  BY <1>2, <1>4 DEF Connect, GiveUpOverdue, ReconnectTick, SocketError, ResumeRestart,
     RestartConnection, AbandonSession, ReopenAndRedial, RedialOnSameSocket, Redial,
     ResetConnection, sender
<1>5. ASSUME NEW d, ReceivePacket(d) PROVE Old
  <2>1. CASE StartSession(d) \/ IgnorePacket(d)
    BY <1>2, <2>1 DEF StartSession, IgnorePacket, sender
  <2>2. CASE ProcessPacket(d)
    <3>1. \E resend : inFlight' = Resent(inFlight \ AckedPackets(d), resend)
      BY <2>2 DEF ProcessPacket
    <3> QED
      BY <1>3, <3>1
  <2> QED
    BY <1>5, <2>1, <2>2 DEF ReceivePacket
<1>6. CASE RetransmitOverdue
  BY <1>3, <1>6 DEF RetransmitOverdue
<1>7. CASE Disconnect \/ SocketClosed \/ AckTimeout \/ RetransmitTimerIdle \/ Silence
           \/ ReceiveMalformed
  BY <1>2, <1>7 DEF Disconnect, SocketClosed, AckTimeout, RetransmitTimerIdle, Silence,
     ReceiveMalformed, sender
<1> QED
  BY <1>4, <1>5, <1>6, <1>7 DEF ChildAlone, ParentStep, TimerStep, SocketStep

\* The packets of a call of n, put in flight and sent.
SentPackets(n, new) ==
    /\ inFlight' = inFlight \union new
    /\ sending' = {Command(socket, p) : p \in new}
    /\ \A p \in new : \E i \in 1 .. n :
          /\ p.order = order + i /\ p.trackingId = commands + i
          /\ p.packetId = AdvancePacketId(nextSendPacketId, i - 1)
          /\ p.session = sessionId /\ p.resent = 0
    /\ \A i \in 1 .. n : \E p \in new : p.order = order + i
    /\ \A p, q \in new : p.order = q.order => p = q

\* What LinkSendPackets puts in flight.
LEMMA NewPackets ==
    ASSUME TypeOK, NEW n \in Nat, commands \in Nat,
           SendPackets([i \in 1 .. n |-> commands + i])
    PROVE  /\ ~SocketOpen => inFlight' = inFlight /\ order' = order + 1 /\ sending' = {}
           /\ SocketOpen =>
                /\ order' = order + n
                /\ nextSendPacketId' = AdvancePacketId(nextSendPacketId, n)
                /\ \E new : SentPackets(n, new)
<1> DEFINE ids == [i \in 1 .. n |-> commands + i]
           packet(i) == BatchPacket(ids, i)
           new == {packet(i) : i \in 1 .. n}
<1>1. Len(ids) = n
  OBVIOUS
<1>2. \A i \in 1 .. n : /\ packet(i).order = order + i /\ packet(i).trackingId = commands + i
                        /\ packet(i).packetId = AdvancePacketId(nextSendPacketId, i - 1)
                        /\ packet(i).session = sessionId /\ packet(i).resent = 0
  BY DEF BatchPacket
<1>3. order \in Nat
  BY DEF TypeOK
<1>4. CASE ~SocketOpen
  BY <1>4 DEF SendPackets
<1>5. CASE SocketOpen
  <2>1. /\ order' = order + n /\ nextSendPacketId' = AdvancePacketId(nextSendPacketId, n)
        /\ inFlight' = inFlight \union new /\ sending' = {Command(socket, p) : p \in new}
    BY <1>1, <1>5 DEF SendPackets
  <2> HIDE DEF packet
  <2>2. /\ \A p \in new : \E i \in 1 .. n :
               /\ p.order = order + i /\ p.trackingId = commands + i
               /\ p.packetId = AdvancePacketId(nextSendPacketId, i - 1)
               /\ p.session = sessionId /\ p.resent = 0
        /\ \A i \in 1 .. n : \E p \in new : p.order = order + i
    BY <1>2
  <2>3. \A p, q \in new : p.order = q.order => p = q
    <3>1. ASSUME NEW i \in 1 .. n, NEW j \in 1 .. n, packet(i).order = packet(j).order
          PROVE  i = j
      BY <1>2, <1>3, <3>1
    <3> QED
      BY <3>1
  <2> HIDE DEF new
  <2>4. SentPackets(n, new)
    BY <2>1, <2>2, <2>3 DEF SentPackets
  <2> QED
    BY <1>5, <2>1, <2>4
<1> QED
  BY <1>4, <1>5

\* What the parent is told of a datagram.
LEMMA PostedCalls ==
    ASSUME NEW d, ReceivePacket(d)
    PROVE  /\ CommandsPosted = IF ProcessPacket(d) /\ IsNext(d) /\ d.payload # 0
                               THEN {CommandsReceived(d.payload)} ELSE {}
           /\ Acknowledgements = IF ProcessPacket(d) /\ "AckReply" \in d.flags
                                 THEN {p.trackingId : p \in AckedPackets(d)} ELSE {}
<1>1. CASE ~ProcessPacket(d)
  <2>1. posting' = <<>>
    BY <1>1 DEF ReceivePacket, StartSession, IgnorePacket
  <2>2. DOMAIN posting' = {}
    BY <2>1
  <2> QED
    BY <1>1, <2>2 DEF CommandsPosted, Acknowledgements
<1>2. CASE ProcessPacket(d)
  <2> DEFINE lost == /\ "RetransmitRequest" \in d.flags
                     /\ \A p \in inFlight : p.packetId # d.from % MaxPacketId
             a == Disconnected
             b == CommandsReceived(d.payload)
             ids == {p.trackingId : p \in AckedPackets(d)}
             c == PacketsAcknowledged(ids)
             x == Optional(lost, a)
             y == Optional(IsNext(d) /\ d.payload # 0, b)
             z == Optional("AckReply" \in d.flags, c)
             s == x \o y \o z
  <2>1. posting' = s
    BY <1>2 DEF ProcessPacket
  <2>2. /\ x \in {<<>>, <<a>>} /\ y \in {<<>>, <<b>>} /\ z \in {<<>>, <<c>>}
        /\ (y # <<>> <=> IsNext(d) /\ d.payload # 0) /\ (z # <<>> <=> "AckReply" \in d.flags)
    BY DEF Optional
  <2>3. /\ a.type = "disconnect" /\ b.type = "commands"
        /\ c.type = "acknowledged" /\ c.ids = ids
    BY DEF Disconnected, CommandsReceived, PacketsAcknowledged
  <2> HIDE DEF a, b, c, x, y, z, ids
  <2>4. CallsOf(s, x, y, z, a, b, c)
    <3> HIDE DEF lost
    <3>1. x \in {<<>>, <<a>>} /\ y \in {<<>>, <<b>>} /\ z \in {<<>>, <<c>>}
      BY <2>2
    <3>2. CallsOf(x \o y \o z, x, y, z, a, b, c)
      BY ONLY <3>1, OptionalCalls, Zenon
    <3> QED
      BY <3>2
  <2> HIDE DEF s
  <2>5. CommandsPosted = IF y # <<>> THEN {b} ELSE {}
    BY <2>1, <2>3, <2>4 DEF CallsOf, CommandsPosted
  <2>6. Acknowledgements = IF z # <<>> THEN ids ELSE {}
    <3>1. {posting'[i].ids : i \in {j \in DOMAIN posting' : posting'[j].type = "acknowledged"}}
             = IF z # <<>> THEN {ids} ELSE {}
      BY <2>1, <2>3, <2>4 DEF CallsOf
    <3> QED
      BY <3>1 DEF Acknowledgements
  <2> QED
    BY <1>2, <2>2, <2>5, <2>6 DEF b, ids
<1> QED
  BY <1>1, <1>2

\* The steps the child takes part in keep the types.
LEMMA ChildTypes ==
    ASSUME LinkTypeInv, TypeOK', Next,
           LinkSendPackets \/ LinkReceivePacket \/ LinkChildAlone
    PROVE  LinkTypeOK' /\ Introduced'
<1>1. /\ toDevice \subseteq ToDevice /\ toChild \subseteq ToChild
      /\ devSession \in Sessions /\ devSessions \in Sessions /\ devPort \in Nat
      /\ devSent \in 0 .. MaxDevSends /\ devAcked \in 0 .. devSent
      /\ devSent <= devAcked + Window
      /\ devRecv \in PacketId
      /\ commands \in 0 .. MaxCommands
      /\ executed \in Seq(TrackingIds) /\ delivered \in Seq(Nat)
      /\ \A d \in toDevice : d.kind = "hello" => d.port \in greeted
      /\ \A d \in toChild : d.port \in greeted
      /\ devSession # 0 => devPort \in greeted
      /\ \A p \in inFlight : p.trackingId <= commands
      /\ inFlight \subseteq InFlightPacket
  BY DEF LinkTypeInv, LinkTypeOK, Introduced, TypeOK
<1>2. UNCHANGED deviceVars
  BY DEF LinkSendPackets, LinkReceivePacket, LinkChildAlone, Alone
<1>3. PICK incoming \in SUBSET toChild : Carry(incoming)
  BY DEF LinkSendPackets, LinkReceivePacket, LinkChildAlone, Alone, AfterDelivery
<1>4. /\ sending' \subseteq ToDevice /\ greeted \subseteq greeted'
      /\ \A d \in sending' : d.kind = "hello" => d.port \in greeted'
  BY SentTypes DEF LinkTypeInv
<1>5. /\ toDevice' \subseteq ToDevice /\ toChild' \subseteq ToChild
      /\ \A d \in toDevice' : d.kind = "hello" => d.port \in greeted'
      /\ \A d \in toChild' : d.port \in greeted'
  BY <1>1, <1>3, <1>4 DEF Carry
<1>6. ASSUME commands' = commands, \A p \in inFlight' : \E q \in inFlight : SamePacket(p, q)
      PROVE  commands' \in 0 .. MaxCommands /\ \A p \in inFlight' : p.trackingId <= commands'
  BY <1>1, <1>6 DEF SamePacket
<1>7. /\ commands' \in 0 .. MaxCommands /\ \A p \in inFlight' : p.trackingId <= commands'
      /\ delivered' \in Seq(Nat)
  <2>1. CASE LinkSendPackets
    <3>1. PICK n \in 1 .. MaxBatch : /\ commands + n <= MaxCommands
                                     /\ SendPackets([i \in 1 .. n |-> commands + i])
                                     /\ commands' = commands + n
                                     /\ delivered' = delivered
      BY <2>1 DEF LinkSendPackets
    <3>2. n \in Nat /\ commands \in Nat /\ MaxCommands \in Nat
      BY <1>1
    <3>3. commands' \in 0 .. MaxCommands
      BY <3>1, <3>2
    <3>4. \A p \in inFlight' : p \in inFlight \/ \E i \in 1 .. n : p.trackingId = commands + i
      <4>1. TypeOK
        BY DEF LinkTypeInv
      <4>2. \/ inFlight' = inFlight
            \/ \E new : /\ inFlight' = inFlight \union new
                        /\ \A p \in new : \E i \in 1 .. n : p.trackingId = commands + i
        <5>1. CASE SocketOpen
          <6>1. \E new : SentPackets(n, new)
            BY <3>1, <3>2, <4>1, <5>1, NewPackets
          <6> QED
            <7>1. PICK new : SentPackets(n, new)
              BY <6>1
            <7> QED
              BY <7>1 DEF SentPackets
        <5>2. CASE ~SocketOpen
          BY <3>1, <3>2, <4>1, <5>2, NewPackets
        <5> QED
          BY <5>1, <5>2
      <4> QED
        BY <4>2
    <3>5. \A p \in inFlight : p.trackingId \in Nat
      BY <1>1 DEF InFlightPacket
    <3>6. \A p \in inFlight' : p.trackingId <= commands + n
      BY <1>1, <3>2, <3>4, <3>5
    <3> QED
      BY <1>1, <3>1, <3>3, <3>6
  <2>2. CASE LinkChildAlone
    <3>1. ChildAlone /\ commands' = commands /\ delivered' = delivered
      BY <2>2 DEF LinkChildAlone, Alone, history
    <3> QED
      BY <1>1, <1>6, <3>1, OldPackets DEF LinkTypeInv
  <2>3. CASE LinkReceivePacket
    <3>1. PICK d \in toChild :
             /\ ReceivePacket(d) /\ commands' = commands
             /\ IF CommandsPosted = {}
                THEN delivered' = IF IsHelloAnswer(d) /\ d.session # sessionId THEN <<>>
                                  ELSE delivered
                ELSE \E m \in CommandsPosted : delivered' = Append(delivered, m.payload)
      BY <2>3 DEF LinkReceivePacket
    <3>2. \A m \in CommandsPosted : m.payload \in Nat
      <4>1. d.payload \in Nat
        BY <1>1 DEF ToChild
      <4>2. CommandsReceived(d.payload).payload = d.payload
        BY DEF CommandsReceived
      <4>3. CommandsPosted \subseteq {CommandsReceived(d.payload)}
        BY <3>1, PostedCalls
      <4> QED
        BY <4>1, <4>2, <4>3
    <3>3. delivered' \in Seq(Nat)
      <4>1. <<>> \in Seq(Nat) /\ \A m \in CommandsPosted : Append(delivered, m.payload) \in Seq(Nat)
        BY <1>1, <3>2, AppendProperties
      <4> QED
        BY <1>1, <3>1, <4>1
    <3> QED
      BY <1>6, <3>1, <3>3, OldPackets DEF LinkTypeInv
  <2> QED
    BY <2>1, <2>2, <2>3
<1> QED
  BY <1>1, <1>2, <1>4, <1>5, <1>7 DEF LinkTypeOK, Introduced, deviceVars

\* Every step keeps the types and is a step of the child on its own, or none of its.
LEMMA LinkTypeStep ==
    ASSUME LinkTypeInv, [LinkNext]_linkVars
    PROVE  LinkTypeInv' /\ [Next]_childVars
<1>1. CASE DeviceStep
  <2>1. UNCHANGED childVars
    BY <1>1 DEF DeviceStep, DevAnswerHello, DevSend, DevReceiveCommand, DevReceiveAck, DevForget
  <2>2. TypeOK'
    BY <2>1, TypeStep DEF LinkTypeInv
  <2> QED
    BY <1>1, <2>1, <2>2, DeviceTypes DEF LinkTypeInv
<1>2. CASE LinkSendPackets \/ LinkReceivePacket \/ LinkChildAlone
  <2>1. Next
    BY <1>2, LinkStepIsChildStep
  <2>2. TypeOK'
    BY <2>1, TypeStep DEF LinkTypeInv
  <2> QED
    BY <1>2, <2>1, <2>2, ChildTypes DEF LinkTypeInv
<1>3. CASE UNCHANGED linkVars
  <2>1. UNCHANGED childVars
    BY <1>3 DEF linkVars
  <2>2. TypeOK'
    BY <2>1, TypeStep DEF LinkTypeInv
  <2>3. UNCHANGED <<toDevice, toChild, devSession, devPort, devSessions, devSent, devAcked,
                    devRecv, executed, commands, delivered, greeted, inFlight>>
    BY <1>3, <2>1 DEF linkVars, deviceVars, history, childVars, sender
  <2> QED
    BY <2>1, <2>2, <2>3 DEF LinkTypeInv, LinkTypeOK, Introduced
<1> QED
  BY <1>1, <1>2, <1>3 DEF LinkNext

\* The link starts as it should.
LEMMA LinkTypeInit == LinkInit => LinkTypeInv
<1> SUFFICES ASSUME LinkInit PROVE LinkTypeInv
  OBVIOUS
<1>1. TypeOK
  BY TypeInit DEF LinkInit
<1>2. 0 \in Sessions /\ 0 \in PacketId /\ 0 \in 0 .. MaxDevSends /\ 0 \in 0 .. MaxCommands
  BY DEF PacketId
<1>3. <<>> \in Seq(TrackingIds) /\ <<>> \in Seq(Nat)
  OBVIOUS
<1>4. inFlight = {}
  BY DEF LinkInit, Init
<1>5. /\ toDevice = {} /\ toChild = {} /\ devSession = 0 /\ devSessions = 0 /\ devPort = 0
      /\ devSent = 0 /\ devAcked = 0 /\ devRecv = 0 /\ commands = 0
      /\ executed = <<>> /\ delivered = <<>>
  BY DEF LinkInit
<1>6. LinkTypeOK
  BY <1>2, <1>3, <1>5 DEF LinkTypeOK
<1> QED
  BY <1>1, <1>4, <1>5, <1>6 DEF LinkTypeInv, Introduced

\* All variables of the link keep their types.
LEMMA LinkAlwaysTyped == LinkSpec => []LinkTypeInv
<1>1. LinkTypeInv /\ [LinkNext]_linkVars => LinkTypeInv'
  BY LinkTypeStep
<1> QED
  BY <1>1, LinkTypeInit, PTL DEF LinkSpec

\* The child in the link behaves as a child among some devices, with a parent that
\* numbers its packets: every theorem about the child on its own holds in the link
\* (atemSocketChild.ts as a whole).
THEOREM ChildInLink == LinkSpec => Spec
<1>1. LinkInit => Init
  BY DEF LinkInit
<1>2. LinkTypeInv /\ [LinkNext]_linkVars => LinkTypeInv' /\ [Next]_childVars
  BY LinkTypeStep
<1> QED
  BY <1>1, <1>2, LinkTypeInit, PTL DEF LinkSpec, Spec

-----------------------------------------------------------------------------
(* What a step of the child does to the connection *)

\* A HELLO was said, on the socket in use or on a new one; what was in flight is forgotten.
Dialled ==
    /\ connectionState # "Established" /\ connectionState' = "SynSent"
    /\ \/ socket' = socket /\ openSockets' = openSockets /\ SocketOpen
       \/ socket' = socket + 1 /\ openSockets' = {socket + 1} /\ ~SocketOpen
    /\ sessionId' = 0 /\ inFlight' = {} /\ order' = 0 /\ nextSendPacketId' = 1
    /\ lastReceivedPacketId' = lastReceivedPacketId
    /\ sending' = {Hello(socket')}

\* The session was lost; its socket is replaced.
Abandoned ==
    /\ connectionState = "Established" /\ connectionState' = "Closed"
    /\ socket' = socket + 1 /\ openSockets' = {socket + 1}
    /\ restarting' > 0
    /\ sessionId' = sessionId /\ lastReceivedPacketId' = lastReceivedPacketId
    /\ sending' = {}

\* The socket was closed, or its close callback came, or a restart goes on in spite of that.
ClosedDown ==
    /\ connectionState' \in {connectionState, "Disconnected"}
    /\ socket' = socket /\ openSockets' = {}
    /\ sessionId' \in {0, sessionId} /\ lastReceivedPacketId' = lastReceivedPacketId
    /\ sending' = {}

\* Nothing but repetitions was sent, of packets in flight or of the acknowledgement.
Repeats ==
    \A d \in sending' : \/ d = Ack(socket, sessionId, lastReceivedPacketId)
                        \/ \E p \in inFlight : d = Command(socket, p)
Quiet ==
    /\ UNCHANGED <<connectionState, socket, openSockets, restarting, sessionId,
                   lastReceivedPacketId, nextSendPacketId, order>>
    /\ \E resend : inFlight' = Resent(inFlight, resend)
    /\ Repeats

\* Without anything to resend the packets stay as they are.
LEMMA ResentNothing == ASSUME NEW packets PROVE Resent(packets, {}) = packets
  BY DEF Resent

\* A session is only given up, and a HELLO only said, with the socket open.
LEMMA RestartEffect ==
    ASSUME RestInv, RestartConnection,
           SocketOpen \/ connectionState # "Established"
    PROVE  Dialled \/ Abandoned \/ ClosedDown
<1>1. /\ openSockets \subseteq {socket} /\ (connectionState = "Disconnected" => ~SocketOpen)
      /\ socket \in Nat /\ restarting \in Nat
      /\ ~SocketOpen => openSockets = {}
  BY DEF RestInv, Rested, NoOrphanSocket, SocketOpen, TypeOK
<1>2. lastReceivedPacketId' = lastReceivedPacketId
  BY DEF RestartConnection, receiver
<1>3. CASE AbandonSession
  <2>1. /\ connectionState = "Established" /\ connectionState' = "Closed"
        /\ socket' = socket + 1 /\ openSockets' = (openSockets \ {socket}) \union {socket + 1}
        /\ restarting' = restarting + 1 /\ sessionId' = sessionId /\ sending' = {}
    BY <1>3 DEF AbandonSession, RecreateSocket
  <2>2. openSockets \ {socket} = {}
    BY <1>1
  <2>3. openSockets' = {socket + 1}
    BY <2>1, <2>2
  <2>4. restarting' > 0
    BY <1>1, <2>1
  <2> QED
    BY <1>2, <2>1, <2>3, <2>4 DEF Abandoned
<1>4. CASE ReopenAndRedial
  BY <1>1, <1>2, <1>4 DEF ReopenAndRedial, CreateSocket, Redial, ResetConnection, Dialled
<1>5. CASE RedialOnSameSocket
  <2>1. UNCHANGED <<socket, openSockets>> /\ connectionState \in {"Closed", "SynSent"} /\ Redial
    BY <1>5 DEF RedialOnSameSocket, sockets
  <2>2. CASE SocketOpen
    BY <1>2, <2>1, <2>2 DEF Redial, ResetConnection, Dialled, SocketOpen
  <2>3. CASE ~SocketOpen
    BY <1>1, <1>2, <2>1, <2>3 DEF Redial, ResetConnection, ClosedDown, SocketOpen
  <2> QED
    BY <2>2, <2>3
<1> QED
  BY <1>3, <1>4, <1>5 DEF RestartConnection

\* What the child does of itself.
LEMMA AloneEffect ==
    ASSUME ~Overlap, ~SlowParent, RestInv, ChildAlone
    PROVE  Dialled \/ Abandoned \/ ClosedDown \/ Quiet
<1>1. /\ openSockets \subseteq {socket}
      /\ restarting \in Nat /\ closing \in Nat
      /\ ~SocketOpen => /\ openSockets = {} /\ ~retransmitTimer
                        /\ closing = 0 => connectionState = "Disconnected"
                        /\ connectionState = "Established" => ~reconnectTimer
      /\ closing > 0 => ~SocketOpen
      /\ restarting > 0 => connectionState # "Established"
  BY DEF RestInv, Rested, AbandonedIsSilent, NoOrphanSocket, SocketOpen, TypeOK
<1>2. ASSUME UNCHANGED <<connectionState, sockets, restarting, sessionId,
                         lastReceivedPacketId, nextSendPacketId, order>>,
             inFlight' = inFlight, sending' = {}
      PROVE  Quiet
  BY <1>2, ResentNothing DEF Quiet, Repeats, sockets
<1>3. CASE Connect
  <2>1. RestartConnection /\ ~(closing > 0)
    BY <1>1, <1>3 DEF Connect, MayCall
  <2>2. SocketOpen \/ connectionState # "Established"
    BY <1>1, <2>1
  <2> QED
    BY <2>1, <2>2, RestartEffect
<1>4. CASE GiveUpOverdue \/ ReconnectTick \/ SocketError
  <2>1. RestartConnection /\ (SocketOpen \/ connectionState # "Established")
    <3>1. RestartConnection /\ (retransmitTimer \/ reconnectTimer \/ openSockets # {})
      BY <1>4 DEF GiveUpOverdue, ReconnectTick, SocketError
    <3> QED
      BY <1>1, <3>1
  <2> QED
    BY <2>1, RestartEffect
<1>5. CASE ResumeRestart
  <2>1. connectionState # "Established" /\ socket' = socket /\ openSockets' = openSockets
    BY <1>1, <1>5 DEF ResumeRestart, sockets
  <2>2. CASE SocketOpen
    BY <1>5, <2>1, <2>2 DEF ResumeRestart, receiver, Redial, ResetConnection, Dialled, SocketOpen
  <2>3. CASE ~SocketOpen
    BY <1>1, <1>5, <2>1, <2>3
       DEF ResumeRestart, receiver, Redial, ResetConnection, ClosedDown, SocketOpen
  <2> QED
    BY <2>2, <2>3
<1>6. CASE Disconnect
  BY <1>1, <1>6 DEF Disconnect, receiver, ClosedDown, SocketOpen
<1>7. CASE SocketClosed
  BY <1>1, <1>7 DEF SocketClosed, sockets, receiver, ClosedDown
<1>8. CASE RetransmitTimerIdle \/ Silence \/ ReceiveMalformed
  BY <1>2, <1>8 DEF RetransmitTimerIdle, Silence, ReceiveMalformed, receiver, sender
<1>9. CASE AckTimeout
  BY <1>9, ResentNothing DEF AckTimeout, AckId, sockets, sender, Quiet, Repeats
<1>10. CASE RetransmitOverdue
  <2>1. ResendFrom(Oldest.packetId) \subseteq inFlight
    BY DEF ResendFrom
  <2> QED
    BY <1>10, <2>1 DEF RetransmitOverdue, receiver, sockets, Quiet, Repeats
<1> QED
  BY <1>3, <1>4, <1>5, <1>6, <1>7, <1>8, <1>9, <1>10
     DEF ChildAlone, ParentStep, TimerStep, SocketStep

\* The next packet of the device is accepted.
Accepted(d) ==
    /\ UNCHANGED <<connectionState, socket, openSockets, restarting, sessionId,
                   nextSendPacketId, inFlight, order>>
    /\ lastReceivedPacketId' = d.packetId
    /\ sending' \subseteq {Ack(socket, sessionId, d.packetId)}

\* An acknowledgement takes packets out of flight.
Settled(d) ==
    /\ UNCHANGED <<connectionState, socket, openSockets, restarting, sessionId,
                   lastReceivedPacketId, nextSendPacketId, order>>
    /\ inFlight' = inFlight \ AckedPackets(d)
    /\ sending' = {}

\* What a datagram of the session does: the device sets one flag at a time.
LEMMA ProcessEffect ==
    ASSUME RestInv, NEW d \in ToChild, d.port \in greeted, ReceivePacket(d), d.session = sessionId,
           connectionState = "Established", "NewSessionId" \notin d.flags
    PROVE  /\ ProcessPacket(d)
           /\ \/ (Abandoned \/ Quiet) /\ (~IsNext(d)) /\ AckedPackets(d) = {}
              \/ Accepted(d) /\ IsNext(d) /\ AckedPackets(d) = {}
              \/ Settled(d) /\ (~IsNext(d)) /\ "AckReply" \in d.flags
<1>1. ProcessPacket(d) /\ sessionId' = sessionId /\ SocketOpen
  BY DEF ReceivePacket, StartSession, IgnorePacket
<1>2. openSockets = {socket} /\ socket \in Nat /\ restarting \in Nat
  BY <1>1 DEF RestInv, Rested, NoOrphanSocket, SocketOpen, TypeOK
<1> DEFINE fromId == d.from % MaxPacketId
           lost == "RetransmitRequest" \in d.flags /\ \A p \in inFlight : p.packetId # fromId
<1>3. CASE d.flags = {"RetransmitRequest"}
  <2>1. ~IsNext(d) /\ ~IsAgain(d) /\ AckedPackets(d) = {}
    BY <1>3 DEF IsNext, IsAgain, AckedPackets
  <2>2. /\ lastReceivedPacketId' = lastReceivedPacketId
        /\ inFlight' = Resent(inFlight, ResendFrom(fromId))
        /\ sending' = {Command(socket, p) : p \in ResendFrom(fromId)}
        /\ UNCHANGED <<nextSendPacketId, order>>
    <3>1. inFlight \ AckedPackets(d) = inFlight
      BY <2>1
    <3> QED
      BY <1>1, <1>3, <2>1, <3>1 DEF ProcessPacket
  <2>3. CASE lost
    <3>1. ResendFrom(fromId) = {}
      BY <2>3 DEF ResendFrom
    <3>2. /\ RecreateSocket /\ connectionState' = "Closed" /\ restarting' = restarting + 1
      BY <1>1, <2>3 DEF ProcessPacket
    <3> QED
      <4>1. Abandoned
        BY <1>1, <1>2, <2>2, <3>1, <3>2 DEF RecreateSocket, Abandoned
      <4> QED
        BY <1>1, <2>1, <4>1
  <2>4. CASE ~lost
    <3>1. UNCHANGED <<sockets, connectionState, restarting>>
      BY <1>1, <2>4 DEF ProcessPacket
    <3>2. ResendFrom(fromId) \subseteq inFlight
      BY DEF ResendFrom
    <3>3. Quiet
      BY <1>1, <2>2, <3>1, <3>2 DEF Quiet, Repeats, sockets
    <3> QED
      BY <1>1, <2>1, <3>3
  <2> QED
    BY <2>3, <2>4
<1>4. CASE d.flags # {"RetransmitRequest"}
  <2>1. "RetransmitRequest" \notin d.flags
    BY <1>4 DEF ToChild
  <2> DEFINE acks == IF (IsNext(d) \/ IsAgain(d)) /\ AckIsDue
                     THEN {Ack(socket', d.session, lastReceivedPacketId')} ELSE {}
  <2>2. /\ UNCHANGED <<sockets, connectionState, restarting, nextSendPacketId, order>>
        /\ lastReceivedPacketId' = IF IsNext(d) THEN d.packetId ELSE lastReceivedPacketId
        /\ inFlight' = Resent(inFlight \ AckedPackets(d), {})
        /\ sending' = acks
    BY <1>1, <2>1 DEF ProcessPacket
  <2>3. inFlight' = inFlight \ AckedPackets(d) /\ socket' = socket /\ openSockets' = openSockets
    BY <2>2, ResentNothing DEF sockets
  <2>4. CASE d.flags = {"AckReply"}
    <3>1. ~IsNext(d) /\ ~IsAgain(d)
      BY <2>4 DEF IsNext, IsAgain
    <3> QED
      BY <1>1, <2>2, <2>3, <2>4, <3>1 DEF Settled
  <2>5. CASE d.flags # {"AckReply"}
    <3>1. AckedPackets(d) = {}
      <4>1. "AckReply" \notin d.flags
        BY <2>5 DEF ToChild
      <4> QED
        BY <4>1 DEF AckedPackets
    <3>2. inFlight' = inFlight /\ acks \subseteq {Ack(socket, sessionId, lastReceivedPacketId')}
      BY <2>3, <3>1
    <3> HIDE DEF acks
    <3>3. CASE IsNext(d)
      BY <1>1, <2>2, <2>3, <3>1, <3>2, <3>3 DEF Accepted
    <3>4. CASE ~IsNext(d)
      BY <1>1, <2>2, <2>3, <3>1, <3>2, <3>4, ResentNothing DEF Quiet, Repeats
    <3> QED
      BY <3>3, <3>4
  <2> QED
    BY <2>4, <2>5
<1> QED
  BY <1>3, <1>4

-----------------------------------------------------------------------------
(* Child and device talk of one session at a time *)

Answers == {d \in toChild : IsHelloAnswer(d)}
Talking == devSession # 0 /\ devPort = socket
Listening == connectionState = "Established" /\ SocketOpen /\ Answers = {}

\* No session is known that the device did not start.
SessionsGrow ==
    /\ sessionId <= devSessions /\ devSession <= devSessions
    /\ \A d \in toDevice : /\ d.port \in openSockets
                           /\ d.kind # "hello" => d.session <= devSessions
    /\ \A p \in inFlight : p.session <= devSessions

\* A session that is about to begin is newer than all that is left of others.
AnswerIsNew ==
    \A d \in Answers :
       /\ d.port = socket /\ SocketOpen /\ d.packetId = 0
       /\ devSession # 0 => devSession = d.session /\ devPort = socket
       /\ sessionId < d.session /\ d.session <= devSessions
       /\ \A e \in toChild : /\ e.port = socket /\ e.session = d.session
                             /\ IsHelloAnswer(e) => e = d
       /\ \A e \in toDevice : e.kind # "hello" => e.session < d.session
       /\ \A p \in inFlight : p.session < d.session

\* Of a session that has begun, child and device have the same number; where none has,
\* the device talks to another socket.
SameSession ==
    /\ Listening => /\ \A d \in toChild : d.port = socket => d.session = sessionId
                    /\ Talking => devSession = sessionId
    /\ SocketOpen /\ Answers = {} /\ connectionState # "Established"
         => /\ ~Talking
            /\ \A d \in toChild : d.port # socket

SessionInv == SessionsGrow /\ AnswerIsNew /\ SameSession

\* Where no session has begun the device acknowledged nothing.
Unheard ==
    SocketOpen /\ connectionState # "Established" =>
        /\ \A d \in toChild : d.port = socket => "AckReply" \notin d.flags
        /\ Talking => devRecv = 0

\* What the proofs below start from.
LinkBase == LinkTypeInv /\ RestInv /\ SessionInv /\ Unheard

\* The device sends something other than the answer to a HELLO.
DeviceSpeaks(m) ==
    /\ UNCHANGED <<childVars, toDevice, devSession, devPort, devSessions>>
    /\ devSession # 0
    /\ m \in ToChild /\ m.port = devPort /\ m.session = devSession /\ ~IsHelloAnswer(m)
    /\ toChild' = {d \in toChild \union {m} : StillToChild(d)}

\* Every step of the device is of one of these kinds.
DeviceAnswers(m) ==
    /\ UNCHANGED <<childVars, toDevice>>
    /\ m \in ToChild /\ IsHelloAnswer(m) /\ m.packetId = 0
    /\ m.port = socket /\ SocketOpen /\ \E d \in toDevice : d.kind = "hello"
    /\ devSessions' = devSessions + 1 /\ devSession' = devSessions + 1 /\ devPort' = socket
    /\ m.session = devSessions + 1
    /\ toChild' = {m}

\* The device answers a HELLO.
LEMMA AnswerEffect ==
    ASSUME ~LateHello, LinkBase, DevAnswerHello
    PROVE  \E m : DeviceAnswers(m)
<1>1. PICK d \in toDevice :
           /\ d.kind = "hello" /\ devSessions < MaxSessions
           /\ devSessions' = devSessions + 1 /\ devSession' = devSessions + 1
           /\ devPort' = d.port
           /\ toChild' = {FromDevice("NewSessionId", 0, 0, 0, 0)}
           /\ UNCHANGED <<childVars, toDevice>>
  BY DEF DevAnswerHello
<1>2. d.port = socket /\ SocketOpen
  <2>1. d.port \in openSockets /\ openSockets \subseteq {socket}
    BY <1>1 DEF LinkBase, SessionInv, SessionsGrow, RestInv, Rested, NoOrphanSocket
  <2> QED
    BY <2>1 DEF SocketOpen
<1> DEFINE m == FromDevice("NewSessionId", 0, 0, 0, 0)
<1>3. m \in ToChild
  <2>1. 0 \in PacketId /\ 0 \in Payloads /\ "NewSessionId" \in PacketFlag
    BY DEF PacketId, PacketFlag
  <2>2. devPort' \in greeted /\ greeted \subseteq Nat
    BY <1>1 DEF LinkBase, LinkTypeInv, Introduced, TypeOK
  <2>3. devSession' \in Sessions
    BY <1>1 DEF LinkBase, LinkTypeInv, LinkTypeOK
  <2> QED
    BY <2>1, <2>2, <2>3, FromDeviceTypes
<1>4. /\ m.port = devPort' /\ m.session = devSession' /\ m.packetId = 0 /\ IsHelloAnswer(m)
  BY DEF FromDevice, IsHelloAnswer
<1> HIDE DEF m
<1>5. toChild' = {m}
  BY <1>1 DEF m
<1> QED
  BY <1>1, <1>2, <1>3, <1>4, <1>5 DEF DeviceAnswers

\* What the device sends in a session.
SpokenDatagram(m, f, id, start, ackId, payload) ==
    /\ m \in ToChild /\ m.port = devPort /\ m.session = devSession
    /\ m.flags = {f} /\ m.packetId = id /\ m.from = start /\ m.ackId = ackId
    /\ m.payload = payload

\* A datagram put together in a session is of one.
LEMMA SpokenTypes ==
    ASSUME LinkTypeInv, devPort' = devPort, devSession' = devSession, devSession # 0,
           NEW f \in PacketFlag, NEW id \in PacketId, NEW start \in PacketId,
           NEW ackId \in PacketId, NEW payload \in Payloads
    PROVE  SpokenDatagram(FromDevice(f, id, start, ackId, payload), f, id, start, ackId, payload)
<1>1. /\ devPort' \in greeted /\ devSession' \in Sessions /\ greeted \subseteq Nat
  BY DEF LinkTypeInv, LinkTypeOK, Introduced, TypeOK
<1>2. FromDevice(f, id, start, ackId, payload) \in ToChild
  BY <1>1, FromDeviceTypes
<1> QED
  BY <1>2 DEF FromDevice, SpokenDatagram

\* The device's next packet, the repetition of its acknowledgement, a new one, or a request.
LEMMA SendEffect ==
    ASSUME LinkTypeInv, DevSend
    PROVE  /\ devSent - devAcked < Window /\ devSent' = devSent + 1 /\ devSent' \in 1 .. MaxDevSends
           /\ UNCHANGED <<devAcked, devRecv, executed, history>>
           /\ \E m : /\ DeviceSpeaks(m)
                     /\ SpokenDatagram(m, "AckRequest", devSent' % MaxPacketId, 0, 0,
                                       IF devSent' \in KeepAlives THEN 0 ELSE devSent')
<1> DEFINE payload == IF devSent' \in KeepAlives THEN 0 ELSE devSent'
           m == FromDevice("AckRequest", devSent' % MaxPacketId, 0, 0, payload)
<1>1. /\ devSession # 0 /\ devSent < MaxDevSends /\ devSent - devAcked < Window
      /\ devSent' = devSent + 1
      /\ UNCHANGED <<devSession, devPort, devSessions, devAcked, devRecv, executed>>
      /\ toChild' = {d \in toChild \union {m} : StillToChild(d)}
      /\ UNCHANGED <<childVars, toDevice, history>>
  BY DEF DevSend, DeviceSends
<1>2. devSent' \in 1 .. MaxDevSends
  <2>1. devSent \in Nat /\ MaxDevSends \in Nat
    BY DEF LinkTypeInv, LinkTypeOK
  <2> QED
    BY <1>1, <2>1
<1>3. payload \in Payloads /\ devSent' % MaxPacketId \in PacketId /\ 0 \in PacketId
      /\ "AckRequest" \in PacketFlag
  <2>1. payload \in Payloads
    BY <1>2
  <2>2. devSent' \in Int
    BY <1>2
  <2>3. devSent' % MaxPacketId \in PacketId
    BY <2>2, IdsOfNumbers
  <2> QED
    BY <2>1, <2>3 DEF PacketId, PacketFlag
<1> HIDE DEF payload
<1>4. SpokenDatagram(m, "AckRequest", devSent' % MaxPacketId, 0, 0, payload)
  BY <1>1, <1>3, SpokenTypes
<1>5. m.flags = {"AckRequest"}
  BY <1>4 DEF SpokenDatagram
<1> HIDE DEF m
<1>6. DeviceSpeaks(m)
  BY <1>1, <1>4, <1>5 DEF SpokenDatagram, DeviceSpeaks, IsHelloAnswer
<1> QED
  BY <1>1, <1>2, <1>4, <1>6 DEF payload

\* The device's reply to a packet: accepted, received before, or not the next one.
LEMMA ReplyEffect ==
    ASSUME LinkTypeInv, DevReceiveCommand
    PROVE  /\ UNCHANGED <<devSent, devAcked, history>>
           /\ \E d \in toDevice : \E m :
                /\ d.kind = "command" /\ ForSession(d) /\ DeviceSpeaks(m)
                /\ \/ /\ d.packetId = NextPacketId(devRecv) /\ devRecv' = d.packetId
                      /\ executed' = Append(executed, d.trackingId)
                      /\ SpokenDatagram(m, "AckReply", 0, 0, d.packetId, 0)
                   \/ /\ devRecv' = devRecv /\ executed' = executed
                      /\ \/ SpokenDatagram(m, "AckReply", 0, 0, devRecv, 0)
                         \/ SpokenDatagram(m, "RetransmitRequest", 0, NextPacketId(devRecv), 0, 0)
<1>1. PICK d \in toDevice :
         /\ d.kind = "command" /\ ForSession(d)
         /\ UNCHANGED <<devSession, devPort, devSessions, devSent, devAcked>>
         /\ UNCHANGED <<childVars, toDevice, history>>
         /\ \/ /\ d.packetId = NextPacketId(devRecv) /\ devRecv' = d.packetId
               /\ executed' = Append(executed, d.trackingId)
               /\ DeviceSends({FromDevice("AckReply", 0, 0, d.packetId, 0)})
            \/ /\ devRecv' = devRecv /\ executed' = executed
               /\ \/ DeviceSends({FromDevice("AckReply", 0, 0, devRecv, 0)})
                  \/ DeviceSends({FromDevice("RetransmitRequest", 0, NextPacketId(devRecv), 0, 0)})
  BY DEF DevReceiveCommand
<1>2. d.packetId \in PacketId /\ devRecv \in PacketId /\ devSession # 0
  BY <1>1 DEF LinkTypeInv, LinkTypeOK, ToDevice, ForSession
<1>3. 0 \in PacketId /\ NextPacketId(devRecv) \in PacketId /\ 0 \in Payloads
      /\ "AckReply" \in PacketFlag /\ "RetransmitRequest" \in PacketFlag
  <2>1. NextPacketId(devRecv) \in PacketId
    BY <1>2, AdvanceIsPacketId
  <2> QED
    BY <2>1 DEF PacketId, PacketFlag
<1>4. ASSUME NEW m, NEW f \in {"AckReply", "RetransmitRequest"}, NEW a, NEW b, NEW c, NEW e,
             SpokenDatagram(m, f, a, b, c, e), DeviceSends({m})
      PROVE  DeviceSpeaks(m)
  BY <1>1, <1>2, <1>4 DEF SpokenDatagram, DeviceSends, DeviceSpeaks, IsHelloAnswer
<1>5. CASE /\ d.packetId = NextPacketId(devRecv) /\ devRecv' = d.packetId
           /\ executed' = Append(executed, d.trackingId)
           /\ DeviceSends({FromDevice("AckReply", 0, 0, d.packetId, 0)})
  <2> DEFINE m == FromDevice("AckReply", 0, 0, d.packetId, 0)
  <2>1. SpokenDatagram(m, "AckReply", 0, 0, d.packetId, 0)
    BY <1>1, <1>2, <1>3, SpokenTypes
  <2> HIDE DEF m
  <2>2. DeviceSpeaks(m)
    BY <1>4, <1>5, <2>1 DEF m
  <2> QED
    BY <1>1, <1>5, <2>1, <2>2
<1>6. CASE /\ devRecv' = devRecv /\ executed' = executed
           /\ DeviceSends({FromDevice("AckReply", 0, 0, devRecv, 0)})
  <2> DEFINE m == FromDevice("AckReply", 0, 0, devRecv, 0)
  <2>1. SpokenDatagram(m, "AckReply", 0, 0, devRecv, 0)
    BY <1>1, <1>2, <1>3, SpokenTypes
  <2> HIDE DEF m
  <2>2. DeviceSpeaks(m)
    BY <1>4, <1>6, <2>1 DEF m
  <2> QED
    BY <1>1, <1>6, <2>1, <2>2
<1>7. CASE /\ devRecv' = devRecv /\ executed' = executed
           /\ DeviceSends({FromDevice("RetransmitRequest", 0, NextPacketId(devRecv), 0, 0)})
  <2> DEFINE m == FromDevice("RetransmitRequest", 0, NextPacketId(devRecv), 0, 0)
  <2>1. SpokenDatagram(m, "RetransmitRequest", 0, NextPacketId(devRecv), 0, 0)
    BY <1>1, <1>2, <1>3, SpokenTypes
  <2> HIDE DEF m
  <2>2. DeviceSpeaks(m)
    BY <1>4, <1>7, <2>1 DEF m
  <2> QED
    BY <1>1, <1>7, <2>1, <2>2
<1> QED
  BY <1>1, <1>5, <1>6, <1>7

\* Answers to a HELLO outlive what the device sends.
LEMMA AnswersStay ==
    ASSUME LinkTypeInv, NEW m, DeviceSpeaks(m)
    PROVE  Answers' = Answers
<1>1. \A d \in Answers : d.flags = {"NewSessionId"}
  BY DEF Answers, IsHelloAnswer, LinkTypeInv, LinkTypeOK, ToChild
<1>2. \A d \in Answers : StillToChild(d)
  BY <1>1 DEF StillToChild
<1> QED
  BY <1>2 DEF Answers, DeviceSpeaks, IsHelloAnswer

\* The device's steps keep to one session at a time.
LEMMA DeviceSessions ==
    ASSUME ~LateHello, LinkBase, DeviceStep
    PROVE  SessionInv'
<1>1. /\ devSession \in Nat /\ devSessions \in Nat /\ sessionId \in Nat
  BY DEF LinkBase, LinkTypeInv, LinkTypeOK, TypeOK
<1>2. SessionsGrow /\ AnswerIsNew /\ SameSession
  BY DEF LinkBase, SessionInv
<1>3. ASSUME NEW m, DeviceSpeaks(m)
      PROVE  SessionInv'
  <2>1. Answers' = Answers
    BY <1>3, AnswersStay DEF LinkBase
  <2>2. /\ UNCHANGED <<connectionState, socket, openSockets, sessionId, inFlight>>
        /\ UNCHANGED <<toDevice, devSession, devPort, devSessions>>
        /\ toChild' \subseteq toChild \union {m}
        /\ devSession # 0 /\ m.port = devPort /\ m.session = devSession /\ ~IsHelloAnswer(m)
    BY <1>3 DEF DeviceSpeaks, childVars, sockets, sender
  <2>3. SessionsGrow'
    BY <1>2, <2>2 DEF SessionsGrow
  <2>4. AnswerIsNew'
    BY <1>2, <2>1, <2>2 DEF AnswerIsNew, SocketOpen, IsHelloAnswer
  <2>5. SameSession'
    BY <1>2, <2>1, <2>2 DEF SameSession, Listening, Talking, SocketOpen
  <2> QED
    BY <2>3, <2>4, <2>5 DEF SessionInv
<1>4. CASE DevAnswerHello
  <2>1. PICK m : DeviceAnswers(m)
    BY <1>4, AnswerEffect
  <2>2. UNCHANGED <<connectionState, socket, openSockets, sessionId, inFlight, toDevice>>
    BY <2>1 DEF DeviceAnswers, childVars, sockets, sender
  <2>3. Answers' = {m}
    BY <2>1 DEF DeviceAnswers, Answers, IsHelloAnswer
  <2>4. \A e \in toDevice : e.kind # "hello" => e.session <= devSessions /\ e.session \in Nat
    <3>1. \A e \in toDevice : e.kind # "hello" => e.session \in Nat
      BY DEF LinkBase, LinkTypeInv, LinkTypeOK, ToDevice
    <3> QED
      BY <1>2, <3>1 DEF SessionsGrow
  <2>5. \A p \in inFlight : p.session <= devSessions /\ p.session \in Nat
    <3>1. \A p \in inFlight : p.session \in Nat
      BY DEF LinkBase, LinkTypeInv, TypeOK, InFlightPacket
    <3> QED
      BY <1>2, <3>1 DEF SessionsGrow
  <2>6. SessionsGrow'
    BY <1>1, <1>2, <2>1, <2>2, <2>4, <2>5 DEF SessionsGrow, DeviceAnswers
  <2>7. AnswerIsNew'
    BY <1>1, <1>2, <2>1, <2>2, <2>3, <2>4, <2>5 DEF SessionsGrow, DeviceAnswers, AnswerIsNew, SocketOpen
  <2>8. SameSession'
    BY <2>3 DEF SameSession, Listening
  <2> QED
    BY <2>6, <2>7, <2>8 DEF SessionInv
<1>5. CASE DevSend
  BY <1>3, <1>5, SendEffect DEF LinkBase
<1>6. CASE DevReceiveCommand
  BY <1>3, <1>6, ReplyEffect DEF LinkBase
<1>7. CASE DevReceiveAck \/ DevForget
  <2>1. /\ UNCHANGED <<connectionState, socket, openSockets, sessionId, inFlight>>
        /\ UNCHANGED <<toDevice, toChild, devSessions>>
        /\ devSession' \in {0, devSession} /\ (devSession' # 0 => devPort' = devPort)
    BY <1>7 DEF DevReceiveAck, DevForget, childVars, sockets, sender
  <2>2. Answers' = Answers
    BY <2>1 DEF Answers, IsHelloAnswer
  <2>3. SessionsGrow'
    BY <1>1, <1>2, <2>1 DEF SessionsGrow
  <2>4. AnswerIsNew'
    BY <1>2, <2>1, <2>2 DEF AnswerIsNew, SocketOpen, IsHelloAnswer
  <2>5. SameSession'
    BY <1>2, <2>1, <2>2 DEF SameSession, Listening, Talking, SocketOpen
  <2> QED
    BY <2>3, <2>4, <2>5 DEF SessionInv
<1> QED
  BY <1>4, <1>5, <1>6, <1>7 DEF DeviceStep

\* A session begins.
Starts(d) ==
    /\ connectionState' = "Established"
    /\ UNCHANGED <<socket, openSockets, restarting, nextSendPacketId, inFlight, order>>
    /\ sessionId' = d.session /\ lastReceivedPacketId' = d.packetId
    /\ sending' = {Ack(socket, d.session, d.packetId)}

\* A datagram that is received begins a session, or belongs to the one begun.
LEMMA ReceiveEffect ==
    ASSUME ~LateHello, LinkBase, NEW d \in toChild, InTurn(d), ReceivePacket(d)
    PROVE  \/ d \in Answers /\ Starts(d) /\ ~ProcessPacket(d)
           \/ /\ Listening /\ d.port = socket /\ d.session = sessionId /\ ProcessPacket(d)
              /\ \/ (Abandoned \/ Quiet) /\ (~IsNext(d)) /\ AckedPackets(d) = {}
                 \/ Accepted(d) /\ IsNext(d) /\ AckedPackets(d) = {}
                 \/ Settled(d) /\ (~IsNext(d)) /\ "AckReply" \in d.flags
<1>1. d.port = socket /\ SocketOpen
  <2>1. d.port \in openSockets /\ openSockets \subseteq {socket} /\ SocketOpen
    BY DEF ReceivePacket, LinkBase, RestInv, Rested, NoOrphanSocket
  <2> QED
    BY <2>1
<1>2. CASE IsHelloAnswer(d)
  <2>1. StartSession(d) /\ sessionId' = d.session /\ ~ProcessPacket(d)
    BY <1>2 DEF ReceivePacket, IgnorePacket, ProcessPacket, IsHelloAnswer
  <2> QED
    BY <1>2, <2>1 DEF Answers, StartSession, StartSequence, Starts, sockets, sender
<1>3. CASE ~IsHelloAnswer(d)
  <2>1. Answers = {}
    BY <1>3 DEF InTurn, Answers
  <2>2. Listening /\ d.session = sessionId
    BY <1>1, <2>1 DEF LinkBase, SessionInv, SameSession, Listening
  <2>3. d \in ToChild /\ d.port \in greeted
    BY DEF LinkBase, LinkTypeInv, LinkTypeOK, Introduced
  <2> QED
    BY <1>1, <1>3, <2>2, <2>3, ProcessEffect DEF LinkBase, Listening, IsHelloAnswer
<1> QED
  BY <1>2, <1>3

\* What the child does not decide.
DeviceWaits == UNCHANGED <<devSession, devPort, devSessions>>

\* Packets in flight are of sessions heard of.
OldSessions == \A p \in inFlight' : p.session = sessionId \/ \E q \in inFlight : p.session = q.session

\* The child stays in its session, or in none.
LEMMA StaySessions ==
    ASSUME LinkBase, DeviceWaits, Carry(toChild), OldSessions,
           UNCHANGED <<connectionState, socket, openSockets, sessionId>>,
           \A d \in sending' : d.kind # "hello" =>
               d.session = sessionId \/ \E q \in inFlight : d.session = q.session
    PROVE  SessionInv'
<1>1. SessionsGrow /\ AnswerIsNew /\ SameSession
  BY DEF LinkBase, SessionInv
<1>2. /\ toDevice' \subseteq toDevice \union sending' /\ \A d \in toDevice' : d.port \in openSockets'
      /\ toChild' = {d \in toChild : d.port \in openSockets}
  BY DEF Carry, StillToDevice
<1>3. Answers' \subseteq Answers
  BY <1>2 DEF Answers, IsHelloAnswer
<1>4. Answers # {} => Answers' # {}
  BY <1>1, <1>2 DEF AnswerIsNew, Answers, IsHelloAnswer, SocketOpen
<1>5. SessionsGrow'
  <2>1. \A d \in toDevice' : d.kind # "hello" => d.session <= devSessions
    BY <1>1, <1>2 DEF SessionsGrow
  <2>2. \A p \in inFlight' : p.session <= devSessions
    BY <1>1 DEF SessionsGrow, OldSessions
  <2> QED
    BY <1>1, <1>2, <2>1, <2>2 DEF SessionsGrow, DeviceWaits
<1>6. AnswerIsNew'
  <2>1. SUFFICES ASSUME NEW d \in Answers'
                 PROVE  /\ d.port = socket /\ SocketOpen /\ d.packetId = 0
                        /\ devSession # 0 => devSession = d.session /\ devPort = socket
                        /\ sessionId < d.session /\ d.session <= devSessions
                        /\ \A e \in toChild' : /\ e.port = socket /\ e.session = d.session
                                               /\ IsHelloAnswer(e) => e = d
                        /\ \A e \in toDevice' : e.kind # "hello" => e.session < d.session
                        /\ \A p \in inFlight' : p.session < d.session
    BY DEF AnswerIsNew, DeviceWaits, SocketOpen, IsHelloAnswer
  <2>2. d \in Answers
    BY <1>3
  <2>3. \A p \in inFlight' : p.session < d.session
    BY <1>1, <2>2 DEF AnswerIsNew, OldSessions
  <2>4. \A e \in toDevice' : e.kind # "hello" => e.session < d.session
    BY <1>1, <1>2, <2>2 DEF AnswerIsNew
  <2> QED
    BY <1>1, <1>2, <2>2, <2>3, <2>4 DEF AnswerIsNew
<1>7. SameSession'
  BY <1>1, <1>2, <1>3, <1>4 DEF SameSession, Listening, Talking, SocketOpen, DeviceWaits
<1> QED
  BY <1>5, <1>6, <1>7 DEF SessionInv

\* The child leaves its session, or goes on without one: it says HELLO, on the same socket or
\* on a new one, or turns to a new one, or closes what it has.
LEMMA LeaveSessions ==
    ASSUME LinkBase, DeviceWaits, Carry(toChild), OldSessions,
           sessionId' \in {0, sessionId}, \A d \in sending' : d.kind = "hello",
           \/ /\ connectionState # "Established" /\ connectionState' # "Established"
              /\ UNCHANGED <<socket, openSockets>> /\ inFlight' = {} /\ sessionId' = 0
           \/ socket' = socket + 1 /\ openSockets' = {socket + 1} /\ connectionState' # "Established"
           \/ openSockets' = {}
    PROVE  SessionInv'
<1>1. SessionsGrow /\ AnswerIsNew /\ SameSession
  BY DEF LinkBase, SessionInv
<1>2. /\ toDevice' \subseteq toDevice \union sending' /\ \A d \in toDevice' : d.port \in openSockets'
      /\ toChild' = {d \in toChild : d.port \in openSockets'}
  BY DEF Carry, StillToDevice
<1>3. /\ sessionId \in Nat /\ devSessions \in Nat /\ socket \in Nat
      /\ \A d \in toChild : d.port \in 1 .. socket /\ d.session \in Nat
      /\ devSession # 0 => devPort \in 1 .. socket
  BY DEF LinkBase, LinkTypeInv, LinkTypeOK, Introduced, TypeOK, ToChild
<1>4. SessionsGrow'
  <2>1. \A d \in toDevice' : d.kind # "hello" => d.session <= devSessions
    BY <1>1, <1>2 DEF SessionsGrow
  <2>2. \A p \in inFlight' : p.session <= devSessions
    BY <1>1 DEF SessionsGrow, OldSessions
  <2>3. sessionId' <= devSessions
    BY <1>1, <1>3 DEF SessionsGrow
  <2> QED
    BY <1>1, <1>2, <2>1, <2>2, <2>3 DEF SessionsGrow, DeviceWaits
<1>5. CASE socket' = socket + 1 /\ openSockets' = {socket + 1} /\ connectionState' # "Established"
  <2>1. toChild' = {} /\ socket + 1 \notin 1 .. socket
    BY <1>2, <1>3, <1>5
  <2>2. ~Talking'
    BY <1>3, <1>5, <2>1 DEF Talking, DeviceWaits
  <2>3. AnswerIsNew' /\ SameSession'
    BY <1>5, <2>1, <2>2 DEF AnswerIsNew, SameSession, Answers, Listening
  <2> QED
    BY <1>4, <2>3 DEF SessionInv
<1>6. CASE openSockets' = {}
  <2>1. toChild' = {} /\ ~SocketOpen'
    BY <1>2, <1>6 DEF SocketOpen
  <2>2. AnswerIsNew' /\ SameSession'
    BY <2>1 DEF AnswerIsNew, SameSession, Answers, Listening
  <2> QED
    BY <1>4, <2>2 DEF SessionInv
<1>7. CASE /\ connectionState # "Established" /\ connectionState' # "Established"
           /\ UNCHANGED <<socket, openSockets>> /\ inFlight' = {} /\ sessionId' = 0
  <2>1. Answers' \subseteq Answers /\ (Answers # {} => Answers' # {})
    BY <1>1, <1>2, <1>7 DEF AnswerIsNew, Answers, IsHelloAnswer, SocketOpen
  <2>2. SameSession'
    BY <1>1, <1>2, <1>7, <2>1 DEF SameSession, Listening, Talking, SocketOpen, DeviceWaits
  <2>3. \A d \in Answers' : 0 < d.session
    <3>1. \A d \in Answers : sessionId < d.session /\ d.session \in Nat
      BY <1>1, <1>3 DEF AnswerIsNew, Answers
    <3> QED
      BY <1>3, <2>1, <3>1
  <2>4. AnswerIsNew'
    BY <1>1, <1>2, <1>7, <2>1, <2>3 DEF AnswerIsNew, SocketOpen, IsHelloAnswer, DeviceWaits
  <2> QED
    BY <1>4, <2>2, <2>4 DEF SessionInv
<1> QED
  BY <1>5, <1>6, <1>7

\* The child begins the session the device told it of.
LEMMA StartSessions ==
    ASSUME LinkBase, DeviceWaits, NEW d \in Answers, Starts(d), Carry(toChild \ {d})
    PROVE  SessionInv' /\ Answers' = {}
<1>1. SessionsGrow /\ AnswerIsNew
  BY DEF LinkBase, SessionInv
<1>2. /\ toDevice' \subseteq toDevice \union sending' /\ \A e \in toDevice' : e.port \in openSockets'
      /\ toChild' \subseteq toChild \ {d}
  BY DEF Carry, StillToDevice
<1>3. Answers' = {}
  BY <1>1, <1>2 DEF AnswerIsNew, Answers, IsHelloAnswer
<1>4. \A e \in sending' : e.session = d.session
  BY DEF Starts, Ack
<1>5. SessionsGrow'
  BY <1>1, <1>2, <1>4 DEF SessionsGrow, AnswerIsNew, Starts, DeviceWaits
<1>6. AnswerIsNew'
  BY <1>3 DEF AnswerIsNew
<1>7. SameSession'
  BY <1>1, <1>2 DEF AnswerIsNew, Starts, SameSession, Talking, DeviceWaits
<1> QED
  BY <1>3, <1>5, <1>6, <1>7 DEF SessionInv

\* Repetitions are of sessions heard of.
LEMMA RepeatedSessions ==
    ASSUME Repeats
    PROVE  \A d \in sending' : d.kind # "hello" =>
               d.session = sessionId \/ \E q \in inFlight : d.session = q.session
  BY DEF Repeats, Ack, Command

\* So do the child's.
LEMMA ChildSessions ==
    ASSUME ~Overlap, ~SlowParent, ~LateHello, LinkBase,
           LinkSendPackets \/ LinkReceivePacket \/ LinkChildAlone
    PROVE  SessionInv'
<1>1. ASSUME ChildAlone \/ \E d \in toChild : ReceivePacket(d)
      PROVE  OldSessions
  BY <1>1, OldPackets DEF LinkBase, LinkTypeInv, SamePacket, OldSessions
<1>2. ASSUME Dialled \/ Abandoned \/ ClosedDown, DeviceWaits, Carry(toChild), OldSessions
      PROVE  SessionInv'
  <2>1. \A d \in sending' : d.kind = "hello"
    BY <1>2 DEF Dialled, Abandoned, ClosedDown, Hello
  <2>2. sessionId' \in {0, sessionId}
    BY <1>2 DEF Dialled, Abandoned, ClosedDown
  <2>3. \/ /\ connectionState # "Established" /\ connectionState' # "Established"
           /\ UNCHANGED <<socket, openSockets>> /\ inFlight' = {} /\ sessionId' = 0
        \/ socket' = socket + 1 /\ openSockets' = {socket + 1} /\ connectionState' # "Established"
        \/ openSockets' = {}
    BY <1>2 DEF Dialled, Abandoned, ClosedDown
  <2> QED
    BY <1>2, <2>1, <2>2, <2>3, LeaveSessions
<1>3. ASSUME Quiet, DeviceWaits, Carry(toChild), OldSessions
      PROVE  SessionInv'
  BY <1>3, StaySessions, RepeatedSessions DEF Quiet
<1>4. CASE LinkChildAlone
  <2>1. ChildAlone /\ DeviceWaits /\ Carry(toChild)
    BY <1>4 DEF LinkChildAlone, Alone, deviceVars, DeviceWaits
  <2>2. Dialled \/ Abandoned \/ ClosedDown \/ Quiet
    BY <2>1, AloneEffect DEF LinkBase
  <2> QED
    BY <1>1, <1>2, <1>3, <2>1, <2>2
<1>5. CASE LinkReceivePacket
  <2>1. PICK d \in toChild : /\ InTurn(d) /\ ReceivePacket(d) /\ Carry(AfterDelivery(d))
                             /\ UNCHANGED deviceVars
    BY <1>5 DEF LinkReceivePacket
  <2>2. DeviceWaits /\ OldSessions
    BY <1>1, <2>1 DEF deviceVars, DeviceWaits
  <2>3. CASE d \in Answers /\ Starts(d)
    <3>1. Carry(toChild \ {d})
      BY <2>1, <2>3 DEF AfterDelivery, Answers
    <3> QED
      BY <2>2, <2>3, <3>1, StartSessions
  <2>4. CASE Listening /\ (Abandoned \/ Quiet \/ Accepted(d) \/ Settled(d))
    <3>1. ~IsHelloAnswer(d)
      BY <2>4 DEF Listening, Answers
    <3>2. Carry(toChild)
      BY <2>1, <3>1 DEF AfterDelivery
    <3>3. CASE Accepted(d) \/ Settled(d)
      <4>1. \A e \in sending' : e.session = sessionId
        BY <3>3 DEF Accepted, Settled, Ack
      <4> QED
        BY <2>2, <3>2, <3>3, <4>1, StaySessions DEF Accepted, Settled
    <3> QED
      BY <1>2, <1>3, <2>2, <2>4, <3>2, <3>3
  <2> QED
    BY <2>1, <2>3, <2>4, ReceiveEffect
<1>6. CASE LinkSendPackets
  <2>1. PICK n \in 1 .. MaxBatch : SendPackets([i \in 1 .. n |-> commands + i])
    BY <1>6 DEF LinkSendPackets
  <2>2. DeviceWaits /\ Carry(toChild)
    BY <1>6 DEF LinkSendPackets, deviceVars, DeviceWaits
  <2>3. UNCHANGED <<connectionState, socket, openSockets, sessionId>>
    BY <2>1, <1>6 DEF SendPackets, sockets
  <2>4. sessionId' = sessionId
    BY <2>3
  <2>5. PICK new : inFlight' = inFlight \union new /\ sending' = {Command(socket, p) : p \in new}
                   /\ \A p \in new : p.session = sessionId
    <3>1. n \in Nat /\ commands \in Nat
      BY DEF LinkBase, LinkTypeInv, LinkTypeOK
    <3>2. CASE SocketOpen
      <4>1. PICK new : SentPackets(n, new)
        BY <2>1, <3>1, <3>2, NewPackets DEF LinkBase, LinkTypeInv
      <4> QED
        BY <4>1 DEF SentPackets
    <3>3. CASE ~SocketOpen
      <4>1. inFlight' = inFlight \union {} /\ sending' = {Command(socket, p) : p \in {}}
        BY <2>1, <3>1, <3>3, NewPackets DEF LinkBase, LinkTypeInv
      <4> QED
        BY <4>1
    <3> QED
      BY <3>2, <3>3
  <2>6. OldSessions /\ \A d \in sending' : d.session = sessionId
    BY <2>5 DEF OldSessions, Command
  <2> QED
    BY <2>2, <2>3, <2>6, StaySessions
<1> QED
  BY <1>4, <1>5, <1>6

\* A packet or an acknowledgement for the device's session was sent in it, and both ends
\* know of it.
LEMMA HeardByBoth ==
    ASSUME LinkBase, NEW d \in toDevice, d.kind # "hello", ForSession(d)
    PROVE  Talking /\ Listening
<1>1. Talking /\ SocketOpen
  <2>1. d.port \in openSockets /\ openSockets \subseteq {socket}
    BY DEF LinkBase, SessionInv, SessionsGrow, RestInv, Rested, NoOrphanSocket
  <2> QED
    BY <2>1 DEF ForSession, Talking, SocketOpen
<1>2. Answers = {}
  <2>1. \A a \in Answers : d.session < a.session /\ devSession = a.session /\ a.session \in Nat
    BY <1>1 DEF LinkBase, SessionInv, AnswerIsNew, Talking, ToChild, LinkTypeInv, LinkTypeOK, Answers
  <2> QED
    BY <2>1 DEF ForSession
<1> QED
  BY <1>1, <1>2 DEF LinkBase, SessionInv, SameSession, Listening

\* The device acknowledges nothing before a session has begun.
LEMMA DeviceUnheard ==
    ASSUME ~LateHello, LinkBase, DeviceStep
    PROVE  Unheard'
<1>1. SUFFICES ASSUME SocketOpen, connectionState # "Established"
               PROVE  /\ \A d \in toChild' : d.port = socket => "AckReply" \notin d.flags
                      /\ Talking' => devRecv' = 0
  <2>1. UNCHANGED <<connectionState, socket, openSockets>>
    BY DEF DeviceStep, DevAnswerHello, DevSend, DevReceiveCommand, DevReceiveAck, DevForget,
       childVars, sockets
  <2> QED
    BY <2>1 DEF Unheard, SocketOpen
<1>2. /\ \A d \in toChild : d.port = socket => "AckReply" \notin d.flags
      /\ Talking => devRecv = 0
  BY <1>1 DEF LinkBase, Unheard
<1>3. CASE DevAnswerHello
  BY <1>3 DEF DevAnswerHello, FromDevice
<1>4. CASE DevSend
  <2>1. /\ devRecv' = devRecv /\ UNCHANGED <<devSession, devPort, socket>>
        /\ \A d \in toChild' : d \in toChild \/ d.flags = {"AckRequest"}
    BY <1>4 DEF DevSend, DeviceSends, FromDevice, childVars, sockets
  <2> QED
    BY <1>2, <2>1 DEF Talking
<1>5. CASE DevReceiveCommand
  <2>1. PICK d \in toDevice : d.kind = "command" /\ ForSession(d)
    BY <1>5 DEF DevReceiveCommand
  <2> QED
    BY <1>1, <2>1, HeardByBoth DEF Listening
<1>6. CASE DevReceiveAck
  <2>1. UNCHANGED <<devRecv, devSession, devPort, toChild, socket>>
    BY <1>6 DEF DevReceiveAck, childVars, sockets
  <2> QED
    BY <1>2, <2>1 DEF Talking
<1>7. CASE DevForget
  BY <1>2, <1>7 DEF DevForget, Talking
<1> QED
  BY <1>3, <1>4, <1>5, <1>6, <1>7 DEF DeviceStep

\* Neither does a session begin, or a socket come into use, that the device has talked on.
LEMMA ChildUnheard ==
    ASSUME ~Overlap, ~SlowParent, ~LateHello, LinkBase,
           LinkSendPackets \/ LinkReceivePacket \/ LinkChildAlone
    PROVE  Unheard'
<1>1. /\ toChild' \subseteq toChild /\ UNCHANGED <<devSession, devPort, devRecv>>
  BY DEF LinkSendPackets, LinkReceivePacket, LinkChildAlone, Alone, Carry, AfterDelivery, deviceVars
<1>2. ASSUME UNCHANGED <<connectionState, socket, openSockets>> PROVE Unheard'
  BY <1>1, <1>2 DEF LinkBase, Unheard, Talking, SocketOpen
<1>3. ASSUME Dialled \/ Abandoned \/ ClosedDown PROVE Unheard'
  <2>1. CASE socket' = socket /\ openSockets' = openSockets /\ SocketOpen
             /\ connectionState # "Established"
    BY <1>1, <2>1 DEF LinkBase, Unheard, Talking
  <2>2. CASE socket' = socket + 1
    <3>1. \A d \in toChild : d.port \in 1 .. socket
      BY DEF LinkBase, LinkTypeInv, Introduced, TypeOK
    <3>2. socket \in Nat /\ (devSession # 0 => devPort \in 1 .. socket)
      BY DEF LinkBase, LinkTypeInv, Introduced, TypeOK
    <3>3. socket' \notin 1 .. socket
      BY <2>2, <3>2
    <3> QED
      BY <1>1, <3>1, <3>2, <3>3 DEF Unheard, Talking
  <2>3. CASE openSockets' = {}
    BY <2>3 DEF Unheard, SocketOpen
  <2> QED
    BY <1>3, <2>1, <2>2, <2>3 DEF Dialled, Abandoned, ClosedDown
<1>4. CASE LinkChildAlone
  <2>1. ChildAlone
    BY <1>4 DEF LinkChildAlone, Alone
  <2> QED
    BY <1>2, <1>3, <2>1, AloneEffect DEF LinkBase, Quiet
<1>5. CASE LinkReceivePacket
  <2>1. PICK d \in toChild : InTurn(d) /\ ReceivePacket(d)
    BY <1>5 DEF LinkReceivePacket
  <2>2. Starts(d) \/ Abandoned \/ Quiet \/ Accepted(d) \/ Settled(d)
    BY <2>1, ReceiveEffect
  <2>3. CASE Starts(d)
    BY <2>3 DEF Starts, Unheard
  <2> QED
    BY <1>2, <1>3, <2>2, <2>3 DEF Quiet, Accepted, Settled
<1>6. CASE LinkSendPackets
  <2>1. UNCHANGED <<connectionState, socket, openSockets>>
    BY <1>6 DEF LinkSendPackets, SendPackets, sockets
  <2> QED
    BY <1>2, <2>1
<1> QED
  BY <1>4, <1>5, <1>6

\* At the start there is no session.
LEMMA LinkBaseInit == LinkInit => LinkBase
<1> SUFFICES ASSUME LinkInit PROVE LinkBase
  OBVIOUS
<1>1. LinkTypeInv
  BY LinkTypeInit
<1>2. Init
  BY DEF LinkInit
<1>3. RestInv
  BY <1>2, RestedInit
<1>4. toDevice = {} /\ toChild = {} /\ inFlight = {} /\ sessionId = 0 /\ devSession = 0 /\ devSessions = 0
  BY <1>2 DEF LinkInit, Init
<1>5. SessionsGrow /\ AnswerIsNew /\ SameSession
  BY <1>4 DEF SessionsGrow, AnswerIsNew, SameSession, Answers, Talking
<1>6. Unheard
  BY <1>4 DEF Unheard, Talking
<1> QED
  BY <1>1, <1>3, <1>5, <1>6 DEF LinkBase, SessionInv

\* Every step keeps what the proofs start from.
LEMMA LinkBaseStep ==
    ASSUME ~Overlap, ~SlowParent, ~LateHello, LinkBase, [LinkNext]_linkVars
    PROVE  LinkBase'
<1>1. LinkTypeInv' /\ [Next]_childVars
  BY LinkTypeStep DEF LinkBase
<1>2. RestInv'
  BY <1>1, RestStep DEF LinkBase
<1>3. CASE UNCHANGED linkVars
  <2>1. UNCHANGED <<toDevice, toChild, inFlight, sessionId, devSession, devSessions, devPort,
                    socket, openSockets, connectionState>>
    BY <1>3 DEF linkVars, deviceVars, childVars, sockets, sender
  <2>2. Answers' = Answers
    BY <2>1 DEF Answers, IsHelloAnswer
  <2>4. Unheard'
    BY <1>3, <2>1 DEF LinkBase, Unheard, Talking, SocketOpen, linkVars, deviceVars
  <2>3. SessionsGrow' /\ AnswerIsNew' /\ SameSession'
    BY <2>1, <2>2 DEF LinkBase, SessionInv, SessionsGrow, AnswerIsNew, SameSession, Talking,
       Listening, SocketOpen, IsHelloAnswer
  <2> QED
    BY <1>1, <1>2, <2>3, <2>4 DEF LinkBase, SessionInv
<1>4. CASE LinkNext
  BY <1>1, <1>2, <1>4, DeviceSessions, ChildSessions, DeviceUnheard, ChildUnheard
     DEF LinkNext, LinkBase
<1> QED
  BY <1>3, <1>4

-----------------------------------------------------------------------------
(* From the device to the parent *)

\* Numbers of packets behind ids: of two less than a lap apart the distance is that of
\* their ids.
LEMMA RecentNumbers ==
    ASSUME NEW a \in Int, NEW n \in Int, 0 <= a - n, a - n < MaxPacketId
    PROVE  Recent(a % MaxPacketId, n % MaxPacketId) <=> a < n + Lifetime
<1>1. ((a % MaxPacketId) - (n % MaxPacketId)) % MaxPacketId = (a - n) % MaxPacketId
  BY IdsOfNumbers
<1>2. (a - n) % MaxPacketId = a - n
  <2>1. a - n \in Int /\ -MaxPacketId <= a - n /\ a - n < 2 * MaxPacketId
    OBVIOUS
  <2> DEFINE d == a - n
  <2>2. d \in Int /\ -MaxPacketId <= d /\ d < 2 * MaxPacketId /\ ~(d < 0) /\ d < MaxPacketId
    BY <2>1
  <2> HIDE DEF d
  <2>3. d % MaxPacketId = d
    BY <2>2, ModWithinLap
  <2> QED
    BY <2>3 DEF d
<1> DEFINE r == ((a % MaxPacketId) - (n % MaxPacketId)) % MaxPacketId
<1>3. r = a - n
  BY <1>1, <1>2
<1>4. Recent(a % MaxPacketId, n % MaxPacketId) <=> r < Lifetime
  BY DEF Recent
<1> HIDE DEF r
<1> QED
  BY <1>3, <1>4

\* What the bounds mean: packets under way and packets in flight stay within half a lap.
LEMMA WithinLap ==
    /\ MaxPacketId \in Nat /\ Window \in Nat /\ Lifetime \in Nat /\ Tolerance \in Nat
    /\ 1 <= Window /\ Window <= Lifetime /\ Window + Lifetime <= Tolerance + 1
    /\ MaxPacketId = 2 * Tolerance /\ 2 <= Tolerance
<1>1. Tolerance \in Nat /\ MaxPacketId = 2 * Tolerance
  BY ToleranceIsHalf
<1> QED
  BY <1>1

PayloadOf(n) == IF n \in KeepAlives THEN 0 ELSE n

\* The parent was given what the device sent as its packets 1 .. got.
Received(got) ==
    /\ \A i \in DOMAIN delivered : /\ delivered[i] \in 1 .. got \ KeepAlives
                                   /\ Cardinality(1 .. delivered[i] \ KeepAlives) = i
    /\ \A n \in 1 .. got \ KeepAlives : \E i \in DOMAIN delivered : delivered[i] = n
    /\ Len(delivered) = Cardinality(1 .. got \ KeepAlives)

\* The device has sent its packets 1 .. sent; what is under way to the child are the
\* last of them.
Incoming(got, sent) ==
    /\ got <= sent /\ sent <= got + Window
    /\ \A d \in toChild : d.port = socket /\ "AckRequest" \in d.flags =>
          \E n \in 1 .. sent : /\ sent < n + Lifetime /\ d.packetId = n % MaxPacketId
                               /\ d.payload = PayloadOf(n)
    /\ Talking => sent = devSent /\ devAcked <= got

\* What is under way to the device acknowledges what was received.
AcksOf(got) ==
    \A d \in toDevice : d.kind = "ack" /\ ForSession(d) =>
       \E n \in 0 .. got : got < n + Lifetime /\ d.ackId = n % MaxPacketId

Receiving(got, sent) ==
    /\ Received(got)
    /\ InSession => devAcked <= got
    /\ Listening => /\ lastReceivedPacketId = got % MaxPacketId
                    /\ Incoming(got, sent) /\ AcksOf(got)
    /\ Answers # {} => Incoming(0, sent)

ReceiveInv == \E got, sent \in Nat : Receiving(got, sent)

\* One packet more was received.
LEMMA ReceivedNext ==
    ASSUME NEW got \in Nat, Received(got), delivered \in Seq(Nat),
           delivered' = IF got + 1 \in KeepAlives THEN delivered ELSE Append(delivered, got + 1)
    PROVE  Received(got + 1)'
<1> DEFINE news(n) == 1 .. n \ KeepAlives
<1>1. \A n \in Nat : IsFiniteSet(news(n))
  <2>1. \A n \in Nat : IsFiniteSet(1 .. n)
    BY FS_Interval
  <2> QED
    BY <2>1, FS_Difference
<1>2. /\ \A i \in DOMAIN delivered : /\ delivered[i] \in news(got)
                                     /\ Cardinality(news(delivered[i])) = i
      /\ \A n \in news(got) : \E i \in DOMAIN delivered : delivered[i] = n
      /\ Len(delivered) = Cardinality(news(got))
  BY DEF Received
<1>3. CASE got + 1 \in KeepAlives
  <2>1. news(got + 1) = news(got)
    BY <1>3
  <2> HIDE DEF news
  <2>2. /\ \A i \in DOMAIN delivered : /\ delivered[i] \in news(got + 1)
                                       /\ Cardinality(news(delivered[i])) = i
        /\ \A n \in news(got + 1) : \E i \in DOMAIN delivered : delivered[i] = n
        /\ Len(delivered) = Cardinality(news(got + 1)) /\ delivered' = delivered
    BY <1>2, <1>3, <2>1
  <2> QED
    BY <2>2 DEF Received, news
<1>4. CASE got + 1 \notin KeepAlives
  <2>1. news(got + 1) = news(got) \union {got + 1} /\ got + 1 \notin news(got)
    BY <1>4
  <2> HIDE DEF news
  <2>2. Cardinality(news(got + 1)) = Cardinality(news(got)) + 1
    BY <1>1, <2>1, FS_AddElement
  <2>3. /\ delivered' = Append(delivered, got + 1) /\ Len(delivered) \in Nat
        /\ Len(delivered') = Len(delivered) + 1
        /\ DOMAIN delivered' = 1 .. Len(delivered) + 1 /\ DOMAIN delivered = 1 .. Len(delivered)
        /\ \A i \in 1 .. Len(delivered) : delivered'[i] = delivered[i]
        /\ delivered'[Len(delivered) + 1] = got + 1
    BY <1>4, AppendProperties, LenProperties
  <2>4. /\ \A i \in DOMAIN delivered' : /\ delivered'[i] \in news(got + 1)
                                        /\ Cardinality(news(delivered'[i])) = i
    BY <1>2, <2>1, <2>2, <2>3
  <2>5. \A n \in news(got + 1) : \E i \in DOMAIN delivered' : delivered'[i] = n
    BY <1>2, <2>1, <2>3
  <2>6. Len(delivered') = Cardinality(news(got + 1))
    BY <1>2, <2>2, <2>3
  <2> QED
    BY <2>4, <2>5, <2>6 DEF Received, news
<1> QED
  BY <1>3, <1>4

\* Nothing was received yet.
LEMMA ReceivedNothing == delivered' = <<>> => Received(0)'
<1> SUFFICES ASSUME delivered' = <<>> PROVE Received(0)'
  OBVIOUS
<1>1. 1 .. 0 \ KeepAlives = {} /\ Cardinality({}) = 0
  BY FS_EmptySet
<1>2. DOMAIN delivered' = {} /\ Len(delivered') = 0
  OBVIOUS
<1> QED
  BY <1>1, <1>2 DEF Received

\* A packet that is sent joins those under way, and drives out those that are too old.
LEMMA IncomingNext ==
    ASSUME LinkTypeInv, NEW got \in Nat, NEW sent \in Nat, Incoming(got, sent),
           NEW m, DeviceSpeaks(m), Talking, devSent - devAcked < Window, devSent' = devSent + 1,
           devAcked' = devAcked,
           SpokenDatagram(m, "AckRequest", devSent' % MaxPacketId, 0, 0,
                          IF devSent' \in KeepAlives THEN 0 ELSE devSent')
    PROVE  Incoming(got, sent + 1)'
<1>1. /\ got <= sent /\ sent = devSent /\ devAcked <= got
      /\ \A d \in toChild : d.port = socket /\ "AckRequest" \in d.flags =>
          \E n \in 1 .. sent : /\ sent < n + Lifetime /\ d.packetId = n % MaxPacketId
                               /\ d.payload = PayloadOf(n)
  BY DEF Incoming
<1>2. devAcked \in Nat /\ got <= sent + 1 /\ sent + 1 <= got + Window
  <2>1. devAcked \in Nat
    BY DEF LinkTypeInv, LinkTypeOK
  <2> QED
    BY <1>1, <2>1, WithinLap
<1>3. /\ UNCHANGED <<socket, devSession, devPort>>
      /\ toChild' = {d \in toChild \union {m} : StillToChild(d)}
  BY DEF DeviceSpeaks, childVars, sockets
<1>4. m.packetId = (sent + 1) % MaxPacketId /\ m.payload = PayloadOf(sent + 1)
  BY <1>1 DEF SpokenDatagram, PayloadOf
<1>5. ASSUME NEW d \in toChild', d.port = socket, "AckRequest" \in d.flags
      PROVE  \E n \in 1 .. sent + 1 : /\ sent + 1 < n + Lifetime /\ d.packetId = n % MaxPacketId
                                      /\ d.payload = PayloadOf(n)
  <2>1. CASE d = m
    <3>1. sent + 1 \in 1 .. sent + 1 /\ sent + 1 < (sent + 1) + Lifetime
      BY WithinLap
    <3> QED
      BY <1>4, <2>1, <3>1
  <2>2. CASE d \in toChild
    <3>1. PICK n \in 1 .. sent : /\ sent < n + Lifetime /\ d.packetId = n % MaxPacketId
                                 /\ d.payload = PayloadOf(n)
      BY <1>1, <1>5, <2>2
    <3>2. Recent((sent + 1) % MaxPacketId, n % MaxPacketId)
      <4>1. Recent(devSent' % MaxPacketId, d.packetId)
        BY <1>3, <1>5 DEF StillToChild
      <4> QED
        BY <1>1, <3>1, <4>1
    <3>3. sent + 1 \in Int /\ n \in Int /\ 0 <= (sent + 1) - n /\ (sent + 1) - n < MaxPacketId
      BY <3>1, WithinLap
    <3>4. sent + 1 < n + Lifetime
      BY <3>2, <3>3, RecentNumbers
    <3>5. n \in 1 .. sent + 1
      BY <3>1
    <3> QED
      BY <3>1, <3>4, <3>5
  <2> QED
    BY <1>3, <1>5, <2>1, <2>2
<1> QED
  BY <1>1, <1>2, <1>3, <1>5 DEF Incoming, Talking

\* Other datagrams of the device, and packets to another socket, change nothing of it.
LEMMA IncomingSame ==
    ASSUME NEW got \in Nat, NEW sent \in Nat, Incoming(got, sent), NEW m, DeviceSpeaks(m),
           ~(m.port = socket /\ "AckRequest" \in m.flags),
           Talking => devSent' = devSent /\ devAcked' = devAcked
    PROVE  Incoming(got, sent)'
<1>1. /\ UNCHANGED <<socket, devSession, devPort>>
      /\ toChild' \subseteq toChild \union {m}
  BY DEF DeviceSpeaks, childVars, sockets
<1> QED
  BY <1>1 DEF Incoming, Talking

\* What the device says does not change what the child received and acknowledged.
LEMMA SpeakingKeeps ==
    ASSUME LinkTypeInv, NEW m, DeviceSpeaks(m), delivered' = delivered, devAcked' = devAcked,
           NEW got \in Nat
    PROVE  /\ Received(got)' = Received(got) /\ AcksOf(got)' = AcksOf(got)
           /\ InSession' = InSession /\ Listening' = Listening /\ Answers' = Answers
           /\ lastReceivedPacketId' = lastReceivedPacketId
<1>1. UNCHANGED <<connectionState, sessionId, socket, openSockets, lastReceivedPacketId, toDevice,
                  devSession, devPort>>
  BY DEF DeviceSpeaks, childVars, sockets, receiver
<1>2. Answers' = Answers
  BY AnswersStay
<1> QED
  BY <1>1, <1>2 DEF Received, AcksOf, ForSession, InSession, Listening, SocketOpen

\* The device's steps keep the account of what was received.
LEMMA DeviceReceiving ==
    ASSUME ~LateHello, LinkBase, ReceiveInv, DeviceStep
    PROVE  ReceiveInv'
<1>1. PICK got \in Nat, sent \in Nat : Receiving(got, sent)
  BY DEF ReceiveInv
<1>2. ASSUME NEW s \in Nat, Receiving(got, s)' PROVE ReceiveInv'
  BY <1>2 DEF ReceiveInv
<1>3. /\ LinkTypeInv /\ devSession \in Nat /\ devSessions \in Nat /\ sessionId \in Nat
      /\ devSent \in Nat /\ devAcked \in Nat /\ devSent <= devAcked + Window
  BY DEF LinkBase, LinkTypeInv, LinkTypeOK, TypeOK
<1>4. CASE DevAnswerHello
  <2>1. PICK m : DeviceAnswers(m)
    BY <1>4, AnswerEffect
  <2>2. delivered' = delivered /\ devSent' = 0 /\ devAcked' = 0
    BY <1>4 DEF DevAnswerHello, history
  <2>3. m.flags = {"NewSessionId"} /\ toChild' = {m}
    BY <2>1 DEF DeviceAnswers, IsHelloAnswer, ToChild
  <2>4. Incoming(0, 0)'
    BY <2>2, <2>3, WithinLap DEF Incoming
  <2>5. Answers' # {}
    BY <2>1, <2>3 DEF DeviceAnswers, Answers, IsHelloAnswer
  <2>6. ~InSession'
    <3>1. sessionId' = sessionId /\ devSession' = devSessions + 1 /\ sessionId <= devSessions
      BY <2>1 DEF DeviceAnswers, childVars, LinkBase, SessionInv, SessionsGrow
    <3>2. sessionId' # devSession'
      BY <1>3, <3>1
    <3> QED
      BY <3>2 DEF InSession
  <2>7. Received(got)'
    BY <1>1, <2>2 DEF Receiving, Received
  <2>8. Receiving(got, 0)'
    BY <2>4, <2>5, <2>6, <2>7 DEF Receiving, Listening
  <2> QED
    BY <1>2, <2>8
<1>5. CASE DevSend
  <2>1. /\ devSent - devAcked < Window /\ devSent' = devSent + 1 /\ devAcked' = devAcked
        /\ delivered' = delivered
    BY <1>3, <1>5, SendEffect DEF history
  <2>2. PICK m : /\ DeviceSpeaks(m)
                 /\ SpokenDatagram(m, "AckRequest", devSent' % MaxPacketId, 0, 0,
                                   IF devSent' \in KeepAlives THEN 0 ELSE devSent')
    BY <1>3, <1>5, SendEffect
  <2>3. /\ Received(got)' = Received(got) /\ AcksOf(got)' = AcksOf(got)
        /\ InSession' = InSession /\ Listening' = Listening /\ Answers' = Answers
        /\ lastReceivedPacketId' = lastReceivedPacketId
    BY <1>3, <2>1, <2>2, SpeakingKeeps
  <2>4. CASE Talking
    <3>1. ASSUME NEW g \in Nat, Incoming(g, sent) PROVE Incoming(g, sent + 1)'
      BY <1>3, <2>1, <2>2, <2>4, <3>1, IncomingNext
    <3>2. Receiving(got, sent + 1)'
      BY <1>1, <2>1, <2>3, <3>1 DEF Receiving
    <3> QED
      BY <1>2, <3>2
  <2>5. CASE ~Talking
    <3>1. m.port # socket
      BY <2>2, <2>5 DEF DeviceSpeaks, Talking
    <3>2. ASSUME NEW g \in Nat, Incoming(g, sent) PROVE Incoming(g, sent)'
      BY <2>2, <2>5, <3>1, <3>2, IncomingSame
    <3>3. Receiving(got, sent)'
      BY <1>1, <2>1, <2>3, <3>2 DEF Receiving
    <3> QED
      BY <1>2, <3>3
  <2> QED
    BY <2>4, <2>5
<1>6. CASE DevReceiveCommand
  <2>1. devSent' = devSent /\ devAcked' = devAcked /\ delivered' = delivered
    BY <1>3, <1>6, ReplyEffect DEF history
  <2>2. PICK m : DeviceSpeaks(m) /\ "AckRequest" \notin m.flags
    BY <1>3, <1>6, ReplyEffect DEF SpokenDatagram
  <2>3. /\ Received(got)' = Received(got) /\ AcksOf(got)' = AcksOf(got)
        /\ InSession' = InSession /\ Listening' = Listening /\ Answers' = Answers
        /\ lastReceivedPacketId' = lastReceivedPacketId
    BY <1>3, <2>1, <2>2, SpeakingKeeps
  <2>4. ASSUME NEW g \in Nat, Incoming(g, sent) PROVE Incoming(g, sent)'
    BY <2>1, <2>2, <2>4, IncomingSame
  <2>5. Receiving(got, sent)'
    BY <1>1, <2>1, <2>3, <2>4 DEF Receiving
  <2> QED
    BY <1>2, <2>5
<1>7. CASE DevReceiveAck
  <2>1. PICK d \in toDevice, n \in devAcked + 1 .. devSent :
           /\ d.kind = "ack" /\ ForSession(d) /\ d.ackId = n % MaxPacketId /\ devAcked' = n
           /\ UNCHANGED <<devSession, devPort, devSessions, devSent, childVars, toDevice, toChild,
                          history>>
    BY <1>7 DEF DevReceiveAck
  <2>2. UNCHANGED <<connectionState, sessionId, socket, openSockets, lastReceivedPacketId, delivered>>
    BY <2>1 DEF childVars, sockets, receiver, history
  <2>3. Talking /\ SocketOpen
    <3>1. d.port \in openSockets /\ openSockets \subseteq {socket}
      BY <2>1 DEF LinkBase, SessionInv, SessionsGrow, RestInv, Rested, NoOrphanSocket
    <3> QED
      BY <2>1, <3>1 DEF ForSession, Talking, SocketOpen
  <2>4. Answers = {}
    <3>1. \A a \in Answers : d.session < a.session /\ devSession = a.session /\ a.session \in Nat
      BY <2>1, <2>3 DEF LinkBase, SessionInv, AnswerIsNew, Talking, ToChild, LinkTypeInv,
         LinkTypeOK, Answers
    <3> QED
      BY <2>1, <3>1 DEF ForSession
  <2>5. Listening
    BY <2>3, <2>4 DEF LinkBase, SessionInv, SameSession, Listening
  <2>6. /\ got <= sent /\ sent <= got + Window /\ sent = devSent /\ devAcked <= got
        /\ AcksOf(got)
    BY <1>1, <2>3, <2>5 DEF Receiving, Incoming
  <2>7. PICK a \in 0 .. got : got < a + Lifetime /\ d.ackId = a % MaxPacketId
    BY <2>1, <2>6 DEF AcksOf
  <2>8. n = a
    <3>1. n \in Int /\ a \in Int /\ n % MaxPacketId = a % MaxPacketId
      BY <1>3, <2>1, <2>7
    <3>2. n - a < MaxPacketId /\ a - n < MaxPacketId
      BY <1>3, <2>1, <2>6, <2>7, WithinLap
    <3> QED
      BY <3>1, <3>2, SameRemainder
  <2>9. n <= got
    BY <2>7, <2>8
  <2>10. /\ Answers' = Answers /\ Talking' = Talking
    BY <2>1, <2>2 DEF Answers, IsHelloAnswer, Talking
  <2>11. Incoming(got, sent)'
    BY <1>1, <2>1, <2>2, <2>5, <2>9, <2>10 DEF Receiving, Incoming
  <2>12. Received(got)' /\ AcksOf(got)' /\ lastReceivedPacketId' = got % MaxPacketId
    BY <1>1, <2>1, <2>2, <2>5 DEF Receiving, Received, AcksOf, ForSession
  <2>13. Receiving(got, sent)'
    BY <2>1, <2>4, <2>9, <2>10, <2>11, <2>12 DEF Receiving
  <2> QED
    BY <1>2, <2>13
<1>8. CASE DevForget
  <2>1. /\ devSession' = 0
        /\ UNCHANGED <<connectionState, sessionId, socket, openSockets, lastReceivedPacketId,
                       delivered, toDevice, toChild>>
    BY <1>8 DEF DevForget, childVars, sockets, receiver, history
  <2>2. ~Talking' /\ ~InSession' /\ Answers' = Answers
    BY <2>1 DEF Talking, InSession, Answers, IsHelloAnswer
  <2>3. ASSUME NEW g \in Nat, Incoming(g, sent) PROVE Incoming(g, sent)'
    BY <2>1, <2>2, <2>3 DEF Incoming
  <2>4. AcksOf(got)'
    BY <2>1 DEF AcksOf, ForSession
  <2>5. Received(got)' = Received(got) /\ Listening' = Listening
    BY <2>1, <2>2 DEF Received, Listening, SocketOpen
  <2>6. Receiving(got, sent)'
    BY <1>1, <2>1, <2>2, <2>3, <2>4, <2>5 DEF Receiving
  <2> QED
    BY <1>2, <2>6
<1> QED
  BY <1>4, <1>5, <1>6, <1>7, <1>8 DEF DeviceStep

\* The device and its account of what was sent stand still while the child moves.
DeviceStill == UNCHANGED <<devSession, devPort, devSessions, devSent, devAcked>>

\* Datagrams on a socket that stays open stay.
LEMMA AnswersCarried ==
    ASSUME LinkBase, Carry(toChild), UNCHANGED <<socket, openSockets>>
    PROVE  Answers' = Answers
  BY DEF Carry, Answers, IsHelloAnswer, LinkBase, SessionInv, AnswerIsNew, SocketOpen

\* A step of the child in which it receives nothing new.
LEMMA StayReceiving ==
    ASSUME LinkBase, NEW got \in Nat, NEW sent \in Nat, Receiving(got, sent),
           DeviceStill, Carry(toChild), delivered' = delivered,
           UNCHANGED <<connectionState, socket, openSockets, sessionId, lastReceivedPacketId>>,
           \A d \in sending' : d.kind = "ack" => d = Ack(socket, sessionId, lastReceivedPacketId)
    PROVE  Receiving(got, sent)'
<1>1. Answers' = Answers
  BY AnswersCarried
<1>2. toDevice' \subseteq toDevice \union sending' /\ toChild' \subseteq toChild
  BY DEF Carry
<1>3. Received(got)' = Received(got) /\ InSession' = InSession /\ Listening' = Listening
  BY <1>1 DEF Received, InSession, Listening, SocketOpen, DeviceStill
<1>4. ASSUME NEW g \in Nat, Incoming(g, sent) PROVE Incoming(g, sent)'
  BY <1>2, <1>4 DEF Incoming, Talking, DeviceStill
<1>5. ASSUME lastReceivedPacketId = got % MaxPacketId, AcksOf(got) PROVE AcksOf(got)'
  <2>1. got \in 0 .. got /\ got < got + Lifetime
    BY WithinLap
  <2>2. \A d \in sending' : d.kind = "ack" => d.ackId = got % MaxPacketId
    BY <1>5 DEF Ack
  <2> QED
    BY <1>2, <1>5, <2>1, <2>2 DEF AcksOf, ForSession, DeviceStill
<1> QED
  BY <1>1, <1>3, <1>4, <1>5 DEF Receiving, DeviceStill

\* A step of the child that ends its session, or is taken without one.
LEMMA LeaveReceiving ==
    ASSUME LinkBase, NEW got \in Nat, NEW sent \in Nat, Receiving(got, sent),
           DeviceStill, Carry(toChild), delivered' = delivered,
           Dialled \/ Abandoned \/ ClosedDown
    PROVE  Receiving(got, sent)'
<1>1. toChild' = {d \in toChild : d.port \in openSockets'}
  BY DEF Carry
<1>2. ~Listening'
  BY DEF Dialled, Abandoned, ClosedDown, Listening, SocketOpen
<1>3. InSession' => InSession
  BY DEF Dialled, Abandoned, ClosedDown, InSession, DeviceStill
<1>4. Received(got)'
  BY DEF Receiving, Received
<1>5. CASE socket' = socket /\ openSockets' = openSockets
  <2>1. Answers' = Answers
    BY <1>5, AnswersCarried
  <2>2. ASSUME Incoming(0, sent) PROVE Incoming(0, sent)'
    BY <1>1, <1>5, <2>2 DEF Incoming, Talking, DeviceStill
  <2> QED
    BY <1>2, <1>3, <1>4, <2>1, <2>2 DEF Receiving, DeviceStill
<1>6. CASE ~(socket' = socket /\ openSockets' = openSockets)
  <2>1. \A d \in toChild : d.port \in 1 .. socket
    BY DEF LinkBase, LinkTypeInv, Introduced, TypeOK
  <2>2. socket \in Nat
    BY DEF LinkBase, LinkTypeInv, TypeOK
  <2>3. openSockets' \in {{}, {socket + 1}}
    BY <1>6 DEF Dialled, Abandoned, ClosedDown
  <2>4. socket + 1 \notin 1 .. socket
    BY <2>2
  <2>5. toChild' = {}
    BY <1>1, <2>1, <2>3, <2>4
  <2>6. Answers' = {}
    BY <2>5 DEF Answers
  <2> QED
    BY <1>2, <1>3, <1>4, <2>6 DEF Receiving, DeviceStill
<1> QED
  BY <1>5, <1>6

\* A session begins: nothing was received in it yet.
LEMMA StartReceiving ==
    ASSUME LinkBase, NEW got \in Nat, NEW sent \in Nat, Receiving(got, sent),
           DeviceStill, NEW d \in Answers, Starts(d), Carry(toChild \ {d}), delivered' = <<>>
    PROVE  Receiving(0, sent)'
<1>1. /\ toDevice' \subseteq toDevice \union sending' /\ toChild' \subseteq toChild
  BY DEF Carry
<1>2. Answers' = {} /\ DeviceWaits
  BY StartSessions DEF DeviceStill, DeviceWaits
<1>3. Incoming(0, sent)
  BY DEF Receiving
<1>4. Incoming(0, sent)'
  BY <1>1, <1>3 DEF Incoming, Talking, Starts, DeviceStill
<1>5. InSession' => devAcked' <= 0
  BY <1>4 DEF InSession, Incoming, Talking
<1>6. lastReceivedPacketId' = 0 % MaxPacketId
  <2>1. d.packetId = 0
    BY DEF LinkBase, SessionInv, AnswerIsNew
  <2>2. 0 % MaxPacketId = 0
    BY WithinLap, ModWithinLap
  <2> QED
    BY <2>1, <2>2 DEF Starts
<1>7. AcksOf(0)'
  <2>1. SUFFICES ASSUME NEW e \in toDevice', e.kind = "ack", e.port = devPort, e.session = devSession,
                        devSession # 0
                 PROVE  \E n \in 0 .. 0 : 0 < n + Lifetime /\ e.ackId = n % MaxPacketId
    BY DEF AcksOf, ForSession, DeviceStill
  <2>2. e \notin toDevice
    <3>1. /\ devSession = d.session /\ \A c \in toDevice : c.kind # "hello" => c.session < d.session
          /\ d.session \in Nat
      BY <2>1 DEF LinkBase, SessionInv, AnswerIsNew, Answers, LinkTypeInv, LinkTypeOK, ToChild
    <3> QED
      BY <2>1, <3>1
  <2>3. e.ackId = 0 % MaxPacketId
    BY <1>1, <1>6, <2>2 DEF Starts, Ack
  <2>4. 0 \in 0 .. 0 /\ 0 < 0 + Lifetime
    BY WithinLap
  <2> QED
    BY <2>3, <2>4
<1>8. Received(0)'
  BY ReceivedNothing
<1> QED
  BY <1>2, <1>4, <1>5, <1>6, <1>7, <1>8 DEF Receiving

\* The next packet of the device is received, and acknowledged or to be acknowledged.
LEMMA AcceptReceiving ==
    ASSUME LinkBase, NEW got \in Nat, NEW sent \in Nat, Receiving(got, sent),
           DeviceStill, NEW d \in toChild, Listening, d.port = socket, Accepted(d), IsNext(d),
           Carry(toChild),
           delivered' = IF d.payload = 0 THEN delivered ELSE Append(delivered, d.payload)
    PROVE  Receiving(got + 1, sent)'
<1>1. /\ toDevice' \subseteq toDevice \union sending' /\ toChild' \subseteq toChild
      /\ \A e \in toDevice' : e.kind = "ack" => Recent(lastReceivedPacketId', e.ackId)
  BY DEF Carry, StillToDevice
<1>2. /\ lastReceivedPacketId = got % MaxPacketId /\ Incoming(got, sent) /\ AcksOf(got)
  BY DEF Receiving
<1>3. Answers' = Answers
  BY AnswersCarried DEF Accepted
<1>4. Answers = {} /\ lastReceivedPacketId' = d.packetId
  BY DEF Listening, Accepted
<1>5. PICK n \in 1 .. sent : /\ sent < n + Lifetime /\ d.packetId = n % MaxPacketId
                             /\ d.payload = PayloadOf(n)
  BY <1>2 DEF Incoming, IsNext
<1>6. got <= sent /\ sent <= got + Window
  BY <1>2 DEF Incoming
<1>7. d.packetId = (got + 1) % MaxPacketId
  BY <1>2, IdsOfNumbers DEF IsNext
<1>8. n = got + 1
  <2>1. n \in Int /\ got + 1 \in Int /\ n % MaxPacketId = (got + 1) % MaxPacketId
    BY <1>5, <1>7
  <2>2. n - (got + 1) < MaxPacketId /\ (got + 1) - n < MaxPacketId
    BY <1>5, <1>6, WithinLap
  <2> DEFINE g == got + 1
  <2>3. g \in Int /\ n % MaxPacketId = g % MaxPacketId /\ n - g < MaxPacketId /\ g - n < MaxPacketId
    BY <2>1, <2>2
  <2> HIDE DEF g
  <2>4. n = g
    BY <2>1, <2>3, SameRemainder
  <2> QED
    BY <2>4 DEF g
<1>9. got + 1 <= sent /\ sent <= (got + 1) + Window
  BY <1>5, <1>6, <1>8, WithinLap
<1>10. Incoming(got + 1, sent)'
  <2>1. Talking' => sent = devSent' /\ devAcked' <= got + 1
    <3>1. devAcked \in Nat
      BY DEF LinkBase, LinkTypeInv, LinkTypeOK
    <3>2. Talking' => sent = devSent' /\ devAcked' <= got /\ devAcked' = devAcked
      BY <1>2 DEF Incoming, Talking, Accepted, DeviceStill
    <3> QED
      BY <3>1, <3>2
  <2>2. \A e \in toChild' : e.port = socket' /\ "AckRequest" \in e.flags =>
          \E k \in 1 .. sent : /\ sent < k + Lifetime /\ e.packetId = k % MaxPacketId
                               /\ e.payload = PayloadOf(k)
    BY <1>1, <1>2 DEF Incoming, Accepted
  <2> QED
    BY <1>9, <2>1, <2>2 DEF Incoming
<1>11. Received(got + 1)'
  <2>1. Received(got) /\ delivered \in Seq(Nat)
    BY DEF Receiving, LinkBase, LinkTypeInv, LinkTypeOK
  <2>2. d.payload = IF got + 1 \in KeepAlives THEN 0 ELSE got + 1
    BY <1>5, <1>8 DEF PayloadOf
  <2>3. delivered' = IF got + 1 \in KeepAlives THEN delivered ELSE Append(delivered, got + 1)
    BY <2>2
  <2> QED
    BY <2>1, <2>3, ReceivedNext
<1>12. InSession' => devAcked' <= got + 1
  BY <1>10 DEF InSession, Incoming, Talking
<1>13. AcksOf(got + 1)'
  <2>1. SUFFICES ASSUME NEW e \in toDevice', e.kind = "ack", e.port = devPort, e.session = devSession,
                        devSession # 0
                 PROVE  \E k \in 0 .. got + 1 : got + 1 < k + Lifetime /\ e.ackId = k % MaxPacketId
    BY DEF AcksOf, ForSession, DeviceStill
  <2>2. CASE e \in sending'
    <3>1. e.ackId = (got + 1) % MaxPacketId
      BY <1>7, <2>2 DEF Accepted, Ack
    <3>2. got + 1 \in 0 .. got + 1 /\ got + 1 < (got + 1) + Lifetime
      BY WithinLap
    <3> QED
      BY <3>1, <3>2
  <2>3. CASE e \in toDevice
    <3>1. PICK k \in 0 .. got : got < k + Lifetime /\ e.ackId = k % MaxPacketId
      BY <1>2, <2>1, <2>3 DEF AcksOf, ForSession
    <3>2. Recent((got + 1) % MaxPacketId, k % MaxPacketId)
      BY <1>1, <1>4, <1>7, <2>1, <3>1
    <3>3. got + 1 \in Int /\ k \in Int /\ 0 <= (got + 1) - k /\ (got + 1) - k < MaxPacketId
      BY <3>1, WithinLap
    <3>4. got + 1 < k + Lifetime
      BY <3>2, <3>3, RecentNumbers
    <3>5. k \in 0 .. got + 1
      BY <3>1
    <3> QED
      BY <3>1, <3>4, <3>5
  <2> QED
    BY <1>1, <2>1, <2>2, <2>3
<1> QED
  BY <1>3, <1>4, <1>7, <1>10, <1>11, <1>12, <1>13 DEF Receiving

\* So do the child's.
LEMMA ChildReceiving ==
    ASSUME ~Overlap, ~SlowParent, ~LateHello, LinkBase, ReceiveInv,
           LinkSendPackets \/ LinkReceivePacket \/ LinkChildAlone
    PROVE  ReceiveInv'
<1>1. PICK got \in Nat, sent \in Nat : Receiving(got, sent)
  BY DEF ReceiveInv
<1>2. ASSUME NEW g \in Nat, Receiving(g, sent)' PROVE ReceiveInv'
  BY <1>2 DEF ReceiveInv
<1>3. DeviceStill
  BY DEF LinkSendPackets, LinkReceivePacket, LinkChildAlone, Alone, deviceVars, DeviceStill
<1>4. ASSUME Quiet, Carry(toChild), delivered' = delivered PROVE ReceiveInv'
  <2>1. \A d \in sending' : d.kind = "ack" => d = Ack(socket, sessionId, lastReceivedPacketId)
    BY <1>4 DEF Quiet, Repeats, Command
  <2>2. UNCHANGED <<connectionState, socket, openSockets, sessionId, lastReceivedPacketId>>
    BY <1>4 DEF Quiet
  <2> QED
    BY <1>1, <1>2, <1>3, <1>4, <2>1, <2>2, StayReceiving
<1>5. ASSUME Dialled \/ Abandoned \/ ClosedDown, Carry(toChild), delivered' = delivered
      PROVE  ReceiveInv'
  BY <1>1, <1>2, <1>3, <1>5, LeaveReceiving
<1>6. CASE LinkChildAlone
  <2>1. ChildAlone /\ Carry(toChild) /\ delivered' = delivered
    BY <1>6 DEF LinkChildAlone, Alone, history
  <2>2. Dialled \/ Abandoned \/ ClosedDown \/ Quiet
    BY <2>1, AloneEffect DEF LinkBase
  <2> QED
    BY <1>4, <1>5, <2>1, <2>2
<1>7. CASE LinkSendPackets
  <2>1. PICK n \in 1 .. MaxBatch : SendPackets([i \in 1 .. n |-> commands + i])
    BY <1>7 DEF LinkSendPackets
  <2>2. Carry(toChild) /\ delivered' = delivered
    BY <1>7 DEF LinkSendPackets
  <2>3. UNCHANGED <<connectionState, socket, openSockets, sessionId, lastReceivedPacketId>>
    BY <2>1 DEF SendPackets, sockets, receiver
  <2>4. \A d \in sending' : d.kind = "command"
    <3>1. n \in Nat /\ commands \in Nat
      BY DEF LinkBase, LinkTypeInv, LinkTypeOK
    <3>2. CASE SocketOpen
      <4>1. PICK new : SentPackets(n, new)
        BY <2>1, <3>1, <3>2, NewPackets DEF LinkBase, LinkTypeInv
      <4> QED
        BY <4>1 DEF SentPackets, Command
    <3>3. CASE ~SocketOpen
      BY <2>1, <3>1, <3>3, NewPackets DEF LinkBase, LinkTypeInv
    <3> QED
      BY <3>2, <3>3
  <2>5. \A d \in sending' : d.kind = "ack" => d = Ack(socket, sessionId, lastReceivedPacketId)
    BY <2>4
  <2> QED
    BY <1>1, <1>2, <1>3, <2>2, <2>3, <2>5, StayReceiving
<1>8. CASE LinkReceivePacket
  <2>1. PICK d \in toChild :
           /\ InTurn(d) /\ ReceivePacket(d) /\ Carry(AfterDelivery(d))
           /\ IF CommandsPosted = {}
              THEN delivered' = IF IsHelloAnswer(d) /\ d.session # sessionId THEN <<>>
                                ELSE delivered
              ELSE \E m \in CommandsPosted : delivered' = Append(delivered, m.payload)
    BY <1>8 DEF LinkReceivePacket
  <2>2. CommandsPosted = IF ProcessPacket(d) /\ IsNext(d) /\ d.payload # 0
                         THEN {CommandsReceived(d.payload)} ELSE {}
    BY <2>1, PostedCalls
  <2>3. CASE d \in Answers /\ Starts(d) /\ ~ProcessPacket(d)
    <3>1. Carry(toChild \ {d}) /\ IsHelloAnswer(d)
      BY <2>1, <2>3 DEF AfterDelivery, Answers
    <3>2. d.session # sessionId
      BY <2>3 DEF LinkBase, SessionInv, AnswerIsNew, LinkTypeInv, TypeOK
    <3>3. delivered' = <<>>
      BY <2>1, <2>2, <2>3, <3>1, <3>2
    <3>4. Receiving(0, sent)'
      BY <1>1, <1>3, <2>3, <3>1, <3>3, StartReceiving
    <3> QED
      BY <1>2, <3>4
  <2>4. CASE /\ Listening /\ d.port = socket /\ d.session = sessionId /\ ProcessPacket(d)
             /\ \/ (Abandoned \/ Quiet) /\ (~IsNext(d)) /\ AckedPackets(d) = {}
                \/ Accepted(d) /\ IsNext(d) /\ AckedPackets(d) = {}
                \/ Settled(d) /\ (~IsNext(d)) /\ "AckReply" \in d.flags
    <3>1. ~IsHelloAnswer(d)
      BY <2>4 DEF Listening, Answers
    <3>2. Carry(toChild)
      BY <2>1, <3>1 DEF AfterDelivery
    <3>3. delivered' = IF IsNext(d) /\ d.payload # 0 THEN Append(delivered, d.payload) ELSE delivered
      <4>1. CommandsReceived(d.payload).payload = d.payload
        BY DEF CommandsReceived
      <4> QED
        BY <2>1, <2>2, <2>4, <3>1, <4>1
    <3>4. CASE Abandoned /\ ~IsNext(d)
      BY <1>5, <3>2, <3>3, <3>4
    <3>5. CASE Quiet /\ ~IsNext(d)
      BY <1>4, <3>2, <3>3, <3>5
    <3>6. CASE Accepted(d) /\ IsNext(d)
      <4>1. Receiving(got + 1, sent)'
        BY <1>1, <1>3, <2>4, <3>2, <3>3, <3>6, AcceptReceiving
      <4> QED
        BY <1>2, <4>1
    <3>7. CASE Settled(d) /\ ~IsNext(d)
      <4>1. UNCHANGED <<connectionState, socket, openSockets, sessionId, lastReceivedPacketId>>
            /\ sending' = {} /\ delivered' = delivered
        BY <3>3, <3>7 DEF Settled
      <4>2. Receiving(got, sent)'
        BY <1>1, <1>3, <3>2, <4>1, StayReceiving
      <4> QED
        BY <1>2, <4>2
    <3> QED
      BY <2>4, <3>4, <3>5, <3>6, <3>7
  <2> QED
    BY <2>1, <2>3, <2>4, ReceiveEffect
<1> QED
  BY <1>6, <1>7, <1>8

\* At the start nothing was received.
LEMMA ReceiveInit == LinkInit => ReceiveInv
<1> SUFFICES ASSUME LinkInit PROVE ReceiveInv
  OBVIOUS
<1>1. /\ delivered = <<>> /\ toChild = {} /\ connectionState = "Closed"
  BY DEF LinkInit, Init
<1>2. Answers = {} /\ ~Listening /\ ~InSession
  BY <1>1 DEF Answers, Listening, InSession
<1>3. 1 .. 0 \ KeepAlives = {} /\ Cardinality({}) = 0 /\ DOMAIN delivered = {} /\ Len(delivered) = 0
  BY <1>1, FS_EmptySet
<1>4. Received(0)
  BY <1>3 DEF Received
<1>5. Receiving(0, 0)
  BY <1>2, <1>4 DEF Receiving
<1> QED
  BY <1>5 DEF ReceiveInv

\* Every step keeps the account of what was received.
LEMMA ReceiveStep ==
    ASSUME ~Overlap, ~SlowParent, ~LateHello, LinkBase, ReceiveInv, [LinkNext]_linkVars
    PROVE  ReceiveInv'
<1>1. CASE UNCHANGED linkVars
  <2>1. UNCHANGED <<toDevice, toChild, sessionId, devSession, devPort, devSent, devAcked,
                    socket, openSockets, connectionState, lastReceivedPacketId, delivered>>
    BY <1>1 DEF linkVars, deviceVars, history, childVars, sockets, receiver
  <2>2. Answers' = Answers
    BY <2>1 DEF Answers, IsHelloAnswer
  <2>3. PICK got \in Nat, sent \in Nat : Receiving(got, sent)
    BY DEF ReceiveInv
  <2>4. /\ Received(got)' = Received(got) /\ AcksOf(got)' = AcksOf(got)
        /\ InSession' = InSession /\ Listening' = Listening
    BY <2>1, <2>2 DEF Received, AcksOf, ForSession, InSession, Listening, SocketOpen
  <2>5. ASSUME NEW g \in Nat, Incoming(g, sent) PROVE Incoming(g, sent)'
    BY <2>1, <2>5 DEF Incoming, Talking
  <2>6. Receiving(got, sent)'
    BY <2>1, <2>2, <2>3, <2>4, <2>5 DEF Receiving
  <2> QED
    BY <2>6 DEF ReceiveInv
<1> QED
  BY <1>1, DeviceReceiving, ChildReceiving DEF LinkNext

\* The account of what was received is always true.
LEMMA AlwaysReceiving ==
    ASSUME ~Overlap, ~SlowParent, ~LateHello
    PROVE  LinkSpec => [](LinkBase /\ ReceiveInv)
<1>1. LinkBase /\ ReceiveInv /\ [LinkNext]_linkVars => (LinkBase /\ ReceiveInv)'
  BY LinkBaseStep, ReceiveStep
<1>2. LinkInit => LinkBase /\ ReceiveInv
  BY LinkBaseInit, ReceiveInit
<1> QED
  BY <1>1, <1>2, PTL DEF LinkSpec

\* The payloads the parent is given in a session are those the device sent in it, in their
\* order, each once and none missing, for every number of ids and packets: what is lost,
\* repeated or late is told by its id, as long as what is under way and what is in flight stay
\* within half a lap (atemSocketChild.ts:275-288).  A HELLO answered late is excepted.
THEOREM DeliveredAlwaysInOrder ==
    ASSUME ~Overlap, ~SlowParent, ~LateHello
    PROVE  LinkSpec => []DeliveredInOrder
<1>1. ReceiveInv => DeliveredInOrder
  <2>1. ASSUME NEW got \in Nat, NEW sent \in Nat, Receiving(got, sent)
        PROVE  DeliveredInOrder
    BY <2>1 DEF Receiving, Received, DeliveredInOrder
  <2> QED
    BY <2>1 DEF ReceiveInv
<1> QED
  BY <1>1, AlwaysReceiving, PTL

\* A packet that the device takes to be acknowledged was given to the parent, across every
\* wrap of the ids (atemSocketChild.ts:256-261, 275-288, 324-352).
THEOREM AcksAreHonest ==
    ASSUME ~Overlap, ~SlowParent, ~LateHello
    PROVE  LinkSpec => []AckIsHonest
<1>1. LinkBase /\ ReceiveInv => AckIsHonest
  <2>1. ASSUME NEW got \in Nat, NEW sent \in Nat, Receiving(got, sent), LinkBase
        PROVE  AckIsHonest
    <3>1. SUFFICES ASSUME InSession, NEW n \in 1 .. devAcked \ KeepAlives
                   PROVE  \E i \in DOMAIN delivered : delivered[i] = n
      BY DEF AckIsHonest
    <3>2. devAcked <= got /\ devAcked \in Nat
      BY <2>1, <3>1 DEF Receiving, LinkBase, LinkTypeInv, LinkTypeOK
    <3>3. n \in 1 .. got \ KeepAlives
      BY <3>1, <3>2
    <3> QED
      BY <2>1, <3>3 DEF Receiving, Received
  <2> QED
    BY <2>1 DEF ReceiveInv
<1> QED
  BY <1>1, AlwaysReceiving, PTL

-----------------------------------------------------------------------------
(* From the parent to the device *)

\* No session can begin in a session: no HELLO is left that was answered.
OneBeginning ==
    (\E d \in toDevice : d.kind = "hello") \/ Answers # {} => connectionState # "Established"

\* The packets count since the last HELLO, unless a restart is to reset them.
Numbered == SocketOpen /\ restarting = 0

\* What the parent sent before.
Offset == commands - order

\* Of the packets sent, those after the first `low` are in flight.
Flying(low) ==
    /\ nextSendPacketId = (order + 1) % MaxPacketId
    /\ low <= order /\ order <= low + Window
    /\ \A p \in inFlight : p.order \in low + 1 .. order
    /\ \A o \in low + 1 .. order : \E p \in inFlight : p.order = o
    /\ \A p, q \in inFlight : p.order = q.order => p = q
    /\ \A p \in inFlight : /\ p.packetId = p.order % MaxPacketId
                           /\ p.trackingId = p.order + Offset

\* The device accepted the first k.
Executed(k) ==
    /\ \A i \in DOMAIN executed : executed[i] <= k + Offset
    /\ \A o \in 1 .. k : \E i \in DOMAIN executed : executed[i] = o + Offset

\* What is under way to the device are the last packets sent ...
Outgoing ==
    \A d \in toDevice : d.kind = "command" /\ ForSession(d) =>
       \E o \in 1 .. order : /\ order < o + Lifetime
                             /\ d.packetId = o % MaxPacketId /\ d.trackingId = o + Offset

\* ... and what is under way to the child acknowledges what was accepted.
RepliesOf(k) ==
    /\ \A d \in toChild : d.port = socket /\ "AckReply" \in d.flags =>
          \E n \in 0 .. k : k < n + Lifetime /\ d.ackId = n % MaxPacketId
    /\ Talking => devRecv = k % MaxPacketId

Sending(low, k) ==
    Numbered => /\ low <= k /\ k <= order /\ order <= commands
                /\ connectionState # "Established" => k = 0
                /\ Flying(low) /\ Executed(k) /\ Outgoing /\ RepliesOf(k)

Accounted ==
    /\ \A i \in DOMAIN executed : executed[i] <= commands
    /\ ExecutedInOrder /\ AcknowledgedWasExecuted

SendInv == OneBeginning /\ Accounted /\ \E low, k \in Nat : Sending(low, k)

\* As many packets are in flight as are counted.
LEMMA CountInFlight ==
    ASSUME NEW low \in Nat, order \in Nat, Flying(low)
    PROVE  Cardinality(inFlight) = order - low
<1> DEFINE f == [p \in inFlight |-> p.order]
           orders == low + 1 .. order
<1>1. f \in [inFlight -> orders] /\ \A p \in inFlight : f[p] = p.order
  BY DEF Flying
<1>2. /\ \A p, q \in inFlight : f[p] = f[q] => p = q
      /\ \A o \in orders : \E p \in inFlight : f[p] = o
  BY <1>1 DEF Flying
<1> HIDE DEF f
<1>3. f \in Injection(inFlight, orders) /\ f \in Surjection(inFlight, orders)
  BY <1>1, <1>2 DEF Injection, IsInjective, Surjection
<1>4. IsFiniteSet(orders) /\ Cardinality(orders) = order - low
  <2>1. low + 1 \in Int /\ order \in Int /\ low <= order
    BY DEF Flying
  <2>2. /\ IsFiniteSet(orders)
        /\ Cardinality(orders) = IF low + 1 > order THEN 0 ELSE (order - (low + 1)) + 1
    BY <2>1, FS_Interval
  <2> QED
    BY <2>1, <2>2
<1> HIDE DEF orders
<1>5. Cardinality(inFlight) = Cardinality(orders)
  BY <1>3, <1>4, FS_Injection
<1> QED
  BY <1>4, <1>5

\* A packet or an acknowledgement for the device's session is heard while packets count.
LEMMA HeardInSession ==
    ASSUME LinkBase, NEW d \in toDevice, d.kind # "hello", ForSession(d)
    PROVE  Talking /\ Listening /\ Numbered
<1>1. Talking /\ Listening
  BY HeardByBoth
<1>2. restarting = 0
  BY <1>1 DEF LinkBase, AbandonedIsSilent, Listening, RestInv, TypeOK
<1> QED
  BY <1>1, <1>2 DEF Listening, Numbered

\* What the device accepts next is the packet after the last it accepted.
LEMMA NextAccepted ==
    ASSUME LinkBase, NEW low \in Nat, NEW k \in Nat, Sending(low, k), Numbered, Talking,
           NEW d \in toDevice, d.kind = "command", ForSession(d),
           d.packetId = NextPacketId(devRecv)
    PROVE  k + 1 <= order /\ d.packetId = (k + 1) % MaxPacketId /\ d.trackingId = (k + 1) + Offset
<1>1. /\ low <= k /\ k <= order /\ Outgoing /\ devRecv = k % MaxPacketId
      /\ low <= order /\ order <= low + Window
  BY DEF Sending, RepliesOf, Flying
<1>2. order \in Nat
  BY DEF LinkBase, LinkTypeInv, TypeOK
<1>3. PICK o \in 1 .. order : /\ order < o + Lifetime
                              /\ d.packetId = o % MaxPacketId /\ d.trackingId = o + Offset
  BY <1>1 DEF Outgoing
<1>4. d.packetId = (k + 1) % MaxPacketId
  BY <1>1, IdsOfNumbers
<1> DEFINE n == k + 1
<1>5. n \in Int /\ o \in Int /\ n % MaxPacketId = o % MaxPacketId
      /\ n - o < MaxPacketId /\ o - n < MaxPacketId
  BY <1>1, <1>2, <1>3, <1>4, WithinLap
<1> HIDE DEF n
<1>6. n = o
  BY <1>5, SameRemainder
<1> QED
  BY <1>3, <1>4, <1>6 DEF n

\* What is accepted is counted, and comes after all accepted before.
LEMMA AcceptedNext ==
    ASSUME NEW k \in Nat, order \in Nat, commands \in Nat, Executed(k), Accounted,
           executed \in Seq(Nat), k + 1 <= order, order <= commands,
           executed' = Append(executed, (k + 1) + Offset),
           UNCHANGED <<commands, order, acknowledged>>
    PROVE  Executed(k + 1)' /\ Accounted'
<1> DEFINE t == (k + 1) + Offset
           n == Len(executed)
<1>1. /\ t \in Nat /\ t <= commands /\ Offset \in Nat /\ Offset' = Offset
      /\ \A i \in DOMAIN executed : executed[i] < t /\ executed[i] <= commands /\ executed[i] \in Nat
  BY DEF Executed, Offset
<1>2. /\ n \in Nat /\ executed' = Append(executed, t)
      /\ DOMAIN executed' = 1 .. n + 1 /\ DOMAIN executed = 1 .. n
      /\ \A i \in 1 .. n : executed'[i] = executed[i]
      /\ executed'[n + 1] = t
  BY <1>1, AppendProperties, LenProperties
<1>3. /\ \A i \in DOMAIN executed' : executed'[i] <= t
      /\ \A i \in DOMAIN executed' : executed'[i] <= commands
  BY <1>1, <1>2
<1>4. ExecutedInOrder'
  <2>1. SUFFICES ASSUME NEW i \in 1 .. n + 1, NEW j \in 1 .. n + 1, i < j
                 PROVE  executed'[i] < executed'[j]
    BY <1>2 DEF ExecutedInOrder
  <2> HIDE DEF t
  <2>2. i \in 1 .. n
    BY <1>2, <2>1
  <2>3. CASE j = n + 1
    <3>1. executed'[j] = t /\ executed'[i] = executed[i]
      BY <1>2, <2>2, <2>3
    <3>2. executed[i] < t
      BY <1>1, <1>2, <2>2
    <3> QED
      BY <3>1, <3>2
  <2>4. CASE j \in 1 .. n
    <3>1. executed[i] < executed[j]
      BY <1>2, <2>1, <2>2, <2>4 DEF Accounted, ExecutedInOrder
    <3> QED
      BY <1>2, <2>2, <2>4, <3>1
  <2> QED
    BY <1>2, <2>1, <2>3, <2>4
<1>5. AcknowledgedWasExecuted'
  BY <1>2 DEF Accounted, AcknowledgedWasExecuted
<1>6. \A o \in 1 .. k + 1 : \E i \in DOMAIN executed' : executed'[i] = o + Offset
  <2>1. SUFFICES ASSUME NEW o \in 1 .. k + 1
                 PROVE  \E i \in DOMAIN executed' : executed'[i] = o + Offset
    OBVIOUS
  <2>2. CASE o = k + 1
    BY <1>2, <2>2
  <2>3. CASE o \in 1 .. k
    <3>1. PICK i \in DOMAIN executed : executed[i] = o + Offset
      BY <2>3 DEF Executed
    <3>2. i \in DOMAIN executed' /\ executed'[i] = executed[i]
      BY <1>2
    <3> QED
      BY <3>1, <3>2
  <2> QED
    BY <2>1, <2>2, <2>3
<1> QED
  BY <1>1, <1>3, <1>4, <1>5, <1>6 DEF Executed, Accounted

\* Nothing of the child changes while the device moves.
LEMMA ChildStill ==
    ASSUME UNCHANGED childVars, UNCHANGED commands
    PROVE  /\ UNCHANGED <<connectionState, socket, openSockets, sessionId, restarting, inFlight,
                          order, nextSendPacketId>>
           /\ Numbered' = Numbered /\ Offset' = Offset
           /\ \A low \in Nat : Flying(low)' = Flying(low)
<1>1. UNCHANGED <<connectionState, socket, openSockets, sessionId, restarting, inFlight,
                  order, nextSendPacketId>>
  BY DEF childVars, sockets, sender
<1> QED
  BY <1>1 DEF Numbered, Offset, Flying, SocketOpen

\* What the device says leaves the packets as they are.
LEMMA SpeakingSends ==
    ASSUME LinkTypeInv, NEW m, DeviceSpeaks(m), UNCHANGED commands
    PROVE  /\ Outgoing' = Outgoing /\ OneBeginning' = OneBeginning /\ Talking' = Talking
           /\ toChild' = {d \in toChild \union {m} : StillToChild(d)}
<1>1. UNCHANGED <<connectionState, socket, order, toDevice, devSession, devPort, commands>>
  BY DEF DeviceSpeaks, childVars, sockets, sender
<1>2. Answers' = Answers
  BY AnswersStay
<1> QED
  BY <1>1, <1>2 DEF Outgoing, OneBeginning, Talking, ForSession, Offset, DeviceSpeaks

\* The device's steps other than an answer to a HELLO and the reception of a packet leave
\* what is counted as it is.
LEMMA SameCounts ==
    ASSUME UNCHANGED <<executed, commands, acknowledged, order>>
    PROVE  Accounted' = Accounted /\ \A k \in Nat : Executed(k)' = Executed(k)
  BY DEF Accounted, ExecutedInOrder, AcknowledgedWasExecuted, Executed, Offset

\* The device's steps keep the account of what was sent.
LEMMA DeviceSending ==
    ASSUME ~LateHello, ~StaleHello, LinkBase, SendInv, DeviceStep
    PROVE  SendInv'
<1>1. PICK low \in Nat, k \in Nat : Sending(low, k)
  BY DEF SendInv
<1>2. ASSUME NEW l \in Nat, NEW n \in Nat, Sending(l, n)', OneBeginning', Accounted' PROVE SendInv'
  BY <1>2 DEF SendInv
<1>3. UNCHANGED <<childVars, commands, acknowledged>>
  BY ReplyEffect DEF DeviceStep, DevAnswerHello, DevSend, DevReceiveCommand, DevReceiveAck,
     DevForget, history
<1>4. /\ UNCHANGED <<connectionState, socket, openSockets, sessionId, restarting, inFlight,
                     order, nextSendPacketId>>
      /\ Numbered' = Numbered /\ Offset' = Offset
      /\ \A l \in Nat : Flying(l)' = Flying(l)
  BY <1>3, ChildStill
<1>5. /\ LinkTypeInv /\ order \in Nat /\ commands \in Nat /\ executed \in Seq(Nat)
      /\ OneBeginning /\ Accounted
  <2>1. executed \in Seq(TrackingIds) /\ TrackingIds \subseteq Nat
    BY DEF LinkBase, LinkTypeInv, LinkTypeOK
  <2>2. executed \in Seq(Nat)
    BY <2>1
  <2> QED
    BY <2>2 DEF LinkBase, LinkTypeInv, LinkTypeOK, TypeOK, SendInv
<1>6. CASE DevAnswerHello
  <2>1. PICK m : DeviceAnswers(m)
    BY <1>6, AnswerEffect
  <2>2. executed' = executed /\ devRecv' = 0 /\ toDevice' = toDevice
    BY <1>6 DEF DevAnswerHello
  <2>3. connectionState # "Established"
    BY <1>5, <2>1 DEF OneBeginning, DeviceAnswers
  <2>4. Outgoing'
    <3>1. \A d \in toDevice : d.kind # "hello" => d.session <= devSessions /\ d.session \in Nat
      BY DEF LinkBase, LinkTypeInv, LinkTypeOK, ToDevice, SessionInv, SessionsGrow
    <3>2. devSessions \in Nat /\ devSession' = devSessions + 1
      BY <2>1 DEF LinkBase, LinkTypeInv, LinkTypeOK, DeviceAnswers
    <3> QED
      BY <2>2, <3>1, <3>2 DEF Outgoing, ForSession
  <2>5. RepliesOf(0)'
    <3>1. toChild' = {m} /\ "AckReply" \notin m.flags
      BY <2>1 DEF DeviceAnswers, IsHelloAnswer, ToChild
    <3>2. 0 % MaxPacketId = 0
      BY WithinLap, ModWithinLap
    <3> QED
      BY <2>2, <3>1, <3>2 DEF RepliesOf
  <2>6. OneBeginning' /\ Accounted' /\ Executed(k)' = Executed(k)
    BY <1>3, <1>4, <1>5, <2>2, <2>3, SameCounts DEF OneBeginning
  <2>7. Sending(low, k)'
    BY <1>1, <1>3, <1>4, <2>3, <2>4, <2>5, <2>6 DEF Sending
  <2> QED
    BY <1>2, <2>6, <2>7
<1>7. CASE DevSend
  <2>1. devRecv' = devRecv /\ executed' = executed
    BY <1>5, <1>7, SendEffect
  <2>2. PICK m : DeviceSpeaks(m) /\ m.flags = {"AckRequest"}
    BY <1>5, <1>7, SendEffect DEF SpokenDatagram
  <2>3. /\ Outgoing' = Outgoing /\ OneBeginning' = OneBeginning /\ Talking' = Talking
        /\ toChild' \subseteq toChild \union {m}
    BY <1>3, <1>5, <2>2, SpeakingSends
  <2>4. RepliesOf(k) => RepliesOf(k)'
    <3>1. "AckReply" \notin m.flags
      BY <2>2
    <3>2. \A e \in toChild' : "AckReply" \in e.flags => e \in toChild
      BY <2>3, <3>1
    <3> QED
      BY <1>4, <2>1, <2>3, <3>2 DEF RepliesOf
  <2>5. Accounted' /\ Executed(k)' = Executed(k)
    BY <1>3, <1>4, <1>5, <2>1, SameCounts
  <2>6. Sending(low, k)'
    BY <1>1, <1>3, <1>4, <2>3, <2>4, <2>5 DEF Sending
  <2> QED
    BY <1>2, <1>5, <2>3, <2>5, <2>6
<1>8. CASE DevReceiveCommand
  <2>0. PICK d \in toDevice : \E m :
           /\ d.kind = "command" /\ ForSession(d) /\ DeviceSpeaks(m)
           /\ \/ /\ d.packetId = NextPacketId(devRecv) /\ devRecv' = d.packetId
                 /\ executed' = Append(executed, d.trackingId)
                 /\ SpokenDatagram(m, "AckReply", 0, 0, d.packetId, 0)
              \/ /\ devRecv' = devRecv /\ executed' = executed
                 /\ \/ SpokenDatagram(m, "AckReply", 0, 0, devRecv, 0)
                    \/ SpokenDatagram(m, "RetransmitRequest", 0, NextPacketId(devRecv), 0, 0)
    BY <1>5, <1>8, ReplyEffect
  <2>1. PICK m :
           /\ d.kind = "command" /\ ForSession(d) /\ DeviceSpeaks(m)
           /\ \/ /\ d.packetId = NextPacketId(devRecv) /\ devRecv' = d.packetId
                 /\ executed' = Append(executed, d.trackingId)
                 /\ SpokenDatagram(m, "AckReply", 0, 0, d.packetId, 0)
              \/ /\ devRecv' = devRecv /\ executed' = executed
                 /\ \/ SpokenDatagram(m, "AckReply", 0, 0, devRecv, 0)
                    \/ SpokenDatagram(m, "RetransmitRequest", 0, NextPacketId(devRecv), 0, 0)
    BY <2>0
  <2>2. Talking /\ Listening /\ Numbered
    BY <2>1, HeardInSession
  <2>3. /\ Outgoing' = Outgoing /\ OneBeginning' = OneBeginning /\ Talking' = Talking
        /\ toChild' = {e \in toChild \union {m} : StillToChild(e)}
    BY <1>3, <1>5, <2>1, SpeakingSends
  <2>4. /\ low <= k /\ k <= order /\ order <= commands /\ connectionState = "Established"
        /\ Flying(low) /\ Executed(k) /\ Outgoing /\ RepliesOf(k) /\ devRecv = k % MaxPacketId
    BY <1>1, <2>2 DEF Sending, Listening, RepliesOf
  <2>5. CASE /\ d.packetId = NextPacketId(devRecv) /\ devRecv' = d.packetId
             /\ executed' = Append(executed, d.trackingId)
             /\ SpokenDatagram(m, "AckReply", 0, 0, d.packetId, 0)
    <3>1. k + 1 <= order /\ d.packetId = (k + 1) % MaxPacketId /\ d.trackingId = (k + 1) + Offset
      BY <1>1, <2>1, <2>2, <2>5, NextAccepted
    <3>2. executed' = Append(executed, (k + 1) + Offset) /\ UNCHANGED <<commands, order, acknowledged>>
      BY <1>3, <1>4, <2>5, <3>1
    <3>3. Executed(k + 1)' /\ Accounted'
      BY <1>5, <2>4, <3>1, <3>2, AcceptedNext
    <3>4. \A e \in toChild' : e.port = socket /\ "AckReply" \in e.flags =>
             \E n \in 0 .. k + 1 : k + 1 < n + Lifetime /\ e.ackId = n % MaxPacketId
      <4>1. SUFFICES ASSUME NEW e \in toChild', e.port = socket, "AckReply" \in e.flags
                     PROVE  \E n \in 0 .. k + 1 : k + 1 < n + Lifetime /\ e.ackId = n % MaxPacketId
        OBVIOUS
      <4>2. CASE e = m
        <5>1. e.ackId = (k + 1) % MaxPacketId
          BY <2>5, <3>1, <4>2 DEF SpokenDatagram
        <5>2. k + 1 \in 0 .. k + 1 /\ k + 1 < (k + 1) + Lifetime
          BY WithinLap
        <5> QED
          BY <5>1, <5>2
      <4>3. CASE e \in toChild
        <5>1. PICK n \in 0 .. k : k < n + Lifetime /\ e.ackId = n % MaxPacketId
          BY <2>4, <4>1, <4>3 DEF RepliesOf
        <5>2. Recent((k + 1) % MaxPacketId, n % MaxPacketId)
          BY <2>3, <2>5, <3>1, <4>1, <5>1 DEF StillToChild
        <5>3. k + 1 \in Int /\ n \in Int /\ 0 <= (k + 1) - n /\ (k + 1) - n < MaxPacketId
          BY <5>1, WithinLap
        <5>4. k + 1 < n + Lifetime
          BY <5>2, <5>3, RecentNumbers
        <5>5. n \in 0 .. k + 1
          BY <5>1
        <5> QED
          BY <5>1, <5>4, <5>5
      <4> QED
        BY <2>3, <4>1, <4>2, <4>3
    <3>5. RepliesOf(k + 1)'
      BY <1>4, <2>5, <3>1, <3>4 DEF RepliesOf
    <3>6. low <= k + 1
      BY <2>4
    <3>7. Sending(low, k + 1)'
      BY <1>3, <1>4, <2>3, <2>4, <3>1, <3>3, <3>5, <3>6 DEF Sending
    <3> QED
      BY <1>2, <1>5, <2>3, <3>3, <3>7
  <2>6. CASE /\ devRecv' = devRecv /\ executed' = executed
             /\ \/ SpokenDatagram(m, "AckReply", 0, 0, devRecv, 0)
                \/ SpokenDatagram(m, "RetransmitRequest", 0, NextPacketId(devRecv), 0, 0)
    <3>1. k \in 0 .. k /\ k < k + Lifetime
      BY WithinLap
    <3>2. "AckReply" \in m.flags => m.ackId = k % MaxPacketId
      BY <2>4, <2>6 DEF SpokenDatagram
    <3>3. RepliesOf(k)'
      BY <1>4, <2>3, <2>4, <2>6, <3>1, <3>2 DEF RepliesOf
    <3>4. Accounted' /\ Executed(k)' = Executed(k)
      BY <1>3, <1>4, <1>5, <2>6, SameCounts
    <3>5. Sending(low, k)'
      BY <1>3, <1>4, <2>3, <2>4, <3>3, <3>4 DEF Sending
    <3> QED
      BY <1>2, <1>5, <2>3, <3>4, <3>5
  <2> QED
    BY <2>1, <2>5, <2>6
<1>9. CASE DevReceiveAck \/ DevForget
  <2>1. /\ executed' = executed /\ UNCHANGED <<toDevice, toChild>>
        /\ \/ UNCHANGED <<devSession, devPort, devRecv>>
           \/ devSession' = 0
    BY <1>9 DEF DevReceiveAck, DevForget
  <2>2. Outgoing => Outgoing'
    BY <1>4, <2>1 DEF Outgoing, ForSession
  <2>3. RepliesOf(k) => RepliesOf(k)'
    BY <1>4, <2>1 DEF RepliesOf, Talking
  <2>4. Answers' = Answers
    BY <2>1 DEF Answers, IsHelloAnswer
  <2>5. OneBeginning' = OneBeginning
    BY <1>4, <2>1, <2>4 DEF OneBeginning
  <2>6. Accounted' /\ Executed(k)' = Executed(k)
    BY <1>3, <1>4, <1>5, <2>1, SameCounts
  <2>7. Sending(low, k)'
    BY <1>1, <1>3, <1>4, <2>2, <2>3, <2>6 DEF Sending
  <2> QED
    BY <1>2, <1>5, <2>5, <2>6, <2>7
<1> QED
  BY <1>6, <1>7, <1>8, <1>9 DEF DeviceStep

\* The device stands still while the child moves.
DeviceIdle == UNCHANGED <<devSession, devPort, devSessions, devRecv, executed>>

\* Resent packets fly on.
LEMMA FlyOn ==
    ASSUME TypeOK, NEW low \in Nat, Flying(low), NEW resend, inFlight' = Resent(inFlight, resend),
           UNCHANGED <<order, nextSendPacketId, commands>>
    PROVE  Flying(low)'
<1>1. inFlight \in SUBSET InFlightPacket
  BY DEF TypeOK
<1>2. /\ \A p \in inFlight' : \E q \in inFlight : SamePacket(p, q)
      /\ \A q \in inFlight : \E p \in inFlight' : SamePacket(p, q)
      /\ \A p, q \in inFlight' : p.order = q.order => p = q
  <2>1. \A p, q \in inFlight : p.order = q.order => p = q
    BY DEF Flying
  <2> QED
    BY <1>1, <2>1, ResentPackets
<1>3. Offset' = Offset
  BY DEF Offset
<1>4. /\ \A p \in inFlight' : p.order \in low + 1 .. order
      /\ \A o \in low + 1 .. order : \E p \in inFlight' : p.order = o
      /\ \A p \in inFlight' : p.packetId = p.order % MaxPacketId /\ p.trackingId = p.order + Offset
  <2>1. ASSUME NEW p \in inFlight'
        PROVE  /\ p.order \in low + 1 .. order
               /\ p.packetId = p.order % MaxPacketId /\ p.trackingId = p.order + Offset
    <3>1. PICK q \in inFlight : SamePacket(p, q)
      BY <1>2
    <3>2. /\ q.order \in low + 1 .. order
          /\ q.packetId = q.order % MaxPacketId /\ q.trackingId = q.order + Offset
      BY DEF Flying
    <3> QED
      BY <3>1, <3>2 DEF SamePacket
  <2>2. ASSUME NEW o \in low + 1 .. order PROVE \E p \in inFlight' : p.order = o
    <3>1. PICK q \in inFlight : q.order = o
      BY DEF Flying
    <3>2. PICK p \in inFlight' : SamePacket(p, q)
      BY <1>2
    <3> QED
      BY <3>1, <3>2 DEF SamePacket
  <2> QED
    BY <2>1, <2>2
<1> QED
  BY <1>2, <1>3, <1>4 DEF Flying

\* An acknowledgement of the n-th packet takes the first n out of flight, and no other:
\* what is in flight and what can be acknowledged are within half a lap.
LEMMA LandUpTo ==
    ASSUME TypeOK, NEW low \in Nat, NEW k \in Nat, Flying(low), low <= k, k <= order,
           NEW d, "AckReply" \in d.flags,
           NEW n \in 0 .. k, k < n + Lifetime, d.ackId = n % MaxPacketId
    PROVE  /\ AckedPackets(d) = {p \in inFlight : p.order <= n}
           /\ inFlight' = inFlight \ AckedPackets(d) /\ UNCHANGED <<order, nextSendPacketId, commands>>
                => Flying(IF low < n THEN n ELSE low)'
<1>1. /\ order \in Nat /\ low <= order /\ order <= low + Window
      /\ \A p \in inFlight : p.order \in low + 1 .. order /\ p.packetId = p.order % MaxPacketId
  BY DEF Flying, TypeOK
<1>2. ASSUME NEW p \in inFlight
      PROVE  IsPacketCoveredByAck(d.ackId, p.packetId) <=> p.order <= n
  <2> DEFINE o == p.order
  <2>1. o \in Int /\ n \in Int /\ o - n <= Tolerance /\ n - o < Tolerance
    <3>1. order \in Nat /\ order <= low + Window /\ o \in low + 1 .. order
      BY <1>1
    <3> HIDE DEF o
    <3> QED
      BY <3>1, WithinLap, SMTT(30)
  <2>2. p.packetId = o % MaxPacketId
    BY <1>1
  <2> HIDE DEF o
  <2>3. IsPacketCoveredByAck(n % MaxPacketId, o % MaxPacketId) <=> o <= n
    BY <2>1, CoveredIsNotGreater
  <2> QED
    BY <2>2, <2>3 DEF o
<1>3. AckedPackets(d) = {p \in inFlight : p.order <= n}
  BY <1>2 DEF AckedPackets
<1>4. ASSUME inFlight' = inFlight \ AckedPackets(d), UNCHANGED <<order, nextSendPacketId, commands>>
      PROVE  Flying(IF low < n THEN n ELSE low)'
  <2> DEFINE now == IF low < n THEN n ELSE low
  <2>1. inFlight' = {p \in inFlight : ~(p.order <= n)} /\ inFlight' \subseteq inFlight
    BY <1>3, <1>4
  <2>2. now \in Nat /\ now <= order /\ order <= now + Window /\ low <= now /\ n <= now
    BY <1>1, WithinLap
  <2>3. \A p \in inFlight' : p.order \in now + 1 .. order
    BY <1>1, <2>1
  <2>4. \A o \in now + 1 .. order : \E p \in inFlight' : p.order = o
    <3>1. SUFFICES ASSUME NEW o \in now + 1 .. order PROVE \E p \in inFlight' : p.order = o
      OBVIOUS
    <3>2. o \in low + 1 .. order /\ ~(o <= n)
      BY <2>2
    <3> QED
      BY <2>1, <3>2 DEF Flying
  <2> HIDE DEF now
  <2>5. Flying(now)'
    BY <1>4, <2>1, <2>2, <2>3, <2>4 DEF Flying, Offset
  <2> QED
    BY <2>5 DEF now
<1> QED
  BY <1>3, <1>4

\* A batch takes off.
LEMMA TakeOff ==
    ASSUME TypeOK, NEW low \in Nat, Flying(low), NEW n \in Nat, NEW new, SentPackets(n, new),
           commands \in Nat, Cardinality(inFlight) + n <= Window,
           order' = order + n, commands' = commands + n,
           nextSendPacketId' = AdvancePacketId(nextSendPacketId, n)
    PROVE  /\ Flying(low)' /\ Offset' = Offset /\ order' <= low + Window
           /\ LastSentId' = order' % MaxPacketId
           /\ \A p \in new : /\ p.order \in order + 1 .. order'
                             /\ p.packetId = p.order % MaxPacketId
                             /\ p.trackingId = p.order + Offset
<1>1. /\ order \in Nat /\ low <= order /\ order <= low + Window
      /\ nextSendPacketId = (order + 1) % MaxPacketId
  BY DEF Flying, TypeOK
<1>2. Offset' = Offset
  BY <1>1 DEF Offset
<1>3. order' <= low + Window /\ low <= order'
  BY <1>1, CountInFlight
<1>4. \A p \in new : \E i \in 1 .. n : /\ p.order = order + i /\ p.trackingId = commands + i
                                       /\ p.packetId = (order + i) % MaxPacketId
  <2>1. ASSUME NEW i \in 1 .. n
        PROVE  AdvancePacketId(nextSendPacketId, i - 1) = (order + i) % MaxPacketId
    <3> DEFINE a == order + 1
               b == i - 1
    <3>1. a \in Int /\ b \in Int /\ a + b = order + i
      BY <1>1
    <3> HIDE DEF a, b
    <3>2. AdvancePacketId(a % MaxPacketId, b) = (a + b) % MaxPacketId
      BY <3>1, IdsOfNumbers
    <3> QED
      BY <1>1, <3>1, <3>2 DEF a, b
  <2> QED
    BY <2>1 DEF SentPackets
<1>5. \A p \in new : /\ p.order \in order + 1 .. order'
                     /\ p.packetId = p.order % MaxPacketId /\ p.trackingId = p.order + Offset
  <2>1. ASSUME NEW p \in new
        PROVE  /\ p.order \in order + 1 .. order'
               /\ p.packetId = p.order % MaxPacketId /\ p.trackingId = p.order + Offset
    <3>1. PICK i \in 1 .. n : /\ p.order = order + i /\ p.trackingId = commands + i
                              /\ p.packetId = (order + i) % MaxPacketId
      BY <1>4
    <3> QED
      BY <1>1, <3>1 DEF Offset
  <2> QED
    BY <2>1
<1>6. nextSendPacketId' = (order' + 1) % MaxPacketId
  <2> DEFINE a == order + 1
  <2>1. a \in Int /\ n \in Int /\ a + n = order' + 1
    BY <1>1
  <2> HIDE DEF a
  <2>2. AdvancePacketId(a % MaxPacketId, n) = (a + n) % MaxPacketId
    BY <2>1, IdsOfNumbers
  <2> QED
    BY <1>1, <2>1, <2>2 DEF a
<1>7. LastSentId' = order' % MaxPacketId
  <2> DEFINE a == order' + 1
             b == MaxPacketId - 1
             c == order'
  <2>1. a \in Int /\ b \in Int /\ a + b = c + MaxPacketId /\ c \in Int
    BY <1>1, WithinLap
  <2>2. LastSentId' = ((a % MaxPacketId) + MaxPacketId - 1) % MaxPacketId
    BY <1>6 DEF LastSentId
  <2> HIDE DEF a, c
  <2> DEFINE s == a % MaxPacketId
  <2>3. s + MaxPacketId - 1 = s + b
    <3>1. s \in Int
      BY <2>1, LapsAndRemainder
    <3> HIDE DEF s
    <3> QED
      BY <3>1, WithinLap
  <2>4. (s + b) % MaxPacketId = (a + b) % MaxPacketId
    <3> HIDE DEF b
    <3> QED
      BY <2>1, AdvanceOfRemainder
  <2>5. (c + MaxPacketId) % MaxPacketId = c % MaxPacketId
    <3> DEFINE q == c \div MaxPacketId
               r == c % MaxPacketId
    <3>1. r \in 0 .. MaxPacketId - 1 /\ q \in Int /\ c = MaxPacketId * q + r
      BY <2>1, LapsAndRemainder
    <3> HIDE DEF q, r
    <3>2. c + MaxPacketId = MaxPacketId * (q + 1) + r /\ q + 1 \in Int /\ c + MaxPacketId \in Int
      BY <2>1, <3>1
    <3>3. (c + MaxPacketId) % MaxPacketId = r
      BY <3>1, <3>2, LapsDoNotCount
    <3> QED
      BY <3>3 DEF r
  <2>6. LastSentId' = c % MaxPacketId
    <3>1. LastSentId' = (s + b) % MaxPacketId
      BY <2>2, <2>3
    <3>2. (a + b) % MaxPacketId = c % MaxPacketId
      BY <2>1, <2>5
    <3> QED
      BY <2>4, <3>1, <3>2
  <2> QED
    BY <2>6 DEF c
<1>8. /\ inFlight' = inFlight \union new
      /\ \A p, q \in new : p.order = q.order => p = q
      /\ \A i \in 1 .. n : \E p \in new : p.order = order + i
  BY DEF SentPackets
<1>9. \A p \in inFlight : p.order \in low + 1 .. order /\ p.order \in Nat
  BY <1>1 DEF Flying
<1>10. \A p \in inFlight' : p.order \in low + 1 .. order'
  BY <1>1, <1>5, <1>8, <1>9
<1>11. \A o \in low + 1 .. order' : \E p \in inFlight' : p.order = o
  <2>1. SUFFICES ASSUME NEW o \in low + 1 .. order' PROVE \E p \in inFlight' : p.order = o
    OBVIOUS
  <2>2. CASE o \in low + 1 .. order
    <3>1. PICK p \in inFlight : p.order = o
      BY <2>2 DEF Flying
    <3> QED
      BY <1>8, <3>1
  <2>3. CASE o \notin low + 1 .. order
    <3>1. PICK j \in 1 .. n : order + j = o
      <4>1. o - order \in 1 .. n /\ order + (o - order) = o
        BY <1>1, <2>1, <2>3
      <4> QED
        BY <4>1
    <3>2. PICK p \in new : p.order = order + j
      BY <1>8
    <3> QED
      BY <1>8, <3>1, <3>2
  <2> QED
    BY <2>2, <2>3
<1>12. \A p, q \in inFlight' : p.order = q.order => p = q
  <2>1. \A p \in inFlight, q \in new : p.order # q.order
    BY <1>1, <1>5, <1>9
  <2> QED
    BY <1>8, <2>1 DEF Flying
<1>13. \A p \in inFlight' : p.packetId = p.order % MaxPacketId /\ p.trackingId = p.order + Offset
  BY <1>5, <1>8 DEF Flying
<1>14. Flying(low)'
  BY <1>2, <1>3, <1>6, <1>10, <1>11, <1>12, <1>13 DEF Flying
<1> QED
  BY <1>2, <1>3, <1>5, <1>7, <1>14

\* No session can begin in the session of a step that stays in one or ends one.
LEMMA BeginningCarried ==
    ASSUME ~StaleHello, OneBeginning, NEW incoming, incoming \subseteq toChild, Carry(incoming),
           connectionState' = "Established" => connectionState = "Established" \/ Answers' = {}
    PROVE  OneBeginning'
<1>1. \A d \in toDevice' : d.kind = "hello" => connectionState' # "Established"
  BY DEF Carry, StillToDevice
<1>2. Answers' \subseteq Answers
  BY DEF Carry, Answers, IsHelloAnswer
<1> QED
  BY <1>1, <1>2 DEF OneBeginning

\* A step of the child that sends nothing but packets in flight, in a session or into one.
LEMMA KeepSending ==
    ASSUME LinkBase, NEW low \in Nat, NEW k \in Nat, Sending(low, k),
           NEW incoming, incoming \subseteq toChild, Carry(incoming), DeviceIdle,
           UNCHANGED <<socket, openSockets, restarting, nextSendPacketId, order, commands>>,
           connectionState' \in {connectionState, "Established"},
           NEW resend, inFlight' = Resent(inFlight, resend),
           \A d \in sending' : d.kind = "command" => \E p \in inFlight : d = Command(socket, p)
    PROVE  Sending(low, k)'
<1> SUFFICES ASSUME Numbered' PROVE Sending(low, k)'
  BY DEF Sending
<1>1. Numbered /\ Offset' = Offset
  BY DEF Numbered, SocketOpen, Offset
<1>2. /\ low <= k /\ k <= order /\ order <= commands
      /\ connectionState # "Established" => k = 0
      /\ Flying(low) /\ Executed(k) /\ Outgoing /\ RepliesOf(k)
  BY <1>1 DEF Sending
<1>3. TypeOK /\ order \in Nat
  BY DEF LinkBase, LinkTypeInv, TypeOK
<1>4. Flying(low)'
  BY <1>2, <1>3, FlyOn
<1>5. Executed(k)'
  BY <1>1, <1>2 DEF Executed, DeviceIdle
<1>6. toDevice' \subseteq toDevice \union sending' /\ toChild' \subseteq toChild
  BY DEF Carry
<1>7. Outgoing'
  <2>1. SUFFICES ASSUME NEW d \in toDevice', d.kind = "command", ForSession(d)
                 PROVE  \E o \in 1 .. order : /\ order < o + Lifetime
                                              /\ d.packetId = o % MaxPacketId
                                              /\ d.trackingId = o + Offset
    BY <1>1 DEF Outgoing, ForSession, DeviceIdle
  <2>2. CASE d \in toDevice
    BY <1>2, <2>1, <2>2 DEF Outgoing
  <2>3. CASE d \in sending'
    <3>1. PICK p \in inFlight : d = Command(socket, p)
      BY <2>1, <2>3
    <3>2. /\ p.order \in low + 1 .. order /\ low <= order /\ order <= low + Window
          /\ p.packetId = p.order % MaxPacketId /\ p.trackingId = p.order + Offset
      BY <1>2 DEF Flying
    <3>3. d.packetId = p.packetId /\ d.trackingId = p.trackingId
      BY <3>1 DEF Command
    <3>4. p.order \in 1 .. order /\ order < p.order + Lifetime
      BY <1>3, <3>2, WithinLap
    <3> QED
      BY <3>2, <3>3, <3>4
  <2> QED
    BY <1>6, <2>1, <2>2, <2>3
<1>8. RepliesOf(k)'
  BY <1>2, <1>6 DEF RepliesOf, Talking, DeviceIdle
<1> QED
  BY <1>1, <1>2, <1>4, <1>5, <1>7, <1>8 DEF Sending

\* An acknowledgement is of packets the device accepted.
LEMMA SettledSending ==
    ASSUME LinkBase, Accounted, NEW low \in Nat, NEW k \in Nat, Sending(low, k), DeviceIdle,
           NEW d \in toChild, d.port = socket, Listening, "AckReply" \in d.flags, Settled(d),
           Carry(toChild), commands' = commands,
           acknowledged' = acknowledged \union {p.trackingId : p \in AckedPackets(d)}
    PROVE  (\E l \in Nat : Sending(l, k)') /\ Accounted'
<1>1. Numbered /\ Numbered' /\ Offset' = Offset
  <2>1. restarting = 0
    BY DEF LinkBase, AbandonedIsSilent, Listening, RestInv, TypeOK
  <2> QED
    BY <2>1 DEF Numbered, Listening, Settled, SocketOpen, Offset
<1>2. /\ low <= k /\ k <= order /\ order <= commands
      /\ Flying(low) /\ Executed(k) /\ Outgoing /\ RepliesOf(k)
  BY <1>1 DEF Sending
<1>3. TypeOK /\ connectionState' = "Established"
  BY DEF LinkBase, LinkTypeInv, Listening, Settled
<1>4. PICK n \in 0 .. k : k < n + Lifetime /\ d.ackId = n % MaxPacketId
  BY <1>2 DEF RepliesOf
<1> DEFINE l == IF low < n THEN n ELSE low
<1>5. /\ AckedPackets(d) = {p \in inFlight : p.order <= n}
      /\ Flying(l)'
  BY <1>2, <1>3, <1>4, LandUpTo DEF Settled
<1>6. l \in Nat /\ l <= k
  BY <1>2
<1> HIDE DEF l
<1>7. Executed(k)'
  BY <1>1, <1>2 DEF Executed, DeviceIdle
<1>8. toDevice' \subseteq toDevice /\ toChild' \subseteq toChild
  BY DEF Carry, Settled
<1>9. Outgoing'
  BY <1>1, <1>2, <1>8 DEF Outgoing, ForSession, DeviceIdle, Settled
<1>10. RepliesOf(k)'
  BY <1>2, <1>8 DEF RepliesOf, Talking, DeviceIdle, Settled
<1>11. Sending(l, k)'
  BY <1>2, <1>3, <1>5, <1>6, <1>7, <1>9, <1>10 DEF Sending, Settled
<1>12. ASSUME NEW p \in AckedPackets(d)
       PROVE  \E i \in DOMAIN executed : executed[i] = p.trackingId
  <2>1. p.order \in low + 1 .. order /\ p.order <= n /\ p.trackingId = p.order + Offset
    BY <1>2, <1>5 DEF Flying
  <2>2. p.order \in 1 .. k
    BY <2>1
  <2> QED
    BY <1>2, <2>1, <2>2 DEF Executed
<1>13. Accounted'
  <2>1. AcknowledgedWasExecuted'
    BY <1>12 DEF Accounted, AcknowledgedWasExecuted, DeviceIdle
  <2> QED
    BY <2>1 DEF Accounted, ExecutedInOrder, DeviceIdle
<1> QED
  BY <1>6, <1>11, <1>13

\* A HELLO starts the count again: what is left of the last session is foreign to the next.
LEMMA DialledSending ==
    ASSUME LinkBase, Accounted, NEW low \in Nat, NEW k \in Nat, Sending(low, k), DeviceIdle,
           Dialled, Carry(toChild), commands' = commands
    PROVE  Sending(0, 0)'
<1>1. commands \in Nat /\ socket \in Nat
  BY DEF LinkBase, LinkTypeInv, LinkTypeOK, TypeOK
<1>2. 0 % MaxPacketId = 0 /\ (0 + 1) % MaxPacketId = 1 /\ 0 <= 0 + Window
  BY WithinLap, ModWithinLap
<1>3. Flying(0)'
  BY <1>2 DEF Flying, Dialled
<1>4. Executed(0)'
  <2>1. Offset' = commands
    BY <1>1 DEF Offset, Dialled
  <2>2. \A i \in DOMAIN executed : executed[i] <= 0 + commands
    BY <1>1 DEF Accounted
  <2> QED
    BY <2>1, <2>2 DEF Executed, DeviceIdle
<1>5. toDevice' \subseteq toDevice \union sending' /\ toChild' \subseteq toChild
  BY DEF Carry
<1>6. Outgoing'
  <2>1. ASSUME NEW d \in toDevice', d.kind = "command", ForSession(d)
        PROVE  FALSE
    <3>1. d \in toDevice
      BY <1>5, <2>1 DEF Dialled, Hello
    <3> QED
      BY <2>1, <3>1, HeardInSession DEF Listening, Dialled
  <2> QED
    BY <2>1 DEF Outgoing, ForSession, DeviceIdle
<1>7. RepliesOf(0)'
  <2>1. CASE socket' = socket /\ SocketOpen /\ Answers = {}
    <3>1. ~Talking /\ \A d \in toChild : d.port # socket
      BY <2>1 DEF LinkBase, SessionInv, SameSession, Dialled
    <3> QED
      BY <1>5, <2>1, <3>1 DEF RepliesOf, Talking, DeviceIdle
  <2>2. CASE socket' = socket /\ SocketOpen /\ Answers # {}
    BY <1>5, <2>2 DEF LinkBase, Unheard, RepliesOf, Talking, DeviceIdle, Dialled
  <2>3. CASE socket' = socket + 1
    <3>1. socket' \notin greeted
      BY <1>1, <2>3 DEF LinkBase, LinkTypeInv, TypeOK
    <3>2. /\ \A d \in toChild : d.port # socket'
          /\ devSession # 0 => devPort # socket'
      BY <3>1 DEF LinkBase, LinkTypeInv, Introduced
    <3> QED
      BY <1>5, <3>2 DEF RepliesOf, Talking, DeviceIdle
  <2> QED
    BY <2>1, <2>2, <2>3 DEF Dialled
<1>8. 0 <= order' /\ order' <= commands'
  BY <1>1 DEF Dialled
<1> QED
  BY <1>3, <1>4, <1>6, <1>7, <1>8 DEF Sending

\* The parent's packets are sent.
LEMMA BatchSending ==
    ASSUME LinkBase, Accounted, NEW low \in Nat, NEW k \in Nat, Sending(low, k), DeviceIdle,
           NEW n \in 1 .. MaxBatch, SendPackets([i \in 1 .. n |-> commands + i]),
           Cardinality(inFlight) + n <= Window, commands' = commands + n, Carry(toChild)
    PROVE  Sending(low, k)'
<1>1. UNCHANGED <<connectionState, socket, openSockets, restarting>>
  BY DEF SendPackets, sockets
<1>2. Numbered' = Numbered
  BY <1>1 DEF Numbered, SocketOpen
<1> SUFFICES ASSUME Numbered PROVE Sending(low, k)'
  BY <1>2 DEF Sending
<1>3. TypeOK /\ LinkTypeInv /\ order \in Nat /\ commands \in Nat /\ n \in Nat
  BY DEF LinkBase, LinkTypeInv, LinkTypeOK, TypeOK
<1>4. /\ low <= k /\ k <= order /\ order <= commands
      /\ connectionState # "Established" => k = 0
      /\ Flying(low) /\ Executed(k) /\ Outgoing /\ RepliesOf(k)
      /\ low <= order
  BY DEF Sending, Flying
<1>5. /\ order' = order + n /\ nextSendPacketId' = AdvancePacketId(nextSendPacketId, n)
      /\ \E new : SentPackets(n, new)
  BY <1>3, NewPackets DEF Numbered
<1>6. PICK new : SentPackets(n, new)
  BY <1>5
<1>7. /\ Flying(low)' /\ Offset' = Offset /\ order' <= low + Window
      /\ LastSentId' = order' % MaxPacketId
      /\ \A p \in new : /\ p.order \in order + 1 .. order'
                        /\ p.packetId = p.order % MaxPacketId
                        /\ p.trackingId = p.order + Offset
  BY <1>3, <1>4, <1>5, <1>6, TakeOff
<1>8. Executed(k)'
  BY <1>4, <1>7 DEF Executed, DeviceIdle
<1>9. /\ toDevice' \subseteq toDevice \union sending' /\ toChild' \subseteq toChild
      /\ \A d \in toDevice' : d.kind = "command" => Recent(LastSentId', d.packetId)
  BY DEF Carry, StillToDevice
<1>10. Outgoing'
  <2>1. SUFFICES ASSUME NEW d \in toDevice', d.kind = "command", ForSession(d)
                 PROVE  \E o \in 1 .. order' : /\ order' < o + Lifetime
                                               /\ d.packetId = o % MaxPacketId
                                               /\ d.trackingId = o + Offset
    BY <1>7 DEF Outgoing, ForSession, DeviceIdle
  <2>2. CASE d \in toDevice
    <3>1. PICK o \in 1 .. order : /\ order < o + Lifetime
                                  /\ d.packetId = o % MaxPacketId /\ d.trackingId = o + Offset
      BY <1>4, <2>1, <2>2 DEF Outgoing
    <3>2. Recent(order' % MaxPacketId, o % MaxPacketId)
      BY <1>7, <1>9, <2>1, <3>1
    <3>3. order' \in Int /\ o \in Int /\ 0 <= order' - o /\ order' - o < MaxPacketId
      BY <1>3, <1>4, <1>5, <1>7, <3>1, WithinLap
    <3>4. order' < o + Lifetime
      BY <3>2, <3>3, RecentNumbers
    <3>5. o \in 1 .. order'
      BY <1>3, <1>5
    <3> QED
      BY <3>1, <3>4, <3>5
  <2>3. CASE d \in sending'
    <3>1. PICK p \in new : d = Command(socket, p)
      BY <1>6, <2>3 DEF SentPackets
    <3>2. /\ p.order \in order + 1 .. order' /\ p.packetId = p.order % MaxPacketId
          /\ p.trackingId = p.order + Offset
      BY <1>7
    <3>3. d.packetId = p.packetId /\ d.trackingId = p.trackingId
      BY <3>1 DEF Command
    <3>4. p.order \in 1 .. order' /\ order' < p.order + Lifetime
      <4> DEFINE o == p.order
      <4>1. /\ o \in order + 1 .. order' /\ order' = order + n /\ order \in Nat /\ n \in Nat
            /\ low <= order /\ order' <= low + Window
        BY <1>3, <1>4, <1>5, <1>7, <3>2
      <4> HIDE DEF o
      <4>2. o \in 1 .. order' /\ order' < o + Lifetime
        BY <4>1, WithinLap
      <4> QED
        BY <4>2 DEF o
    <3> QED
      BY <3>2, <3>3, <3>4
  <2> QED
    BY <1>9, <2>1, <2>2, <2>3
<1>11. RepliesOf(k)'
  BY <1>1, <1>4, <1>9 DEF RepliesOf, Talking, DeviceIdle
<1>12. k <= order' /\ order' <= commands' /\ connectionState' = connectionState
  BY <1>1, <1>3, <1>4, <1>5
<1> QED
  BY <1>4, <1>7, <1>8, <1>10, <1>11, <1>12 DEF Sending

\* The steps of the child keep the account of what was sent.
LEMMA ChildSending ==
    ASSUME ~Overlap, ~SlowParent, ~LateHello, ~StaleHello, LinkBase, SendInv,
           LinkSendPackets \/ LinkReceivePacket \/ LinkChildAlone
    PROVE  SendInv'
<1>1. PICK low \in Nat, k \in Nat : Sending(low, k)
  BY DEF SendInv
<1>2. ASSUME NEW l \in Nat, NEW n \in Nat, Sending(l, n)', OneBeginning', Accounted' PROVE SendInv'
  BY <1>2 DEF SendInv
<1>3. OneBeginning /\ Accounted /\ DeviceIdle
  BY DEF SendInv, LinkSendPackets, LinkReceivePacket, LinkChildAlone, Alone, deviceVars, DeviceIdle
<1>4. ASSUME commands' = commands, acknowledged' = acknowledged PROVE Accounted'
  BY <1>3, <1>4 DEF Accounted, ExecutedInOrder, AcknowledgedWasExecuted, DeviceIdle
<1>5. ASSUME Quiet, Carry(toChild), commands' = commands, acknowledged' = acknowledged
      PROVE  SendInv'
  <2>1. PICK resend : inFlight' = Resent(inFlight, resend)
    BY <1>5 DEF Quiet
  <2>2. \A d \in sending' : d.kind = "command" => \E p \in inFlight : d = Command(socket, p)
    BY <1>5 DEF Quiet, Repeats, Ack
  <2>3. /\ UNCHANGED <<socket, openSockets, restarting, nextSendPacketId, order, commands>>
        /\ connectionState' = connectionState
    BY <1>5 DEF Quiet
  <2>4. Sending(low, k)'
    BY <1>1, <1>3, <1>5, <2>1, <2>2, <2>3, KeepSending
  <2>5. OneBeginning'
    BY <1>3, <1>5, <2>3, BeginningCarried
  <2> QED
    BY <1>2, <1>4, <1>5, <2>4, <2>5
<1>6. ASSUME Dialled \/ Abandoned \/ ClosedDown, Carry(toChild), commands' = commands,
             acknowledged' = acknowledged
      PROVE  SendInv'
  <2>1. OneBeginning'
    <3>1. connectionState' = "Established" => connectionState = "Established"
      BY <1>6 DEF Dialled, Abandoned, ClosedDown
    <3> QED
      BY <1>3, <1>6, <3>1, BeginningCarried
  <2>2. CASE Dialled
    <3>1. Sending(0, 0)'
      BY <1>1, <1>3, <1>6, <2>2, DialledSending
    <3> QED
      BY <1>2, <1>4, <1>6, <2>1, <3>1
  <2>3. CASE Abandoned \/ ClosedDown
    <3>1. ~Numbered'
      BY <2>3 DEF Abandoned, ClosedDown, Numbered, SocketOpen
    <3>2. Sending(0, 0)'
      BY <3>1 DEF Sending
    <3> QED
      BY <1>2, <1>4, <1>6, <2>1, <3>2
  <2> QED
    BY <1>6, <2>2, <2>3
<1>7. CASE LinkChildAlone
  <2>1. ChildAlone /\ Carry(toChild) /\ commands' = commands /\ acknowledged' = acknowledged
    BY <1>7 DEF LinkChildAlone, Alone, history
  <2>2. Dialled \/ Abandoned \/ ClosedDown \/ Quiet
    BY <2>1, AloneEffect DEF LinkBase
  <2> QED
    BY <1>5, <1>6, <2>1, <2>2
<1>8. CASE LinkSendPackets
  <2>1. PICK n \in 1 .. MaxBatch : /\ SendPackets([i \in 1 .. n |-> commands + i])
                                   /\ Cardinality(inFlight) + n <= Window
                                   /\ commands' = commands + n /\ Carry(toChild)
                                   /\ acknowledged' = acknowledged
    BY <1>8 DEF LinkSendPackets
  <2>2. Sending(low, k)'
    BY <1>1, <1>3, <2>1, BatchSending
  <2>3. OneBeginning'
    <3>1. connectionState' = connectionState
      BY <2>1 DEF SendPackets
    <3> QED
      BY <1>3, <2>1, <3>1, BeginningCarried
  <2>4. Accounted'
    <3>1. \A i \in DOMAIN executed : executed[i] \in Nat
      <4>1. executed \in Seq(TrackingIds) /\ TrackingIds \subseteq Nat
        BY DEF LinkBase, LinkTypeInv, LinkTypeOK
      <4> QED
        BY <4>1
    <3>2. commands \in Nat /\ n \in Nat
      BY DEF LinkBase, LinkTypeInv, LinkTypeOK
    <3>3. \A i \in DOMAIN executed : executed[i] <= commands + n
      BY <1>3, <3>1, <3>2 DEF Accounted
    <3> QED
      BY <1>3, <2>1, <3>3 DEF Accounted, ExecutedInOrder, AcknowledgedWasExecuted, DeviceIdle
  <2> QED
    BY <1>2, <2>2, <2>3, <2>4
<1>9. CASE LinkReceivePacket
  <2>1. PICK d \in toChild :
           /\ InTurn(d) /\ ReceivePacket(d) /\ Carry(AfterDelivery(d))
           /\ acknowledged' = acknowledged \union Acknowledgements /\ commands' = commands
    BY <1>9 DEF LinkReceivePacket
  <2>2. Acknowledgements = IF ProcessPacket(d) /\ "AckReply" \in d.flags
                           THEN {p.trackingId : p \in AckedPackets(d)} ELSE {}
    BY <2>1, PostedCalls
  <2>3. CASE d \in Answers /\ Starts(d) /\ ~ProcessPacket(d)
    <3>1. Carry(toChild \ {d}) /\ acknowledged' = acknowledged
      BY <2>1, <2>2, <2>3 DEF AfterDelivery, Answers
    <3>2. Answers' = {}
      BY <1>3, <2>3, <3>1, StartSessions DEF DeviceIdle, DeviceWaits
    <3>3. OneBeginning'
      BY <1>3, <3>1, <3>2, BeginningCarried
    <3>4. inFlight' = Resent(inFlight, {})
      BY <2>3, ResentNothing DEF Starts
    <3>5. \A e \in sending' : e.kind = "command" => \E p \in inFlight : e = Command(socket, p)
      BY <2>3 DEF Starts, Ack
    <3>6. Sending(low, k)'
      BY <1>1, <1>3, <2>1, <2>3, <3>1, <3>4, <3>5, KeepSending DEF Starts
    <3> QED
      BY <1>2, <1>4, <2>1, <3>1, <3>3, <3>6
  <2>4. CASE /\ Listening /\ d.port = socket /\ d.session = sessionId /\ ProcessPacket(d)
             /\ \/ (Abandoned \/ Quiet) /\ (~IsNext(d)) /\ AckedPackets(d) = {}
                \/ Accepted(d) /\ IsNext(d) /\ AckedPackets(d) = {}
                \/ Settled(d) /\ (~IsNext(d)) /\ "AckReply" \in d.flags
    <3>1. Carry(toChild)
      BY <2>1, <2>4 DEF AfterDelivery, Listening, Answers
    <3>2. ASSUME AckedPackets(d) = {} PROVE acknowledged' = acknowledged
      BY <2>1, <2>2, <3>2
    <3>3. CASE Abandoned /\ AckedPackets(d) = {}
      BY <1>6, <2>1, <3>1, <3>2, <3>3
    <3>4. CASE Quiet /\ AckedPackets(d) = {}
      BY <1>5, <2>1, <3>1, <3>2, <3>4
    <3>5. CASE Accepted(d) /\ AckedPackets(d) = {}
      <4>1. inFlight' = Resent(inFlight, {})
        BY <3>5, ResentNothing DEF Accepted
      <4>2. \A e \in sending' : e.kind = "command" => \E p \in inFlight : e = Command(socket, p)
        BY <3>5 DEF Accepted, Ack
      <4>3. Sending(low, k)'
        BY <1>1, <1>3, <2>1, <3>1, <3>5, <4>1, <4>2, KeepSending DEF Accepted
      <4>4. OneBeginning'
        BY <1>3, <3>1, <3>5, BeginningCarried DEF Accepted
      <4> QED
        BY <1>2, <1>4, <2>1, <3>2, <3>5, <4>3, <4>4
    <3>6. CASE Settled(d) /\ "AckReply" \in d.flags
      <4>1. acknowledged' = acknowledged \union {p.trackingId : p \in AckedPackets(d)}
        BY <2>1, <2>2, <2>4, <3>6
      <4>2. (\E l \in Nat : Sending(l, k)') /\ Accounted'
        BY <1>1, <1>3, <2>1, <2>4, <3>1, <3>6, <4>1, SettledSending
      <4>3. OneBeginning'
        BY <1>3, <3>1, <3>6, BeginningCarried DEF Settled
      <4> QED
        BY <1>2, <4>2, <4>3
    <3> QED
      BY <2>4, <3>3, <3>4, <3>5, <3>6
  <2> QED
    BY <2>1, <2>3, <2>4, ReceiveEffect
<1> QED
  BY <1>7, <1>8, <1>9

\* At the start nothing was sent.
LEMMA SendInit == LinkInit => SendInv
<1> SUFFICES ASSUME LinkInit PROVE SendInv
  OBVIOUS
<1>1. /\ toDevice = {} /\ toChild = {} /\ inFlight = {} /\ order = 0 /\ nextSendPacketId = 1
      /\ connectionState = "Closed" /\ devSession = 0
      /\ commands = 0 /\ executed = <<>> /\ acknowledged = {}
  BY DEF LinkInit, Init
<1>2. OneBeginning /\ Accounted
  BY <1>1 DEF OneBeginning, Accounted, ExecutedInOrder, AcknowledgedWasExecuted
<1>3. (0 + 1) % MaxPacketId = 1 /\ 0 <= 0 + Window
  BY WithinLap, ModWithinLap
<1>4. Flying(0)
  BY <1>1, <1>3 DEF Flying
<1>5. Executed(0) /\ Outgoing /\ RepliesOf(0)
  BY <1>1 DEF Executed, Outgoing, RepliesOf, Talking
<1>6. Sending(0, 0)
  BY <1>1, <1>4, <1>5 DEF Sending
<1> QED
  BY <1>2, <1>6 DEF SendInv

\* Every step keeps the account of what was sent.
LEMMA SendStep ==
    ASSUME ~Overlap, ~SlowParent, ~LateHello, ~StaleHello, LinkBase, SendInv, [LinkNext]_linkVars
    PROVE  SendInv'
<1>1. CASE UNCHANGED linkVars
  <2>1. UNCHANGED <<childVars, commands, acknowledged, executed, toDevice, toChild,
                    devSession, devPort, devRecv>>
    BY <1>1 DEF linkVars, deviceVars, history
  <2>2. /\ UNCHANGED <<connectionState, socket, openSockets, sessionId, restarting, inFlight,
                       order, nextSendPacketId>>
        /\ Numbered' = Numbered /\ Offset' = Offset
        /\ \A l \in Nat : Flying(l)' = Flying(l)
    BY <2>1, ChildStill
  <2>3. Accounted' = Accounted /\ \A n \in Nat : Executed(n)' = Executed(n)
    BY <2>1, <2>2, SameCounts
  <2>4. OneBeginning' = OneBeginning
    BY <2>1, <2>2 DEF OneBeginning, Answers, IsHelloAnswer
  <2>5. PICK low \in Nat, k \in Nat : Sending(low, k)
    BY DEF SendInv
  <2>6. Outgoing => Outgoing'
    BY <2>1, <2>2 DEF Outgoing, ForSession
  <2>7. RepliesOf(k) => RepliesOf(k)'
    BY <2>1, <2>2 DEF RepliesOf, Talking
  <2>8. Sending(low, k)'
    BY <2>1, <2>2, <2>3, <2>5, <2>6, <2>7 DEF Sending
  <2> QED
    BY <2>3, <2>4, <2>8 DEF SendInv
<1> QED
  BY <1>1, DeviceSending, ChildSending DEF LinkNext

\* The account of what was sent is always true.
LEMMA AlwaysSending ==
    ASSUME ~Overlap, ~SlowParent, ~LateHello, ~StaleHello
    PROVE  LinkSpec => [](LinkBase /\ SendInv)
<1>1. LinkBase /\ SendInv /\ [LinkNext]_linkVars => (LinkBase /\ SendInv)'
  BY LinkBaseStep, SendStep
<1>2. LinkInit => LinkBase /\ SendInv
  BY LinkBaseInit, SendInit
<1> QED
  BY <1>1, <1>2, PTL DEF LinkSpec

\* The packets in flight are the last ones sent, without a gap, each with the id that follows
\* its predecessor's, across every wrap of the ids (atemSocketChild.ts:173-174, 186-192,
\* 295-306).  A HELLO answered late or twice is excepted.
THEOREM InFlightAlwaysContiguous ==
    ASSUME ~Overlap, ~SlowParent, ~LateHello, ~StaleHello
    PROVE  LinkSpec => []InFlightIsContiguous
<1>1. LinkBase /\ SendInv => InFlightIsContiguous
  <2>1. SUFFICES ASSUME LinkBase, SendInv, SocketOpen, restarting = 0
                 PROVE  /\ nextSendPacketId = AdvancePacketId(1, order)
                        /\ \A p \in inFlight :
                             /\ p.order \in 1 .. order /\ p.packetId = p.order % MaxPacketId
                             /\ \A n \in p.order .. order : \E q \in inFlight : q.order = n
                        /\ \A p, q \in inFlight : p.order = q.order => p = q
    BY DEF InFlightIsContiguous
  <2>2. PICK low \in Nat, k \in Nat : Sending(low, k)
    BY <2>1 DEF SendInv
  <2>3. Flying(low) /\ order \in Nat
    BY <2>1, <2>2 DEF Sending, Numbered, LinkBase, LinkTypeInv, TypeOK
  <2>4. nextSendPacketId = AdvancePacketId(1, order)
    <3>1. order + 1 = 1 + order
      BY <2>3
    <3> QED
      BY <2>3, <3>1 DEF Flying, AdvancePacketId
  <2>5. ASSUME NEW p \in inFlight
        PROVE  /\ p.order \in 1 .. order /\ p.packetId = p.order % MaxPacketId
               /\ \A n \in p.order .. order : \E q \in inFlight : q.order = n
    <3>1. p.order \in low + 1 .. order /\ p.packetId = p.order % MaxPacketId
      BY <2>3 DEF Flying
    <3>2. \A n \in p.order .. order : n \in low + 1 .. order
      BY <2>3, <3>1
    <3>3. p.order \in 1 .. order
      BY <2>3, <3>1
    <3> QED
      BY <2>3, <3>1, <3>2, <3>3 DEF Flying
  <2> QED
    BY <2>3, <2>4, <2>5 DEF Flying
<1> QED
  BY <1>1, AlwaysSending, PTL

\* The device accepts the parent's packets in the order they were handed over, none of them
\* twice: no id is reused for another packet while the first can still arrive
\* (atemSocketChild.ts:173-174, 354-380).
THEOREM AlwaysExecutedInOrder ==
    ASSUME ~Overlap, ~SlowParent, ~LateHello, ~StaleHello
    PROVE  LinkSpec => []ExecutedInOrder
<1>1. SendInv => ExecutedInOrder
  BY DEF SendInv, Accounted
<1> QED
  BY <1>1, AlwaysSending, PTL

\* A packet reported as acknowledged was accepted by the device: no acknowledgement of an
\* earlier lap of the ids or of an earlier session covers it (atemSocketChild.ts:237-243,
\* 292-309).
THEOREM AcknowledgedAlwaysExecuted ==
    ASSUME ~Overlap, ~SlowParent, ~LateHello, ~StaleHello
    PROVE  LinkSpec => []AcknowledgedWasExecuted
<1>1. SendInv => AcknowledgedWasExecuted
  BY DEF SendInv, Accounted
<1> QED
  BY <1>1, AlwaysSending, PTL
=============================================================================
