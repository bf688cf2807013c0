------------------------- MODULE AtemSocketChildProofs -------------------------
(***************************************************************************)
(* Invariants of the connection child, for every number of packet ids,     *)
(* retries, sockets and calls, whatever device, network and parent do.     *)
(***************************************************************************)
EXTENDS MCChild, SequenceTheorems, TLAPS

-----------------------------------------------------------------------------
(* What the packet id arithmetic computes, for every number of ids *)

\* The remainder of a number at most one lap away from the ids.
LEMMA ModWithinLap ==
    ASSUME NEW n \in Int, -MaxPacketId <= n, n < 2 * MaxPacketId
    PROVE  n % MaxPacketId = IF n < 0 THEN n + MaxPacketId
                             ELSE IF n < MaxPacketId THEN n ELSE n - MaxPacketId
    BY PacketIdAssumption

\* Half of the ids, twice, are all of them: their number is even.
LEMMA ToleranceIsHalf == Tolerance \in Nat /\ MaxPacketId = 2 * Tolerance
    BY PacketIdAssumption DEF Tolerance

\* Both ways to advance an id stay among the ids.
LEMMA AdvanceIsPacketId ==
    ASSUME NEW id \in PacketId, NEW n \in Nat
    PROVE  /\ NextPacketId(id) \in PacketId
           /\ AdvancePacketId(id, n) \in PacketId
    BY PacketIdAssumption DEF PacketId, NextPacketId, AdvancePacketId

\* An acknowledgement covers the id it names and those less than half a lap behind it,
\* whether or not the ids wrapped in between: the case distinction of
\* _isPacketCoveredByAck (atemSocketChild.ts:237-243) is exactly a distance modulo
\* the number of ids.
THEOREM CoveredIsHalfLap ==
    ASSUME NEW ackId \in PacketId, NEW packetId \in PacketId
    PROVE  IsPacketCoveredByAck(ackId, packetId)
             <=> (ackId - packetId) % MaxPacketId < Tolerance
<1>1. /\ MaxPacketId \in Nat /\ ackId \in Int /\ packetId \in Int
      /\ 0 <= ackId /\ ackId < MaxPacketId /\ 0 <= packetId /\ packetId < MaxPacketId
  BY PacketIdAssumption DEF PacketId
<1>2. (ackId - packetId) % MaxPacketId
        = IF packetId <= ackId THEN ackId - packetId ELSE ackId - packetId + MaxPacketId
  BY <1>1, ModWithinLap
<1> QED
  BY <1>1, <1>2, ToleranceIsHalf, PacketIdAssumption DEF IsPacketCoveredByAck

\* Of two different ids at most one covers the other: no acknowledgement takes a
\* packet to be both before and after another (atemSocketChild.ts:237-243).
THEOREM CoveringIsAntisymmetric ==
    ASSUME NEW a \in PacketId, NEW b \in PacketId, a # b
    PROVE  ~(IsPacketCoveredByAck(a, b) /\ IsPacketCoveredByAck(b, a))
  BY ToleranceIsHalf, PacketIdAssumption DEF IsPacketCoveredByAck, PacketId

\* A number is its remainder and some laps.
LEMMA LapsAndRemainder ==
    ASSUME NEW n \in Int
    PROVE  /\ n % MaxPacketId \in 0 .. MaxPacketId - 1
           /\ n \div MaxPacketId \in Int
           /\ n = MaxPacketId * (n \div MaxPacketId) + (n % MaxPacketId)
  BY PacketIdAssumption

\* Whole laps do not change a remainder.
LEMMA LapsDoNotCount ==
    ASSUME NEW r \in 0 .. MaxPacketId - 1, NEW q \in Int, NEW n \in Int,
           n = MaxPacketId * q + r
    PROVE  n % MaxPacketId = r
<1> DEFINE p == n \div MaxPacketId
           s == n % MaxPacketId
<1>1. /\ p \in Int /\ s \in 0 .. MaxPacketId - 1 /\ n = MaxPacketId * p + s
      /\ MaxPacketId \in Nat
  BY LapsAndRemainder, PacketIdAssumption
<1> HIDE DEF p, s
<1>2. MaxPacketId * (p - q) = r - s
  BY <1>1
<1>3. ~(p - q >= 1)
  <2>1. ASSUME NEW m \in Nat, NEW k \in Int, k >= 1
        PROVE  m * k >= m
    BY <2>1
  <2>2. p - q >= 1 => MaxPacketId * (p - q) >= MaxPacketId
    BY <1>1, <2>1
  <2> QED
    BY <1>1, <1>2, <2>2
<1>4. ~(p - q <= -1)
  <2>1. ASSUME NEW m \in Nat, NEW k \in Int, k <= -1
        PROVE  m * k <= -m
    BY <2>1
  <2>2. p - q <= -1 => MaxPacketId * (p - q) <= -MaxPacketId
    BY <1>1, <2>1
  <2> QED
    BY <1>1, <1>2, <2>2
<1>5. p - q = 0
  BY <1>1, <1>3, <1>4
<1>6. p = q
  BY <1>1, <1>5
<1>7. s = r
  BY <1>1, <1>6
<1> QED
  BY <1>7 DEF s

\* Numbers less than a lap apart are told apart by their remainders.
LEMMA SameRemainder ==
    ASSUME NEW a \in Int, NEW b \in Int, a % MaxPacketId = b % MaxPacketId,
           a - b < MaxPacketId, b - a < MaxPacketId
    PROVE  a = b
<1> DEFINE p == a \div MaxPacketId
           q == b \div MaxPacketId
           r == a % MaxPacketId
<1>1. /\ p \in Int /\ q \in Int /\ r \in 0 .. MaxPacketId - 1 /\ MaxPacketId \in Nat
      /\ a = MaxPacketId * p + r /\ b = MaxPacketId * q + r
  BY LapsAndRemainder, PacketIdAssumption
<1> HIDE DEF p, q, r
<1>2. MaxPacketId * (p - q) = a - b
  BY <1>1
<1>3. ~(p - q >= 1)
  <2>1. ASSUME NEW m \in Nat, NEW k \in Int, k >= 1
        PROVE  m * k >= m
    BY <2>1
  <2> QED
    BY <1>1, <1>2, <2>1
<1>4. ~(p - q <= -1)
  <2>1. ASSUME NEW m \in Nat, NEW k \in Int, k <= -1
        PROVE  m * k <= -m
    BY <2>1
  <2> QED
    BY <1>1, <1>2, <2>1
<1>5. p - q = 0
  BY <1>1, <1>3, <1>4
<1>6. p = q
  BY <1>1, <1>5
<1> QED
  BY <1>1, <1>6

\* Remainders may be taken early: of a number to advance, and of two to subtract.
LEMMA AdvanceOfRemainder ==
    ASSUME NEW a \in Int, NEW n \in Int
    PROVE  /\ ((a % MaxPacketId) + n) % MaxPacketId = (a + n) % MaxPacketId
           /\ (n - (a % MaxPacketId)) % MaxPacketId = (n - a) % MaxPacketId
<1>1. MaxPacketId \in Int
  BY PacketIdAssumption
<1>2. ASSUME NEW x \in Int, NEW y \in Int, NEW k \in Int, x = y + MaxPacketId * k
      PROVE  x % MaxPacketId = y % MaxPacketId
  <2> DEFINE p == y \div MaxPacketId
             r == y % MaxPacketId
  <2>1. /\ p \in Int /\ r \in 0 .. MaxPacketId - 1 /\ y = MaxPacketId * p + r
    BY LapsAndRemainder
  <2> HIDE DEF p, r
  <2>2. x = MaxPacketId * (p + k) + r
    BY <1>1, <1>2, <2>1
  <2>3. x % MaxPacketId = r
    BY <2>1, <2>2, LapsDoNotCount
  <2> QED
    BY <2>3 DEF r
<1> DEFINE q == a \div MaxPacketId
           s == a % MaxPacketId
<1>3. q \in Int /\ s \in Int /\ a = MaxPacketId * q + s
  BY LapsAndRemainder
<1> HIDE DEF q, s
<1>4. (s + n) = (a + n) + MaxPacketId * (-q)
  BY <1>1, <1>3
<1>5. (n - s) = (n - a) + MaxPacketId * q
  BY <1>1, <1>3
<1>6. (s + n) % MaxPacketId = (a + n) % MaxPacketId
  BY <1>2, <1>3, <1>4
<1>7. (n - s) % MaxPacketId = (n - a) % MaxPacketId
  BY <1>2, <1>3, <1>5
<1> QED
  BY <1>6, <1>7 DEF s

\* The successor, the advance and the distance of numbers, by their ids.
LEMMA IdsOfNumbers ==
    ASSUME NEW a \in Int, NEW b \in Int
    PROVE  /\ a % MaxPacketId \in PacketId
           /\ NextPacketId(a % MaxPacketId) = (a + 1) % MaxPacketId
           /\ AdvancePacketId(a % MaxPacketId, b) = (a + b) % MaxPacketId
           /\ ((a % MaxPacketId) - (b % MaxPacketId)) % MaxPacketId = (a - b) % MaxPacketId
<1>1. a % MaxPacketId \in 0 .. MaxPacketId - 1 /\ b % MaxPacketId \in Int
  BY LapsAndRemainder
<1>2. /\ ((a % MaxPacketId) + 1) % MaxPacketId = (a + 1) % MaxPacketId
      /\ ((a % MaxPacketId) + b) % MaxPacketId = (a + b) % MaxPacketId
  BY AdvanceOfRemainder
<1> DEFINE c == a % MaxPacketId
<1>3. c \in Int /\ -b \in Int
  BY <1>1
<1>4. (c - (b % MaxPacketId)) % MaxPacketId = (c - b) % MaxPacketId
  BY <1>3, AdvanceOfRemainder
<1>5. (c + (-b)) % MaxPacketId = (a + (-b)) % MaxPacketId
  BY <1>3, AdvanceOfRemainder
<1>6. c + (-b) = c - b /\ a + (-b) = a - b
  BY <1>3
<1> QED
  BY <1>1, <1>2, <1>4, <1>5, <1>6 DEF PacketId, NextPacketId, AdvancePacketId

\* Among numbers at most half a lap apart, an acknowledgement covers those that are
\* not greater.
LEMMA CoveredIsNotGreater ==
    ASSUME NEW a \in Int, NEW n \in Int, n - a <= Tolerance, a - n < Tolerance
    PROVE  IsPacketCoveredByAck(a % MaxPacketId, n % MaxPacketId) <=> n <= a
<1> DEFINE d == a - n
<1>1. IsPacketCoveredByAck(a % MaxPacketId, n % MaxPacketId)
        <=> ((a % MaxPacketId) - (n % MaxPacketId)) % MaxPacketId < Tolerance
  BY IdsOfNumbers, CoveredIsHalfLap
<1>2. ((a % MaxPacketId) - (n % MaxPacketId)) % MaxPacketId = d % MaxPacketId
  BY IdsOfNumbers
<1>3. /\ d \in Int /\ -Tolerance <= d /\ d < Tolerance
      /\ Tolerance \in Nat /\ MaxPacketId = 2 * Tolerance
  BY ToleranceIsHalf
<1>4. d % MaxPacketId = IF d < 0 THEN d + MaxPacketId
                        ELSE IF d < MaxPacketId THEN d ELSE d - MaxPacketId
  BY <1>3, ModWithinLap
<1>5. n <= a <=> d >= 0
  OBVIOUS
<1> HIDE DEF d
<1>6. d % MaxPacketId < Tolerance <=> d >= 0
  BY <1>3, <1>4
<1> QED
  BY <1>1, <1>2, <1>5, <1>6

-----------------------------------------------------------------------------
(* Calls to the parent *)

\* Up to three calls posted as s: each of x, y and z is nothing or one of them.
CallsOf(s, x, y, z, a, b, c) ==
    /\ \A i \in DOMAIN s : \/ x # <<>> /\ i = 1 /\ s[i] = a
                           \/ y # <<>> /\ s[i] = b
                           \/ z # <<>> /\ s[i] = c
    /\ x # <<>> => \E i \in DOMAIN s : s[i] = a
    /\ y # <<>> => \E i \in DOMAIN s : s[i] = b
    /\ z # <<>> => \E i \in DOMAIN s : s[i] = c

\* What a step posts that may make three calls, each or not.
LEMMA OptionalCalls ==
    ASSUME NEW a, NEW b, NEW c,
           NEW x \in {<<>>, <<a>>}, NEW y \in {<<>>, <<b>>}, NEW z \in {<<>>, <<c>>}
    PROVE  CallsOf(x \o y \o z, x, y, z, a, b, c)
<1> DEFINE Calls == {a, b, c}
           xy == x \o y
           s == xy \o z
<1>1. /\ x \in Seq(Calls) /\ Len(x) \in {0, 1} /\ (Len(x) = 1 <=> x # <<>>) /\ (x # <<>> => x[1] = a)
      /\ y \in Seq(Calls) /\ Len(y) \in {0, 1} /\ (Len(y) = 1 <=> y # <<>>) /\ (y # <<>> => y[1] = b)
      /\ z \in Seq(Calls) /\ Len(z) \in {0, 1} /\ (Len(z) = 1 <=> z # <<>>) /\ (z # <<>> => z[1] = c)
  <2>1. ASSUME NEW call \in Calls, NEW o \in {<<>>, <<call>>}
        PROVE  /\ o \in Seq(Calls) /\ Len(o) \in {0, 1}
               /\ (Len(o) = 1 <=> o # <<>>) /\ (o # <<>> => o[1] = call)
    <3>1. CASE o = <<>>
      BY <3>1
    <3>2. CASE o = <<call>>
      BY <3>2
    <3> QED
      BY <3>1, <3>2
  <2>2. a \in Calls /\ b \in Calls /\ c \in Calls
    OBVIOUS
  <2> HIDE DEF Calls
  <2> QED
    BY <2>1, <2>2
<1> HIDE DEF Calls
<1>2. /\ xy \in Seq(Calls) /\ Len(xy) = Len(x) + Len(y)
      /\ \A i \in 1 .. Len(x) + Len(y) : xy[i] = IF i <= Len(x) THEN x[i] ELSE y[i - Len(x)]
  BY <1>1, ConcatProperties
<1> HIDE DEF xy
<1>3. /\ s \in Seq(Calls) /\ Len(s) = Len(xy) + Len(z)
      /\ \A i \in 1 .. Len(xy) + Len(z) : s[i] = IF i <= Len(xy) THEN xy[i] ELSE z[i - Len(xy)]
  <2>1. xy \in Seq(Calls) /\ z \in Seq(Calls)
    BY <1>1, <1>2
  <2> QED
    BY <2>1, ConcatProperties
<1> HIDE DEF s
<1>4. DOMAIN s = 1 .. Len(x) + Len(y) + Len(z)
  BY <1>1, <1>2, <1>3, LenProperties
<1>5. x # <<>> => 1 \in DOMAIN s /\ s[1] = a
  BY <1>1, <1>2, <1>3, <1>4
<1>6. ASSUME z # <<>> PROVE LET i == Len(xy) + 1 IN i \in DOMAIN s /\ s[i] = c
  <2>1. Len(z) = 1 /\ Len(xy) \in Nat
    BY <1>1, <1>2, <1>6
  <2>2. /\ Len(xy) + 1 \in 1 .. Len(xy) + Len(z) /\ ~(Len(xy) + 1 <= Len(xy))
        /\ Len(xy) + 1 - Len(xy) = 1
    BY <2>1
  <2>3. s[Len(xy) + 1] = z[Len(xy) + 1 - Len(xy)]
    BY <1>3, <2>2
  <2>4. DOMAIN s = 1 .. Len(xy) + Len(z)
    BY <1>3, LenProperties
  <2> QED
    BY <1>1, <1>6, <2>2, <2>3, <2>4
<1>7. ASSUME y # <<>> PROVE LET i == Len(x) + 1 IN i \in DOMAIN s /\ s[i] = b
  <2>1. Len(y) = 1 /\ Len(x) \in Nat /\ Len(z) \in Nat /\ Len(xy) = Len(x) + 1
    BY <1>1, <1>2, <1>7
  <2>2. /\ Len(x) + 1 \in 1 .. Len(x) + Len(y) /\ ~(Len(x) + 1 <= Len(x))
        /\ Len(x) + 1 - Len(x) = 1 /\ Len(x) + 1 <= Len(xy)
        /\ Len(x) + 1 \in 1 .. Len(xy) + Len(z)
    BY <2>1
  <2>3. xy[Len(x) + 1] = y[Len(x) + 1 - Len(x)]
    BY <1>2, <2>2
  <2>4. s[Len(x) + 1] = xy[Len(x) + 1]
    BY <1>3, <2>2
  <2>5. DOMAIN s = 1 .. Len(xy) + Len(z)
    BY <1>3, LenProperties
  <2> QED
    BY <1>1, <1>7, <2>2, <2>3, <2>4, <2>5
<1>8. ASSUME NEW i \in DOMAIN s
      PROVE  \/ x # <<>> /\ i = 1 /\ s[i] = a
             \/ y # <<>> /\ s[i] = b
             \/ z # <<>> /\ s[i] = c
  <2>1. i \in Nat /\ i >= 1 /\ i <= Len(x) + Len(y) + Len(z)
    BY <1>1, <1>4
  <2>2. /\ Len(x) \in {0, 1} /\ Len(y) \in {0, 1} /\ Len(z) \in {0, 1}
        /\ Len(xy) = Len(x) + Len(y)
    BY <1>1, <1>2
  <2>5. ASSUME NEW k \in Nat, NEW m \in Nat, NEW n \in {0, 1}, k <= m + n, ~(k <= m)
        PROVE  n = 1 /\ k - m = 1 /\ k \in 1 .. m + n
    BY <2>5
  <2>3. CASE i <= Len(xy)
    <3>1. s[i] = xy[i] /\ xy[i] = IF i <= Len(x) THEN x[i] ELSE y[i - Len(x)]
      BY <1>2, <1>3, <2>1, <2>2, <2>3
    <3>2. CASE i <= Len(x)
      <4>1. i = 1 /\ Len(x) = 1
        <5>1. i \in Nat /\ i <= 0 + Len(x) /\ ~(i <= 0)
          BY <2>1, <2>2, <3>2
        <5>2. Len(x) = 1 /\ i - 0 = 1
          BY <2>2, <2>5, <5>1
        <5> QED
          BY <2>1, <5>2
      <4> QED
        BY <1>1, <3>1, <4>1
    <3>3. CASE ~(i <= Len(x))
      <4>1. i - Len(x) = 1 /\ Len(y) = 1
        BY <2>1, <2>2, <2>3, <2>5, <3>3
      <4> QED
        BY <1>1, <3>1, <3>3, <4>1
    <3> QED
      BY <3>2, <3>3
  <2>4. CASE ~(i <= Len(xy))
    <3>1. i - Len(xy) = 1 /\ Len(z) = 1 /\ i \in 1 .. Len(xy) + Len(z)
      <4>1. Len(xy) \in Nat /\ i <= Len(xy) + Len(z)
        BY <2>1, <2>2
      <4> QED
        BY <2>1, <2>2, <2>4, <2>5, <4>1
    <3>2. s[i] = z[i - Len(xy)]
      BY <1>3, <2>4, <3>1
    <3> QED
      BY <1>1, <3>1, <3>2
  <2> QED
    BY <2>3, <2>4
<1> QED
  BY <1>5, <1>6, <1>7, <1>8 DEF s, xy, CallsOf

USE PacketIdAssumption, ChildAssumption

-----------------------------------------------------------------------------
(* Type correctness *)

\* The types of what Redial sets.
LEMMA RedialTypes ==
    ASSUME TypeOK, Redial, socket' \in Nat, openSockets' \subseteq 1 .. socket',
           socket <= socket'
    PROVE  /\ connectionState' \in ConnectionState
           /\ nextSendPacketId' \in PacketId /\ sessionId' \in Sessions
           /\ inFlight' \subseteq InFlightPacket /\ order' \in Nat
           /\ reconnectTimer' \in BOOLEAN
           /\ greeted' \subseteq 1 .. socket'
<1>1. greeted \subseteq 1 .. socket' /\ socket \in Nat
  BY DEF TypeOK
<1>2. greeted' \subseteq 1 .. socket'
  <2>1. CASE socket' \in openSockets'
    <3>1. greeted' = greeted \union {socket'}
      BY <2>1 DEF Redial
    <3>2. socket' \in 1 .. socket'
      BY <2>1
    <3> QED BY <1>1, <3>1, <3>2
  <2>2. CASE socket' \notin openSockets'
    BY <1>1, <2>2 DEF Redial
  <2> QED BY <2>1, <2>2
<1> QED
  BY <1>2 DEF TypeOK, Redial, ResetConnection, StartTimers, ConnectionState, PacketId

\* A fresh socket is numbered after all others.
LEMMA NewSocketTypes ==
    ASSUME TypeOK, RecreateSocket, greeted' = greeted
    PROVE  /\ socket' \in Nat /\ socket <= socket' /\ openSockets' \subseteq 1 .. socket'
           /\ greeted' \subseteq 1 .. socket'
<1>1. socket \in Nat /\ openSockets \subseteq 1 .. socket /\ greeted \subseteq 1 .. socket
  BY DEF TypeOK
<1>2. socket' = socket + 1 /\ openSockets' = (openSockets \ {socket}) \union {socket + 1}
  BY DEF RecreateSocket
<1>3. 1 .. socket \subseteq 1 .. socket + 1 /\ socket + 1 \in 1 .. socket + 1
  BY <1>1
<1> QED BY <1>1, <1>2, <1>3

\* A restart keeps the types, provided what it leaves to its caller has them.
LEMMA RestartTypes ==
    ASSUME TypeOK, RestartConnection, heard' \in BOOLEAN, calls' \in Nat,
           crossed' \in BOOLEAN, wanted' \in {"nothing", "connection", "disconnection"}
    PROVE  TypeOK'
<1>1. CASE AbandonSession
  <2>1. /\ socket' \in Nat /\ openSockets' \subseteq 1 .. socket'
        /\ greeted' \subseteq 1 .. socket'
    BY <1>1, NewSocketTypes DEF AbandonSession
  <2>2. restarting' \in Nat
    <3>1. restarting \in Nat
      BY DEF TypeOK
    <3> QED BY <1>1, <3>1 DEF AbandonSession
  <2>3. /\ connectionState' \in ConnectionState
        /\ reconnectTimer' \in BOOLEAN /\ retransmitTimer' \in BOOLEAN
        /\ ackTimer' \in BOOLEAN
    BY <1>1 DEF AbandonSession, ClearTimers, ClearAckTimer, ConnectionState
  <2> QED
    BY <1>1, <2>1, <2>2, <2>3 DEF TypeOK, RestartConnection, AbandonSession, receiver, sender
<1>2. CASE ReopenAndRedial
  <2>1. /\ socket' \in Nat /\ openSockets' \subseteq 1 .. socket' /\ socket <= socket'
    BY <1>2 DEF ReopenAndRedial, CreateSocket, TypeOK
  <2>2. Redial
    BY <1>2 DEF ReopenAndRedial
  <2> QED
    BY <1>2, <2>1, <2>2, RedialTypes DEF TypeOK, RestartConnection, ReopenAndRedial, receiver
<1>3. CASE RedialOnSameSocket
  <2>1. /\ socket' \in Nat /\ openSockets' \subseteq 1 .. socket' /\ socket <= socket'
    BY <1>3 DEF RedialOnSameSocket, TypeOK, sockets
  <2>2. Redial
    BY <1>3 DEF RedialOnSameSocket
  <2> QED
    BY <1>3, <2>1, <2>2, RedialTypes DEF TypeOK, RestartConnection, RedialOnSameSocket, receiver
<1> QED
  BY <1>1, <1>2, <1>3 DEF RestartConnection

\* Sending packets keeps the packets in flight well formed.
LEMMA SendTypes ==
    ASSUME TypeOK, NEW ids \in Batches, SendPackets(ids)
    PROVE  TypeOK'
<1>1. PICK n \in 1 .. MaxBatch : ids \in [1 .. n -> TrackingIds]
  BY DEF Batches
<1>2. Len(ids) = n /\ \A i \in 1 .. n : ids[i] \in TrackingIds
  BY <1>1
<1>3. nextSendPacketId' \in PacketId
  <2>1. nextSendPacketId \in PacketId /\ Len(ids) \in Nat /\ 1 \in Nat
    BY <1>2 DEF TypeOK
  <2>2. \/ nextSendPacketId' = AdvancePacketId(nextSendPacketId, Len(ids))
        \/ nextSendPacketId' = AdvancePacketId(nextSendPacketId, 1)
    BY DEF SendPackets
  <2> QED
    BY <2>1, <2>2, AdvanceIsPacketId
<1>4. inFlight' \subseteq InFlightPacket
  <2>1. CASE SocketOpen
    <3>1. inFlight' = inFlight \union {BatchPacket(ids, i) : i \in 1 .. n}
      BY <1>2, <2>1 DEF SendPackets
    <3>2. ASSUME NEW i \in 1 .. n PROVE BatchPacket(ids, i) \in InFlightPacket
      <4>1. AdvancePacketId(nextSendPacketId, i - 1) \in PacketId
        <5>1. nextSendPacketId \in PacketId /\ i - 1 \in Nat
          BY DEF TypeOK
        <5> QED BY <5>1, AdvanceIsPacketId
      <4>2. order + i \in Nat /\ sessionId \in Nat /\ ids[i] \in TrackingIds
        BY <1>2 DEF TypeOK
      <4> QED
        BY <4>1, <4>2 DEF BatchPacket, InFlightPacket
    <3> QED
      BY <3>1, <3>2 DEF TypeOK
  <2>2. CASE ~SocketOpen
    BY <2>2 DEF SendPackets, TypeOK
  <2> QED
    BY <2>1, <2>2
<1>5. order' \in Nat
  <2>1. order \in Nat /\ Len(ids) \in Nat
    BY <1>2 DEF TypeOK
  <2>2. order' = order + Len(ids) \/ order' = order + 1
    BY DEF SendPackets
  <2> QED BY <2>1, <2>2
<1>6. retransmitTimer' \in BOOLEAN
  BY DEF SendPackets, TriggerRetransmitTimer, TypeOK
<1> QED
  BY <1>3, <1>4, <1>5, <1>6 DEF SendPackets, TypeOK, sockets, receiver, parentCalls

\* Counting a packet as resent keeps it well formed.
LEMMA ResentTypes ==
    ASSUME NEW packets \in SUBSET InFlightPacket, NEW resend
    PROVE  Resent(packets, resend) \subseteq InFlightPacket
  BY DEF Resent, InFlightPacket

\* So does everything a datagram may cause.
LEMMA ReceiveTypes ==
    ASSUME TypeOK, NEW d \in Datagram, ReceivePacket(d)
    PROVE  TypeOK'
<1>1. /\ heard' \in BOOLEAN /\ sessionId' \in Sessions
      /\ crossed' \in BOOLEAN
      /\ calls' \in Nat /\ wanted' \in {"nothing", "connection", "disconnection"}
      /\ closing' \in Nat /\ d.packetId \in PacketId
  BY DEF ReceivePacket, TypeOK, Datagram, DatagramsTo, parentCalls
<1>2. CASE StartSession(d)
  BY <1>1, <1>2 DEF ReceivePacket, StartSession, StartSequence, TypeOK, ConnectionState, timers, sockets, sender
<1>3. CASE IgnorePacket(d)
  BY <1>1, <1>3 DEF ReceivePacket, IgnorePacket, TypeOK, timers, sockets, receiver, sender
<1>4. CASE ProcessPacket(d)
  <2>1. /\ connectionState' \in ConnectionState /\ restarting' \in Nat
        /\ reconnectTimer' \in BOOLEAN /\ socket' \in Nat /\ socket <= socket'
        /\ openSockets' \subseteq 1 .. socket' /\ greeted' \subseteq 1 .. socket'
    <3>1. \/ /\ RecreateSocket
             /\ connectionState' = "Closed"
             /\ restarting' = restarting + 1
             /\ reconnectTimer' = FALSE
          \/ UNCHANGED <<sockets, connectionState, restarting, reconnectTimer>>
      BY <1>4 DEF ProcessPacket
    <3>2. greeted' = greeted
      BY DEF ReceivePacket
    <3>3. CASE /\ RecreateSocket
               /\ connectionState' = "Closed"
               /\ restarting' = restarting + 1
               /\ reconnectTimer' = FALSE
      <4>1. restarting \in Nat /\ restarting' = restarting + 1
        BY <3>3 DEF TypeOK
      <4>2. restarting' \in Nat
        BY <4>1
      <4>3. /\ socket' \in Nat /\ socket <= socket'
            /\ openSockets' \subseteq 1 .. socket' /\ greeted' \subseteq 1 .. socket'
        BY <3>2, <3>3, NewSocketTypes
      <4>4. connectionState' \in ConnectionState /\ reconnectTimer' \in BOOLEAN
        BY <3>3 DEF ConnectionState
      <4> QED BY <4>2, <4>3, <4>4
    <3>4. CASE UNCHANGED <<sockets, connectionState, restarting, reconnectTimer>>
      BY <3>2, <3>4 DEF TypeOK, sockets
    <3> QED
      BY <3>1, <3>2, <3>3, <3>4
  <2>2. lastReceivedPacketId' \in PacketId /\ lastAckSent' \in PacketId
    BY <1>1, <1>4 DEF ProcessPacket, TypeOK
  <2>3. receivedWithoutAck' \in 0 .. MaxPacketPerAck - 1
    BY <1>4 DEF ProcessPacket, CountForAck, AckIsDue, TypeOK
  <2>4. inFlight' \subseteq InFlightPacket
    <3>1. ASSUME NEW acked PROVE inFlight \ acked \in SUBSET InFlightPacket
      BY DEF TypeOK
    <3> QED
      BY <1>4, <3>1, ResentTypes DEF ProcessPacket
  <2>5. ackTimer' \in BOOLEAN /\ retransmitTimer' \in BOOLEAN
    BY <1>4 DEF ProcessPacket, CountForAck, TriggerRetransmitTimer, TypeOK
  <2>6. nextSendPacketId' \in PacketId /\ order' \in Nat
    BY <1>4 DEF ProcessPacket, TypeOK
  <2> QED
    BY <1>1, <2>1, <2>2, <2>3, <2>4, <2>5, <2>6 DEF TypeOK, ReceivePacket
<1> QED
  BY <1>2, <1>3, <1>4 DEF ReceivePacket

\* Every step keeps every variable in its range.
LEMMA TypeStep == TypeOK /\ [Next]_childVars => TypeOK'
<1> SUFFICES ASSUME TypeOK, [Next]_childVars PROVE TypeOK'
  OBVIOUS
<1>1. CASE Connect
  <2>1. crossed' \in BOOLEAN /\ RestartConnection
    BY <1>1 DEF Connect
  <2>2. heard' \in BOOLEAN /\ calls' \in Nat /\ wanted' \in {"nothing", "connection", "disconnection"}
    BY <1>1 DEF Connect, TypeOK
  <2> QED
    BY <2>1, <2>2, RestartTypes
<1>2. CASE Disconnect
  <2>3. crossed' \in BOOLEAN
    <3>1. crossed' = (restarting > 0)
      BY <1>2 DEF Disconnect
    <3>2. (restarting > 0) \in BOOLEAN
      OBVIOUS
    <3> QED
      BY <3>1, <3>2, Zenon
  <2>1. socket' = socket /\ openSockets' \subseteq openSockets /\ greeted' = greeted
    BY <1>2 DEF Disconnect
  <2>2. connectionState' \in ConnectionState /\ closing' \in Nat /\ calls' \in Nat
    BY <1>2 DEF Disconnect, TypeOK, ConnectionState
  <2> QED
    BY <1>2, <2>1, <2>2, <2>3 DEF Disconnect, ClearTimers, ClearAckTimer, TypeOK, receiver, sender
<1>3. ASSUME NEW ids \in Batches, SendPackets(ids) PROVE TypeOK'
  BY <1>3, SendTypes
<1>4. ASSUME NEW d \in DatagramsTo(openSockets), ReceivePacket(d) PROVE TypeOK'
  <2>1. openSockets \subseteq Nat
    BY DEF TypeOK
  <2>2. d \in Datagram
    BY <2>1 DEF DatagramsTo, Datagram
  <2> QED
    BY <1>4, <2>2, ReceiveTypes
<1>5. CASE ResumeRestart
  <2>1. socket' \in Nat /\ openSockets' \subseteq 1 .. socket' /\ socket <= socket'
    BY <1>5 DEF ResumeRestart, TypeOK, sockets
  <2>2. Redial
    BY <1>5 DEF ResumeRestart
  <2> QED
    BY <1>5, <2>1, <2>2, RedialTypes DEF ResumeRestart, TypeOK, receiver, parentCalls
<1>6. CASE AckTimeout
  <2>1. 0 \in 0 .. MaxPacketPerAck - 1
    OBVIOUS
  <2> QED
    BY <1>6, <2>1 DEF AckTimeout, AckId, TypeOK, sockets, sender, parentCalls
<1>7. CASE RetransmitTimerIdle
  BY <1>7 DEF RetransmitTimerIdle, TypeOK, sockets, receiver, sender, parentCalls
<1>8. CASE RetransmitOverdue
  <2>1. inFlight' \subseteq InFlightPacket
    BY <1>8, ResentTypes DEF RetransmitOverdue, TypeOK
  <2> QED
    BY <1>8, <2>1 DEF RetransmitOverdue, TypeOK, timers, sockets, receiver, parentCalls
<1>9. CASE GiveUpOverdue
  BY <1>9, RestartTypes DEF GiveUpOverdue, TypeOK, parentCalls
<1>10. CASE Silence
  BY <1>10 DEF Silence, TypeOK, timers, sockets, receiver, sender, parentCalls
<1>11. CASE ReconnectTick
  BY <1>11, RestartTypes DEF ReconnectTick, TypeOK, parentCalls
<1>12. CASE SocketClosed
  BY <1>12 DEF SocketClosed, TypeOK, ConnectionState, timers, sockets, receiver, sender,
               parentCalls
<1>13. CASE SocketError
  BY <1>13, RestartTypes DEF SocketError, TypeOK, parentCalls
<1>14. CASE ReceiveMalformed
  BY <1>14 DEF ReceiveMalformed, TypeOK, timers, sockets, receiver, sender, parentCalls
<1>15. CASE UNCHANGED childVars
  BY <1>15 DEF childVars, TypeOK, timers, sockets, receiver, sender, parentCalls
<1> QED
  BY <1>1, <1>2, <1>3, <1>4, <1>5, <1>6, <1>7, <1>8, <1>9, <1>10, <1>11, <1>12, <1>13,
     <1>14, <1>15 DEF Next, ParentStep, TimerStep, SocketStep

\* The first state has its types.
LEMMA TypeInit == Init => TypeOK
<1> SUFFICES ASSUME Init PROVE TypeOK
  OBVIOUS
<1>1. 0 \in PacketId /\ 1 \in PacketId
  BY DEF PacketId
<1>2. socket \in Nat /\ openSockets \subseteq 1 .. socket /\ greeted \subseteq 1 .. socket
  BY DEF Init
<1>3. inFlight \subseteq InFlightPacket
  BY DEF Init
<1>4. receivedWithoutAck \in 0 .. MaxPacketPerAck - 1
  BY DEF Init
<1>5. connectionState \in ConnectionState
  BY DEF Init, ConnectionState
<1>6. /\ nextSendPacketId \in PacketId /\ lastReceivedPacketId \in PacketId
      /\ lastAckSent \in PacketId /\ sessionId \in Sessions
  BY <1>1 DEF Init
<1> QED
  BY <1>2, <1>3, <1>4, <1>5, <1>6 DEF Init, TypeOK

\* Every variable of the child keeps to its range in every behaviour: the ids stay
\* within 15 bits and the acknowledgement counter below its limit.
THEOREM TypeCorrect == Spec => []TypeOK
  BY TypeInit, TypeStep, PTL DEF Spec

-----------------------------------------------------------------------------
(* Nothing pending is left without a timer, and no timer without a socket *)

\* What ConnectionIsWatched rests on: the reconnect timer runs from the HELLO until
\* the socket it was sent from is given up ...
GreetedIsWatched == SocketOpen /\ socket \in greeted => reconnectTimer

\* ... and only a socket that said HELLO gets a session.
ConnectedWasGreeted ==
    /\ connectionState \in {"SynSent", "Established"}
    /\ SocketOpen /\ openSockets = {socket}
    => socket \in greeted

Watched == /\ AckTimerHasSocket /\ InFlightIsWatched /\ AckIsOwed
           /\ GreetedIsWatched /\ ConnectedWasGreeted

WatchInv == TypeOK /\ Watched

\* A fresh socket is open and was never used.
LEMMA NewSocketIsFresh ==
    ASSUME TypeOK, RecreateSocket \/ CreateSocket
    PROVE  SocketOpen' /\ socket' \notin greeted
<1>1. socket' = socket + 1 /\ socket' \in openSockets'
  BY DEF RecreateSocket, CreateSocket
<1>2. socket \in Nat /\ greeted \subseteq 1 .. socket
  BY DEF TypeOK
<1> QED
  BY <1>1, <1>2 DEF SocketOpen

\* Saying HELLO arms the reconnect timer and forgets what was in flight.
LEMMA RedialIsWatched ==
    ASSUME Redial
    PROVE  /\ inFlight' = {} /\ reconnectTimer'
           /\ SocketOpen' => connectionState' = "SynSent" /\ socket' \in greeted'
  BY DEF Redial, ResetConnection, StartTimers, SocketOpen

\* A restart leaves everything watched, whichever of its paths it takes.
LEMMA RestartIsWatched ==
    ASSUME WatchInv, RestartConnection
    PROVE  Watched'
<1>1. CASE AbandonSession
  <2>1. SocketOpen' /\ socket' \notin greeted'
    BY <1>1, NewSocketIsFresh DEF WatchInv, AbandonSession
  <2>2. ~ackTimer' /\ ~retransmitTimer' /\ connectionState' = "Closed"
    BY <1>1 DEF AbandonSession, ClearTimers, ClearAckTimer
  <2>3. restarting' > 0
    <3>1. restarting \in Nat /\ restarting' = restarting + 1
      BY <1>1 DEF WatchInv, TypeOK, AbandonSession
    <3> QED BY <3>1
  <2> QED
    BY <2>1, <2>2, <2>3 DEF Watched, AckTimerHasSocket, InFlightIsWatched, AckIsOwed,
                            GreetedIsWatched, ConnectedWasGreeted
<1>2. CASE ReopenAndRedial
  <2>1. SocketOpen'
    BY <1>2, NewSocketIsFresh DEF WatchInv, ReopenAndRedial
  <2> QED
    BY <1>2, <2>1, RedialIsWatched DEF ReopenAndRedial, Watched, AckTimerHasSocket,
       InFlightIsWatched, AckIsOwed, GreetedIsWatched, ConnectedWasGreeted
<1>3. CASE RedialOnSameSocket
  <2>1. UNCHANGED <<SocketOpen, ackTimer>>
    BY <1>3 DEF RedialOnSameSocket, sockets, SocketOpen
  <2>2. Redial
    BY <1>3 DEF RedialOnSameSocket
  <2> QED
    BY <2>1, <2>2, RedialIsWatched DEF WatchInv, Watched, AckTimerHasSocket,
       InFlightIsWatched, AckIsOwed, GreetedIsWatched, ConnectedWasGreeted
<1> QED
  BY <1>1, <1>2, <1>3 DEF RestartConnection

\* Sending packets arms the retransmit timer.
LEMMA SendIsWatched ==
    ASSUME WatchInv, NEW ids, SendPackets(ids)
    PROVE  Watched'
<1>1. /\ UNCHANGED <<connectionState, reconnectTimer, ackTimer, socket, openSockets,
                     lastReceivedPacketId, lastAckSent, restarting, greeted>>
  BY DEF SendPackets, sockets, receiver
<1>2. InFlightIsWatched'
  BY <1>1 DEF SendPackets, TriggerRetransmitTimer, WatchInv, Watched, InFlightIsWatched,
              SocketOpen
<1> QED
  BY <1>1, <1>2 DEF WatchInv, Watched, AckTimerHasSocket, AckIsOwed, GreetedIsWatched,
                    ConnectedWasGreeted, SocketOpen

\* A datagram is acknowledged or arms the timer that will do it, and settles the
\* retransmit timer; a retransmission that is impossible restarts the connection.
LEMMA ReceiveIsWatched ==
    ASSUME WatchInv, NEW d, ReceivePacket(d), "NewSessionId" \in d.flags => d.port \in greeted
    PROVE  Watched'
<1>1. SocketOpen /\ d.port \in openSockets /\ greeted' = greeted
  BY DEF ReceivePacket
<1>2. CASE StartSession(d)
  <2>1. UNCHANGED <<reconnectTimer, retransmitTimer, ackTimer, socket, openSockets,
                    inFlight, restarting>>
    BY <1>2 DEF StartSession, timers, sockets, sender
  <2>2. lastAckSent' = lastReceivedPacketId' /\ d.port \in greeted
    BY <1>2 DEF StartSession, StartSequence
  <2>3. ConnectedWasGreeted'
    BY <1>1, <2>1, <2>2 DEF ConnectedWasGreeted, SocketOpen
  <2> QED
    BY <1>1, <2>1, <2>2, <2>3 DEF WatchInv, Watched, AckTimerHasSocket,
       InFlightIsWatched, AckIsOwed, GreetedIsWatched, SocketOpen
<1>3. CASE IgnorePacket(d)
  BY <1>1, <1>3 DEF IgnorePacket, timers, sockets, receiver, sender, WatchInv, Watched,
     AckTimerHasSocket, InFlightIsWatched, AckIsOwed, GreetedIsWatched,
     ConnectedWasGreeted, SocketOpen
<1>4. CASE ProcessPacket(d)
  <2> DEFINE lost == /\ "RetransmitRequest" \in d.flags
                     /\ \A p \in inFlight : p.packetId # d.from % MaxPacketId
  <2>1. CASE lost
    <3>1. SocketOpen' /\ socket' \notin greeted'
      BY <1>1, <1>4, <2>1, NewSocketIsFresh DEF ProcessPacket, WatchInv
    <3>2. connectionState' = "Closed"
      BY <1>4, <2>1 DEF ProcessPacket
    <3>3. restarting' > 0
      <4>1. restarting \in Nat /\ restarting' = restarting + 1
        BY <1>4, <2>1 DEF ProcessPacket, WatchInv, TypeOK
      <4> QED BY <4>1
    <3> QED
      BY <3>1, <3>2, <3>3 DEF Watched, AckTimerHasSocket, InFlightIsWatched, AckIsOwed,
                              GreetedIsWatched, ConnectedWasGreeted
  <2>2. CASE ~lost
    <3>1. UNCHANGED <<socket, openSockets, connectionState, restarting, reconnectTimer>>
      BY <1>4, <2>2 DEF ProcessPacket, sockets
    <3>2. AckIsOwed'
      <4>1. CASE IsNext(d) \/ IsAgain(d)
        BY <1>4, <4>1 DEF ProcessPacket, CountForAck, AckIsOwed
      <4>2. CASE ~(IsNext(d) \/ IsAgain(d))
        <5>1. UNCHANGED <<lastReceivedPacketId, lastAckSent, ackTimer>>
          BY <1>4, <2>2, <4>2 DEF ProcessPacket, WatchInv, TypeOK
        <5> QED
          BY <3>1, <5>1 DEF WatchInv, Watched, AckIsOwed, SocketOpen
      <4> QED BY <4>1, <4>2
    <3>3. InFlightIsWatched'
      <4>1. CASE "AckReply" \in d.flags
        BY <1>1, <1>4, <3>1, <4>1 DEF ProcessPacket, TriggerRetransmitTimer,
           InFlightIsWatched, SocketOpen
      <4>2. CASE "AckReply" \notin d.flags
        <5>1. inFlight \ AckedPackets(d) = inFlight
          BY <4>2 DEF AckedPackets
        <5>2. \E resend : inFlight' = Resent(inFlight, resend)
          BY <1>4, <5>1 DEF ProcessPacket
        <5>3. inFlight' # {} => inFlight # {}
          BY <5>2 DEF Resent
        <5>4. retransmitTimer' = retransmitTimer
          BY <1>4, <2>2, <4>2 DEF ProcessPacket, WatchInv, TypeOK
        <5> QED
          BY <1>1, <3>1, <5>3, <5>4 DEF WatchInv, Watched, InFlightIsWatched, SocketOpen
      <4> QED BY <4>1, <4>2
    <3> QED
      BY <1>1, <3>1, <3>2, <3>3 DEF WatchInv, Watched, AckTimerHasSocket,
         GreetedIsWatched, ConnectedWasGreeted, SocketOpen
  <2> QED BY <2>1, <2>2
<1> QED
  BY <1>2, <1>3, <1>4 DEF ReceivePacket

\* Every step leaves everything watched.
LEMMA WatchStep == WatchInv /\ [Next]_childVars => WatchInv'
<1> SUFFICES ASSUME WatchInv, [Next]_childVars PROVE Watched'
  BY TypeStep DEF WatchInv
<1> USE DEF WatchInv
<1>1. CASE Connect
  BY <1>1, RestartIsWatched DEF Connect
<1>2. CASE Disconnect
  <2>1. /\ ~ackTimer' /\ ~retransmitTimer' /\ socket' = socket /\ inFlight' = inFlight
        /\ ~SocketOpen'
    BY <1>2 DEF Disconnect, ClearTimers, ClearAckTimer, SocketOpen, sender
  <2> QED
    BY <2>1 DEF Watched, AckTimerHasSocket, InFlightIsWatched, AckIsOwed,
                GreetedIsWatched, ConnectedWasGreeted
<1>3. ASSUME NEW ids \in Batches, SendPackets(ids) PROVE Watched'
  BY <1>3, SendIsWatched
<1>4. ASSUME NEW d \in DatagramsTo(openSockets), ReceivePacket(d),
             "NewSessionId" \in d.flags => d.port \in greeted
      PROVE  Watched'
  BY <1>4, ReceiveIsWatched
<1>5. CASE ResumeRestart
  <2>1. UNCHANGED <<SocketOpen, ackTimer>>
    BY <1>5 DEF ResumeRestart, sockets, SocketOpen
  <2>2. Redial
    BY <1>5 DEF ResumeRestart
  <2> QED
    BY <2>1, <2>2, RedialIsWatched DEF Watched, AckTimerHasSocket, InFlightIsWatched,
       AckIsOwed, GreetedIsWatched, ConnectedWasGreeted
<1>6. CASE AckTimeout
  <2>1. lastAckSent' = lastReceivedPacketId' /\ ~ackTimer'
    BY <1>6 DEF AckTimeout, AckId
  <2>2. UNCHANGED <<connectionState, reconnectTimer, retransmitTimer, socket, openSockets,
                    inFlight, restarting, greeted>>
    BY <1>6 DEF AckTimeout, sockets, sender
  <2> QED
    BY <2>1, <2>2 DEF Watched, AckTimerHasSocket, InFlightIsWatched, AckIsOwed,
       GreetedIsWatched, ConnectedWasGreeted, SocketOpen
<1>7. CASE RetransmitTimerIdle
  BY <1>7 DEF RetransmitTimerIdle, sockets, receiver, sender, Watched, AckTimerHasSocket,
     InFlightIsWatched, AckIsOwed, GreetedIsWatched, ConnectedWasGreeted, SocketOpen
<1>8. CASE RetransmitOverdue
  BY <1>8 DEF RetransmitOverdue, timers, sockets, receiver, Watched, AckTimerHasSocket,
     InFlightIsWatched, AckIsOwed, GreetedIsWatched, ConnectedWasGreeted, SocketOpen
<1>9. CASE GiveUpOverdue
  BY <1>9, RestartIsWatched DEF GiveUpOverdue
<1>10. CASE ReconnectTick
  BY <1>10, RestartIsWatched DEF ReconnectTick
<1>11. CASE SocketError
  BY <1>11, RestartIsWatched DEF SocketError
<1>12. CASE SocketClosed
  <2>1. connectionState' = "Disconnected"
    BY <1>12 DEF SocketClosed
  <2>2. UNCHANGED <<timers, sockets, receiver, sender, restarting, greeted>>
    BY <1>12 DEF SocketClosed
  <2> QED
    BY <2>1, <2>2 DEF timers, sockets, receiver, sender, Watched, AckTimerHasSocket,
       InFlightIsWatched, AckIsOwed, GreetedIsWatched, ConnectedWasGreeted, SocketOpen
<1>13. CASE Silence \/ ReceiveMalformed \/ UNCHANGED childVars
  <2>1. UNCHANGED <<connectionState, timers, sockets, receiver, sender, restarting, greeted>>
    BY <1>13 DEF Silence, ReceiveMalformed, childVars
  <2> QED
    BY <2>1 DEF timers, sockets, receiver, sender, Watched, AckTimerHasSocket,
       InFlightIsWatched, AckIsOwed, GreetedIsWatched, ConnectedWasGreeted, SocketOpen
<1> QED
  BY <1>1, <1>2, <1>3, <1>4, <1>5, <1>6, <1>7, <1>8, <1>9, <1>10, <1>11, <1>12, <1>13
     DEF Next, ParentStep, TimerStep, SocketStep

\* The strengthened invariant holds in every behaviour.
LEMMA AlwaysWatched == Spec => []WatchInv
<1>1. Init => WatchInv
  BY TypeInit DEF Init, WatchInv, Watched, AckTimerHasSocket, InFlightIsWatched,
     AckIsOwed, GreetedIsWatched, ConnectedWasGreeted
<1> QED
  BY <1>1, WatchStep, PTL DEF Spec

\* The delayed acknowledgement never finds its socket closed, so its send, which
\* nothing guards, never throws (atemSocketChild.ts:335-339).
THEOREM AckTimerAlwaysHasSocket == Spec => []AckTimerHasSocket
<1>1. WatchInv => AckTimerHasSocket
  BY DEF WatchInv, Watched
<1> QED BY <1>1, AlwaysWatched, PTL

\* A packet in flight is always watched by the retransmit timer, or a restart under
\* way will drop it (atemSocketChild.ts:382-399).
THEOREM InFlightAlwaysWatched == Spec => []InFlightIsWatched
<1>1. WatchInv => InFlightIsWatched
  BY DEF WatchInv, Watched
<1> QED BY <1>1, AlwaysWatched, PTL

\* No packet accepted is left unacknowledged with no timer to acknowledge it
\* (atemSocketChild.ts:275-288, 324-342).
THEOREM AckAlwaysOwed == Spec => []AckIsOwed
<1>1. WatchInv => AckIsOwed
  BY DEF WatchInv, Watched
<1> QED BY <1>1, AlwaysWatched, PTL

\* A connection that is up or being opened always has the reconnect timer that
\* notices its loss (atemSocketChild.ts:94-107, 154).
THEOREM ConnectionAlwaysWatched == Spec => []ConnectionIsWatched
<1>1. WatchInv => ConnectionIsWatched
  BY DEF WatchInv, Watched, GreetedIsWatched, ConnectedWasGreeted, ConnectionIsWatched
<1> QED BY <1>1, AlwaysWatched, PTL

-----------------------------------------------------------------------------
(* A parent that waits for its disconnects *)

\* A session that was given up stays so until the parent answered.
AbandonedIsSilent ==
    restarting > 0 => restarting = 1 /\ connectionState # "Established"

\* A socket that is closed was closed by a disconnect: its close callback, if it is still
\* to come, is all that can happen, or a restart that was not to be stopped.
Rested ==
    /\ NoOrphanSocket
    /\ closing \in {0, 1}
    /\ connectionState = "Disconnected" \/ closing > 0 \/ (wanted = "disconnection" /\ ~crossed)
         => ~SocketOpen
    /\ ~SocketOpen => /\ ~retransmitTimer /\ ~ackTimer
                      /\ closing = 0 <=> connectionState = "Disconnected"
                      /\ ~crossed \/ connectionState = "Established"
                           => ~reconnectTimer /\ restarting = 0

RestInv == TypeOK /\ Rested /\ AbandonedIsSilent

\* A restart leaves the current socket the only one, and open or as it was.
LEMMA RestartOpens ==
    ASSUME RestInv, RestartConnection,
           SocketOpen \/ connectionState \in {"Closed", "SynSent", "Disconnected"}
    PROVE  /\ NoOrphanSocket'
           /\ \/ SocketOpen' /\ connectionState' # "Disconnected"
              \/ /\ ~SocketOpen /\ connectionState \in {"Closed", "SynSent"}
                 /\ UNCHANGED <<connectionState, sockets, restarting, ackTimer>>
                 /\ ~retransmitTimer'
<1>1. openSockets \subseteq {socket} /\ (connectionState = "Disconnected" => openSockets = {})
  BY DEF RestInv, Rested, NoOrphanSocket, SocketOpen
<1>2. CASE AbandonSession
  BY <1>1, <1>2 DEF AbandonSession, RecreateSocket, NoOrphanSocket, SocketOpen
<1>3. CASE ReopenAndRedial
  BY <1>1, <1>3 DEF ReopenAndRedial, CreateSocket, Redial, NoOrphanSocket, SocketOpen
<1>4. CASE RedialOnSameSocket
  BY <1>1, <1>4 DEF RedialOnSameSocket, sockets, Redial, NoOrphanSocket, SocketOpen
<1> QED
  BY <1>2, <1>3, <1>4 DEF RestartConnection

\* A restart adds to those that wait only when it ends a session.
LEMMA RestartIsSilent ==
    ASSUME RestInv, RestartConnection
    PROVE  AbandonedIsSilent'
<1>1. restarting \in Nat
  BY DEF RestInv, TypeOK
<1>2. CASE AbandonSession
  BY <1>1, <1>2 DEF AbandonSession, RestInv, AbandonedIsSilent
<1>3. CASE ReopenAndRedial \/ RedialOnSameSocket
  <2>1. restarting' = restarting /\ (connectionState' = "SynSent" \/ connectionState' = connectionState)
        /\ connectionState # "Established"
    BY <1>3 DEF ReopenAndRedial, RedialOnSameSocket, Redial
  <2> QED
    BY <2>1 DEF RestInv, AbandonedIsSilent
<1> QED
  BY <1>2, <1>3 DEF RestartConnection

\* A parent that makes no call while its disconnect is unfinished, and answers in time,
\* leaves the child at rest after a disconnect, whatever restart waits while it calls.
LEMMA RestStep ==
    ASSUME ~Overlap, ~SlowParent, RestInv, [Next]_childVars
    PROVE  RestInv'
<1>1. SUFFICES Rested' /\ AbandonedIsSilent'
  BY TypeStep DEF RestInv
<1>2. /\ openSockets \subseteq {socket} /\ restarting \in Nat /\ closing \in {0, 1}
      /\ ~SocketOpen => openSockets = {}
  BY DEF RestInv, TypeOK, Rested, NoOrphanSocket, SocketOpen
<1>3. ASSUME RestartConnection, SocketOpen,
             UNCHANGED <<closing, wanted, crossed>> \/ (closing' = 0 /\ wanted' = "connection")
      PROVE  Rested' /\ AbandonedIsSilent'
  <2>1. NoOrphanSocket' /\ SocketOpen' /\ connectionState' # "Disconnected"
    BY <1>3, RestartOpens
  <2>2. ~(closing' > 0 \/ (wanted' = "disconnection" /\ ~crossed')) /\ closing' \in {0, 1}
    BY <1>2, <1>3 DEF RestInv, Rested
  <2> QED
    BY <1>3, <2>1, <2>2, RestartIsSilent DEF Rested
<1>4. CASE Connect
  <2>1. RestartConnection /\ closing = 0 /\ closing' = 0 /\ wanted' = "connection"
    BY <1>2, <1>4 DEF Connect, MayCall, RestartConnection
  <2>2. CASE SocketOpen
    BY <1>3, <2>1, <2>2
  <2>3. CASE ~SocketOpen
    <3>1. connectionState = "Disconnected"
      BY <2>1, <2>3 DEF RestInv, Rested
    <3>2. NoOrphanSocket' /\ SocketOpen' /\ connectionState' # "Disconnected"
      BY <2>1, <3>1, RestartOpens
    <3> QED
      BY <2>1, <3>2, RestartIsSilent DEF Rested
  <2> QED
    BY <2>2, <2>3
<1>5. CASE GiveUpOverdue \/ ReconnectTick \/ SocketError
  <2>1. /\ RestartConnection /\ UNCHANGED <<closing, wanted, crossed>>
    BY <1>5 DEF GiveUpOverdue, ReconnectTick, SocketError, RestartConnection, parentCalls
  <2>2. CASE SocketOpen
    BY <1>3, <2>1, <2>2
  <2>3. CASE ~SocketOpen
    <3>1. reconnectTimer /\ crossed /\ connectionState # "Established"
      BY <1>2, <1>5, <2>3 DEF GiveUpOverdue, ReconnectTick, SocketError, RestInv, Rested
    <3>2. connectionState \in {"Closed", "SynSent", "Disconnected"}
      BY <2>1, <3>1 DEF RestartConnection, AbandonSession, ReopenAndRedial, RedialOnSameSocket
    <3>3. CASE connectionState = "Disconnected"
      <4>1. closing = 0
        BY <2>3, <3>3 DEF RestInv, Rested
      <4>2. NoOrphanSocket' /\ SocketOpen' /\ connectionState' # "Disconnected"
        BY <2>1, <3>2, <3>3, RestartOpens
      <4> QED
        BY <1>2, <2>1, <3>1, <4>1, <4>2, RestartIsSilent DEF Rested
    <3>4. CASE connectionState # "Disconnected"
      <4>1. closing = 1
        BY <1>2, <2>3, <3>4 DEF RestInv, Rested
      <4>2. /\ UNCHANGED <<connectionState, sockets, restarting, ackTimer>>
            /\ ~retransmitTimer' /\ NoOrphanSocket'
        <5>1. RedialOnSameSocket
          BY <2>1, <3>1, <3>4 DEF RestartConnection, AbandonSession, ReopenAndRedial
        <5>2. ~SocketOpen'
          BY <2>3, <5>1 DEF RedialOnSameSocket, sockets, SocketOpen
        <5> QED
          BY <2>1, <3>2, <5>1, <5>2, RestartOpens
             DEF RedialOnSameSocket, sockets, Redial, SocketOpen
      <4>3. ~SocketOpen'
        BY <2>3, <4>2 DEF sockets, SocketOpen
      <4> QED
        BY <1>2, <2>1, <2>3, <3>1, <3>4, <4>1, <4>2, <4>3, RestartIsSilent DEF RestInv, Rested
    <3> QED
      BY <3>3, <3>4
  <2> QED
    BY <2>2, <2>3
<1>6. CASE Disconnect
  <2>1. /\ ~reconnectTimer' /\ ~retransmitTimer' /\ ~ackTimer' /\ restarting' = restarting
        /\ socket' = socket /\ closing = 0 /\ crossed' = (restarting > 0)
    BY <1>2, <1>6 DEF Disconnect, ClearTimers, ClearAckTimer, MayCall
  <2>2. openSockets' = {}
    BY <1>2, <1>6 DEF Disconnect
  <2>3. \/ closing' = 1 /\ connectionState' = connectionState /\ connectionState # "Disconnected"
        \/ closing' = 0 /\ connectionState' = "Disconnected"
    <3>1. SocketOpen => connectionState # "Disconnected"
      BY DEF RestInv, Rested
    <3> QED
      BY <1>6, <2>1, <3>1 DEF Disconnect
  <2>4. restarting > 0 => connectionState' # "Established"
    BY <2>3 DEF RestInv, AbandonedIsSilent
  <2>5. connectionState' = "Established" => restarting = 0
    BY <1>2, <2>4
  <2>6. ~crossed' => restarting = 0
    <3>1. ~crossed' => ~(restarting > 0)
      BY <2>1, Zenon
    <3> QED
      BY <1>2, <3>1
  <2> QED
    BY <2>1, <2>2, <2>3, <2>4, <2>5, <2>6
       DEF Rested, NoOrphanSocket, SocketOpen, RestInv, AbandonedIsSilent
<1>7. CASE SocketClosed
  <2>1. /\ UNCHANGED <<timers, sockets, restarting, wanted, crossed>>
        /\ connectionState' = "Disconnected" /\ closing' = 0
    BY <1>2, <1>7 DEF SocketClosed, parentCalls
  <2>2. ~SocketOpen
    BY <1>7 DEF SocketClosed, RestInv, Rested
  <2> QED
    BY <2>1, <2>2
       DEF timers, sockets, RestInv, Rested, AbandonedIsSilent, NoOrphanSocket, SocketOpen
<1>8. CASE ResumeRestart
  <2>1. /\ UNCHANGED <<sockets, closing, wanted, crossed, retransmitTimer, ackTimer>>
        /\ restarting' = restarting - 1 /\ restarting > 0
    BY <1>8 DEF ResumeRestart, parentCalls
  <2>2. restarting' = 0
    BY <1>2, <2>1 DEF RestInv, AbandonedIsSilent
  <2>3. CASE SocketOpen
    <3>1. connectionState' = "SynSent"
      BY <1>8, <2>1, <2>3 DEF ResumeRestart, Redial, sockets, SocketOpen
    <3> QED
      BY <2>1, <2>2, <2>3, <3>1
         DEF sockets, RestInv, Rested, AbandonedIsSilent, NoOrphanSocket, SocketOpen
  <2>4. CASE ~SocketOpen
    <3>1. connectionState' = connectionState /\ crossed /\ connectionState # "Established"
      BY <1>2, <1>8, <2>1, <2>4 DEF ResumeRestart, Redial, sockets, SocketOpen, RestInv, Rested
    <3> QED
      BY <2>1, <2>2, <2>4, <3>1
         DEF sockets, RestInv, Rested, AbandonedIsSilent, NoOrphanSocket, SocketOpen
  <2> QED
    BY <2>3, <2>4
<1>9. ASSUME NEW ids \in Batches, SendPackets(ids) PROVE Rested' /\ AbandonedIsSilent'
  <2>1. UNCHANGED <<connectionState, reconnectTimer, ackTimer, sockets, wanted, crossed,
                    restarting, closing>>
    BY <1>9 DEF SendPackets, parentCalls
  <2>2. ~SocketOpen => retransmitTimer' = retransmitTimer
    BY <1>9 DEF SendPackets
  <2> QED
    BY <2>1, <2>2 DEF sockets, RestInv, Rested, AbandonedIsSilent, NoOrphanSocket, SocketOpen
<1>10. ASSUME NEW d \in DatagramsTo(openSockets), ReceivePacket(d), InTime(d)
       PROVE  Rested' /\ AbandonedIsSilent'
  <2>1. SocketOpen /\ UNCHANGED <<closing, wanted, crossed>>
    BY <1>10 DEF ReceivePacket, parentCalls
  <2>2. SocketOpen' /\ NoOrphanSocket' /\ connectionState' # "Disconnected"
    <3>1. CASE UNCHANGED sockets
      <4>1. connectionState' \in {connectionState, "Established", "Closed"}
        BY <1>10 DEF ReceivePacket, StartSession, IgnorePacket, ProcessPacket
      <4> QED
        BY <2>1, <3>1, <4>1 DEF sockets, RestInv, Rested, NoOrphanSocket, SocketOpen
    <3>2. CASE RecreateSocket /\ connectionState' = "Closed"
      BY <1>2, <3>2 DEF RecreateSocket, NoOrphanSocket, SocketOpen
    <3> QED
      BY <1>10, <3>1, <3>2 DEF ReceivePacket, StartSession, IgnorePacket, ProcessPacket
  <2>3. Rested'
    BY <2>1, <2>2 DEF RestInv, Rested
  <2>4. CASE StartSession(d)
    <3>1. restarting' = restarting /\ restarting = 0
      BY <1>2, <1>10, <2>4 DEF StartSession, InTime
    <3> QED
      BY <2>3, <3>1 DEF AbandonedIsSilent
  <2>5. CASE IgnorePacket(d)
    BY <2>3, <2>5 DEF IgnorePacket, RestInv, AbandonedIsSilent
  <2>6. CASE ProcessPacket(d)
    <3>1. restarting = 0
      BY <1>2, <2>6 DEF ProcessPacket, RestInv, AbandonedIsSilent
    <3>2. \/ restarting' = restarting
          \/ connectionState' = "Closed" /\ restarting' = restarting + 1
      BY <2>6 DEF ProcessPacket
    <3> QED
      BY <2>3, <3>1, <3>2 DEF AbandonedIsSilent
  <2> QED
    BY <1>10, <2>4, <2>5, <2>6 DEF ReceivePacket
<1>11. CASE AckTimeout \/ RetransmitTimerIdle \/ RetransmitOverdue \/ Silence
            \/ ReceiveMalformed \/ UNCHANGED childVars
  <2>1. /\ UNCHANGED <<connectionState, reconnectTimer, sockets, wanted, crossed, restarting,
                       closing>>
        /\ retransmitTimer' = retransmitTimer \/ ~retransmitTimer'
        /\ ackTimer' = ackTimer \/ ~ackTimer'
    BY <1>11 DEF AckTimeout, RetransmitTimerIdle, RetransmitOverdue, Silence,
       ReceiveMalformed, childVars, parentCalls, timers
  <2> QED
    BY <2>1 DEF sockets, RestInv, Rested, AbandonedIsSilent, NoOrphanSocket, SocketOpen
<1> QED
  BY <1>4, <1>5, <1>6, <1>7, <1>8, <1>9, <1>10, <1>11
     DEF Next, ParentStep, TimerStep, SocketStep

\* The first socket is open, and alone.
LEMMA RestedInit == Init => RestInv
<1> SUFFICES ASSUME Init PROVE RestInv
  OBVIOUS
<1>1. SocketOpen /\ openSockets = {socket}
  BY DEF Init, SocketOpen
<1>2. connectionState = "Closed" /\ closing = 0 /\ wanted = "nothing" /\ restarting = 0
  BY DEF Init
<1> QED
  BY <1>1, <1>2, TypeInit DEF RestInv, Rested, AbandonedIsSilent, NoOrphanSocket

\* The invariant of the child whose parent waits.
LEMMA AlwaysRested == ASSUME ~Overlap, ~SlowParent PROVE Spec => []RestInv
<1>1. RestInv /\ [Next]_childVars => RestInv'
  BY RestStep
<1> QED
  BY <1>1, RestedInit, PTL DEF Spec

\* No socket is left open but the current one, for every parent that waits for its
\* disconnects to end and answers in time: restarts and disconnects close what they leave,
\* and each other's, whichever comes while the other waits
\* (atemSocketChild.ts:116-160, 196-201).
THEOREM NoSocketIsOrphaned == ASSUME ~Overlap, ~SlowParent PROVE Spec => []NoOrphanSocket
<1>1. RestInv => NoOrphanSocket
  BY DEF RestInv, Rested
<1> QED BY <1>1, AlwaysRested, PTL

\* A disconnection the parent asked for, and waited for, lasts until it connects again,
\* unless it met a restart that waits: no timer, no datagram and no restart before or
\* after it undoes it (atemSocketChild.ts:116-123).
THEOREM DisconnectionAlwaysLasts ==
    ASSUME ~Overlap, ~SlowParent
    PROVE  Spec => []DisconnectionLasts
<1>1. RestInv => DisconnectionLasts
  BY DEF RestInv, Rested, NoOrphanSocket, SocketOpen, DisconnectionLasts
<1> QED BY <1>1, AlwaysRested, PTL

\* What LossIsReported says of a step.
Reported == connectionState = "Established" /\ connectionState' # "Established"
              => \E i \in DOMAIN posting' : posting'[i] = Disconnected

\* Whatever ends a session in a step reports it in the same step.
LEMMA EndIsReported ==
    ASSUME ~Overlap, ~SlowParent, RestInv, [Next]_childVars
    PROVE  Reported
<1> SUFFICES ASSUME connectionState = "Established", connectionState' # "Established"
             PROVE  \E i \in DOMAIN posting' : posting'[i] = Disconnected
  BY DEF Reported
<1>1. ASSUME OnDisconnect PROVE 1 \in DOMAIN posting' /\ posting'[1] = Disconnected
  BY <1>1 DEF OnDisconnect
<1>2. ASSUME RestartConnection PROVE OnDisconnect
  BY <1>2 DEF RestartConnection, AbandonSession, ReopenAndRedial, RedialOnSameSocket
<1>3. CASE Connect \/ GiveUpOverdue \/ ReconnectTick \/ SocketError
  <2>1. RestartConnection
    BY <1>3 DEF Connect, GiveUpOverdue, ReconnectTick, SocketError
  <2> QED
    BY <1>1, <1>2, <2>1
<1>4. CASE Disconnect \/ SocketClosed
  BY <1>1, <1>4 DEF Disconnect, SocketClosed
<1>5. CASE ResumeRestart
  BY <1>5 DEF ResumeRestart, RestInv, AbandonedIsSilent
<1>6. ASSUME NEW d \in DatagramsTo(openSockets), ReceivePacket(d)
      PROVE  \E i \in DOMAIN posting' : posting'[i] = Disconnected
  <2> DEFINE lost == /\ "RetransmitRequest" \in d.flags
                     /\ \A p \in inFlight : p.packetId # d.from % MaxPacketId
             rest == Optional(IsNext(d) /\ d.payload # 0, CommandsReceived(d.payload))
                      \o Optional("AckReply" \in d.flags,
                                  PacketsAcknowledged({p.trackingId : p \in AckedPackets(d)}))
  <2>1. ProcessPacket(d)
    BY <1>6 DEF ReceivePacket, StartSession, IgnorePacket
  <2>2. lost
    BY <2>1 DEF ProcessPacket
  <2>3. posting' = <<Disconnected>>
                      \o Optional(IsNext(d) /\ d.payload # 0, CommandsReceived(d.payload))
                      \o Optional("AckReply" \in d.flags,
                                  PacketsAcknowledged({p.trackingId : p \in AckedPackets(d)}))
    BY <2>1, <2>2 DEF ProcessPacket, Optional
  <2>4. ASSUME NEW s, NEW t, s = <<>> \/ \E a : s = <<a>>, t = <<>> \/ \E b : t = <<b>>
        PROVE  LET r == <<Disconnected>> \o s \o t IN 1 \in DOMAIN r /\ r[1] = Disconnected
    BY <2>4
  <2>5. 1 \in DOMAIN posting' /\ posting'[1] = Disconnected
    BY <2>3, <2>4 DEF Optional
  <2> QED
    BY <2>5
<1>7. CASE AckTimeout \/ RetransmitTimerIdle \/ RetransmitOverdue \/ Silence
           \/ ReceiveMalformed \/ UNCHANGED childVars
  BY <1>7 DEF AckTimeout, RetransmitTimerIdle, RetransmitOverdue, Silence,
     ReceiveMalformed, childVars
<1>8. ASSUME NEW ids, SendPackets(ids) PROVE FALSE
  BY <1>8 DEF SendPackets
<1> QED
  BY <1>3, <1>4, <1>5, <1>6, <1>7, <1>8 DEF Next, ParentStep, TimerStep, SocketStep

\* The parent is told of every session that ends, if it waits for its disconnects and
\* answers in time: no restart, timer, datagram or disconnect ends one in
\* silence (atemSocketChild.ts:119-122, 139-143).
THEOREM LossIsAlwaysReported ==
    ASSUME ~Overlap, ~SlowParent
    PROVE  Spec => LossIsReported
<1>1. RestInv /\ [Next]_childVars => RestInv'
  BY RestStep
<1>2. RestInv /\ [Next]_childVars
        => [connectionState = "Established" /\ connectionState' # "Established"
              => \E i \in DOMAIN posting' : posting'[i] = Disconnected]_childVars
  BY EndIsReported DEF Reported
<1> QED
  BY <1>1, <1>2, RestedInit, PTL DEF Spec, LossIsReported

-----------------------------------------------------------------------------
(* The child keeps its contract *)

\* No two packets in flight have the same tracking id.
DistinctIds == \A p, q \in inFlight : p.trackingId = q.trackingId => p = q

\* Counting packets as resent tells apart what it told apart, and nothing else.
LEMMA ResentIds ==
    ASSUME TypeOK, DistinctIds, NEW packets \in SUBSET inFlight, NEW resend
    PROVE  LET now == Resent(packets, resend)
           IN  /\ {p.trackingId : p \in now} = {p.trackingId : p \in packets}
               /\ \A p, q \in now : p.trackingId = q.trackingId => p = q
<1> DEFINE image(p) == IF p \in resend /\ p.resent <= MaxPacketRetries
                       THEN [p EXCEPT !.resent = @ + 1] ELSE p
           now == Resent(packets, resend)
<1>1. now = {image(p) : p \in packets}
  BY DEF Resent
<1>2. ASSUME NEW p \in packets PROVE image(p).trackingId = p.trackingId
  BY DEF TypeOK, InFlightPacket
<1>3. {p.trackingId : p \in now} = {p.trackingId : p \in packets}
  <2> HIDE DEF now, image
  <2> QED
    BY <1>1, <1>2
<1>4. ASSUME NEW p \in now, NEW q \in now, p.trackingId = q.trackingId PROVE p = q
  <2> HIDE DEF now, image
  <2>1. PICK a \in packets : p = image(a)
    BY <1>1
  <2>2. PICK b \in packets : q = image(b)
    BY <1>1
  <2>3. a = b
    BY <1>2, <1>4, <2>1, <2>2 DEF DistinctIds
  <2> QED
    BY <2>1, <2>2, <2>3
<1> HIDE DEF now
<1> QED
  BY <1>3, <1>4 DEF now

\* Packets keep their ids apart.
LEMMA DistinctStep == TypeOK /\ DistinctIds /\ [Next]_childVars => DistinctIds'
<1> SUFFICES ASSUME TypeOK, DistinctIds, [Next]_childVars PROVE DistinctIds'
  OBVIOUS
<1>1. ASSUME inFlight' = {} \/ inFlight' = inFlight PROVE DistinctIds'
  BY <1>1 DEF DistinctIds
<1>2. ASSUME NEW packets \in SUBSET inFlight, NEW resend, inFlight' = Resent(packets, resend)
      PROVE  DistinctIds'
  BY <1>2, ResentIds DEF DistinctIds
<1>3. CASE Connect \/ GiveUpOverdue \/ ReconnectTick \/ SocketError \/ ResumeRestart
  BY <1>1, <1>3 DEF Connect, GiveUpOverdue, ReconnectTick, SocketError, ResumeRestart,
     RestartConnection, AbandonSession, ReopenAndRedial, RedialOnSameSocket, Redial,
     ResetConnection, sender
<1>4. ASSUME NEW ids \in Batches, AreNew(ids), SendPackets(ids) PROVE DistinctIds'
  <2>1. CASE SocketOpen
    <3>1. inFlight' = inFlight \union {BatchPacket(ids, i) : i \in 1 .. Len(ids)}
      BY <1>4, <2>1 DEF SendPackets
    <3>2. DOMAIN ids = 1 .. Len(ids)
      BY DEF Batches
    <3>3. \A i \in 1 .. Len(ids) : BatchPacket(ids, i).trackingId = ids[i]
      BY DEF BatchPacket
    <3>4. \A p \in inFlight, i \in 1 .. Len(ids) : p.trackingId # BatchPacket(ids, i).trackingId
      BY <1>4, <3>2, <3>3 DEF AreNew
    <3>5. \A i, j \in 1 .. Len(ids) :
             BatchPacket(ids, i).trackingId = BatchPacket(ids, j).trackingId => i = j
      BY <1>4, <3>2, <3>3 DEF AreNew
    <3> QED
      BY <3>1, <3>4, <3>5 DEF DistinctIds
  <2>2. CASE ~SocketOpen
    BY <1>1, <1>4, <2>2 DEF SendPackets
  <2> QED
    BY <2>1, <2>2
<1>5. ASSUME NEW d, ReceivePacket(d) PROVE DistinctIds'
  <2>1. CASE StartSession(d) \/ IgnorePacket(d)
    BY <1>1, <2>1 DEF StartSession, IgnorePacket, sender
  <2>2. CASE ProcessPacket(d)
    <3>1. \E resend : inFlight' = Resent(inFlight \ AckedPackets(d), resend)
      BY <2>2 DEF ProcessPacket
    <3> QED
      BY <1>2, <3>1
  <2> QED
    BY <1>5, <2>1, <2>2 DEF ReceivePacket
<1>6. CASE RetransmitOverdue
  BY <1>2, <1>6 DEF RetransmitOverdue
<1>7. CASE Disconnect \/ SocketClosed \/ AckTimeout \/ RetransmitTimerIdle \/ Silence
           \/ ReceiveMalformed \/ UNCHANGED childVars
  BY <1>1, <1>7 DEF Disconnect, SocketClosed, AckTimeout, RetransmitTimerIdle, Silence,
     ReceiveMalformed, childVars, sender
<1> QED
  BY <1>3, <1>4, <1>5, <1>6, <1>7 DEF Next, ParentStep, TimerStep, SocketStep

\* The conditions a child may be in.
Conditions == [state : ConnectionState, inFlight : SUBSET TrackingIds, open : BOOLEAN,
               armed : BOOLEAN, restarting : Int, closing : Int]

\* A condition is its fields.
LEMMA SameCondition ==
    ASSUME NEW c \in Conditions, NEW d \in Conditions,
           c.state = d.state, c.inFlight = d.inFlight, c.open = d.open, c.armed = d.armed,
           c.restarting = d.restarting, c.closing = d.closing
    PROVE  c = d
  BY DEF Conditions

\* What the steps of the contract make of the fields of a condition: a session given up,
LEMMA AbandonedFields ==
    ASSUME NEW c \in Conditions
    PROVE  LET d == Contract!Abandoned(c)
           IN  /\ d \in Conditions
               /\ d.state = "Closed" /\ d.inFlight = c.inFlight /\ d.open = TRUE
               /\ d.armed = FALSE
               /\ d.restarting = c.restarting + 1 /\ d.closing = c.closing
<1>1. c.restarting + 1 \in Int /\ "Closed" \in ConnectionState
  BY DEF Conditions, ConnectionState
<1>2. Contract!Abandoned(c) \in Conditions
  BY <1>1 DEF Conditions, Contract!Abandoned
<1>3. LET d == Contract!Abandoned(c)
      IN  /\ d.state = "Closed" /\ d.inFlight = c.inFlight /\ d.open = TRUE
          /\ d.armed = FALSE /\ d.closing = c.closing
  BY DEF Conditions, Contract!Abandoned
<1>4. Contract!Abandoned(c).restarting = c.restarting + 1
  BY DEF Conditions, Contract!Abandoned
<1> QED
  BY <1>2, <1>3, <1>4

\* a HELLO,
LEMMA DialledFields ==
    ASSUME NEW c \in Conditions
    PROVE  LET d == Contract!Dialled(c)
           IN  /\ d \in Conditions
               /\ d.state = IF c.open THEN "SynSent" ELSE c.state
               /\ d.inFlight = {} /\ d.open = c.open /\ d.armed = TRUE
               /\ d.restarting = c.restarting /\ d.closing = c.closing
  BY DEF Conditions, ConnectionState, Contract!Dialled

\* a disconnect and its end,
LEMMA DisconnectFields ==
    ASSUME NEW c \in Conditions
    PROVE  /\ LET d == Contract!Disconnecting(c)
              IN  /\ d \in Conditions /\ d.inFlight = c.inFlight
                  /\ d.state = IF c.open THEN c.state ELSE "Disconnected"
                  /\ d.open = FALSE /\ d.armed = FALSE /\ d.restarting = c.restarting
                  /\ d.closing = IF c.open THEN c.closing + 1 ELSE c.closing
           /\ LET d == Contract!ClosedDown(c)
              IN  /\ d \in Conditions /\ d.inFlight = c.inFlight
                  /\ d.state = "Disconnected" /\ d.open = c.open /\ d.armed = c.armed
                  /\ d.restarting = c.restarting /\ d.closing = c.closing - 1
<1>1. /\ c.closing + 1 \in Int /\ c.closing - 1 \in Int /\ "Disconnected" \in ConnectionState
  BY DEF Conditions, ConnectionState
<1>2. Contract!Disconnecting(c) \in Conditions
  BY <1>1 DEF Conditions, Contract!Disconnecting
<1>3. Contract!ClosedDown(c) \in Conditions
  BY <1>1 DEF Conditions, Contract!ClosedDown
<1>4. ASSUME c.open
      PROVE  LET d == Contract!Disconnecting(c)
             IN  /\ d.inFlight = c.inFlight /\ d.state = c.state /\ d.open = FALSE
                 /\ d.armed = FALSE /\ d.restarting = c.restarting
                 /\ d.closing = c.closing + 1
  BY <1>4 DEF Conditions, Contract!Disconnecting
<1>5. ASSUME ~c.open
      PROVE  LET d == Contract!Disconnecting(c)
             IN  /\ d.inFlight = c.inFlight /\ d.state = "Disconnected" /\ d.open = FALSE
                 /\ d.armed = FALSE /\ d.restarting = c.restarting
                 /\ d.closing = c.closing
  BY <1>5 DEF Conditions, Contract!Disconnecting
<1>6. LET d == Contract!ClosedDown(c)
      IN  /\ d \in Conditions /\ d.inFlight = c.inFlight
          /\ d.state = "Disconnected" /\ d.open = c.open /\ d.armed = c.armed
          /\ d.restarting = c.restarting /\ d.closing = c.closing - 1
  BY <1>3 DEF Conditions, Contract!ClosedDown
<1>7. LET d == Contract!Disconnecting(c)
      IN  /\ d \in Conditions /\ d.inFlight = c.inFlight
          /\ d.state = IF c.open THEN c.state ELSE "Disconnected"
          /\ d.open = FALSE /\ d.armed = FALSE /\ d.restarting = c.restarting
          /\ d.closing = IF c.open THEN c.closing + 1 ELSE c.closing
  BY <1>2, <1>4, <1>5
<1> QED
  BY <1>6, <1>7

\* a session, packets sent and packets acknowledged.
LEMMA SessionFields ==
    ASSUME NEW c \in Conditions, NEW ids \in SUBSET TrackingIds
    PROVE  /\ LET d == Contract!InSession(c)
              IN  /\ d \in Conditions /\ d.state = "Established" /\ d.inFlight = c.inFlight
                  /\ d.open = c.open /\ d.armed = c.armed
                  /\ d.restarting = c.restarting /\ d.closing = c.closing
           /\ LET d == Contract!Holding(c, ids)
              IN  /\ d \in Conditions /\ d.state = c.state
                  /\ d.inFlight = IF c.open THEN c.inFlight \union ids ELSE c.inFlight
                  /\ d.open = c.open /\ d.armed = c.armed
                  /\ d.restarting = c.restarting /\ d.closing = c.closing
           /\ LET d == Contract!Relieved(c, ids)
              IN  /\ d \in Conditions /\ d.state = c.state /\ d.inFlight = c.inFlight \ ids
                  /\ d.open = c.open /\ d.armed = c.armed
                  /\ d.restarting = c.restarting /\ d.closing = c.closing
<1>1. LET d == Contract!InSession(c)
      IN  /\ d \in Conditions /\ d.state = "Established" /\ d.inFlight = c.inFlight
          /\ d.open = c.open /\ d.armed = c.armed
          /\ d.restarting = c.restarting /\ d.closing = c.closing
  BY DEF Conditions, ConnectionState, Contract!InSession
<1>2. LET d == Contract!Holding(c, ids)
      IN  /\ d \in Conditions /\ d.state = c.state
          /\ d.inFlight = IF c.open THEN c.inFlight \union ids ELSE c.inFlight
          /\ d.open = c.open /\ d.armed = c.armed
          /\ d.restarting = c.restarting /\ d.closing = c.closing
  BY DEF Conditions, Contract!Holding
<1>3. LET d == Contract!Relieved(c, ids)
      IN  /\ d \in Conditions /\ d.state = c.state /\ d.inFlight = c.inFlight \ ids
          /\ d.open = c.open /\ d.armed = c.armed
          /\ d.restarting = c.restarting /\ d.closing = c.closing
  BY DEF Conditions, Contract!Relieved
<1> QED
  BY <1>1, <1>2, <1>3
\* The child as its parent sees it.
Condition == [state |-> connectionState, inFlight |-> {p.trackingId : p \in inFlight},
              open |-> SocketOpen, armed |-> reconnectTimer,
              restarting |-> restarting, closing |-> closing]

\* It is one of them, with the fields it says.
LEMMA ConditionFields ==
    ASSUME TypeOK
    PROVE  /\ Condition \in Conditions
           /\ Condition.state = connectionState
           /\ Condition.inFlight = {p.trackingId : p \in inFlight}
           /\ Condition.open = SocketOpen /\ Condition.armed = reconnectTimer
           /\ Condition.restarting = restarting /\ Condition.closing = closing
<1>1. {p.trackingId : p \in inFlight} \in SUBSET TrackingIds
  BY DEF TypeOK, InFlightPacket
<1>2. /\ connectionState \in ConnectionState /\ SocketOpen \in BOOLEAN
      /\ reconnectTimer \in BOOLEAN /\ restarting \in Int /\ closing \in Int
  BY DEF TypeOK, SocketOpen
<1> QED
  BY <1>1, <1>2 DEF Condition, Conditions

\* The next one is told by its fields.
LEMMA NextCondition ==
    ASSUME TypeOK', NEW d \in Conditions, d.state = connectionState',
           d.inFlight = {p.trackingId : p \in inFlight}', d.open = SocketOpen',
           d.armed = reconnectTimer', d.restarting = restarting', d.closing = closing'
    PROVE  Condition' = d
<1>1. {p.trackingId : p \in inFlight}' \in SUBSET TrackingIds
  BY DEF TypeOK, InFlightPacket
<1>2. /\ connectionState' \in ConnectionState /\ SocketOpen' \in BOOLEAN
      /\ reconnectTimer' \in BOOLEAN /\ restarting' \in Int /\ closing' \in Int
  BY DEF TypeOK, SocketOpen
<1>3. /\ Condition' \in Conditions /\ Condition'.state = connectionState'
      /\ Condition'.inFlight = {p.trackingId : p \in inFlight}'
      /\ Condition'.open = SocketOpen' /\ Condition'.armed = reconnectTimer'
      /\ Condition'.restarting = restarting' /\ Condition'.closing = closing'
  BY <1>1, <1>2 DEF Condition, Conditions
<1> QED
  BY <1>3, SameCondition

\* A restart is one of the contract, whichever of its paths it takes.
LEMMA RestartKeepsContract ==
    ASSUME TypeOK, TypeOK', RestartConnection
    PROVE  Contract!Restart
<1>1. /\ Condition \in Conditions
      /\ Condition.state = connectionState
      /\ Condition.inFlight = {p.trackingId : p \in inFlight}
      /\ Condition.open = SocketOpen /\ Condition.armed = reconnectTimer
      /\ Condition.restarting = restarting /\ Condition.closing = closing
  BY ConditionFields
<1>2. CASE AbandonSession
  <2>1. SocketOpen'
    BY <1>2 DEF AbandonSession, RecreateSocket, SocketOpen
  <2>2. /\ connectionState' = "Closed" /\ inFlight' = inFlight /\ reconnectTimer' = FALSE
        /\ restarting' = restarting + 1 /\ closing' = closing
    BY <1>2 DEF AbandonSession, ClearTimers, RestartConnection, sender
  <2>3. Condition' = Contract!Abandoned(Condition)
    BY <1>1, <2>1, <2>2, AbandonedFields, NextCondition
  <2>4. Condition.state = "Established" /\ posting' = <<Disconnected>>
    BY <1>1, <1>2 DEF AbandonSession, OnDisconnect
  <2> QED
    BY <2>3, <2>4 DEF Contract!Restart, Contract!Restarted, Contract!Posts,
       Contract!RestartReports, Contract!DisconnectReport, Disconnected, Condition
<1>3. CASE ReopenAndRedial
  <2> DEFINE c == [Condition EXCEPT !.open = TRUE]
  <2>1. SocketOpen'
    BY <1>3 DEF ReopenAndRedial, CreateSocket, SocketOpen
  <2>2. /\ connectionState' = "SynSent" /\ inFlight' = {} /\ reconnectTimer' = TRUE
        /\ restarting' = restarting /\ closing' = closing
    BY <1>3, <2>1 DEF ReopenAndRedial, Redial, ResetConnection, StartTimers,
       RestartConnection, SocketOpen
  <2>3. /\ c \in Conditions /\ c.open = TRUE /\ c.restarting = restarting
        /\ c.closing = closing
    BY <1>1 DEF Conditions
  <2>4. Condition' = Contract!Dialled(c)
    <3> HIDE DEF c
    <3> DEFINE d == Contract!Dialled(c)
    <3>1. /\ d \in Conditions /\ d.state = "SynSent" /\ d.inFlight = {} /\ d.open = TRUE
          /\ d.armed = TRUE /\ d.restarting = restarting /\ d.closing = closing
      BY <2>3, DialledFields
    <3>2. {p.trackingId : p \in inFlight}' = {}
      BY <2>2
    <3> HIDE DEF d
    <3>3. Condition' = d
      BY <2>1, <2>2, <3>1, <3>2, NextCondition
    <3> QED
      BY <3>3 DEF d
  <2>5. Condition.state = "Disconnected" /\ posting' = <<>>
    BY <1>1, <1>3 DEF ReopenAndRedial, Redial
  <2> QED
    BY <2>4, <2>5 DEF Contract!Restart, Contract!Restarted, Contract!Posts,
       Contract!RestartReports, Condition
<1>4. CASE RedialOnSameSocket
  <2>1. SocketOpen' = SocketOpen
    BY <1>4 DEF RedialOnSameSocket, sockets, SocketOpen
  <2>2. /\ connectionState' = IF SocketOpen THEN "SynSent" ELSE connectionState
        /\ inFlight' = {} /\ reconnectTimer' = TRUE
        /\ restarting' = restarting /\ closing' = closing
    BY <1>4, <2>1 DEF RedialOnSameSocket, Redial, ResetConnection, StartTimers,
       RestartConnection, SocketOpen
  <2>3. Condition' = Contract!Dialled(Condition)
    BY <1>1, <2>1, <2>2, DialledFields, NextCondition
  <2>4. Condition.state \in {"Closed", "SynSent"} /\ posting' = <<>>
    BY <1>1, <1>4 DEF RedialOnSameSocket, Redial
  <2> QED
    BY <2>3, <2>4 DEF Contract!Restart, Contract!Restarted, Contract!Posts,
       Contract!RestartReports, Condition
<1> QED
  BY <1>2, <1>3, <1>4 DEF RestartConnection

\* So are the rest of a restart, a disconnect and the close callback.
LEMMA CallsKeepContract ==
    ASSUME TypeOK, TypeOK'
    PROVE  /\ ResumeRestart => Contract!Resume
           /\ Disconnect => Contract!Disconnect
           /\ SocketClosed => Contract!CloseDown
<1>1. /\ Condition \in Conditions
      /\ Condition.state = connectionState
      /\ Condition.inFlight = {p.trackingId : p \in inFlight}
      /\ Condition.open = SocketOpen /\ Condition.armed = reconnectTimer
      /\ Condition.restarting = restarting /\ Condition.closing = closing
  BY ConditionFields
<1>2. ASSUME ResumeRestart PROVE Contract!Resume
  <2> DEFINE c == [Condition EXCEPT !.restarting = Condition.restarting - 1]
  <2>1. SocketOpen' = SocketOpen
    BY <1>2 DEF ResumeRestart, sockets, SocketOpen
  <2>2. /\ connectionState' = IF SocketOpen THEN "SynSent" ELSE connectionState
        /\ inFlight' = {} /\ reconnectTimer' = TRUE
        /\ restarting' = restarting - 1 /\ closing' = closing /\ posting' = <<>>
    BY <1>2, <2>1 DEF ResumeRestart, Redial, ResetConnection, StartTimers, SocketOpen
  <2>3. restarting \in Nat /\ restarting > 0 /\ restarting - 1 \in Int
    BY <1>2 DEF ResumeRestart, TypeOK
  <2>4. c \in Conditions /\ c.restarting = restarting - 1
    BY <1>1, <2>3 DEF Conditions
  <2>5. c.state = connectionState /\ c.open = SocketOpen /\ c.closing = closing
    BY <1>1 DEF Conditions
  <2>6. Condition' = Contract!Dialled(c)
    <3> HIDE DEF c
    <3> QED
      BY <2>1, <2>2, <2>4, <2>5, DialledFields, NextCondition
  <2> QED
    BY <1>1, <2>2, <2>3, <2>6 DEF Contract!Resume, Contract!Resumed, Contract!Posts, Condition
<1>3. ASSUME Disconnect PROVE Contract!Disconnect
  <2>1. /\ reconnectTimer' = FALSE /\ inFlight' = inFlight /\ restarting' = restarting
        /\ SocketOpen' = FALSE
    BY <1>3 DEF Disconnect, ClearTimers, sender, SocketOpen
  <2>2. CASE SocketOpen
    <3>1. connectionState' = connectionState /\ closing' = closing + 1 /\ posting' = <<>>
      BY <1>3, <2>2 DEF Disconnect
    <3>2. Condition' = Contract!Disconnecting(Condition)
      <4> DEFINE d == Contract!Disconnecting(Condition)
      <4>1. /\ d \in Conditions /\ d.state = connectionState /\ d.open = FALSE
            /\ d.inFlight = {p.trackingId : p \in inFlight} /\ d.armed = FALSE
            /\ d.restarting = restarting /\ d.closing = closing + 1
        BY <1>1, <2>2, DisconnectFields
      <4>2. {p.trackingId : p \in inFlight}' = {p.trackingId : p \in inFlight}
        BY <2>1
      <4> HIDE DEF d
      <4>3. Condition' = d
        BY <2>1, <3>1, <4>1, <4>2, NextCondition
      <4> QED
        BY <4>3 DEF d
    <3> QED
      BY <1>1, <2>2, <3>1, <3>2 DEF Contract!Disconnect, Contract!Posts,
         Contract!DisconnectReports, Condition
  <2>3. CASE ~SocketOpen
    <3>1. connectionState' = "Disconnected" /\ closing' = closing /\ posting' = <<Disconnected>>
      BY <1>3, <2>3 DEF Disconnect, OnDisconnect
    <3>2. Condition' = Contract!Disconnecting(Condition)
      <4> DEFINE d == Contract!Disconnecting(Condition)
      <4>1. /\ d \in Conditions /\ d.state = "Disconnected" /\ d.open = FALSE
            /\ d.inFlight = {p.trackingId : p \in inFlight} /\ d.armed = FALSE
            /\ d.restarting = restarting /\ d.closing = closing
        BY <1>1, <2>3, DisconnectFields
      <4>2. {p.trackingId : p \in inFlight}' = {p.trackingId : p \in inFlight}
        BY <2>1
      <4> HIDE DEF d
      <4>3. Condition' = d
        BY <2>1, <3>1, <4>1, <4>2, NextCondition
      <4> QED
        BY <4>3 DEF d
    <3> QED
      BY <1>1, <2>3, <3>1, <3>2 DEF Contract!Disconnect, Contract!Posts,
         Contract!DisconnectReports, Contract!DisconnectReport, Disconnected, Condition
  <2> QED
    BY <2>2, <2>3
<1>4. ASSUME SocketClosed PROVE Contract!CloseDown
  <2>1. /\ reconnectTimer' = reconnectTimer /\ inFlight' = inFlight /\ restarting' = restarting
        /\ SocketOpen' = SocketOpen /\ connectionState' = "Disconnected"
        /\ closing > 0 /\ closing' = closing - 1 /\ posting' = <<Disconnected>>
    BY <1>4 DEF SocketClosed, OnDisconnect, timers, sockets, sender, SocketOpen
  <2>2. Condition' = Contract!ClosedDown(Condition)
    BY <1>1, <2>1, DisconnectFields, NextCondition
  <2> QED
    BY <1>1, <2>1, <2>2 DEF Contract!CloseDown, Contract!Posts, Contract!DisconnectReport,
       Disconnected, Condition
<1> QED
  BY <1>2, <1>3, <1>4

\* A batch adds the ids of its packets.
LEMMA SendKeepsContract ==
    ASSUME TypeOK, TypeOK', NEW ids \in Batches, SendPackets(ids)
    PROVE  Contract!Send
<1> DEFINE new == {ids[i] : i \in 1 .. Len(ids)}
<1>1. /\ Condition \in Conditions
      /\ Condition.state = connectionState
      /\ Condition.inFlight = {p.trackingId : p \in inFlight}
      /\ Condition.open = SocketOpen /\ Condition.armed = reconnectTimer
      /\ Condition.restarting = restarting /\ Condition.closing = closing
  BY ConditionFields
<1>2. new \in SUBSET TrackingIds
  BY DEF Batches
<1>3. /\ connectionState' = connectionState /\ SocketOpen' = SocketOpen
      /\ reconnectTimer' = reconnectTimer /\ restarting' = restarting
      /\ closing' = closing /\ posting' = <<>>
  BY DEF SendPackets, sockets, SocketOpen
<1>4. CASE SocketOpen
  <2> DEFINE d == Contract!Holding(Condition, new)
  <2>1. inFlight' = inFlight \union {BatchPacket(ids, i) : i \in 1 .. Len(ids)}
    BY <1>4 DEF SendPackets
  <2>2. \A i \in 1 .. Len(ids) : BatchPacket(ids, i).trackingId = ids[i]
    BY DEF BatchPacket
  <2>3. {p.trackingId : p \in inFlight}' = {p.trackingId : p \in inFlight} \union new
    <3> DEFINE packets == {BatchPacket(ids, i) : i \in 1 .. Len(ids)}
    <3>1. {p.trackingId : p \in packets} = new
      BY <2>2
    <3> HIDE DEF packets, new
    <3>2. inFlight' = inFlight \union packets
      BY <2>1 DEF packets
    <3> QED
      BY <3>1, <3>2
  <2>4. /\ d \in Conditions /\ d.state = connectionState /\ d.open = SocketOpen
        /\ d.inFlight = {p.trackingId : p \in inFlight} \union new /\ d.armed = reconnectTimer
        /\ d.restarting = restarting /\ d.closing = closing
    <3> HIDE DEF new
    <3>1. /\ d \in Conditions /\ d.state = Condition.state /\ d.open = Condition.open
          /\ d.inFlight = IF Condition.open THEN Condition.inFlight \union new
                          ELSE Condition.inFlight
          /\ d.armed = Condition.armed
          /\ d.restarting = Condition.restarting /\ d.closing = Condition.closing
      BY <1>1, <1>2, SessionFields
    <3> HIDE DEF d
    <3> QED
      BY <1>1, <1>4, <3>1
  <2> HIDE DEF d, new
  <2>5. Condition' = d
    BY <1>3, <2>3, <2>4, NextCondition
  <2>6. new \in SUBSET {p.trackingId : p \in inFlight}'
    BY <2>3
  <2> QED
    BY <1>3, <2>5, <2>6 DEF Contract!Send, Contract!Posts, Condition, d
<1>5. CASE ~SocketOpen
  <2>1. inFlight' = inFlight
    BY <1>5 DEF SendPackets
  <2>2. {p.trackingId : p \in inFlight}' = {p.trackingId : p \in inFlight}
    BY <2>1
  <2>3. Condition' = Condition
    BY <1>1, <1>3, <2>2, NextCondition
  <2>4. Contract!Holding(Condition, {}) = Condition
    BY <1>1, <1>5 DEF Contract!Holding
  <2>5. {} \in SUBSET Condition'.inFlight
    OBVIOUS
  <2> QED
    BY <1>3, <2>3, <2>4, <2>5 DEF Contract!Send, Contract!Posts, Condition
<1> QED
  BY <1>4, <1>5

\* A packet of a session is one of the contract: what leaves the flight is reported, and
\* a session given up is reported first.
LEMMA ProcessKeepsContract ==
    ASSUME TypeOK, TypeOK', DistinctIds, NEW d, ReceivePacket(d), ProcessPacket(d)
    PROVE  Contract!Receive
<1> DEFINE lost  == /\ "RetransmitRequest" \in d.flags
                    /\ \A p \in inFlight : p.packetId # d.from % MaxPacketId
           acked == {p.trackingId : p \in AckedPackets(d)}
           old   == {p.trackingId : p \in inFlight}
           asked == IsNext(d) /\ d.payload # 0
           reply == "AckReply" \in d.flags
<1>1. /\ Condition \in Conditions
      /\ Condition.state = connectionState
      /\ Condition.inFlight = old
      /\ Condition.open = SocketOpen /\ Condition.armed = reconnectTimer
      /\ Condition.restarting = restarting /\ Condition.closing = closing
  BY ConditionFields
<1>2. connectionState = "Established" /\ SocketOpen /\ closing' = closing
  BY DEF ProcessPacket, ReceivePacket
<1>3. /\ {p.trackingId : p \in inFlight}' = old \ acked /\ acked \in SUBSET old
      /\ ~reply => acked = {}
  <2>1. PICK resend : inFlight' = Resent(inFlight \ AckedPackets(d), resend)
    BY DEF ProcessPacket
  <2>2. {p.trackingId : p \in inFlight'} = {p.trackingId : p \in inFlight \ AckedPackets(d)}
    BY <2>1, ResentIds
  <2>3. AckedPackets(d) \in SUBSET inFlight /\ (~reply => AckedPackets(d) = {})
    BY DEF AckedPackets
  <2>4. {p.trackingId : p \in inFlight \ AckedPackets(d)} = old \ acked
    BY <2>3 DEF DistinctIds
  <2> QED
    BY <2>2, <2>3, <2>4
<1>4. /\ \A i \in DOMAIN posting' : \/ lost /\ i = 1 /\ posting'[i] = Disconnected
                                    \/ posting'[i] = CommandsReceived(d.payload)
                                    \/ reply /\ posting'[i] = PacketsAcknowledged(acked)
      /\ lost => \E i \in DOMAIN posting' : posting'[i] = Disconnected
      /\ reply => \E i \in DOMAIN posting' : posting'[i] = PacketsAcknowledged(acked)
  <2>1. posting' = Optional(lost, Disconnected)
                      \o Optional(asked, CommandsReceived(d.payload))
                      \o Optional(reply, PacketsAcknowledged(acked))
    BY DEF ProcessPacket
  <2> DEFINE a == Disconnected
             b == CommandsReceived(d.payload)
             c == PacketsAcknowledged(acked)
             x == Optional(lost, a)
             y == Optional(asked, b)
             z == Optional(reply, c)
             s == x \o y \o z
  <2>2. /\ x \in {<<>>, <<a>>} /\ y \in {<<>>, <<b>>} /\ z \in {<<>>, <<c>>}
        /\ (x # <<>> <=> lost) /\ (z # <<>> <=> reply)
    BY DEF Optional
  <2>3. posting' = s
    BY <2>1
  <2> HIDE DEF a, b, c, x, y, z
  <2>4. CallsOf(s, x, y, z, a, b, c)
    <3> HIDE DEF lost, acked, asked, reply, old
    <3>1. x \in {<<>>, <<a>>} /\ y \in {<<>>, <<b>>} /\ z \in {<<>>, <<c>>}
      BY <2>2
    <3> QED
      BY <3>1, OptionalCalls
  <2> HIDE DEF s
  <2> QED
    BY <2>2, <2>3, <2>4 DEF a, b, c, CallsOf
<1>5. /\ Disconnected.type = "disconnect"
      /\ CommandsReceived(d.payload).type = "commands"
      /\ PacketsAcknowledged(acked).type = "acknowledged"
      /\ PacketsAcknowledged(acked).ids = acked
  BY DEF Disconnected, CommandsReceived, PacketsAcknowledged
<1> HIDE DEF lost, acked, old, asked, reply
<1>6. (Contract!Reports("disconnect") # {}) <=> lost
  BY <1>4, <1>5 DEF Contract!Reports
<1>7. UNION {call.ids : call \in Contract!Reports("acknowledged")} = acked
  <2>1. CASE reply
    <3>1. Contract!Reports("acknowledged") = {PacketsAcknowledged(acked)}
      BY <1>4, <1>5, <2>1 DEF Contract!Reports
    <3> QED
      BY <1>5, <3>1
  <2>2. CASE ~reply
    <3>1. Contract!Reports("acknowledged") = {}
      BY <1>4, <1>5, <2>2 DEF Contract!Reports
    <3> QED
      BY <1>3, <2>2, <3>1
  <2> QED
    BY <2>1, <2>2
<1>8. \A i \in DOMAIN posting' : posting'[i].type = "disconnect" => i = 1
  BY <1>4, <1>5
<1>9. acked \in SUBSET TrackingIds
  BY <1>1, <1>3 DEF Conditions
<1>10. Condition' = Contract!Relieved(IF lost THEN Contract!Abandoned(Condition) ELSE Condition,
                                      acked)
  <2>1. CASE lost
    <3> DEFINE c == Contract!Abandoned(Condition)
               k == Contract!Relieved(c, acked)
    <3>1. /\ c \in Conditions /\ c.state = "Closed" /\ c.inFlight = old /\ c.open = TRUE
          /\ c.armed = FALSE /\ c.restarting = restarting + 1 /\ c.closing = closing
      BY <1>1, AbandonedFields
    <3> HIDE DEF c
    <3>2. /\ k \in Conditions /\ k.state = "Closed" /\ k.inFlight = old \ acked /\ k.open = TRUE
          /\ k.armed = FALSE /\ k.restarting = restarting + 1 /\ k.closing = closing
      BY <1>9, <3>1, SessionFields
    <3>3. /\ connectionState' = "Closed" /\ reconnectTimer' = FALSE /\ RecreateSocket
          /\ restarting' = restarting + 1
      BY <2>1 DEF ProcessPacket, lost
    <3>4. SocketOpen'
      BY <3>3 DEF RecreateSocket, SocketOpen
    <3> HIDE DEF k
    <3>5. Condition' = k
      BY <1>2, <1>3, <3>2, <3>3, <3>4, NextCondition
    <3> QED
      BY <2>1, <3>5 DEF k, c
  <2>2. CASE ~lost
    <3> DEFINE k == Contract!Relieved(Condition, acked)
    <3>1. /\ k \in Conditions /\ k.state = Condition.state
          /\ k.inFlight = Condition.inFlight \ acked /\ k.open = Condition.open
          /\ k.armed = Condition.armed /\ k.restarting = Condition.restarting
          /\ k.closing = Condition.closing
      BY <1>1, <1>9, SessionFields
    <3>2. UNCHANGED <<socket, openSockets, connectionState, restarting, reconnectTimer>>
      BY <2>2 DEF ProcessPacket, lost, sockets
    <3>3. SocketOpen' = SocketOpen
      BY <3>2 DEF SocketOpen
    <3> HIDE DEF k
    <3>4. Condition' = k
      BY <1>1, <1>2, <1>3, <3>1, <3>2, <3>3, NextCondition
    <3> QED
      BY <2>2, <3>4 DEF k
  <2> QED
    BY <2>1, <2>2
<1>11. Condition.inFlight \ Condition'.inFlight = acked
  BY <1>1, <1>3 DEF Condition
<1> QED
  BY <1>1, <1>2, <1>6, <1>7, <1>8, <1>10, <1>11 DEF Contract!Receive, Condition

\* Every step of the child is one of the contract, or one its parent does not see.
LEMMA ContractStep ==
    ASSUME TypeOK, TypeOK', DistinctIds, [Next]_childVars
    PROVE  [Contract!Next]_(Contract!contractVars)
<1>1. /\ Condition \in Conditions
      /\ Condition.state = connectionState
      /\ Condition.inFlight = {p.trackingId : p \in inFlight}
      /\ Condition.open = SocketOpen /\ Condition.armed = reconnectTimer
      /\ Condition.restarting = restarting /\ Condition.closing = closing
  BY ConditionFields
<1>2. ASSUME Condition' = Condition, posting' = <<>> PROVE Contract!Quiet
  BY <1>2 DEF Contract!Quiet, Contract!Posts, Condition
<1>3. ASSUME {p.trackingId : p \in inFlight}' = {p.trackingId : p \in inFlight},
             UNCHANGED <<connectionState, SocketOpen, reconnectTimer, restarting, closing>>
      PROVE  Condition' = Condition
  BY <1>1, <1>3, NextCondition
<1>4. CASE Connect \/ GiveUpOverdue \/ ReconnectTick \/ SocketError
  <2>1. RestartConnection
    BY <1>4 DEF Connect, GiveUpOverdue, ReconnectTick, SocketError
  <2> QED
    BY <2>1, RestartKeepsContract DEF Contract!Next
<1>5. CASE ResumeRestart \/ Disconnect \/ SocketClosed
  BY <1>5, CallsKeepContract DEF Contract!Next
<1>6. ASSUME NEW ids \in Batches, SendPackets(ids) PROVE Contract!Next
  BY <1>6, SendKeepsContract DEF Contract!Next
<1>7. ASSUME NEW d, ReceivePacket(d) PROVE Contract!Next
  <2>1. CASE StartSession(d)
    <3> DEFINE k == Contract!InSession(Condition)
    <3>1. /\ k \in Conditions /\ k.state = "Established" /\ k.inFlight = Condition.inFlight
          /\ k.open = Condition.open /\ k.armed = Condition.armed
          /\ k.restarting = Condition.restarting /\ k.closing = Condition.closing
      <4>1. {} \in SUBSET TrackingIds
        OBVIOUS
      <4> QED
        BY <1>1, <4>1, SessionFields
    <3>2. /\ connectionState' = "Established" /\ posting' = <<>> /\ inFlight' = inFlight
          /\ UNCHANGED <<SocketOpen, reconnectTimer, restarting, closing>> /\ SocketOpen
      BY <1>7, <2>1 DEF StartSession, ReceivePacket, timers, sockets, sender, SocketOpen
    <3>3. {p.trackingId : p \in inFlight}' = {p.trackingId : p \in inFlight}
      BY <3>2
    <3> HIDE DEF k
    <3>4. Condition' = k
      BY <1>1, <3>1, <3>2, <3>3, NextCondition
    <3> QED
      BY <1>1, <3>2, <3>4 DEF Contract!Next, Contract!StartSession, Contract!Posts, Condition, k
  <2>2. CASE IgnorePacket(d)
    <3>1. /\ inFlight' = inFlight /\ posting' = <<>>
          /\ UNCHANGED <<connectionState, SocketOpen, reconnectTimer, restarting, closing>>
      BY <1>7, <2>2 DEF IgnorePacket, ReceivePacket, timers, sockets, sender, SocketOpen
    <3> QED
      BY <1>2, <1>3, <3>1 DEF Contract!Next
  <2>3. CASE ProcessPacket(d)
    BY <1>7, <2>3, ProcessKeepsContract DEF Contract!Next
  <2> QED
    BY <1>7, <2>1, <2>2, <2>3 DEF ReceivePacket
<1>8. CASE RetransmitOverdue
  <2>1. PICK resend : inFlight' = Resent(inFlight, resend)
    BY <1>8 DEF RetransmitOverdue
  <2>2. {p.trackingId : p \in inFlight'} = {p.trackingId : p \in inFlight}
    BY <2>1, ResentIds
  <2>3. /\ posting' = <<>>
        /\ UNCHANGED <<connectionState, SocketOpen, reconnectTimer, restarting, closing>>
    BY <1>8 DEF RetransmitOverdue, timers, sockets, SocketOpen
  <2> QED
    BY <1>2, <1>3, <2>2, <2>3 DEF Contract!Next
<1>9. CASE AckTimeout \/ RetransmitTimerIdle \/ Silence \/ ReceiveMalformed
  <2>1. /\ inFlight' = inFlight /\ posting' = <<>>
        /\ UNCHANGED <<connectionState, SocketOpen, reconnectTimer, restarting, closing>>
    BY <1>9 DEF AckTimeout, RetransmitTimerIdle, Silence, ReceiveMalformed, timers, sockets,
       sender, SocketOpen
  <2> QED
    BY <1>2, <1>3, <2>1 DEF Contract!Next
<1>10. CASE UNCHANGED childVars
  <2>1. UNCHANGED <<connectionState, inFlight, openSockets, socket, reconnectTimer,
                    restarting, closing, posting>>
    BY <1>10 DEF childVars, timers, sockets, sender, outputs
  <2> QED
    BY <2>1 DEF Contract!contractVars, SocketOpen
<1> QED
  BY <1>4, <1>5, <1>6, <1>7, <1>8, <1>9, <1>10 DEF Next, ParentStep, TimerStep, SocketStep

\* The child implements what the composition of the threads assumes of it, for every
\* device, network and parent: packets leave the flight only with a report of their
\* acknowledgement or in a reset, a session ends only with a report or by a restart that
\* was waiting (atemSocketChild.ts:109-160, 245-323).
THEOREM ContractIsKept == Spec => KeepsContract
<1>1. Init => TypeOK /\ DistinctIds /\ Contract!Init
  <2>1. Init => DistinctIds
    BY DEF Init, DistinctIds
  <2>2. ASSUME Init PROVE Contract!Init
    <3>1. {p.trackingId : p \in inFlight} = {} /\ SocketOpen = TRUE
      BY <2>2 DEF Init, SocketOpen
    <3> QED
      BY <2>2, <3>1 DEF Init, Contract!Init, Contract!Fresh
  <2> QED
    BY <2>1, <2>2, TypeInit
<1>2. TypeOK /\ DistinctIds /\ [Next]_childVars => (TypeOK /\ DistinctIds)'
  BY TypeStep, DistinctStep
<1>3. TypeOK /\ DistinctIds /\ [Next]_childVars => [Contract!Next]_(Contract!contractVars)
  BY TypeStep, ContractStep
<1> QED
  BY <1>1, <1>2, <1>3, PTL DEF Spec, KeepsContract, Contract!Spec
=============================================================================
