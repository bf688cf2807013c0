------------------------------- MODULE PacketIds -------------------------------
(***************************************************************************)
(* The packet ids of the ATEM link: 15-bit numbers that wrap, and the      *)
(* comparison of ids that survives the wrap.                               *)
(***************************************************************************)
EXTENDS Integers

CONSTANT MaxPacketId     \* number of packet ids: 2^15 in the code

ASSUME PacketIdAssumption == /\ MaxPacketId \in Nat
                             /\ MaxPacketId >= 4
                             /\ MaxPacketId % 2 = 0

PacketId == 0 .. MaxPacketId - 1

\* The id that follows `id`; both sides count this way.
NextPacketId(id) == (id + 1) % MaxPacketId

\* The id `n` packets after `id`, ++ with its wrap to 0, n times.
AdvanceWrapsLate(id, n) == (id + n) % (MaxPacketId + 1)
AdvancePacketId(id, n) == (id + n) % MaxPacketId

\* Half of the id space: ids further apart than this are taken to have wrapped.
Tolerance == MaxPacketId \div 2

\* An acknowledgement of ackId covers packetId.
CoveredWithoutWrap(ackId, packetId) == packetId <= ackId
IsPacketCoveredByAck(ackId, packetId) ==
    LET pktIsShortlyBefore == packetId < ackId /\ packetId + Tolerance > ackId
        pktIsShortlyAfter  == packetId > ackId /\ packetId < ackId + Tolerance
        pktIsBeforeWrap    == packetId > ackId + Tolerance
    IN  \/ packetId = ackId
        \/ (pktIsShortlyBefore \/ pktIsBeforeWrap) /\ ~pktIsShortlyAfter
=============================================================================
