--------------------------- MODULE CommandPackets ----------------------------
(* Commands in packets.  BasicAtem.sendCommands (src/atem.ts) groups them and *)
(* a PacketBuilder (src/lib/packetBuilder.ts) packs each group; the device   *)
(* (external) packs what it says in the same way, and                        *)
(* AtemSocket._parseCommands (src/lib/atemSocket.ts) reads it with the class *)
(* that CommandParser (src/lib/atemCommandParser.ts) has for the protocol.   *)
(* Every iteration of a loop of the code is a step.                          *)
EXTENDS Integers, Sequences, FiniteSets, SequencesExt

CONSTANTS MaxPacketSize,   \* bytes for the commands of a packet
          Classes,         \* the minimumVersion of the classes of a name, 0 for none
          Versions         \* ProtocolVersion

ASSUME PacketsAssumption == /\ MaxPacketSize \in Nat
                            /\ \A name \in DOMAIN Classes : Classes[name] \subseteq {0} \cup Versions
                            /\ Classes["version"] = {0}
                            /\ Versions \subseteq Nat \ {0}

VARIABLES sender,    \* who packs: this client or the device
          batch,     \* the commands given to sendCommands, or those of the device
          groups,    \* the groups that are not packed yet, in order
          builder,   \* the PacketBuilder of the group at the head
          packets,   \* the packets of all groups
          reading,   \* where _parseCommands is
          spoken,    \* the version the device speaks
          version,   \* CommandParser.version
          parsed     \* the commands and the classes they were read with

packetVars == <<sender, batch, groups, builder, packets, reading, spoken, version, parsed>>

Header == 8
Size(commands) == FoldLeft(LAMBDA sum, cmd : sum + cmd.length + Header, 0, commands)

-----------------------------------------------------------------------------
(* Sending.                                                                  *)

\* sort() compares numbers as the texts they print as, by their first difference: "-1"
\* comes before "-2" and "10" before "2".  Groups are numbers of at most two digits.
Minus == -1
Digits(n) == IF n < 10 THEN <<n>> ELSE <<n \div 10, n % 10>>
Printed(n) == IF n < 0 THEN <<Minus>> \o Digits(-n) ELSE Digits(n)
SortedBefore(a, b) ==
  \/ IsStrictPrefix(Printed(a), Printed(b))
  \/ \E i \in DOMAIN Printed(a) \cap DOMAIN Printed(b) :
       /\ Printed(a)[i] < Printed(b)[i]
       /\ \A j \in 1 .. i - 1 : Printed(a)[j] = Printed(b)[j]

\* The commands of each group, in the order in which their promises are created.
Grouped(commands) ==
  LET keys == SetToSortSeq({commands[i].group : i \in DOMAIN commands}, SortedBefore)
  IN [k \in DOMAIN keys |-> SelectSeq(commands, LAMBDA cmd : cmd.group = keys[k])]

NoBuilder == [open |-> FALSE, length |-> 0, current |-> <<>>]
NewBuilder == [open |-> TRUE, length |-> MaxPacketSize, current |-> <<>>]

\* finishBuffer: a buffer that holds something is completed.
Completed == IF builder.current = <<>> THEN packets ELSE Append(packets, builder.current)

StartPackets ==
  /\ groups # <<>> /\ ~builder.open
  /\ builder' = NewBuilder
  /\ UNCHANGED <<sender, batch, groups, packets, reading, spoken, version, parsed>>

\* A slip: what is in the buffer is counted without the headers.
FitsWithoutHeaders(total) ==
  total + Size(builder.current) - Header * Len(builder.current) <= builder.length
Fits(total) == total + Size(builder.current) <= builder.length

\* A command larger than a packet gets a buffer of its own size.
AddCommand ==
  /\ groups # <<>> /\ builder.open /\ Head(groups) # <<>>
  /\ LET cmd == Head(Head(groups))
         total == cmd.length + Header
     IN \/ /\ total > MaxPacketSize
           /\ packets' = Completed
           /\ builder' = [open |-> TRUE, length |-> total, current |-> <<cmd>>]
        \/ /\ total <= MaxPacketSize /\ ~Fits(total)
           /\ packets' = Completed
           /\ builder' = [NewBuilder EXCEPT !.current = <<cmd>>]
        \/ /\ total <= MaxPacketSize /\ Fits(total)
           /\ builder' = [builder EXCEPT !.current = Append(@, cmd)]
           /\ UNCHANGED packets
  /\ groups' = [groups EXCEPT ![1] = Tail(@)]
  /\ UNCHANGED <<sender, batch, reading, spoken, version, parsed>>

GetPackets ==
  /\ groups # <<>> /\ builder.open /\ Head(groups) = <<>>
  /\ packets' = Completed
  /\ builder' = NoBuilder
  /\ groups' = Tail(groups)
  /\ UNCHANGED <<sender, batch, reading, spoken, version, parsed>>

-----------------------------------------------------------------------------
(* Reading.                                                                  *)

\* A slip: the first class that is not too new is taken.
FirstClass(name, protocol) ==
  LET known == {class \in Classes[name] : class <= protocol}
  IN {class \in known : \A other \in known : class <= other}
\* commandFromRawName: the class with the highest minimum version the protocol
\* reaches, the one without a minimum when there is none, or nothing.
CommandFromRawName(name, protocol) ==
  LET overrides == {class \in Classes[name] : 0 < class /\ class <= protocol}
  IN IF overrides = {} THEN Classes[name] \cap {0}
     ELSE {class \in overrides : \A other \in overrides : other <= class}

\* The commands of the packet that are still in the buffer.
Unread == LET packet == packets[reading.packet]
          IN SubSeq(packet, reading.command, Len(packet))
MoreToRead == sender = "device" /\ groups = <<>> /\ reading.packet <= Len(packets)

\* One iteration of _parseCommands.  A command nobody knows is skipped, as is one
\* that cannot be deserialized; the version takes effect with the next command.
ParseCommand ==
  /\ MoreToRead
  /\ Size(Unread) > Header
  /\ LET cmd == Head(Unread)
     IN /\ parsed' = parsed \o SetToSeq({[id |-> cmd.id, class |-> class] :
                                           class \in CommandFromRawName(cmd.name, version)})
        /\ version' = IF cmd.name = "version" THEN spoken ELSE version
  /\ reading' = [reading EXCEPT !.command = @ + 1]
  /\ UNCHANGED <<sender, batch, groups, builder, packets, spoken>>

\* What is left of a packet is no longer than a header: a last command without a
\* payload stays unread.
NextPacket ==
  /\ MoreToRead
  /\ Size(Unread) <= Header
  /\ reading' = [packet |-> reading.packet + 1, command |-> 1]
  /\ UNCHANGED <<sender, batch, groups, builder, packets, spoken, version, parsed>>

-----------------------------------------------------------------------------
Numbered(commands) ==
  [i \in DOMAIN commands |-> [id |-> i, name |-> commands[i].name, length |-> commands[i].length,
                              group |-> commands[i].group]]
\* A device introduces itself with its version.
VersionFirst == <<[name |-> "version", length |-> 4, group |-> 0]>>

\* Any of these batches; the device's has no groups.
PacketsInit(batches) ==
  /\ sender \in {"client", "device"}
  /\ \E commands \in batches :
       batch = Numbered(IF sender = "client" THEN commands
                        ELSE VersionFirst \o [i \in DOMAIN commands |->
                                                [commands[i] EXCEPT !.group = 0]])
  /\ groups = Grouped(batch)
  /\ builder = NoBuilder
  /\ packets = <<>>
  /\ reading = [packet |-> 1, command |-> 1]
  /\ spoken \in Versions
  /\ version \in Versions     \* that of the last session
  /\ parsed = <<>>

PacketsNext == StartPackets \/ AddCommand \/ GetPackets \/ ParseCommand \/ NextPacket

-----------------------------------------------------------------------------
(* Properties.                                                               *)
Sent == FlattenSeq(packets)

\* CommandBase.ts:29: "Lower values run earlier".  Texts are in the order of their
\* numbers as long as no two are negative and those that are not have as many digits.
SortLikeNumbers(a, b) ==
  /\ a >= 0 \/ b >= 0
  /\ a >= 0 /\ b >= 0 => Len(Digits(a)) = Len(Digits(b))

\* Every command is sent once, in a packet that is not too large unless the command is
\* alone in it, and that holds commands of one group only; those of a lower group first
\* wherever texts sort like numbers, those of a group one after another and in the order
\* in which they were given (atem.ts:185-201, packetBuilder.ts:33-41, CommandBase.ts:27-33).
SentInOrder ==
  /\ \A i, j \in DOMAIN Sent :
       i < j => /\ SortLikeNumbers(Sent[i].group, Sent[j].group) => Sent[i].group <= Sent[j].group
                /\ Sent[i].group = Sent[j].group =>
                     /\ Sent[i].id < Sent[j].id
                     /\ \A k \in i .. j : Sent[k].group = Sent[i].group
  /\ \A i \in DOMAIN packets :
       /\ Size(packets[i]) <= MaxPacketSize \/ Len(packets[i]) = 1
       /\ \A cmd \in Range(packets[i]) : cmd.group = Head(packets[i]).group
  /\ groups = <<>> => {Sent[i].id : i \in DOMAIN Sent} = DOMAIN batch

\* The newest class for the protocol, if there is one.
RightClass(name) == {class \in Classes[name] :
                       class <= spoken /\ \A other \in Classes[name] : other <= spoken => other <= class}
Lost(packet) == Last(packet).length = 0
\* The commands of the device are read in order with the class for its version from the
\* first one after its version on, all but a last one of a packet without payload.
ReadAsSent ==
  sender = "device" /\ groups = <<>> /\ ~MoreToRead =>
    LET kept == FlattenSeq([i \in DOMAIN packets |-> IF Lost(packets[i]) THEN Front(packets[i])
                                                     ELSE packets[i]])
        known == SelectSeq(kept, LAMBDA cmd : RightClass(cmd.name) # {})
    IN parsed = [i \in DOMAIN known |-> [id |-> known[i].id,
                                         class |-> CHOOSE class \in RightClass(known[i].name) : TRUE]]
=============================================================================
