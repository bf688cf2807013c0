------------------------- MODULE AtemConnectionProofs -------------------------
(***************************************************************************)
(* What the two threads of a connection keep, for every number of threads, *)
(* packets, losses, crashes and calls, with fast parents and slow ones,    *)
(* and, at the end, that they implement the promise of a call as           *)
(* CommandPromises states it.                                              *)
(* First how often a value occurs in a queue of messages, and after which  *)
(* others, and how the operations on the queue change that.                *)
(***************************************************************************)
EXTENDS AtemConnection, SequenceTheorems, FiniteSetTheorems, TLAPS

-----------------------------------------------------------------------------
(* Counting in queues *)

Positions(s, x) == {i \in 1 .. Len(s) : s[i] = x}

Count(s, x) == Cardinality(Positions(s, x))

\* A sequence has finitely many positions, so its counts are numbers.
LEMMA PositionsAreFinite ==
    ASSUME NEW S, NEW s \in Seq(S), NEW x
    PROVE  IsFiniteSet(Positions(s, x)) /\ Count(s, x) \in Nat
<1>1. Len(s) \in Nat
  BY LenProperties
<1>2. IsFiniteSet(1 .. Len(s))
  BY <1>1, FS_Interval
<1>3. Positions(s, x) \in SUBSET (1 .. Len(s))
  BY DEF Positions
<1>4. IsFiniteSet(Positions(s, x))
  BY <1>2, <1>3, FS_Subset
<1> QED
  BY <1>4, FS_CardinalityType DEF Count

\* An empty sequence holds nothing.
LEMMA CountOfEmpty == \A x : Count(<<>>, x) = 0
<1> SUFFICES ASSUME NEW x PROVE Count(<<>>, x) = 0
  OBVIOUS
<1>1. Positions(<<>>, x) = {}
  BY DEF Positions
<1> QED
  BY <1>1, FS_EmptySet DEF Count

\* What is counted nowhere is nowhere.
LEMMA CountIsZero ==
    ASSUME NEW S, NEW s \in Seq(S), NEW x
    PROVE  Count(s, x) = 0 <=> \A i \in 1 .. Len(s) : s[i] # x
<1>1. Count(s, x) = 0 <=> Positions(s, x) = {}
  BY PositionsAreFinite, FS_EmptySet DEF Count
<1> QED
  BY <1>1 DEF Positions

\* A message that is posted is counted, at the end of the queue.
LEMMA CountOfAppend ==
    ASSUME NEW S, NEW s \in Seq(S), NEW e \in S, NEW x
    PROVE  Count(Append(s, e), x) = IF e = x THEN Count(s, x) + 1 ELSE Count(s, x)
<1>1. Len(s) \in Nat /\ Len(Append(s, e)) = Len(s) + 1
  BY LenProperties, AppendProperties
<1>2. /\ \A i \in 1 .. Len(s) : Append(s, e)[i] = s[i]
      /\ Append(s, e)[Len(s) + 1] = e
  BY AppendProperties
<1>3. CASE e = x
  <2>1. Positions(Append(s, e), x) = Positions(s, x) \union {Len(s) + 1}
    BY <1>1, <1>2, <1>3 DEF Positions
  <2>2. Len(s) + 1 \notin Positions(s, x)
    BY <1>1 DEF Positions
  <2> QED
    BY <1>3, <2>1, <2>2, PositionsAreFinite, FS_AddElement DEF Count
<1>4. CASE e # x
  <2>1. Positions(Append(s, e), x) = Positions(s, x)
    BY <1>1, <1>2, <1>4 DEF Positions
  <2> QED
    BY <1>4, <2>1 DEF Count
<1> QED
  BY <1>3, <1>4

\* A message that is taken is counted no more.
LEMMA CountOfTail ==
    ASSUME NEW S, NEW s \in Seq(S), s # <<>>, NEW x
    PROVE  Count(s, x) = IF Head(s) = x THEN Count(Tail(s), x) + 1 ELSE Count(Tail(s), x)
<1> DEFINE f == [i \in Positions(Tail(s), x) |-> i + 1]
           rest == Positions(s, x) \ {1}
<1>1. /\ Len(s) \in Nat \ {0} /\ Tail(s) \in Seq(S) /\ Len(Tail(s)) = Len(s) - 1
      /\ \A i \in 1 .. Len(Tail(s)) : Tail(s)[i] = s[i + 1]
  BY EmptySeq, HeadTailProperties
<1>2. Head(s) = s[1]
  OBVIOUS
<1>3. f \in Bijection(Positions(Tail(s), x), rest)
  <2>1. \A i \in Positions(Tail(s), x) : i + 1 \in rest
    BY <1>1 DEF Positions
  <2>2. \A i, j \in Positions(Tail(s), x) : i + 1 = j + 1 => i = j
    BY <1>1 DEF Positions
  <2>3. \A j \in rest : j - 1 \in Positions(Tail(s), x) /\ (j - 1) + 1 = j
    BY <1>1 DEF Positions
  <2>4. f \in [Positions(Tail(s), x) -> rest]
    BY <2>1
  <2>5. \A i, j \in Positions(Tail(s), x) : f[i] = f[j] => i = j
    BY <2>2
  <2>6. \A j \in rest : \E i \in Positions(Tail(s), x) : f[i] = j
    BY <2>3
  <2> QED
    BY <2>4, <2>5, <2>6 DEF Bijection, Injection, Surjection, IsInjective
<1>4. IsFiniteSet(Positions(Tail(s), x)) /\ Count(Tail(s), x) \in Nat
  BY <1>1, PositionsAreFinite
<1>5. IsFiniteSet(rest) /\ Cardinality(rest) = Count(Tail(s), x)
  <2>1. ExistsBijection(Positions(Tail(s), x), rest)
    BY <1>3 DEF ExistsBijection
  <2> QED
    BY <1>4, <2>1, FS_Bijection DEF Count
<1>6. CASE Head(s) = x
  <2>1. Positions(s, x) = rest \union {1} /\ 1 \notin rest
    BY <1>1, <1>2, <1>6 DEF Positions
  <2>2. Cardinality(rest \union {1}) = Cardinality(rest) + 1
    BY <1>5, <2>1, FS_AddElement
  <2> QED
    BY <1>5, <1>6, <2>1, <2>2 DEF Count
<1>7. CASE Head(s) # x
  <2>1. Positions(s, x) = rest
    BY <1>2, <1>7 DEF Positions
  <2> QED
    BY <1>5, <1>7, <2>1 DEF Count
<1> QED
  BY <1>6, <1>7

-----------------------------------------------------------------------------
Elements(s) == {s[i] : i \in 1 .. Len(s)}

\* Value m is in the sequence, and no d from there on.
ComesAfter(s, m, d) ==
    \E i \in 1 .. Len(s) : s[i] = m /\ \A j \in i .. Len(s) : s[j] # d

\* What is counted is an element.
LEMMA CountOfElement ==
    ASSUME NEW S, NEW s \in Seq(S), NEW x
    PROVE  /\ Count(s, x) > 0 <=> x \in Elements(s)
           /\ Count(s, x) = 0 <=> x \notin Elements(s)
<1>1. Count(s, x) = 0 <=> x \notin Elements(s)
  BY CountIsZero DEF Elements
<1>2. Count(s, x) \in Nat
  BY PositionsAreFinite
<1> QED
  BY <1>1, <1>2

\* An empty sequence has no elements.
LEMMA ElementsOfEmpty == Elements(<<>>) = {}
  BY DEF Elements

\* A message that is posted is one more element.
LEMMA ElementsOfAppend ==
    ASSUME NEW S, NEW s \in Seq(S), NEW e \in S
    PROVE  Elements(Append(s, e)) = Elements(s) \union {e}
<1>1. /\ Len(s) \in Nat /\ Len(Append(s, e)) = Len(s) + 1
      /\ \A i \in 1 .. Len(s) : Append(s, e)[i] = s[i]
      /\ Append(s, e)[Len(s) + 1] = e
  BY LenProperties, AppendProperties
<1>2. ASSUME NEW x \in Elements(Append(s, e))
      PROVE  x \in Elements(s) \union {e}
  <2>1. PICK i \in 1 .. Len(s) + 1 : x = Append(s, e)[i]
    BY <1>1 DEF Elements
  <2>2. CASE i = Len(s) + 1
    BY <1>1, <2>1, <2>2
  <2>3. CASE i # Len(s) + 1
    <3>1. i \in 1 .. Len(s)
      BY <1>1, <2>1, <2>3
    <3> QED
      BY <1>1, <2>1, <3>1 DEF Elements
  <2> QED
    BY <2>2, <2>3
<1>3. ASSUME NEW x \in Elements(s) \union {e}
      PROVE  x \in Elements(Append(s, e))
  <2>1. CASE x = e
    <3>1. Len(s) + 1 \in 1 .. Len(Append(s, e))
      BY <1>1
    <3> QED
      BY <1>1, <2>1, <3>1 DEF Elements
  <2>2. CASE x \in Elements(s)
    <3>1. PICK i \in 1 .. Len(s) : x = s[i]
      BY <2>2 DEF Elements
    <3>2. i \in 1 .. Len(Append(s, e)) /\ Append(s, e)[i] = x
      BY <1>1, <3>1
    <3> QED
      BY <3>2 DEF Elements
  <2> QED
    BY <1>3, <2>1, <2>2
<1> QED
  BY <1>2, <1>3

\* A message that is taken was an element; the others still are.
LEMMA ElementsOfTail ==
    ASSUME NEW S, NEW s \in Seq(S), s # <<>>
    PROVE  Elements(s) = Elements(Tail(s)) \union {Head(s)}
<1>1. /\ Len(s) \in Nat \ {0} /\ Tail(s) \in Seq(S) /\ Len(Tail(s)) = Len(s) - 1
      /\ \A i \in 1 .. Len(Tail(s)) : Tail(s)[i] = s[i + 1]
  BY EmptySeq, HeadTailProperties
<1>2. Head(s) = s[1]
  OBVIOUS
<1>3. ASSUME NEW x \in Elements(s)
      PROVE  x \in Elements(Tail(s)) \union {Head(s)}
  <2>1. PICK i \in 1 .. Len(s) : x = s[i]
    BY DEF Elements
  <2>2. CASE i = 1
    BY <1>2, <2>1, <2>2
  <2>3. CASE i # 1
    <3>1. i - 1 \in 1 .. Len(Tail(s)) /\ (i - 1) + 1 = i
      BY <1>1, <2>1, <2>3
    <3>2. Tail(s)[i - 1] = x
      BY <1>1, <2>1, <3>1
    <3> QED
      BY <3>1, <3>2 DEF Elements
  <2> QED
    BY <2>2, <2>3
<1>4. ASSUME NEW x \in Elements(Tail(s)) \union {Head(s)}
      PROVE  x \in Elements(s)
  <2>1. CASE x = Head(s)
    <3>1. 1 \in 1 .. Len(s)
      BY <1>1
    <3> QED
      BY <1>2, <2>1, <3>1 DEF Elements
  <2>2. CASE x \in Elements(Tail(s))
    <3>1. PICK i \in 1 .. Len(Tail(s)) : x = Tail(s)[i]
      BY <2>2 DEF Elements
    <3>2. i + 1 \in 1 .. Len(s) /\ s[i + 1] = x
      BY <1>1, <3>1
    <3> QED
      BY <3>2 DEF Elements
  <2> QED
    BY <1>4, <2>1, <2>2
<1> QED
  BY <1>3, <1>4

\* What comes after all d is an element, and still comes after them when something else
\* is posted.
LEMMA AfterAppend ==
    ASSUME NEW S, NEW s \in Seq(S), NEW e \in S, NEW m, NEW d, e # d
    PROVE  /\ ComesAfter(s, m, d) => m \in Elements(s) /\ ComesAfter(Append(s, e), m, d)
           /\ ComesAfter(Append(s, e), e, d)
<1>1. /\ Len(s) \in Nat /\ Len(Append(s, e)) = Len(s) + 1
      /\ \A i \in 1 .. Len(s) : Append(s, e)[i] = s[i]
      /\ Append(s, e)[Len(s) + 1] = e
  BY LenProperties, AppendProperties
<1>2. ASSUME ComesAfter(s, m, d)
      PROVE  m \in Elements(s) /\ ComesAfter(Append(s, e), m, d)
  <2>1. PICK i \in 1 .. Len(s) : s[i] = m /\ \A j \in i .. Len(s) : s[j] # d
    BY <1>2 DEF ComesAfter
  <2>2. i \in 1 .. Len(Append(s, e)) /\ Append(s, e)[i] = m
    BY <1>1, <2>1
  <2>3. ASSUME NEW j \in i .. Len(Append(s, e))
        PROVE  Append(s, e)[j] # d
    <3>1. CASE j = Len(s) + 1
      BY <1>1, <3>1
    <3>2. CASE j # Len(s) + 1
      <4>1. j \in i .. Len(s) /\ j \in 1 .. Len(s)
        BY <1>1, <2>1, <3>2
      <4> QED
        BY <1>1, <2>1, <4>1
    <3> QED
      BY <3>1, <3>2
  <2> QED
    BY <2>1, <2>2, <2>3 DEF ComesAfter, Elements
<1>3. ComesAfter(Append(s, e), e, d)
  <2> DEFINE i == Len(s) + 1
  <2>1. i \in 1 .. Len(Append(s, e)) /\ Append(s, e)[i] = e
    BY <1>1
  <2>2. \A j \in i .. Len(Append(s, e)) : j = i
    BY <1>1
  <2> HIDE DEF i
  <2> QED
    BY <2>1, <2>2 DEF ComesAfter
<1> QED
  BY <1>2, <1>3

\* What comes after all d still does when something else is taken; when it is taken
\* itself, it is there once more or no d is.
LEMMA AfterTail ==
    ASSUME NEW S, NEW s \in Seq(S), s # <<>>, NEW m, NEW d, ComesAfter(s, m, d)
    PROVE  /\ Head(s) # m => ComesAfter(Tail(s), m, d)
           /\ ComesAfter(Tail(s), m, d) \/ d \notin Elements(Tail(s))
           /\ ComesAfter(Tail(s), m, d) => m \in Elements(Tail(s))
<1>1. /\ Len(s) \in Nat \ {0} /\ Tail(s) \in Seq(S) /\ Len(Tail(s)) = Len(s) - 1
      /\ \A i \in 1 .. Len(Tail(s)) : Tail(s)[i] = s[i + 1]
  BY EmptySeq, HeadTailProperties
<1>2. Head(s) = s[1]
  OBVIOUS
<1>3. PICK i \in 1 .. Len(s) : s[i] = m /\ \A j \in i .. Len(s) : s[j] # d
  BY DEF ComesAfter
<1>4. CASE i = 1
  <2>1. Head(s) = m
    BY <1>2, <1>3, <1>4
  <2>2. \A j \in 1 .. Len(Tail(s)) : j + 1 \in i .. Len(s)
    BY <1>1, <1>4
  <2>3. d \notin Elements(Tail(s))
    BY <1>1, <1>3, <2>2 DEF Elements
  <2> QED
    BY <2>1, <2>3 DEF ComesAfter, Elements
<1>5. CASE i # 1
  <2>1. i - 1 \in 1 .. Len(Tail(s)) /\ (i - 1) + 1 = i
    BY <1>1, <1>3, <1>5
  <2>2. Tail(s)[i - 1] = m
    BY <1>1, <1>3, <2>1
  <2>3. \A j \in i - 1 .. Len(Tail(s)) : j + 1 \in i .. Len(s) /\ j \in 1 .. Len(Tail(s))
    BY <1>1, <1>3, <2>1
  <2>4. \A j \in i - 1 .. Len(Tail(s)) : Tail(s)[j] # d
    BY <1>1, <1>3, <2>3
  <2> QED
    BY <2>1, <2>2, <2>4 DEF ComesAfter, Elements
<1> QED
  BY <1>4, <1>5

\* After something is posted nothing else comes after all d that did not before, and
\* nothing at all when it is d.
LEMMA AfterAppended ==
    ASSUME NEW S, NEW s \in Seq(S), NEW e \in S, NEW m, NEW d,
           ComesAfter(Append(s, e), m, d)
    PROVE  e # d /\ (m = e \/ ComesAfter(s, m, d))
<1>1. /\ Len(s) \in Nat /\ Len(Append(s, e)) = Len(s) + 1
      /\ \A i \in 1 .. Len(s) : Append(s, e)[i] = s[i]
      /\ Append(s, e)[Len(s) + 1] = e
  BY LenProperties, AppendProperties
<1>2. PICK i \in 1 .. Len(s) + 1 : /\ Append(s, e)[i] = m
                                   /\ \A j \in i .. Len(s) + 1 : Append(s, e)[j] # d
  BY <1>1 DEF ComesAfter
<1>3. e # d
  <2>1. Len(s) + 1 \in i .. Len(s) + 1
    BY <1>1, <1>2
  <2> QED
    BY <1>1, <1>2, <2>1
<1>4. CASE i = Len(s) + 1
  BY <1>1, <1>2, <1>3, <1>4
<1>5. CASE i # Len(s) + 1
  <2>1. i \in 1 .. Len(s)
    BY <1>1, <1>2, <1>5
  <2>2. \A j \in i .. Len(s) : j \in 1 .. Len(s) /\ j \in i .. Len(s) + 1
    BY <1>1, <2>1
  <2>3. s[i] = m /\ \A j \in i .. Len(s) : s[j] # d
    BY <1>1, <1>2, <2>1, <2>2
  <2> QED
    BY <1>3, <2>1, <2>3 DEF ComesAfter
<1> QED
  BY <1>4, <1>5

\* What comes after all d once something is taken did so before.
LEMMA AfterTaken ==
    ASSUME NEW S, NEW s \in Seq(S), s # <<>>, NEW m, NEW d, ComesAfter(Tail(s), m, d)
    PROVE  ComesAfter(s, m, d)
<1>1. /\ Len(s) \in Nat \ {0} /\ Len(Tail(s)) = Len(s) - 1
      /\ \A i \in 1 .. Len(Tail(s)) : Tail(s)[i] = s[i + 1]
  BY EmptySeq, HeadTailProperties
<1>2. PICK i \in 1 .. Len(Tail(s)) : /\ Tail(s)[i] = m
                                     /\ \A j \in i .. Len(Tail(s)) : Tail(s)[j] # d
  BY DEF ComesAfter
<1>3. i + 1 \in 1 .. Len(s) /\ s[i + 1] = m
  BY <1>1, <1>2
<1>4. ASSUME NEW j \in i + 1 .. Len(s) PROVE s[j] # d
  <2>1. j - 1 \in i .. Len(Tail(s)) /\ j - 1 \in 1 .. Len(Tail(s)) /\ (j - 1) + 1 = j
    BY <1>1, <1>2
  <2> QED
    BY <1>1, <1>2, <2>1
<1> QED
  BY <1>3, <1>4 DEF ComesAfter

\* What comes first comes after all d when no d is behind it.
LEMMA FirstComesAfter ==
    ASSUME NEW S, NEW s \in Seq(S), s # <<>>, NEW d, Head(s) # d, d \notin Elements(Tail(s))
    PROVE  ComesAfter(s, Head(s), d)
<1>1. Len(s) \in Nat \ {0} /\ 1 \in 1 .. Len(s) /\ Head(s) = s[1]
  BY EmptySeq, HeadTailProperties
<1>2. d \notin Elements(s)
  BY ElementsOfTail
<1> QED
  BY <1>1, <1>2 DEF ComesAfter, Elements

-----------------------------------------------------------------------------
(* Types *)

Calls == {Message("connect"), Message("disconnect"), Message("answer")}
         \union {WithIds("send", {p}) : p \in Packets}

Batch == {{"version"}, {"init"}, {"version", "init"}}

Reports == {DisconnectReport, Message("disconnected")}
           \union {WithIds("sent", {p}) : p \in Packets}
           \union {WithIds("notSent", {p}) : p \in Packets}
           \union {WithIds("acknowledged", ids) : ids \in SUBSET Packets}
           \union [type : {"commands"}, batch : Batch, session : Nat]

Waits == {"restart", "disconnect"}

ConnectionState == {"Closed", "SynSent", "Established", "Disconnected"}

Condition == [state : ConnectionState, inFlight : SUBSET Packets, open : BOOLEAN,
              armed : BOOLEAN, restarting : Int, closing : Int]

Life == {"none", "creating", "running", "closed", "dead", "ended"}

Thread == [life : Life,
           child : Condition, dump : 0 .. 2, session : Nat,
           waits : Seq(Waits), inbox : Seq(Calls), outbox : Seq(Reports)]

\* An answer is owed for each restart and each disconnect that waits, and is posted or
\* has still to be asked for.
Orderly(t) ==
    /\ Count(t.inbox, Message("answer")) + Count(t.outbox, DisconnectReport) = Len(t.waits)
    /\ t.child.restarting = Count(t.waits, "restart")

ThreadInv(t) == t \in Thread /\ Orderly(t)

\* How many disconnects of the parent thread t has not finished.
Unfinished(t) ==
    Count(t.inbox, Message("disconnect")) + t.child.closing
    + Count(t.waits, "disconnect") + Count(t.outbox, Message("disconnected"))

\* How many messages are about to settle whether packet p was taken.
Handovers(t, p) ==
    Count(t.inbox, WithIds("send", {p})) + Count(t.outbox, WithIds("sent", {p}))
    + Count(t.outbox, WithIds("notSent", {p}))

-----------------------------------------------------------------------------
(* Steps of a thread *)

\* The messages are told apart by their types and ids.
LEMMA MessagesDiffer ==
    /\ Message("answer") # Message("disconnect") /\ Message("answer") # Message("connect")
    /\ Message("connect") # Message("disconnect")
    /\ DisconnectReport # Message("disconnected")
    /\ \A type, ids : \A other : WithIds(type, ids) # Message(other)
    /\ \A type, ids : WithIds(type, ids) # DisconnectReport
    /\ \A type, ids, other, others :
          WithIds(type, ids) = WithIds(other, others) => type = other /\ ids = others
    /\ \A m \in [type : {"commands"}, batch : Batch, session : Nat] :
          /\ m # DisconnectReport
          /\ \A type : type # "commands" => m # Message(type)
          /\ \A type, ids : type # "commands" => m # WithIds(type, ids)
<1>1. /\ Message("answer").type = "answer" /\ Message("disconnect").type = "disconnect"
      /\ Message("connect").type = "connect" /\ Message("disconnected").type = "disconnected"
      /\ DisconnectReport.type = "disconnect"
      /\ \A type : Message(type).type = type
      /\ \A type, ids : WithIds(type, ids).type = type /\ WithIds(type, ids).ids = ids
  BY DEF Message, WithIds, DisconnectReport
<1>2. \A type, ids, other : WithIds(type, ids) # Message(other)
  <2>1. \A type : "ids" \notin DOMAIN Message(type)
    BY DEF Message
  <2>2. \A type, ids : "ids" \in DOMAIN WithIds(type, ids)
    BY DEF WithIds
  <2> QED
    BY <2>1, <2>2
<1>3. DisconnectReport = Message("disconnect")
  BY DEF DisconnectReport, Message
<1>4. \A m \in [type : {"commands"}, batch : Batch, session : Nat] : m.type = "commands"
  OBVIOUS
<1>5. \A type, ids, other, others :
         WithIds(type, ids) = WithIds(other, others) => type = other /\ ids = others
  <2>1. ASSUME NEW type, NEW ids, NEW other, NEW others,
               WithIds(type, ids) = WithIds(other, others)
        PROVE  type = other /\ ids = others
    <3>1. WithIds(type, ids).type = type /\ WithIds(other, others).type = other
      BY <1>1
    <3>2. WithIds(type, ids).ids = ids /\ WithIds(other, others).ids = others
      BY <1>1
    <3> QED
      BY <2>1, <3>1, <3>2
  <2> QED
    BY <2>1
<1>6. \A m \in [type : {"commands"}, batch : Batch, session : Nat] :
          /\ m # DisconnectReport
          /\ \A type : type # "commands" => m # Message(type)
          /\ \A type, ids : type # "commands" => m # WithIds(type, ids)
  BY <1>1, <1>4
<1> QED
  BY <1>1, <1>2, <1>3, <1>5, <1>6

\* What Child does to a thread, without a call to the parent and with one.
LEMMA ChildFields ==
    ASSUME NEW t \in Thread, NEW c \in Condition, NEW wait \in Waits
    PROVE  /\ LET u == Child(t, c, <<>>, wait)
              IN  /\ u \in Thread /\ u.child = c /\ u.outbox = t.outbox /\ u.waits = t.waits
                  /\ u.life = t.life /\ u.dump = t.dump /\ u.session = t.session
                  /\ u.inbox = t.inbox
           /\ LET u == Child(t, c, <<DisconnectReport>>, wait)
              IN  /\ u \in Thread /\ u.child = c
                  /\ u.outbox = Append(t.outbox, DisconnectReport)
                  /\ u.waits = Append(t.waits, wait)
                  /\ u.life = t.life /\ u.dump = t.dump /\ u.session = t.session
                  /\ u.inbox = t.inbox
<1> DEFINE u == Child(t, c, <<>>, wait)
           v == Child(t, c, <<DisconnectReport>>, wait)
<1>1. t.outbox \in Seq(Reports) /\ t.waits \in Seq(Waits) /\ DisconnectReport \in Reports
  BY DEF Thread, Reports
<1>2. t.outbox \o <<>> = t.outbox
  BY <1>1, ConcatEmptySeq
<1>3. /\ t.outbox \o <<DisconnectReport>> = Append(t.outbox, DisconnectReport)
      /\ Append(t.outbox, DisconnectReport) \in Seq(Reports)
      /\ Append(t.waits, wait) \in Seq(Waits)
  BY <1>1, AppendIsConcat, AppendProperties
<1>4. u = [t EXCEPT !.child = c, !.outbox = t.outbox, !.waits = t.waits]
  BY <1>2 DEF Child, Thread
<1>5. v = [t EXCEPT !.child = c, !.outbox = Append(t.outbox, DisconnectReport),
                    !.waits = Append(t.waits, wait)]
  <2>1. <<DisconnectReport>> # <<>>
    OBVIOUS
  <2> QED
    BY <1>3, <2>1 DEF Child, Thread
<1> HIDE DEF u, v
<1>6. /\ u \in Thread /\ u.child = c /\ u.outbox = t.outbox /\ u.waits = t.waits
      /\ u.life = t.life /\ u.dump = t.dump /\ u.session = t.session
      /\ u.inbox = t.inbox
  BY <1>4 DEF Thread
<1>7. /\ v \in Thread /\ v.child = c
      /\ v.outbox = Append(t.outbox, DisconnectReport)
      /\ v.waits = Append(t.waits, wait)
      /\ v.life = t.life /\ v.dump = t.dump /\ v.session = t.session
      /\ v.inbox = t.inbox
  BY <1>3, <1>5 DEF Thread
<1> QED
  BY <1>6, <1>7 DEF u, v

\* A call is posted.
LEMMA PostingStep ==
    ASSUME NEW t, ThreadInv(t), NEW m \in Calls, m # Message("answer")
    PROVE  LET u == Posting(t, m)
           IN  /\ ThreadInv(u) /\ u.life = t.life /\ u.child = t.child
               /\ u.outbox = t.outbox
               /\ Unfinished(u) = IF m = Message("disconnect") THEN Unfinished(t) + 1
                                  ELSE Unfinished(t)
               /\ \A p \in Packets :
                     Handovers(u, p) = IF m = WithIds("send", {p}) THEN Handovers(t, p) + 1
                                       ELSE Handovers(t, p)
<1> DEFINE u == Posting(t, m)
<1>1. t \in Thread /\ t.inbox \in Seq(Calls) /\ t.outbox \in Seq(Reports)
      /\ t.waits \in Seq(Waits) /\ t.child.closing \in Int
  BY DEF ThreadInv, Thread, Condition
<1>2. u = [t EXCEPT !.inbox = Append(t.inbox, m)] /\ Append(t.inbox, m) \in Seq(Calls)
  BY <1>1, AppendProperties DEF Posting
<1>3. u \in Thread /\ u.inbox = Append(t.inbox, m) /\ u.outbox = t.outbox
      /\ u.waits = t.waits /\ u.child = t.child /\ u.life = t.life
  BY <1>1, <1>2 DEF Thread
<1> HIDE DEF u
<1>4. \A x : Count(u.inbox, x) = IF m = x THEN Count(t.inbox, x) + 1 ELSE Count(t.inbox, x)
  BY <1>1, <1>3, CountOfAppend
<1>5. \A x : /\ Count(t.inbox, x) \in Nat /\ Count(t.outbox, x) \in Nat
             /\ Count(t.waits, x) \in Nat
  BY <1>1, PositionsAreFinite
<1>6. ThreadInv(u)
  BY <1>3, <1>4 DEF ThreadInv, Orderly
<1>7. Unfinished(u) = IF m = Message("disconnect") THEN Unfinished(t) + 1 ELSE Unfinished(t)
  BY <1>1, <1>3, <1>4, <1>5 DEF Unfinished
<1>8. \A p \in Packets :
         Handovers(u, p) = IF m = WithIds("send", {p}) THEN Handovers(t, p) + 1
                           ELSE Handovers(t, p)
  BY <1>3, <1>4, <1>5 DEF Handovers
<1> QED
  BY <1>3, <1>6, <1>7, <1>8 DEF u

\* What is counted in a thread are numbers.
LEMMA CountsOfThread ==
    ASSUME NEW t \in Thread
    PROVE  /\ t.child.closing \in Int /\ t.child.restarting \in Int
           /\ \A x : /\ Count(t.inbox, x) \in Nat /\ Count(t.outbox, x) \in Nat
                    /\ Count(t.waits, x) \in Nat
           /\ Unfinished(t) \in Int
           /\ \A p \in Packets : Handovers(t, p) \in Nat
<1>1. /\ t.inbox \in Seq(Calls) /\ t.outbox \in Seq(Reports) /\ t.waits \in Seq(Waits)
      /\ t.child.closing \in Int /\ t.child.restarting \in Int
  BY DEF Thread, Condition
<1>2. \A x : /\ Count(t.inbox, x) \in Nat /\ Count(t.outbox, x) \in Nat
             /\ Count(t.waits, x) \in Nat
  BY <1>1, PositionsAreFinite
<1>3. Unfinished(t) \in Int
  <2>1. /\ Count(t.inbox, Message("disconnect")) \in Int /\ Count(t.waits, "disconnect") \in Int
        /\ Count(t.outbox, Message("disconnected")) \in Int /\ t.child.closing \in Int
    BY <1>1, <1>2
  <2> QED
    BY <2>1 DEF Unfinished
<1>4. \A p \in Packets : Handovers(t, p) \in Nat
  BY <1>2 DEF Handovers
<1> QED
  BY <1>1, <1>2, <1>3, <1>4

\* The child goes on without a call to the parent.
LEMMA QuietStep ==
    ASSUME NEW t, ThreadInv(t), NEW u \in Thread,
           u.inbox = t.inbox, u.outbox = t.outbox, u.waits = t.waits,
           u.child.restarting = t.child.restarting, u.child.closing = t.child.closing
    PROVE  /\ ThreadInv(u) /\ Unfinished(u) = Unfinished(t)
           /\ \A p \in Packets : Handovers(u, p) = Handovers(t, p)
  BY DEF ThreadInv, Orderly, Unfinished, Handovers

\* The child calls the parent, and awaits nothing.
LEMMA ReportStep ==
    ASSUME NEW t, ThreadInv(t), NEW m \in Reports, m # DisconnectReport, NEW u \in Thread,
           u.inbox = t.inbox, u.outbox = Append(t.outbox, m), u.waits = t.waits,
           u.child.restarting = t.child.restarting, u.child.closing = t.child.closing
    PROVE  /\ ThreadInv(u)
           /\ Unfinished(u) = IF m = Message("disconnected") THEN Unfinished(t) + 1
                              ELSE Unfinished(t)
           /\ \A p \in Packets :
                 Handovers(u, p) = IF m \in {WithIds("sent", {p}), WithIds("notSent", {p})}
                                   THEN Handovers(t, p) + 1 ELSE Handovers(t, p)
<1>1. t.inbox \in Seq(Calls) /\ t.outbox \in Seq(Reports) /\ t.waits \in Seq(Waits)
      /\ t.child.closing \in Int
  BY DEF ThreadInv, Thread, Condition
<1>2. \A x : Count(u.outbox, x) = IF m = x THEN Count(t.outbox, x) + 1 ELSE Count(t.outbox, x)
  BY <1>1, CountOfAppend
<1>3. \A x : /\ Count(t.inbox, x) \in Nat /\ Count(t.outbox, x) \in Nat
             /\ Count(t.waits, x) \in Nat
  BY <1>1, PositionsAreFinite
<1>4. ThreadInv(u)
  BY <1>2 DEF ThreadInv, Orderly
<1>5. Unfinished(u) = IF m = Message("disconnected") THEN Unfinished(t) + 1 ELSE Unfinished(t)
  <2>1. /\ Count(t.inbox, Message("disconnect")) \in Int /\ Count(t.waits, "disconnect") \in Int
        /\ Count(t.outbox, Message("disconnected")) \in Int /\ t.child.closing \in Int
    BY <1>1, <1>3
  <2> QED
    BY <1>2, <2>1 DEF Unfinished
<1>6. ASSUME NEW p \in Packets
      PROVE  Handovers(u, p) = IF m \in {WithIds("sent", {p}), WithIds("notSent", {p})}
                               THEN Handovers(t, p) + 1 ELSE Handovers(t, p)
  <2>1. WithIds("sent", {p}) # WithIds("notSent", {p})
    BY MessagesDiffer
  <2> QED
    BY <1>2, <1>3, <2>1 DEF Handovers
<1> QED
  BY <1>4, <1>5, <1>6

\* Two sums that differ in one term, or in two.
LEMMA SumsDiffer ==
    ASSUME NEW a \in Int, NEW b \in Int, NEW d \in Int, NEW k \in Int, NEW l \in Int
    PROVE  /\ (a + l + b + d) + k = (a + k + b + d) + l
           /\ (a + l + (b + 1) + d) + k = (a + k + b + d) + l + 1
  OBVIOUS

\* Thread t becomes u: it reports the end of a session.
ReportsEnd(t, u, wait) ==
    /\ u.inbox = t.inbox /\ u.outbox = Append(t.outbox, DisconnectReport)
    /\ u.waits = Append(t.waits, wait)
    /\ u.child.restarting = IF wait = "restart" THEN t.child.restarting + 1
                            ELSE t.child.restarting

\* The child reports the end of a session, and awaits the answer.
LEMMA EndReportStep ==
    ASSUME NEW t, ThreadInv(t), NEW wait \in Waits, NEW u \in Thread,
           ReportsEnd(t, u, wait)
    PROVE  /\ ThreadInv(u)
           /\ wait = "disconnect" =>
                 Unfinished(u) + t.child.closing = Unfinished(t) + u.child.closing + 1
           /\ wait = "restart" =>
                 Unfinished(u) + t.child.closing = Unfinished(t) + u.child.closing
           /\ \A p \in Packets : Handovers(u, p) = Handovers(t, p)
<1>1. /\ t.inbox \in Seq(Calls) /\ t.outbox \in Seq(Reports) /\ t.waits \in Seq(Waits)
      /\ t.child.closing \in Int /\ t.child.restarting \in Int /\ u.child.closing \in Int
      /\ DisconnectReport \in Reports
  BY DEF ThreadInv, Thread, Condition, Reports
<1>2. \A x : Count(u.outbox, x) = IF DisconnectReport = x THEN Count(t.outbox, x) + 1
                                  ELSE Count(t.outbox, x)
  BY <1>1, CountOfAppend DEF ReportsEnd
<1>3. /\ \A x : Count(u.waits, x) = IF wait = x THEN Count(t.waits, x) + 1
                                    ELSE Count(t.waits, x)
      /\ Len(u.waits) = Len(t.waits) + 1
  BY <1>1, CountOfAppend, AppendProperties DEF ReportsEnd
<1>4. \A x : /\ Count(t.inbox, x) \in Nat /\ Count(t.outbox, x) \in Nat
             /\ Count(t.waits, x) \in Nat
  BY <1>1, PositionsAreFinite
<1>5. ThreadInv(u)
  <2>1. Count(u.inbox, Message("answer")) + Count(u.outbox, DisconnectReport) = Len(u.waits)
    <3>1. Count(u.outbox, DisconnectReport) = Count(t.outbox, DisconnectReport) + 1
      BY <1>2
    <3>2. Count(t.inbox, Message("answer")) + Count(t.outbox, DisconnectReport) = Len(t.waits)
      BY DEF ThreadInv, Orderly
    <3>3. u.inbox = t.inbox /\ Len(t.waits) \in Nat
      BY <1>1, LenProperties DEF ReportsEnd
    <3>4. /\ Count(t.inbox, Message("answer")) \in Nat
          /\ Count(t.outbox, DisconnectReport) \in Nat
          /\ Len(u.waits) = Len(t.waits) + 1
      BY <1>3, <1>4
    <3> QED
      BY <3>1, <3>2, <3>3, <3>4
  <2>2. u.child.restarting = Count(u.waits, "restart")
    <3>1. t.child.restarting = Count(t.waits, "restart")
      BY DEF ThreadInv, Orderly
    <3> QED
      BY <1>3, <3>1 DEF ReportsEnd
  <2> QED
    BY <2>1, <2>2 DEF ThreadInv, Orderly
<1>6. /\ wait = "disconnect" =>
            Unfinished(u) + t.child.closing = Unfinished(t) + u.child.closing + 1
      /\ wait = "restart" =>
            Unfinished(u) + t.child.closing = Unfinished(t) + u.child.closing
  <2>1. Count(u.outbox, Message("disconnected")) = Count(t.outbox, Message("disconnected"))
    BY <1>2, MessagesDiffer
  <2>2. /\ Unfinished(u) = Count(t.inbox, Message("disconnect")) + u.child.closing
                           + Count(u.waits, "disconnect")
                           + Count(t.outbox, Message("disconnected"))
        /\ Unfinished(t) = Count(t.inbox, Message("disconnect")) + t.child.closing
                           + Count(t.waits, "disconnect")
                           + Count(t.outbox, Message("disconnected"))
    BY <2>1 DEF Unfinished, ReportsEnd
  <2>3. CASE wait = "disconnect"
    <3>1. Count(u.waits, "disconnect") = Count(t.waits, "disconnect") + 1
      BY <1>3, <2>3
    <3>2. /\ Count(t.inbox, Message("disconnect")) \in Int
          /\ Count(t.outbox, Message("disconnected")) \in Int
          /\ Count(t.waits, "disconnect") \in Int
          /\ t.child.closing \in Int /\ u.child.closing \in Int
      BY <1>1, <1>4
    <3>3. Unfinished(u) + t.child.closing = Unfinished(t) + u.child.closing + 1
      BY <2>2, <3>1, <3>2, SumsDiffer
    <3> QED
      BY <2>3, <3>3
  <2>4. CASE wait = "restart"
    <3>1. Count(u.waits, "disconnect") = Count(t.waits, "disconnect")
      BY <1>3, <2>4
    <3>2. /\ Count(t.inbox, Message("disconnect")) \in Int
          /\ Count(t.outbox, Message("disconnected")) \in Int
          /\ Count(t.waits, "disconnect") \in Int
          /\ t.child.closing \in Int /\ u.child.closing \in Int
      BY <1>1, <1>4
    <3> QED
      BY <2>2, <2>4, <3>1, <3>2, SumsDiffer
  <2> QED
    BY <2>3, <2>4 DEF Waits
<1>7. \A p \in Packets : Handovers(u, p) = Handovers(t, p)
  BY <1>2, MessagesDiffer DEF Handovers, ReportsEnd
<1> QED
  BY <1>5, <1>6, <1>7

\* The parent takes a message that it does not answer.
LEMMA TakenStep ==
    ASSUME NEW t, ThreadInv(t), t.outbox # <<>>, Head(t.outbox) # DisconnectReport,
           NEW u \in Thread, u.inbox = t.inbox, u.outbox = Tail(t.outbox), u.waits = t.waits,
           u.child = t.child
    PROVE  /\ ThreadInv(u)
           /\ Unfinished(u) = IF Head(t.outbox) = Message("disconnected")
                              THEN Unfinished(t) - 1 ELSE Unfinished(t)
           /\ \A p \in Packets :
                 Handovers(u, p) =
                    IF Head(t.outbox) \in {WithIds("sent", {p}), WithIds("notSent", {p})}
                    THEN Handovers(t, p) - 1 ELSE Handovers(t, p)
<1> DEFINE m == Head(t.outbox)
<1>1. t.inbox \in Seq(Calls) /\ t.outbox \in Seq(Reports) /\ t.waits \in Seq(Waits)
      /\ u.outbox \in Seq(Reports) /\ t.child.closing \in Int
  BY DEF ThreadInv, Thread, Condition
<1>2. \A x : Count(t.outbox, x) = IF m = x THEN Count(u.outbox, x) + 1 ELSE Count(u.outbox, x)
  BY <1>1, CountOfTail
<1>3. \A x : /\ Count(t.inbox, x) \in Nat /\ Count(u.outbox, x) \in Nat
             /\ Count(t.waits, x) \in Nat
  BY <1>1, PositionsAreFinite
<1> HIDE DEF m
<1>4. ThreadInv(u)
  BY <1>2 DEF ThreadInv, Orderly, m
<1>5. Unfinished(u) = IF m = Message("disconnected") THEN Unfinished(t) - 1 ELSE Unfinished(t)
  <2> DEFINE x == Message("disconnected")
  <2>1. Count(t.outbox, x) = IF m = x THEN Count(u.outbox, x) + 1 ELSE Count(u.outbox, x)
    BY <1>2
  <2>2. /\ Count(t.inbox, Message("disconnect")) \in Nat
        /\ Count(t.waits, "disconnect") \in Nat /\ Count(u.outbox, x) \in Nat
    BY <1>3
  <2> HIDE DEF x
  <2>3. Unfinished(u) = IF m = x THEN Unfinished(t) - 1 ELSE Unfinished(t)
    BY <1>1, <2>1, <2>2 DEF Unfinished, x
  <2> QED
    BY <2>3 DEF x
<1>6. ASSUME NEW p \in Packets
      PROVE  Handovers(u, p) = IF m \in {WithIds("sent", {p}), WithIds("notSent", {p})}
                               THEN Handovers(t, p) - 1 ELSE Handovers(t, p)
  <2>1. WithIds("sent", {p}) # WithIds("notSent", {p})
    BY MessagesDiffer
  <2> QED
    BY <1>2, <1>3, <2>1 DEF Handovers
<1> QED
  BY <1>4, <1>5, <1>6 DEF m

\* The parent takes the report of an end and posts its answer.
LEMMA EndTakenStep ==
    ASSUME NEW t, ThreadInv(t), t.outbox # <<>>, Head(t.outbox) = DisconnectReport,
           NEW u \in Thread, u.inbox = Append(t.inbox, Message("answer")),
           u.outbox = Tail(t.outbox), u.waits = t.waits, u.child = t.child
    PROVE  /\ ThreadInv(u) /\ Unfinished(u) = Unfinished(t)
           /\ \A p \in Packets : Handovers(u, p) = Handovers(t, p)
<1>1. t.inbox \in Seq(Calls) /\ t.outbox \in Seq(Reports) /\ Message("answer") \in Calls
      /\ u.outbox \in Seq(Reports)
  BY DEF ThreadInv, Thread, Calls
<1>2. \A x : Count(u.inbox, x) = IF Message("answer") = x THEN Count(t.inbox, x) + 1
                                 ELSE Count(t.inbox, x)
  BY <1>1, CountOfAppend
<1>3. \A x : Count(t.outbox, x) = IF DisconnectReport = x THEN Count(u.outbox, x) + 1
                                  ELSE Count(u.outbox, x)
  BY <1>1, CountOfTail
<1>4. ThreadInv(u)
  <2>1. Count(u.inbox, Message("answer")) = Count(t.inbox, Message("answer")) + 1
    BY <1>2
  <2>2. Count(t.outbox, DisconnectReport) = Count(u.outbox, DisconnectReport) + 1
    BY <1>3
  <2>3. Count(t.inbox, Message("answer")) \in Nat /\ Count(u.outbox, DisconnectReport) \in Nat
    BY <1>1, PositionsAreFinite
  <2>4. Count(u.inbox, Message("answer")) + Count(u.outbox, DisconnectReport)
        = Count(t.inbox, Message("answer")) + Count(t.outbox, DisconnectReport)
    BY <2>1, <2>2, <2>3
  <2> QED
    BY <2>4 DEF ThreadInv, Orderly
<1>5. Unfinished(u) = Unfinished(t)
  <2>1. Count(u.inbox, Message("disconnect")) = Count(t.inbox, Message("disconnect"))
    BY <1>2, MessagesDiffer
  <2>2. Count(u.outbox, Message("disconnected")) = Count(t.outbox, Message("disconnected"))
    BY <1>3, MessagesDiffer
  <2> QED
    BY <2>1, <2>2 DEF Unfinished
<1>6. ASSUME NEW p \in Packets PROVE Handovers(u, p) = Handovers(t, p)
  <2>1. Count(u.inbox, WithIds("send", {p})) = Count(t.inbox, WithIds("send", {p}))
    BY <1>2, MessagesDiffer
  <2>2. /\ Count(u.outbox, WithIds("sent", {p})) = Count(t.outbox, WithIds("sent", {p}))
        /\ Count(u.outbox, WithIds("notSent", {p})) = Count(t.outbox, WithIds("notSent", {p}))
    BY <1>3, MessagesDiffer
  <2> QED
    BY <2>1, <2>2 DEF Handovers
<1> QED
  BY <1>4, <1>5, <1>6

\* The child takes a call that is no answer.
LEMMA CallTakenStep ==
    ASSUME NEW t, ThreadInv(t), t.inbox # <<>>, Head(t.inbox) # Message("answer"),
           NEW u \in Thread, u.inbox = Tail(t.inbox), u.outbox = t.outbox,
           u.waits = t.waits, u.child = t.child
    PROVE  /\ ThreadInv(u)
           /\ Unfinished(u) = IF Head(t.inbox) = Message("disconnect")
                              THEN Unfinished(t) - 1 ELSE Unfinished(t)
           /\ \A p \in Packets :
                 Handovers(u, p) = IF Head(t.inbox) = WithIds("send", {p})
                                   THEN Handovers(t, p) - 1 ELSE Handovers(t, p)
<1> DEFINE m == Head(t.inbox)
<1>1. t.inbox \in Seq(Calls) /\ t.outbox \in Seq(Reports) /\ t.waits \in Seq(Waits)
      /\ u.inbox \in Seq(Calls) /\ t.child.closing \in Int
  BY DEF ThreadInv, Thread, Condition
<1>2. \A x : Count(t.inbox, x) = IF m = x THEN Count(u.inbox, x) + 1 ELSE Count(u.inbox, x)
  BY <1>1, CountOfTail
<1>3. \A x : /\ Count(u.inbox, x) \in Nat /\ Count(t.outbox, x) \in Nat
             /\ Count(t.waits, x) \in Nat
  BY <1>1, PositionsAreFinite
<1> HIDE DEF m
<1>4. ThreadInv(u)
  BY <1>2 DEF ThreadInv, Orderly, m
<1>5. Unfinished(u) = IF m = Message("disconnect") THEN Unfinished(t) - 1 ELSE Unfinished(t)
  <2>1. t.child.closing \in Int
    BY <1>1
  <2> QED
    BY <1>2, <1>3, <2>1 DEF Unfinished
<1>6. \A p \in Packets :
         Handovers(u, p) = IF m = WithIds("send", {p}) THEN Handovers(t, p) - 1
                           ELSE Handovers(t, p)
  BY <1>2, <1>3 DEF Handovers
<1> QED
  BY <1>4, <1>5, <1>6 DEF m

\* The child takes an answer: someone waited for it, and waits no more.
LEMMA AnswerIsAwaited ==
    ASSUME NEW t, ThreadInv(t), t.inbox # <<>>, Head(t.inbox) = Message("answer")
    PROVE  t.waits # <<>> /\ Head(t.waits) \in Waits
<1>1. t.inbox \in Seq(Calls) /\ t.outbox \in Seq(Reports) /\ t.waits \in Seq(Waits)
  BY DEF ThreadInv, Thread
<1>2. Tail(t.inbox) \in Seq(Calls)
  BY <1>1, HeadTailProperties
<1>3. Count(t.inbox, Message("answer")) = Count(Tail(t.inbox), Message("answer")) + 1
  BY <1>1, CountOfTail
<1>4. Count(Tail(t.inbox), Message("answer")) \in Nat /\ Count(t.outbox, DisconnectReport) \in Nat
  BY <1>1, <1>2, PositionsAreFinite
<1>5. Len(t.waits) # 0
  BY <1>3, <1>4 DEF ThreadInv, Orderly
<1> QED
  BY <1>1, <1>5, EmptySeq, HeadTailProperties

\* Thread t becomes u: an answer reaches the one that waits longest.
TakesAnswer(t, u) ==
    /\ u.inbox = Tail(t.inbox) /\ u.outbox = t.outbox /\ u.waits = Tail(t.waits)
    /\ u.child.restarting = IF Head(t.waits) = "restart" THEN t.child.restarting - 1
                            ELSE t.child.restarting
    /\ u.child.closing = t.child.closing

\* A thread that takes an answer keeps its invariant, and one disconnect fewer is
\* unfinished if that is what waited.
LEMMA AnswerTakenStep ==
    ASSUME NEW t, ThreadInv(t), t.inbox # <<>>, Head(t.inbox) = Message("answer"),
           NEW u \in Thread, TakesAnswer(t, u)
    PROVE  /\ ThreadInv(u)
           /\ Unfinished(u) = IF Head(t.waits) = "disconnect"
                              THEN Unfinished(t) - 1 ELSE Unfinished(t)
           /\ \A p \in Packets : Handovers(u, p) = Handovers(t, p)
<1> DEFINE w == Head(t.waits)
<1>1. t.inbox \in Seq(Calls) /\ t.outbox \in Seq(Reports) /\ t.waits \in Seq(Waits)
      /\ u.inbox \in Seq(Calls) /\ u.waits \in Seq(Waits)
      /\ t.waits # <<>> /\ w \in Waits
  BY AnswerIsAwaited DEF ThreadInv, Thread
<1>2. \A x : Count(t.inbox, x) = IF Message("answer") = x THEN Count(u.inbox, x) + 1
                                 ELSE Count(u.inbox, x)
  BY <1>1, CountOfTail DEF TakesAnswer
<1>3. /\ \A x : Count(t.waits, x) = IF w = x THEN Count(u.waits, x) + 1
                                    ELSE Count(u.waits, x)
      /\ Len(u.waits) = Len(t.waits) - 1
  BY <1>1, CountOfTail, HeadTailProperties DEF TakesAnswer
<1>4. \A x : /\ Count(u.inbox, x) \in Nat /\ Count(t.outbox, x) \in Nat
             /\ Count(u.waits, x) \in Nat
  BY <1>1, PositionsAreFinite
<1> HIDE DEF w
<1>5. ThreadInv(u)
  <2>1. Count(u.inbox, Message("answer")) + Count(u.outbox, DisconnectReport) = Len(u.waits)
    <3>1. Count(t.inbox, Message("answer")) = Count(u.inbox, Message("answer")) + 1
      BY <1>2
    <3>2. Count(t.inbox, Message("answer")) + Count(t.outbox, DisconnectReport) = Len(t.waits)
      BY DEF ThreadInv, Orderly
    <3>3. u.outbox = t.outbox /\ Len(t.waits) \in Nat
      BY <1>1, LenProperties DEF TakesAnswer
    <3> QED
      BY <1>3, <1>4, <3>1, <3>2, <3>3
  <2>2. u.child.restarting = Count(u.waits, "restart")
    <3>1. t.child.restarting = Count(t.waits, "restart")
      BY DEF ThreadInv, Orderly
    <3>2. u.child.restarting = IF w = "restart" THEN t.child.restarting - 1
                               ELSE t.child.restarting
      BY DEF TakesAnswer, w
    <3> QED
      BY <1>3, <1>4, <3>1, <3>2
  <2> QED
    BY <2>1, <2>2 DEF ThreadInv, Orderly
<1>6. Unfinished(u) = IF w = "disconnect" THEN Unfinished(t) - 1 ELSE Unfinished(t)
  <2>1. Count(u.inbox, Message("disconnect")) = Count(t.inbox, Message("disconnect"))
    BY <1>2, MessagesDiffer
  <2>2. u.outbox = t.outbox /\ u.child.closing = t.child.closing
    BY DEF TakesAnswer
  <2>3. /\ Count(t.waits, "disconnect") = IF w = "disconnect"
                                          THEN Count(u.waits, "disconnect") + 1
                                          ELSE Count(u.waits, "disconnect")
        /\ Count(u.waits, "disconnect") \in Int /\ Count(u.inbox, Message("disconnect")) \in Int
        /\ Count(t.outbox, Message("disconnected")) \in Int
        /\ t.child.closing \in Int
    BY <1>3, <1>4 DEF ThreadInv, Thread, Condition
  <2> QED
    BY <2>1, <2>2, <2>3 DEF Unfinished
<1>7. ASSUME NEW p \in Packets PROVE Handovers(u, p) = Handovers(t, p)
  <2>1. Count(u.inbox, WithIds("send", {p})) = Count(t.inbox, WithIds("send", {p}))
    BY <1>2, MessagesDiffer
  <2>2. u.outbox = t.outbox
    BY DEF TakesAnswer
  <2> QED
    BY <2>1, <2>2 DEF Handovers
<1> QED
  BY <1>5, <1>6, <1>7 DEF w

\* The steps of the child keep its condition well formed.
LEMMA ConditionTypes ==
    ASSUME NEW c \in Condition
    PROVE  /\ Restarted(c) \in Condition /\ Resumed(c) \in Condition
           /\ Disconnecting(c) \in Condition /\ ClosedDown(c) \in Condition
           /\ InSession(c) \in Condition
           /\ \A ids \in SUBSET Packets :
                 Holding(c, ids) \in Condition /\ Relieved(c, ids) \in Condition
<1>1. ASSUME NEW d \in Condition PROVE Dialled(d) \in Condition
  BY DEF Dialled, Condition, ConnectionState
<1>2. Abandoned(c) \in Condition /\ [c EXCEPT !.open = TRUE] \in Condition
  <2>1. c.restarting + 1 \in Int /\ "Closed" \in ConnectionState
    BY DEF Condition, ConnectionState
  <2>2. Abandoned(c) \in Condition
    BY <2>1 DEF Abandoned, Condition
  <2>3. [c EXCEPT !.open = TRUE] \in Condition
    BY DEF Condition
  <2> QED
    BY <2>2, <2>3
<1>3. Restarted(c) \in Condition
  BY <1>1, <1>2 DEF Restarted
<1>4. Resumed(c) \in Condition
  <2>1. [c EXCEPT !.restarting = c.restarting - 1] \in Condition
    BY DEF Condition
  <2> QED
    BY <1>1, <2>1 DEF Resumed
<1>5. Disconnecting(c) \in Condition
  <2>1. c.closing + 1 \in Int /\ "Disconnected" \in ConnectionState
    BY DEF Condition, ConnectionState
  <2>2. CASE c.open
    BY <2>1, <2>2 DEF Disconnecting, Condition
  <2>3. CASE ~c.open
    BY <2>1, <2>3 DEF Disconnecting, Condition
  <2> QED
    BY <2>2, <2>3
<1>6. ClosedDown(c) \in Condition
  <2>1. c.closing - 1 \in Int /\ "Disconnected" \in ConnectionState
    BY DEF Condition, ConnectionState
  <2> QED
    BY <2>1 DEF ClosedDown, Condition
<1>7. InSession(c) \in Condition
  BY DEF InSession, Condition, ConnectionState
<1>8. \A ids \in SUBSET Packets :
         Holding(c, ids) \in Condition /\ Relieved(c, ids) \in Condition
  BY DEF Holding, Relieved, Condition
<1> QED
  BY <1>3, <1>4, <1>5, <1>6, <1>7, <1>8

\* What the steps of the child do to the calls that wait for the parent.
LEMMA ConditionCounts ==
    ASSUME NEW c \in Condition
    PROVE  /\ Restarted(c).closing = c.closing
           /\ Restarted(c).restarting = IF c.state = "Established" THEN c.restarting + 1
                                        ELSE c.restarting
           /\ Resumed(c).closing = c.closing /\ Resumed(c).restarting = c.restarting - 1
           /\ Disconnecting(c).restarting = c.restarting
           /\ Disconnecting(c).closing = IF c.open THEN c.closing + 1 ELSE c.closing
           /\ ClosedDown(c).restarting = c.restarting
           /\ ClosedDown(c).closing = c.closing - 1
           /\ InSession(c).restarting = c.restarting /\ InSession(c).closing = c.closing
           /\ \A ids : /\ Holding(c, ids).restarting = c.restarting
                       /\ Holding(c, ids).closing = c.closing
                       /\ Relieved(c, ids).restarting = c.restarting
                       /\ Relieved(c, ids).closing = c.closing
<1>1. ASSUME NEW d \in Condition
      PROVE  Dialled(d).restarting = d.restarting /\ Dialled(d).closing = d.closing
  BY DEF Dialled, Condition
<1>2. /\ Restarted(c).closing = c.closing
      /\ Restarted(c).restarting = IF c.state = "Established" THEN c.restarting + 1
                                   ELSE c.restarting
  <2>1. [c EXCEPT !.open = TRUE] \in Condition
    BY DEF Condition
  <2>2. /\ [c EXCEPT !.open = TRUE].restarting = c.restarting
        /\ [c EXCEPT !.open = TRUE].closing = c.closing
    BY DEF Condition
  <2>3. Abandoned(c).restarting = c.restarting + 1 /\ Abandoned(c).closing = c.closing
    BY DEF Abandoned, Condition
  <2> QED
    BY <1>1, <2>1, <2>2, <2>3 DEF Restarted
<1>3. Resumed(c).closing = c.closing /\ Resumed(c).restarting = c.restarting - 1
  <2> DEFINE d == [c EXCEPT !.restarting = c.restarting - 1]
  <2>1. d \in Condition /\ d.restarting = c.restarting - 1 /\ d.closing = c.closing
    BY DEF Condition
  <2> QED
    BY <1>1, <2>1 DEF Resumed
<1>4. /\ Disconnecting(c).restarting = c.restarting
      /\ Disconnecting(c).closing = IF c.open THEN c.closing + 1 ELSE c.closing
  BY DEF Disconnecting, Condition
<1>5. ClosedDown(c).restarting = c.restarting /\ ClosedDown(c).closing = c.closing - 1
  BY DEF ClosedDown, Condition
<1>6. /\ InSession(c).restarting = c.restarting /\ InSession(c).closing = c.closing
      /\ \A ids : /\ Holding(c, ids).restarting = c.restarting
                  /\ Holding(c, ids).closing = c.closing
                  /\ Relieved(c, ids).restarting = c.restarting
                  /\ Relieved(c, ids).closing = c.closing
  BY DEF InSession, Holding, Relieved, Condition
<1> QED
  BY <1>2, <1>3, <1>4, <1>5, <1>6

\* A restart in a thread, which is reported if there was a session.
LEMMA RestartStep ==
    ASSUME NEW t, ThreadInv(t)
    PROVE  LET u == RestartIn(t)
           IN  /\ ThreadInv(u) /\ Unfinished(u) = Unfinished(t)
               /\ \A p \in Packets : Handovers(u, p) = Handovers(t, p)
               /\ u.life = t.life /\ u.inbox = t.inbox /\ u.dump = 0 /\ u.session = t.session
               /\ u.child = Restarted(t.child)
               /\ t.child.state = "Established" =>
                     /\ u.outbox = Append(t.outbox, DisconnectReport)
                     /\ u.waits = Append(t.waits, "restart")
               /\ t.child.state # "Established" => u.outbox = t.outbox /\ u.waits = t.waits
<1> DEFINE c == Restarted(t.child)
           v == [t EXCEPT !.dump = 0]
           u == RestartIn(t)
<1>1. t \in Thread /\ t.child \in Condition /\ c \in Condition
  BY ConditionTypes DEF ThreadInv, Thread
<1>2. v \in Thread /\ "restart" \in Waits
  BY <1>1 DEF Thread, Waits
<1>3. v.inbox = t.inbox /\ v.outbox = t.outbox /\ v.waits = t.waits /\ v.child = t.child
      /\ v.life = t.life /\ v.dump = 0 /\ v.session = t.session
  BY <1>1 DEF Thread
<1>4. u = Child(v, c, RestartReports(t.child), "restart")
  BY DEF RestartIn
<1> HIDE DEF u, v, c
<1>5. CASE t.child.state = "Established"
  <2>1. u = Child(v, c, <<DisconnectReport>>, "restart")
    BY <1>4, <1>5 DEF RestartReports
  <2>3. u \in Thread /\ u.inbox = t.inbox /\ u.life = t.life /\ u.dump = 0
        /\ u.session = t.session /\ u.child = c
        /\ u.outbox = Append(t.outbox, DisconnectReport)
        /\ u.waits = Append(t.waits, "restart")
    <3>1. c \in Condition
      BY <1>1
    <3>2. /\ u \in Thread /\ u.child = c
          /\ u.outbox = Append(v.outbox, DisconnectReport)
          /\ u.waits = Append(v.waits, "restart")
          /\ u.life = v.life /\ u.dump = v.dump /\ u.session = v.session
          /\ u.inbox = v.inbox
      BY <1>2, <2>1, <3>1, ChildFields
    <3> QED
      BY <1>3, <3>2
  <2>4. u.child.restarting = t.child.restarting + 1 /\ u.child.closing = t.child.closing
    BY <1>1, <1>5, <2>3, ConditionCounts DEF c
  <2>5. ReportsEnd(t, u, "restart")
    BY <2>3, <2>4 DEF ReportsEnd
  <2>6. /\ ThreadInv(u) /\ Unfinished(u) + t.child.closing = Unfinished(t) + u.child.closing
        /\ \A p \in Packets : Handovers(u, p) = Handovers(t, p)
    BY <1>2, <2>3, <2>5, EndReportStep
  <2>7. Unfinished(u) = Unfinished(t)
    <3>1. Unfinished(u) \in Int /\ Unfinished(t) \in Int /\ t.child.closing \in Int
      BY <1>1, <2>3, CountsOfThread
    <3> QED
      BY <2>4, <2>6, <3>1
  <2> QED
    BY <1>5, <2>3, <2>6, <2>7 DEF u, c
<1>6. CASE t.child.state # "Established"
  <2>1. u = Child(v, c, <<>>, "restart")
    BY <1>4, <1>6 DEF RestartReports
  <2>2. u \in Thread /\ u.inbox = t.inbox /\ u.life = t.life /\ u.dump = 0
        /\ u.session = t.session /\ u.child = c /\ u.outbox = t.outbox /\ u.waits = t.waits
    BY <1>1, <1>2, <1>3, <2>1, ChildFields
  <2>3. u.child.restarting = t.child.restarting /\ u.child.closing = t.child.closing
    BY <1>1, <1>6, <2>2, ConditionCounts DEF c
  <2> QED
    BY <1>6, <2>2, <2>3, QuietStep DEF u, c
<1> QED
  BY <1>5, <1>6 DEF u

\* A disconnect in a thread: the socket begins to close, or the end is reported at once.
LEMMA DisconnectingStep ==
    ASSUME NEW t, ThreadInv(t)
    PROVE  LET u == Child(t, Disconnecting(t.child), DisconnectReports(t.child), "disconnect")
           IN  /\ ThreadInv(u) /\ Unfinished(u) = Unfinished(t) + 1
               /\ \A p \in Packets : Handovers(u, p) = Handovers(t, p)
               /\ u.life = t.life /\ u.inbox = t.inbox /\ u.dump = t.dump
               /\ u.session = t.session /\ u.child = Disconnecting(t.child)
               /\ t.child.open => u.outbox = t.outbox /\ u.waits = t.waits
               /\ ~t.child.open => /\ u.outbox = Append(t.outbox, DisconnectReport)
                                   /\ u.waits = Append(t.waits, "disconnect")
<1> DEFINE c == Disconnecting(t.child)
           u == Child(t, c, DisconnectReports(t.child), "disconnect")
<1>1. t \in Thread /\ t.child \in Condition /\ c \in Condition /\ "disconnect" \in Waits
  BY ConditionTypes DEF ThreadInv, Thread, Waits
<1>2. /\ c.restarting = t.child.restarting
      /\ c.closing = IF t.child.open THEN t.child.closing + 1 ELSE t.child.closing
  BY <1>1, ConditionCounts
<1> HIDE DEF u, c
<1>3. CASE t.child.open
  <2>1. u = Child(t, c, <<>>, "disconnect")
    BY <1>3 DEF DisconnectReports, u
  <2>2. /\ u \in Thread /\ u.child = c /\ u.outbox = t.outbox /\ u.waits = t.waits
        /\ u.life = t.life /\ u.dump = t.dump /\ u.session = t.session
        /\ u.inbox = t.inbox
    BY <1>1, <2>1, ChildFields
  <2>3. ThreadInv(u)
    BY <1>2, <2>2 DEF ThreadInv, Orderly
  <2>4. Unfinished(u) = Unfinished(t) + 1
    <3>1. /\ Count(t.inbox, Message("disconnect")) \in Int
          /\ Count(t.waits, "disconnect") \in Int
          /\ Count(t.outbox, Message("disconnected")) \in Int
          /\ t.child.closing \in Int /\ c.closing = t.child.closing + 1
      BY <1>1, <1>2, <1>3, CountsOfThread
    <3> QED
      BY <2>2, <3>1 DEF Unfinished
  <2>5. \A p \in Packets : Handovers(u, p) = Handovers(t, p)
    BY <2>2 DEF Handovers
  <2> QED
    BY <1>3, <2>2, <2>3, <2>4, <2>5 DEF u, c
<1>4. CASE ~t.child.open
  <2>1. u = Child(t, c, <<DisconnectReport>>, "disconnect")
    BY <1>4 DEF DisconnectReports, u
  <2>2. /\ u \in Thread /\ u.child = c
        /\ u.outbox = Append(t.outbox, DisconnectReport)
        /\ u.waits = Append(t.waits, "disconnect")
        /\ u.life = t.life /\ u.dump = t.dump /\ u.session = t.session
        /\ u.inbox = t.inbox
    BY <1>1, <2>1, ChildFields
  <2>3. ReportsEnd(t, u, "disconnect")
    BY <1>2, <2>2 DEF ReportsEnd
  <2>4. /\ ThreadInv(u)
        /\ Unfinished(u) + t.child.closing = Unfinished(t) + u.child.closing + 1
        /\ \A p \in Packets : Handovers(u, p) = Handovers(t, p)
    BY <1>1, <2>2, <2>3, EndReportStep
  <2>5. Unfinished(u) = Unfinished(t) + 1
    <3>1. u.child.closing = t.child.closing
      BY <1>2, <1>4, <2>2
    <3>2. Unfinished(u) \in Int /\ Unfinished(t) \in Int /\ t.child.closing \in Int
      BY <1>1, <2>2, CountsOfThread
    <3> QED
      BY <2>4, <3>1, <3>2
  <2> QED
    BY <1>4, <2>2, <2>4, <2>5 DEF u, c
<1> QED
  BY <1>3, <1>4 DEF u, c

\* The close callback reports the end.
LEMMA ClosingStep ==
    ASSUME NEW t, ThreadInv(t)
    PROVE  LET u == Child(t, ClosedDown(t.child), <<DisconnectReport>>, "disconnect")
           IN  /\ ThreadInv(u) /\ Unfinished(u) = Unfinished(t)
               /\ \A p \in Packets : Handovers(u, p) = Handovers(t, p)
               /\ u.life = t.life /\ u.inbox = t.inbox /\ u.dump = t.dump
               /\ u.session = t.session /\ u.child = ClosedDown(t.child)
               /\ u.outbox = Append(t.outbox, DisconnectReport)
               /\ u.waits = Append(t.waits, "disconnect")
<1> DEFINE c == ClosedDown(t.child)
           u == Child(t, c, <<DisconnectReport>>, "disconnect")
<1>1. t \in Thread /\ t.child \in Condition /\ c \in Condition /\ "disconnect" \in Waits
  BY ConditionTypes DEF ThreadInv, Thread, Waits
<1>2. c.restarting = t.child.restarting /\ c.closing = t.child.closing - 1
  BY <1>1, ConditionCounts
<1> HIDE DEF c
<1>3. /\ u \in Thread /\ u.child = c
      /\ u.outbox = Append(t.outbox, DisconnectReport)
      /\ u.waits = Append(t.waits, "disconnect")
      /\ u.life = t.life /\ u.dump = t.dump /\ u.session = t.session
      /\ u.inbox = t.inbox
  BY <1>1, ChildFields
<1> HIDE DEF u
<1>4. ReportsEnd(t, u, "disconnect")
  BY <1>2, <1>3 DEF ReportsEnd
<1>5. /\ ThreadInv(u)
      /\ Unfinished(u) + t.child.closing = Unfinished(t) + u.child.closing + 1
      /\ \A p \in Packets : Handovers(u, p) = Handovers(t, p)
  BY <1>1, <1>3, <1>4, EndReportStep
<1>6. Unfinished(u) = Unfinished(t)
  <2>1. u.child.closing = t.child.closing - 1
    BY <1>2, <1>3
  <2>2. Unfinished(u) \in Int /\ Unfinished(t) \in Int /\ t.child.closing \in Int
    BY <1>1, <1>3, CountsOfThread
  <2> QED
    BY <1>5, <2>1, <2>2
<1> QED
  BY <1>3, <1>5, <1>6 DEF u, c

-----------------------------------------------------------------------------
(* Types of the connection, and what an action does to its thread *)

Parts == {"version", "init"}

Outcomes == {"none", "sending", "pending", "resolved", "rejected", "failed"}

ParentTypes ==
    /\ socketProcess \in 0 .. MaxThreads /\ creatingSocket \in 0 .. MaxThreads
    /\ isDisconnecting \in BOOLEAN /\ connecting \in BOOLEAN /\ disconnecting \in BOOLEAN
    /\ transfers \in BOOLEAN /\ crossed \in BOOLEAN /\ doubled \in BOOLEAN
    /\ destroying \in {"no", "waiting"}
    /\ status \in {"CLOSED", "CONNECTING", "CONNECTED"}
    /\ state \in [defined : BOOLEAN, parts : SUBSET (Nat \X Parts)]
    /\ promise \in [Packets -> Outcomes] /\ sent \in 0 .. MaxPackets
    /\ accepted \subseteq Packets /\ stray \subseteq Packets
    /\ wanted \in {"nothing", "connection", "disconnection", "destruction"}
    /\ sessions \in Nat /\ losses \in Nat /\ crashes \in Nat /\ calls \in Nat

ThreadsInv ==
    /\ thread \in [Threads -> Thread]
    /\ \A n \in Threads : Orderly(thread[n])

TypesInv == ParentTypes /\ ThreadsInv

\* Thread n runs and becomes another that runs; the others are as before.
RunsOn(n) ==
    /\ Runs(n) /\ thread'[n].life = "running" /\ ThreadInv(thread'[n])
    /\ \A m \in Threads \ {n} : thread'[m] = thread[m]
    /\ ThreadsInv'

\* What changes one thread only.
LEMMA OneThreadChanges ==
    ASSUME ThreadsInv, NEW n \in Threads, NEW u, ThreadInv(u),
           thread' = [thread EXCEPT ![n] = u]
    PROVE  /\ thread'[n] = u /\ \A m \in Threads \ {n} : thread'[m] = thread[m]
           /\ ThreadsInv'
<1>1. u \in Thread /\ Orderly(u)
  BY DEF ThreadInv
<1>2. /\ thread' \in [Threads -> Thread] /\ thread'[n] = u
      /\ \A m \in Threads \ {n} : thread'[m] = thread[m]
  BY <1>1 DEF ThreadsInv
<1>3. \A m \in Threads : Orderly(thread'[m])
  BY <1>1, <1>2 DEF ThreadsInv
<1> QED
  BY <1>2, <1>3 DEF ThreadsInv

\* A call that the parent makes.
LEMMA CallEffect ==
    ASSUME ThreadsInv, NEW n \in Threads, NEW m \in Calls, m # Message("answer"),
           Call(n, m)
    PROVE  /\ ThreadsInv'
           /\ \A k \in Threads : thread'[k].life = thread[k].life
           /\ \A k \in Threads \ {n} : thread'[k] = thread[k]
           /\ ~Runs(n) => thread' = thread
           /\ Runs(n) =>
                 /\ RunsOn(n)
                 /\ thread'[n].child = thread[n].child /\ thread'[n].outbox = thread[n].outbox
                 /\ Unfinished(thread'[n]) = IF m = Message("disconnect")
                                             THEN Unfinished(thread[n]) + 1
                                             ELSE Unfinished(thread[n])
                 /\ \A p \in Packets :
                       Handovers(thread'[n], p) = IF m = WithIds("send", {p})
                                                  THEN Handovers(thread[n], p) + 1
                                                  ELSE Handovers(thread[n], p)
<1>1. CASE ~Runs(n)
  BY <1>1 DEF Call, ThreadsInv
<1>2. CASE Runs(n)
  <2> DEFINE t == thread[n]
             u == Posting(t, m)
  <2>1. ThreadInv(t)
    BY DEF ThreadsInv, ThreadInv
  <2>2. /\ ThreadInv(u) /\ u.life = t.life /\ u.child = t.child /\ u.outbox = t.outbox
        /\ Unfinished(u) = IF m = Message("disconnect") THEN Unfinished(t) + 1
                           ELSE Unfinished(t)
        /\ \A p \in Packets :
              Handovers(u, p) = IF m = WithIds("send", {p}) THEN Handovers(t, p) + 1
                                ELSE Handovers(t, p)
    BY <2>1, PostingStep
  <2>3. thread' = [thread EXCEPT ![n] = u]
    BY <1>2 DEF Call
  <2> HIDE DEF u
  <2>4. /\ thread'[n] = u /\ \A k \in Threads \ {n} : thread'[k] = thread[k]
        /\ ThreadsInv'
    BY <2>2, <2>3, OneThreadChanges
  <2>5. u.life = "running"
    BY <1>2, <2>2 DEF Runs
  <2> QED
    BY <1>2, <2>2, <2>4, <2>5 DEF RunsOn
<1> QED
  BY <1>1, <1>2

\* A report that the parent takes and need not answer.
LEMMA TakenEffect ==
    ASSUME ThreadsInv, NEW n \in Threads, NEW type, type # "disconnect", Next1(n, type),
           thread' = [thread EXCEPT ![n] = Taken(n)]
    PROVE  /\ RunsOn(n) /\ thread[n].outbox # <<>>
           /\ Head(thread[n].outbox) \in Reports /\ Head(thread[n].outbox).type = type
           /\ thread'[n] = Taken(n)
           /\ thread'[n].child = thread[n].child /\ thread'[n].inbox = thread[n].inbox
           /\ thread'[n].outbox = Tail(thread[n].outbox)
           /\ Unfinished(thread'[n]) = IF Head(thread[n].outbox) = Message("disconnected")
                                       THEN Unfinished(thread[n]) - 1
                                       ELSE Unfinished(thread[n])
           /\ \A p \in Packets :
                 Handovers(thread'[n], p) =
                    IF Head(thread[n].outbox) \in {WithIds("sent", {p}), WithIds("notSent", {p})}
                    THEN Handovers(thread[n], p) - 1 ELSE Handovers(thread[n], p)
<1> DEFINE t == thread[n]
           u == Taken(n)
<1>1. t \in Thread /\ ThreadInv(t) /\ t.outbox \in Seq(Reports)
  BY DEF ThreadsInv, ThreadInv, Thread
<1>2. t.outbox # <<>> /\ Head(t.outbox).type = type /\ t.life = "running"
  BY DEF Next1, Runs
<1>3. Head(t.outbox) \in Reports /\ Tail(t.outbox) \in Seq(Reports)
  BY <1>1, <1>2, HeadTailProperties
<1>4. Head(t.outbox) # DisconnectReport
  BY <1>2 DEF DisconnectReport
<1>5. u = [t EXCEPT !.outbox = Tail(t.outbox)]
  BY DEF Taken
<1>6. /\ u \in Thread /\ u.inbox = t.inbox /\ u.outbox = Tail(t.outbox) /\ u.waits = t.waits
      /\ u.child = t.child /\ u.life = "running"
  BY <1>1, <1>2, <1>3, <1>5 DEF Thread
<1> HIDE DEF u
<1>7. /\ ThreadInv(u)
      /\ Unfinished(u) = IF Head(t.outbox) = Message("disconnected")
                         THEN Unfinished(t) - 1 ELSE Unfinished(t)
      /\ \A p \in Packets :
            Handovers(u, p) =
               IF Head(t.outbox) \in {WithIds("sent", {p}), WithIds("notSent", {p})}
               THEN Handovers(t, p) - 1 ELSE Handovers(t, p)
  BY <1>1, <1>2, <1>4, <1>6, TakenStep
<1>8. thread' = [thread EXCEPT ![n] = u]
  BY DEF u
<1>9. /\ thread'[n] = u /\ \A m \in Threads \ {n} : thread'[m] = thread[m]
      /\ ThreadsInv'
  BY <1>7, <1>8, OneThreadChanges
<1> QED
  BY <1>2, <1>3, <1>6, <1>7, <1>9 DEF RunsOn, Runs, u

\* The report of an end, which the parent answers.
LEMMA EndTakenEffect ==
    ASSUME ThreadsInv, NEW n \in Threads, Next1(n, "disconnect"),
           thread' = [thread EXCEPT ![n] = Posting(Taken(n), Message("answer"))]
    PROVE  /\ RunsOn(n) /\ thread[n].outbox # <<>>
           /\ Head(thread[n].outbox) = DisconnectReport
           /\ thread'[n].child = thread[n].child
           /\ thread'[n].inbox = Append(thread[n].inbox, Message("answer"))
           /\ thread'[n].outbox = Tail(thread[n].outbox)
           /\ Unfinished(thread'[n]) = Unfinished(thread[n])
           /\ \A p \in Packets : Handovers(thread'[n], p) = Handovers(thread[n], p)
<1> DEFINE t == thread[n]
           u == Posting(Taken(n), Message("answer"))
<1>1. /\ t \in Thread /\ ThreadInv(t) /\ t.outbox \in Seq(Reports) /\ t.inbox \in Seq(Calls)
      /\ Message("answer") \in Calls
  BY DEF ThreadsInv, ThreadInv, Thread, Calls
<1>2. t.outbox # <<>> /\ Head(t.outbox).type = "disconnect" /\ t.life = "running"
  BY DEF Next1, Runs
<1>3. /\ Head(t.outbox) \in Reports /\ Tail(t.outbox) \in Seq(Reports)
      /\ Append(t.inbox, Message("answer")) \in Seq(Calls)
  BY <1>1, <1>2, HeadTailProperties, AppendProperties
<1>4. Head(t.outbox) = DisconnectReport
  BY <1>2, <1>3 DEF Reports, Message, WithIds
<1>5. u = [t EXCEPT !.outbox = Tail(t.outbox), !.inbox = Append(t.inbox, Message("answer"))]
  BY <1>1 DEF Taken, Posting, Thread
<1> HIDE DEF u
<1>6. /\ u \in Thread /\ u.inbox = Append(t.inbox, Message("answer"))
      /\ u.outbox = Tail(t.outbox) /\ u.waits = t.waits /\ u.child = t.child
      /\ u.life = "running"
  BY <1>1, <1>2, <1>3, <1>5 DEF Thread
<1>7. /\ ThreadInv(u) /\ Unfinished(u) = Unfinished(t)
      /\ \A p \in Packets : Handovers(u, p) = Handovers(t, p)
  BY <1>1, <1>2, <1>4, <1>6, EndTakenStep
<1>8. thread' = [thread EXCEPT ![n] = u]
  BY DEF u
<1>9. /\ thread'[n] = u /\ \A m \in Threads \ {n} : thread'[m] = thread[m]
      /\ ThreadsInv'
  BY <1>7, <1>8, OneThreadChanges
<1> QED
  BY <1>2, <1>4, <1>6, <1>7, <1>9 DEF RunsOn, Runs

\* The child begins with a call.
LEMMA BegunEffect ==
    ASSUME ThreadsInv, NEW n \in Threads, NEW type, NextCall(n, type)
    PROVE  LET t == thread[n]
               u == Begun(n)
           IN  /\ t.inbox # <<>> /\ Head(t.inbox) \in Calls /\ Head(t.inbox).type = type
               /\ u \in Thread /\ u.inbox = Tail(t.inbox) /\ u.outbox = t.outbox
               /\ u.waits = t.waits /\ u.child = t.child /\ u.life = "running"
               /\ u.dump = t.dump /\ u.session = t.session
               /\ type = "answer" => Head(t.inbox) = Message("answer")
               /\ type = "connect" => Head(t.inbox) = Message("connect")
               /\ type = "disconnect" => Head(t.inbox) = Message("disconnect")
               /\ type = "send" => \E p \in Packets : Head(t.inbox) = WithIds("send", {p})
               /\ type # "answer" =>
                     /\ ThreadInv(u)
                     /\ Unfinished(u) = IF type = "disconnect" THEN Unfinished(t) - 1
                                        ELSE Unfinished(t)
                     /\ \A p \in Packets :
                           Handovers(u, p) = IF Head(t.inbox) = WithIds("send", {p})
                                             THEN Handovers(t, p) - 1 ELSE Handovers(t, p)
<1> DEFINE t == thread[n]
           u == Begun(n)
           m == Head(t.inbox)
<1>1. /\ t \in Thread /\ ThreadInv(t) /\ t.inbox \in Seq(Calls)
  BY DEF ThreadsInv, ThreadInv, Thread
<1>2. t.inbox # <<>> /\ m.type = type /\ t.life = "running"
  BY DEF NextCall, Runs
<1>3. m \in Calls /\ Tail(t.inbox) \in Seq(Calls)
  BY <1>1, <1>2, HeadTailProperties
<1>4. u = [t EXCEPT !.inbox = Tail(t.inbox)]
  BY DEF Begun
<1>5. /\ u \in Thread /\ u.inbox = Tail(t.inbox) /\ u.outbox = t.outbox
      /\ u.waits = t.waits /\ u.child = t.child /\ u.life = "running"
      /\ u.dump = t.dump /\ u.session = t.session
  BY <1>1, <1>2, <1>3, <1>4 DEF Thread
<1> HIDE DEF u, m
<1>6. /\ type = "answer" => m = Message("answer")
      /\ type = "connect" => m = Message("connect")
      /\ type = "disconnect" => m = Message("disconnect")
      /\ type = "send" => \E p \in Packets : m = WithIds("send", {p})
  BY <1>2, <1>3 DEF Calls, Message, WithIds
<1>7. ASSUME type # "answer"
      PROVE  /\ ThreadInv(u)
             /\ Unfinished(u) = IF type = "disconnect" THEN Unfinished(t) - 1
                                ELSE Unfinished(t)
             /\ \A p \in Packets :
                   Handovers(u, p) = IF m = WithIds("send", {p})
                                     THEN Handovers(t, p) - 1 ELSE Handovers(t, p)
  <2>1. m # Message("answer") /\ (m = Message("disconnect") <=> type = "disconnect")
    BY <1>2, <1>6, <1>7 DEF Message
  <2> QED
    BY <1>1, <1>2, <1>5, <2>1, CallTakenStep DEF m
<1> QED
  BY <1>2, <1>3, <1>5, <1>6, <1>7 DEF m, u

\* A call that hands nothing over leaves what is handed over.
LEMMA BegunHandovers ==
    ASSUME ThreadsInv, NEW n \in Threads, NEW type, NextCall(n, type), type # "answer",
           NEW p \in Packets, Head(thread[n].inbox) # WithIds("send", {p})
    PROVE  Handovers(Begun(n), p) = Handovers(thread[n], p)
  BY BegunEffect

\* connect, in the thread.
LEMMA ConnectEffect ==
    ASSUME ThreadsInv, NEW n \in Threads, TakeConnect(n)
    PROVE  LET t == thread[n]
               u == thread'[n]
           IN  /\ RunsOn(n) /\ Unfinished(u) = Unfinished(t)
               /\ \A p \in Packets : Handovers(u, p) = Handovers(t, p)
               /\ t.inbox # <<>> /\ Head(t.inbox) = Message("connect")
               /\ u.inbox = Tail(t.inbox) /\ u.child = Restarted(t.child)
               /\ u.dump = 0 /\ u.session = t.session
               /\ t.child.state = "Established" =>
                     /\ u.outbox = Append(t.outbox, DisconnectReport)
                     /\ u.waits = Append(t.waits, "restart")
               /\ t.child.state # "Established" => u.outbox = t.outbox /\ u.waits = t.waits
<1> DEFINE t == thread[n]
           b == Begun(n)
           u == RestartIn(b)
<1>1. NextCall(n, "connect") /\ thread' = [thread EXCEPT ![n] = u]
  BY DEF TakeConnect, ThreadBecomes
<1>2. /\ t.inbox # <<>> /\ Head(t.inbox) = Message("connect")
      /\ b.inbox = Tail(t.inbox) /\ b.outbox = t.outbox
      /\ b.waits = t.waits /\ b.child = t.child /\ b.life = "running"
      /\ b.session = t.session
      /\ ThreadInv(b) /\ Unfinished(b) = Unfinished(t)
  BY <1>1, BegunEffect
<1>3. \A p \in Packets : Handovers(b, p) = Handovers(t, p)
  <2>1. \A p \in Packets : Head(t.inbox) # WithIds("send", {p})
    BY <1>2, MessagesDiffer
  <2>2. "connect" # "answer"
    OBVIOUS
  <2> QED
    BY <1>1, <2>1, <2>2, BegunHandovers
<1> HIDE DEF b
<1>4. /\ ThreadInv(u) /\ Unfinished(u) = Unfinished(b)
      /\ \A p \in Packets : Handovers(u, p) = Handovers(b, p)
      /\ u.life = b.life /\ u.inbox = b.inbox /\ u.dump = 0 /\ u.session = b.session
      /\ u.child = Restarted(b.child)
      /\ b.child.state = "Established" =>
            /\ u.outbox = Append(b.outbox, DisconnectReport)
            /\ u.waits = Append(b.waits, "restart")
      /\ b.child.state # "Established" => u.outbox = b.outbox /\ u.waits = b.waits
  BY <1>2, RestartStep
<1> HIDE DEF u
<1>5. /\ thread'[n] = u /\ \A m \in Threads \ {n} : thread'[m] = thread[m]
      /\ ThreadsInv'
  BY <1>1, <1>4, OneThreadChanges
<1>6. Runs(n)
  BY <1>1 DEF NextCall
<1> QED
  BY <1>2, <1>3, <1>4, <1>5, <1>6 DEF RunsOn

\* disconnect, in the thread: what was called for is begun.
LEMMA DisconnectEffect ==
    ASSUME ThreadsInv, NEW n \in Threads, TakeDisconnectCall(n)
    PROVE  LET t == thread[n]
               u == thread'[n]
           IN  /\ RunsOn(n) /\ Unfinished(u) = Unfinished(t)
               /\ \A p \in Packets : Handovers(u, p) = Handovers(t, p)
               /\ t.inbox # <<>> /\ Head(t.inbox) = Message("disconnect")
               /\ u.inbox = Tail(t.inbox) /\ u.child = Disconnecting(t.child)
               /\ u.dump = t.dump /\ u.session = t.session
               /\ t.child.open => u.outbox = t.outbox /\ u.waits = t.waits
               /\ ~t.child.open => /\ u.outbox = Append(t.outbox, DisconnectReport)
                                   /\ u.waits = Append(t.waits, "disconnect")
<1> DEFINE t == thread[n]
           b == Begun(n)
           u == Child(b, Disconnecting(b.child), DisconnectReports(b.child), "disconnect")
<1>1. NextCall(n, "disconnect")
  BY DEF TakeDisconnectCall
<1>2. /\ t.inbox # <<>> /\ Head(t.inbox) = Message("disconnect")
      /\ b.inbox = Tail(t.inbox) /\ b.outbox = t.outbox
      /\ b.waits = t.waits /\ b.child = t.child /\ b.life = "running"
      /\ b.dump = t.dump /\ b.session = t.session
      /\ ThreadInv(b) /\ Unfinished(b) = Unfinished(t) - 1
  BY <1>1, BegunEffect
<1>3. \A p \in Packets : Handovers(b, p) = Handovers(t, p)
  <2>1. \A p \in Packets : Head(t.inbox) # WithIds("send", {p})
    BY <1>2, MessagesDiffer
  <2>2. "disconnect" # "answer"
    OBVIOUS
  <2> QED
    BY <1>1, <2>1, <2>2, BegunHandovers
<1>4. thread' = [thread EXCEPT ![n] = u]
  BY <1>2 DEF TakeDisconnectCall, ThreadBecomes
<1>5. Unfinished(t) \in Int
  BY CountsOfThread DEF ThreadsInv
<1> HIDE DEF b
<1>6. /\ ThreadInv(u) /\ Unfinished(u) = Unfinished(b) + 1
      /\ \A p \in Packets : Handovers(u, p) = Handovers(b, p)
      /\ u.life = b.life /\ u.inbox = b.inbox /\ u.dump = b.dump
      /\ u.session = b.session /\ u.child = Disconnecting(b.child)
      /\ b.child.open => u.outbox = b.outbox /\ u.waits = b.waits
      /\ ~b.child.open => /\ u.outbox = Append(b.outbox, DisconnectReport)
                          /\ u.waits = Append(b.waits, "disconnect")
  BY <1>2, DisconnectingStep
<1> HIDE DEF u
<1>7. /\ thread'[n] = u /\ \A m \in Threads \ {n} : thread'[m] = thread[m]
      /\ ThreadsInv'
  BY <1>4, <1>6, OneThreadChanges
<1>8. Runs(n)
  BY <1>1 DEF NextCall
<1>9. Unfinished(u) = Unfinished(t)
  BY <1>2, <1>5, <1>6
<1> QED
  BY <1>2, <1>3, <1>6, <1>7, <1>8, <1>9 DEF RunsOn

\* sendPackets, in the thread: the handover of the packet goes on with its answer.
LEMMA SendEffect ==
    ASSUME ThreadsInv, NEW n \in Threads, TakeSend(n)
    PROVE  LET t == thread[n]
               u == thread'[n]
           IN  /\ RunsOn(n) /\ Unfinished(u) = Unfinished(t)
               /\ \A p \in Packets : Handovers(u, p) = Handovers(t, p)
               /\ t.inbox # <<>> /\ u.inbox = Tail(t.inbox) /\ u.waits = t.waits
               /\ u.dump = t.dump /\ u.session = t.session
               /\ \E p \in Packets :
                     /\ Head(t.inbox) = WithIds("send", {p})
                     /\ u.child = Holding(t.child, {p})
                     /\ Handovers(t, p) > 0
                     /\ u.outbox = Append(t.outbox, WithIds(IF t.child.open THEN "sent"
                                                            ELSE "notSent", {p}))
<1> DEFINE t == thread[n]
           b == Begun(n)
<1>1. NextCall(n, "send")
  BY DEF TakeSend
<1>2. /\ t.inbox # <<>> /\ \E p \in Packets : Head(t.inbox) = WithIds("send", {p})
      /\ b \in Thread /\ b.inbox = Tail(t.inbox) /\ b.outbox = t.outbox
      /\ b.waits = t.waits /\ b.child = t.child /\ b.life = "running"
      /\ b.dump = t.dump /\ b.session = t.session
      /\ ThreadInv(b) /\ Unfinished(b) = Unfinished(t)
      /\ \A p \in Packets : Handovers(b, p) = IF Head(t.inbox) = WithIds("send", {p})
                                              THEN Handovers(t, p) - 1 ELSE Handovers(t, p)
  <2>1. "send" # "answer" /\ "send" # "disconnect"
    OBVIOUS
  <2> HIDE DEF b
  <2>2. /\ t.inbox # <<>> /\ \E p \in Packets : Head(t.inbox) = WithIds("send", {p})
        /\ b \in Thread /\ b.inbox = Tail(t.inbox) /\ b.outbox = t.outbox
        /\ b.waits = t.waits /\ b.child = t.child /\ b.life = "running"
        /\ b.dump = t.dump /\ b.session = t.session
    BY <1>1, BegunEffect DEF b
  <2> QED
    BY <1>1, <2>1, <2>2, BegunEffect DEF b
<1>3. PICK p \in Packets : Head(t.inbox) = WithIds("send", {p})
  BY <1>2
<1> DEFINE m == WithIds(IF t.child.open THEN "sent" ELSE "notSent", {p})
           u == [b EXCEPT !.child = Holding(t.child, {p}), !.outbox = Append(b.outbox, m)]
<1>4. thread' = [thread EXCEPT ![n] = u]
  <2>1. Head(t.inbox).ids = {p}
    BY <1>3 DEF WithIds
  <2>2. u = [b EXCEPT !.child = Holding(t.child, {p}), !.outbox = Append(@, m)]
    BY <1>2 DEF Thread
  <2> QED
    BY <2>1, <2>2 DEF TakeSend, ThreadBecomes
<1>5. m \in Reports /\ m # DisconnectReport /\ m # Message("disconnected")
  BY MessagesDiffer DEF Reports
<1>6. /\ \A q \in Packets : m \in {WithIds("sent", {q}), WithIds("notSent", {q})} <=> q = p
      /\ \A q \in Packets : Head(t.inbox) = WithIds("send", {q}) <=> q = p
  <2>1. \A q \in Packets : {q} = {p} <=> q = p
    OBVIOUS
  <2> QED
    BY <1>3, <2>1, MessagesDiffer
<1>7. t.child \in Condition /\ b.outbox \in Seq(Reports) /\ b.child \in Condition
  BY <1>2 DEF ThreadsInv, Thread
<1>8. /\ Holding(t.child, {p}) \in Condition
      /\ Holding(t.child, {p}).restarting = b.child.restarting
      /\ Holding(t.child, {p}).closing = b.child.closing
  <2>1. {p} \in SUBSET Packets
    OBVIOUS
  <2>2. Holding(t.child, {p}) \in Condition
    BY <1>7, <2>1, ConditionTypes
  <2>3. /\ Holding(t.child, {p}).restarting = t.child.restarting
        /\ Holding(t.child, {p}).closing = t.child.closing
    BY <1>7, ConditionCounts
  <2> QED
    BY <1>2, <2>2, <2>3
<1>9. Append(b.outbox, m) \in Seq(Reports)
  BY <1>5, <1>7, AppendProperties
<1> HIDE DEF b, m
<1>10. /\ u \in Thread /\ u.child = Holding(t.child, {p}) /\ u.outbox = Append(b.outbox, m)
       /\ u.inbox = b.inbox /\ u.waits = b.waits /\ u.life = b.life /\ u.dump = b.dump
       /\ u.session = b.session
  BY <1>2, <1>8, <1>9 DEF Thread
<1> HIDE DEF u
<1>11. /\ ThreadInv(u)
       /\ Unfinished(u) = Unfinished(b)
       /\ \A q \in Packets :
             Handovers(u, q) = IF m \in {WithIds("sent", {q}), WithIds("notSent", {q})}
                               THEN Handovers(b, q) + 1 ELSE Handovers(b, q)
  BY <1>2, <1>5, <1>8, <1>10, ReportStep
<1>12. \A q \in Packets : Handovers(u, q) = Handovers(t, q)
  <2> TAKE q \in Packets
  <2>1. Handovers(t, q) \in Nat
    BY CountsOfThread DEF ThreadsInv
  <2>2. CASE q = p
    <3>1. Handovers(u, q) = Handovers(b, q) + 1
      BY <1>6, <1>11, <2>2
    <3>2. Handovers(b, q) = Handovers(t, q) - 1
      BY <1>2, <1>6, <2>2
    <3> QED
      BY <2>1, <3>1, <3>2
  <2>3. CASE q # p
    BY <1>2, <1>6, <1>11, <2>3
  <2> QED
    BY <2>2, <2>3
<1>13. Handovers(t, p) > 0
  <2>1. Handovers(t, p) \in Nat /\ Handovers(b, p) \in Nat
    BY <1>2, CountsOfThread DEF ThreadsInv
  <2>2. Handovers(b, p) = Handovers(t, p) - 1
    BY <1>2, <1>3
  <2> QED
    BY <2>1, <2>2
<1>14. /\ thread'[n] = u /\ \A k \in Threads \ {n} : thread'[k] = thread[k]
       /\ ThreadsInv'
  BY <1>4, <1>11, OneThreadChanges
<1>15. Runs(n)
  BY <1>1 DEF NextCall
<1> QED
  BY <1>2, <1>3, <1>10, <1>11, <1>12, <1>13, <1>14, <1>15 DEF RunsOn, m

\* The parent's answer, in the thread: a restart goes on, or a disconnect is over.
LEMMA AnswerEffect ==
    ASSUME ThreadsInv, NEW n \in Threads, TakeAnswer(n)
    PROVE  LET t == thread[n]
               u == thread'[n]
           IN  /\ RunsOn(n) /\ Unfinished(u) = Unfinished(t)
               /\ \A p \in Packets : Handovers(u, p) = Handovers(t, p)
               /\ t.inbox # <<>> /\ Head(t.inbox) = Message("answer")
               /\ t.waits # <<>> /\ Head(t.waits) \in Waits
               /\ u.inbox = Tail(t.inbox) /\ u.waits = Tail(t.waits) /\ u.session = t.session
               /\ Head(t.waits) = "restart" =>
                     u.child = Resumed(t.child) /\ u.outbox = t.outbox /\ u.dump = 0
               /\ Head(t.waits) # "restart" =>
                     /\ u.child = t.child /\ u.dump = t.dump
                     /\ u.outbox = Append(t.outbox, Message("disconnected"))
<1> DEFINE t == thread[n]
           b == Begun(n)
           rest == [b EXCEPT !.waits = Tail(t.waits)]
           going == [b EXCEPT !.waits = Tail(t.waits), !.child = Resumed(t.child), !.dump = 0]
           over == [rest EXCEPT !.outbox = Append(t.outbox, Message("disconnected"))]
<1>1. NextCall(n, "answer") /\ Runs(n) /\ t \in Thread /\ ThreadInv(t)
  BY DEF TakeAnswer, NextCall, ThreadsInv, ThreadInv
<1>2. /\ t.inbox # <<>> /\ Head(t.inbox) = Message("answer")
      /\ b \in Thread /\ b.inbox = Tail(t.inbox) /\ b.outbox = t.outbox
      /\ b.waits = t.waits /\ b.child = t.child /\ b.life = "running"
      /\ b.dump = t.dump /\ b.session = t.session
  BY <1>1, BegunEffect
<1>3. t.waits # <<>> /\ Head(t.waits) \in Waits
  BY <1>1, <1>2, AnswerIsAwaited
<1>4. /\ t.child \in Condition /\ t.waits \in Seq(Waits) /\ t.outbox \in Seq(Reports)
      /\ Tail(t.waits) \in Seq(Waits) /\ Message("disconnected") \in Reports
      /\ Append(t.outbox, Message("disconnected")) \in Seq(Reports)
  <2>1. t.child \in Condition /\ t.waits \in Seq(Waits) /\ t.outbox \in Seq(Reports)
    BY <1>1 DEF Thread
  <2>2. Message("disconnected") \in Reports
    BY DEF Reports
  <2> QED
    BY <1>3, <2>1, <2>2, HeadTailProperties, AppendProperties
<1>5. thread' = [thread EXCEPT ![n] = IF Head(t.waits) = "restart" THEN going ELSE over]
  <2>1. thread' = [thread EXCEPT ![n] =
                     IF Head(b.waits) = "restart"
                     THEN [[b EXCEPT !.waits = Tail(b.waits)] EXCEPT
                              !.child = Resumed(@), !.dump = 0]
                     ELSE [[b EXCEPT !.waits = Tail(b.waits)] EXCEPT
                              !.outbox = Append(@, Message("disconnected"))]]
    BY DEF TakeAnswer, ThreadBecomes
  <2>2. [[b EXCEPT !.waits = Tail(b.waits)] EXCEPT !.child = Resumed(@), !.dump = 0] = going
    BY <1>2 DEF Thread
  <2>3. [[b EXCEPT !.waits = Tail(b.waits)] EXCEPT
            !.outbox = Append(@, Message("disconnected"))] = over
    BY <1>2 DEF Thread
  <2> QED
    BY <1>2, <2>1, <2>2, <2>3
<1> HIDE DEF b
<1>6. CASE Head(t.waits) = "restart"
  <2>1. /\ Resumed(t.child) \in Condition
        /\ Resumed(t.child).restarting = t.child.restarting - 1
        /\ Resumed(t.child).closing = t.child.closing
    BY <1>4, ConditionTypes, ConditionCounts
  <2>2. /\ going \in Thread /\ going.inbox = Tail(t.inbox) /\ going.outbox = t.outbox
        /\ going.waits = Tail(t.waits) /\ going.child = Resumed(t.child)
        /\ going.dump = 0 /\ going.session = t.session /\ going.life = "running"
    <3>1. b \in Thread /\ Tail(t.waits) \in Seq(Waits) /\ Resumed(t.child) \in Condition
      BY <1>2, <1>4, <2>1
    <3>2. going \in Thread
      <4>1. rest \in Thread /\ rest.child = b.child
        BY <3>1 DEF Thread
      <4>2. going = [rest EXCEPT !.child = Resumed(t.child), !.dump = 0]
        BY <3>1 DEF Thread
      <4>3. 0 \in 0 .. 2
        OBVIOUS
      <4> HIDE DEF rest, going
      <4> QED
        BY <3>1, <4>1, <4>2, <4>3 DEF Thread
    <3>3. /\ going.inbox = b.inbox /\ going.outbox = b.outbox
          /\ going.waits = Tail(t.waits) /\ going.child = Resumed(t.child)
          /\ going.dump = 0 /\ going.session = b.session /\ going.life = b.life
      BY <3>1 DEF Thread
    <3> QED
      BY <1>2, <3>2, <3>3
  <2> HIDE DEF going
  <2>3. TakesAnswer(t, going)
    BY <1>6, <2>1, <2>2 DEF TakesAnswer
  <2>4. /\ ThreadInv(going) /\ Unfinished(going) = Unfinished(t)
        /\ \A p \in Packets : Handovers(going, p) = Handovers(t, p)
    BY <1>1, <1>2, <1>6, <2>2, <2>3, AnswerTakenStep
  <2>5. thread' = [thread EXCEPT ![n] = going]
    BY <1>5, <1>6
  <2>6. /\ thread'[n] = going /\ \A k \in Threads \ {n} : thread'[k] = thread[k]
        /\ ThreadsInv'
    BY <2>4, <2>5, OneThreadChanges
  <2> QED
    BY <1>1, <1>2, <1>3, <1>6, <2>2, <2>4, <2>6 DEF RunsOn
<1>7. CASE Head(t.waits) # "restart"
  <2>1. /\ rest \in Thread /\ rest.inbox = Tail(t.inbox) /\ rest.outbox = t.outbox
        /\ rest.waits = Tail(t.waits) /\ rest.child = t.child
        /\ rest.dump = t.dump /\ rest.session = t.session /\ rest.life = "running"
    BY <1>2, <1>4 DEF Thread
  <2> HIDE DEF rest
  <2>2. TakesAnswer(t, rest)
    BY <1>7, <2>1 DEF TakesAnswer
  <2>3. Head(t.waits) = "disconnect"
    BY <1>3, <1>7 DEF Waits
  <2>4. /\ ThreadInv(rest) /\ Unfinished(rest) = Unfinished(t) - 1
        /\ \A p \in Packets : Handovers(rest, p) = Handovers(t, p)
    BY <1>1, <1>2, <2>1, <2>2, <2>3, AnswerTakenStep
  <2>5. /\ over \in Thread /\ over.inbox = rest.inbox
        /\ over.outbox = Append(rest.outbox, Message("disconnected"))
        /\ over.waits = rest.waits /\ over.child = rest.child
        /\ over.dump = rest.dump /\ over.session = rest.session /\ over.life = rest.life
    BY <1>4, <2>1 DEF Thread
  <2> HIDE DEF over
  <2>6. Message("disconnected") # DisconnectReport
    BY MessagesDiffer
  <2>7. \A p \in Packets :
           Message("disconnected") \notin {WithIds("sent", {p}), WithIds("notSent", {p})}
    BY MessagesDiffer
  <2>8. /\ ThreadInv(over) /\ Unfinished(over) = Unfinished(rest) + 1
        /\ \A p \in Packets : Handovers(over, p) = Handovers(rest, p)
    <3>1. /\ ThreadInv(over)
          /\ Unfinished(over) = IF Message("disconnected") = Message("disconnected")
                                THEN Unfinished(rest) + 1 ELSE Unfinished(rest)
          /\ \A p \in Packets :
                Handovers(over, p) =
                   IF Message("disconnected") \in {WithIds("sent", {p}), WithIds("notSent", {p})}
                   THEN Handovers(rest, p) + 1 ELSE Handovers(rest, p)
      BY <1>4, <2>4, <2>5, <2>6, ReportStep
    <3> QED
      BY <2>7, <3>1
  <2>9. Unfinished(over) = Unfinished(t)
    <3>1. Unfinished(t) \in Int
      BY <1>1, CountsOfThread
    <3> QED
      BY <2>4, <2>8, <3>1
  <2>10. thread' = [thread EXCEPT ![n] = over]
    BY <1>5, <1>7
  <2>11. /\ thread'[n] = over /\ \A k \in Threads \ {n} : thread'[k] = thread[k]
         /\ ThreadsInv'
    BY <2>8, <2>10, OneThreadChanges
  <2> QED
    BY <1>1, <1>2, <1>3, <1>7, <2>1, <2>4, <2>5, <2>8, <2>9, <2>11 DEF RunsOn
<1> QED
  BY <1>6, <1>7

\* Thread n becomes u.
LEMMA ThreadBecomesEffect ==
    ASSUME ThreadsInv, NEW n \in Threads, Runs(n), NEW u, ThreadInv(u), u.life = "running",
           ThreadBecomes(n, u)
    PROVE  RunsOn(n) /\ thread'[n] = u
<1>1. thread' = [thread EXCEPT ![n] = u]
  BY DEF ThreadBecomes
<1>2. /\ thread'[n] = u /\ \A k \in Threads \ {n} : thread'[k] = thread[k]
      /\ ThreadsInv'
  BY <1>1, OneThreadChanges
<1> QED
  BY <1>2 DEF RunsOn

\* The close callback, in the thread.
LEMMA CloseEffect ==
    ASSUME ThreadsInv, NEW n \in Threads, CloseSocket(n)
    PROVE  LET t == thread[n]
               u == thread'[n]
           IN  /\ RunsOn(n) /\ Unfinished(u) = Unfinished(t)
               /\ \A p \in Packets : Handovers(u, p) = Handovers(t, p)
               /\ t.child.closing > 0 /\ u.inbox = t.inbox /\ u.child = ClosedDown(t.child)
               /\ u.dump = t.dump /\ u.session = t.session
               /\ u.outbox = Append(t.outbox, DisconnectReport)
               /\ u.waits = Append(t.waits, "disconnect")
<1> DEFINE t == thread[n]
           u == Child(t, ClosedDown(t.child), <<DisconnectReport>>, "disconnect")
<1>1. Runs(n) /\ t.child.closing > 0 /\ ThreadBecomes(n, u)
  BY DEF CloseSocket
<1>2. /\ ThreadInv(t) /\ t.life = "running"
  BY <1>1 DEF ThreadsInv, ThreadInv, Runs
<1>3. /\ ThreadInv(u) /\ Unfinished(u) = Unfinished(t)
      /\ \A p \in Packets : Handovers(u, p) = Handovers(t, p)
      /\ u.life = t.life /\ u.inbox = t.inbox /\ u.dump = t.dump
      /\ u.session = t.session /\ u.child = ClosedDown(t.child)
      /\ u.outbox = Append(t.outbox, DisconnectReport)
      /\ u.waits = Append(t.waits, "disconnect")
  BY <1>2, ClosingStep
<1> HIDE DEF u
<1>4. RunsOn(n) /\ thread'[n] = u
  BY <1>1, <1>2, <1>3, ThreadBecomesEffect
<1> QED
  BY <1>1, <1>3, <1>4

\* A restart without a call of the parent: the reconnect timer, or a session lost.
LEMMA RestartEffect ==
    ASSUME ThreadsInv, NEW n \in Threads, Runs(n), ThreadBecomes(n, RestartIn(thread[n]))
    PROVE  LET t == thread[n]
               u == thread'[n]
           IN  /\ RunsOn(n) /\ Unfinished(u) = Unfinished(t)
               /\ \A p \in Packets : Handovers(u, p) = Handovers(t, p)
               /\ u.inbox = t.inbox /\ u.child = Restarted(t.child)
               /\ u.dump = 0 /\ u.session = t.session
               /\ t.child.state = "Established" =>
                     /\ u.outbox = Append(t.outbox, DisconnectReport)
                     /\ u.waits = Append(t.waits, "restart")
               /\ t.child.state # "Established" => u.outbox = t.outbox /\ u.waits = t.waits
<1> DEFINE t == thread[n]
           u == RestartIn(t)
<1>1. ThreadInv(t) /\ t.life = "running"
  BY DEF ThreadsInv, ThreadInv, Runs
<1>2. /\ ThreadInv(u) /\ Unfinished(u) = Unfinished(t)
      /\ \A p \in Packets : Handovers(u, p) = Handovers(t, p)
      /\ u.life = t.life /\ u.inbox = t.inbox /\ u.dump = 0 /\ u.session = t.session
      /\ u.child = Restarted(t.child)
      /\ t.child.state = "Established" =>
            /\ u.outbox = Append(t.outbox, DisconnectReport)
            /\ u.waits = Append(t.waits, "restart")
      /\ t.child.state # "Established" => u.outbox = t.outbox /\ u.waits = t.waits
  BY <1>1, RestartStep
<1>3. ThreadBecomes(n, u)
  OBVIOUS
<1> HIDE DEF u
<1>4. RunsOn(n) /\ thread'[n] = u
  BY <1>1, <1>2, <1>3, ThreadBecomesEffect
<1> QED
  BY <1>2, <1>4

\* A session starts.
LEMMA StartEffect ==
    ASSUME ThreadsInv, sessions \in Nat, NEW n \in Threads, StartSession(n)
    PROVE  LET t == thread[n]
               u == thread'[n]
           IN  /\ RunsOn(n) /\ Unfinished(u) = Unfinished(t)
               /\ \A p \in Packets : Handovers(u, p) = Handovers(t, p)
               /\ t.child.open /\ t.child.state = "SynSent"
               /\ u.inbox = t.inbox /\ u.outbox = t.outbox /\ u.waits = t.waits
               /\ u.child = InSession(t.child) /\ u.dump = 0 /\ u.session = sessions'
<1> DEFINE t == thread[n]
           u == [t EXCEPT !.child = InSession(t.child), !.dump = 0, !.session = sessions']
<1>1. /\ Runs(n) /\ t.child.open /\ t.child.state = "SynSent" /\ sessions' \in Nat
      /\ ThreadInv(t) /\ t \in Thread /\ t.life = "running"
  BY DEF ThreadsInv, ThreadInv, Runs, StartSession
<1>2. ThreadBecomes(n, u)
  <2>1. u = [t EXCEPT !.child = InSession(@), !.dump = 0, !.session = sessions']
    BY <1>1 DEF Thread
  <2> QED
    BY <2>1 DEF StartSession
<1>3. /\ t.child \in Condition /\ InSession(t.child) \in Condition
      /\ InSession(t.child).restarting = t.child.restarting
      /\ InSession(t.child).closing = t.child.closing
  <2>1. t.child \in Condition
    BY <1>1 DEF Thread
  <2> QED
    BY <2>1, ConditionTypes, ConditionCounts
<1>4. u \in Thread
  <2>1. 0 \in 0 .. 2
    OBVIOUS
  <2> QED
    BY <1>1, <1>3, <2>1 DEF Thread
<1>5. /\ u.inbox = t.inbox /\ u.outbox = t.outbox /\ u.waits = t.waits
      /\ u.child = InSession(t.child) /\ u.dump = 0 /\ u.session = sessions'
      /\ u.life = t.life
  BY <1>1 DEF Thread
<1> HIDE DEF u
<1>6. /\ ThreadInv(u) /\ Unfinished(u) = Unfinished(t)
      /\ \A p \in Packets : Handovers(u, p) = Handovers(t, p)
  BY <1>1, <1>3, <1>4, <1>5, QuietStep
<1>7. RunsOn(n) /\ thread'[n] = u
  BY <1>1, <1>2, <1>5, <1>6, ThreadBecomesEffect
<1> QED
  BY <1>1, <1>5, <1>6, <1>7

\* The device delivers a batch of its state.
LEMMA DeliverEffect ==
    ASSUME ThreadsInv, NEW n \in Threads, Deliver(n)
    PROVE  LET t == thread[n]
               u == thread'[n]
           IN  /\ RunsOn(n) /\ Unfinished(u) = Unfinished(t)
               /\ \A p \in Packets : Handovers(u, p) = Handovers(t, p)
               /\ t.child.open /\ t.child.state = "Established"
               /\ u.inbox = t.inbox /\ u.waits = t.waits /\ u.child = t.child
               /\ u.session = t.session
               /\ \E batch \in DumpBatch(t.dump) :
                     /\ u.dump = IF "init" \in batch THEN 2 ELSE 1
                     /\ u.outbox = Append(t.outbox, [type |-> "commands", batch |-> batch,
                                                     session |-> t.session])
<1> DEFINE t == thread[n]
<1>1. /\ Runs(n) /\ t.child.open /\ t.child.state = "Established"
      /\ ThreadInv(t) /\ t \in Thread /\ t.life = "running"
  BY DEF ThreadsInv, ThreadInv, Runs, Deliver, InSessionAt
<1>2. PICK batch \in DumpBatch(t.dump) :
        ThreadBecomes(n, [t EXCEPT
              !.dump = IF "init" \in batch THEN 2 ELSE 1,
              !.outbox = Append(@, [type |-> "commands", batch |-> batch,
                                    session |-> t.session])])
  BY DEF Deliver
<1> DEFINE m == [type |-> "commands", batch |-> batch, session |-> t.session]
           dump == IF "init" \in batch THEN 2 ELSE 1
           u == [t EXCEPT !.dump = dump, !.outbox = Append(t.outbox, m)]
<1>3. ThreadBecomes(n, u)
  <2>1. u = [t EXCEPT !.dump = IF "init" \in batch THEN 2 ELSE 1,
                      !.outbox = Append(@, [type |-> "commands", batch |-> batch,
                                            session |-> t.session])]
    BY <1>1 DEF Thread
  <2> QED
    BY <1>2, <2>1
<1>4. batch \in Batch
  BY <1>2 DEF DumpBatch, Batch
<1>5. m \in [type : {"commands"}, batch : Batch, session : Nat] /\ dump \in 0 .. 2
  BY <1>1, <1>4 DEF Thread
<1>6. /\ m \in Reports /\ m # DisconnectReport /\ m # Message("disconnected")
      /\ \A p \in Packets : m \notin {WithIds("sent", {p}), WithIds("notSent", {p})}
  BY <1>5, MessagesDiffer DEF Reports
<1> HIDE DEF m, dump
<1>7. Append(t.outbox, m) \in Seq(Reports)
  BY <1>1, <1>6, AppendProperties DEF Thread
<1>8. /\ u \in Thread /\ u.inbox = t.inbox /\ u.waits = t.waits /\ u.child = t.child
      /\ u.session = t.session /\ u.dump = dump /\ u.outbox = Append(t.outbox, m)
      /\ u.life = t.life
  BY <1>1, <1>5, <1>7 DEF Thread
<1> HIDE DEF u
<1>9. /\ ThreadInv(u) /\ Unfinished(u) = Unfinished(t)
      /\ \A p \in Packets : Handovers(u, p) = Handovers(t, p)
  <2>1. /\ ThreadInv(u)
        /\ Unfinished(u) = IF m = Message("disconnected") THEN Unfinished(t) + 1
                           ELSE Unfinished(t)
        /\ \A p \in Packets :
              Handovers(u, p) = IF m \in {WithIds("sent", {p}), WithIds("notSent", {p})}
                                THEN Handovers(t, p) + 1 ELSE Handovers(t, p)
    BY <1>1, <1>6, <1>8, ReportStep
  <2> QED
    BY <1>6, <2>1
<1>10. RunsOn(n) /\ thread'[n] = u
  BY <1>1, <1>3, <1>8, <1>9, ThreadBecomesEffect
<1> QED
  BY <1>1, <1>2, <1>8, <1>9, <1>10 DEF m, dump

\* The device acknowledges the packets in flight up to one of them.
LEMMA AcknowledgeEffect ==
    ASSUME ThreadsInv, NEW n \in Threads, Acknowledge(n)
    PROVE  LET t == thread[n]
               u == thread'[n]
           IN  /\ RunsOn(n) /\ Unfinished(u) = Unfinished(t)
               /\ \A p \in Packets : Handovers(u, p) = Handovers(t, p)
               /\ t.child.open /\ t.child.state = "Established"
               /\ u.inbox = t.inbox /\ u.waits = t.waits
               /\ u.dump = t.dump /\ u.session = t.session
               /\ \E ids \in SUBSET t.child.inFlight :
                     /\ u.child = Relieved(t.child, ids) /\ ids \in SUBSET Packets
                     /\ u.outbox = Append(t.outbox, WithIds("acknowledged", ids))
                     /\ accepted' = accepted \union ids
<1> DEFINE t == thread[n]
<1>1. /\ Runs(n) /\ t.child.open /\ t.child.state = "Established"
      /\ ThreadInv(t) /\ t \in Thread /\ t.life = "running"
  BY DEF ThreadsInv, ThreadInv, Runs, Acknowledge, InSessionAt
<1>2. PICK last \in t.child.inFlight :
        LET ids == {p \in t.child.inFlight : p <= last}
        IN  /\ ids \intersect stray = {}
            /\ accepted' = accepted \union ids
            /\ ThreadBecomes(n, [t EXCEPT
                   !.child = Relieved(@, ids),
                   !.outbox = Append(@, WithIds("acknowledged", ids))])
  BY DEF Acknowledge
<1> DEFINE ids == {p \in t.child.inFlight : p <= last}
           m == WithIds("acknowledged", ids)
           u == [t EXCEPT !.child = Relieved(t.child, ids), !.outbox = Append(t.outbox, m)]
<1>3. ThreadBecomes(n, u) /\ accepted' = accepted \union ids
  <2>1. u = [t EXCEPT !.child = Relieved(@, ids),
                      !.outbox = Append(@, WithIds("acknowledged", ids))]
    BY <1>1 DEF Thread
  <2> QED
    BY <1>2, <2>1
<1>4. t.child \in Condition /\ ids \in SUBSET t.child.inFlight /\ ids \in SUBSET Packets
  BY <1>1 DEF Thread, Condition
<1> HIDE DEF ids
<1>5. /\ m \in Reports /\ m # DisconnectReport /\ m # Message("disconnected")
      /\ \A p \in Packets : m \notin {WithIds("sent", {p}), WithIds("notSent", {p})}
  <2>1. m \in Reports
    BY <1>4 DEF Reports
  <2>2. "acknowledged" # "sent" /\ "acknowledged" # "notSent"
    OBVIOUS
  <2> QED
    BY <2>1, <2>2, MessagesDiffer
<1>6. /\ Relieved(t.child, ids) \in Condition
      /\ Relieved(t.child, ids).restarting = t.child.restarting
      /\ Relieved(t.child, ids).closing = t.child.closing
  <2>1. Relieved(t.child, ids) \in Condition
    BY <1>4, ConditionTypes
  <2> QED
    BY <1>4, <2>1, ConditionCounts
<1> HIDE DEF m
<1>7. Append(t.outbox, m) \in Seq(Reports)
  BY <1>1, <1>5, AppendProperties DEF Thread
<1>8. /\ u \in Thread /\ u.inbox = t.inbox /\ u.waits = t.waits
      /\ u.child = Relieved(t.child, ids)
      /\ u.session = t.session /\ u.dump = t.dump /\ u.outbox = Append(t.outbox, m)
      /\ u.life = t.life
  BY <1>1, <1>6, <1>7 DEF Thread
<1> HIDE DEF u
<1>9. /\ ThreadInv(u) /\ Unfinished(u) = Unfinished(t)
      /\ \A p \in Packets : Handovers(u, p) = Handovers(t, p)
  <2>1. /\ ThreadInv(u)
        /\ Unfinished(u) = IF m = Message("disconnected") THEN Unfinished(t) + 1
                           ELSE Unfinished(t)
        /\ \A p \in Packets :
              Handovers(u, p) = IF m \in {WithIds("sent", {p}), WithIds("notSent", {p})}
                                THEN Handovers(t, p) + 1 ELSE Handovers(t, p)
    BY <1>1, <1>5, <1>6, <1>8, ReportStep
  <2> QED
    BY <1>5, <2>1
<1>10. RunsOn(n) /\ thread'[n] = u
  BY <1>1, <1>3, <1>8, <1>9, ThreadBecomesEffect
<1> QED
  BY <1>1, <1>3, <1>4, <1>8, <1>9, <1>10 DEF m

\* A thread that holds nothing.
LEMMA EmptyThread ==
    ASSUME NEW life \in Life
    PROVE  LET u == [NoThread EXCEPT !.life = life]
           IN  /\ ThreadInv(u) /\ Unfinished(u) = 0 /\ \A p \in Packets : Handovers(u, p) = 0
               /\ u.life = life /\ u.child = Fresh
               /\ u.waits = <<>> /\ u.inbox = <<>> /\ u.outbox = <<>>
<1> DEFINE u == [NoThread EXCEPT !.life = life]
<1>1. Fresh \in Condition /\ Fresh.restarting = 0 /\ Fresh.closing = 0
  BY DEF Fresh, Condition, ConnectionState
<1>2. /\ u.life = life /\ u.child = Fresh /\ u.dump = 0 /\ u.session = 0
      /\ u.waits = <<>> /\ u.inbox = <<>> /\ u.outbox = <<>>
      /\ u = [life |-> life, child |-> Fresh, dump |-> 0, session |-> 0,
              waits |-> <<>>, inbox |-> <<>>, outbox |-> <<>>]
  BY DEF NoThread
<1>3. u \in Thread
  <2>1. /\ <<>> \in Seq(Waits) /\ <<>> \in Seq(Calls) /\ <<>> \in Seq(Reports)
        /\ 0 \in 0 .. 2 /\ 0 \in Nat
    OBVIOUS
  <2> QED
    BY <1>1, <1>2, <2>1 DEF Thread
<1> HIDE DEF u
<1>4. Orderly(u)
  <2>1. Len(u.waits) = 0
    BY <1>2
  <2> QED
    BY <1>1, <1>2, <2>1, CountOfEmpty DEF Orderly
<1>5. Unfinished(u) = 0
  BY <1>1, <1>2, CountOfEmpty DEF Unfinished
<1>6. \A p \in Packets : Handovers(u, p) = 0
  BY <1>2, CountOfEmpty DEF Handovers
<1> QED
  BY <1>2, <1>3, <1>4, <1>5, <1>6 DEF ThreadInv, u

\* A thread begins or ends, as it is.
LEMMA LifeStep ==
    ASSUME NEW t, ThreadInv(t), NEW life \in Life
    PROVE  LET u == [t EXCEPT !.life = life]
           IN  /\ ThreadInv(u) /\ Unfinished(u) = Unfinished(t)
               /\ \A p \in Packets : Handovers(u, p) = Handovers(t, p)
               /\ u.life = life /\ u.child = t.child
               /\ u.waits = t.waits /\ u.inbox = t.inbox /\ u.outbox = t.outbox
<1> DEFINE u == [t EXCEPT !.life = life]
<1>1. /\ u \in Thread /\ u.life = life /\ u.child = t.child
      /\ u.waits = t.waits /\ u.inbox = t.inbox /\ u.outbox = t.outbox
  BY DEF ThreadInv, Thread
<1> HIDE DEF u
<1>2. /\ ThreadInv(u) /\ Unfinished(u) = Unfinished(t)
      /\ \A p \in Packets : Handovers(u, p) = Handovers(t, p)
  BY <1>1, QuietStep
<1> QED
  BY <1>1, <1>2 DEF u

\* A thread is asked for, and comes.
LEMMA CreatedEffect ==
    ASSUME ThreadsInv, NEW n \in Threads, ThreadCreated(n)
    PROVE  /\ ThreadsInv' /\ thread'[n].life = "running"
           /\ \A m \in Threads \ {n} : thread'[m] = thread[m]
           /\ thread'[n].child = thread[n].child /\ thread'[n].outbox = thread[n].outbox
           /\ thread'[n].waits = thread[n].waits
           /\ Unfinished(thread'[n]) = Unfinished(thread[n])
           /\ \A p \in Packets : Handovers(thread'[n], p) = Handovers(thread[n], p)
           /\ thread'[n].inbox = IF isDisconnecting THEN thread[n].inbox
                                 ELSE Append(thread[n].inbox, Message("connect"))
<1> DEFINE t == thread[n]
           b == [t EXCEPT !.life = "running"]
           c == Posting(b, Message("connect"))
           u == IF isDisconnecting THEN b ELSE c
<1>1. ThreadInv(t) /\ "running" \in Life
  BY DEF ThreadsInv, ThreadInv, Life
<1>2. /\ ThreadInv(b) /\ Unfinished(b) = Unfinished(t)
      /\ \A p \in Packets : Handovers(b, p) = Handovers(t, p)
      /\ b.life = "running" /\ b.child = t.child
      /\ b.waits = t.waits /\ b.inbox = t.inbox /\ b.outbox = t.outbox
  BY <1>1, LifeStep
<1>3. thread' = [thread EXCEPT ![n] = u]
  BY DEF ThreadCreated, ConnectUnlessDisconnecting
<1> HIDE DEF b
<1>4. /\ ThreadInv(c) /\ Unfinished(c) = Unfinished(b)
      /\ \A p \in Packets : Handovers(c, p) = Handovers(b, p)
      /\ c.life = b.life /\ c.child = b.child /\ c.outbox = b.outbox
  <2>1. /\ Message("connect") \in Calls /\ Message("connect") # Message("answer")
        /\ Message("connect") # Message("disconnect")
        /\ \A p \in Packets : Message("connect") # WithIds("send", {p})
    BY MessagesDiffer DEF Calls
  <2> QED
    BY <1>2, <2>1, PostingStep
<1>5. c.waits = b.waits /\ c.inbox = Append(b.inbox, Message("connect"))
  BY <1>2 DEF ThreadInv, Thread, Posting
<1> HIDE DEF c
<1>6. ThreadInv(u)
  BY <1>2, <1>4
<1> HIDE DEF u
<1>7. /\ thread'[n] = u /\ \A k \in Threads \ {n} : thread'[k] = thread[k]
      /\ ThreadsInv'
  BY <1>3, <1>6, OneThreadChanges
<1> QED
  BY <1>2, <1>4, <1>5, <1>7 DEF u

\* The thread of a call has its inbox and outbox; nobody waits for something new.
LEMMA CallQueues ==
    ASSUME ThreadsInv, NEW n \in Threads, NEW m, Call(n, m), Runs(n)
    PROVE  /\ thread'[n].inbox = Append(thread[n].inbox, m)
           /\ thread'[n].outbox = thread[n].outbox /\ thread'[n].waits = thread[n].waits
           /\ thread'[n].child = thread[n].child /\ thread'[n].dump = thread[n].dump
           /\ thread'[n].session = thread[n].session /\ thread'[n].life = thread[n].life
  BY DEF Call, ThreadsInv, Thread, Posting

\* A thread that holds nothing takes the place of another.
LEMMA EmptiedEffect ==
    ASSUME ThreadsInv, NEW n \in Threads, NEW life \in Life,
           thread' = [thread EXCEPT ![n] = [NoThread EXCEPT !.life = life]]
    PROVE  /\ ThreadsInv' /\ thread'[n] = [NoThread EXCEPT !.life = life]
           /\ thread'[n].life = life
           /\ \A m \in Threads \ {n} : thread'[m] = thread[m]
<1> DEFINE u == [NoThread EXCEPT !.life = life]
<1>1. ThreadInv(u) /\ u.life = life
  BY EmptyThread
<1>2. thread' = [thread EXCEPT ![n] = u]
  OBVIOUS
<1> HIDE DEF u
<1>3. /\ thread'[n] = u /\ \A k \in Threads \ {n} : thread'[k] = thread[k]
      /\ ThreadsInv'
  BY <1>1, <1>2, OneThreadChanges
<1> QED
  BY <1>1, <1>3 DEF u

\* A thread that was made again connects.
LEMMA AgainEffect ==
    ASSUME ThreadsInv, NEW n \in Threads,
           thread' = [thread EXCEPT ![n] = AgainConnecting(n)]
    PROVE  LET u == thread'[n]
           IN  /\ ThreadsInv' /\ u.life = "running" /\ Unfinished(u) = 0
               /\ \A p \in Packets : Handovers(u, p) = 0
               /\ u.child = Fresh /\ u.outbox = <<>> /\ u.waits = <<>>
               /\ u.inbox = <<Message("connect")>>
               /\ \A m \in Threads \ {n} : thread'[m] = thread[m]
<1> DEFINE b == [NoThread EXCEPT !.life = "running"]
           u == Posting(b, Message("connect"))
<1>1. "running" \in Life
  BY DEF Life
<1>2. /\ ThreadInv(b) /\ Unfinished(b) = 0 /\ \A p \in Packets : Handovers(b, p) = 0
      /\ b.life = "running" /\ b.child = Fresh
      /\ b.waits = <<>> /\ b.inbox = <<>> /\ b.outbox = <<>>
  BY <1>1, EmptyThread
<1>3. /\ Message("connect") \in Calls /\ Message("connect") # Message("answer")
      /\ Message("connect") # Message("disconnect")
      /\ \A p \in Packets : Message("connect") # WithIds("send", {p})
  BY MessagesDiffer DEF Calls
<1>4. thread' = [thread EXCEPT ![n] = u]
  BY DEF AgainConnecting
<1> HIDE DEF b
<1>5. /\ ThreadInv(u) /\ Unfinished(u) = Unfinished(b)
      /\ \A p \in Packets : Handovers(u, p) = Handovers(b, p)
      /\ u.life = b.life /\ u.child = b.child /\ u.outbox = b.outbox
  BY <1>2, <1>3, PostingStep
<1>6. u.waits = b.waits /\ u.inbox = Append(b.inbox, Message("connect"))
  BY <1>2 DEF ThreadInv, Thread, Posting
<1>7. Append(<<>>, Message("connect")) = <<Message("connect")>>
  OBVIOUS
<1> HIDE DEF u
<1>8. /\ thread'[n] = u /\ \A k \in Threads \ {n} : thread'[k] = thread[k]
      /\ ThreadsInv'
  BY <1>4, <1>5, OneThreadChanges
<1> QED
  BY <1>2, <1>5, <1>6, <1>7, <1>8

\* A thread that works: it goes on, and what it owes the parent stays owed.
Works(n) ==
    /\ RunsOn(n) /\ Unfinished(thread'[n]) = Unfinished(thread[n])
    /\ \A p \in Packets : Handovers(thread'[n], p) = Handovers(thread[n], p)
    /\ thread[n].child.closing >= 0 => thread'[n].child.closing >= 0

\* All that the child and the device do is work of a thread.
LEMMA WorkEffect ==
    ASSUME ThreadsInv, sessions \in Nat, NEW n \in Threads, ChildRuns(n) \/ DeviceStep(n)
    PROVE  Works(n)
<1> DEFINE c == thread[n].child
           d == thread'[n].child
<1>1. c \in Condition /\ c.closing \in Int
  BY DEF ThreadsInv, Thread, Condition
<1> SUFFICES /\ RunsOn(n) /\ Unfinished(thread'[n]) = Unfinished(thread[n])
             /\ \A p \in Packets : Handovers(thread'[n], p) = Handovers(thread[n], p)
             /\ c.closing >= 0 => d.closing >= 0
  BY DEF Works
<1>2. CASE TakeConnect(n)
  BY <1>1, <1>2, ConnectEffect, ConditionCounts
<1>3. CASE TakeDisconnectCall(n)
  <2>1. d = Disconnecting(c)
    BY <1>3, DisconnectEffect
  <2>2. c.closing >= 0 => d.closing >= 0
    BY <1>1, <2>1, ConditionCounts
  <2> QED
    BY <1>3, <2>2, DisconnectEffect
<1>4. CASE TakeSend(n)
  <2>1. \E p \in Packets : d = Holding(c, {p})
    BY <1>4, SendEffect
  <2>2. d.closing = c.closing
    BY <1>1, <2>1, ConditionCounts
  <2> QED
    BY <1>4, <2>2, SendEffect
<1>5. CASE TakeAnswer(n)
  <2>1. d = Resumed(c) \/ d = c
    BY <1>5, AnswerEffect
  <2>2. d.closing = c.closing
    BY <1>1, <2>1, ConditionCounts
  <2> QED
    BY <1>5, <2>2, AnswerEffect
<1>6. CASE CloseSocket(n)
  <2>1. d = ClosedDown(c) /\ c.closing > 0
    BY <1>6, CloseEffect
  <2>2. d.closing >= 0
    BY <1>1, <2>1, ConditionCounts
  <2> QED
    BY <1>6, <2>2, CloseEffect
<1>7. ASSUME Runs(n), ThreadBecomes(n, RestartIn(thread[n]))
      PROVE  /\ RunsOn(n) /\ Unfinished(thread'[n]) = Unfinished(thread[n])
             /\ \A p \in Packets : Handovers(thread'[n], p) = Handovers(thread[n], p)
             /\ c.closing >= 0 => d.closing >= 0
  <2>1. d = Restarted(c)
    BY <1>7, RestartEffect
  <2>2. d.closing = c.closing
    BY <1>1, <2>1, ConditionCounts
  <2> QED
    BY <1>7, <2>2, RestartEffect
<1>8. CASE Redial(n)
  <2>1. Runs(n) /\ ThreadBecomes(n, RestartIn(thread[n]))
    BY <1>8 DEF Redial
  <2> QED
    BY <1>7, <2>1
<1>9. CASE LoseSession(n)
  <2>1. Runs(n) /\ ThreadBecomes(n, RestartIn(thread[n]))
    BY <1>9 DEF LoseSession, InSessionAt
  <2> QED
    BY <1>7, <2>1
<1>10. CASE StartSession(n)
  <2>1. d = InSession(c)
    BY <1>10, StartEffect
  <2>2. d.closing = c.closing
    BY <1>1, <2>1, ConditionCounts
  <2> QED
    BY <1>10, <2>2, StartEffect
<1>11. CASE Deliver(n)
  <2>1. d = c
    BY <1>11, DeliverEffect
  <2> QED
    BY <1>11, <2>1, DeliverEffect
<1>12. CASE Acknowledge(n)
  <2>1. \E ids : d = Relieved(c, ids)
    BY <1>12, AcknowledgeEffect
  <2>2. d.closing = c.closing
    BY <1>1, <2>1, ConditionCounts
  <2> QED
    BY <1>12, <2>2, AcknowledgeEffect
<1> QED
  BY <1>2, <1>3, <1>4, <1>5, <1>6, <1>8, <1>9, <1>10, <1>11, <1>12 DEF ChildRuns, DeviceStep

\* The messages the parent takes, the deaths of threads apart.
TakesMessage(n) ==
    \/ TakeDisconnect(n) \/ TakeCommands(n) \/ TakeAcknowledged(n) \/ TakeSent(n)
    \/ TakeNotSent(n) \/ TakeDisconnected(n)

\* A thread goes on while the parent takes its messages.
LEMMA MessageEffect ==
    ASSUME ThreadsInv, NEW n \in Threads, TakesMessage(n)
    PROVE  /\ RunsOn(n) /\ thread'[n].child = thread[n].child
           /\ thread[n].outbox # <<>> /\ Head(thread[n].outbox) \in Reports
           /\ thread'[n].outbox = Tail(thread[n].outbox)
           /\ Unfinished(thread'[n]) = IF TakeDisconnected(n) THEN Unfinished(thread[n]) - 1
                                       ELSE Unfinished(thread[n])
<1> DEFINE m == Head(thread[n].outbox)
<1>1. CASE TakeDisconnect(n)
  <2>1. /\ Next1(n, "disconnect")
        /\ thread' = [thread EXCEPT ![n] = Posting(Taken(n), Message("answer"))]
    BY <1>1 DEF TakeDisconnect
  <2>2. ~TakeDisconnected(n)
    BY <2>1 DEF TakeDisconnected, Next1
  <2>3. DisconnectReport \in Reports
    BY DEF Reports
  <2> QED
    BY <2>1, <2>2, <2>3, EndTakenEffect
<1>2. ASSUME NEW type, type \in {"commands", "acknowledged", "sent", "notSent"},
             Next1(n, type), thread' = [thread EXCEPT ![n] = Taken(n)]
      PROVE  /\ RunsOn(n) /\ thread'[n].child = thread[n].child
             /\ thread[n].outbox # <<>> /\ m \in Reports
             /\ thread'[n].outbox = Tail(thread[n].outbox)
             /\ Unfinished(thread'[n]) = IF TakeDisconnected(n)
                                         THEN Unfinished(thread[n]) - 1
                                         ELSE Unfinished(thread[n])
  <2>1. ~TakeDisconnected(n) /\ type # "disconnect"
    BY <1>2 DEF TakeDisconnected, Next1
  <2>2. m # Message("disconnected")
    BY <1>2 DEF Next1, Message
  <2> QED
    BY <1>2, <2>1, <2>2, TakenEffect
<1>3. CASE TakeCommands(n)
  BY <1>2, <1>3 DEF TakeCommands
<1>4. CASE TakeAcknowledged(n)
  BY <1>2, <1>4 DEF TakeAcknowledged
<1>5. CASE TakeSent(n)
  BY <1>2, <1>5 DEF TakeSent
<1>6. CASE TakeNotSent(n)
  BY <1>2, <1>6 DEF TakeNotSent
<1>7. CASE TakeDisconnected(n)
  <2>1. /\ Next1(n, "disconnected") /\ thread' = [thread EXCEPT ![n] = Taken(n)]
    BY <1>7 DEF TakeDisconnected
  <2>2. m \in Reports /\ m.type = "disconnected"
    BY <2>1, TakenEffect
  <2>3. m = Message("disconnected")
    BY <2>2 DEF Reports, Message, WithIds, DisconnectReport
  <2> QED
    BY <1>7, <2>1, <2>3, TakenEffect
<1> QED
  BY <1>1, <1>3, <1>4, <1>5, <1>6, <1>7 DEF TakesMessage

-----------------------------------------------------------------------------
(* Type correctness *)

\* A version starts a state, InitComplete ends the initial one; each batch adds its parts.
LEMMA MutatedTypes ==
    ASSUME ParentTypes, NEW batch \in Batch, NEW session \in Nat, MutateState(batch, session)
    PROVE  /\ state' \in [defined : BOOLEAN, parts : SUBSET (Nat \X Parts)]
           /\ status' \in {"CLOSED", "CONNECTING", "CONNECTED"}
           /\ transfers' \in BOOLEAN /\ promise' = promise
<1>1. {session} \X batch \subseteq Nat \X Parts
  BY DEF Batch, Parts
<1>2. StateBefore(batch) \in [defined : BOOLEAN, parts : SUBSET (Nat \X Parts)]
  BY DEF ParentTypes, StateBefore, Created
<1>3. state' \in [defined : BOOLEAN, parts : SUBSET (Nat \X Parts)]
  BY <1>1, <1>2 DEF MutateState, Applied
<1> QED
  BY <1>3 DEF MutateState, ParentTypes

\* What becomes of the promises, whatever they become.
LEMMA PromisesTyped ==
    ASSUME ParentTypes
    PROVE  /\ \A ids, from : \A to \in Outcomes :
                 Become(ids, from, to) => promise' \in [Packets -> Outcomes]
           /\ promise' = [p \in Packets |-> AfterDeath(promise[p])]
                 => promise' \in [Packets -> Outcomes]
<1>1. \A ids, from : \A to \in Outcomes :
         Become(ids, from, to) => promise' \in [Packets -> Outcomes]
  BY DEF ParentTypes, Become
<1>2. \A o \in Outcomes : AfterDeath(o) \in Outcomes
  BY DEF AfterDeath, Outcomes
<1> QED
  BY <1>1, <1>2 DEF ParentTypes

\* A message of the thread leaves the parent well formed.
LEMMA MessageTypes ==
    ASSUME TypesInv, NEW n \in Threads, TakesMessage(n),
           UNCHANGED <<accepted, stray, userVars, counters>>
    PROVE  TypesInv'
<1> DEFINE m == Head(thread[n].outbox)
<1>1. ThreadsInv' /\ m \in Reports
  BY MessageEffect DEF TypesInv, RunsOn
<1>2. /\ sent' = sent /\ accepted' = accepted /\ stray' = stray /\ wanted' = wanted
      /\ crossed' = crossed /\ doubled' = doubled /\ sessions' = sessions /\ losses' = losses
      /\ crashes' = crashes /\ calls' = calls
  BY DEF userVars, counters, TakesMessage, TakeDisconnect, TakeCommands, TakeAcknowledged,
         TakeSent, TakeNotSent, TakeDisconnected, promiseVars
<1>3. /\ socketProcess' = socketProcess /\ creatingSocket' = creatingSocket
      /\ isDisconnecting' = isDisconnecting /\ connecting' = connecting
      /\ disconnecting' \in {disconnecting, FALSE} /\ destroying' = destroying
  BY DEF TakesMessage, TakeDisconnect, TakeCommands, TakeAcknowledged, TakeSent,
         TakeNotSent, TakeDisconnected, socketVars
<1>4. /\ status' \in {"CLOSED", "CONNECTING", "CONNECTED"} /\ transfers' \in BOOLEAN
      /\ state' \in [defined : BOOLEAN, parts : SUBSET (Nat \X Parts)]
      /\ promise' \in [Packets -> Outcomes]
  <2> USE DEF ParentTypes, TypesInv
  <2>1. CASE TakeDisconnect(n)
    <3>1. Become(Packets, "pending", "rejected") /\ Close("CLOSED") /\ state' = Undefined
      BY <2>1 DEF TakeDisconnect, OnDisconnect
    <3>2. promise' \in [Packets -> Outcomes]
      BY <3>1, PromisesTyped DEF Outcomes
    <3> QED
      BY <3>1, <3>2 DEF Close, Undefined
  <2>2. CASE TakeCommands(n)
    <3>1. m.type = "commands"
      BY <2>2 DEF TakeCommands, Next1
    <3>2. m \in [type : {"commands"}, batch : Batch, session : Nat]
      BY <1>1, <3>1 DEF Reports, Message, WithIds, DisconnectReport
    <3>3. m.batch \in Batch /\ m.session \in Nat
      BY <3>2
    <3>4. MutateState(m.batch, m.session)
      BY <2>2 DEF TakeCommands
    <3> HIDE DEF m
    <3> QED
      BY <3>3, <3>4, MutatedTypes
  <2>3. CASE TakeAcknowledged(n) \/ TakeSent(n) \/ TakeNotSent(n)
    <3>1. /\ \E ids, from : \E to \in Outcomes : Become(ids, from, to)
          /\ UNCHANGED atemVars
      BY <2>3 DEF TakeAcknowledged, TakeSent, TakeNotSent, Outcomes
    <3>2. promise' \in [Packets -> Outcomes]
      BY <3>1, PromisesTyped
    <3> QED
      BY <3>1, <3>2 DEF atemVars
  <2>4. CASE TakeDisconnected(n)
    BY <2>4 DEF TakeDisconnected, atemVars, promiseVars
  <2> QED
    BY <2>1, <2>2, <2>3, <2>4 DEF TakesMessage
<1> QED
  BY <1>1, <1>2, <1>3, <1>4 DEF TypesInv, ParentTypes

\* The calls the parent makes are among those the child knows.
LEMMA CallsAreCalls ==
    /\ Message("connect") \in Calls /\ Message("connect") # Message("answer")
    /\ Message("disconnect") \in Calls /\ Message("disconnect") # Message("answer")
    /\ \A p \in Packets : /\ WithIds("send", {p}) \in Calls
                          /\ WithIds("send", {p}) # Message("answer")
                          /\ WithIds("send", {p}) # Message("disconnect")
  BY MessagesDiffer DEF Calls

\* A call of the user leaves the threads well formed.
LEMMA UserCallTypes ==
    ASSUME TypesInv, Connect \/ Disconnect \/ Destroy \/ SendCommands
    PROVE  ThreadsInv'
<1>1. ThreadsInv /\ socketProcess \in 0 .. MaxThreads
  BY DEF TypesInv, ParentTypes
<1>2. socketProcess # 0 => socketProcess \in Threads
  BY <1>1, ConnectionAssumption DEF Threads
<1>3. ASSUME NEW m \in Calls, m # Message("answer"), socketProcess # 0,
             Call(socketProcess, m)
      PROVE  ThreadsInv'
  BY <1>1, <1>2, <1>3, CallEffect
<1>4. CASE Connect
  <2>1. CASE CreateThread
    <3>1. PICK n \in Threads : thread' = [thread EXCEPT ![n].life = "creating"]
      BY <2>1 DEF CreateThread
    <3> DEFINE u == [thread[n] EXCEPT !.life = "creating"]
    <3>2. ThreadInv(thread[n]) /\ "creating" \in Life
      BY <1>1 DEF ThreadsInv, ThreadInv, Life
    <3>3. ThreadInv(u)
      BY <3>2, LifeStep
    <3>4. thread' = [thread EXCEPT ![n] = u]
      BY <3>1
    <3> HIDE DEF u
    <3> QED
      BY <1>1, <3>3, <3>4, OneThreadChanges
  <2>2. CASE socketProcess # 0 /\ Call(socketProcess, Message("connect"))
    BY <1>3, <2>2, CallsAreCalls
  <2> QED
    BY <1>4, <2>1, <2>2 DEF Connect
<1>5. ASSUME NEW wish, CallDisconnect(wish)
      PROVE  ThreadsInv'
  <2>1. CASE socketProcess # 0
    BY <1>3, <1>5, <2>1, CallsAreCalls DEF CallDisconnect
  <2>2. CASE socketProcess = 0
    BY <1>1, <1>5, <2>2 DEF CallDisconnect, ThreadsInv
  <2> QED
    BY <2>1, <2>2
<1>6. CASE Disconnect \/ Destroy
  BY <1>5, <1>6 DEF Disconnect, Destroy
<1>7. CASE SendCommands
  <2>1. sent' \in Packets
    BY <1>7, ConnectionAssumption DEF SendCommands, TypesInv, ParentTypes, Packets
  <2>2. socketProcess # 0 /\ Call(socketProcess, WithIds("send", {sent'}))
    BY <1>7 DEF SendCommands
  <2> QED
    BY <1>3, <2>1, <2>2, CallsAreCalls
<1> QED
  BY <1>4, <1>6, <1>7

\* Every step leaves every variable well formed, and every thread in order.
LEMMA TypesStep == TypesInv /\ [Next]_connectionVars => TypesInv'
<1> SUFFICES ASSUME TypesInv, [Next]_connectionVars
             PROVE  TypesInv'
  OBVIOUS
<1>1. ParentTypes /\ ThreadsInv
  BY DEF TypesInv
<1>2. \A n \in Threads : n \in 0 .. MaxThreads
  BY ConnectionAssumption DEF Threads
<1> USE DEF socketVars, atemVars, promiseVars, counters, userVars
<1>3. CASE Connect
  <2>1. ThreadsInv'
    BY <1>3, UserCallTypes
  <2>2. ParentTypes'
    <3>1. /\ isDisconnecting' = FALSE /\ wanted' = "connection" /\ crossed' = FALSE
          /\ calls' = calls + 1
          /\ UNCHANGED <<socketProcess, disconnecting, destroying, atemVars, promiseVars,
                         accepted, stray, sessions, losses, crashes>>
      BY <1>3 DEF Connect, MayCall
    <3>2. /\ creatingSocket' \in 0 .. MaxThreads /\ connecting' \in BOOLEAN
          /\ doubled' \in BOOLEAN
      <4>1. CASE CreateThread
        <5>1. doubled' \in BOOLEAN
          BY <4>1, Zenon DEF CreateThread
        <5> QED
          BY <1>2, <4>1, <5>1 DEF CreateThread
      <4>2. CASE UNCHANGED <<creatingSocket, connecting, doubled>>
        BY <1>1, <4>2 DEF ParentTypes
      <4> QED
        BY <1>3, <4>1, <4>2 DEF Connect
    <3>3. calls' \in Nat
      BY <1>1, <3>1 DEF ParentTypes
    <3>4. /\ UNCHANGED <<disconnecting, transfers, destroying, accepted, stray>>
          /\ UNCHANGED <<socketProcess, status, state, promise, sent, sessions, losses, crashes>>
      BY <3>1
    <3> QED
      BY <1>1, <3>1, <3>2, <3>3, <3>4 DEF ParentTypes
  <2> QED
    BY <2>1, <2>2 DEF TypesInv
<1>4. CASE Disconnect
  <2>1. ThreadsInv'
    BY <1>4, UserCallTypes
  <2>2. ParentTypes'
    <3>1. CallDisconnect("disconnection") /\ calls' = calls + 1
      BY <1>4 DEF Disconnect, MayCall
    <3>2. /\ isDisconnecting' = TRUE /\ wanted' = "disconnection" /\ doubled' = doubled
          /\ disconnecting' \in BOOLEAN /\ crossed' \in BOOLEAN
      BY <3>1 DEF CallDisconnect, HasDied
    <3> QED
      BY <1>1, <1>4, <3>1, <3>2 DEF Disconnect, ParentTypes
  <2> QED
    BY <2>1, <2>2 DEF TypesInv
<1>5. CASE Destroy
  <2>1. ThreadsInv'
    BY <1>5, UserCallTypes
  <2>2. ParentTypes'
    <3>1. CallDisconnect("destruction") /\ calls' = calls + 1
      BY <1>5 DEF Destroy, MayCall
    <3>2. /\ isDisconnecting' = TRUE /\ wanted' = "destruction" /\ doubled' = doubled
          /\ disconnecting' \in BOOLEAN /\ crossed' \in BOOLEAN
      BY <3>1 DEF CallDisconnect, HasDied
    <3>3. calls' \in Nat
      BY <1>1, <3>1 DEF ParentTypes
    <3>4. /\ UNCHANGED <<socketProcess, creatingSocket, connecting, status, state>>
          /\ UNCHANGED <<promise, sent, accepted, stray, sessions, losses, crashes>>
          /\ transfers' = FALSE /\ destroying' \in {"no", "waiting"}
      BY <1>5 DEF Destroy
    <3> QED
      BY <1>1, <3>2, <3>3, <3>4 DEF ParentTypes
  <2> QED
    BY <2>1, <2>2 DEF TypesInv
<1>6. CASE SendCommands
  <2>1. ThreadsInv'
    BY <1>6, UserCallTypes
  <2>2. sent' \in 0 .. MaxPackets
    BY <1>1, <1>6, ConnectionAssumption DEF SendCommands, ParentTypes
  <2>3. promise' \in [Packets -> Outcomes]
    BY <1>1, <1>6 DEF SendCommands, ParentTypes, Outcomes
  <2>4. ParentTypes'
    BY <1>1, <1>6, <2>2, <2>3 DEF SendCommands, ParentTypes
  <2> QED
    BY <2>1, <2>4 DEF TypesInv
<1>7. ASSUME NEW n \in Threads, ThreadCreated(n)
      PROVE  TypesInv'
  <2>1. ThreadsInv'
    BY <1>1, <1>7, CreatedEffect
  <2>2. connecting' \in BOOLEAN
    BY <1>7, Zenon DEF ThreadCreated
  <2>3. ParentTypes'
    BY <1>1, <1>2, <1>7, <2>2 DEF ThreadCreated, ParentTypes
  <2> QED
    BY <2>1, <2>3 DEF TypesInv
<1>8. ASSUME NEW n \in Threads, ParentTakes(n)
      PROVE  TypesInv'
  <2>1. UNCHANGED <<accepted, stray, userVars, counters>>
    BY <1>8 DEF ParentTakes
  <2>2. CASE TakesMessage(n)
    BY <2>1, <2>2, MessageTypes
  <2>3. CASE TakeClosed(n)
    <3>1. ThreadsInv'
      <4> DEFINE u == [thread[n] EXCEPT !.life = "dead"]
      <4>1. ThreadInv(thread[n]) /\ "dead" \in Life
        BY <1>1 DEF ThreadsInv, ThreadInv, Life
      <4>2. ThreadInv(u)
        BY <4>1, LifeStep
      <4>3. thread' = [thread EXCEPT ![n] = u]
        BY <2>3 DEF TakeClosed
      <4> HIDE DEF u
      <4> QED
        BY <1>1, <4>2, <4>3, OneThreadChanges
    <3>2. promise' \in [Packets -> Outcomes]
      BY <1>1, <2>3, PromisesTyped DEF TakeClosed
    <3>3. ParentTypes'
      BY <1>1, <2>1, <2>3, <3>2 DEF TakeClosed, Close, Undefined, ParentTypes
    <3> QED
      BY <3>1, <3>3 DEF TypesInv
  <2>4. CASE TakeRestarted(n)
    <3>1. ThreadsInv'
      <4>1. thread' = [thread EXCEPT ![n] = AgainConnecting(n)]
        BY <2>4 DEF TakeRestarted
      <4> QED
        BY <1>1, <4>1, AgainEffect
    <3>2. ParentTypes'
      BY <1>1, <2>1, <2>4 DEF TakeRestarted, ParentTypes
    <3> QED
      BY <3>1, <3>2 DEF TypesInv
  <2> QED
    BY <1>8, <2>2, <2>3, <2>4 DEF ParentTakes, TakesMessage
<1>9. CASE FinishDestroy
  <2>1. ThreadsInv'
    <3>1. CASE socketProcess = 0
      BY <1>1, <1>9, <3>1 DEF FinishDestroy, ThreadsInv
    <3>2. CASE socketProcess # 0
      <4>1. socketProcess \in Threads /\ "ended" \in Life
        BY <1>1, <3>2, ConnectionAssumption DEF ParentTypes, Threads, Life
      <4>2. thread' = [thread EXCEPT ![socketProcess] = [NoThread EXCEPT !.life = "ended"]]
        BY <1>9, <3>2 DEF FinishDestroy
      <4> QED
        BY <1>1, <4>1, <4>2, EmptiedEffect
    <3> QED
      BY <3>1, <3>2
  <2>2. promise' \in [Packets -> Outcomes]
    <3>1. "failed" \in Outcomes
      BY DEF Outcomes
    <3> QED
      BY <1>1, <1>9, <3>1, PromisesTyped DEF FinishDestroy, ParentTypes
  <2>3. 0 \in 0 .. MaxThreads
    BY ConnectionAssumption
  <2>4. ParentTypes'
    BY <1>1, <1>9, <2>2, <2>3 DEF FinishDestroy, ParentTypes
  <2> QED
    BY <2>1, <2>4 DEF TypesInv
<1>10. ASSUME NEW n \in Threads, ChildRuns(n)
       PROVE  TypesInv'
  <2>1. ThreadsInv'
    BY <1>1, <1>10, WorkEffect DEF ParentTypes, Works, RunsOn
  <2>2. stray' \subseteq Packets /\ crossed' \in BOOLEAN
    <3>1. CASE TakeSend(n)
      <4>1. NextCall(n, "send")
        BY <3>1 DEF TakeSend
      <4>2. \E p \in Packets : Head(thread[n].inbox) = WithIds("send", {p})
        BY <1>1, <4>1, BegunEffect
      <4>3. Head(thread[n].inbox).ids \subseteq Packets
        BY <4>2 DEF WithIds
      <4> QED
        BY <1>1, <3>1, <4>3 DEF TakeSend, ParentTypes
    <3>2. CASE TakeDisconnectCall(n)
      BY <1>1, <3>2 DEF TakeDisconnectCall, ParentTypes
    <3>3. CASE UNCHANGED <<stray, crossed>>
      BY <1>1, <3>3 DEF ParentTypes
    <3> QED
      BY <1>10, <3>1, <3>2, <3>3 DEF ChildRuns, TakeConnect, TakeAnswer, CloseSocket, Redial
  <2>3. ParentTypes'
    BY <1>1, <1>10, <2>2 DEF ChildRuns, ParentTypes
  <2> QED
    BY <2>1, <2>3 DEF TypesInv
<1>11. ASSUME NEW n \in Threads, DeviceStep(n)
       PROVE  TypesInv'
  <2>1. ThreadsInv'
    BY <1>1, <1>11, WorkEffect DEF ParentTypes, Works, RunsOn
  <2>2. accepted' \subseteq Packets /\ sessions' \in Nat /\ losses' \in Nat /\ crashes' \in Nat
    <3>1. CASE Acknowledge(n)
      <4>1. \E ids \in SUBSET Packets : accepted' = accepted \union ids
        BY <1>1, <3>1, AcknowledgeEffect
      <4> QED
        BY <1>1, <3>1, <4>1 DEF Acknowledge, ParentTypes
    <3>2. CASE StartSession(n)
      <4>1. sessions' = sessions + 1 /\ UNCHANGED <<accepted, losses, crashes>>
        BY <3>2 DEF StartSession
      <4> QED
        BY <1>1, <4>1 DEF ParentTypes
    <3>4. CASE Deliver(n)
      <4>1. UNCHANGED <<accepted, sessions, losses, crashes>>
        BY <3>4 DEF Deliver
      <4> QED
        BY <1>1, <4>1 DEF ParentTypes
    <3>3. CASE LoseSession(n)
      <4>1. /\ losses' = IF losses < MaxLosses THEN losses + 1 ELSE losses
            /\ UNCHANGED <<accepted, sessions, crashes>>
        BY <3>3 DEF LoseSession
      <4> QED
        BY <1>1, <4>1 DEF ParentTypes
    <3> QED
      BY <1>11, <3>1, <3>2, <3>3, <3>4 DEF DeviceStep
  <2>3. ParentTypes'
    BY <1>1, <1>11, <2>2 DEF DeviceStep, ParentTypes
  <2> QED
    BY <2>1, <2>3 DEF TypesInv
<1>12. ASSUME NEW n \in Threads, Crash(n)
       PROVE  TypesInv'
  <2>1. thread' = [thread EXCEPT ![n] = [NoThread EXCEPT !.life = "closed"]] /\ "closed" \in Life
    BY <1>12 DEF Crash, Life
  <2>2. ThreadsInv'
    BY <1>1, <2>1, EmptiedEffect
  <2>3. ParentTypes'
    BY <1>1, <1>12 DEF Crash, ParentTypes
  <2> QED
    BY <2>2, <2>3 DEF TypesInv
<1>13. CASE UNCHANGED connectionVars
  BY <1>1, <1>13 DEF connectionVars, TypesInv, ParentTypes, ThreadsInv
<1> QED
  BY <1>3, <1>4, <1>5, <1>6, <1>7, <1>8, <1>9, <1>10, <1>11, <1>12, <1>13
     DEF Next, ParentStep

\* The initial state is well formed.
LEMMA TypesInit == Init => TypesInv
<1> SUFFICES ASSUME Init PROVE TypesInv
  OBVIOUS
<1>1. ThreadInv(NoThread)
  <2>1. "none" \in Life /\ NoThread = [NoThread EXCEPT !.life = "none"]
    BY DEF Life, NoThread
  <2> QED
    BY <2>1, EmptyThread
<1>2. ThreadsInv
  BY <1>1 DEF Init, ThreadsInv, ThreadInv
<1>3. ParentTypes
  <2>1. Created \in [defined : BOOLEAN, parts : SUBSET (Nat \X Parts)]
    BY DEF Created
  <2>2. [p \in Packets |-> "none"] \in [Packets -> Outcomes]
    BY DEF Outcomes
  <2> QED
    <3>1. MaxThreads \in Nat /\ MaxPackets \in Nat
      BY ConnectionAssumption
    <3>2. state = Created /\ promise = [p \in Packets |-> "none"]
      BY DEF Init
    <3>3. 0 \in 0 .. MaxThreads /\ 0 \in 0 .. MaxPackets
      BY <3>1
    <3> HIDE DEF Init
    <3>4. /\ socketProcess = 0 /\ creatingSocket = 0 /\ isDisconnecting = FALSE
          /\ connecting = FALSE /\ disconnecting = FALSE /\ destroying = "no"
          /\ status = "CLOSED" /\ transfers = FALSE /\ sent = 0
          /\ accepted = {} /\ stray = {} /\ wanted = "nothing" /\ crossed = FALSE
          /\ doubled = FALSE
          /\ sessions = 0 /\ losses = 0 /\ crashes = 0 /\ calls = 0
      BY DEF Init
    <3> QED
      BY <2>1, <2>2, <3>2, <3>3, <3>4 DEF ParentTypes
<1> QED
  BY <1>2, <1>3 DEF TypesInv

\* Every variable keeps to its range, and in every thread the answers the parent posted
\* or has still to be asked for are as many as the calls of onDisconnect that wait for
\* one: an answer never reaches a restart or a disconnect it was not meant for
\* (atemSocketChild.ts:94-107, 116-123, atemSocket.ts:131-140).
THEOREM ThreadsAreOrderly == Spec => []TypesInv
<1>1. TypesInv /\ [Next]_connectionVars => TypesInv'
  BY TypesStep
<1> QED
  BY <1>1, TypesInit, PTL DEF Spec

-----------------------------------------------------------------------------
(* The parent's threads, and what it has yet to hear of them *)

Alive == {"running", "closed", "dead"}

\* A thread that does not run holds nothing.
Empty(t) == t = [NoThread EXCEPT !.life = t.life]

\* There is one thread at most, and the parent knows it.
OneThread ==
    /\ \A n \in Threads : thread[n].life = "creating" =>
                             n = creatingSocket /\ connecting /\ socketProcess = 0
    /\ connecting => /\ creatingSocket \in Threads
                     /\ thread[creatingSocket].life = "creating"
    /\ \A n \in Threads : thread[n].life \in Alive => n = socketProcess
    /\ socketProcess # 0 => thread[socketProcess].life \in Alive
    /\ \A n \in Threads : thread[n].life # "running" => Empty(thread[n])

\* A thread has no disconnect to finish but the one the parent awaits, and none died
\* unnoticed while the user wanted no connection.
Owed ==
    /\ \A n \in Threads : /\ thread[n].child.closing >= 0
                          /\ Unfinished(thread[n]) <= IF disconnecting THEN 1 ELSE 0
    /\ disconnecting => socketProcess # 0
    /\ \A n \in Threads :
          thread[n].life \in {"closed", "dead"} /\ wanted # "connection" => crossed

\* A destroy that was carried out left no thread.
IsDestroyed ==
    wanted = "destruction" /\ destroying = "no" /\ ~crossed =>
        \A n \in Threads : thread[n].life \in {"none", "ended"}

ControlInv == OneThread /\ Owed /\ IsDestroyed

\* A thread that holds nothing owes nothing.
LEMMA EmptyOwesNothing ==
    ASSUME NEW t \in Thread, Empty(t)
    PROVE  /\ Unfinished(t) = 0 /\ \A p \in Packets : Handovers(t, p) = 0
           /\ t.child = Fresh /\ t.child.closing = 0
           /\ t.waits = <<>> /\ t.inbox = <<>> /\ t.outbox = <<>>
<1> DEFINE life == t.life
<1>1. life \in Life
  BY DEF Thread
<1>2. t = [NoThread EXCEPT !.life = life]
  BY DEF Empty
<1> HIDE DEF life
<1>3. /\ Unfinished(t) = 0 /\ \A p \in Packets : Handovers(t, p) = 0
      /\ t.child = Fresh /\ t.waits = <<>> /\ t.inbox = <<>> /\ t.outbox = <<>>
  BY <1>1, <1>2, EmptyThread
<1> QED
  BY <1>3 DEF Fresh

\* Only the thread the parent knows holds anything.
LEMMA OthersAreEmpty ==
    ASSUME ThreadsInv, OneThread, NEW n \in Threads, n # socketProcess
    PROVE  /\ thread[n].life # "running" /\ Empty(thread[n])
           /\ Unfinished(thread[n]) = 0 /\ thread[n].child.closing = 0
<1>1. thread[n].life # "running" /\ Empty(thread[n])
  BY DEF OneThread, Alive
<1> QED
  BY <1>1, EmptyOwesNothing DEF ThreadsInv

\* The thread that runs is the one the parent knows; no other is being made.
LEMMA RunningIsKnown ==
    ASSUME OneThread, NEW n \in Threads, thread[n].life \in Alive
    PROVE  /\ n = socketProcess /\ ~connecting
           /\ \A m \in Threads : thread[m].life # "creating"
           /\ \A m \in Threads \ {n} : thread[m].life \notin Alive
<1>1. n = socketProcess /\ socketProcess # 0
  BY DEF OneThread, Threads
<1> QED
  BY <1>1 DEF OneThread

\* What a thread that goes on leaves as it is.
LEMMA OneThreadGoesOn ==
    ASSUME ThreadsInv, ControlInv, NEW n \in Threads, RunsOn(n),
           UNCHANGED <<socketProcess, creatingSocket, connecting>>
    PROVE  OneThread'
<1>1. /\ thread[n].life = "running" /\ thread'[n].life = "running"
      /\ \A m \in Threads \ {n} : thread'[m] = thread[m]
  BY DEF RunsOn, Runs
<1>2. \A m \in Threads : thread'[m].life = thread[m].life
  BY <1>1
<1>3. \A m \in Threads : thread'[m].life # "running" => Empty(thread'[m])
  BY <1>1 DEF ControlInv, OneThread
<1>4. connecting => thread'[creatingSocket].life = "creating"
  BY <1>2 DEF ControlInv, OneThread
<1>5. socketProcess # 0 => thread'[socketProcess].life \in Alive
  BY <1>1, <1>2, RunningIsKnown DEF ControlInv, OneThread, Alive
<1> QED
  BY <1>2, <1>3, <1>4, <1>5 DEF ControlInv, OneThread

\* A thread goes on and owes what it owed, or less when the parent heard that a
\* disconnect is over.
LEMMA ControlGoesOn ==
    ASSUME ThreadsInv, ControlInv, NEW n \in Threads, RunsOn(n),
           UNCHANGED <<socketProcess, creatingSocket, connecting, destroying, wanted>>,
           crossed => crossed',
           thread'[n].child.closing >= 0,
           \/ disconnecting' = disconnecting /\ Unfinished(thread'[n]) = Unfinished(thread[n])
           \/ disconnecting' = FALSE /\ Unfinished(thread'[n]) = Unfinished(thread[n]) - 1
    PROVE  ControlInv'
<1>1. OneThread'
  BY OneThreadGoesOn
<1>2. /\ thread[n].life = "running" /\ thread'[n].life = "running"
      /\ \A m \in Threads \ {n} : thread'[m] = thread[m]
  BY DEF RunsOn, Runs
<1>3. n = socketProcess
  BY <1>2, RunningIsKnown DEF ControlInv, Alive
<1>4. Unfinished(thread'[n]) <= IF disconnecting' THEN 1 ELSE 0
  <2>1. Unfinished(thread[n]) <= IF disconnecting THEN 1 ELSE 0
    BY DEF ControlInv, Owed
  <2>2. Unfinished(thread[n]) \in Int
    BY CountsOfThread DEF ThreadsInv
  <2> QED
    BY <2>1, <2>2
<1>5. ASSUME NEW m \in Threads
      PROVE  /\ thread'[m].child.closing >= 0
             /\ Unfinished(thread'[m]) <= IF disconnecting' THEN 1 ELSE 0
  <2>1. CASE m = n
    BY <1>4, <2>1
  <2>2. CASE m # n
    <3>1. Unfinished(thread'[m]) = 0 /\ thread'[m].child.closing = 0
      BY <1>2, <1>3, <2>2, OthersAreEmpty DEF ControlInv
    <3> QED
      BY <3>1
  <2> QED
    BY <2>1, <2>2
<1>6. disconnecting' => socketProcess' # 0
  BY DEF ControlInv, Owed
<1>7. \A m \in Threads :
         thread'[m].life \in {"closed", "dead"} /\ wanted' # "connection" => crossed'
  BY <1>2 DEF ControlInv, Owed
<1>8. IsDestroyed'
  BY <1>2 DEF ControlInv, IsDestroyed
<1> QED
  BY <1>1, <1>5, <1>6, <1>7, <1>8 DEF ControlInv, Owed

\* A call of the parent to the thread it knows, while it awaits no disconnect.
LEMMA CallKeepsThreads ==
    ASSUME TypesInv, ControlInv, ~disconnecting, NEW m \in Calls, m # Message("answer"),
           socketProcess # 0, Call(socketProcess, m),
           UNCHANGED <<socketProcess, creatingSocket, connecting>>
    PROVE  /\ OneThread' /\ socketProcess \in Threads
           /\ \A n \in Threads : thread'[n].life = thread[n].life
           /\ \A n \in Threads :
                 /\ thread'[n].child.closing >= 0
                 /\ m # Message("disconnect") => Unfinished(thread'[n]) <= 0
                 /\ Runs(socketProcess) => Unfinished(thread'[n]) <= 1
                 /\ ~Runs(socketProcess) => Unfinished(thread'[n]) <= 0
<1> DEFINE k == socketProcess
<1>1. ThreadsInv /\ k \in Threads
  BY ConnectionAssumption DEF TypesInv, ParentTypes, Threads
<1>2. \A n \in Threads : /\ thread[n].child.closing >= 0 /\ Unfinished(thread[n]) <= 0
                         /\ Unfinished(thread[n]) \in Int
  BY <1>1, CountsOfThread DEF ControlInv, Owed, ThreadsInv
<1>3. CASE ~Runs(k)
  <2>1. thread' = thread
    BY <1>1, <1>3, CallEffect
  <2>2. OneThread'
    BY <2>1 DEF ControlInv, OneThread
  <2> QED
    BY <1>1, <1>2, <1>3, <2>1, <2>2
<1>4. CASE Runs(k)
  <2>1. /\ \A n \in Threads : thread'[n].life = thread[n].life
        /\ \A n \in Threads \ {k} : thread'[n] = thread[n]
        /\ RunsOn(k) /\ thread'[k].child = thread[k].child
        /\ Unfinished(thread'[k]) = IF m = Message("disconnect")
                                    THEN Unfinished(thread[k]) + 1 ELSE Unfinished(thread[k])
    BY <1>1, <1>4, CallEffect
  <2>2. OneThread'
    BY <1>1, <2>1, OneThreadGoesOn
  <2>3. /\ m # Message("disconnect") => Unfinished(thread'[k]) <= 0
        /\ Unfinished(thread'[k]) <= 1
    BY <1>1, <1>2, <2>1
  <2>4. \A n \in Threads \ {k} : Unfinished(thread'[n]) <= 1
    BY <1>2, <2>1
  <2> QED
    BY <1>1, <1>2, <1>4, <2>1, <2>2, <2>3, <2>4
<1> QED
  BY <1>3, <1>4

\* disconnect and destroy begin.
LEMMA DisconnectKeepsControl ==
    ASSUME TypesInv, ControlInv, ~disconnecting, NEW wish \in {"disconnection", "destruction"},
           CallDisconnect(wish), UNCHANGED <<socketProcess, creatingSocket, connecting>>,
           wish = "destruction" /\ ~HasDied => destroying' # "no"
    PROVE  ControlInv'
<1>1. /\ disconnecting' = (socketProcess # 0 /\ ~HasDied) /\ wanted' = wish
      /\ crossed' = HasDied
  BY DEF CallDisconnect
<1>2. IsDestroyed'
  BY <1>1 DEF IsDestroyed
<1>3. CASE socketProcess = 0
  <2>1. thread' = thread /\ ~HasDied
    BY <1>3 DEF CallDisconnect, HasDied
  <2>2. OneThread'
    BY <2>1 DEF ControlInv, OneThread
  <2>3. Owed'
    <3>1. \A n \in Threads : thread[n].life \notin {"closed", "dead"}
      BY <1>3 DEF ControlInv, OneThread, Alive, Threads
    <3> QED
      BY <1>1, <1>3, <2>1, <3>1 DEF ControlInv, Owed
  <2> QED
    BY <1>2, <2>2, <2>3 DEF ControlInv
<1>4. CASE socketProcess # 0
  <2>1. Call(socketProcess, Message("disconnect"))
    BY <1>4 DEF CallDisconnect
  <2>2. /\ OneThread' /\ socketProcess \in Threads
        /\ \A n \in Threads : thread'[n].life = thread[n].life
        /\ \A n \in Threads :
              /\ thread'[n].child.closing >= 0
              /\ Runs(socketProcess) => Unfinished(thread'[n]) <= 1
              /\ ~Runs(socketProcess) => Unfinished(thread'[n]) <= 0
    BY <1>4, <2>1, CallKeepsThreads, CallsAreCalls
  <2>3. ASSUME NEW n \in Threads, thread'[n].life \in {"closed", "dead"}
        PROVE  crossed'
    <3>1. n = socketProcess
      BY <2>2, <2>3, RunningIsKnown DEF ControlInv, Alive
    <3> QED
      BY <1>1, <1>4, <2>2, <2>3, <3>1 DEF HasDied, Runs
  <2>4. Owed'
    BY <1>1, <1>4, <2>2, <2>3 DEF Owed, HasDied
  <2> QED
    BY <1>2, <2>2, <2>4 DEF ControlInv
<1> QED
  BY <1>3, <1>4

\* connect begins, or goes on when there is a thread.
LEMMA ConnectKeepsControl ==
    ASSUME TypesInv, ControlInv, Connect, ~doubled'
    PROVE  ControlInv'
<1>1. /\ wanted' = "connection"
      /\ UNCHANGED <<socketProcess, disconnecting, destroying>>
  BY DEF Connect
<1>2. IsDestroyed'
  BY <1>1 DEF IsDestroyed
<1>3. ThreadsInv
  BY DEF TypesInv
<1>4. CASE socketProcess = 0 /\ CreateThread
  <2>1. PICK n \in Threads : /\ thread[n].life = "none" /\ creatingSocket' = n
                             /\ thread' = [thread EXCEPT ![n].life = "creating"]
    BY <1>4 DEF CreateThread
  <2>2. connecting' = TRUE /\ ~connecting /\ ~disconnecting
    BY <1>4 DEF CreateThread, ControlInv, Owed
  <2>3. thread[n] \in Thread /\ Empty(thread[n])
    BY <1>3, <2>1 DEF ControlInv, OneThread, ThreadsInv
  <2>4. /\ thread'[n] = [thread[n] EXCEPT !.life = "creating"]
        /\ \A m \in Threads \ {n} : thread'[m] = thread[m]
    BY <1>3, <2>1 DEF ThreadsInv
  <2>5. thread'[n] = [NoThread EXCEPT !.life = "creating"]
    BY <2>3, <2>4 DEF Empty, NoThread
  <2>6. thread'[n].life = "creating" /\ Empty(thread'[n])
    BY <2>5 DEF Empty, NoThread
  <2>7. /\ Unfinished(thread'[n]) = 0 /\ thread'[n].child.closing = 0
    <3>1. "creating" \in Life
      BY DEF Life
    <3>2. Unfinished(thread'[n]) = 0 /\ thread'[n].child = Fresh
      BY <2>5, <3>1, EmptyThread
    <3> QED
      BY <3>2 DEF Fresh
  <2>8. OneThread'
    <3>1. \A m \in Threads \ {n} : thread'[m].life \notin Alive \union {"creating"}
      BY <1>1, <1>4, <2>2, <2>4 DEF ControlInv, OneThread, Threads
    <3>2. \A m \in Threads : thread'[m].life # "running" => Empty(thread'[m])
      BY <2>4, <2>6 DEF ControlInv, OneThread
    <3>3. thread'[n].life \notin Alive
      BY <2>6 DEF Alive
    <3> QED
      BY <1>1, <1>4, <2>1, <2>2, <2>6, <3>1, <3>2, <3>3 DEF OneThread
  <2>9. Owed'
    <3>1. \A m \in Threads : /\ thread'[m].child.closing >= 0
                             /\ Unfinished(thread'[m]) <= IF disconnecting' THEN 1 ELSE 0
      <4>1. ~disconnecting'
        BY <1>1, <2>2
      <4>2. \A m \in Threads : thread[m].child.closing >= 0 /\ Unfinished(thread[m]) <= 0
        BY <2>2 DEF ControlInv, Owed
      <4>3. thread'[n].child.closing >= 0 /\ Unfinished(thread'[n]) <= 0
        BY <2>7
      <4> QED
        BY <2>4, <4>1, <4>2, <4>3
    <3> QED
      BY <1>1, <2>2, <3>1 DEF Owed
  <2> QED
    BY <1>2, <2>8, <2>9 DEF ControlInv
<1>5. CASE socketProcess # 0 /\ Call(socketProcess, Message("connect"))
           /\ UNCHANGED <<creatingSocket, connecting>>
  <2> DEFINE k == socketProcess
             m == Message("connect")
  <2>1. k \in Threads /\ Call(k, m) /\ m \in Calls
        /\ m # Message("answer") /\ m # Message("disconnect")
    BY <1>5, CallsAreCalls, MessagesDiffer, ConnectionAssumption
       DEF TypesInv, ParentTypes, Threads
  <2> HIDE DEF m
  <2>2. OneThread' /\ \A n \in Threads : /\ thread'[n].child.closing >= 0
                                         /\ Unfinished(thread'[n]) = Unfinished(thread[n])
    <3>1. CASE ~Runs(k)
      <4>1. thread' = thread
        BY <1>3, <2>1, <3>1, CallEffect
      <4> QED
        BY <1>1, <1>5, <4>1 DEF ControlInv, OneThread, Owed
    <3>2. CASE Runs(k)
      <4>1. /\ \A n \in Threads \ {k} : thread'[n] = thread[n]
            /\ RunsOn(k) /\ thread'[k].child = thread[k].child
            /\ Unfinished(thread'[k]) = Unfinished(thread[k])
        BY <1>3, <2>1, <3>2, CallEffect
      <4>2. OneThread'
        BY <1>1, <1>3, <1>5, <2>1, <4>1, OneThreadGoesOn
      <4>3. \A n \in Threads : thread[n].child.closing >= 0
        BY DEF ControlInv, Owed
      <4> QED
        BY <4>1, <4>2, <4>3
    <3> QED
      BY <3>1, <3>2
  <2>3. Owed'
    BY <1>1, <2>2 DEF ControlInv, Owed
  <2> QED
    BY <1>2, <2>2, <2>3 DEF ControlInv
<1> QED
  BY <1>4, <1>5 DEF Connect

\* sendCommands, also while a disconnect is awaited.
LEMMA SendKeepsControl == TypesInv /\ ControlInv /\ SendCommands => ControlInv'
<1> SUFFICES ASSUME TypesInv, ControlInv, SendCommands PROVE ControlInv'
  OBVIOUS
<1> DEFINE k == socketProcess
           m == WithIds("send", {sent'})
<1>1. ThreadsInv /\ k \in Threads /\ sent' \in Packets
  BY ConnectionAssumption
     DEF TypesInv, ParentTypes, Threads, Packets, SendCommands
<1>2. Call(k, m) /\ m \in Calls /\ m # Message("answer") /\ m # Message("disconnect")
  BY <1>1, CallsAreCalls DEF SendCommands
<1>3. UNCHANGED <<socketProcess, creatingSocket, connecting, disconnecting, destroying,
                  wanted, crossed>>
  BY DEF SendCommands, socketVars, userVars
<1> HIDE DEF m
<1>4. CASE ~Runs(k)
  <2>1. thread' = thread
    BY <1>1, <1>2, <1>4, CallEffect
  <2> QED
    BY <1>3, <2>1 DEF ControlInv, OneThread, Owed, IsDestroyed
<1>5. CASE Runs(k)
  <2>1. /\ RunsOn(k) /\ thread'[k].child = thread[k].child
        /\ Unfinished(thread'[k]) = Unfinished(thread[k])
    BY <1>1, <1>2, <1>5, CallEffect
  <2>2. thread'[k].child.closing >= 0
    BY <1>1, <2>1 DEF ControlInv, Owed
  <2> QED
    BY <1>1, <1>3, <2>1, <2>2, ControlGoesOn
<1> QED
  BY <1>4, <1>5

\* The thread that was asked for is there.
LEMMA CreatedKeepsControl ==
    ASSUME TypesInv, ControlInv, NEW n \in Threads, ThreadCreated(n)
    PROVE  ControlInv'
<1>1. ThreadsInv /\ thread[n].life = "creating"
  BY DEF TypesInv, ThreadCreated
<1>2. /\ n = creatingSocket /\ connecting /\ socketProcess = 0
      /\ \A m \in Threads : thread[m].life \notin Alive
      /\ \A m \in Threads \ {n} : thread[m].life # "creating"
  <2>1. n = creatingSocket /\ connecting /\ socketProcess = 0
    BY <1>1 DEF ControlInv, OneThread
  <2>2. \A m \in Threads : m # 0
    BY DEF Threads
  <2> QED
    BY <2>1, <2>2 DEF ControlInv, OneThread
<1>3. /\ thread'[n].life = "running" /\ \A m \in Threads \ {n} : thread'[m] = thread[m]
      /\ thread'[n].child = thread[n].child
      /\ Unfinished(thread'[n]) = Unfinished(thread[n])
  BY <1>1, CreatedEffect
<1>4. /\ socketProcess' = n /\ ~connecting'
      /\ UNCHANGED <<creatingSocket, disconnecting, destroying, wanted, crossed>>
  BY <1>2 DEF ThreadCreated, userVars
<1>5. n # 0
  BY DEF Threads
<1>6. OneThread'
  <2>1. \A m \in Threads : thread'[m].life # "creating"
    BY <1>2, <1>3
  <2>2. \A m \in Threads : thread'[m].life \in Alive => m = n
    BY <1>2, <1>3
  <2>3. \A m \in Threads : thread'[m].life # "running" => Empty(thread'[m])
    BY <1>3 DEF ControlInv, OneThread
  <2>4. thread'[n].life \in Alive
    BY <1>3 DEF Alive
  <2> QED
    BY <1>4, <2>1, <2>2, <2>3, <2>4 DEF OneThread
<1>7. Owed'
  <2>1. \A m \in Threads : /\ thread'[m].child.closing >= 0
                           /\ Unfinished(thread'[m]) <= IF disconnecting' THEN 1 ELSE 0
    BY <1>3, <1>4 DEF ControlInv, Owed
  <2>2. \A m \in Threads : thread'[m].life \notin {"closed", "dead"}
    BY <1>2, <1>3 DEF Alive
  <2> QED
    BY <1>4, <1>5, <2>1, <2>2 DEF Owed
<1>8. IsDestroyed'
  <2>1. ~(wanted = "destruction" /\ destroying = "no" /\ ~crossed)
    BY <1>1 DEF ControlInv, IsDestroyed
  <2> QED
    BY <1>4, <2>1 DEF IsDestroyed
<1> QED
  BY <1>6, <1>7, <1>8 DEF ControlInv

\* The thread the parent knows dies, is known to be dead, or is made again.
LEMMA ReplacedKeepsControl ==
    ASSUME TypesInv, ControlInv, NEW n \in Threads, thread[n].life \in Alive,
           UNCHANGED <<socketProcess, creatingSocket, connecting, wanted>>,
           crossed => crossed', disconnecting' \in {disconnecting, FALSE},
           \A m \in Threads \ {n} : thread'[m] = thread[m],
           thread'[n].life \in Alive, thread'[n].life # "running" => Empty(thread'[n]),
           thread'[n].child.closing = 0, Unfinished(thread'[n]) = 0,
           thread'[n].life \in {"closed", "dead"} /\ wanted # "connection" => crossed',
           wanted = "destruction" /\ ~crossed' => destroying' # "no" \/ destroying' = destroying
    PROVE  ControlInv'
<1>1. ThreadsInv
  BY DEF TypesInv
<1>2. /\ n = socketProcess /\ ~connecting
      /\ \A m \in Threads : thread[m].life # "creating"
      /\ \A m \in Threads \ {n} : thread[m].life \notin Alive
  BY RunningIsKnown DEF ControlInv
<1>3. OneThread'
  <2>1. \A m \in Threads : thread'[m].life # "creating"
    BY <1>2 DEF Alive
  <2>2. \A m \in Threads : thread'[m].life # "running" => Empty(thread'[m])
    BY DEF ControlInv, OneThread
  <2> QED
    BY <1>2, <2>1, <2>2 DEF OneThread
<1>4. Owed'
  <2>1. ASSUME NEW m \in Threads
        PROVE  /\ thread'[m].child.closing >= 0
               /\ Unfinished(thread'[m]) <= IF disconnecting' THEN 1 ELSE 0
    <3>1. thread'[m].child.closing = 0 /\ Unfinished(thread'[m]) = 0
      <4>1. CASE m = n
        BY <4>1
      <4>2. CASE m # n
        BY <1>1, <1>2, <4>2, OthersAreEmpty DEF ControlInv
      <4> QED
        BY <4>1, <4>2
    <3> QED
      BY <3>1
  <2>2. disconnecting' => socketProcess' # 0
    BY DEF ControlInv, Owed
  <2>3. \A m \in Threads :
           thread'[m].life \in {"closed", "dead"} /\ wanted' # "connection" => crossed'
    BY <1>2 DEF Alive
  <2> QED
    BY <2>1, <2>2, <2>3 DEF Owed
<1>5. IsDestroyed'
  <2>1. wanted = "destruction" /\ destroying = "no" => crossed
    BY DEF ControlInv, IsDestroyed, Alive
  <2> QED
    BY <2>1 DEF IsDestroyed
<1> QED
  BY <1>3, <1>4, <1>5 DEF ControlInv

\* The rest of destroy leaves no thread.
LEMMA FinishKeepsControl == TypesInv /\ ControlInv /\ FinishDestroy => ControlInv'
<1> SUFFICES ASSUME TypesInv, ControlInv, FinishDestroy PROVE ControlInv'
  OBVIOUS
<1> DEFINE k == socketProcess
<1>1. /\ ThreadsInv /\ k \in 0 .. MaxThreads /\ creatingSocket \in 0 .. MaxThreads
      /\ ~disconnecting /\ (creatingSocket # 0 => thread[creatingSocket].life # "creating")
  BY DEF TypesInv, ParentTypes, FinishDestroy, DestroyGoesOn
<1>2. /\ destroying' = "no" /\ socketProcess' = 0
      /\ UNCHANGED <<creatingSocket, connecting, disconnecting, wanted, crossed>>
  BY DEF FinishDestroy, userVars
<1>3. ~connecting /\ \A m \in Threads : thread[m].life # "creating"
  <2>1. \A m \in Threads : m # 0
    BY DEF Threads
  <2> QED
    BY <1>1, <2>1 DEF ControlInv, OneThread
<1>4. \A m \in Threads : /\ Empty(thread'[m]) /\ thread'[m].life \in {"none", "ended"}
                         /\ thread'[m] \in Thread
  <2>1. ASSUME NEW m \in Threads, m # k
        PROVE  Empty(thread[m]) /\ thread[m].life \in {"none", "ended"} /\ thread[m] \in Thread
    <3>1. thread[m].life \in Life /\ thread[m] \in Thread
      BY <1>1 DEF ThreadsInv, Thread
    <3> QED
      BY <1>3, <2>1, <3>1 DEF ControlInv, OneThread, Alive, Life
  <2>2. CASE k = 0
    <3>1. thread' = thread
      BY <2>2 DEF FinishDestroy
    <3> QED
      BY <2>1, <2>2, <3>1 DEF Threads
  <2>3. CASE k # 0
    <3>1. k \in Threads /\ "ended" \in Life
      BY <1>1, <2>3, ConnectionAssumption DEF Threads, Life
    <3>2. thread' = [thread EXCEPT ![k] = [NoThread EXCEPT !.life = "ended"]]
      BY <2>3 DEF FinishDestroy
    <3>3. /\ thread'[k] = [NoThread EXCEPT !.life = "ended"] /\ thread'[k].life = "ended"
          /\ \A m \in Threads \ {k} : thread'[m] = thread[m]
          /\ ThreadsInv'
      BY <1>1, <3>1, <3>2, EmptiedEffect
    <3>4. Empty(thread'[k]) /\ thread'[k] \in Thread
      BY <3>1, <3>3 DEF Empty, ThreadsInv
    <3> QED
      BY <2>1, <3>1, <3>3, <3>4
  <2> QED
    BY <2>2, <2>3
<1>5. OneThread'
  BY <1>2, <1>3, <1>4 DEF OneThread, Alive
<1>6. Owed'
  <2>1. \A m \in Threads : Unfinished(thread'[m]) = 0 /\ thread'[m].child.closing = 0
    BY <1>4, EmptyOwesNothing
  <2>2. \A m \in Threads : /\ thread'[m].child.closing >= 0
                           /\ Unfinished(thread'[m]) <= IF disconnecting' THEN 1 ELSE 0
    BY <2>1
  <2> QED
    BY <1>1, <1>2, <1>4, <2>2 DEF Owed
<1>7. IsDestroyed'
  BY <1>4 DEF IsDestroyed
<1> QED
  BY <1>5, <1>6, <1>7 DEF ControlInv

\* The parent hears that its thread died, or that it was made again.
LEMMA DeathKeepsControl ==
    ASSUME TypesInv, ControlInv, NEW n \in Threads, TakeClosed(n) \/ TakeRestarted(n),
           UNCHANGED userVars
    PROVE  ControlInv'
<1>1. ThreadsInv
  BY DEF TypesInv
<1>2. CASE TakeClosed(n)
  <2>1. /\ thread[n].life = "closed" /\ thread' = [thread EXCEPT ![n].life = "dead"]
        /\ UNCHANGED <<socketProcess, creatingSocket, connecting>> /\ disconnecting' = FALSE
    BY <1>2 DEF TakeClosed
  <2>2. thread[n] = [NoThread EXCEPT !.life = "closed"] /\ thread[n] \in Thread
    BY <1>1, <2>1 DEF ControlInv, OneThread, Empty, ThreadsInv
  <2>3. /\ thread'[n] = [thread[n] EXCEPT !.life = "dead"]
        /\ \A m \in Threads \ {n} : thread'[m] = thread[m]
    BY <1>1, <2>1 DEF ThreadsInv
  <2>4. thread'[n] = [NoThread EXCEPT !.life = "dead"]
    BY <2>2, <2>3 DEF NoThread
  <2>5. thread'[n].life = "dead" /\ Empty(thread'[n])
    BY <2>4 DEF NoThread, Empty
  <2>6. Unfinished(thread'[n]) = 0 /\ thread'[n].child.closing = 0
    <3>1. "dead" \in Life
      BY DEF Life
    <3>2. Unfinished(thread'[n]) = 0 /\ thread'[n].child = Fresh
      BY <2>4, <3>1, EmptyThread
    <3> QED
      BY <3>2 DEF Fresh
  <2>7. wanted # "connection" => crossed
    BY <2>1 DEF ControlInv, Owed
  <2>8. UNCHANGED <<wanted, crossed>>
    BY DEF userVars
  <2>9. thread[n].life \in Alive /\ thread'[n].life \in Alive
    BY <2>1, <2>5 DEF Alive
  <2>10. wanted = "destruction" /\ ~crossed' => destroying' # "no" \/ destroying' = destroying
    BY <2>7, <2>8
  <2> QED
    BY <2>1, <2>3, <2>5, <2>6, <2>7, <2>8, <2>9, <2>10, ReplacedKeepsControl
<1>3. CASE TakeRestarted(n)
  <2>1. /\ thread[n].life = "dead" /\ thread' = [thread EXCEPT ![n] = AgainConnecting(n)]
        /\ UNCHANGED <<socketProcess, creatingSocket, connecting, disconnecting, destroying>>
    BY <1>3 DEF TakeRestarted
  <2>2. /\ thread'[n].life = "running" /\ Unfinished(thread'[n]) = 0
        /\ thread'[n].child = Fresh /\ \A m \in Threads \ {n} : thread'[m] = thread[m]
    BY <1>1, <2>1, AgainEffect
  <2>3. thread'[n].child.closing = 0
    BY <2>2 DEF Fresh
  <2>4. UNCHANGED <<wanted, crossed>>
    BY DEF userVars
  <2>5. thread[n].life \in Alive /\ thread'[n].life \in Alive
    BY <2>1, <2>2 DEF Alive
  <2> QED
    BY <2>1, <2>2, <2>3, <2>4, <2>5, ReplacedKeepsControl
<1> QED
  BY <1>2, <1>3

\* A thread dies.
LEMMA CrashKeepsControl ==
    ASSUME TypesInv, ControlInv, NEW n \in Threads, Crash(n)
    PROVE  ControlInv'
<1>1. ThreadsInv /\ "closed" \in Life
  BY DEF TypesInv, Life
<1>2. /\ thread[n].life = "running"
      /\ thread' = [thread EXCEPT ![n] = [NoThread EXCEPT !.life = "closed"]]
      /\ UNCHANGED <<socketProcess, creatingSocket, connecting, disconnecting, destroying,
                     wanted>>
      /\ crossed' = (crossed \/ wanted # "connection")
  BY DEF Crash, Runs, socketVars
<1>3. /\ thread'[n] = [NoThread EXCEPT !.life = "closed"] /\ thread'[n].life = "closed"
      /\ \A m \in Threads \ {n} : thread'[m] = thread[m]
  BY <1>1, <1>2, EmptiedEffect
<1>4. Empty(thread'[n])
  BY <1>3 DEF Empty
<1>5. Unfinished(thread'[n]) = 0 /\ thread'[n].child.closing = 0
  <2>1. Unfinished(thread'[n]) = 0 /\ thread'[n].child = Fresh
    BY <1>1, <1>3, EmptyThread
  <2> QED
    BY <2>1 DEF Fresh
<1>6. thread[n].life \in Alive /\ thread'[n].life \in Alive
  BY <1>2, <1>3 DEF Alive
<1> QED
  BY <1>2, <1>3, <1>4, <1>5, <1>6, ReplacedKeepsControl

\* Every step keeps the parent in control of its threads.
LEMMA ControlStep ==
    TypesInv /\ ControlInv /\ ~doubled' /\ [Next]_connectionVars => ControlInv'
<1> SUFFICES ASSUME TypesInv, ControlInv, ~doubled', [Next]_connectionVars
             PROVE  ControlInv'
  OBVIOUS
<1>1. ThreadsInv /\ sessions \in Nat
  BY DEF TypesInv, ParentTypes
<1>2. CASE Connect \/ SendCommands \/ FinishDestroy
  BY <1>2, ConnectKeepsControl, SendKeepsControl, FinishKeepsControl
<1>3. CASE Disconnect
  BY <1>3, DisconnectKeepsControl DEF Disconnect
<1>4. CASE Destroy
  <2>1. ~HasDied => destroying' # "no"
    BY <1>4 DEF Destroy
  <2> QED
    BY <1>4, <2>1, DisconnectKeepsControl DEF Destroy
<1>5. ASSUME NEW n \in Threads, ThreadCreated(n)
      PROVE  ControlInv'
  BY <1>5, CreatedKeepsControl
<1>6. ASSUME NEW n \in Threads, ParentTakes(n)
      PROVE  ControlInv'
  <2>1. UNCHANGED userVars
    BY <1>6 DEF ParentTakes
  <2>2. CASE TakeClosed(n) \/ TakeRestarted(n)
    BY <2>1, <2>2, DeathKeepsControl
  <2>3. CASE TakesMessage(n)
    <3>1. /\ RunsOn(n) /\ thread'[n].child = thread[n].child
          /\ Unfinished(thread'[n]) = IF TakeDisconnected(n) THEN Unfinished(thread[n]) - 1
                                      ELSE Unfinished(thread[n])
      BY <1>1, <2>3, MessageEffect
    <3>2. thread'[n].child.closing >= 0
      BY <3>1 DEF ControlInv, Owed
    <3>3. UNCHANGED <<socketProcess, creatingSocket, connecting, destroying, wanted, crossed>>
      BY <2>1, <2>3 DEF userVars, socketVars, TakesMessage, TakeDisconnect, TakeCommands,
           TakeAcknowledged, TakeSent, TakeNotSent, TakeDisconnected
    <3>4. disconnecting' = IF TakeDisconnected(n) THEN FALSE ELSE disconnecting
      BY <2>3 DEF socketVars, TakesMessage, TakeDisconnect, TakeCommands,
           TakeAcknowledged, TakeSent, TakeNotSent, TakeDisconnected
    <3>5. \/ disconnecting' = disconnecting /\ Unfinished(thread'[n]) = Unfinished(thread[n])
          \/ disconnecting' = FALSE /\ Unfinished(thread'[n]) = Unfinished(thread[n]) - 1
      BY <3>1, <3>4
    <3> QED
      BY <1>1, <3>1, <3>2, <3>3, <3>5, ControlGoesOn
  <2> QED
    BY <1>6, <2>2, <2>3 DEF ParentTakes, TakesMessage
<1>7. ASSUME NEW n \in Threads, ChildRuns(n) \/ DeviceStep(n)
      PROVE  ControlInv'
  <2>1. Works(n)
    BY <1>1, <1>7, WorkEffect
  <2>2. UNCHANGED <<socketProcess, creatingSocket, connecting, disconnecting, destroying,
                    wanted>>
    BY <1>7 DEF ChildRuns, DeviceStep, socketVars, userVars
  <2>3. crossed => crossed'
    BY <1>7 DEF ChildRuns, DeviceStep, userVars, TakeConnect, TakeDisconnectCall, TakeSend,
         TakeAnswer, CloseSocket, Redial
  <2>4. thread'[n].child.closing >= 0
    BY <2>1 DEF Works, ControlInv, Owed
  <2> QED
    BY <1>1, <2>1, <2>2, <2>3, <2>4, ControlGoesOn DEF Works
<1>8. ASSUME NEW n \in Threads, Crash(n)
      PROVE  ControlInv'
  BY <1>8, CrashKeepsControl
<1>9. CASE UNCHANGED connectionVars
  BY <1>9 DEF connectionVars, socketVars, userVars, ControlInv, OneThread, Owed,
       IsDestroyed
<1> QED
  BY <1>2, <1>3, <1>4, <1>5, <1>6, <1>7, <1>8, <1>9 DEF Next, ParentStep

\* At first there is no thread to control.
LEMMA ControlInit == Init => ControlInv
<1> SUFFICES ASSUME Init PROVE ControlInv
  OBVIOUS
<1>1. \A n \in Threads : thread[n] = NoThread /\ thread[n].life = "none"
  BY DEF Init, NoThread
<1>2. NoThread = [NoThread EXCEPT !.life = "none"] /\ NoThread.life = "none" /\ "none" \in Life
  BY DEF NoThread, Life
<1>3. Unfinished(NoThread) = 0 /\ NoThread.child.closing = 0 /\ Empty(NoThread)
  <2>1. Unfinished(NoThread) = 0 /\ NoThread.child = Fresh
    BY <1>2, EmptyThread
  <2> QED
    BY <1>2, <2>1 DEF Fresh, Empty
<1>4. OneThread
  BY <1>1, <1>3 DEF Init, OneThread, Alive
<1>5. Owed
  <2>1. \A n \in Threads : /\ thread[n].child.closing >= 0
                           /\ Unfinished(thread[n]) <= IF disconnecting THEN 1 ELSE 0
    BY <1>1, <1>3
  <2> QED
    BY <1>1, <2>1 DEF Init, Owed
<1>6. IsDestroyed
  BY <1>1 DEF IsDestroyed
<1> QED
  BY <1>4, <1>5, <1>6 DEF ControlInv

\* Threads that were asked for at once stay on record.
LEMMA DoubledStays == [Next]_connectionVars /\ doubled => doubled'
<1> SUFFICES ASSUME [Next]_connectionVars, doubled PROVE doubled'
  OBVIOUS
<1>1. CASE Connect
  BY <1>1, Zenon DEF Connect, CreateThread
<1>2. CASE Disconnect \/ Destroy
  BY <1>2 DEF Disconnect, Destroy, CallDisconnect
<1>3. CASE UNCHANGED userVars
  BY <1>3 DEF userVars
<1>4. CASE \E n \in Threads : ChildRuns(n) \/ Crash(n)
  BY <1>4 DEF ChildRuns, Crash
<1>5. CASE UNCHANGED connectionVars
  BY <1>3, <1>5 DEF connectionVars
<1>6. \A n \in Threads : ThreadCreated(n) \/ ParentTakes(n) \/ DeviceStep(n) => UNCHANGED userVars
  BY DEF ThreadCreated, ParentTakes, DeviceStep
<1>7. SendCommands \/ FinishDestroy => UNCHANGED userVars
  BY DEF SendCommands, FinishDestroy
<1> QED
  BY <1>1, <1>2, <1>3, <1>4, <1>5, <1>6, <1>7 DEF Next, ParentStep

\* The parent controls its threads as long as it never asked for one while another was
\* being made: there is one at most, which the parent knows, and it has no disconnect to
\* finish but the one that the parent awaits.
LEMMA AlwaysInControl == Spec => [](TypesInv /\ (doubled \/ ControlInv))
<1>1. Init => TypesInv /\ ControlInv
  BY TypesInit, ControlInit
<1>2. TypesInv /\ (doubled \/ ControlInv) /\ [Next]_connectionVars
         => (TypesInv /\ (doubled \/ ControlInv))'
  BY TypesStep, ControlStep, DoubledStays
<1> QED
  BY <1>1, <1>2, PTL DEF Spec

\* A destroy that was carried out leaves no thread, also when it overtook the creation of
\* the thread, whatever else the user called before: excepted are only two threads that
\* were asked for at once (atemSocket.ts:63-71, 76-90).
THEOREM DestroyAlwaysLeavesNothing == Spec => []DestroyLeavesNothing
<1>1. doubled \/ ControlInv => DestroyLeavesNothing
  BY DEF ControlInv, IsDestroyed, DestroyLeavesNothing
<1> QED
  BY <1>1, AlwaysInControl, PTL

-----------------------------------------------------------------------------
(* The packets a thread carries *)

Up(t) == t.child.state \in {"SynSent", "Established"}

\* An acknowledgement of packet p is among the messages s.
AckUnderWay(s, p) ==
    \E ids \in SUBSET Packets : p \in ids /\ WithIds("acknowledged", ids) \in Elements(s)

\* The parent hears that packet p was sent after it heard of all that ended.
SentIsNews(s, p) == ComesAfter(s, WithIds("sent", {p}), DisconnectReport)

\* The promise of a packet in flight waits, and no end that the parent has yet to hear of
\* can reject it.
Awaited(s, p, outcome) ==
    \/ outcome = "pending" /\ DisconnectReport \notin Elements(s)
    \/ outcome = "sending" /\ SentIsNews(s, p)

\* Thread t carries packet p, whose promise has this outcome, once at most; what is
\* acknowledged was accepted.
Carried(t, p, outcome, accepted_) ==
    /\ Handovers(t, p) <= IF outcome = "sending" THEN 1 ELSE 0
    /\ AckUnderWay(t.outbox, p) => p \in accepted_ /\ outcome # "none"
    /\ p \in t.child.inFlight => /\ outcome # "none" /\ ~AckUnderWay(t.outbox, p)
                                 /\ Up(t) => Awaited(t.outbox, p, outcome)
    /\ WithIds("send", {p}) \in Elements(t.inbox) => /\ p \notin t.child.inFlight
                                                     /\ ~AckUnderWay(t.outbox, p)

PromiseInv ==
    /\ \A p \in Packets : promise[p] = "none" <=> p > sent
    /\ \A n \in Threads : \A p \in Packets : Carried(thread[n], p, promise[p], accepted)

\* Thread t becomes u and carries nothing new of packet p.
KeepsCarrying(t, u, p) ==
    /\ Handovers(u, p) = Handovers(t, p)
    /\ WithIds("send", {p}) \in Elements(u.inbox) => WithIds("send", {p}) \in Elements(t.inbox)
    /\ AckUnderWay(u.outbox, p) => AckUnderWay(t.outbox, p)
    /\ p \in u.child.inFlight => p \in t.child.inFlight
    /\ p \in u.child.inFlight /\ Up(u) =>
          /\ Up(t)
          /\ DisconnectReport \notin Elements(t.outbox) => DisconnectReport \notin Elements(u.outbox)
          /\ SentIsNews(t.outbox, p) => SentIsNews(u.outbox, p)

\* A thread that carries nothing new carries its packets as before.
LEMMA CarriesOn ==
    ASSUME NEW t, NEW u, NEW p, NEW outcome, NEW before, NEW after,
           Carried(t, p, outcome, before), KeepsCarrying(t, u, p), before \subseteq after
    PROVE  Carried(u, p, outcome, after)
  BY DEF Carried, KeepsCarrying, Awaited

\* A thread that holds nothing carries nothing.
LEMMA EmptyCarriesNothing ==
    ASSUME NEW t \in Thread, t.child = Fresh, t.outbox = <<>>,
           NEW p \in Packets, Handovers(t, p) = 0,
           WithIds("send", {p}) \notin Elements(t.inbox), NEW outcome, NEW accepted_
    PROVE  Carried(t, p, outcome, accepted_)
<1>1. t.child.inFlight = {}
  BY DEF Fresh
<1>2. ~AckUnderWay(t.outbox, p)
  BY ElementsOfEmpty DEF AckUnderWay
<1> QED
  BY <1>1, <1>2 DEF Carried

\* What the steps of the child do to the packets in flight.
LEMMA ConditionFlights ==
    ASSUME NEW c \in Condition
    PROVE  /\ c.state = "Established" => /\ Restarted(c).state = "Closed"
                                         /\ Restarted(c).inFlight = c.inFlight
           /\ c.state # "Established" => Restarted(c).inFlight = {}
           /\ Resumed(c).inFlight = {}
           /\ Disconnecting(c).inFlight = c.inFlight
           /\ c.open => Disconnecting(c).state = c.state
           /\ ~c.open => Disconnecting(c).state = "Disconnected"
           /\ ClosedDown(c).inFlight = c.inFlight /\ ClosedDown(c).state = "Disconnected"
           /\ InSession(c).inFlight = c.inFlight /\ InSession(c).state = "Established"
           /\ \A ids : /\ Holding(c, ids).state = c.state
                       /\ Holding(c, ids).inFlight = IF c.open THEN c.inFlight \union ids
                                                     ELSE c.inFlight
                       /\ Relieved(c, ids).state = c.state
                       /\ Relieved(c, ids).inFlight = c.inFlight \ ids
<1>1. ASSUME NEW d \in Condition
      PROVE  Dialled(d).inFlight = {}
  BY DEF Dialled, Condition
<1>2. /\ c.state = "Established" => /\ Restarted(c).state = "Closed"
                                    /\ Restarted(c).inFlight = c.inFlight
      /\ c.state # "Established" => Restarted(c).inFlight = {}
  <2>1. [c EXCEPT !.open = TRUE] \in Condition
    BY DEF Condition
  <2>2. Abandoned(c).state = "Closed" /\ Abandoned(c).inFlight = c.inFlight
    BY DEF Abandoned, Condition
  <2> QED
    BY <1>1, <2>1, <2>2 DEF Restarted
<1>3. Resumed(c).inFlight = {}
  <2>1. [c EXCEPT !.restarting = c.restarting - 1] \in Condition
    BY DEF Condition
  <2> QED
    BY <1>1, <2>1 DEF Resumed
<1>4. /\ Disconnecting(c).inFlight = c.inFlight
      /\ c.open => Disconnecting(c).state = c.state
      /\ ~c.open => Disconnecting(c).state = "Disconnected"
  BY DEF Disconnecting, Condition
<1>5. /\ ClosedDown(c).inFlight = c.inFlight /\ ClosedDown(c).state = "Disconnected"
      /\ InSession(c).inFlight = c.inFlight /\ InSession(c).state = "Established"
  BY DEF ClosedDown, InSession, Condition
<1>6. \A ids : /\ Holding(c, ids).state = c.state
               /\ Holding(c, ids).inFlight = IF c.open THEN c.inFlight \union ids
                                             ELSE c.inFlight
               /\ Relieved(c, ids).state = c.state
               /\ Relieved(c, ids).inFlight = c.inFlight \ ids
  BY DEF Holding, Relieved, Condition
<1> QED
  BY <1>2, <1>3, <1>4, <1>5, <1>6

\* A report that is posted or taken, and the acknowledgements under way.
LEMMA AckUnderWayChanges ==
    ASSUME NEW s \in Seq(Reports), NEW p
    PROVE  /\ \A m \in Reports :
                 (\A ids : m # WithIds("acknowledged", ids)) =>
                    (AckUnderWay(Append(s, m), p) <=> AckUnderWay(s, p))
           /\ \A ids \in SUBSET Packets :
                 AckUnderWay(Append(s, WithIds("acknowledged", ids)), p)
                    => p \in ids \/ AckUnderWay(s, p)
           /\ s # <<>> => (AckUnderWay(Tail(s), p) => AckUnderWay(s, p))
<1>1. \A m \in Reports : Elements(Append(s, m)) = Elements(s) \union {m}
  BY ElementsOfAppend
<1>2. \A ids \in SUBSET Packets : WithIds("acknowledged", ids) \in Reports
  BY DEF Reports
<1>3. s # <<>> => Elements(s) = Elements(Tail(s)) \union {Head(s)}
  BY ElementsOfTail
<1>4. \A ids \in SUBSET Packets :
         AckUnderWay(Append(s, WithIds("acknowledged", ids)), p)
            => p \in ids \/ AckUnderWay(s, p)
  <2> SUFFICES ASSUME NEW ids \in SUBSET Packets,
                      AckUnderWay(Append(s, WithIds("acknowledged", ids)), p)
               PROVE  p \in ids \/ AckUnderWay(s, p)
    OBVIOUS
  <2>1. PICK others \in SUBSET Packets :
           /\ p \in others
           /\ WithIds("acknowledged", others) \in Elements(s) \union {WithIds("acknowledged", ids)}
    BY <1>1, <1>2 DEF AckUnderWay
  <2> QED
    BY <2>1, MessagesDiffer DEF AckUnderWay
<1> QED
  BY <1>1, <1>3, <1>4 DEF AckUnderWay

\* What a thread says besides the end of a session and what becomes of packets.
Chat(m) == /\ m \in Reports /\ m # DisconnectReport
           /\ \A ids : m # WithIds("acknowledged", ids)

\* A thread whose outbox stays, or gets a message that is no end.
LEMMA ChatCarries ==
    ASSUME NEW s \in Seq(Reports), NEW m, Chat(m), NEW p
    PROVE  /\ AckUnderWay(Append(s, m), p) <=> AckUnderWay(s, p)
           /\ DisconnectReport \notin Elements(s)
                 => DisconnectReport \notin Elements(Append(s, m))
           /\ SentIsNews(s, p) => SentIsNews(Append(s, m), p)
<1>1. m \in Reports /\ m # DisconnectReport
  BY DEF Chat
<1>2. Elements(Append(s, m)) = Elements(s) \union {m}
  BY <1>1, ElementsOfAppend
<1>3. SentIsNews(s, p) => SentIsNews(Append(s, m), p)
  BY <1>1, AfterAppend DEF SentIsNews
<1> QED
  BY <1>1, <1>2, <1>3, AckUnderWayChanges DEF Chat

\* How the queues of a thread may change while it carries nothing new of packet p.
QueuesKeep(t, u, p) ==
    /\ \/ u.inbox = t.inbox
       \/ t.inbox # <<>> /\ u.inbox = Tail(t.inbox)
       \/ \E m \in Calls : m # WithIds("send", {p}) /\ u.inbox = Append(t.inbox, m)
    /\ p \in u.child.inFlight => p \in t.child.inFlight
    /\ \/ u.outbox = t.outbox /\ (p \in u.child.inFlight /\ Up(u) => Up(t))
       \/ /\ \E m : Chat(m) /\ u.outbox = Append(t.outbox, m)
          /\ Up(u) => Up(t)
       \/ u.outbox = Append(t.outbox, DisconnectReport) /\ ~Up(u)

\* A thread whose queues keep what they carry of a packet.
LEMMA QueuesCarry ==
    ASSUME NEW t \in Thread, NEW u \in Thread, NEW p \in Packets, QueuesKeep(t, u, p),
           Handovers(u, p) = Handovers(t, p)
    PROVE  KeepsCarrying(t, u, p)
<1>1. t.inbox \in Seq(Calls) /\ t.outbox \in Seq(Reports) /\ DisconnectReport \in Reports
  BY DEF Thread, Reports
<1>2. WithIds("send", {p}) \in Elements(u.inbox) => WithIds("send", {p}) \in Elements(t.inbox)
  <2>1. CASE t.inbox # <<>> /\ u.inbox = Tail(t.inbox)
    BY <1>1, <2>1, ElementsOfTail
  <2>2. CASE \E m \in Calls : m # WithIds("send", {p}) /\ u.inbox = Append(t.inbox, m)
    <3>1. PICK m \in Calls : m # WithIds("send", {p}) /\ u.inbox = Append(t.inbox, m)
      BY <2>2
    <3>2. Elements(u.inbox) = Elements(t.inbox) \union {m}
      BY <1>1, <3>1, ElementsOfAppend
    <3> QED
      BY <3>1, <3>2
  <2> QED
    BY <2>1, <2>2 DEF QueuesKeep
<1>3. p \in u.child.inFlight => p \in t.child.inFlight
  BY DEF QueuesKeep
<1>4. /\ AckUnderWay(u.outbox, p) => AckUnderWay(t.outbox, p)
      /\ p \in u.child.inFlight /\ Up(u) =>
            /\ Up(t)
            /\ DisconnectReport \notin Elements(t.outbox)
                  => DisconnectReport \notin Elements(u.outbox)
            /\ SentIsNews(t.outbox, p) => SentIsNews(u.outbox, p)
  <2>1. CASE u.outbox = t.outbox /\ (p \in u.child.inFlight /\ Up(u) => Up(t))
    BY <2>1
  <2>2. CASE (\E m : Chat(m) /\ u.outbox = Append(t.outbox, m)) /\ (Up(u) => Up(t))
    BY <1>1, <2>2, ChatCarries
  <2>3. CASE u.outbox = Append(t.outbox, DisconnectReport) /\ ~Up(u)
    BY <1>1, <2>3, MessagesDiffer, AckUnderWayChanges
  <2> QED
    BY <2>1, <2>2, <2>3 DEF QueuesKeep
<1> QED
  BY <1>2, <1>3, <1>4 DEF KeepsCarrying

\* A restart carries nothing new.
LEMMA RestartKeeps ==
    ASSUME NEW t \in Thread, NEW u \in Thread, NEW p \in Packets,
           u.inbox = t.inbox \/ (t.inbox # <<>> /\ u.inbox = Tail(t.inbox)),
           u.child = Restarted(t.child),
           t.child.state = "Established" => u.outbox = Append(t.outbox, DisconnectReport),
           t.child.state # "Established" => u.outbox = t.outbox
    PROVE  QueuesKeep(t, u, p)
<1>1. t.child \in Condition
  BY DEF Thread
<1>2. CASE t.child.state = "Established"
  <2>1. u.child.state = "Closed" /\ u.child.inFlight = t.child.inFlight
    BY <1>1, <1>2, ConditionFlights
  <2>2. ~Up(u)
    BY <2>1 DEF Up
  <2> QED
    BY <1>2, <2>1, <2>2 DEF QueuesKeep
<1>3. CASE t.child.state # "Established"
  <2>1. u.child.inFlight = {}
    BY <1>1, <1>3, ConditionFlights
  <2> QED
    BY <1>3, <2>1 DEF QueuesKeep
<1> QED
  BY <1>2, <1>3

\* All that the child and the device do carries nothing new, but a packet that is sent
\* and one that is acknowledged.
LEMMA WorkCarries ==
    ASSUME TypesInv, NEW n \in Threads, ChildRuns(n) \/ DeviceStep(n),
           ~TakeSend(n), ~Acknowledge(n), NEW p \in Packets
    PROVE  KeepsCarrying(thread[n], thread'[n], p)
<1> DEFINE t == thread[n]
           u == thread'[n]
<1>1. /\ ThreadsInv /\ sessions \in Nat
  BY DEF TypesInv, ParentTypes
<1>2. RunsOn(n) /\ Handovers(u, p) = Handovers(t, p)
  BY <1>1, WorkEffect DEF Works
<1>3. t \in Thread /\ u \in Thread /\ t.child \in Condition
  BY <1>1, <1>2 DEF RunsOn, ThreadInv, ThreadsInv, Thread
<1> SUFFICES QueuesKeep(t, u, p)
  BY <1>2, <1>3, QueuesCarry
<1>4. CASE TakeConnect(n)
  BY <1>1, <1>3, <1>4, ConnectEffect, RestartKeeps
<1>5. CASE Redial(n) \/ LoseSession(n)
  <2>1. Runs(n) /\ ThreadBecomes(n, RestartIn(thread[n]))
    BY <1>5 DEF Redial, LoseSession, InSessionAt
  <2> QED
    BY <1>1, <1>3, <2>1, RestartEffect, RestartKeeps
<1>6. CASE TakeDisconnectCall(n)
  <2>1. /\ t.inbox # <<>> /\ u.inbox = Tail(t.inbox) /\ u.child = Disconnecting(t.child)
        /\ t.child.open => u.outbox = t.outbox
        /\ ~t.child.open => u.outbox = Append(t.outbox, DisconnectReport)
    BY <1>1, <1>6, DisconnectEffect
  <2>2. /\ u.child.inFlight = t.child.inFlight
        /\ t.child.open => u.child.state = t.child.state
        /\ ~t.child.open => u.child.state = "Disconnected"
    BY <1>3, <2>1, ConditionFlights
  <2> QED
    BY <2>1, <2>2 DEF QueuesKeep, Up
<1>7. CASE TakeAnswer(n)
  <2>1. /\ t.inbox # <<>> /\ u.inbox = Tail(t.inbox)
        /\ \/ u.child = Resumed(t.child) /\ u.outbox = t.outbox
           \/ u.child = t.child /\ u.outbox = Append(t.outbox, Message("disconnected"))
    BY <1>1, <1>7, AnswerEffect
  <2>2. Chat(Message("disconnected"))
    BY MessagesDiffer DEF Chat, Reports
  <2>3. u.child = Resumed(t.child) => u.child.inFlight = {}
    BY <1>3, ConditionFlights
  <2> QED
    BY <2>1, <2>2, <2>3 DEF QueuesKeep, Up
<1>8. CASE CloseSocket(n)
  <2>1. /\ u.inbox = t.inbox /\ u.child = ClosedDown(t.child)
        /\ u.outbox = Append(t.outbox, DisconnectReport)
    BY <1>1, <1>8, CloseEffect
  <2>2. u.child.inFlight = t.child.inFlight /\ u.child.state = "Disconnected"
    BY <1>3, <2>1, ConditionFlights
  <2> QED
    BY <2>1, <2>2 DEF QueuesKeep, Up
<1>9. CASE StartSession(n)
  <2>1. /\ u.inbox = t.inbox /\ u.outbox = t.outbox /\ u.child = InSession(t.child)
        /\ t.child.state = "SynSent"
    BY <1>1, <1>9, StartEffect
  <2>2. u.child.inFlight = t.child.inFlight
    BY <1>3, <2>1, ConditionFlights
  <2> QED
    BY <2>1, <2>2 DEF QueuesKeep, Up
<1>10. CASE Deliver(n)
  <2>1. /\ u.inbox = t.inbox /\ u.child = t.child /\ t.session \in Nat
        /\ \E batch \in DumpBatch(t.dump) :
              u.outbox = Append(t.outbox, [type |-> "commands", batch |-> batch,
                                           session |-> t.session])
    BY <1>1, <1>3, <1>10, DeliverEffect DEF Thread
  <2>2. PICK batch \in DumpBatch(t.dump) :
           u.outbox = Append(t.outbox, [type |-> "commands", batch |-> batch,
                                        session |-> t.session])
    BY <2>1
  <2>3. batch \in Batch
    BY <2>2 DEF DumpBatch, Batch
  <2> DEFINE m == [type |-> "commands", batch |-> batch, session |-> t.session]
  <2>4. m \in [type : {"commands"}, batch : Batch, session : Nat]
    BY <2>1, <2>3
  <2> HIDE DEF m
  <2>5. m \in Reports /\ m # DisconnectReport /\ \A ids : m # WithIds("acknowledged", ids)
    BY <2>4, MessagesDiffer DEF Reports
  <2>6. Chat(m) /\ u.outbox = Append(t.outbox, m)
    BY <2>2, <2>5 DEF Chat, m
  <2> QED
    BY <2>1, <2>6 DEF QueuesKeep, Up
<1> QED
  BY <1>4, <1>5, <1>6, <1>7, <1>8, <1>9, <1>10 DEF ChildRuns, DeviceStep

\* A handover that is under way is counted.
LEMMA HandoverIsCounted ==
    ASSUME NEW t \in Thread, NEW p \in Packets
    PROVE  /\ Handovers(t, p) \in Nat
           /\ WithIds("send", {p}) \in Elements(t.inbox) => Handovers(t, p) > 0
           /\ WithIds("sent", {p}) \in Elements(t.outbox) => Handovers(t, p) > 0
<1> DEFINE a == Count(t.inbox, WithIds("send", {p}))
           b == Count(t.outbox, WithIds("sent", {p}))
           c == Count(t.outbox, WithIds("notSent", {p}))
<1>1. a \in Nat /\ b \in Nat /\ c \in Nat
  BY CountsOfThread
<1>2. /\ WithIds("send", {p}) \in Elements(t.inbox) => a > 0
      /\ WithIds("sent", {p}) \in Elements(t.outbox) => b > 0
  BY CountOfElement DEF Thread
<1>3. Handovers(t, p) = a + b + c
  BY DEF Handovers
<1> HIDE DEF a, b, c
<1> QED
  BY <1>1, <1>2, <1>3

\* The child takes a packet and says whether it was sent.
LEMMA SendCarries ==
    ASSUME TypesInv, NEW n \in Threads, TakeSend(n), NEW q \in Packets, NEW outcome,
           NEW accepted_, Carried(thread[n], q, outcome, accepted_)
    PROVE  Carried(thread'[n], q, outcome, accepted_)
<1> DEFINE t == thread[n]
           u == thread'[n]
<1>1. ThreadsInv
  BY DEF TypesInv
<1>2. /\ RunsOn(n) /\ Handovers(u, q) = Handovers(t, q)
      /\ t.inbox # <<>> /\ u.inbox = Tail(t.inbox)
  BY <1>1, SendEffect
<1>3. PICK p \in Packets :
         /\ Head(t.inbox) = WithIds("send", {p})
         /\ u.child = Holding(t.child, {p})
         /\ Handovers(t, p) > 0
         /\ u.outbox = Append(t.outbox, WithIds(IF t.child.open THEN "sent" ELSE "notSent", {p}))
  BY <1>1, SendEffect
<1>4. t \in Thread /\ u \in Thread /\ t.child \in Condition /\ t.outbox \in Seq(Reports)
      /\ t.inbox \in Seq(Calls) /\ Tail(t.inbox) \in Seq(Calls)
  <2>1. t \in Thread /\ u \in Thread /\ t.child \in Condition /\ t.outbox \in Seq(Reports)
        /\ t.inbox \in Seq(Calls)
    BY <1>1, <1>2 DEF RunsOn, ThreadInv, ThreadsInv, Thread
  <2> QED
    BY <1>2, <2>1, HeadTailProperties
<1>5. /\ u.child.state = t.child.state
      /\ u.child.inFlight = IF t.child.open THEN t.child.inFlight \union {p}
                            ELSE t.child.inFlight
  <2>1. t.child \in Condition
    BY <1>4
  <2>2. u.child = Holding(t.child, {p})
    BY <1>3
  <2> QED
    BY <2>1, <2>2 DEF Holding, Condition
<1> DEFINE m == WithIds(IF t.child.open THEN "sent" ELSE "notSent", {p})
<1>6. Chat(m) /\ m \in Reports /\ m # DisconnectReport
  <2>1. "sent" # "acknowledged" /\ "notSent" # "acknowledged"
    OBVIOUS
  <2>2. m \in Reports /\ m # DisconnectReport
    BY MessagesDiffer DEF Reports
  <2>3. \A ids : m # WithIds("acknowledged", ids)
    BY <2>1, MessagesDiffer
  <2> HIDE DEF m
  <2> QED
    BY <2>2, <2>3 DEF Chat
<1>7. u.outbox = Append(t.outbox, m)
  BY <1>3
<1>8. Up(u) => Up(t)
  BY <1>5 DEF Up
<1>9. CASE q # p
  <2>1. q \in u.child.inFlight => q \in t.child.inFlight
    BY <1>5, <1>9
  <2> HIDE DEF m
  <2>2. QueuesKeep(t, u, q)
    BY <1>2, <1>6, <1>7, <1>8, <2>1 DEF QueuesKeep
  <2>3. KeepsCarrying(t, u, q)
    BY <1>2, <1>4, <2>2, QueuesCarry
  <2> QED
    BY <2>3, CarriesOn
<1>10. CASE q = p
  <2> DEFINE x == WithIds("send", {p})
  <2>1. Elements(t.inbox) = Elements(Tail(t.inbox)) \union {x}
    BY <1>2, <1>3, <1>4, ElementsOfTail
  <2>2. p \notin t.child.inFlight /\ ~AckUnderWay(t.outbox, p)
    BY <1>10, <2>1 DEF Carried
  <2>3. outcome = "sending" /\ Handovers(t, p) = 1
    <3>1. Handovers(t, p) <= IF outcome = "sending" THEN 1 ELSE 0
      BY <1>10 DEF Carried
    <3>2. Handovers(t, p) \in Nat
      BY <1>4, HandoverIsCounted
    <3> QED
      BY <1>3, <3>1, <3>2
  <2>4. x \notin Elements(u.inbox)
    <3> DEFINE a == Count(t.inbox, x)
               b == Count(t.outbox, WithIds("sent", {p}))
               c == Count(t.outbox, WithIds("notSent", {p}))
               d == Count(Tail(t.inbox), x)
    <3>1. a \in Nat /\ b \in Nat /\ c \in Nat /\ d \in Nat
      BY <1>4, CountsOfThread, PositionsAreFinite
    <3>2. a + b + c = 1
      BY <2>3 DEF Handovers
    <3>3. a = d + 1
      BY <1>2, <1>3, <1>4, CountOfTail
    <3>4. d = 0
      <4> HIDE DEF a, b, c, d
      <4> QED
        BY <3>1, <3>2, <3>3
    <3> QED
      BY <1>2, <1>4, <3>4, CountOfElement
  <2>5. ~AckUnderWay(u.outbox, p)
    <3> HIDE DEF m
    <3> QED
      BY <1>4, <1>6, <1>7, <2>2, ChatCarries
  <2>6. p \in u.child.inFlight => SentIsNews(u.outbox, p)
    <3>1. CASE t.child.open
      <4>1. m = WithIds("sent", {p})
        BY <3>1
      <4> HIDE DEF m
      <4>2. ComesAfter(Append(t.outbox, m), m, DisconnectReport)
        BY <1>4, <1>6, AfterAppend
      <4> QED
        BY <1>7, <4>1, <4>2 DEF SentIsNews
    <3>2. CASE ~t.child.open
      BY <1>5, <2>2, <3>2
    <3> QED
      BY <3>1, <3>2
  <2>7. Handovers(u, p) <= 1
    BY <1>2, <1>10, <2>3
  <2> QED
    BY <1>10, <2>3, <2>4, <2>5, <2>6, <2>7 DEF Carried, Awaited
<1> QED
  BY <1>9, <1>10

\* The device accepts packets, and their acknowledgement is under way.
LEMMA AcknowledgeCarries ==
    ASSUME TypesInv, NEW n \in Threads, Acknowledge(n), NEW q \in Packets, NEW outcome,
           Carried(thread[n], q, outcome, accepted)
    PROVE  Carried(thread'[n], q, outcome, accepted')
<1> DEFINE t == thread[n]
           u == thread'[n]
<1>1. ThreadsInv
  BY DEF TypesInv
<1>2. /\ RunsOn(n) /\ Handovers(u, q) = Handovers(t, q) /\ u.inbox = t.inbox
  BY <1>1, AcknowledgeEffect
<1>3. PICK ids \in SUBSET t.child.inFlight :
         /\ u.child = Relieved(t.child, ids) /\ ids \in SUBSET Packets
         /\ u.outbox = Append(t.outbox, WithIds("acknowledged", ids))
         /\ accepted' = accepted \union ids
  BY <1>1, AcknowledgeEffect
<1>4. t \in Thread /\ u \in Thread /\ t.child \in Condition /\ t.outbox \in Seq(Reports)
  BY <1>1, <1>2 DEF RunsOn, ThreadInv, ThreadsInv, Thread
<1>5. u.child.state = t.child.state /\ u.child.inFlight = t.child.inFlight \ ids
  <2>1. t.child \in Condition
    BY <1>4
  <2>2. /\ Relieved(t.child, ids).state = t.child.state
        /\ Relieved(t.child, ids).inFlight = t.child.inFlight \ ids
    BY <2>1, ConditionFlights
  <2> QED
    BY <1>3, <2>2
<1> DEFINE m == WithIds("acknowledged", ids)
<1>6. /\ m \in Reports /\ m # DisconnectReport /\ m # WithIds("sent", {q})
  <2>1. "sent" # "acknowledged"
    OBVIOUS
  <2> QED
    BY <1>3, <2>1, MessagesDiffer DEF Reports
<1>7. AckUnderWay(u.outbox, q) => q \in ids \/ AckUnderWay(t.outbox, q)
  BY <1>3, <1>4, AckUnderWayChanges
<1>8. CASE q \in ids
  BY <1>2, <1>3, <1>5, <1>8 DEF Carried
<1>9. CASE q \notin ids
  <2>1. u.outbox = Append(t.outbox, m)
    BY <1>3
  <2> HIDE DEF m
  <2>2. Elements(u.outbox) = Elements(t.outbox) \union {m}
    BY <1>4, <1>6, <2>1, ElementsOfAppend
  <2>3. SentIsNews(t.outbox, q) => SentIsNews(u.outbox, q)
    BY <1>4, <1>6, <2>1, AfterAppend DEF SentIsNews
  <2>4. KeepsCarrying(t, u, q)
    BY <1>2, <1>5, <1>6, <1>7, <1>9, <2>2, <2>3 DEF KeepsCarrying, Up
  <2> QED
    BY <1>3, <2>4, CarriesOn
<1> QED
  BY <1>8, <1>9

\* A thread that does not run carries nothing, whatever became of the packets.
LEMMA EmptyThreadCarries ==
    ASSUME NEW t \in Thread, Empty(t), NEW p \in Packets, NEW outcome, NEW accepted_
    PROVE  Carried(t, p, outcome, accepted_)
<1>1. /\ Handovers(t, p) = 0 /\ t.child = Fresh /\ t.outbox = <<>> /\ t.inbox = <<>>
  BY EmptyOwesNothing
<1>2. WithIds("send", {p}) \notin Elements(t.inbox)
  BY <1>1, ElementsOfEmpty
<1> QED
  BY <1>1, <1>2, EmptyCarriesNothing

\* It is enough to look at the thread that runs.
LEMMA RunningCarries ==
    ASSUME ThreadsInv', OneThread',
           \A p \in Packets : promise'[p] = "none" <=> p > sent',
           \A n \in Threads : thread'[n].life = "running" =>
              \A p \in Packets : Carried(thread'[n], p, promise'[p], accepted')
    PROVE  PromiseInv'
<1>1. ASSUME NEW n \in Threads, thread'[n].life # "running", NEW p \in Packets
      PROVE  Carried(thread'[n], p, promise'[p], accepted')
  <2>1. thread'[n] \in Thread /\ Empty(thread'[n])
    BY <1>1 DEF ThreadsInv, OneThread
  <2> QED
    BY <2>1, EmptyThreadCarries
<1> QED
  BY <1>1 DEF PromiseInv

\* The parent hands a packet to its thread.
LEMMA SendCommandsCarries ==
    ASSUME TypesInv, OneThread, OneThread', PromiseInv, SendCommands
    PROVE  PromiseInv'
<1> DEFINE p == sent + 1
           n == socketProcess
<1>1. /\ p \in Packets /\ n \in Threads /\ sent \in Nat /\ sent' = p /\ n # 0
      /\ promise \in [Packets -> Outcomes] /\ accepted' = accepted
      /\ Call(n, WithIds("send", {p}))
  <2>1. /\ sent \in 0 .. MaxPackets /\ sent < MaxPackets /\ socketProcess \in 0 .. MaxThreads
        /\ socketProcess # 0 /\ sent' = sent + 1 /\ promise \in [Packets -> Outcomes]
        /\ accepted' = accepted
    BY DEF TypesInv, ParentTypes, SendCommands
  <2>2. p \in Packets /\ n \in Threads /\ sent \in Nat
    BY <2>1, ConnectionAssumption DEF Packets, Threads
  <2>3. Call(socketProcess, WithIds("send", {sent'}))
    BY DEF SendCommands
  <2> QED
    BY <2>1, <2>2, <2>3
<1>2. /\ promise'[p] = IF Runs(n) THEN "sending" ELSE "failed"
      /\ \A q \in Packets \ {p} : promise'[q] = promise[q]
  BY <1>1 DEF SendCommands
<1>3. promise[p] = "none" /\ \A q \in Packets : promise'[q] = "none" <=> q > sent'
  <2>1. \A q \in Packets : q \in Nat
    BY DEF Packets
  <2>2. \A q \in Packets : promise[q] = "none" <=> q > sent
    BY DEF PromiseInv
  <2> HIDE DEF n
  <2>3. promise[p] = "none"
    BY <1>1, <2>2
  <2>4. ASSUME NEW q \in Packets
        PROVE  promise'[q] = "none" <=> q > sent'
    BY <1>1, <1>2, <2>1, <2>2
  <2> QED
    BY <2>3, <2>4
<1>4. ThreadsInv /\ WithIds("send", {p}) \in Calls /\ WithIds("send", {p}) # Message("answer")
  BY <1>1, CallsAreCalls DEF TypesInv
<1>5. /\ ThreadsInv' /\ \A k \in Threads : thread'[k].life = thread[k].life
      /\ \A k \in Threads \ {n} : thread'[k] = thread[k]
      /\ ~Runs(n) => thread' = thread
  <2> HIDE DEF n, p
  <2> QED
    BY <1>1, <1>4, CallEffect
<1>6. ASSUME NEW k \in Threads, thread'[k].life = "running", NEW q \in Packets
      PROVE  Carried(thread'[k], q, promise'[q], accepted')
  <2> DEFINE t == thread[k]
             u == thread'[k]
  <2>1. k = n /\ Runs(n)
    BY <1>5, <1>6 DEF OneThread, Alive, Runs
  <2>2. /\ t \in Thread /\ u \in Thread /\ Carried(t, q, promise[q], accepted)
        /\ t.inbox \in Seq(Calls)
    BY <1>4, <1>5 DEF ThreadsInv, PromiseInv, Thread
  <2>3. /\ u.inbox = Append(t.inbox, WithIds("send", {p})) /\ u.outbox = t.outbox
        /\ u.child = t.child
    <3>1. Call(k, WithIds("send", {p})) /\ Runs(k)
      BY <1>1, <2>1
    <3> QED
      BY <1>4, <3>1, CallQueues
  <2>4. Handovers(u, q) = IF q = p THEN Handovers(t, q) + 1 ELSE Handovers(t, q)
    <3>1. Call(k, WithIds("send", {p})) /\ Runs(k)
      BY <1>1, <2>1
    <3>2. Handovers(u, q) = IF WithIds("send", {p}) = WithIds("send", {q})
                            THEN Handovers(t, q) + 1 ELSE Handovers(t, q)
      BY <1>4, <3>1, CallEffect
    <3>3. WithIds("send", {p}) = WithIds("send", {q}) <=> p = q
      BY MessagesDiffer
    <3> QED
      BY <3>2, <3>3
  <2>5. CASE q # p
    <3>1. WithIds("send", {p}) # WithIds("send", {q})
      BY <2>5, MessagesDiffer
    <3>2. QueuesKeep(t, u, q)
      BY <1>4, <2>3, <3>1 DEF QueuesKeep, Up
    <3>3. KeepsCarrying(t, u, q)
      BY <2>2, <2>4, <2>5, <3>2, QueuesCarry
    <3> QED
      BY <1>1, <1>2, <2>2, <2>5, <3>3, CarriesOn
  <2>6. CASE q = p
    <3>1. promise[q] = "none" /\ promise'[q] = "sending"
      BY <1>2, <1>3, <2>1, <2>6
    <3>2. Handovers(t, q) \in Nat /\ Handovers(t, q) <= 0
      BY <2>2, <3>1, CountsOfThread DEF Carried
    <3>3. Handovers(u, q) <= 1
      BY <2>4, <2>6, <3>2
    <3>4. ~AckUnderWay(t.outbox, q) /\ q \notin t.child.inFlight
      BY <2>2, <3>1 DEF Carried
    <3> QED
      BY <2>3, <3>1, <3>3, <3>4 DEF Carried
  <2> QED
    BY <2>5, <2>6
<1> QED
  BY <1>3, <1>5, <1>6, RunningCarries

\* The child and the device work.
LEMMA WorkKeepsPromises ==
    ASSUME TypesInv, OneThread', PromiseInv, NEW n \in Threads, ChildRuns(n) \/ DeviceStep(n)
    PROVE  PromiseInv'
<1>1. ThreadsInv /\ sessions \in Nat
  BY DEF TypesInv, ParentTypes
<1>2. RunsOn(n) /\ ThreadsInv'
  BY <1>1, WorkEffect DEF Works, RunsOn
<1>3. promise' = promise /\ sent' = sent
  BY DEF ChildRuns, DeviceStep, promiseVars
<1>4. accepted \subseteq accepted'
  BY DEF ChildRuns, DeviceStep, StartSession, Deliver, Acknowledge, LoseSession
<1>5. \A p \in Packets : promise'[p] = "none" <=> p > sent'
  BY <1>3 DEF PromiseInv
<1>6. ASSUME NEW p \in Packets
      PROVE  Carried(thread'[n], p, promise'[p], accepted')
  <2>1. Carried(thread[n], p, promise[p], accepted)
    BY DEF PromiseInv
  <2>2. CASE TakeSend(n)
    <3>1. Carried(thread'[n], p, promise[p], accepted)
      BY <2>1, <2>2, SendCarries
    <3> QED
      BY <1>3, <1>4, <3>1 DEF Carried
  <2>3. CASE Acknowledge(n)
    BY <1>3, <2>1, <2>3, AcknowledgeCarries
  <2>4. CASE ~TakeSend(n) /\ ~Acknowledge(n)
    BY <1>3, <1>4, <2>1, <2>4, WorkCarries, CarriesOn
  <2> QED
    BY <2>2, <2>3, <2>4
<1>7. \A k \in Threads : thread'[k].life = "running" => k = n
  BY <1>2 DEF OneThread, Alive, RunsOn
<1> QED
  BY <1>2, <1>5, <1>6, <1>7, RunningCarries

\* The parent takes a message that does not tell what became of packet p.
LEMMA TailKeeps ==
    ASSUME NEW t \in Thread, NEW u \in Thread, NEW p \in Packets, t.outbox # <<>>,
           Head(t.outbox) # WithIds("sent", {p}), u.outbox = Tail(t.outbox),
           u.inbox = t.inbox \/ u.inbox = Append(t.inbox, Message("answer")),
           u.child = t.child, Handovers(u, p) = Handovers(t, p)
    PROVE  KeepsCarrying(t, u, p)
<1>1. t.inbox \in Seq(Calls) /\ t.outbox \in Seq(Reports)
  BY DEF Thread
<1>2. Message("answer") \in Calls /\ Message("answer") # WithIds("send", {p})
  BY MessagesDiffer DEF Calls
<1>3. WithIds("send", {p}) \in Elements(u.inbox) => WithIds("send", {p}) \in Elements(t.inbox)
  <2>1. Elements(Append(t.inbox, Message("answer")))
            = Elements(t.inbox) \union {Message("answer")}
    BY <1>1, <1>2, ElementsOfAppend
  <2> QED
    BY <1>2, <2>1
<1>4. AckUnderWay(u.outbox, p) => AckUnderWay(t.outbox, p)
  BY <1>1, AckUnderWayChanges
<1>5. DisconnectReport \notin Elements(t.outbox) => DisconnectReport \notin Elements(u.outbox)
  BY <1>1, ElementsOfTail
<1>6. SentIsNews(t.outbox, p) => SentIsNews(u.outbox, p)
  BY <1>1, AfterTail DEF SentIsNews
<1> QED
  BY <1>3, <1>4, <1>5, <1>6 DEF KeepsCarrying, Up

\* The parent hears of the end of a session.
LEMMA DisconnectCarries ==
    ASSUME ThreadsInv, NEW n \in Threads, TakeDisconnect(n), NEW p \in Packets,
           promise \in [Packets -> Outcomes], Carried(thread[n], p, promise[p], accepted)
    PROVE  Carried(thread'[n], p, promise'[p], accepted)
<1> DEFINE t == thread[n]
           u == thread'[n]
<1>1. /\ RunsOn(n) /\ t.outbox # <<>> /\ Head(t.outbox) = DisconnectReport
      /\ u.child = t.child /\ u.inbox = Append(t.inbox, Message("answer"))
      /\ u.outbox = Tail(t.outbox) /\ Handovers(u, p) = Handovers(t, p)
  BY EndTakenEffect DEF TakeDisconnect
<1>2. promise'[p] = IF promise[p] = "pending" THEN "rejected" ELSE promise[p]
  BY DEF TakeDisconnect, OnDisconnect, Become
<1>3. t \in Thread /\ u \in Thread /\ t.outbox \in Seq(Reports)
  BY <1>1 DEF RunsOn, ThreadInv, ThreadsInv, Thread
<1>4. KeepsCarrying(t, u, p)
  BY <1>1, <1>3, TailKeeps, MessagesDiffer
<1>5. Carried(u, p, promise[p], accepted)
  BY <1>4, CarriesOn
<1>6. CASE promise[p] = "pending"
  <2>1. DisconnectReport \in Elements(t.outbox)
    BY <1>1, <1>3, ElementsOfTail
  <2>2. ~(p \in u.child.inFlight /\ Up(u))
    BY <1>1, <1>6, <2>1 DEF Carried, Awaited, Up
  <2> QED
    BY <1>2, <1>5, <1>6, <2>2 DEF Carried
<1> QED
  BY <1>2, <1>5, <1>6

\* The parent hears what became of packets, and takes its other messages.
LEMMA MessageCarries ==
    ASSUME ThreadsInv, NEW n \in Threads, NEW p \in Packets,
           promise \in [Packets -> Outcomes], Carried(thread[n], p, promise[p], accepted),
           \/ TakeCommands(n) \/ TakeAcknowledged(n) \/ TakeSent(n) \/ TakeNotSent(n)
           \/ TakeDisconnected(n)
    PROVE  Carried(thread'[n], p, promise'[p], accepted)
<1> DEFINE t == thread[n]
           u == thread'[n]
           m == Head(t.outbox)
<1>1. PICK type \in {"commands", "acknowledged", "sent", "notSent", "disconnected"} :
         /\ Next1(n, type) /\ thread' = [thread EXCEPT ![n] = Taken(n)]
         /\ type = "acknowledged" => Become(m.ids, "pending", "resolved")
         /\ type = "sent" => Become(m.ids, "sending", "pending")
         /\ type = "notSent" => Become(m.ids, "sending", "failed")
         /\ type \in {"commands", "disconnected"} => promise' = promise
  <2>1. TakeCommands(n) => promise' = promise
    BY DEF TakeCommands, MutateState
  <2>2. CASE TakeCommands(n)
    BY <2>1, <2>2 DEF TakeCommands
  <2>3. CASE TakeAcknowledged(n)
    BY <2>3 DEF TakeAcknowledged
  <2>4. CASE TakeSent(n)
    BY <2>4 DEF TakeSent
  <2>5. CASE TakeNotSent(n)
    BY <2>5 DEF TakeNotSent
  <2>6. CASE TakeDisconnected(n)
    BY <2>6 DEF TakeDisconnected, promiseVars
  <2> QED
    BY <2>2, <2>3, <2>4, <2>5, <2>6
<1>2. /\ RunsOn(n) /\ t.outbox # <<>> /\ m \in Reports /\ m.type = type
      /\ u.child = t.child /\ u.inbox = t.inbox /\ u.outbox = Tail(t.outbox)
      /\ Handovers(u, p) = IF m \in {WithIds("sent", {p}), WithIds("notSent", {p})}
                           THEN Handovers(t, p) - 1 ELSE Handovers(t, p)
  <2>1. type # "disconnect"
    OBVIOUS
  <2> QED
    BY <1>1, <2>1, TakenEffect
<1>3. t \in Thread /\ u \in Thread /\ t.outbox \in Seq(Reports)
  BY <1>2 DEF RunsOn, ThreadInv, ThreadsInv, Thread
<1>4. CASE m \notin {WithIds("sent", {p}), WithIds("notSent", {p})}
  <2>1. KeepsCarrying(t, u, p)
    BY <1>2, <1>3, <1>4, TailKeeps
  <2>2. Carried(u, p, promise[p], accepted)
    BY <2>1, CarriesOn
  <2>3. CASE promise'[p] = promise[p]
    BY <2>2, <2>3
  <2>4. CASE promise'[p] # promise[p]
    <3>1. type \in {"acknowledged", "sent", "notSent"} /\ p \in m.ids
      BY <1>1, <2>4 DEF Become
    <3>2. PICK ids \in SUBSET Packets : m = WithIds("acknowledged", ids)
      <4>1. \A q : WithIds("sent", {q}).ids = {q} /\ WithIds("notSent", {q}).ids = {q}
        BY DEF WithIds
      <4>2. ~(\E q \in Packets : m = WithIds("sent", {q}) \/ m = WithIds("notSent", {q}))
        BY <1>4, <3>1, <4>1
      <4>3. /\ DisconnectReport.type = "disconnect"
            /\ Message("disconnected").type = "disconnected"
            /\ \A x \in [type : {"commands"}, batch : Batch, session : Nat] :
                  x.type = "commands"
        BY DEF DisconnectReport, Message
      <4> QED
        BY <1>2, <3>1, <4>2, <4>3 DEF Reports
    <3>3. m.ids = ids /\ m.type = "acknowledged" /\ p \in ids
      BY <3>1, <3>2 DEF WithIds
    <3>4. promise[p] = "pending" /\ promise'[p] = "resolved"
      BY <1>1, <1>2, <2>4, <3>3 DEF Become
    <3>5. AckUnderWay(t.outbox, p)
      <4>1. m \in Elements(t.outbox)
        BY <1>2, <1>3, ElementsOfTail
      <4> QED
        BY <3>2, <3>3, <4>1 DEF AckUnderWay
    <3>6. p \notin u.child.inFlight /\ WithIds("send", {p}) \notin Elements(u.inbox)
      BY <1>2, <3>5 DEF Carried
    <3> QED
      BY <2>2, <3>4, <3>6 DEF Carried
  <2> QED
    BY <2>3, <2>4
<1>5. CASE m \in {WithIds("sent", {p}), WithIds("notSent", {p})}
  <2>1. promise[p] = "sending" /\ Handovers(u, p) = 0
    <3>1. Handovers(t, p) \in Nat /\ Handovers(u, p) \in Nat
      BY <1>3, HandoverIsCounted
    <3>2. Handovers(t, p) <= IF promise[p] = "sending" THEN 1 ELSE 0
      BY DEF Carried
    <3>3. Handovers(u, p) = Handovers(t, p) - 1
      BY <1>2, <1>5
    <3> QED
      BY <3>1, <3>2, <3>3
  <2>2. /\ promise'[p] = IF m = WithIds("sent", {p}) THEN "pending" ELSE "failed"
    <3>1. /\ WithIds("sent", {p}).type = "sent" /\ WithIds("sent", {p}).ids = {p}
          /\ WithIds("notSent", {p}).type = "notSent" /\ WithIds("notSent", {p}).ids = {p}
      BY DEF WithIds
    <3>2. CASE m = WithIds("sent", {p})
      BY <1>1, <1>2, <2>1, <3>1, <3>2 DEF Become
    <3>3. CASE m = WithIds("notSent", {p})
      BY <1>1, <1>2, <2>1, <3>1, <3>3 DEF Become
    <3> QED
      BY <1>5, <3>2, <3>3
  <2>3. /\ WithIds("send", {p}) \notin Elements(u.inbox)
        /\ WithIds("sent", {p}) \notin Elements(u.outbox)
    <3>1. u \in Thread /\ ~(Handovers(u, p) > 0)
      BY <1>3, <2>1
    <3> HIDE DEF t, u
    <3> QED
      BY <3>1, HandoverIsCounted
  <2>4. /\ AckUnderWay(u.outbox, p) => AckUnderWay(t.outbox, p)
    BY <1>2, <1>3, AckUnderWayChanges
  <2>5. ASSUME p \in u.child.inFlight, Up(u)
        PROVE  Awaited(u.outbox, p, promise'[p])
    <3>1. SentIsNews(t.outbox, p)
      BY <1>2, <2>1, <2>5 DEF Carried, Awaited, Up
    <3>2. ComesAfter(t.outbox, WithIds("sent", {p}), DisconnectReport)
      BY <3>1 DEF SentIsNews
    <3>3. ~ComesAfter(Tail(t.outbox), WithIds("sent", {p}), DisconnectReport)
      BY <1>2, <1>3, <2>3, <3>2, AfterTail
    <3>4. DisconnectReport \notin Elements(u.outbox) /\ m = WithIds("sent", {p})
      BY <1>2, <1>3, <3>2, <3>3, AfterTail
    <3> QED
      BY <2>2, <3>4 DEF Awaited
  <2> QED
    BY <1>2, <2>1, <2>2, <2>3, <2>4, <2>5 DEF Carried
<1> QED
  BY <1>4, <1>5

\* The parent takes a message.
LEMMA MessageKeepsPromises ==
    ASSUME TypesInv, OneThread', PromiseInv, NEW n \in Threads, TakesMessage(n),
           accepted' = accepted
    PROVE  PromiseInv'
<1>1. ThreadsInv /\ promise \in [Packets -> Outcomes]
  BY DEF TypesInv, ParentTypes
<1>2. RunsOn(n) /\ ThreadsInv'
  BY <1>1, MessageEffect DEF RunsOn
<1>3. sent' = sent
  BY DEF TakesMessage, TakeDisconnect, TakeCommands, TakeAcknowledged, TakeSent, TakeNotSent,
         TakeDisconnected, promiseVars
<1>4. ASSUME NEW p \in Packets
      PROVE  promise'[p] = "none" <=> p > sent'
  <2>1. promise[p] = "none" <=> p > sent'
    BY <1>3 DEF PromiseInv
  <2>2. promise'[p] = "none" <=> promise[p] = "none"
    <3>1. CASE TakeCommands(n) \/ TakeDisconnected(n)
      BY <3>1 DEF TakeCommands, MutateState, TakeDisconnected, promiseVars
    <3>2. CASE TakeDisconnect(n)
      BY <3>2 DEF TakeDisconnect, OnDisconnect, Become
    <3>3. CASE TakeAcknowledged(n)
      BY <3>3 DEF TakeAcknowledged, Become
    <3>4. CASE TakeSent(n)
      BY <3>4 DEF TakeSent, Become
    <3>5. CASE TakeNotSent(n)
      BY <3>5 DEF TakeNotSent, Become
    <3> QED
      BY <3>1, <3>2, <3>3, <3>4, <3>5 DEF TakesMessage
  <2> QED
    BY <2>1, <2>2
<1>5. ASSUME NEW p \in Packets
      PROVE  Carried(thread'[n], p, promise'[p], accepted')
  <2>1. Carried(thread[n], p, promise[p], accepted)
    BY DEF PromiseInv
  <2>2. CASE TakeDisconnect(n)
    BY <1>1, <2>1, <2>2, DisconnectCarries
  <2>3. CASE ~TakeDisconnect(n)
    BY <1>1, <2>1, <2>3, MessageCarries DEF TakesMessage
  <2> QED
    BY <2>2, <2>3
<1>6. \A k \in Threads : thread'[k].life = "running" => k = n
  BY <1>2 DEF OneThread, Alive, RunsOn
<1> QED
  BY <1>2, <1>4, <1>5, <1>6, RunningCarries

\* The parent calls its thread, but for a packet.
LEMMA CallKeepsPromises ==
    ASSUME TypesInv, OneThread, OneThread', PromiseInv, socketProcess # 0,
           NEW m \in {Message("connect"), Message("disconnect")}, Call(socketProcess, m),
           UNCHANGED <<promise, sent, accepted>>
    PROVE  PromiseInv'
<1> DEFINE n == socketProcess
<1>1. ThreadsInv /\ n \in Threads
  BY DEF TypesInv, ParentTypes, Threads
<1>2. m \in Calls /\ m # Message("answer") /\ \A p : m # WithIds("send", {p})
  BY CallsAreCalls, MessagesDiffer
<1>3. Call(n, m)
  OBVIOUS
<1> HIDE DEF n
<1>4. /\ ThreadsInv' /\ \A k \in Threads \ {n} : thread'[k] = thread[k]
      /\ ~Runs(n) => thread' = thread
  BY <1>1, <1>2, <1>3, CallEffect
<1>5. ASSUME NEW k \in Threads, thread'[k].life = "running", NEW p \in Packets
      PROVE  Carried(thread'[k], p, promise[p], accepted)
  <2>1. thread[k] \in Thread /\ thread'[k] \in Thread
    BY <1>1, <1>4 DEF ThreadsInv
  <2>2. Carried(thread[k], p, promise[p], accepted)
    BY DEF PromiseInv
  <2>3. CASE k = n /\ Runs(n)
    <3>1. /\ thread'[n].inbox = Append(thread[n].inbox, m)
          /\ thread'[n].outbox = thread[n].outbox /\ thread'[n].child = thread[n].child
      BY <1>1, <1>3, <2>3, CallQueues
    <3>2. Handovers(thread'[n], p) = Handovers(thread[n], p)
      BY <1>1, <1>2, <1>3, <2>3, CallEffect
    <3>3. QueuesKeep(thread[n], thread'[n], p)
      BY <1>2, <3>1 DEF QueuesKeep, Up
    <3> QED
      BY <2>1, <2>2, <2>3, <3>2, <3>3, QueuesCarry, CarriesOn
  <2>4. CASE ~(k = n /\ Runs(n))
    BY <1>4, <2>2, <2>4
  <2> QED
    BY <2>3, <2>4
<1> QED
  BY <1>4, <1>5, RunningCarries DEF PromiseInv

\* A thread that was asked for is there: it has nothing to carry.
LEMMA CreatedKeepsPromises ==
    ASSUME TypesInv, OneThread, OneThread', PromiseInv, NEW n \in Threads, ThreadCreated(n)
    PROVE  PromiseInv'
<1>1. ThreadsInv /\ thread[n].life = "creating"
  BY DEF TypesInv, ThreadCreated
<1>2. /\ ThreadsInv' /\ \A m \in Threads \ {n} : thread'[m] = thread[m]
      /\ thread'[n].child = thread[n].child /\ thread'[n].outbox = thread[n].outbox
      /\ \A p \in Packets : Handovers(thread'[n], p) = Handovers(thread[n], p)
      /\ thread'[n].inbox = IF isDisconnecting THEN thread[n].inbox
                            ELSE Append(thread[n].inbox, Message("connect"))
  BY <1>1, CreatedEffect
<1>3. UNCHANGED <<promise, sent, accepted>>
  BY DEF ThreadCreated, promiseVars
<1>4. ASSUME NEW k \in Threads, NEW p \in Packets
      PROVE  Carried(thread'[k], p, promise[p], accepted)
  <2>1. Carried(thread[k], p, promise[p], accepted)
    BY DEF PromiseInv
  <2>2. CASE k = n
    <3>1. thread[n] \in Thread /\ thread'[n] \in Thread
      BY <1>1, <1>2 DEF ThreadsInv
    <3>2. Message("connect") \in Calls /\ Message("connect") # WithIds("send", {p})
      BY CallsAreCalls, MessagesDiffer
    <3>3. QueuesKeep(thread[n], thread'[n], p)
      BY <1>2, <3>2 DEF QueuesKeep, Up
    <3>4. KeepsCarrying(thread[n], thread'[n], p)
      BY <1>2, <3>1, <3>3, QueuesCarry
    <3> QED
      BY <2>1, <2>2, <3>4, CarriesOn
  <2>3. CASE k # n
    BY <1>2, <2>1, <2>3
  <2> QED
    BY <2>2, <2>3
<1> QED
  BY <1>2, <1>3, <1>4 DEF PromiseInv

\* What becomes of promises at the death of a thread or its end.
LEMMA EndedPromises ==
    ASSUME promise \in [Packets -> Outcomes],
           \/ promise' = promise
           \/ promise' = [p \in Packets |-> AfterDeath(promise[p])]
           \/ \E ids : Become(ids, "sending", "failed")
    PROVE  \A p \in Packets : promise'[p] = "none" <=> promise[p] = "none"
  BY DEF AfterDeath, Become

\* A thread dies, is made again, or is ended.
LEMMA EndKeepsPromises ==
    ASSUME TypesInv, ThreadsInv', OneThread, OneThread', PromiseInv,
           \/ FinishDestroy
           \/ \E n \in Threads : /\ TakeClosed(n) \/ TakeRestarted(n)
                                 /\ UNCHANGED <<accepted, stray, userVars, counters>>
           \/ \E n \in Threads : Crash(n)
    PROVE  PromiseInv'
<1>1. /\ ThreadsInv /\ promise \in [Packets -> Outcomes] /\ socketProcess \in 0 .. MaxThreads
  BY DEF TypesInv, ParentTypes
<1>2. sent' = sent /\ accepted' = accepted
  BY DEF FinishDestroy, TakeClosed, TakeRestarted, Crash, promiseVars
<1>3. \/ promise' = promise
      \/ promise' = [p \in Packets |-> AfterDeath(promise[p])]
      \/ \E ids : Become(ids, "sending", "failed")
  BY DEF FinishDestroy, TakeClosed, TakeRestarted, Crash, promiseVars
<1>4. \A p \in Packets : promise'[p] = "none" <=> p > sent'
  BY <1>1, <1>2, <1>3, EndedPromises DEF PromiseInv
<1>5. ASSUME NEW k \in Threads, thread'[k].life = "running", NEW p \in Packets
      PROVE  Carried(thread'[k], p, promise'[p], accepted')
  <2>1. ASSUME NEW n \in Threads, NEW life \in Life \ {"running"}, thread[n].life \in Alive,
               thread' = [thread EXCEPT ![n] = [NoThread EXCEPT !.life = life]]
        PROVE  FALSE
    <3>1. thread'[n].life = life /\ \A m \in Threads \ {n} : thread'[m] = thread[m]
      BY <1>1, <2>1, EmptiedEffect
    <3> QED
      BY <1>5, <2>1, <3>1 DEF OneThread, Alive
  <2>2. CASE FinishDestroy
    <3>1. CASE socketProcess # 0
      <4> DEFINE n == socketProcess
      <4>1. n \in Threads /\ thread[n].life \in Alive
        BY <1>1, <3>1 DEF Threads, OneThread
      <4>2. thread' = [thread EXCEPT ![n] = [NoThread EXCEPT !.life = "ended"]]
        BY <2>2, <3>1 DEF FinishDestroy
      <4>3. "ended" \in Life \ {"running"}
        BY DEF Life
      <4> HIDE DEF n
      <4> QED
        BY <2>1, <4>1, <4>2, <4>3
    <3>2. CASE socketProcess = 0
      <4>1. thread' = thread
        BY <2>2, <3>2 DEF FinishDestroy
      <4> QED
        BY <1>5, <3>2, <4>1 DEF OneThread, Alive, Threads
    <3> QED
      BY <3>1, <3>2
  <2>3. CASE \E n \in Threads : TakeClosed(n)
    <3>1. PICK n \in Threads : TakeClosed(n)
      BY <2>3
    <3>2. thread[n].life = "closed" /\ thread' = [thread EXCEPT ![n].life = "dead"]
      BY <3>1 DEF TakeClosed
    <3>3. thread'[n].life = "dead" /\ \A m \in Threads \ {n} : thread'[m] = thread[m]
      BY <1>1, <3>2 DEF ThreadsInv, Thread
    <3> QED
      BY <1>5, <3>2, <3>3 DEF OneThread, Alive
  <2>4. CASE \E n \in Threads : TakeRestarted(n)
    <3>1. PICK n \in Threads : TakeRestarted(n)
      BY <2>4
    <3>2. thread[n].life = "dead" /\ thread' = [thread EXCEPT ![n] = AgainConnecting(n)]
      BY <3>1 DEF TakeRestarted
    <3>3. /\ Handovers(thread'[n], p) = 0 /\ thread'[n].child = Fresh
          /\ thread'[n].outbox = <<>> /\ thread'[n].inbox = <<Message("connect")>>
          /\ \A m \in Threads \ {n} : thread'[m] = thread[m]
      BY <1>1, <3>2, AgainEffect
    <3>4. k = n
      BY <1>5, <3>2, <3>3 DEF OneThread, Alive
    <3>5. WithIds("send", {p}) \notin Elements(thread'[n].inbox)
      BY <3>3, MessagesDiffer DEF Elements
    <3>6. thread'[n] \in Thread
      BY DEF ThreadsInv
    <3> QED
      BY <3>3, <3>4, <3>5, <3>6, EmptyCarriesNothing
  <2>5. CASE \E n \in Threads : Crash(n)
    <3>1. PICK n \in Threads : Crash(n)
      BY <2>5
    <3>2. /\ thread[n].life \in Alive
          /\ thread' = [thread EXCEPT ![n] = [NoThread EXCEPT !.life = "closed"]]
      BY <3>1 DEF Crash, Runs, Alive
    <3>3. "closed" \in Life \ {"running"}
      BY DEF Life
    <3> QED
      BY <2>1, <3>2, <3>3
  <2> QED
    BY <2>2, <2>3, <2>4, <2>5
<1> QED
  BY <1>4, <1>5, RunningCarries

\* The promises are kept in every reachable state.
LEMMA PromiseStep ==
    TypesInv /\ ControlInv /\ PromiseInv /\ ~doubled' /\ [Next]_connectionVars => PromiseInv'
<1> SUFFICES ASSUME TypesInv, ControlInv, PromiseInv, ~doubled', [Next]_connectionVars
             PROVE  PromiseInv'
  OBVIOUS
<1>1. TypesInv' /\ ControlInv'
  BY TypesStep, ControlStep
<1>2. ThreadsInv' /\ OneThread /\ OneThread'
  BY <1>1 DEF TypesInv, ControlInv
<1>3. CASE UNCHANGED connectionVars
  BY <1>3 DEF connectionVars, promiseVars, PromiseInv
<1>4. CASE Connect
  <2>1. UNCHANGED <<promise, sent, accepted>>
    BY <1>4 DEF Connect, promiseVars
  <2>2. CASE socketProcess = 0 /\ CreateThread
    <3>1. PICK n \in Threads : /\ thread[n].life = "none"
                               /\ thread' = [thread EXCEPT ![n].life = "creating"]
      BY <2>2 DEF CreateThread
    <3>2. \A k \in Threads : thread'[k].life # "running"
      <4>1. thread'[n].life = "creating" /\ \A k \in Threads \ {n} : thread'[k] = thread[k]
        BY <3>1 DEF TypesInv, ThreadsInv, Thread
      <4>2. \A k \in Threads : thread[k].life # "running"
        BY <1>2, <2>2 DEF OneThread, Alive, Threads
      <4> QED
        BY <4>1, <4>2
    <3> QED
      BY <1>2, <2>1, <3>2, RunningCarries DEF PromiseInv
  <2>3. CASE socketProcess # 0 /\ Call(socketProcess, Message("connect"))
    BY <1>2, <2>1, <2>3, CallKeepsPromises
  <2> QED
    BY <1>4, <2>2, <2>3 DEF Connect
<1>5. CASE Disconnect \/ Destroy
  <2>1. UNCHANGED <<promise, sent, accepted>>
    BY <1>5 DEF Disconnect, Destroy, promiseVars
  <2>2. \E wish : CallDisconnect(wish)
    BY <1>5 DEF Disconnect, Destroy
  <2>3. CASE socketProcess = 0
    BY <1>2, <2>1, <2>2, <2>3 DEF CallDisconnect, PromiseInv
  <2>4. CASE socketProcess # 0
    BY <1>2, <2>1, <2>2, <2>4, CallKeepsPromises DEF CallDisconnect
  <2> QED
    BY <2>3, <2>4
<1>6. CASE SendCommands
  BY <1>2, <1>6, SendCommandsCarries
<1>7. CASE \E n \in Threads : ThreadCreated(n)
  BY <1>2, <1>7, CreatedKeepsPromises
<1>8. CASE \E n \in Threads : ParentTakes(n)
  <2>1. PICK n \in Threads : ParentTakes(n)
    BY <1>8
  <2>2. accepted' = accepted
    BY <2>1 DEF ParentTakes
  <2>3. CASE TakesMessage(n)
    BY <1>2, <2>2, <2>3, MessageKeepsPromises
  <2>4. CASE TakeClosed(n) \/ TakeRestarted(n)
    BY <1>2, <2>1, <2>4, EndKeepsPromises DEF ParentTakes
  <2> QED
    BY <2>1, <2>3, <2>4 DEF ParentTakes, TakesMessage
<1>9. CASE FinishDestroy \/ \E n \in Threads : Crash(n)
  BY <1>2, <1>9, EndKeepsPromises
<1>10. CASE \E n \in Threads : ChildRuns(n) \/ DeviceStep(n)
  BY <1>2, <1>10, WorkKeepsPromises
<1> QED
  BY <1>3, <1>4, <1>5, <1>6, <1>7, <1>8, <1>9, <1>10 DEF Next, ParentStep

\* At first nothing is promised.
LEMMA PromiseInit == Init => PromiseInv
<1> SUFFICES ASSUME Init PROVE PromiseInv
  OBVIOUS
<1>1. TypesInv
  BY TypesInit
<1>2. \A p \in Packets : promise[p] = "none" <=> p > sent
  BY DEF Init, Packets
<1>3. ASSUME NEW n \in Threads, NEW p \in Packets
      PROVE  Carried(thread[n], p, promise[p], accepted)
  <2>1. thread[n] \in Thread
    BY <1>1 DEF TypesInv, ThreadsInv
  <2>2. Empty(thread[n])
    BY DEF Init, Empty, NoThread
  <2> QED
    BY <2>1, <2>2, EmptyThreadCarries
<1> QED
  BY <1>2, <1>3 DEF PromiseInv

\* Every packet under way has a promise that still waits for it.
LEMMA AlwaysPromised == Spec => [](TypesInv /\ (doubled \/ (ControlInv /\ PromiseInv)))
<1>1. Init => TypesInv /\ ControlInv /\ PromiseInv
  BY TypesInit, ControlInit, PromiseInit
<1>2. TypesInv /\ (doubled \/ (ControlInv /\ PromiseInv)) /\ [Next]_connectionVars
         => (TypesInv /\ (doubled \/ (ControlInv /\ PromiseInv)))'
  BY TypesStep, ControlStep, PromiseStep, DoubledStays
<1> QED
  BY <1>1, <1>2, PTL DEF Spec

-----------------------------------------------------------------------------
(* The refinement of CommandPromises *)

Told(o) == CASE o = "none" -> "none"
             [] o \in {"sending", "pending"} -> "waiting"
             [] o = "resolved" -> "done"
             [] OTHER -> "lost"

Shown == [p \in Packets |-> Told(promise[p])]

\* A packet's promise begins.
LEMMA Issues ==
    ASSUME NEW ps \in SUBSET Packets, NEW o \in {"waiting", "lost"},
           \A p \in ps : Shown[p] = "none",
           Shown' = [p \in Packets |-> IF p \in ps THEN o ELSE Shown[p]],
           accepted' = accepted
    PROVE  Promises!Next
<1>1. Promises!Issue(o)
  BY DEF Promises!Issue, Promises!AreIn, Promises!Become, Shown, Told
<1> QED
  BY <1>1 DEF Promises!Next

\* Promises that wait are settled.
LEMMA Settles ==
    ASSUME NEW ps \in SUBSET Packets, NEW o \in {"done", "lost"},
           \A p \in ps : Shown[p] = "waiting", o = "done" => ps \subseteq accepted,
           Shown' = [p \in Packets |-> IF p \in ps THEN o ELSE Shown[p]],
           accepted' = accepted
    PROVE  Promises!Next
<1>1. Promises!Settle(o)
  BY DEF Promises!Settle, Promises!AreIn, Promises!Become, Shown, Told
<1> QED
  BY <1>1 DEF Promises!Next

\* Promises may stay as they are.
LEMMA Stays ==
    ASSUME Shown' = Shown, accepted' = accepted
    PROVE  UNCHANGED Promises!promiseVars
  BY DEF Promises!promiseVars, Shown, Told

\* The parent hears of the end of a session, or what became of packets.
LEMMA MessageSettles ==
    ASSUME TypesInv, PromiseInv, NEW n \in Threads, TakesMessage(n), accepted' = accepted
    PROVE  [Promises!Next]_Promises!promiseVars
<1>1. ThreadsInv /\ promise \in [Packets -> Outcomes]
  BY DEF TypesInv, ParentTypes
<1>2. CASE TakeCommands(n) \/ TakeDisconnected(n)
  <2>1. promise' = promise
    BY <1>2 DEF TakeCommands, MutateState, TakeDisconnected, promiseVars
  <2> QED
    BY <2>1, Stays DEF Shown
<1>3. ASSUME NEW ids, NEW from \in {"sending", "pending"},
             NEW to \in {"failed", "rejected", "resolved"}, Become(ids, from, to),
             \A p \in Packets : to = "resolved" /\ p \in ids => p \in accepted
      PROVE  Promises!Next
  <2> DEFINE ps == {p \in Packets : p \in ids /\ promise[p] = from}
             o == IF to = "resolved" THEN "done" ELSE "lost"
  <2>1. /\ ps \in SUBSET Packets /\ o \in {"done", "lost"}
        /\ \A p \in ps : Shown[p] = "waiting"
        /\ o = "done" => ps \subseteq accepted
    BY <1>3 DEF Shown, Told
  <2>2. Shown' = [p \in Packets |-> IF p \in ps THEN o ELSE Shown[p]]
    <3>1. ASSUME NEW p \in Packets
          PROVE  Told(promise'[p]) = IF p \in ps THEN o ELSE Shown[p]
      BY <1>3 DEF Become, Shown, Told
    <3> HIDE DEF ps, o
    <3> QED
      BY <3>1 DEF Shown
  <2> HIDE DEF ps, o
  <2> QED
    BY <2>1, <2>2, Settles
<1>4. CASE TakeDisconnect(n)
  BY <1>3, <1>4 DEF TakeDisconnect, OnDisconnect
<1>5. CASE TakeNotSent(n)
  BY <1>3, <1>5 DEF TakeNotSent
<1>6. CASE TakeSent(n)
  <2>1. \A p \in Packets : Told(promise'[p]) = Told(promise[p])
    BY <1>6 DEF TakeSent, Become, Told
  <2> QED
    BY <2>1, Stays DEF Shown
<1>7. CASE TakeAcknowledged(n)
  <2> DEFINE m == Head(thread[n].outbox)
  <2>1. /\ Next1(n, "acknowledged") /\ thread' = [thread EXCEPT ![n] = Taken(n)]
        /\ Become(m.ids, "pending", "resolved")
    BY <1>7 DEF TakeAcknowledged
  <2>2. thread[n].outbox # <<>> /\ m \in Reports /\ m.type = "acknowledged"
    BY <1>1, <2>1, TakenEffect
  <2>3. PICK ids \in SUBSET Packets : m = WithIds("acknowledged", ids)
    <3>1. /\ DisconnectReport.type = "disconnect"
          /\ Message("disconnected").type = "disconnected"
          /\ \A x \in [type : {"commands"}, batch : Batch, session : Nat] :
                x.type = "commands"
          /\ \A q : /\ WithIds("sent", {q}).type = "sent"
                    /\ WithIds("notSent", {q}).type = "notSent"
      BY DEF DisconnectReport, Message, WithIds
    <3> QED
      BY <2>2, <3>1 DEF Reports
  <2>4. m.ids = ids
    BY <2>3 DEF WithIds
  <2>5. m \in Elements(thread[n].outbox)
    BY <1>1, <2>2, ElementsOfTail DEF ThreadsInv, Thread
  <2>6. \A p \in Packets : p \in ids => p \in accepted
    BY <2>3, <2>5 DEF PromiseInv, Carried, AckUnderWay
  <2> QED
    BY <1>3, <2>1, <2>4, <2>6
<1> QED
  BY <1>2, <1>4, <1>5, <1>6, <1>7 DEF TakesMessage

\* At the death of a thread and at its end, what waits is lost.
LEMMA EndSettles ==
    ASSUME TypesInv, accepted' = accepted,
           \/ promise' = [p \in Packets |-> AfterDeath(promise[p])]
           \/ \E ids : Become(ids, "sending", "failed")
    PROVE  Promises!Next
<1> DEFINE ps == {p \in Packets : promise'[p] # promise[p]}
<1>1. /\ \A p \in ps : promise[p] \in {"sending", "pending"} /\ promise'[p] \in {"failed", "rejected"}
  BY DEF AfterDeath, Become
<1>2. ps \in SUBSET Packets /\ \A p \in ps : Shown[p] = "waiting"
  BY <1>1 DEF Shown, Told
<1>3. Shown' = [p \in Packets |-> IF p \in ps THEN "lost" ELSE Shown[p]]
  <2>1. ASSUME NEW p \in Packets
        PROVE  Told(promise'[p]) = IF p \in ps THEN "lost" ELSE Shown[p]
    BY <1>1 DEF Shown, Told
  <2> HIDE DEF ps
  <2> QED
    BY <2>1 DEF Shown
<1> HIDE DEF ps
<1> QED
  BY <1>2, <1>3, Settles

\* The device accepts only packets whose promises wait.
LEMMA AcknowledgeAccepts ==
    ASSUME TypesInv, PromiseInv, NEW n \in Threads, Acknowledge(n), promise' = promise
    PROVE  Promises!Next
<1>1. PICK ids \in SUBSET thread[n].child.inFlight :
         ids \in SUBSET Packets /\ accepted' = accepted \union ids
  BY AcknowledgeEffect DEF TypesInv
<1>2. Up(thread[n])
  BY DEF Acknowledge, InSessionAt, Up
<1>3. \A p \in ids : promise[p] \in {"sending", "pending"}
  BY <1>1, <1>2 DEF PromiseInv, Carried, Awaited
<1>4. Promises!Accept
  BY <1>1, <1>3 DEF Promises!Accept, Promises!AreIn
<1> QED
  BY <1>4 DEF Promises!Next

\* Every step of the threads is a step of CommandPromises, or leaves the promises alone.
LEMMA PromisesStep ==
    TypesInv /\ ControlInv /\ PromiseInv /\ [Next]_connectionVars
        => [Promises!Next]_Promises!promiseVars
<1> SUFFICES ASSUME TypesInv, ControlInv, PromiseInv, [Next]_connectionVars
             PROVE  [Promises!Next]_Promises!promiseVars
  OBVIOUS
<1>1. CASE promise' = promise /\ accepted' = accepted
  BY <1>1, Stays DEF Shown
<1>2. CASE UNCHANGED connectionVars \/ Connect \/ Disconnect \/ Destroy
  BY <1>1, <1>2 DEF connectionVars, promiseVars, Connect, Disconnect, Destroy
<1>3. CASE SendCommands
  <2> DEFINE p == sent + 1
             o == IF Runs(socketProcess) THEN "waiting" ELSE "lost"
  <2>1. /\ sent \in 0 .. MaxPackets /\ promise \in [Packets -> Outcomes]
        /\ accepted' = accepted /\ sent' = p /\ sent < MaxPackets
        /\ promise' = [promise EXCEPT ![sent'] =
                          IF Runs(socketProcess) THEN "sending" ELSE "failed"]
    BY <1>3 DEF TypesInv, ParentTypes, SendCommands
  <2>2. p \in Packets /\ p > sent
    BY <2>1, ConnectionAssumption DEF Packets
  <2>3. promise[p] = "none"
    BY <2>2 DEF PromiseInv
  <2>4. /\ promise'[p] = IF Runs(socketProcess) THEN "sending" ELSE "failed"
        /\ \A q \in Packets \ {p} : promise'[q] = promise[q]
    BY <2>1, <2>2
  <2> HIDE DEF p
  <2>5. ASSUME NEW q \in Packets
        PROVE  Told(promise'[q]) = IF q \in {p} THEN o ELSE Shown[q]
    BY <2>4 DEF Told, Shown
  <2>6. \A q \in {p} : Shown[q] = "none"
    BY <2>2, <2>3 DEF Told, Shown
  <2> HIDE DEF o
  <2>7. Shown' = [q \in Packets |-> IF q \in {p} THEN o ELSE Shown[q]]
    BY <2>5 DEF Shown
  <2>8. o \in {"waiting", "lost"}
    BY DEF o
  <2>9. {p} \in SUBSET Packets
    BY <2>2
  <2>10. accepted' = accepted
    BY <2>1
  <2> DEFINE ps == {p}
  <2>11. /\ ps \in SUBSET Packets /\ \A q \in ps : Shown[q] = "none"
         /\ Shown' = [q \in Packets |-> IF q \in ps THEN o ELSE Shown[q]]
    BY <2>6, <2>7, <2>9
  <2> HIDE DEF ps
  <2>12. Promises!Next
    BY <2>8, <2>10, <2>11, Issues
  <2> QED
    BY <2>12
<1>4. CASE \E n \in Threads : ThreadCreated(n)
  BY <1>1, <1>4 DEF ThreadCreated, promiseVars
<1>5. CASE \E n \in Threads : ParentTakes(n)
  <2>1. PICK n \in Threads : ParentTakes(n)
    BY <1>5
  <2>2. accepted' = accepted
    BY <2>1 DEF ParentTakes
  <2>3. CASE TakesMessage(n)
    BY <2>2, <2>3, MessageSettles
  <2>4. CASE TakeClosed(n)
    BY <2>2, <2>4, EndSettles DEF TakeClosed
  <2>5. CASE TakeRestarted(n)
    BY <1>1, <2>2, <2>5 DEF TakeRestarted, promiseVars
  <2> QED
    BY <2>1, <2>3, <2>4, <2>5 DEF ParentTakes, TakesMessage
<1>6. CASE FinishDestroy
  <2>1. accepted' = accepted /\ (promise' = promise \/ \E ids : Become(ids, "sending", "failed"))
    BY <1>6 DEF FinishDestroy
  <2> QED
    BY <1>1, <2>1, EndSettles
<1>7. CASE \E n \in Threads : Crash(n)
  BY <1>1, <1>7 DEF Crash, promiseVars
<1>8. CASE \E n \in Threads : ChildRuns(n)
  BY <1>1, <1>8 DEF ChildRuns, promiseVars
<1>9. CASE \E n \in Threads : DeviceStep(n)
  <2>1. PICK n \in Threads : DeviceStep(n)
    BY <1>9
  <2>2. promise' = promise
    BY <2>1 DEF DeviceStep, promiseVars
  <2>3. CASE Acknowledge(n)
    BY <2>2, <2>3, AcknowledgeAccepts
  <2>4. CASE StartSession(n) \/ Deliver(n) \/ LoseSession(n)
    BY <1>1, <2>2, <2>4 DEF StartSession, Deliver, LoseSession
  <2> QED
    BY <2>1, <2>3, <2>4 DEF DeviceStep
<1> QED
  BY <1>2, <1>3, <1>4, <1>5, <1>6, <1>7, <1>8, <1>9 DEF Next, ParentStep

\* The two threads implement CommandPromises: a packet's promise is settled once and for
\* good, and as done only when the device accepted the packet (atem.ts:202-219, 298-314),
\* however calls, answers, acknowledgements, ends of sessions and deaths interleave, as
\* long as no two threads are asked for at once.
THEOREM PromisesAreKept == Spec /\ []~doubled => KeepsPromises
<1>1. Init => Promises!Init
  BY DEF Init, Promises!Init, Packets
<1>2. TypesInv /\ ControlInv /\ PromiseInv /\ [Next]_connectionVars
         => [Promises!Next]_Promises!promiseVars
  BY PromisesStep
<1> QED
  BY <1>1, <1>2, AlwaysPromised, PTL DEF Spec, KeepsPromises, Promises!Spec
=============================================================================
