--------------------------- MODULE AtemSessionProofs ---------------------------
(***************************************************************************)
(* What the user may rely on across the sessions of a connection: a        *)
(* disconnection holds, a state that counts as connected is whole, and     *)
(* what the parent believes is true or about to be put right.              *)
(***************************************************************************)
EXTENDS AtemConnectionProofs

-----------------------------------------------------------------------------
(* A thread on its way to rest *)

\* A thread at rest: no session, nothing that would begin one, or a disconnect that
\* closes its socket.
Quiet(t) ==
    /\ t.child.restarting = 0 /\ ~t.child.armed
    /\ Message("connect") \notin Elements(t.inbox)
    /\ \/ t.child.state \in {"Disconnected", "Closed"}
       \/ t.child.closing > 0 /\ ~t.child.open

\* The last word of the parent is a disconnect.
ToldToPart(t) == ComesAfter(t.inbox, Message("disconnect"), Message("connect"))

Parting(t) == Quiet(t) \/ ToldToPart(t)

\* The user wants no connection, and nothing upset that.
Away == wanted \in {"disconnection", "destruction"} /\ ~crossed

PartInv == Away => /\ isDisconnecting
                   /\ \A n \in Threads : thread[n].life = "running" => Parting(thread[n])

\* What the steps of the child do to its rest.
LEMMA ConditionRests ==
    ASSUME NEW c \in Condition
    PROVE  /\ Disconnecting(c).armed = FALSE
           /\ c.open => ~Disconnecting(c).open /\ Disconnecting(c).state = c.state
           /\ ~c.open => Disconnecting(c).state = "Disconnected"
           /\ ClosedDown(c).state = "Disconnected" /\ ClosedDown(c).armed = c.armed
           /\ \A ids : /\ Holding(c, ids).state = c.state
                       /\ Holding(c, ids).open = c.open
                       /\ Holding(c, ids).armed = c.armed
  BY DEF Disconnecting, ClosedDown, Holding, Condition

\* A message that is no connect leaves a thread on its way to rest.
LEMMA PostingParts ==
    ASSUME NEW t \in Thread, NEW u \in Thread, NEW m \in Calls, m # Message("connect"),
           u.inbox = Append(t.inbox, m), u.child = t.child
    PROVE  /\ Parting(t) => Parting(u)
           /\ m = Message("disconnect") => Parting(u)
<1>1. t.inbox \in Seq(Calls)
  BY DEF Thread
<1>2. Elements(u.inbox) = Elements(t.inbox) \union {m}
  BY <1>1, ElementsOfAppend
<1>3. Quiet(t) => Quiet(u)
  BY <1>2 DEF Quiet
<1>4. ToldToPart(t) => ToldToPart(u)
  BY <1>1, AfterAppend DEF ToldToPart
<1>5. m = Message("disconnect") => ToldToPart(u)
  BY <1>1, AfterAppend DEF ToldToPart
<1> QED
  BY <1>3, <1>4, <1>5 DEF Parting

\* So does a call that the child takes, but for a disconnect, when it begins nothing.
LEMMA TakingParts ==
    ASSUME NEW t \in Thread, NEW u \in Thread, t.inbox # <<>>, u.inbox = Tail(t.inbox),
           Head(t.inbox) # Message("disconnect"), Parting(t),
           Quiet(t) => /\ u.child.restarting = 0 /\ ~u.child.armed
                       /\ u.child.state = t.child.state /\ u.child.open = t.child.open
                       /\ u.child.closing = t.child.closing
    PROVE  Parting(u)
<1>1. t.inbox \in Seq(Calls)
  BY DEF Thread
<1>2. Elements(t.inbox) = Elements(u.inbox) \union {Head(t.inbox)}
  BY <1>1, ElementsOfTail
<1>3. Quiet(t) => Quiet(u)
  BY <1>2 DEF Quiet
<1>4. ToldToPart(t) => ToldToPart(u)
  BY <1>1, AfterTail DEF ToldToPart
<1> QED
  BY <1>3, <1>4 DEF Parting

\* The child and the device leave a thread on its way to rest, unless a disconnect
\* meets a restart.
LEMMA WorkParts ==
    ASSUME TypesInv, NEW n \in Threads, ChildRuns(n) \/ DeviceStep(n),
           thread[n].child.closing >= 0, ~crossed', Parting(thread[n])
    PROVE  Parting(thread'[n])
<1> DEFINE t == thread[n]
           u == thread'[n]
<1>1. ThreadsInv /\ sessions \in Nat
  BY DEF TypesInv, ParentTypes
<1>2. RunsOn(n)
  BY <1>1, WorkEffect DEF Works
<1>3. /\ t \in Thread /\ u \in Thread /\ t.child \in Condition /\ t.inbox \in Seq(Calls)
      /\ t.child.closing \in Int /\ t.child.restarting \in Int
  BY <1>1, <1>2 DEF RunsOn, ThreadInv, ThreadsInv, Thread, Condition
<1>4. CASE TakeConnect(n)
  <2>1. t.inbox # <<>> /\ Head(t.inbox) = Message("connect") /\ u.inbox = Tail(t.inbox)
    BY <1>1, <1>4, ConnectEffect
  <2>2. Message("connect") \in Elements(t.inbox)
    BY <1>3, <2>1, ElementsOfTail
  <2> QED
    BY <1>3, <2>1, <2>2, TakingParts, MessagesDiffer DEF Quiet
<1>5. CASE TakeDisconnectCall(n)
  <2>1. /\ t.inbox # <<>> /\ Head(t.inbox) = Message("disconnect")
        /\ u.inbox = Tail(t.inbox) /\ u.child = Disconnecting(t.child)
    BY <1>1, <1>5, DisconnectEffect
  <2>2. t.child.restarting = 0
    <3>1. ~(t.child.restarting > 0)
      BY <1>5 DEF TakeDisconnectCall
    <3>2. t.child.restarting >= 0
      <4>1. t.child.restarting = Count(t.waits, "restart")
        BY <1>1 DEF ThreadsInv, Orderly
      <4>2. Count(t.waits, "restart") \in Nat
        BY <1>3, CountsOfThread
      <4> QED
        BY <4>1, <4>2
    <3> QED
      BY <1>3, <3>1, <3>2
  <2>3. CASE ToldToPart(u)
    BY <2>3 DEF Parting
  <2>4. CASE ~ToldToPart(u)
    <3>1. Message("connect") \notin Elements(u.inbox)
      <4>1. CASE ToldToPart(t)
        BY <1>3, <2>1, <2>4, <4>1, AfterTail DEF ToldToPart
      <4>2. CASE Quiet(t)
        BY <1>3, <2>1, <4>2, ElementsOfTail DEF Quiet
      <4> QED
        BY <4>1, <4>2 DEF Parting
    <3>2. /\ u.child.restarting = 0 /\ u.child.armed = FALSE
          /\ u.child.closing = IF t.child.open THEN t.child.closing + 1 ELSE t.child.closing
      BY <1>3, <2>1, <2>2 DEF Disconnecting, Condition
    <3>3. CASE t.child.open
      <4>1. ~u.child.open
        BY <1>3, <2>1, <3>3 DEF Disconnecting, Condition
      <4>2. u.child.closing > 0
        BY <1>3, <3>2, <3>3
      <4> QED
        BY <3>1, <3>2, <4>1, <4>2 DEF Parting, Quiet
    <3>4. CASE ~t.child.open
      <4>1. u.child.state = "Disconnected"
        BY <1>3, <2>1, <3>4, ConditionRests
      <4> QED
        BY <3>1, <3>2, <4>1 DEF Parting, Quiet
    <3> QED
      BY <3>3, <3>4
  <2> QED
    BY <2>3, <2>4
<1>6. CASE TakeSend(n)
  <2>1. t.inbox # <<>> /\ u.inbox = Tail(t.inbox)
    BY <1>1, <1>6, SendEffect
  <2>2. PICK p \in Packets :
           Head(t.inbox) = WithIds("send", {p}) /\ u.child = Holding(t.child, {p})
    BY <1>1, <1>6, SendEffect
  <2>3. /\ u.child.restarting = t.child.restarting /\ u.child.closing = t.child.closing
        /\ u.child.state = t.child.state /\ u.child.open = t.child.open
        /\ u.child.armed = t.child.armed
    BY <1>3, <2>2 DEF Holding, Condition
  <2>4. Head(t.inbox) # Message("disconnect")
    BY <2>2, MessagesDiffer
  <2> QED
    BY <1>3, <2>1, <2>3, <2>4, TakingParts DEF Quiet
<1>7. CASE TakeAnswer(n)
  <2>1. /\ t.inbox # <<>> /\ Head(t.inbox) = Message("answer") /\ u.inbox = Tail(t.inbox)
        /\ t.waits # <<>>
        /\ Head(t.waits) # "restart" => u.child = t.child
    BY <1>1, <1>7, AnswerEffect
  <2>2. Quiet(t) => Head(t.waits) # "restart"
    <3>1. t.child.restarting = Count(t.waits, "restart") /\ t.waits \in Seq(Waits)
      BY <1>1, <1>3 DEF ThreadsInv, Orderly, Thread
    <3>2. Head(t.waits) \in Elements(t.waits)
      BY <2>1, <3>1, ElementsOfTail
    <3>3. "restart" \in Elements(t.waits) => Count(t.waits, "restart") > 0
      BY <3>1, CountOfElement
    <3> QED
      BY <3>1, <3>2, <3>3 DEF Quiet
  <2> QED
    BY <1>3, <2>1, <2>2, TakingParts, MessagesDiffer DEF Quiet
<1>8. CASE CloseSocket(n)
  <2>1. u.inbox = t.inbox /\ u.child = ClosedDown(t.child)
    BY <1>1, <1>8, CloseEffect
  <2>2. /\ u.child.state = "Disconnected" /\ u.child.armed = t.child.armed
        /\ u.child.restarting = t.child.restarting
    BY <1>3, <2>1, ConditionRests, ConditionCounts
  <2> QED
    BY <2>1, <2>2 DEF Parting, Quiet, ToldToPart
<1>9. CASE Redial(n) \/ StartSession(n) \/ Deliver(n) \/ Acknowledge(n) \/ LoseSession(n)
  <2>1. ~Quiet(t)
    BY <1>9 DEF Redial, StartSession, Deliver, Acknowledge, LoseSession, InSessionAt, Quiet
  <2>2. u.inbox = t.inbox
    <3>1. CASE Redial(n) \/ LoseSession(n)
      <4>1. Runs(n) /\ ThreadBecomes(n, RestartIn(thread[n]))
        BY <3>1 DEF Redial, LoseSession, InSessionAt
      <4> QED
        BY <1>1, <4>1, RestartEffect
    <3> QED
      BY <1>1, <1>9, <3>1, StartEffect, DeliverEffect, AcknowledgeEffect
  <2> QED
    BY <2>1, <2>2 DEF Parting, ToldToPart
<1> QED
  BY <1>4, <1>5, <1>6, <1>7, <1>8, <1>9 DEF ChildRuns, DeviceStep

\* A thread that comes to life while the user is away has nothing to do.
LEMMA EmptyParts ==
    ASSUME NEW t \in Thread, NEW u, t.child = Fresh, t.inbox = <<>>,
           u.child = t.child, u.inbox = t.inbox
    PROVE  Parting(u)
<1>1. Message("connect") \notin Elements(u.inbox)
  BY ElementsOfEmpty
<1> QED
  BY <1>1 DEF Parting, Quiet, Fresh

\* It is enough to look at the steps that leave the user away.
LEMMA PartStep ==
    TypesInv /\ ControlInv /\ PartInv /\ ~doubled' /\ [Next]_connectionVars => PartInv'
<1> SUFFICES ASSUME TypesInv, ControlInv, PartInv, ~doubled', [Next]_connectionVars, Away'
             PROVE  /\ isDisconnecting'
                    /\ \A n \in Threads : thread'[n].life = "running" => Parting(thread'[n])
  BY DEF PartInv
<1>1. ThreadsInv /\ OneThread /\ Owed /\ TypesInv' /\ ThreadsInv' /\ OneThread'
  BY TypesStep, ControlStep DEF TypesInv, ControlInv
<1>2. ASSUME UNCHANGED <<thread, isDisconnecting, userVars>>
      PROVE  /\ isDisconnecting'
             /\ \A n \in Threads : thread'[n].life = "running" => Parting(thread'[n])
  BY <1>2 DEF userVars, Away, PartInv
<1>3. CASE UNCHANGED connectionVars
  BY <1>2, <1>3 DEF connectionVars, socketVars
<1>4. CASE Connect
  BY <1>4 DEF Connect, Away
<1>5. CASE Disconnect \/ Destroy
  <2>1. PICK wish : CallDisconnect(wish)
    BY <1>5 DEF Disconnect, Destroy
  <2>2. isDisconnecting' /\ ~HasDied
    BY <2>1 DEF CallDisconnect, Away
  <2>3. ASSUME NEW n \in Threads, thread'[n].life = "running"
        PROVE  Parting(thread'[n])
    <3>1. CASE socketProcess = 0
      <4>1. thread' = thread
        BY <2>1, <3>1 DEF CallDisconnect
      <4> QED
        BY <1>1, <2>3, <3>1, <4>1 DEF OneThread, Alive, Threads
    <3>2. CASE socketProcess # 0
      <4> DEFINE k == socketProcess
      <4>1. /\ k \in Threads /\ Call(k, Message("disconnect")) /\ Runs(k)
        BY <2>1, <2>2, <3>2 DEF CallDisconnect, HasDied, TypesInv, ParentTypes, Threads
      <4>2. Message("disconnect") \in Calls /\ Message("disconnect") # Message("answer")
            /\ Message("disconnect") # Message("connect")
        BY CallsAreCalls, MessagesDiffer
      <4> HIDE DEF k
      <4>3. \A m \in Threads : thread'[m].life = thread[m].life
        BY <1>1, <4>1, <4>2, CallEffect
      <4>4. /\ thread'[k].inbox = Append(thread[k].inbox, Message("disconnect"))
            /\ thread'[k].child = thread[k].child
        BY <1>1, <4>1, CallQueues
      <4>5. n = k
        BY <1>1, <2>3, <4>1, <4>3 DEF OneThread, Alive, Runs
      <4>6. thread[k] \in Thread /\ thread'[k] \in Thread
        BY <1>1, <4>1 DEF ThreadsInv
      <4> QED
        BY <4>2, <4>4, <4>5, <4>6, PostingParts
    <3> QED
      BY <3>1, <3>2
  <2> QED
    BY <2>2, <2>3
<1>6. CASE SendCommands
  <2>1. /\ UNCHANGED <<isDisconnecting, userVars>> /\ socketProcess # 0
        /\ Call(socketProcess, WithIds("send", {sent'}))
        /\ sent' = sent + 1 /\ sent < MaxPackets
    BY <1>6 DEF SendCommands, socketVars
  <2>2. Away /\ isDisconnecting' /\ \A n \in Threads : thread[n].life = "running"
                                                          => Parting(thread[n])
    BY <2>1 DEF Away, userVars, PartInv
  <2> DEFINE k == socketProcess
             m == WithIds("send", {sent'})
  <2>3. k \in Threads /\ sent' \in Packets
    BY <2>1, ConnectionAssumption DEF TypesInv, ParentTypes, Threads, Packets
  <2>4. m \in Calls /\ m # Message("answer") /\ m # Message("connect")
    BY <2>3, CallsAreCalls, MessagesDiffer
  <2>5. Call(k, m)
    BY <2>1
  <2> HIDE DEF k, m
  <2>6. /\ \A n \in Threads : thread'[n].life = thread[n].life
        /\ \A n \in Threads \ {k} : thread'[n] = thread[n]
        /\ ~Runs(k) => thread' = thread
    BY <1>1, <2>3, <2>4, <2>5, CallEffect
  <2>7. Runs(k) => /\ thread'[k].inbox = Append(thread[k].inbox, m)
                   /\ thread'[k].child = thread[k].child
    BY <1>1, <2>3, <2>5, CallQueues
  <2>8. thread[k] \in Thread /\ thread'[k] \in Thread
    BY <1>1, <2>3 DEF ThreadsInv
  <2>9. Runs(k) => Parting(thread'[k])
    BY <2>2, <2>3, <2>4, <2>7, <2>8, PostingParts DEF Runs
  <2> QED
    BY <2>2, <2>6, <2>9 DEF Runs
<1>7. CASE \E n \in Threads : ThreadCreated(n)
  <2>1. PICK n \in Threads : ThreadCreated(n)
    BY <1>7
  <2>2. UNCHANGED <<isDisconnecting, userVars>> /\ thread[n].life = "creating"
    BY <2>1 DEF ThreadCreated
  <2>3. isDisconnecting /\ \A m \in Threads : thread[m].life = "running" => Parting(thread[m])
    BY <2>2 DEF Away, userVars, PartInv
  <2>4. /\ \A m \in Threads \ {n} : thread'[m] = thread[m]
        /\ thread'[n].child = thread[n].child /\ thread'[n].inbox = thread[n].inbox
    BY <1>1, <2>1, <2>3, CreatedEffect
  <2>5. thread[n] \in Thread /\ Empty(thread[n])
    BY <1>1, <2>2 DEF ThreadsInv, OneThread
  <2>6. Parting(thread'[n])
    BY <2>4, <2>5, EmptyOwesNothing, EmptyParts
  <2> QED
    BY <2>2, <2>3, <2>4, <2>6
<1>8. CASE \E n \in Threads : ParentTakes(n)
  <2>1. PICK n \in Threads : ParentTakes(n)
    BY <1>8
  <2>2. Away
    BY <2>1 DEF ParentTakes, Away, userVars
  <2>3. CASE TakesMessage(n)
    <3>1. isDisconnecting' = isDisconnecting
      BY <2>3 DEF TakesMessage, TakeDisconnect, TakeCommands, TakeAcknowledged, TakeSent,
                  TakeNotSent, TakeDisconnected, socketVars
    <3>2. RunsOn(n) /\ thread'[n].child = thread[n].child
      BY <1>1, <2>3, MessageEffect
    <3>3. \/ thread'[n].inbox = thread[n].inbox
          \/ thread'[n].inbox = Append(thread[n].inbox, Message("answer"))
      <4>1. CASE TakeDisconnect(n)
        BY <1>1, <4>1, EndTakenEffect DEF TakeDisconnect
      <4>2. CASE ~TakeDisconnect(n)
        <5>1. thread' = [thread EXCEPT ![n] = Taken(n)]
          BY <2>3, <4>2 DEF TakesMessage, TakeCommands, TakeAcknowledged, TakeSent,
                            TakeNotSent, TakeDisconnected
        <5> QED
          BY <1>1, <5>1 DEF Taken, ThreadsInv, Thread
      <4> QED
        BY <4>1, <4>2
    <3>4. thread[n] \in Thread /\ thread'[n] \in Thread /\ Parting(thread[n])
      BY <1>1, <2>2, <3>2 DEF ThreadsInv, RunsOn, Runs, PartInv
    <3>5. Message("answer") \in Calls /\ Message("answer") # Message("connect")
      BY MessagesDiffer DEF Calls
    <3>6. Parting(thread'[n])
      <4>1. CASE thread'[n].inbox = thread[n].inbox
        BY <3>2, <3>4, <4>1 DEF Parting, Quiet, ToldToPart
      <4>2. CASE thread'[n].inbox = Append(thread[n].inbox, Message("answer"))
        BY <3>2, <3>4, <3>5, <4>2, PostingParts
      <4> QED
        BY <3>3, <4>1, <4>2
    <3> QED
      BY <2>2, <3>1, <3>2, <3>6 DEF RunsOn, PartInv
  <2>4. CASE TakeClosed(n) \/ TakeRestarted(n)
    <3>1. thread[n].life \in {"closed", "dead"}
      BY <2>4 DEF TakeClosed, TakeRestarted
    <3> QED
      BY <1>1, <2>2, <3>1 DEF Owed, Away
  <2> QED
    BY <2>1, <2>3, <2>4 DEF ParentTakes, TakesMessage
<1>9. CASE FinishDestroy
  <2>1. Away /\ isDisconnecting'
    BY <1>9 DEF FinishDestroy, Away, userVars, PartInv
  <2>2. ASSUME NEW n \in Threads, thread'[n].life = "running"
        PROVE  FALSE
    <3>1. CASE socketProcess = 0
      <4>1. thread' = thread
        BY <1>9, <3>1 DEF FinishDestroy
      <4> QED
        BY <1>1, <2>2, <3>1, <4>1 DEF OneThread, Alive, Threads
    <3>2. CASE socketProcess # 0
      <4>1. thread' = [thread EXCEPT ![socketProcess] = [NoThread EXCEPT !.life = "ended"]]
        BY <1>9, <3>2 DEF FinishDestroy
      <4>2. socketProcess \in Threads /\ "ended" \in Life
        BY <3>2 DEF TypesInv, ParentTypes, Threads, Life
      <4>3. /\ thread'[socketProcess].life = "ended"
            /\ \A m \in Threads \ {socketProcess} : thread'[m] = thread[m]
        BY <1>1, <4>1, <4>2, EmptiedEffect
      <4> QED
        BY <1>1, <2>2, <4>3 DEF OneThread, Alive
    <3> QED
      BY <3>1, <3>2
  <2> QED
    BY <2>1, <2>2
<1>10. CASE \E n \in Threads : Crash(n)
  BY <1>10 DEF Crash, Away
<1>11. CASE \E n \in Threads : ChildRuns(n) \/ DeviceStep(n)
  <2>1. PICK n \in Threads : ChildRuns(n) \/ DeviceStep(n)
    BY <1>11
  <2>2. isDisconnecting' = isDisconnecting /\ wanted' = wanted /\ (crossed => crossed')
    <3>1. ChildRuns(n) => crossed' = crossed \/ crossed' = (crossed \/ thread[n].child.restarting > 0)
      BY DEF ChildRuns, TakeConnect, TakeDisconnectCall, TakeSend, TakeAnswer, CloseSocket, Redial
    <3>2. DeviceStep(n) => crossed' = crossed
      BY DEF DeviceStep, userVars
    <3>3. crossed => crossed'
      BY <2>1, <3>1, <3>2
    <3>4. isDisconnecting' = isDisconnecting /\ wanted' = wanted
      BY <2>1 DEF ChildRuns, DeviceStep, socketVars, userVars
    <3> QED
      BY <3>3, <3>4
  <2>3. Away
    BY <2>2 DEF Away
  <2>4. RunsOn(n)
    BY <1>1, <2>1, WorkEffect DEF Works, TypesInv, ParentTypes
  <2>5. Parting(thread[n]) /\ thread[n].child.closing >= 0
    BY <1>1, <2>3, <2>4 DEF PartInv, RunsOn, Runs, Owed
  <2>6. Parting(thread'[n])
    BY <2>1, <2>5, WorkParts DEF Away
  <2> QED
    BY <2>2, <2>3, <2>4, <2>6 DEF PartInv, RunsOn
<1> QED
  BY <1>3, <1>4, <1>5, <1>6, <1>7, <1>8, <1>9, <1>10, <1>11 DEF Next, ParentStep

\* A thread that owes no disconnect is at rest.
LEMMA PartedIsAtRest ==
    TypesInv /\ ControlInv /\ PartInv => DisconnectionHolds
<1> SUFFICES ASSUME TypesInv, ControlInv, PartInv, Away, ~disconnecting,
                    NEW n \in Threads, thread[n].life = "running"
             PROVE  /\ thread[n].child.state \in {"Disconnected", "Closed"}
                    /\ ~thread[n].child.armed
  BY DEF DisconnectionHolds, Away, Runs
<1> DEFINE t == thread[n]
           x == Message("disconnect")
<1>1. /\ t \in Thread /\ Unfinished(t) <= 0 /\ t.child.closing >= 0
  BY DEF TypesInv, ThreadsInv, ControlInv, Owed
<1>2. t.child.closing = 0 /\ Count(t.inbox, x) = 0
  <2> DEFINE a == Count(t.inbox, x)
             b == Count(t.waits, "disconnect")
             c == Count(t.outbox, Message("disconnected"))
             d == t.child.closing
  <2>1. a \in Nat /\ b \in Nat /\ c \in Nat /\ d \in Int /\ d >= 0
    BY <1>1, CountsOfThread
  <2>2. a + d + b + c <= 0
    BY <1>1 DEF Unfinished
  <2> HIDE DEF a, b, c, d
  <2>3. d = 0 /\ a = 0
    BY <2>1, <2>2
  <2> QED
    BY <2>3 DEF a, d
<1>3. ~ToldToPart(t)
  <2>1. t.inbox \in Seq(Calls)
    BY <1>1 DEF Thread
  <2>2. ToldToPart(t) => x \in Elements(t.inbox)
    BY DEF ToldToPart, ComesAfter, Elements
  <2>3. x \in Elements(t.inbox) => Count(t.inbox, x) > 0
    BY <2>1, CountOfElement
  <2> QED
    BY <1>2, <2>2, <2>3
<1>4. Quiet(t)
  BY <1>3 DEF PartInv, Parting
<1> QED
  BY <1>2, <1>4 DEF Quiet

\* Once a disconnect or a destroy is over, no thread is in a session or begins one, unless
\* it crossed a restart, a thread died or two threads were asked for at once
\* (atemSocket.ts:92-98, atemSocketChild.ts:116-123): whatever was under way when the user
\* asked, other calls included, is overtaken by the disconnect.
THEOREM DisconnectionAlwaysHolds == Spec => []DisconnectionHolds
<1>1. Init => PartInv
  BY DEF Init, PartInv, Away
<1>2. TypesInv /\ (doubled \/ ControlInv) /\ (doubled \/ PartInv) /\ [Next]_connectionVars
         => (doubled \/ PartInv)'
  BY PartStep, DoubledStays
<1>3. TypesInv /\ (doubled \/ ControlInv) /\ (doubled \/ PartInv) => DisconnectionHolds
  BY PartedIsAtRest DEF DisconnectionHolds
<1> QED
  BY <1>1, <1>2, <1>3, AlwaysInControl, PTL DEF Spec

-----------------------------------------------------------------------------
(* A connected state is whole *)

VersionOf(session) == [type |-> "commands", batch |-> {"version"}, session |-> session]

VersionState(session) == [defined |-> TRUE, parts |-> {session} \X {"version"}]

\* A message that tells of a session.
IsNews(m) == m.type \in {"commands", "disconnect"}

\* The last that the parent has heard of sessions when it comes to message i of s is the
\* version of this one.
Opened(s, i, session, st) ==
    \/ \E j \in 1 .. i - 1 : /\ s[j] = VersionOf(session)
                             /\ \A k \in j + 1 .. i - 1 : ~IsNews(s[k])
    \/ st = VersionState(session) /\ \A k \in 1 .. i - 1 : ~IsNews(s[k])

\* The rest of an initial state comes right after its version.
InOrder(t, st, upTo) ==
    /\ \A i \in 1 .. Len(t.outbox) : t.outbox[i].type = "commands" =>
          /\ t.outbox[i].session \in 1 .. upTo
          /\ t.outbox[i].batch = {"init"} => Opened(t.outbox, i, t.outbox[i].session, st)
    /\ t.child.state = "Established" =>
          /\ t.session \in 1 .. upTo
          /\ t.dump = 1 => Opened(t.outbox, Len(t.outbox) + 1, t.session, st)

\* A connection that is announced has one whole initial state.
IsWhole ==
    status = "CONNECTED" =>
        /\ state.defined
        /\ \E x \in 1 .. sessions : state.parts = {x} \X {"version", "init"}

WholeInv ==
    /\ \A n \in Threads : InOrder(thread[n], state, sessions)
    /\ IsWhole

\* A message that is posted after the others.
LEMMA OpenedAppend ==
    ASSUME NEW s \in Seq(Reports), NEW m \in Reports, NEW x, NEW st
    PROVE  LET r == Append(s, m)
           IN  /\ Len(r) = Len(s) + 1 /\ r[Len(s) + 1] = m
               /\ \A i \in 1 .. Len(s) : r[i] = s[i]
               /\ \A i \in 1 .. Len(s) + 1 : Opened(s, i, x, st) => Opened(r, i, x, st)
               /\ ~IsNews(m) /\ Opened(s, Len(s) + 1, x, st) => Opened(r, Len(r) + 1, x, st)
               /\ m = VersionOf(x) => Opened(r, Len(r) + 1, x, st)
<1> DEFINE r == Append(s, m)
<1>1. /\ Len(s) \in Nat /\ Len(r) = Len(s) + 1 /\ r[Len(s) + 1] = m
      /\ \A i \in 1 .. Len(s) : r[i] = s[i]
  BY LenProperties, AppendProperties
<1> HIDE DEF r
<1>2. ASSUME NEW i \in 1 .. Len(s) + 1, Opened(s, i, x, st)
      PROVE  Opened(r, i, x, st)
  <2>1. \A k \in 1 .. i - 1 : r[k] = s[k] /\ k \in 1 .. Len(s)
    BY <1>1
  <2>2. CASE st = VersionState(x) /\ \A k \in 1 .. i - 1 : ~IsNews(s[k])
    BY <2>1, <2>2 DEF Opened
  <2>3. CASE \E j \in 1 .. i - 1 : /\ s[j] = VersionOf(x)
                                   /\ \A k \in j + 1 .. i - 1 : ~IsNews(s[k])
    <3>1. PICK j \in 1 .. i - 1 : /\ s[j] = VersionOf(x)
                                  /\ \A k \in j + 1 .. i - 1 : ~IsNews(s[k])
      BY <2>3
    <3>2. \A k \in j + 1 .. i - 1 : k \in 1 .. i - 1
      BY <1>1
    <3> QED
      BY <2>1, <3>1, <3>2 DEF Opened
  <2> QED
    BY <1>2, <2>2, <2>3 DEF Opened
<1>3. ASSUME ~IsNews(m), Opened(s, Len(s) + 1, x, st)
      PROVE  Opened(r, Len(r) + 1, x, st)
  <2>1. \A k \in 1 .. Len(s) + 1 : k \in 1 .. Len(s) \/ k = Len(s) + 1
    BY <1>1
  <2>2. /\ 1 .. Len(s) + 1 - 1 = 1 .. Len(s) /\ 1 .. Len(r) + 1 - 1 = 1 .. Len(s) + 1
        /\ \A j \in Nat : /\ j + 1 .. Len(s) + 1 - 1 = j + 1 .. Len(s)
                          /\ j + 1 .. Len(r) + 1 - 1 = j + 1 .. Len(s) + 1
    BY <1>1
  <2>3. CASE st = VersionState(x) /\ \A k \in 1 .. Len(s) : ~IsNews(s[k])
    <3>1. \A k \in 1 .. Len(s) + 1 : ~IsNews(r[k])
      BY <1>1, <1>3, <2>1, <2>3
    <3> QED
      BY <2>2, <2>3, <3>1 DEF Opened
  <2>4. CASE \E j \in 1 .. Len(s) : /\ s[j] = VersionOf(x)
                                    /\ \A k \in j + 1 .. Len(s) : ~IsNews(s[k])
    <3>1. PICK j \in 1 .. Len(s) : /\ s[j] = VersionOf(x)
                                   /\ \A k \in j + 1 .. Len(s) : ~IsNews(s[k])
      BY <2>4
    <3>2. \A k \in j + 1 .. Len(s) + 1 : k \in j + 1 .. Len(s) \/ k = Len(s) + 1
      BY <1>1
    <3>3. \A k \in j + 1 .. Len(s) : k \in 1 .. Len(s)
      BY <1>1
    <3>4. \A k \in j + 1 .. Len(s) + 1 : ~IsNews(r[k])
      BY <1>1, <1>3, <3>1, <3>2, <3>3
    <3>5. j \in 1 .. Len(s) + 1 /\ j \in Nat /\ r[j] = VersionOf(x)
      BY <1>1, <3>1
    <3> QED
      BY <2>2, <3>4, <3>5 DEF Opened
  <2> QED
    BY <1>3, <2>2, <2>3, <2>4 DEF Opened
<1>4. ASSUME m = VersionOf(x)
      PROVE  Opened(r, Len(r) + 1, x, st)
  <2>1. Len(r) \in 1 .. Len(r) + 1 - 1 /\ r[Len(r)] = VersionOf(x)
    BY <1>1, <1>4
  <2>2. \A k \in Len(r) + 1 .. Len(r) + 1 - 1 : FALSE
    BY <1>1
  <2> QED
    BY <2>1, <2>2 DEF Opened
<1> QED
  BY <1>1, <1>2, <1>3, <1>4 DEF r

\* A message that is taken before the others.
LEMMA OpenedTail ==
    ASSUME NEW s \in Seq(Reports), s # <<>>, NEW x, NEW st
    PROVE  LET r == Tail(s)
           IN  /\ Len(r) + 1 = Len(s) /\ Len(r) \in Nat
               /\ \A i \in 1 .. Len(r) : r[i] = s[i + 1] /\ i + 1 \in 1 .. Len(s)
               /\ \A i \in 1 .. Len(r) + 1 : Opened(s, i + 1, x, st) =>
                     /\ ~IsNews(Head(s)) => Opened(r, i, x, st)
                     /\ IsNews(Head(s)) => \A after :
                           (Head(s) = VersionOf(x) => after = VersionState(x))
                              => Opened(r, i, x, after)
                     /\ IsNews(Head(s)) /\ Head(s) # VersionOf(x) =>
                           \A after : Opened(r, i, x, after)
<1> DEFINE r == Tail(s)
<1>1. /\ Len(s) \in Nat \ {0} /\ Len(r) = Len(s) - 1 /\ Head(s) = s[1]
      /\ \A i \in 1 .. Len(r) : r[i] = s[i + 1]
  BY LenProperties, HeadTailProperties, EmptySeq
<1> HIDE DEF r
<1>2. /\ Len(r) + 1 = Len(s) /\ Len(r) \in Nat
      /\ \A i \in 1 .. Len(r) : i + 1 \in 1 .. Len(s)
  BY <1>1
<1>3. ASSUME NEW i \in 1 .. Len(r) + 1, Opened(s, i + 1, x, st), NEW after,
             IF IsNews(Head(s)) THEN (Head(s) = VersionOf(x) => after = VersionState(x))
                                ELSE after = st
      PROVE  Opened(r, i, x, after)
  <2>1. /\ 1 .. (i + 1) - 1 = 1 .. i /\ i \in Nat /\ 1 \in 1 .. i
        /\ \A j \in Nat : j + 1 .. (i + 1) - 1 = j + 1 .. i
    BY <1>1
  <2>2. \A k \in 1 .. i - 1 : r[k] = s[k + 1] /\ k + 1 \in 1 .. i /\ k + 1 # 1
    BY <1>1, <2>1
  <2>3. CASE st = VersionState(x) /\ \A k \in 1 .. i : ~IsNews(s[k])
    <3>1. ~IsNews(Head(s))
      BY <1>1, <2>1, <2>3
    <3> QED
      BY <1>3, <2>2, <2>3, <3>1 DEF Opened
  <2>4. CASE \E j \in 1 .. i : s[j] = VersionOf(x) /\ \A k \in j + 1 .. i : ~IsNews(s[k])
    <3>1. PICK j \in 1 .. i : s[j] = VersionOf(x) /\ \A k \in j + 1 .. i : ~IsNews(s[k])
      BY <2>4
    <3>2. CASE j = 1
      <4>1. Head(s) = VersionOf(x) /\ IsNews(Head(s))
        BY <1>1, <3>1, <3>2 DEF VersionOf, IsNews
      <4>2. \A k \in 1 .. i - 1 : k + 1 \in j + 1 .. i
        BY <2>1, <3>2
      <4>3. \A k \in 1 .. i - 1 : ~IsNews(r[k])
        BY <2>2, <3>1, <4>2
      <4> QED
        BY <1>3, <4>1, <4>3 DEF Opened
    <3>3. CASE j # 1
      <4>1. j - 1 \in 1 .. i - 1 /\ (j - 1) + 1 = j
        BY <2>1, <3>1, <3>3
      <4>2. r[j - 1] = VersionOf(x)
        BY <2>2, <3>1, <4>1
      <4>3. \A k \in (j - 1) + 1 .. i - 1 : k \in 1 .. i - 1 /\ k + 1 \in j + 1 .. i
        BY <2>1, <3>1, <3>3
      <4>4. \A k \in (j - 1) + 1 .. i - 1 : ~IsNews(r[k])
        BY <2>2, <3>1, <4>3
      <4> QED
        BY <4>1, <4>2, <4>4 DEF Opened
    <3> QED
      BY <3>2, <3>3
  <2> QED
    BY <1>3, <2>1, <2>3, <2>4 DEF Opened
<1>4. ASSUME NEW i \in 1 .. Len(r) + 1, Opened(s, i + 1, x, st)
      PROVE  /\ ~IsNews(Head(s)) => Opened(r, i, x, st)
             /\ IsNews(Head(s)) => \A after :
                   (Head(s) = VersionOf(x) => after = VersionState(x))
                      => Opened(r, i, x, after)
             /\ IsNews(Head(s)) /\ Head(s) # VersionOf(x) =>
                   \A after : Opened(r, i, x, after)
  BY <1>3, <1>4
<1> QED
  BY <1>1, <1>2, <1>4 DEF r

\* A thread that posts nothing keeps its order.
LEMMA SilentInOrder ==
    ASSUME NEW t, NEW u, NEW st, NEW upTo \in Nat, NEW upToNow \in Nat,
           InOrder(t, st, upTo), u.outbox = t.outbox, upTo <= upToNow,
           u.child.state = "Established" =>
              \/ /\ t.child.state = "Established" /\ u.session = t.session
                 /\ u.dump = 1 => t.dump = 1
              \/ u.session \in 1 .. upToNow /\ u.dump # 1
    PROVE  InOrder(u, st, upToNow)
<1>1. \A s \in 1 .. upTo : s \in 1 .. upToNow
  OBVIOUS
<1> QED
  BY <1>1 DEF InOrder

\* A thread that posts something else than a batch keeps its order.
LEMMA ReportInOrder ==
    ASSUME NEW t \in Thread, NEW u \in Thread, NEW m \in Reports, NEW st, NEW upTo,
           InOrder(t, st, upTo), u.outbox = Append(t.outbox, m), m.type # "commands",
           u.child.state = "Established" =>
              /\ t.child.state = "Established" /\ u.session = t.session
              /\ u.dump = 1 => t.dump = 1
              /\ ~IsNews(m)
    PROVE  InOrder(u, st, upTo)
<1> DEFINE s == t.outbox
           r == u.outbox
<1>1. s \in Seq(Reports) /\ Len(s) \in Nat
  BY LenProperties DEF Thread
<1>2. /\ Len(r) = Len(s) + 1 /\ r[Len(s) + 1] = m /\ \A i \in 1 .. Len(s) : r[i] = s[i]
      /\ \A x : \A i \in 1 .. Len(s) + 1 : Opened(s, i, x, st) => Opened(r, i, x, st)
      /\ \A x : ~IsNews(m) /\ Opened(s, Len(s) + 1, x, st) => Opened(r, Len(r) + 1, x, st)
  <2>1. r = Append(s, m)
    OBVIOUS
  <2> HIDE DEF r, s
  <2>2. ASSUME NEW x
        PROVE  /\ Len(r) = Len(s) + 1 /\ r[Len(s) + 1] = m
               /\ \A i \in 1 .. Len(s) : r[i] = s[i]
               /\ \A i \in 1 .. Len(s) + 1 : Opened(s, i, x, st) => Opened(r, i, x, st)
               /\ ~IsNews(m) /\ Opened(s, Len(s) + 1, x, st) => Opened(r, Len(r) + 1, x, st)
    BY <1>1, <2>1, OpenedAppend
  <2> QED
    BY <2>2
<1>3. /\ \A i \in 1 .. Len(s) : s[i].type = "commands" =>
            /\ s[i].session \in 1 .. upTo
            /\ s[i].batch = {"init"} => Opened(s, i, s[i].session, st)
      /\ t.child.state = "Established" =>
            /\ t.session \in 1 .. upTo
            /\ t.dump = 1 => Opened(s, Len(s) + 1, t.session, st)
  BY DEF InOrder
<1> HIDE DEF r, s
<1>4. ASSUME NEW i \in 1 .. Len(r), r[i].type = "commands"
      PROVE  /\ r[i].session \in 1 .. upTo
             /\ r[i].batch = {"init"} => Opened(r, i, r[i].session, st)
  <2>1. i \in 1 .. Len(s) /\ i \in 1 .. Len(s) + 1
    BY <1>1, <1>2, <1>4
  <2> QED
    BY <1>2, <1>3, <1>4, <2>1
<1>5. u.child.state = "Established" =>
            /\ u.session \in 1 .. upTo
            /\ u.dump = 1 => Opened(r, Len(r) + 1, u.session, st)
  BY <1>2, <1>3
<1> QED
  BY <1>4, <1>5 DEF InOrder, r

\* The next batch of an initial state comes in its order.
LEMMA BatchInOrder ==
    ASSUME NEW t \in Thread, NEW u \in Thread, NEW batch \in DumpBatch(t.dump), NEW st, NEW upTo,
           InOrder(t, st, upTo), t.child.state = "Established",
           u.outbox = Append(t.outbox, [type |-> "commands", batch |-> batch,
                                        session |-> t.session]),
           u.session = t.session, u.dump = IF "init" \in batch THEN 2 ELSE 1
    PROVE  InOrder(u, st, upTo)
<1> DEFINE s == t.outbox
           r == u.outbox
           m == [type |-> "commands", batch |-> batch, session |-> t.session]
<1>1. s \in Seq(Reports) /\ Len(s) \in Nat /\ t.session \in Nat /\ t.dump \in 0 .. 2
  BY LenProperties DEF Thread
<1>2. /\ batch = {"init"} => t.dump = 1
      /\ batch \in {{"version"}, {"init"}, {"version", "init"}}
      /\ "init" \notin batch => batch = {"version"}
  <2>1. t.dump = 0 => batch \in {{"version"}, {"version", "init"}}
    BY DEF DumpBatch
  <2>2. t.dump = 1 => batch = {"init"}
    BY DEF DumpBatch
  <2>3. t.dump \in {0, 1}
    BY <1>1 DEF DumpBatch
  <2>4. "version" \notin {"init"} /\ "version" \in {"version"} /\ "init" \in {"version", "init"}
        /\ "version" \in {"version", "init"}
    OBVIOUS
  <2>5. {"version"} # {"init"} /\ {"version", "init"} # {"init"}
    BY <2>4
  <2> QED
    BY <2>1, <2>2, <2>3, <2>4, <2>5
<1>3. m \in Reports
  BY <1>1, <1>2 DEF Reports, Batch
<1>4. m.batch = batch /\ m.session = t.session
  OBVIOUS
<1>5. "init" \notin batch => m = VersionOf(t.session)
  BY <1>2 DEF VersionOf
<1> HIDE DEF m
<1>6. u.outbox = Append(t.outbox, m)
  BY DEF m
<1>7. /\ Len(r) = Len(s) + 1 /\ r[Len(s) + 1] = m /\ \A i \in 1 .. Len(s) : r[i] = s[i]
      /\ \A x : \A i \in 1 .. Len(s) + 1 : Opened(s, i, x, st) => Opened(r, i, x, st)
      /\ \A x : m = VersionOf(x) => Opened(r, Len(r) + 1, x, st)
  <2>1. r = Append(s, m)
    BY <1>6
  <2> HIDE DEF r, s
  <2>2. ASSUME NEW x
        PROVE  /\ Len(r) = Len(s) + 1 /\ r[Len(s) + 1] = m
               /\ \A i \in 1 .. Len(s) : r[i] = s[i]
               /\ \A i \in 1 .. Len(s) + 1 : Opened(s, i, x, st) => Opened(r, i, x, st)
               /\ m = VersionOf(x) => Opened(r, Len(r) + 1, x, st)
    BY <1>1, <1>3, <2>1, OpenedAppend
  <2> QED
    BY <2>2
<1>8. /\ \A i \in 1 .. Len(s) : s[i].type = "commands" =>
            /\ s[i].session \in 1 .. upTo
            /\ s[i].batch = {"init"} => Opened(s, i, s[i].session, st)
      /\ t.session \in 1 .. upTo
      /\ t.dump = 1 => Opened(s, Len(s) + 1, t.session, st)
  BY DEF InOrder
<1> HIDE DEF r, s
<1>9. ASSUME NEW i \in 1 .. Len(r), r[i].type = "commands"
      PROVE  /\ r[i].session \in 1 .. upTo
             /\ r[i].batch = {"init"} => Opened(r, i, r[i].session, st)
  <2>1. CASE i \in 1 .. Len(s)
    <3>1. i \in 1 .. Len(s) + 1
      BY <1>1, <2>1
    <3> QED
      BY <1>7, <1>8, <1>9, <2>1, <3>1
  <2>2. CASE i = Len(s) + 1
    <3>1. i \in 1 .. Len(s) + 1
      BY <1>1, <2>2
    <3> QED
      BY <1>2, <1>4, <1>7, <1>8, <2>2, <3>1
  <2> QED
    BY <1>1, <1>7, <2>1, <2>2
<1>10. /\ u.session \in 1 .. upTo
       /\ u.dump = 1 => Opened(r, Len(r) + 1, u.session, st)
  BY <1>5, <1>7, <1>8
<1> QED
  BY <1>9, <1>10 DEF InOrder, r

\* The parent takes a message; a batch or an end changes its state.
LEMMA TakenInOrder ==
    ASSUME NEW t \in Thread, NEW u, NEW st, NEW after, NEW upTo, InOrder(t, st, upTo),
           t.outbox # <<>>, u.outbox = Tail(t.outbox), u.child = t.child,
           u.session = t.session, u.dump = t.dump,
           ~IsNews(Head(t.outbox)) => after = st,
           \A x : Head(t.outbox) = VersionOf(x) => after = VersionState(x)
    PROVE  InOrder(u, after, upTo)
<1> DEFINE s == t.outbox
           r == u.outbox
<1>1. s \in Seq(Reports) /\ s # <<>> /\ Len(s) \in Nat
  BY LenProperties DEF Thread
<1>2. /\ Len(r) + 1 = Len(s) /\ Len(r) \in Nat
      /\ \A i \in 1 .. Len(r) : r[i] = s[i + 1] /\ i + 1 \in 1 .. Len(s)
  BY <1>1, OpenedTail
<1>3. \A x : \A i \in 1 .. Len(r) + 1 : Opened(s, i + 1, x, st) => Opened(r, i, x, after)
  <2> SUFFICES ASSUME NEW x, NEW i \in 1 .. Len(r) + 1, Opened(s, i + 1, x, st)
               PROVE  Opened(r, i, x, after)
    OBVIOUS
  <2>1. /\ ~IsNews(Head(s)) => Opened(r, i, x, st)
        /\ IsNews(Head(s)) => \A later :
              (Head(s) = VersionOf(x) => later = VersionState(x)) => Opened(r, i, x, later)
    BY <1>1, OpenedTail
  <2> QED
    BY <2>1
<1>4. /\ \A i \in 1 .. Len(s) : s[i].type = "commands" =>
            /\ s[i].session \in 1 .. upTo
            /\ s[i].batch = {"init"} => Opened(s, i, s[i].session, st)
      /\ t.child.state = "Established" =>
            /\ t.session \in 1 .. upTo
            /\ t.dump = 1 => Opened(s, Len(s) + 1, t.session, st)
  BY DEF InOrder
<1> HIDE DEF r, s
<1>5. ASSUME NEW i \in 1 .. Len(r), r[i].type = "commands"
      PROVE  /\ r[i].session \in 1 .. upTo
             /\ r[i].batch = {"init"} => Opened(r, i, r[i].session, after)
  <2>1. i \in 1 .. Len(r) + 1
    BY <1>2
  <2> QED
    BY <1>2, <1>3, <1>4, <1>5, <2>1
<1>6. u.child.state = "Established" =>
            /\ u.session \in 1 .. upTo
            /\ u.dump = 1 => Opened(r, Len(r) + 1, u.session, after)
  <2>1. Len(r) + 1 \in 1 .. Len(r) + 1 /\ (Len(r) + 1) + 1 = Len(s) + 1
    BY <1>2
  <2> QED
    BY <1>3, <1>4, <2>1
<1> QED
  BY <1>5, <1>6 DEF InOrder, r

\* A thread that holds nothing is in order.
LEMMA FreshInOrder ==
    ASSUME NEW t, t.child = Fresh, t.outbox = <<>>, NEW st, NEW upTo
    PROVE  InOrder(t, st, upTo)
<1>1. Len(t.outbox) = 0
  OBVIOUS
<1>2. \A i \in 1 .. Len(t.outbox) : FALSE
  BY <1>1
<1> QED
  BY <1>2 DEF InOrder, Fresh

\* It is enough to look at the thread that runs.
LEMMA RunningInOrder ==
    ASSUME ThreadsInv', OneThread', IsWhole',
           \A n \in Threads : thread'[n].life = "running"
              => InOrder(thread'[n], state', sessions')
    PROVE  WholeInv'
<1>1. ASSUME NEW n \in Threads, thread'[n].life # "running"
      PROVE  InOrder(thread'[n], state', sessions')
  <2>1. thread'[n] \in Thread /\ Empty(thread'[n])
    BY <1>1 DEF ThreadsInv, OneThread
  <2> QED
    BY <2>1, EmptyOwesNothing, FreshInOrder
<1> QED
  BY <1>1 DEF WholeInv

\* A connected state stays whole while the parent does not change it.
LEMMA StateStaysWhole ==
    ASSUME IsWhole, sessions \in Nat, sessions' \in Nat, sessions <= sessions',
           state' = state, status' = status
    PROVE  IsWhole'
<1>1. \A s \in 1 .. sessions : s \in 1 .. sessions'
  OBVIOUS
<1> QED
  BY <1>1 DEF IsWhole

\* The child and the device deliver the initial state in its order.
LEMMA WorkInOrder ==
    ASSUME TypesInv, NEW n \in Threads, ChildRuns(n) \/ DeviceStep(n),
           InOrder(thread[n], state, sessions)
    PROVE  /\ sessions' \in Nat /\ sessions <= sessions'
           /\ InOrder(thread'[n], state, sessions')
<1> DEFINE t == thread[n]
           u == thread'[n]
<1>1. ThreadsInv /\ sessions \in Nat
  BY DEF TypesInv, ParentTypes
<1>2. RunsOn(n)
  BY <1>1, WorkEffect DEF Works
<1>3. t \in Thread /\ u \in Thread /\ t.child \in Condition
  BY <1>1, <1>2 DEF RunsOn, ThreadInv, ThreadsInv, Thread
<1>4. sessions' = sessions \/ (StartSession(n) /\ sessions' = sessions + 1)
  <2>1. ChildRuns(n) => sessions' = sessions
    BY DEF ChildRuns, counters
  <2>2. DeviceStep(n) => sessions' = sessions \/ (StartSession(n) /\ sessions' = sessions + 1)
    BY DEF DeviceStep, StartSession, Deliver, Acknowledge, LoseSession
  <2> QED
    BY <2>1, <2>2
<1>5. sessions' \in Nat /\ sessions <= sessions' /\ sessions <= sessions
  BY <1>1, <1>4
<1>6. CASE StartSession(n)
  <2>1. u.outbox = t.outbox /\ u.session = sessions' /\ u.dump = 0 /\ sessions' = sessions + 1
    BY <1>1, <1>6, StartEffect DEF StartSession
  <2>2. u.session \in 1 .. sessions' /\ u.dump # 1
    BY <1>1, <2>1
  <2> QED
    BY <1>1, <1>5, <2>1, <2>2, SilentInOrder
<1> SUFFICES ASSUME ~StartSession(n)
             PROVE  InOrder(u, state, sessions)
  BY <1>4, <1>5, <1>6
<1>7. DisconnectReport \in Reports /\ DisconnectReport.type = "disconnect"
  BY DEF Reports, DisconnectReport
<1>8. ASSUME u.session = t.session, u.child = Restarted(t.child), u.dump = 0,
             t.child.state = "Established" => u.outbox = Append(t.outbox, DisconnectReport),
             t.child.state # "Established" => u.outbox = t.outbox
      PROVE  InOrder(u, state, sessions)
  <2>1. CASE t.child.state = "Established"
    <3>1. u.child.state = "Closed"
      BY <1>3, <1>8, <2>1 DEF Restarted, Abandoned, Condition
    <3> QED
      BY <1>3, <1>7, <1>8, <2>1, <3>1, ReportInOrder
  <2>2. CASE t.child.state # "Established"
    <3>1. u.child.state # "Established"
      BY <1>3, <1>8, <2>2 DEF Restarted, Dialled, Condition
    <3> QED
      BY <1>1, <1>5, <1>8, <2>2, <3>1, SilentInOrder
  <2> QED
    BY <2>1, <2>2
<1>9. CASE TakeConnect(n)
  BY <1>1, <1>8, <1>9, ConnectEffect
<1>10. CASE Redial(n) \/ LoseSession(n)
  <2>1. Runs(n) /\ ThreadBecomes(n, RestartIn(thread[n]))
    BY <1>10 DEF Redial, LoseSession, InSessionAt
  <2> QED
    BY <1>1, <1>8, <2>1, RestartEffect
<1>11. CASE TakeDisconnectCall(n)
  <2>1. /\ u.child = Disconnecting(t.child) /\ u.dump = t.dump /\ u.session = t.session
        /\ t.child.open => u.outbox = t.outbox
        /\ ~t.child.open => u.outbox = Append(t.outbox, DisconnectReport)
    BY <1>1, <1>11, DisconnectEffect
  <2>2. CASE t.child.open
    <3>1. u.child.state = t.child.state
      BY <1>3, <2>1, <2>2 DEF Disconnecting, Condition
    <3> QED
      BY <1>1, <1>5, <2>1, <2>2, <3>1, SilentInOrder
  <2>3. CASE ~t.child.open
    <3>1. u.child.state = "Disconnected"
      BY <1>3, <2>1, <2>3 DEF Disconnecting, Condition
    <3> QED
      BY <1>3, <1>7, <2>1, <2>3, <3>1, ReportInOrder
  <2> QED
    BY <2>2, <2>3
<1>12. CASE TakeSend(n)
  <2>1. PICK p \in Packets :
           /\ u.child = Holding(t.child, {p}) /\ u.dump = t.dump /\ u.session = t.session
           /\ u.outbox = Append(t.outbox, WithIds(IF t.child.open THEN "sent"
                                                  ELSE "notSent", {p}))
    BY <1>1, <1>12, SendEffect
  <2>2. u.child.state = t.child.state
    BY <1>3, <2>1 DEF Holding, Condition
  <2> DEFINE m == WithIds(IF t.child.open THEN "sent" ELSE "notSent", {p})
  <2>3. m \in Reports /\ m.type \in {"sent", "notSent"}
    BY DEF Reports, WithIds
  <2>4. u.outbox = Append(t.outbox, m)
    BY <2>1
  <2> HIDE DEF m
  <2>5. ~IsNews(m) /\ m.type # "commands"
    BY <2>3 DEF IsNews
  <2> QED
    BY <1>3, <2>1, <2>2, <2>3, <2>4, <2>5, ReportInOrder
<1>13. CASE TakeAnswer(n)
  <2>1. /\ u.session = t.session
        /\ \/ u.child = Resumed(t.child) /\ u.outbox = t.outbox /\ u.dump = 0
           \/ /\ u.child = t.child /\ u.dump = t.dump
              /\ u.outbox = Append(t.outbox, Message("disconnected"))
    BY <1>1, <1>13, AnswerEffect
  <2>2. CASE u.child = Resumed(t.child) /\ u.outbox = t.outbox /\ u.dump = 0
    <3>1. u.child.state = "Established" => t.child.state = "Established"
      BY <1>3, <2>2 DEF Resumed, Dialled, Condition
    <3> QED
      BY <1>1, <1>5, <2>1, <2>2, <3>1, SilentInOrder
  <2>3. CASE /\ u.child = t.child /\ u.dump = t.dump
             /\ u.outbox = Append(t.outbox, Message("disconnected"))
    <3>1. Message("disconnected") \in Reports /\ Message("disconnected").type = "disconnected"
      BY DEF Reports, Message
    <3>2. ~IsNews(Message("disconnected"))
      BY <3>1 DEF IsNews
    <3> QED
      BY <1>3, <2>1, <2>3, <3>1, <3>2, ReportInOrder
  <2> QED
    BY <2>1, <2>2, <2>3
<1>14. CASE CloseSocket(n)
  <2>1. u.child = ClosedDown(t.child) /\ u.outbox = Append(t.outbox, DisconnectReport)
    BY <1>1, <1>14, CloseEffect
  <2>2. u.child.state = "Disconnected"
    BY <1>3, <2>1 DEF ClosedDown, Condition
  <2> QED
    BY <1>3, <1>7, <2>1, <2>2, ReportInOrder
<1>15. CASE Deliver(n)
  BY <1>1, <1>3, <1>15, DeliverEffect, BatchInOrder
<1>16. CASE Acknowledge(n)
  <2>1. PICK ids \in SUBSET t.child.inFlight :
           /\ u.child = Relieved(t.child, ids) /\ ids \in SUBSET Packets
           /\ u.outbox = Append(t.outbox, WithIds("acknowledged", ids))
    BY <1>1, <1>16, AcknowledgeEffect
  <2>2. u.dump = t.dump /\ u.session = t.session
    BY <1>1, <1>16, AcknowledgeEffect
  <2>3. u.child.state = t.child.state
    BY <1>3, <2>1 DEF Relieved, Condition
  <2> DEFINE m == WithIds("acknowledged", ids)
  <2>4. m \in Reports /\ m.type = "acknowledged"
    BY <2>1 DEF Reports, WithIds
  <2>5. ~IsNews(m)
    BY <2>4 DEF IsNews
  <2>6. u.outbox = Append(t.outbox, m)
    BY <2>1
  <2> HIDE DEF m
  <2> QED
    BY <1>3, <2>2, <2>3, <2>4, <2>5, <2>6, ReportInOrder
<1> QED
  BY <1>9, <1>10, <1>11, <1>12, <1>13, <1>14, <1>15, <1>16 DEF ChildRuns, DeviceStep

\* What a batch makes of the parent's state.
LEMMA MutatedState ==
    ASSUME NEW batch \in Batch, NEW session, MutateState(batch, session),
           batch = {"init"} => state = VersionState(session)
    PROVE  /\ batch = {"version"} => state' = VersionState(session) /\ status' = "CONNECTING"
           /\ batch # {"version"} => /\ state'.defined
                                     /\ state'.parts = {session} \X {"version", "init"}
<1>1. {session} \X {"version", "init"} = ({session} \X {"version"}) \union ({session} \X {"init"})
  OBVIOUS
<1>2. /\ Created.defined = TRUE /\ Created.parts = {}
      /\ Created = [defined |-> TRUE, parts |-> {}]
  BY DEF Created
<1>3. CASE batch = {"version"}
  <2>1. "version" \in batch /\ "init" \notin batch
    BY <1>3
  <2>2. state' = Applied(Created, batch, session) /\ status' = "CONNECTING"
    BY <2>1 DEF MutateState, StateBefore
  <2>3. state' = [defined |-> TRUE, parts |-> {} \union ({session} \X batch)]
    BY <1>2, <2>2 DEF Applied
  <2> QED
    BY <1>3, <2>2, <2>3 DEF VersionState
<1>4. CASE batch = {"init"}
  <2>1. "version" \notin batch
    BY <1>4
  <2>2. state' = Applied(state, batch, session)
    BY <2>1 DEF MutateState, StateBefore
  <2>3. state = [defined |-> TRUE, parts |-> {session} \X {"version"}]
    BY <1>4 DEF VersionState
  <2>4. /\ state'.defined = TRUE
        /\ state'.parts = ({session} \X {"version"}) \union ({session} \X batch)
    BY <2>2, <2>3 DEF Applied
  <2> QED
    BY <1>1, <1>4, <2>1, <2>4
<1>5. CASE batch = {"version", "init"}
  <2>1. "version" \in batch /\ "init" \in batch
    BY <1>5
  <2>2. state' = Applied(Created, batch, session)
    BY <2>1 DEF MutateState, StateBefore
  <2>3. state' = [defined |-> TRUE, parts |-> {} \union ({session} \X batch)]
    BY <1>2, <2>2 DEF Applied
  <2>4. batch # {"version"}
    BY <2>1
  <2> QED
    BY <1>5, <2>3, <2>4
<1> QED
  BY <1>3, <1>4, <1>5 DEF Batch

\* The parent takes a message: its state is whole when it is announced.
LEMMA MessageKeepsWhole ==
    ASSUME TypesInv, OneThread', WholeInv, NEW n \in Threads, TakesMessage(n),
           sessions' = sessions
    PROVE  WholeInv'
<1> DEFINE t == thread[n]
           u == thread'[n]
           m == Head(t.outbox)
<1>1. ThreadsInv /\ sessions \in Nat
  BY DEF TypesInv, ParentTypes
<1>2. /\ RunsOn(n) /\ ThreadsInv' /\ u.child = t.child /\ t.outbox # <<>> /\ m \in Reports
      /\ u.outbox = Tail(t.outbox)
  BY <1>1, MessageEffect DEF RunsOn
<1>3. /\ t \in Thread /\ u.session = t.session /\ u.dump = t.dump
      /\ t.outbox \in Seq(Reports) /\ Len(t.outbox) \in Nat /\ 1 \in 1 .. Len(t.outbox)
      /\ m = t.outbox[1]
  <2>1. t \in Thread /\ t.outbox \in Seq(Reports)
    BY <1>1 DEF ThreadsInv, Thread
  <2>2. /\ Len(t.outbox) \in Nat /\ 1 \in 1 .. Len(t.outbox) /\ m = t.outbox[1]
    BY <1>2, <2>1, LenProperties, HeadTailProperties, EmptySeq
  <2>3. u = Taken(n) \/ u = Posting(Taken(n), Message("answer"))
    BY <1>1 DEF TakesMessage, TakeDisconnect, TakeCommands, TakeAcknowledged, TakeSent,
                TakeNotSent, TakeDisconnected, ThreadsInv
  <2>4. u.session = t.session /\ u.dump = t.dump
    BY <2>1, <2>3 DEF Taken, Posting, Thread
  <2> QED
    BY <2>1, <2>2, <2>4
<1>4. InOrder(t, state, sessions) /\ IsWhole
  BY DEF WholeInv
<1>5. \A k \in Threads : thread'[k].life = "running" => k = n
  BY <1>2 DEF OneThread, Alive, RunsOn
<1>6. \A x : VersionOf(x).type = "commands" /\ VersionOf(x).batch = {"version"}
             /\ VersionOf(x).session = x
  BY DEF VersionOf
<1> SUFFICES /\ ~IsNews(m) => state' = state
             /\ \A x : m = VersionOf(x) => state' = VersionState(x)
             /\ IsWhole'
  <2>1. ASSUME /\ ~IsNews(m) => state' = state
               /\ \A x : m = VersionOf(x) => state' = VersionState(x)
        PROVE  InOrder(u, state', sessions')
    BY <1>2, <1>3, <1>4, <2>1, TakenInOrder
  <2> QED
    BY <1>2, <1>5, <2>1, RunningInOrder
<1>7. CASE TakeCommands(n)
  <2>1. m.type = "commands" /\ MutateState(m.batch, m.session)
    BY <1>7 DEF TakeCommands, Next1
  <2>2. m \in [type : {"commands"}, batch : Batch, session : Nat]
    <3>1. /\ DisconnectReport.type = "disconnect"
          /\ Message("disconnected").type = "disconnected"
          /\ \A q : /\ WithIds("sent", {q}).type = "sent"
                    /\ WithIds("notSent", {q}).type = "notSent"
          /\ \A ids : WithIds("acknowledged", ids).type = "acknowledged"
      BY DEF DisconnectReport, Message, WithIds
    <3> QED
      BY <1>2, <2>1, <3>1 DEF Reports
  <2>3. m.session \in 1 .. sessions
    BY <1>3, <1>4, <2>1 DEF InOrder
  <2>4. m.batch = {"init"} => state = VersionState(m.session)
    <3>1. m.batch = {"init"} => Opened(t.outbox, 1, m.session, state)
      BY <1>3, <1>4, <2>1 DEF InOrder
    <3>2. \A j \in 1 .. 1 - 1 : FALSE
      OBVIOUS
    <3> QED
      BY <3>1, <3>2 DEF Opened
  <2>5. /\ m.batch = {"version"} => /\ state' = VersionState(m.session)
                                    /\ status' = "CONNECTING"
        /\ m.batch # {"version"} => /\ state'.defined
                                    /\ state'.parts = {m.session} \X {"version", "init"}
    BY <2>1, <2>2, <2>4, MutatedState
  <2>6. IsWhole'
    BY <2>3, <2>5 DEF IsWhole
  <2>7. IsNews(m)
    BY <2>1 DEF IsNews
  <2> QED
    BY <1>6, <2>5, <2>6, <2>7
<1>8. CASE TakeDisconnect(n)
  <2>1. m = DisconnectReport /\ status' = "CLOSED"
    BY <1>1, <1>8, EndTakenEffect DEF TakeDisconnect, OnDisconnect, Close
  <2>2. m.type = "disconnect"
    BY <2>1 DEF DisconnectReport
  <2> QED
    BY <1>6, <2>1, <2>2 DEF IsNews, IsWhole
<1>9. CASE ~TakeCommands(n) /\ ~TakeDisconnect(n)
  <2>1. m.type \in {"acknowledged", "sent", "notSent", "disconnected"} /\ UNCHANGED atemVars
    BY <1>9 DEF TakesMessage, TakeAcknowledged, TakeSent, TakeNotSent, TakeDisconnected, Next1
  <2>2. state' = state /\ status' = status
    BY <2>1 DEF atemVars
  <2>3. IsWhole'
    BY <1>1, <1>4, <2>2, StateStaysWhole
  <2> QED
    BY <1>6, <2>1, <2>2, <2>3
<1> QED
  BY <1>7, <1>8, <1>9

\* Every step keeps the initial state in its order.
LEMMA WholeStep ==
    TypesInv /\ ControlInv /\ WholeInv /\ ~doubled' /\ [Next]_connectionVars => WholeInv'
<1> SUFFICES ASSUME TypesInv, ControlInv, WholeInv, ~doubled', [Next]_connectionVars
             PROVE  WholeInv'
  OBVIOUS
<1>1. /\ ThreadsInv /\ OneThread /\ ThreadsInv' /\ OneThread' /\ sessions \in Nat
      /\ socketProcess \in 0 .. MaxThreads
  BY TypesStep, ControlStep DEF TypesInv, ControlInv, ParentTypes
<1>2. \A n \in Threads : InOrder(thread[n], state, sessions)
  BY DEF WholeInv
<1>3. ASSUME UNCHANGED <<state, status, sessions>>,
             \A n \in Threads : thread'[n].life = "running" =>
                \/ thread'[n].child = Fresh /\ thread'[n].outbox = <<>>
                \/ /\ thread'[n].child = thread[n].child
                   /\ thread'[n].outbox = thread[n].outbox
                   /\ thread'[n].session = thread[n].session
                   /\ thread'[n].dump = thread[n].dump
      PROVE  WholeInv'
  <2>1. IsWhole'
    BY <1>1, <1>3, StateStaysWhole DEF WholeInv
  <2>2. ASSUME NEW n \in Threads, thread'[n].life = "running"
        PROVE  InOrder(thread'[n], state', sessions')
    <3>1. CASE thread'[n].child = Fresh /\ thread'[n].outbox = <<>>
      BY <3>1, FreshInOrder
    <3>2. CASE /\ thread'[n].child = thread[n].child
               /\ thread'[n].outbox = thread[n].outbox
               /\ thread'[n].session = thread[n].session
               /\ thread'[n].dump = thread[n].dump
      <4>1. InOrder(thread[n], state, sessions) /\ state' = state /\ sessions' = sessions
        BY <1>2, <1>3
      <4>2. InOrder(thread'[n], state, sessions)
        BY <3>2, <4>1 DEF InOrder
      <4> QED
        BY <4>1, <4>2
    <3> QED
      BY <1>3, <2>2, <3>1, <3>2
  <2> QED
    BY <1>1, <2>1, <2>2, RunningInOrder
<1>4. CASE UNCHANGED connectionVars
  BY <1>3, <1>4 DEF connectionVars, atemVars, counters
<1>5. CASE Connect \/ Disconnect \/ Destroy \/ SendCommands
  <2>1. UNCHANGED <<state, status, sessions>>
    BY <1>5 DEF Connect, Disconnect, Destroy, SendCommands, atemVars, counters
  <2>2. \/ thread' = thread
        \/ \E n \in Threads : thread' = [thread EXCEPT ![n].life = "creating"]
        \/ \E n \in Threads : \E m : thread' = [thread EXCEPT ![n] = Posting(@, m)]
    <3>1. CASE Connect /\ CreateThread
      BY <3>1 DEF CreateThread
    <3>2. ASSUME NEW m, socketProcess # 0, Call(socketProcess, m)
          PROVE  thread' = thread
                 \/ \E n \in Threads : \E k : thread' = [thread EXCEPT ![n] = Posting(@, k)]
      <4>1. socketProcess \in Threads
        BY <1>1, <3>2 DEF Threads
      <4> QED
        BY <3>2, <4>1 DEF Call
    <3>3. CASE Connect /\ ~CreateThread
      BY <3>2, <3>3 DEF Connect
    <3>4. CASE Disconnect \/ Destroy
      BY <3>2, <3>4 DEF Disconnect, Destroy, CallDisconnect
    <3>5. CASE SendCommands
      BY <3>2, <3>5 DEF SendCommands
    <3> QED
      BY <1>5, <3>1, <3>3, <3>4, <3>5
  <2>3. CASE \E n \in Threads : thread' = [thread EXCEPT ![n].life = "creating"]
    BY <1>1, <1>3, <2>1, <2>3 DEF ThreadsInv, Thread
  <2>4. CASE \E n \in Threads : \E m : thread' = [thread EXCEPT ![n] = Posting(@, m)]
    BY <1>1, <1>3, <2>1, <2>4 DEF ThreadsInv, Thread, Posting
  <2> QED
    BY <1>3, <2>1, <2>2, <2>3, <2>4
<1>6. CASE \E n \in Threads : ThreadCreated(n)
  <2>1. PICK n \in Threads : ThreadCreated(n)
    BY <1>6
  <2>2. UNCHANGED <<state, status, sessions>> /\ thread[n].life = "creating"
    BY <2>1 DEF ThreadCreated, atemVars, counters
  <2>3. /\ \A k \in Threads \ {n} : thread'[k] = thread[k]
        /\ thread'[n].child = thread[n].child /\ thread'[n].outbox = thread[n].outbox
    BY <1>1, <2>1, CreatedEffect
  <2>4. thread[n] \in Thread /\ Empty(thread[n])
    BY <1>1, <2>2 DEF ThreadsInv, OneThread
  <2>5. thread'[n].child = Fresh /\ thread'[n].outbox = <<>>
    BY <2>3, <2>4, EmptyOwesNothing
  <2> QED
    BY <1>3, <2>2, <2>3, <2>5
<1>7. CASE \E n \in Threads : ParentTakes(n)
  <2>1. PICK n \in Threads : ParentTakes(n)
    BY <1>7
  <2>2. sessions' = sessions
    BY <2>1 DEF ParentTakes, counters
  <2>3. CASE TakesMessage(n)
    BY <1>1, <2>2, <2>3, MessageKeepsWhole
  <2>4. CASE TakeClosed(n)
    <3>1. /\ status' = "CLOSED" /\ thread[n].life = "closed"
          /\ thread' = [thread EXCEPT ![n].life = "dead"]
      BY <2>4 DEF TakeClosed, Close
    <3>2. \A k \in Threads : thread'[k].life # "running"
      BY <1>1, <3>1 DEF OneThread, Alive, ThreadsInv, Thread
    <3>3. IsWhole'
      BY <3>1 DEF IsWhole
    <3> QED
      BY <1>1, <3>2, <3>3, RunningInOrder
  <2>5. CASE TakeRestarted(n)
    <3>1. thread' = [thread EXCEPT ![n] = AgainConnecting(n)] /\ UNCHANGED atemVars
      BY <2>5 DEF TakeRestarted
    <3>2. /\ thread'[n].child = Fresh /\ thread'[n].outbox = <<>>
          /\ \A k \in Threads \ {n} : thread'[k] = thread[k]
      BY <1>1, <3>1, AgainEffect
    <3> QED
      BY <1>3, <2>2, <3>1, <3>2 DEF atemVars
  <2> QED
    BY <2>1, <2>3, <2>4, <2>5 DEF ParentTakes, TakesMessage
<1>8. CASE FinishDestroy \/ \E n \in Threads : Crash(n)
  <2>1. UNCHANGED <<state, status, sessions>>
    BY <1>8 DEF FinishDestroy, Crash, atemVars, counters
  <2>2. \/ thread' = thread
        \/ \E n \in Threads, life \in Life :
              thread' = [thread EXCEPT ![n] = [NoThread EXCEPT !.life = life]]
    <3>1. "ended" \in Life /\ "closed" \in Life
      BY DEF Life
    <3>2. CASE FinishDestroy /\ socketProcess # 0
      <4>1. socketProcess \in Threads
        BY <1>1, <3>2 DEF Threads
      <4> QED
        BY <3>1, <3>2, <4>1 DEF FinishDestroy
    <3>3. CASE FinishDestroy /\ socketProcess = 0
      BY <3>3 DEF FinishDestroy
    <3>4. CASE \E n \in Threads : Crash(n)
      BY <3>1, <3>4 DEF Crash
    <3> QED
      BY <1>8, <3>2, <3>3, <3>4
  <2>3. ASSUME NEW n \in Threads, NEW life \in Life,
               thread' = [thread EXCEPT ![n] = [NoThread EXCEPT !.life = life]]
        PROVE  WholeInv'
    <3>1. /\ thread'[n] = [NoThread EXCEPT !.life = life]
          /\ \A k \in Threads \ {n} : thread'[k] = thread[k]
      BY <1>1, <2>3, EmptiedEffect
    <3>2. thread'[n].child = Fresh /\ thread'[n].outbox = <<>>
      BY <3>1 DEF NoThread
    <3> QED
      BY <1>3, <2>1, <3>1, <3>2
  <2> QED
    BY <1>3, <2>1, <2>2, <2>3
<1>9. CASE \E n \in Threads : ChildRuns(n) \/ DeviceStep(n)
  <2>1. PICK n \in Threads : ChildRuns(n) \/ DeviceStep(n)
    BY <1>9
  <2>2. /\ sessions' \in Nat /\ sessions <= sessions'
        /\ InOrder(thread'[n], state, sessions')
    BY <1>2, <2>1, WorkInOrder
  <2>3. state' = state /\ status' = status
    BY <2>1 DEF ChildRuns, DeviceStep, atemVars
  <2>4. RunsOn(n)
    BY <1>1, <2>1, WorkEffect DEF Works
  <2>5. IsWhole'
    BY <1>1, <2>2, <2>3, StateStaysWhole DEF WholeInv
  <2>6. \A k \in Threads : thread'[k].life = "running" => k = n
    BY <1>1, <2>4 DEF OneThread, Alive, RunsOn
  <2> QED
    BY <1>1, <2>2, <2>3, <2>5, <2>6, RunningInOrder
<1> QED
  BY <1>4, <1>5, <1>6, <1>7, <1>8, <1>9 DEF Next, ParentStep

\* When the parent announces a connection, its state holds the whole initial state of one
\* session and nothing of another (atem.ts:225-296), however sessions are lost and begun
\* while their batches and ends are under way, as long as no two threads are asked for at
\* once, which tell of two sessions in turn.
THEOREM ConnectedStateIsAlwaysWhole == Spec => []ConnectedStateIsWhole
<1>1. Init => WholeInv
  <2> SUFFICES ASSUME Init PROVE WholeInv
    OBVIOUS
  <2>1. IsWhole
    BY DEF Init, IsWhole
  <2>2. ASSUME NEW n \in Threads
        PROVE  thread[n].child = Fresh /\ thread[n].outbox = <<>>
    BY DEF Init, NoThread
  <2> QED
    BY <2>1, <2>2, FreshInOrder DEF WholeInv
<1>2. TypesInv /\ (doubled \/ ControlInv) /\ (doubled \/ WholeInv) /\ [Next]_connectionVars
         => (doubled \/ WholeInv)'
  BY WholeStep, DoubledStays
<1>3. doubled \/ WholeInv => ConnectedStateIsWhole
  BY DEF WholeInv, IsWhole, ConnectedStateIsWhole
<1> QED
  BY <1>1, <1>2, <1>3, AlwaysInControl, PTL DEF Spec

-----------------------------------------------------------------------------
(* No news is lost *)

\* The batch that ends the initial state, and the one message that ends a session.
IsLast(m) == m.type = "commands" /\ "init" \in m.batch
Ended(t) == DisconnectReport \in Elements(t.outbox)

\* Message m is under way from t, and no end of a session behind it.
Latest(t, m) == ComesAfter(t.outbox, m, DisconnectReport)

\* The child of t has given its whole initial state, or its end is about to be reported.
HasAll(t) == t.child.closing > 0 \/ (t.child.state = "Established" /\ t.dump = 2)

\* An acknowledgement of packet p is under way, behind the answer that p was sent.
AckedLater(s, p) == \E ids \in SUBSET Packets :
    p \in ids /\ ComesAfter(s, WithIds("acknowledged", ids), WithIds("sent", {p}))

\* The session of t carries packet p, or its end is about to be reported.
Carries(t, p) ==
    \/ t.child.closing > 0
    \/ t.child.state = "Established" /\ (p \in t.child.inFlight \/ AckedLater(t.outbox, p))

\* What the parent believes, and is about to believe, of the session of t is true.
TellsStatus(t, connected) ==
    /\ connected /\ ~Ended(t) => HasAll(t)
    /\ \A m : IsLast(m) /\ Latest(t, m) => HasAll(t)

TellsPacket(t, p, pending) ==
    /\ pending /\ ~Ended(t) => Carries(t, p)
    /\ Latest(t, WithIds("sent", {p})) => Carries(t, p)

\* A child in a session has a socket, or is about to report its end; no restart waits.
Fit(c) ==
    /\ c.state = "Established" => c.restarting = 0 /\ (c.open \/ c.closing > 0)
    /\ c.open \/ c.closing > 0 => c.state # "Disconnected"

\* The end of a queue.
EndsWith(s, x) == Len(s) > 0 /\ s[Len(s)] = x

\* A thread on its way to answer a disconnect, after which it has nothing to tell.
Leaving(t) ==
    \/ ToldToPart(t)
    \/ /\ Message("connect") \notin Elements(t.inbox) /\ ~t.child.open
       /\ \/ t.child.closing > 0
          \/ EndsWith(t.waits, "disconnect")
          \/ t.waits = <<>> /\ Message("disconnected") \in Elements(t.outbox)

\* What the steps of the child do to its session and its socket.
LEMMA ConditionSessions ==
    ASSUME NEW c \in Condition
    PROVE  /\ c.state = "Established" => Restarted(c).state = "Closed" /\ Restarted(c).open
           /\ c.state = "Disconnected" => Restarted(c).state = "SynSent" /\ Restarted(c).open
           /\ c.state \notin {"Established", "Disconnected"} =>
                 /\ Restarted(c).state \in {c.state, "SynSent"}
                 /\ Restarted(c).open = c.open
           /\ Resumed(c).state = (IF c.open THEN "SynSent" ELSE c.state)
           /\ Resumed(c).open = c.open
           /\ Disconnecting(c).open = FALSE
           /\ Disconnecting(c).state = IF c.open THEN c.state ELSE "Disconnected"
           /\ ClosedDown(c).state = "Disconnected" /\ ClosedDown(c).open = c.open
           /\ InSession(c).state = "Established" /\ InSession(c).open = c.open
           /\ \A ids : /\ Holding(c, ids).state = c.state /\ Holding(c, ids).open = c.open
                       /\ Relieved(c, ids).state = c.state /\ Relieved(c, ids).open = c.open
<1>1. ASSUME NEW d \in Condition
      PROVE  /\ Dialled(d).open = d.open
             /\ Dialled(d).state = IF d.open THEN "SynSent" ELSE d.state
  BY DEF Dialled, Condition
<1>2. c.state = "Established" => Restarted(c).state = "Closed" /\ Restarted(c).open
  BY DEF Restarted, Abandoned, Condition
<1>3. c.state = "Disconnected" => Restarted(c).state = "SynSent" /\ Restarted(c).open
  <2> DEFINE d == [c EXCEPT !.open = TRUE]
  <2>1. d \in Condition /\ d.open
    BY DEF Condition
  <2> HIDE DEF d
  <2>2. c.state = "Disconnected" => Restarted(c) = Dialled(d)
    BY DEF Restarted, d
  <2> QED
    BY <1>1, <2>1, <2>2
<1>4. c.state \notin {"Established", "Disconnected"} => Restarted(c) = Dialled(c)
  BY DEF Restarted
<1>5. /\ Resumed(c).state = (IF c.open THEN "SynSent" ELSE c.state)
      /\ Resumed(c).open = c.open
  <2> DEFINE d == [c EXCEPT !.restarting = c.restarting - 1]
  <2>1. d \in Condition /\ d.open = c.open /\ d.state = c.state
    BY DEF Condition
  <2> HIDE DEF d
  <2>2. Resumed(c) = Dialled(d)
    BY DEF Resumed, d
  <2> QED
    BY <1>1, <2>1, <2>2
<1>6. /\ Disconnecting(c).open = FALSE
      /\ Disconnecting(c).state = IF c.open THEN c.state ELSE "Disconnected"
  BY DEF Disconnecting, Condition
<1>7. /\ ClosedDown(c).state = "Disconnected" /\ ClosedDown(c).open = c.open
      /\ InSession(c).state = "Established" /\ InSession(c).open = c.open
  BY DEF ClosedDown, InSession, Condition
<1>8. \A ids : /\ Holding(c, ids).state = c.state /\ Holding(c, ids).open = c.open
               /\ Relieved(c, ids).state = c.state /\ Relieved(c, ids).open = c.open
  BY DEF Holding, Relieved, Condition
<1> QED
  BY <1>1, <1>2, <1>3, <1>4, <1>5, <1>6, <1>7, <1>8

\* A message that a thread posts is the latest; after an end there is no other.
LEMMA LatestAppended ==
    ASSUME NEW t \in Thread, NEW u, NEW m \in Reports, u.outbox = Append(t.outbox, m)
    PROVE  /\ Ended(u) <=> Ended(t) \/ m = DisconnectReport
           /\ \A x : Latest(u, x) => m # DisconnectReport /\ (x = m \/ Latest(t, x))
<1>1. t.outbox \in Seq(Reports)
  BY DEF Thread
<1>2. Elements(u.outbox) = Elements(t.outbox) \union {m}
  BY <1>1, ElementsOfAppend
<1>3. ASSUME NEW x, Latest(u, x)
      PROVE  m # DisconnectReport /\ (x = m \/ Latest(t, x))
  BY <1>1, <1>3, AfterAppended DEF Latest
<1> QED
  BY <1>2, <1>3 DEF Ended

\* A thread goes on telling the truth of its status: it reports an end, or it has all it had.
LEMMA StatusTold ==
    ASSUME NEW t \in Thread, NEW u, NEW connected, TellsStatus(t, connected),
           \/ u.outbox = Append(t.outbox, DisconnectReport)
           \/ /\ HasAll(t) => HasAll(u)
              /\ \/ u.outbox = t.outbox
                 \/ \E m \in Reports : /\ u.outbox = Append(t.outbox, m)
                                       /\ IsLast(m) => HasAll(u)
    PROVE  TellsStatus(u, connected)
<1>1. DisconnectReport \in Reports
  BY DEF Reports
<1>2. CASE u.outbox = Append(t.outbox, DisconnectReport)
  BY <1>1, <1>2, LatestAppended DEF TellsStatus
<1>3. CASE (HasAll(t) => HasAll(u)) /\ u.outbox = t.outbox
  BY <1>3 DEF TellsStatus, Ended, Latest
<1>4. CASE /\ HasAll(t) => HasAll(u)
           /\ \E m \in Reports : u.outbox = Append(t.outbox, m) /\ (IsLast(m) => HasAll(u))
  BY <1>4, LatestAppended DEF TellsStatus
<1> QED
  BY <1>2, <1>3, <1>4

\* A thread goes on telling the truth of a packet: it reports an end, or still carries it.
LEMMA PacketTold ==
    ASSUME NEW t \in Thread, NEW u, NEW p, NEW pending, TellsPacket(t, p, pending),
           \/ u.outbox = Append(t.outbox, DisconnectReport)
           \/ /\ Carries(t, p) => Carries(u, p)
              /\ \/ u.outbox = t.outbox
                 \/ \E m \in Reports : /\ u.outbox = Append(t.outbox, m)
                                       /\ m = WithIds("sent", {p}) => Carries(u, p)
    PROVE  TellsPacket(u, p, pending)
<1>1. DisconnectReport \in Reports
  BY DEF Reports
<1>2. CASE u.outbox = Append(t.outbox, DisconnectReport)
  BY <1>1, <1>2, LatestAppended DEF TellsPacket
<1>3. CASE (Carries(t, p) => Carries(u, p)) /\ u.outbox = t.outbox
  BY <1>3 DEF TellsPacket, Ended, Latest
<1>4. CASE /\ Carries(t, p) => Carries(u, p)
           /\ \E m \in Reports : /\ u.outbox = Append(t.outbox, m)
                                 /\ m = WithIds("sent", {p}) => Carries(u, p)
  BY <1>4, LatestAppended DEF TellsPacket
<1> QED
  BY <1>2, <1>3, <1>4

\* A session that goes on carries what it carried: in flight, or as an acknowledgement.
LEMMA StillCarried ==
    ASSUME NEW t \in Thread, NEW u, NEW p \in Packets, Carries(t, p),
           t.child.closing > 0 => u.child.closing > 0,
           t.child.state = "Established" => u.child.state = "Established" \/ u.child.closing > 0,
           p \in t.child.inFlight => p \in u.child.inFlight \/ AckedLater(u.outbox, p),
           \/ u.outbox = t.outbox
           \/ \E m \in Reports : /\ u.outbox = Append(t.outbox, m)
                                 /\ m = WithIds("sent", {p}) => p \in u.child.inFlight
    PROVE  Carries(u, p)
<1>1. t.outbox \in Seq(Reports)
  BY DEF Thread
<1>2. AckedLater(t.outbox, p) => p \in u.child.inFlight \/ AckedLater(u.outbox, p)
  <2>1. CASE u.outbox = t.outbox
    BY <2>1
  <2>2. CASE \E m \in Reports : /\ u.outbox = Append(t.outbox, m)
                                /\ m = WithIds("sent", {p}) => p \in u.child.inFlight
    <3>1. PICK m \in Reports : /\ u.outbox = Append(t.outbox, m)
                               /\ m = WithIds("sent", {p}) => p \in u.child.inFlight
      BY <2>2
    <3>2. ASSUME NEW ids \in SUBSET Packets, m # WithIds("sent", {p}),
                 ComesAfter(t.outbox, WithIds("acknowledged", ids), WithIds("sent", {p}))
          PROVE  ComesAfter(u.outbox, WithIds("acknowledged", ids), WithIds("sent", {p}))
      BY <1>1, <3>1, <3>2, AfterAppend
    <3> QED
      BY <3>1, <3>2 DEF AckedLater
  <2> QED
    BY <2>1, <2>2
<1> QED
  BY <1>2 DEF Carries

\* An acknowledgement that is posted comes after everything.
LEMMA AckIsPosted ==
    ASSUME NEW s \in Seq(Reports), NEW p \in Packets, NEW ids \in SUBSET Packets, p \in ids
    PROVE  AckedLater(Append(s, WithIds("acknowledged", ids)), p)
<1>1. /\ WithIds("acknowledged", ids) \in Reports
      /\ WithIds("acknowledged", ids) # WithIds("sent", {p})
  BY MessagesDiffer DEF Reports
<1> QED
  BY <1>1, AfterAppend DEF AckedLater

\* Thread t becomes u: it reports an end, or what it told of the status is still true.
StatusStep(t, u) ==
    \/ u.outbox = Append(t.outbox, DisconnectReport)
    \/ /\ HasAll(t) => HasAll(u)
       /\ \/ u.outbox = t.outbox
          \/ \E m \in Reports : u.outbox = Append(t.outbox, m) /\ (IsLast(m) => HasAll(u))

\* So is what it told of packet p.
PacketStep(t, u, p) ==
    \/ u.outbox = Append(t.outbox, DisconnectReport)
    \/ /\ Carries(t, p) => Carries(u, p)
       /\ \/ u.outbox = t.outbox
          \/ \E m \in Reports : /\ u.outbox = Append(t.outbox, m)
                                /\ m = WithIds("sent", {p}) => Carries(u, p)

\* A session that goes on, or a disconnect that does.
SessionGoesOn(t, u) ==
    /\ t.child.closing > 0 => u.child.closing > 0
    /\ t.child.state = "Established" =>
          \/ u.child.closing > 0
          \/ /\ u.child.state = "Established" /\ u.dump = t.dump
             /\ t.child.inFlight \subseteq u.child.inFlight

\* Messages other than the end of the initial state and the answer that a packet was sent
\* change nothing of what is told.
LEMMA GoingOnTells ==
    ASSUME NEW t \in Thread, NEW u, SessionGoesOn(t, u),
           \/ u.outbox = t.outbox
           \/ \E m \in Reports : /\ u.outbox = Append(t.outbox, m)
                                 /\ ~IsLast(m) /\ \A p : m # WithIds("sent", {p})
    PROVE  StatusStep(t, u) /\ \A p \in Packets : PacketStep(t, u, p)
<1>1. HasAll(t) => HasAll(u)
  BY DEF HasAll, SessionGoesOn
<1>2. ASSUME NEW p \in Packets, Carries(t, p) PROVE Carries(u, p)
  <2>1. CASE u.child.closing > 0
    BY <2>1 DEF Carries
  <2>2. CASE ~(u.child.closing > 0)
    BY <1>2, <2>2, StillCarried DEF SessionGoesOn, Carries
  <2> QED
    BY <2>1, <2>2
<1> QED
  BY <1>1, <1>2 DEF StatusStep, PacketStep

\* Messages are told apart by whether they end an initial state.
LEMMA LastMessages ==
    /\ ~IsLast(DisconnectReport) /\ \A type : type # "commands" => ~IsLast(Message(type))
    /\ \A type, ids : type # "commands" => ~IsLast(WithIds(type, ids))
  BY DEF IsLast, DisconnectReport, Message, WithIds

\* What the child and the device do leaves true what the thread tells; nothing is said of
\* packets that the child got without a session.
LEMMA WorkTells ==
    ASSUME TypesInv, NEW n \in Threads, ChildRuns(n) \/ DeviceStep(n),
           Fit(thread[n].child)
    PROVE  /\ StatusStep(thread[n], thread'[n])
           /\ \A p \in Packets \ stray' : PacketStep(thread[n], thread'[n], p)
<1> DEFINE t == thread[n]
           u == thread'[n]
<1>1. ThreadsInv /\ sessions \in Nat
  BY DEF TypesInv, ParentTypes
<1>2. RunsOn(n)
  BY <1>1, WorkEffect DEF Works
<1>3. /\ t \in Thread /\ u \in Thread /\ t.child \in Condition /\ t.outbox \in Seq(Reports)
      /\ t.waits \in Seq(Waits) /\ t.child.closing \in Int /\ t.child.restarting \in Int
      /\ t.child.inFlight \in SUBSET Packets /\ t.session \in Nat
  BY <1>1, <1>2 DEF RunsOn, ThreadInv, ThreadsInv, Thread, Condition
<1> DEFINE Report == u.outbox = Append(t.outbox, DisconnectReport)
           Chats == \/ u.outbox = t.outbox
                    \/ \E m \in Reports : /\ u.outbox = Append(t.outbox, m)
                                          /\ ~IsLast(m) /\ \A p : m # WithIds("sent", {p})
           Done == /\ StatusStep(t, u)
                   /\ \A p \in Packets \ stray' : PacketStep(t, u, p)
<1>4. Report => Done
  BY DEF StatusStep, PacketStep
<1>5. Chats /\ SessionGoesOn(t, u) => Done
  BY <1>3, GoingOnTells
<1>6. ASSUME t.child.state # "Established", u.child = Restarted(t.child), u.outbox = t.outbox
      PROVE  Done
  <2>1. u.child.closing = t.child.closing
    BY <1>3, <1>6, ConditionCounts
  <2> QED
    BY <1>5, <1>6, <2>1 DEF SessionGoesOn
<1>7. CASE TakeConnect(n)
  <2>1. /\ u.child = Restarted(t.child)
        /\ t.child.state = "Established" => Report
        /\ t.child.state # "Established" => u.outbox = t.outbox
    BY <1>1, <1>7, ConnectEffect
  <2>2. CASE t.child.state = "Established"
    BY <1>4, <2>1, <2>2
  <2>3. CASE t.child.state # "Established"
    BY <1>6, <2>1, <2>3
  <2> QED
    BY <2>2, <2>3
<1>8. CASE Redial(n) \/ LoseSession(n)
  <2>1. Runs(n) /\ ThreadBecomes(n, RestartIn(thread[n]))
    BY <1>8 DEF Redial, LoseSession, InSessionAt
  <2>2. /\ u.child = Restarted(t.child)
        /\ t.child.state = "Established" => Report
        /\ t.child.state # "Established" => u.outbox = t.outbox
    BY <1>1, <2>1, RestartEffect
  <2>3. CASE t.child.state = "Established"
    BY <1>4, <2>2, <2>3
  <2>4. CASE t.child.state # "Established"
    BY <1>6, <2>2, <2>4
  <2> QED
    BY <2>3, <2>4
<1>9. CASE TakeDisconnectCall(n)
  <2>1. /\ u.child = Disconnecting(t.child) /\ t.child.open => u.outbox = t.outbox
        /\ u.dump = t.dump
    BY <1>1, <1>9, DisconnectEffect
  <2>2. ~t.child.open => Report
    BY <1>1, <1>9, DisconnectEffect
  <2>3. CASE t.child.open
    <3>1. u.child.closing = t.child.closing + 1 /\ u.outbox = t.outbox
      BY <1>1, <1>3, <1>9, <2>3, DisconnectEffect, ConditionCounts
    <3>2. u.child.inFlight = t.child.inFlight /\ u.child.state = t.child.state
          /\ u.dump = t.dump
      <4>1. u.child = Disconnecting(t.child) /\ u.dump = t.dump
        BY <1>1, <1>9, DisconnectEffect
      <4> QED
        BY <1>3, <2>3, <4>1 DEF Disconnecting, Condition
    <3>3. t.child.closing > 0 => u.child.closing > 0
      BY <1>3, <3>1
    <3>4. SessionGoesOn(t, u)
      BY <3>2, <3>3 DEF SessionGoesOn
    <3> QED
      BY <1>5, <3>1, <3>4
  <2> QED
    BY <1>4, <2>2, <2>3
<1>10. CASE TakeSend(n)
  <2>1. u.dump = t.dump
    BY <1>1, <1>10, SendEffect
  <2>2. PICK q \in Packets :
           /\ Head(t.inbox) = WithIds("send", {q}) /\ u.child = Holding(t.child, {q})
           /\ u.outbox = Append(t.outbox, WithIds(IF t.child.open THEN "sent"
                                                  ELSE "notSent", {q}))
    BY <1>1, <1>10, SendEffect
  <2>3. /\ u.child.state = t.child.state /\ u.child.closing = t.child.closing
        /\ u.child.inFlight = IF t.child.open THEN t.child.inFlight \union {q}
                              ELSE t.child.inFlight
    BY <1>3, <2>2 DEF Holding, Condition
  <2> DEFINE m == WithIds(IF t.child.open THEN "sent" ELSE "notSent", {q})
  <2>4. m \in Reports /\ ~IsLast(m)
    BY LastMessages DEF Reports
  <2>5. \A p : m = WithIds("sent", {p}) => p = q /\ t.child.open
    BY MessagesDiffer
  <2>6. u.outbox = Append(t.outbox, m)
    BY <2>2
  <2> HIDE DEF m
  <2>7. SessionGoesOn(t, u)
    BY <2>1, <2>3 DEF SessionGoesOn
  <2>8. StatusStep(t, u)
    <3>1. HasAll(t) => HasAll(u)
      BY <2>7 DEF HasAll, SessionGoesOn
    <3> QED
      BY <2>4, <2>6, <3>1 DEF StatusStep
  <2>9. ASSUME NEW p \in Packets \ stray' PROVE PacketStep(t, u, p)
    <3>1. m = WithIds("sent", {p}) => p \in u.child.inFlight
      BY <2>3, <2>5
    <3>2. Carries(t, p) => Carries(u, p)
      BY <1>3, <2>3, <2>4, <2>6, <3>1, StillCarried
    <3>3. m = WithIds("sent", {p}) => t.child.state = "Established"
      <4>1. t.child.state # "Established" => q \in stray'
        <5>1. stray' = IF t.child.state = "Established" THEN stray
                       ELSE stray \union Head(t.inbox).ids
          <6>1. Begun(n).child = t.child
            BY <1>3 DEF Begun, Thread
          <6> QED
            BY <1>10 DEF TakeSend
        <5>2. Head(t.inbox).ids = {q}
          BY <2>2 DEF WithIds
        <5> QED
          BY <5>1, <5>2
      <4> QED
        BY <2>5, <2>9, <4>1
    <3>4. m = WithIds("sent", {p}) => Carries(u, p)
      BY <2>3, <3>1, <3>3 DEF Carries
    <3> QED
      BY <2>4, <2>6, <3>2, <3>4 DEF PacketStep
  <2> QED
    BY <2>8, <2>9
<1>11. CASE TakeAnswer(n)
  <2>1. /\ t.waits # <<>> /\ Head(t.waits) \in Waits
        /\ Head(t.waits) = "restart" => u.child = Resumed(t.child) /\ u.outbox = t.outbox
        /\ Head(t.waits) # "restart" =>
              /\ u.child = t.child /\ u.dump = t.dump
              /\ u.outbox = Append(t.outbox, Message("disconnected"))
    BY <1>1, <1>11, AnswerEffect
  <2>2. CASE Head(t.waits) = "restart"
    <3>1. t.child.state # "Established"
      <4>1. t.child.restarting = Count(t.waits, "restart")
        BY <1>1 DEF ThreadsInv, Orderly
      <4>2. "restart" \in Elements(t.waits)
        BY <1>3, <2>1, <2>2, ElementsOfTail
      <4>3. Count(t.waits, "restart") > 0
        BY <1>3, <4>2, CountOfElement
      <4> QED
        BY <4>1, <4>3 DEF Fit
    <3>2. u.child.closing = t.child.closing
      BY <1>3, <2>1, <2>2, ConditionCounts
    <3>3. SessionGoesOn(t, u)
      BY <3>1, <3>2 DEF SessionGoesOn
    <3> QED
      BY <1>5, <2>1, <2>2, <3>3
  <2>3. CASE Head(t.waits) # "restart"
    <3> DEFINE m == Message("disconnected")
    <3>1. /\ m \in Reports /\ ~IsLast(m) /\ \A p : m # WithIds("sent", {p})
          /\ u.outbox = Append(t.outbox, m)
      BY <2>1, <2>3, MessagesDiffer, LastMessages DEF Reports
    <3> HIDE DEF m
    <3>2. SessionGoesOn(t, u)
      BY <2>1, <2>3 DEF SessionGoesOn
    <3> QED
      BY <1>5, <3>1, <3>2
  <2> QED
    BY <2>2, <2>3
<1>12. CASE CloseSocket(n)
  BY <1>1, <1>4, <1>12, CloseEffect
<1>13. CASE StartSession(n)
  <2>1. /\ u.outbox = t.outbox /\ u.child = InSession(t.child) /\ t.child.state = "SynSent"
    BY <1>1, <1>13, StartEffect
  <2>2. u.child.closing = t.child.closing
    BY <1>3, <2>1, ConditionCounts
  <2>3. SessionGoesOn(t, u)
    BY <2>1, <2>2 DEF SessionGoesOn
  <2> QED
    BY <1>5, <2>1, <2>3
<1>14. CASE Deliver(n)
  <2>1. /\ u.child = t.child /\ t.child.state = "Established"
        /\ \E batch \in DumpBatch(t.dump) :
              /\ u.dump = IF "init" \in batch THEN 2 ELSE 1
              /\ u.outbox = Append(t.outbox, [type |-> "commands", batch |-> batch,
                                              session |-> t.session])
    BY <1>1, <1>14, DeliverEffect
  <2>2. PICK batch \in DumpBatch(t.dump) :
           /\ u.dump = IF "init" \in batch THEN 2 ELSE 1
           /\ u.outbox = Append(t.outbox, [type |-> "commands", batch |-> batch,
                                           session |-> t.session])
    BY <2>1
  <2>3. batch \in Batch /\ t.dump # 2
    BY <2>2 DEF DumpBatch, Batch
  <2> DEFINE m == [type |-> "commands", batch |-> batch, session |-> t.session]
  <2>4. m \in [type : {"commands"}, batch : Batch, session : Nat] /\ m.batch = batch
    BY <1>3, <2>3
  <2>5. u.outbox = Append(t.outbox, m)
    BY <2>2
  <2> HIDE DEF m
  <2>6. m \in Reports /\ \A p : m # WithIds("sent", {p})
    BY <2>4, MessagesDiffer DEF Reports
  <2>7. HasAll(t) => HasAll(u)
    BY <2>1, <2>3 DEF HasAll
  <2>8. IsLast(m) => HasAll(u)
    BY <2>1, <2>2, <2>4 DEF IsLast, HasAll
  <2>9. StatusStep(t, u)
    BY <2>5, <2>6, <2>7, <2>8 DEF StatusStep
  <2>10. ASSUME NEW p \in Packets PROVE PacketStep(t, u, p)
    <3>1. Carries(t, p) => Carries(u, p)
      BY <1>3, <2>1, <2>5, <2>6, StillCarried
    <3> QED
      BY <2>5, <2>6, <3>1 DEF PacketStep
  <2> QED
    BY <2>9, <2>10
<1>15. CASE Acknowledge(n)
  <2>1. u.dump = t.dump
    BY <1>1, <1>15, AcknowledgeEffect
  <2>2. PICK ids \in SUBSET t.child.inFlight :
           /\ u.child = Relieved(t.child, ids) /\ ids \in SUBSET Packets
           /\ u.outbox = Append(t.outbox, WithIds("acknowledged", ids))
    BY <1>1, <1>15, AcknowledgeEffect
  <2>3. /\ u.child.state = t.child.state /\ u.child.closing = t.child.closing
        /\ u.child.inFlight = t.child.inFlight \ ids
    BY <1>3, <2>2 DEF Relieved, Condition
  <2> DEFINE m == WithIds("acknowledged", ids)
  <2>4. m \in Reports /\ ~IsLast(m) /\ \A p : m # WithIds("sent", {p})
    BY <2>2, MessagesDiffer, LastMessages DEF Reports
  <2>5. \A p \in ids : AckedLater(u.outbox, p)
    BY <1>3, <2>2, AckIsPosted
  <2>6. u.outbox = Append(t.outbox, m)
    BY <2>2
  <2> HIDE DEF m
  <2>7. StatusStep(t, u)
    BY <2>1, <2>3, <2>4, <2>6 DEF StatusStep, HasAll
  <2>8. ASSUME NEW p \in Packets PROVE PacketStep(t, u, p)
    <3>1. p \in t.child.inFlight => p \in u.child.inFlight \/ AckedLater(u.outbox, p)
      BY <2>3, <2>5
    <3>2. Carries(t, p) => Carries(u, p)
      BY <1>3, <2>3, <2>4, <2>6, <3>1, StillCarried
    <3> QED
      BY <2>4, <2>6, <3>2 DEF PacketStep
  <2> QED
    BY <2>7, <2>8
<1> QED
  BY <1>7, <1>8, <1>9, <1>10, <1>11, <1>12, <1>13, <1>14, <1>15 DEF ChildRuns, DeviceStep

\* How a queue ends.
LEMMA EndsOfQueue ==
    ASSUME NEW S, NEW s \in Seq(S), NEW x \in S
    PROVE  /\ EndsWith(Append(s, x), x)
           /\ s # <<>> /\ EndsWith(s, x) =>
                 EndsWith(Tail(s), x) \/ (Tail(s) = <<>> /\ Head(s) = x)
<1>1. EndsWith(Append(s, x), x)
  BY AppendProperties DEF EndsWith
<1>2. ASSUME s # <<>>, EndsWith(s, x)
      PROVE  EndsWith(Tail(s), x) \/ (Tail(s) = <<>> /\ Head(s) = x)
  <2>1. /\ Tail(s) \in Seq(S) /\ Len(Tail(s)) = Len(s) - 1 /\ Len(s) \in Nat /\ Len(s) > 0
        /\ \A i \in 1 .. Len(Tail(s)) : Tail(s)[i] = s[i + 1]
        /\ Head(s) = s[1]
    BY <1>2, HeadTailProperties, LenProperties, EmptySeq
  <2>2. CASE Len(s) = 1
    <3>1. Len(Tail(s)) = 0
      BY <2>1, <2>2
    <3>2. Tail(s) = <<>>
      BY <2>1, <3>1, EmptySeq
    <3> QED
      BY <1>2, <2>1, <2>2, <3>2 DEF EndsWith
  <2>3. CASE Len(s) # 1
    <3>1. Len(Tail(s)) \in 1 .. Len(Tail(s)) /\ Len(Tail(s)) + 1 = Len(s) /\ Len(Tail(s)) > 0
      BY <2>1, <2>3
    <3> QED
      BY <1>2, <2>1, <3>1 DEF EndsWith
  <2> QED
    BY <2>2, <2>3
<1> QED
  BY <1>1, <1>2

\* What is unfinished of one disconnect.
LEMMA OneUnfinished ==
    ASSUME NEW t \in Thread, Unfinished(t) <= 1, t.child.closing >= 0
    PROVE  /\ t.child.closing <= 1
           /\ Message("disconnect") \in Elements(t.inbox) => t.child.closing = 0
           /\ "disconnect" \in Elements(t.waits) => t.child.closing = 0
           /\ Message("disconnected") \in Elements(t.outbox) =>
                 /\ t.child.closing = 0 /\ "disconnect" \notin Elements(t.waits)
                 /\ Message("disconnect") \notin Elements(t.inbox)
<1>1. /\ t.inbox \in Seq(Calls) /\ t.outbox \in Seq(Reports) /\ t.waits \in Seq(Waits)
      /\ t.child.closing \in Int
  BY DEF Thread, Condition
<1> DEFINE a == Count(t.inbox, Message("disconnect"))
           b == Count(t.waits, "disconnect")
           c == Count(t.outbox, Message("disconnected"))
<1>2. a \in Nat /\ b \in Nat /\ c \in Nat
  BY CountsOfThread
<1>3. /\ a > 0 <=> Message("disconnect") \in Elements(t.inbox)
      /\ b > 0 <=> "disconnect" \in Elements(t.waits)
      /\ c > 0 <=> Message("disconnected") \in Elements(t.outbox)
  BY <1>1, CountOfElement
<1>4. a + t.child.closing + b + c <= 1
  BY DEF Unfinished
<1> HIDE DEF a, b, c
<1> QED
  BY <1>1, <1>2, <1>3, <1>4

\* A thread that leaves and has not read of it closes nothing; one that closes has no
\* socket any more.
LEMMA LeavingCloses ==
    ASSUME NEW t \in Thread, Unfinished(t) <= 1, t.child.closing > 0, Leaving(t)
    PROVE  ~t.child.open /\ t.child.closing = 1 /\ ~ToldToPart(t)
<1>1. t.inbox \in Seq(Calls) /\ t.child.closing \in Int
  BY DEF Thread, Condition
<1>2. t.child.closing = 1 /\ Message("disconnect") \notin Elements(t.inbox)
  BY <1>1, OneUnfinished
<1>3. ~ToldToPart(t)
  BY <1>1, <1>2 DEF ToldToPart, ComesAfter, Elements
<1> QED
  BY <1>2, <1>3 DEF Leaving

\* The child keeps a socket for its session, and no restart waits in one.
LEMMA WorkFits ==
    ASSUME ~SlowParent, TypesInv, NEW n \in Threads, ChildRuns(n) \/ DeviceStep(n),
           Fit(thread[n].child), thread[n].child.closing >= 0, Unfinished(thread[n]) <= 1,
           thread[n].child.closing > 0 => ~thread[n].child.open
    PROVE  Fit(thread'[n].child)
<1> DEFINE t == thread[n]
           u == thread'[n]
           c == thread[n].child
<1>1. ThreadsInv /\ sessions \in Nat
  BY DEF TypesInv, ParentTypes
<1>2. /\ t \in Thread /\ c \in Condition /\ t.waits \in Seq(Waits) /\ t.inbox \in Seq(Calls)
      /\ c.closing \in Int /\ c.restarting \in Int /\ c.state \in ConnectionState
  BY <1>1 DEF ThreadsInv, Thread, Condition
<1> DEFINE Same(d) == /\ d.open = c.open /\ d.state = c.state
                      /\ d.closing = c.closing /\ d.restarting = c.restarting
<1>14. /\ Resumed(c).state = (IF c.open THEN "SynSent" ELSE c.state)
       /\ Resumed(c).open = c.open /\ Resumed(c).closing = c.closing
  <2>1. Resumed(c).closing = c.closing
    BY <1>2, ConditionCounts
  <2> QED
    BY <1>2, <2>1, ConditionSessions
<1>15. \A ids : Same(Holding(c, ids)) /\ Same(Relieved(c, ids))
  BY <1>2 DEF Holding, Relieved, Condition
<1>16. /\ Disconnecting(c).open = FALSE /\ Disconnecting(c).restarting = c.restarting
       /\ Disconnecting(c).state = (IF c.open THEN c.state ELSE "Disconnected")
       /\ Disconnecting(c).closing = IF c.open THEN c.closing + 1 ELSE c.closing
  BY <1>2 DEF Disconnecting, Condition
<1>17. /\ ClosedDown(c).state = "Disconnected" /\ ClosedDown(c).open = c.open
       /\ ClosedDown(c).closing = c.closing - 1
  BY <1>2 DEF ClosedDown, Condition
<1>18. /\ InSession(c).open = c.open /\ InSession(c).restarting = c.restarting
       /\ InSession(c).state = "Established"
  BY <1>2 DEF InSession, Condition
<1>3. u.child = Restarted(c) => Fit(u.child)
  <2>1. Restarted(c).state \in {"Closed", "SynSent"}
    BY <1>2, ConditionSessions DEF ConnectionState
  <2> QED
    BY <2>1 DEF Fit
<1>4. u.child.open = c.open /\ u.child.state = c.state /\ u.child.closing = c.closing
         /\ u.child.restarting = c.restarting => Fit(u.child)
  BY DEF Fit
<1>5. CASE TakeConnect(n)
  BY <1>1, <1>3, <1>5, ConnectEffect
<1>6. CASE Redial(n) \/ LoseSession(n)
  <2>1. Runs(n) /\ ThreadBecomes(n, RestartIn(thread[n]))
    BY <1>6 DEF Redial, LoseSession, InSessionAt
  <2> QED
    BY <1>1, <1>3, <2>1, RestartEffect
<1>7. CASE TakeDisconnectCall(n)
  <2>1. u.child = Disconnecting(c) /\ t.inbox # <<>> /\ Head(t.inbox) = Message("disconnect")
    BY <1>1, <1>7, DisconnectEffect
  <2>2. c.closing = 0
    BY <1>2, <2>1, ElementsOfTail, OneUnfinished
  <2>3. /\ u.child.open = FALSE /\ u.child.restarting = c.restarting
        /\ u.child.state = IF c.open THEN c.state ELSE "Disconnected"
        /\ u.child.closing = IF c.open THEN 1 ELSE 0
    BY <2>1, <2>2, <1>16
  <2> QED
    BY <2>2, <2>3 DEF Fit
<1>8. CASE TakeSend(n)
  <2>1. \E p \in Packets : u.child = Holding(c, {p})
    BY <1>1, <1>8, SendEffect
  <2> QED
    BY <1>4, <1>15, <2>1
<1>9. CASE TakeAnswer(n)
  <2>1. /\ t.waits # <<>>
        /\ Head(t.waits) = "restart" => u.child = Resumed(c)
        /\ Head(t.waits) # "restart" => u.child = c
    BY <1>1, <1>9, AnswerEffect
  <2>2. CASE Head(t.waits) = "restart"
    <3>1. c.state # "Established"
      <4>1. c.restarting = Count(t.waits, "restart")
        BY <1>1 DEF ThreadsInv, Orderly
      <4>2. "restart" \in Elements(t.waits)
        BY <1>2, <2>1, <2>2, ElementsOfTail
      <4>3. Count(t.waits, "restart") > 0
        BY <1>2, <4>2, CountOfElement
      <4> QED
        BY <4>1, <4>3 DEF Fit
    <3>2. /\ u.child.state = IF c.open THEN "SynSent" ELSE c.state
          /\ u.child.open = c.open /\ u.child.closing = c.closing
      BY <2>1, <2>2, <1>14
    <3> QED
      BY <3>1, <3>2 DEF Fit
  <2> QED
    BY <1>4, <2>1, <2>2
<1>10. CASE CloseSocket(n)
  <2>1. u.child = ClosedDown(c) /\ c.closing > 0
    BY <1>1, <1>10, CloseEffect
  <2>2. u.child.state = "Disconnected" /\ ~u.child.open /\ u.child.closing = 0
    <3>1. c.closing = 1
      BY <1>2, <2>1, OneUnfinished
    <3> QED
      BY <2>1, <3>1, <1>17
  <2> QED
    BY <2>2 DEF Fit
<1>11. CASE StartSession(n)
  <2>1. u.child = InSession(c) /\ c.open /\ c.restarting = 0
    BY <1>1, <1>11, StartEffect DEF StartSession
  <2> QED
    BY <2>1, <1>18 DEF Fit
<1>12. CASE Deliver(n)
  BY <1>1, <1>4, <1>12, DeliverEffect
<1>13. CASE Acknowledge(n)
  <2>1. \E ids \in SUBSET c.inFlight : u.child = Relieved(c, ids)
    BY <1>1, <1>13, AcknowledgeEffect
  <2> QED
    BY <1>4, <1>15, <2>1
<1> QED
  BY <1>5, <1>6, <1>7, <1>8, <1>9, <1>10, <1>11, <1>12, <1>13 DEF ChildRuns, DeviceStep

\* Nothing that the child and the device do keeps a thread from leaving.
LEMMA WorkLeaves ==
    ASSUME ~SlowParent, TypesInv, NEW n \in Threads, ChildRuns(n) \/ DeviceStep(n),
           Fit(thread[n].child), thread[n].child.closing >= 0, Unfinished(thread[n]) <= 1,
           Leaving(thread[n])
    PROVE  Leaving(thread'[n])
<1> DEFINE t == thread[n]
           u == thread'[n]
           c == thread[n].child
           Gone == Message("connect") \notin Elements(t.inbox) /\ ~c.open
<1>1. ThreadsInv /\ sessions \in Nat
  BY DEF TypesInv, ParentTypes
<1>2. /\ t \in Thread /\ c \in Condition /\ t.waits \in Seq(Waits) /\ t.inbox \in Seq(Calls)
      /\ t.outbox \in Seq(Reports) /\ c.closing \in Int /\ "disconnect" \in Waits
  BY <1>1 DEF ThreadsInv, Thread, Condition, Waits
<1>3. ASSUME t.inbox # <<>>, u.inbox = Tail(t.inbox), Head(t.inbox) # Message("disconnect"),
             ToldToPart(t)
      PROVE  Leaving(u)
  BY <1>2, <1>3, AfterTail DEF ToldToPart, Leaving
<1>4. ASSUME t.inbox # <<>>, u.inbox = Tail(t.inbox),
             Message("connect") \notin Elements(t.inbox)
      PROVE  Message("connect") \notin Elements(u.inbox)
  BY <1>2, <1>4, ElementsOfTail
<1>5. u.inbox = t.inbox /\ ToldToPart(t) => Leaving(u)
  BY DEF ToldToPart, Leaving
<1>6. ~ToldToPart(t) => Gone
  BY DEF Leaving
<1>7. CASE TakeConnect(n)
  <2>1. t.inbox # <<>> /\ Head(t.inbox) = Message("connect") /\ u.inbox = Tail(t.inbox)
    BY <1>1, <1>7, ConnectEffect
  <2>2. Message("connect") \in Elements(t.inbox) /\ Head(t.inbox) # Message("disconnect")
    BY <1>2, <2>1, ElementsOfTail, MessagesDiffer
  <2> QED
    BY <1>3, <1>6, <2>1, <2>2
<1>8. CASE TakeDisconnectCall(n)
  <2>1. /\ t.inbox # <<>> /\ Head(t.inbox) = Message("disconnect")
        /\ u.inbox = Tail(t.inbox) /\ u.child = Disconnecting(c)
    BY <1>1, <1>8, DisconnectEffect
  <2>2. ~c.open => u.waits = Append(t.waits, "disconnect")
    BY <1>1, <1>8, DisconnectEffect
  <2>3. ~u.child.open /\ (c.open => u.child.closing > 0)
    <3>1. /\ Disconnecting(c).open = FALSE
          /\ c.open => Disconnecting(c).closing = c.closing + 1
      BY <1>2 DEF Disconnecting, Condition
    <3> QED
      BY <1>2, <2>1, <3>1
  <2>4. ~c.open => EndsWith(u.waits, "disconnect")
    BY <1>2, <2>2, EndsOfQueue
  <2>5. ToldToPart(u) \/ Message("connect") \notin Elements(u.inbox)
    <3>1. CASE ToldToPart(t)
      <4>1. \/ ComesAfter(Tail(t.inbox), Message("disconnect"), Message("connect"))
            \/ Message("connect") \notin Elements(Tail(t.inbox))
        BY <1>2, <2>1, <3>1, AfterTail DEF ToldToPart
      <4> QED
        BY <2>1, <4>1 DEF ToldToPart
    <3>2. CASE ~ToldToPart(t)
      BY <1>4, <1>6, <2>1, <3>2
    <3> QED
      BY <3>1, <3>2
  <2> QED
    BY <2>3, <2>4, <2>5 DEF Leaving
<1>9. CASE TakeSend(n)
  <2>1. /\ t.inbox # <<>> /\ u.inbox = Tail(t.inbox) /\ u.waits = t.waits
        /\ \E p \in Packets : /\ Head(t.inbox) = WithIds("send", {p})
                              /\ u.child = Holding(c, {p})
                              /\ u.outbox = Append(t.outbox, WithIds(IF c.open THEN "sent"
                                                                     ELSE "notSent", {p}))
    BY <1>1, <1>9, SendEffect
  <2>2. PICK p \in Packets : /\ Head(t.inbox) = WithIds("send", {p})
                             /\ u.child = Holding(c, {p})
                             /\ u.outbox = Append(t.outbox, WithIds(IF c.open THEN "sent"
                                                                    ELSE "notSent", {p}))
    BY <2>1
  <2>3. CASE ToldToPart(t)
    BY <1>3, <2>1, <2>2, <2>3, MessagesDiffer
  <2>4. CASE ~ToldToPart(t)
    <3>1. u.child = c
      BY <1>6, <2>2, <2>4 DEF Holding
    <3>2. Elements(t.outbox) \subseteq Elements(u.outbox)
      <4>1. WithIds(IF c.open THEN "sent" ELSE "notSent", {p}) \in Reports
        BY DEF Reports
      <4> QED
        BY <1>2, <2>2, <4>1, ElementsOfAppend
    <3>3. Message("connect") \notin Elements(u.inbox)
      BY <1>4, <1>6, <2>1, <2>4
    <3> QED
      BY <2>1, <2>4, <3>1, <3>2, <3>3 DEF Leaving
  <2> QED
    BY <2>3, <2>4
<1>10. CASE TakeAnswer(n)
  <2>1. /\ t.inbox # <<>> /\ Head(t.inbox) = Message("answer")
        /\ t.waits # <<>> /\ Head(t.waits) \in Waits
        /\ u.inbox = Tail(t.inbox) /\ u.waits = Tail(t.waits)
    BY <1>1, <1>10, AnswerEffect
  <2>2. /\ Head(t.waits) = "restart" => u.child = Resumed(c)
        /\ Head(t.waits) # "restart" =>
              u.child = c /\ u.outbox = Append(t.outbox, Message("disconnected"))
    BY <1>1, <1>10, AnswerEffect
  <2>3. CASE ToldToPart(t)
    BY <1>3, <2>1, <2>3, MessagesDiffer
  <2>4. CASE ~ToldToPart(t)
    <3>1. Message("connect") \notin Elements(u.inbox)
      BY <1>4, <1>6, <2>1, <2>4
    <3>2. u.child.open = c.open /\ u.child.closing = c.closing
      <4>1. Resumed(c).open = c.open
        BY <1>2, ConditionSessions
      <4>2. Resumed(c).closing = c.closing
        BY <1>2, ConditionCounts
      <4> QED
        BY <2>2, <4>1, <4>2
    <3>3. EndsWith(t.waits, "disconnect") =>
             \/ EndsWith(u.waits, "disconnect")
             \/ u.waits = <<>> /\ Head(t.waits) = "disconnect"
      BY <1>2, <2>1, EndsOfQueue
    <3>4. Head(t.waits) = "disconnect" => Message("disconnected") \in Elements(u.outbox)
      <4>1. Message("disconnected") \in Reports
        BY DEF Reports
      <4>2. Head(t.waits) = "disconnect" => u.outbox = Append(t.outbox, Message("disconnected"))
        BY <2>2
      <4>3. Elements(Append(t.outbox, Message("disconnected")))
               = Elements(t.outbox) \union {Message("disconnected")}
        BY <1>2, <4>1, ElementsOfAppend
      <4> QED
        BY <4>2, <4>3
    <3>5. c.closing > 0 \/ EndsWith(t.waits, "disconnect")
      BY <2>1, <2>4 DEF Leaving
    <3>6. ~u.child.open
      BY <1>6, <2>4, <3>2
    <3> QED
      BY <3>1, <3>2, <3>3, <3>4, <3>5, <3>6 DEF Leaving
  <2> QED
    BY <2>3, <2>4
<1>11. CASE CloseSocket(n)
  <2>1. /\ c.closing > 0 /\ u.inbox = t.inbox /\ u.child = ClosedDown(c)
        /\ u.waits = Append(t.waits, "disconnect")
    BY <1>1, <1>11, CloseEffect
  <2>2. EndsWith(u.waits, "disconnect")
    BY <1>2, <2>1, EndsOfQueue
  <2>3. ~c.open /\ ~ToldToPart(t)
    BY <1>2, <2>1, LeavingCloses
  <2>4. ~u.child.open
    BY <1>2, <2>1, <2>3 DEF ClosedDown, Condition
  <2> QED
    BY <1>6, <2>1, <2>2, <2>3, <2>4 DEF Leaving
<1>12. CASE Redial(n)
  <2>1. Runs(n) /\ ThreadBecomes(n, RestartIn(thread[n])) /\ c.state # "Established"
        /\ t.inbox = <<>> /\ t.outbox = <<>> /\ t.waits = <<>>
    BY <1>12 DEF Redial, IsIdle
  <2>2. u.inbox = t.inbox /\ u.child = Restarted(c)
    BY <1>1, <2>1, RestartEffect
  <2>3. ~ToldToPart(t)
    BY <2>1 DEF ToldToPart, ComesAfter
  <2>4. c.closing > 0
    BY <2>1, <2>3, ElementsOfEmpty DEF Leaving, EndsWith
  <2>5. c.state # "Disconnected" /\ ~c.open
    BY <1>6, <2>3, <2>4 DEF Fit
  <2>6. ~u.child.open
    <3>1. c.state \notin {"Established", "Disconnected"} => Restarted(c).open = c.open
      BY <1>2, ConditionSessions
    <3> QED
      BY <2>1, <2>2, <2>5, <3>1
  <2>7. u.child.closing = c.closing
    BY <1>2, <2>2, ConditionCounts
  <2> QED
    BY <1>6, <2>2, <2>3, <2>4, <2>6, <2>7 DEF Leaving
<1>13. CASE StartSession(n) \/ Deliver(n) \/ Acknowledge(n) \/ LoseSession(n)
  <2>1. c.open
    BY <1>13 DEF StartSession, Deliver, Acknowledge, LoseSession, InSessionAt
  <2>2. u.inbox = t.inbox
    <3>1. CASE LoseSession(n)
      <4>1. Runs(n) /\ ThreadBecomes(n, RestartIn(thread[n]))
        BY <3>1 DEF LoseSession, InSessionAt
      <4> QED
        BY <1>1, <4>1, RestartEffect
    <3> QED
      BY <1>1, <1>13, <3>1, StartEffect, DeliverEffect, AcknowledgeEffect
  <2> QED
    BY <1>5, <1>6, <2>1, <2>2
<1> QED
  BY <1>7, <1>8, <1>9, <1>10, <1>11, <1>12, <1>13 DEF ChildRuns, DeviceStep

\* The parent is informed by thread t: of whether it is connected, of which packets it
\* waits for, and of the end of a disconnect that it awaits.
Informed(t, connected, waiting, excepted, leaves) ==
    /\ TellsStatus(t, connected)
    /\ \A p \in Packets \ excepted : TellsPacket(t, p, p \in waiting)
    /\ Fit(t.child)
    /\ leaves => Leaving(t)

\* The parent believes in no connection and waits for no packet, save those excepted.
Settled == status # "CONNECTED" /\ Pending \subseteq stray

NewsInv ==
    /\ \A n \in Threads : thread[n].life = "running" =>
          Informed(thread[n], status = "CONNECTED", Pending, stray, disconnecting)
    /\ Settled \/ (socketProcess # 0 /\ thread[socketProcess].life \in {"running", "closed"})
    /\ disconnecting => thread[socketProcess].life \in {"running", "closed"}
    /\ destroying = "waiting" => disconnecting \/ Settled

\* The parent takes the first message of t, and goes by it.
LEMMA TakenTells ==
    ASSUME NEW t \in Thread, t.outbox # <<>>, NEW u, u.outbox = Tail(t.outbox),
           u.child = t.child, u.dump = t.dump, NEW connected, NEW connectedNow,
           TellsStatus(t, connected),
           connectedNow => (connected /\ Head(t.outbox) # DisconnectReport)
                           \/ IsLast(Head(t.outbox))
    PROVE  TellsStatus(u, connectedNow)
<1>1. /\ t.outbox \in Seq(Reports)
      /\ Elements(t.outbox) = Elements(Tail(t.outbox)) \union {Head(t.outbox)}
  <2>1. t.outbox \in Seq(Reports)
    BY DEF Thread
  <2> QED
    BY <2>1, ElementsOfTail
<1>2. HasAll(u) <=> HasAll(t)
  BY DEF HasAll
<1>3. \A m : Latest(u, m) => Latest(t, m)
  BY <1>1, AfterTaken DEF Latest
<1>4. ASSUME IsLast(Head(t.outbox)), ~Ended(u)
      PROVE  HasAll(t)
  <2>1. Head(t.outbox) # DisconnectReport
    BY <1>4, LastMessages
  <2>2. Latest(t, Head(t.outbox))
    BY <1>1, <1>4, <2>1, FirstComesAfter DEF Latest, Ended
  <2> QED
    BY <1>4, <2>2 DEF TellsStatus
<1>5. Head(t.outbox) # DisconnectReport /\ ~Ended(u) => ~Ended(t)
  BY <1>1 DEF Ended
<1> QED
  BY <1>2, <1>3, <1>4, <1>5 DEF TellsStatus

\* Taking a message of the child keeps what its messages tell of a packet.
LEMMA TakenTellsPacket ==
    ASSUME NEW t \in Thread, t.outbox # <<>>, NEW u, u.outbox = Tail(t.outbox),
           u.child = t.child, NEW p \in Packets, NEW pending, NEW pendingNow,
           TellsPacket(t, p, pending),
           pendingNow => \/ pending /\ Head(t.outbox) # DisconnectReport
                         \/ Head(t.outbox) = WithIds("sent", {p}),
           \A ids \in SUBSET Packets :
              p \in ids /\ Head(t.outbox) = WithIds("acknowledged", ids) => ~pendingNow
    PROVE  TellsPacket(u, p, pendingNow)
<1> DEFINE d == WithIds("sent", {p})
           m == Head(t.outbox)
<1>1. t.outbox \in Seq(Reports)
  BY DEF Thread
<1>2. /\ Elements(t.outbox) = Elements(Tail(t.outbox)) \union {m}
      /\ m = d => m # DisconnectReport
  BY <1>1, ElementsOfTail, MessagesDiffer
<1>3. ASSUME Latest(u, d) PROVE Carries(u, p)
  <2>1. ComesAfter(Tail(t.outbox), d, DisconnectReport)
    BY <1>3 DEF Latest
  <2>2. Latest(t, d)
    BY <1>1, <2>1, AfterTaken DEF Latest
  <2>3. Carries(t, p)
    BY <2>2 DEF TellsPacket
  <2>4. d \in Elements(Tail(t.outbox))
    BY <2>1 DEF ComesAfter, Elements
  <2>5. AckedLater(t.outbox, p) => AckedLater(u.outbox, p)
    BY <1>1, <2>4, AfterTail DEF AckedLater
  <2> QED
    BY <2>3, <2>5 DEF Carries
<1>4. ASSUME pendingNow, ~Ended(u) PROVE Carries(u, p)
  <2>1. Carries(t, p)
    <3>1. CASE m = d
      <4>1. Latest(t, d)
        BY <1>1, <1>2, <1>4, <3>1, FirstComesAfter DEF Latest, Ended
      <4> QED
        BY <4>1 DEF TellsPacket
    <3>2. CASE m # d
      BY <1>2, <1>4, <3>2 DEF Ended, TellsPacket
    <3> QED
      BY <3>1, <3>2
  <2>2. AckedLater(t.outbox, p) => AckedLater(u.outbox, p)
    <3>1. ASSUME NEW ids \in SUBSET Packets, p \in ids,
                 ComesAfter(t.outbox, WithIds("acknowledged", ids), d)
          PROVE  ComesAfter(u.outbox, WithIds("acknowledged", ids), d)
      <4>1. m # WithIds("acknowledged", ids)
        BY <1>4, <3>1
      <4> QED
        BY <1>1, <3>1, <4>1, AfterTail
    <3> QED
      BY <3>1 DEF AckedLater
  <2> QED
    BY <2>1, <2>2 DEF Carries
<1> QED
  BY <1>3, <1>4 DEF TellsPacket

\* A thread that has left has told everything.
LEMMA LeftIsSettled ==
    ASSUME NEW t, ThreadInv(t), NEW connected, NEW waiting \in SUBSET Packets, NEW excepted,
           Informed(t, connected, waiting, excepted, TRUE),
           Unfinished(t) <= 1, t.child.closing >= 0,
           Message("disconnected") \in Elements(t.outbox)
    PROVE  ~connected /\ waiting \subseteq excepted
<1>1. /\ t \in Thread /\ t.inbox \in Seq(Calls) /\ t.outbox \in Seq(Reports)
      /\ t.waits \in Seq(Waits)
  BY DEF ThreadInv, Thread
<1>2. /\ t.child.closing = 0 /\ "disconnect" \notin Elements(t.waits)
      /\ Message("disconnect") \notin Elements(t.inbox)
  BY <1>1, OneUnfinished
<1>3. ~ToldToPart(t)
  BY <1>2 DEF ToldToPart, ComesAfter, Elements
<1>4. ~EndsWith(t.waits, "disconnect")
  <2>1. Len(t.waits) \in Nat
    BY <1>1, LenProperties
  <2>2. Len(t.waits) > 0 => Len(t.waits) \in 1 .. Len(t.waits)
    BY <2>1
  <2> QED
    BY <1>2, <2>2 DEF EndsWith, Elements
<1>5. t.waits = <<>> /\ ~t.child.open
  BY <1>2, <1>3, <1>4 DEF Informed, Leaving
<1>6. ~Ended(t)
  <2>1. Count(t.inbox, Message("answer")) + Count(t.outbox, DisconnectReport) = 0
    BY <1>5 DEF ThreadInv, Orderly
  <2>2. Count(t.inbox, Message("answer")) \in Nat /\ Count(t.outbox, DisconnectReport) \in Nat
    BY <1>1, CountsOfThread
  <2>3. Count(t.outbox, DisconnectReport) = 0
    BY <2>1, <2>2
  <2> QED
    BY <1>1, <2>3, CountOfElement DEF Ended
<1>7. t.child.state # "Established"
  BY <1>2, <1>5 DEF Informed, Fit
<1>8. ~connected
  BY <1>2, <1>6, <1>7 DEF Informed, TellsStatus, HasAll
<1>9. ASSUME NEW p \in Packets \ excepted PROVE p \notin waiting
  <2>1. TellsPacket(t, p, p \in waiting)
    BY DEF Informed
  <2>2. ~Carries(t, p)
    BY <1>2, <1>7 DEF Carries
  <2> QED
    BY <1>6, <2>1, <2>2 DEF TellsPacket
<1> QED
  BY <1>8, <1>9

\* A call that is posted changes nothing of what is told; a disconnect makes it leave.
LEMMA PostedInforms ==
    ASSUME NEW t \in Thread, NEW u, NEW m \in Calls,
           NEW connected, NEW waiting, NEW waitingNow, NEW excepted, NEW leaves, NEW leavesNow,
           Informed(t, connected, waiting, excepted, leaves),
           u.inbox = Append(t.inbox, m), u.outbox = t.outbox, u.waits = t.waits,
           u.child = t.child, u.dump = t.dump, waitingNow \subseteq waiting,
           leavesNow => \/ leaves /\ m # Message("connect")
                        \/ m = Message("disconnect")
    PROVE  Informed(u, connected, waitingNow, excepted, leavesNow)
<1>1. t.inbox \in Seq(Calls) /\ Message("disconnect") # Message("connect")
  BY MessagesDiffer DEF Thread
<1>2. TellsStatus(u, connected)
  BY DEF Informed, TellsStatus, Ended, Latest, HasAll
<1>3. ASSUME NEW p \in Packets \ excepted PROVE TellsPacket(u, p, p \in waitingNow)
  <2>1. TellsPacket(t, p, p \in waiting)
    BY DEF Informed
  <2>2. /\ Carries(t, p) <=> Carries(u, p)
        /\ Ended(t) <=> Ended(u)
        /\ Latest(t, WithIds("sent", {p})) <=> Latest(u, WithIds("sent", {p}))
    BY DEF Carries, Ended, Latest
  <2> QED
    BY <2>1, <2>2 DEF TellsPacket
<1>4. leavesNow => Leaving(u)
  <2>1. CASE m = Message("disconnect")
    BY <1>1, <2>1, AfterAppend DEF ToldToPart, Leaving
  <2>2. CASE leaves /\ m # Message("connect")
    <3>1. ToldToPart(t) => ToldToPart(u)
      BY <1>1, <2>2, AfterAppend DEF ToldToPart
    <3>2. Message("connect") \notin Elements(t.inbox) =>
             Message("connect") \notin Elements(u.inbox)
      BY <1>1, <2>2, ElementsOfAppend
    <3> QED
      BY <2>2, <3>1, <3>2 DEF Informed, Leaving
  <2> QED
    BY <2>1, <2>2
<1>5. Fit(u.child)
  BY DEF Informed
<1> QED
  BY <1>2, <1>3, <1>4, <1>5 DEF Informed

\* A thread that is new has nothing to tell.
LEMMA FreshInforms ==
    ASSUME NEW t, t.child = Fresh, t.outbox = <<>>, NEW waiting, NEW excepted,
           waiting \subseteq excepted
    PROVE  Informed(t, FALSE, waiting, excepted, FALSE)
<1>1. \A m : ~Latest(t, m)
  BY EmptySeq DEF Latest, ComesAfter
<1> QED
  BY <1>1 DEF Informed, TellsStatus, TellsPacket, Fit, Fresh

\* What becomes of the news when only one thread runs.
LEMMA KnownIsInformed ==
    ASSUME OneThread', socketProcess' # 0 => socketProcess' \in Threads,
           socketProcess' # 0 /\ thread'[socketProcess'].life = "running" =>
              Informed(thread'[socketProcess'], status' = "CONNECTED", Pending', stray',
                       disconnecting'),
           Settled' \/ (socketProcess' # 0
                        /\ thread'[socketProcess'].life \in {"running", "closed"}),
           disconnecting' => thread'[socketProcess'].life \in {"running", "closed"},
           destroying' = "waiting" => disconnecting' \/ Settled'
    PROVE  NewsInv'
<1>1. ASSUME NEW n \in Threads, thread'[n].life = "running"
      PROVE  n = socketProcess' /\ socketProcess' # 0
  <2>1. n = socketProcess'
    BY <1>1 DEF OneThread, Alive
  <2> QED
    BY <2>1 DEF Threads
<1> QED
  BY <1>1 DEF NewsInv

\* What the child and the device do keeps the parent informed.
LEMMA WorkInforms ==
    ASSUME ~SlowParent, TypesInv, ControlInv, NEW n \in Threads, ChildRuns(n) \/ DeviceStep(n),
           Informed(thread[n], status = "CONNECTED", Pending, stray, disconnecting)
    PROVE  Informed(thread'[n], status' = "CONNECTED", Pending', stray', disconnecting')
<1> DEFINE t == thread[n]
           u == thread'[n]
<1>1. /\ UNCHANGED <<status, promise, disconnecting>> /\ stray \subseteq stray'
  BY DEF ChildRuns, DeviceStep, atemVars, promiseVars, socketVars, TakeConnect,
     TakeDisconnectCall, TakeSend, TakeAnswer, CloseSocket, Redial
<1>2. /\ t \in Thread /\ ThreadsInv /\ t.child.closing >= 0 /\ t.child.closing \in Int
      /\ Unfinished(t) <= IF disconnecting THEN 1 ELSE 0
  BY DEF TypesInv, ThreadsInv, ControlInv, Owed, Thread, Condition
<1>3. Unfinished(t) <= 1 /\ (~disconnecting => Unfinished(t) <= 0)
  <2>1. Unfinished(t) \in Int
    BY <1>2, CountsOfThread
  <2> QED
    BY <1>2, <2>1
<1>4. t.child.closing > 0 => disconnecting
  <2>1. /\ Unfinished(t) = Count(t.inbox, Message("disconnect")) + t.child.closing
              + Count(t.waits, "disconnect") + Count(t.outbox, Message("disconnected"))
        /\ Count(t.inbox, Message("disconnect")) \in Nat
        /\ Count(t.waits, "disconnect") \in Nat
        /\ Count(t.outbox, Message("disconnected")) \in Nat
    BY <1>2, CountsOfThread DEF Unfinished
  <2> QED
    BY <1>2, <1>3, <2>1
<1>5. t.child.closing > 0 => ~t.child.open
  BY <1>2, <1>3, <1>4, LeavingCloses DEF Informed
<1>6. Fit(t.child)
  BY DEF Informed
<1>7. Fit(u.child)
  BY <1>2, <1>3, <1>5, <1>6, WorkFits
<1>8. disconnecting => Leaving(u)
  <2>1. disconnecting => Leaving(t)
    BY DEF Informed
  <2> QED
    BY <1>2, <1>3, <1>6, <2>1, WorkLeaves
<1>9. /\ StatusStep(t, u)
      /\ \A p \in Packets \ stray' : PacketStep(t, u, p)
  BY <1>6, WorkTells
<1>10. TellsStatus(u, status = "CONNECTED")
  <2>1. TellsStatus(t, status = "CONNECTED")
    BY DEF Informed
  <2> QED
    BY <1>2, <1>9, <2>1, StatusTold DEF StatusStep
<1>11. ASSUME NEW p \in Packets \ stray' PROVE TellsPacket(u, p, p \in Pending)
  <2>1. TellsPacket(t, p, p \in Pending)
    BY <1>1 DEF Informed
  <2>2. PacketStep(t, u, p)
    BY <1>9
  <2> QED
    BY <1>2, <2>1, <2>2, PacketTold DEF PacketStep
<1>12. Pending' = Pending
  BY <1>1 DEF Pending
<1> QED
  BY <1>1, <1>7, <1>8, <1>10, <1>11, <1>12 DEF Informed

\* What the parent takes leaves the rest of the thread as it is.
LEMMA MessageLeaves ==
    ASSUME ThreadsInv, NEW n \in Threads, TakesMessage(n)
    PROVE  /\ thread'[n].dump = thread[n].dump /\ thread'[n].waits = thread[n].waits
           /\ \/ thread'[n].inbox = thread[n].inbox
              \/ thread'[n].inbox = Append(thread[n].inbox, Message("answer"))
<1>1. thread[n] \in Thread /\ thread \in [Threads -> Thread]
  BY DEF ThreadsInv
<1>2. thread'[n] \in {Taken(n), Posting(Taken(n), Message("answer"))}
  BY <1>1 DEF TakesMessage, TakeDisconnect, TakeCommands, TakeAcknowledged, TakeSent,
     TakeNotSent, TakeDisconnected
<1>3. /\ Taken(n).dump = thread[n].dump /\ Taken(n).waits = thread[n].waits
      /\ Taken(n).inbox = thread[n].inbox
  BY <1>1 DEF Taken, Thread
<1>4. LET u == Posting(Taken(n), Message("answer"))
      IN  /\ u.dump = thread[n].dump /\ u.waits = thread[n].waits
          /\ u.inbox = Append(thread[n].inbox, Message("answer"))
  BY <1>1 DEF Posting, Taken, Thread
<1> QED
  BY <1>2, <1>3, <1>4

\* What the parent makes of a message.
LEMMA MessageNews ==
    ASSUME TypesInv, NEW n \in Threads, TakesMessage(n)
    PROVE  LET m == Head(thread[n].outbox)
           IN  /\ status' = "CONNECTED" =>
                     (status = "CONNECTED" /\ m # DisconnectReport) \/ IsLast(m)
               /\ \A p \in Pending' : \/ p \in Pending /\ m # DisconnectReport
                                      \/ m = WithIds("sent", {p})
               /\ \A ids \in SUBSET Packets :
                     m = WithIds("acknowledged", ids) => ids \intersect Pending' = {}
               /\ disconnecting' = IF TakeDisconnected(n) THEN FALSE ELSE disconnecting
               /\ TakeDisconnected(n) <=> m = Message("disconnected")
               /\ UNCHANGED <<socketProcess, creatingSocket, destroying>>
<1> DEFINE m == Head(thread[n].outbox)
<1>1. ThreadsInv /\ promise \in [Packets -> Outcomes]
  BY DEF TypesInv, ParentTypes
<1>2. m \in Reports
  BY <1>1, MessageEffect
<1>3. /\ DisconnectReport.type = "disconnect" /\ Message("disconnected").type = "disconnected"
      /\ \A type, ids : WithIds(type, ids).type = type /\ WithIds(type, ids).ids = ids
  BY DEF DisconnectReport, Message, WithIds
<1>9. /\ m.type = "sent" => \E p \in Packets : m = WithIds("sent", {p})
      /\ m.type = "disconnected" => m = Message("disconnected")
  <2>1. \A x \in [type : {"commands"}, batch : Batch, session : Nat] : x.type = "commands"
    OBVIOUS
  <2>2. \/ m \in {DisconnectReport, Message("disconnected")}
        \/ \E p \in Packets : m = WithIds("sent", {p})
        \/ \E p \in Packets : m = WithIds("notSent", {p})
        \/ \E ids \in SUBSET Packets : m = WithIds("acknowledged", ids)
        \/ m \in [type : {"commands"}, batch : Batch, session : Nat]
    BY <1>2 DEF Reports
  <2> HIDE DEF m
  <2>3. CASE m \in {DisconnectReport, Message("disconnected")}
    BY <1>3, <2>3
  <2>4. CASE \E p \in Packets : m = WithIds("sent", {p})
    <3>1. m.type = "sent"
      BY <1>3, <2>4
    <3> QED
      BY <2>4, <3>1
  <2>5. CASE \E p \in Packets : m = WithIds("notSent", {p})
    BY <1>3, <2>5
  <2>6. CASE \E ids \in SUBSET Packets : m = WithIds("acknowledged", ids)
    BY <1>3, <2>6
  <2>7. CASE m \in [type : {"commands"}, batch : Batch, session : Nat]
    BY <2>1, <2>7
  <2> QED
    BY <2>2, <2>3, <2>4, <2>5, <2>6, <2>7
<1>4. UNCHANGED <<socketProcess, creatingSocket, destroying>>
  BY DEF socketVars, TakesMessage, TakeDisconnect, TakeCommands, TakeAcknowledged,
     TakeSent, TakeNotSent, TakeDisconnected
<1>5. CASE TakeDisconnect(n)
  <2>1. /\ m.type = "disconnect" /\ status' = "CLOSED" /\ UNCHANGED disconnecting
        /\ promise' = [p \in Packets |-> IF p \in Packets /\ promise[p] = "pending"
                                         THEN "rejected" ELSE promise[p]]
    BY <1>5 DEF TakeDisconnect, Next1, OnDisconnect, Close, Become, socketVars
  <2>2. Pending' = {}
    BY <2>1 DEF Pending
  <2>3. ~TakeDisconnected(n)
    BY <2>1 DEF TakeDisconnected, Next1
  <2> QED
    BY <1>3, <1>4, <2>1, <2>2, <2>3
<1>6. CASE TakeCommands(n)
  <2>1. /\ m.type = "commands" /\ UNCHANGED <<promise, disconnecting>>
        /\ status' = IF "init" \in m.batch THEN "CONNECTED"
                     ELSE IF "version" \in m.batch THEN "CONNECTING" ELSE status
    BY <1>6 DEF TakeCommands, Next1, MutateState, socketVars
  <2>2. Pending' = Pending
    BY <2>1 DEF Pending
  <2>3. ~TakeDisconnected(n) /\ m # DisconnectReport /\ m # Message("disconnected")
    BY <1>3, <2>1 DEF TakeDisconnected, Next1
  <2>4. \A ids : m # WithIds("acknowledged", ids)
    BY <1>3, <2>1
  <2>5. status' = "CONNECTED" => status = "CONNECTED" \/ IsLast(m)
    BY <2>1 DEF IsLast
  <2> QED
    BY <1>4, <2>1, <2>2, <2>3, <2>4, <2>5
<1>7. CASE TakeAcknowledged(n) \/ TakeSent(n) \/ TakeNotSent(n)
  <2>1. /\ m.type \in {"acknowledged", "sent", "notSent"} /\ UNCHANGED <<status, disconnecting>>
    BY <1>7 DEF TakeAcknowledged, TakeSent, TakeNotSent, Next1, socketVars, atemVars
  <2>2. ~TakeDisconnected(n) /\ m # DisconnectReport /\ m # Message("disconnected")
    BY <1>3, <2>1 DEF TakeDisconnected, Next1
  <2>3. CASE TakeAcknowledged(n)
    <3>1. /\ m.type = "acknowledged"
          /\ promise' = [p \in Packets |-> IF p \in m.ids /\ promise[p] = "pending"
                                           THEN "resolved" ELSE promise[p]]
      BY <2>3 DEF TakeAcknowledged, Next1, Become
    <3>2. Pending' \subseteq Pending /\ m.ids \intersect Pending' = {}
      BY <3>1 DEF Pending
    <3>3. \A ids : m = WithIds("acknowledged", ids) => m.ids = ids
      BY <1>3
    <3> QED
      BY <1>4, <2>1, <2>2, <3>2, <3>3
  <2>4. CASE TakeNotSent(n)
    <3>1. /\ m.type = "notSent"
          /\ promise' = [p \in Packets |-> IF p \in m.ids /\ promise[p] = "sending"
                                           THEN "failed" ELSE promise[p]]
      BY <2>4 DEF TakeNotSent, Next1, Become
    <3>2. Pending' \subseteq Pending
      BY <3>1 DEF Pending
    <3>3. \A ids : m # WithIds("acknowledged", ids)
      BY <1>3, <3>1
    <3> QED
      BY <1>4, <2>1, <2>2, <3>2, <3>3
  <2>5. CASE TakeSent(n)
    <3>1. /\ m.type = "sent"
          /\ promise' = [p \in Packets |-> IF p \in m.ids /\ promise[p] = "sending"
                                           THEN "pending" ELSE promise[p]]
      BY <2>5 DEF TakeSent, Next1, Become
    <3>2. PICK q \in Packets : m = WithIds("sent", {q})
      BY <1>9, <3>1
    <3>3. m.ids = {q}
      BY <1>3, <3>2
    <3>4. \A p \in Pending' : p \in Pending \/ m = WithIds("sent", {p})
      BY <3>1, <3>2, <3>3 DEF Pending
    <3>5. \A ids : m # WithIds("acknowledged", ids)
      BY <1>3, <3>1
    <3> QED
      BY <1>4, <2>1, <2>2, <3>4, <3>5
  <2> QED
    BY <1>7, <2>3, <2>4, <2>5
<1>8. CASE TakeDisconnected(n)
  <2>1. m.type = "disconnected" /\ disconnecting' = FALSE /\ UNCHANGED <<status, promise>>
    BY <1>8 DEF TakeDisconnected, Next1, atemVars, promiseVars
  <2>2. m = Message("disconnected")
    BY <1>9, <2>1
  <2>3. Pending' = Pending
    BY <2>1 DEF Pending
  <2>4. m # DisconnectReport /\ \A ids : m # WithIds("acknowledged", ids)
    BY <1>3, <2>1
  <2> QED
    BY <1>4, <1>8, <2>1, <2>2, <2>3, <2>4
<1> QED
  BY <1>5, <1>6, <1>7, <1>8 DEF TakesMessage

\* A message of its thread informs the parent.
LEMMA MessageKeepsNews ==
    ASSUME TypesInv, ControlInv, NewsInv, OneThread', NEW n \in Threads, TakesMessage(n),
           UNCHANGED stray, ~DestroyGoesOn
    PROVE  NewsInv'
<1> DEFINE t == thread[n]
           u == thread'[n]
           m == Head(thread[n].outbox)
<1>1. ThreadsInv /\ t \in Thread /\ t.inbox \in Seq(Calls) /\ t.outbox \in Seq(Reports)
      /\ ThreadInv(t)
  BY DEF TypesInv, ThreadsInv, Thread, ThreadInv
<1>2. /\ Runs(n) /\ thread'[n].life = "running" /\ u.child = t.child
      /\ t.outbox # <<>> /\ m \in Reports /\ u.outbox = Tail(t.outbox)
  BY <1>1, MessageEffect DEF RunsOn
<1>3. /\ n = socketProcess /\ socketProcess # 0 /\ t.life = "running"
      /\ \A k \in Threads : thread[k].life # "creating"
  <2>1. t.life = "running"
    BY <1>2 DEF Runs
  <2> QED
    BY <2>1, RunningIsKnown DEF ControlInv, Alive, Threads
<1>4. Informed(t, status = "CONNECTED", Pending, stray, disconnecting)
  BY <1>3 DEF NewsInv
<1>5. /\ u.dump = t.dump /\ u.waits = t.waits
      /\ u.inbox = t.inbox \/ u.inbox = Append(t.inbox, Message("answer"))
  BY <1>1, MessageLeaves
<1>6. /\ status' = "CONNECTED" => (status = "CONNECTED" /\ m # DisconnectReport) \/ IsLast(m)
      /\ \A p \in Pending' : \/ p \in Pending /\ m # DisconnectReport
                             \/ m = WithIds("sent", {p})
      /\ \A ids \in SUBSET Packets :
            m = WithIds("acknowledged", ids) => ids \intersect Pending' = {}
  BY MessageNews
<1>7. /\ disconnecting' = IF TakeDisconnected(n) THEN FALSE ELSE disconnecting
      /\ TakeDisconnected(n) <=> m = Message("disconnected")
      /\ UNCHANGED <<socketProcess, creatingSocket, destroying>>
  BY MessageNews
<1>8. TellsStatus(u, status' = "CONNECTED")
  <2> HIDE DEF t, u
  <2> DEFINE was == status = "CONNECTED"
             now == status' = "CONNECTED"
  <2>1. TellsStatus(t, was)
    BY <1>4 DEF Informed
  <2>2. now => (was /\ Head(t.outbox) # DisconnectReport) \/ IsLast(Head(t.outbox))
    BY <1>6 DEF t
  <2> HIDE DEF was, now
  <2>3. TellsStatus(u, now)
    BY <1>1, <1>2, <1>5, <2>1, <2>2, TakenTells
  <2> QED
    BY <2>3 DEF now
<1>9. ASSUME NEW p \in Packets \ stray PROVE TellsPacket(u, p, p \in Pending')
  <2>1. TellsPacket(t, p, p \in Pending)
    BY <1>4 DEF Informed
  <2> HIDE DEF t, u
  <2> DEFINE now == p \in Pending'
  <2>2. /\ now => \/ p \in Pending /\ Head(t.outbox) # DisconnectReport
                  \/ Head(t.outbox) = WithIds("sent", {p})
        /\ \A ids \in SUBSET Packets :
              p \in ids /\ Head(t.outbox) = WithIds("acknowledged", ids) => ~now
    BY <1>6 DEF t
  <2> HIDE DEF now
  <2>3. TellsPacket(u, p, now)
    BY <1>1, <1>2, <2>1, <2>2, TakenTellsPacket
  <2> QED
    BY <2>3 DEF now
<1>10. disconnecting' => Leaving(u)
  <2>1. SUFFICES ASSUME disconnecting, m # Message("disconnected") PROVE Leaving(u)
    BY <1>7
  <2>2. Leaving(t)
    BY <1>4, <2>1 DEF Informed
  <2>3. /\ ToldToPart(t) => ToldToPart(u)
        /\ Message("connect") \notin Elements(t.inbox) =>
              Message("connect") \notin Elements(u.inbox)
    <3>1. CASE u.inbox = t.inbox
      BY <3>1 DEF ToldToPart
    <3>2. CASE u.inbox = Append(t.inbox, Message("answer"))
      <4>1. Message("answer") \in Calls /\ Message("answer") # Message("connect")
        BY MessagesDiffer DEF Calls
      <4>2. ToldToPart(t) => ToldToPart(u)
        BY <1>1, <3>2, <4>1, AfterAppend DEF ToldToPart
      <4>3. Elements(u.inbox) = Elements(t.inbox) \union {Message("answer")}
        BY <1>1, <3>2, <4>1, ElementsOfAppend
      <4> QED
        BY <4>1, <4>2, <4>3
    <3> QED
      BY <1>5, <3>1, <3>2
  <2>4. Message("disconnected") \in Elements(t.outbox) =>
           Message("disconnected") \in Elements(u.outbox)
    BY <1>1, <1>2, <2>1, ElementsOfTail
  <2> QED
    BY <1>2, <1>5, <2>2, <2>3, <2>4 DEF Leaving
<1>11. Informed(u, status' = "CONNECTED", Pending', stray', disconnecting')
  <2>1. Fit(u.child)
    BY <1>2, <1>4 DEF Informed
  <2> QED
    BY <1>8, <1>9, <1>10, <2>1 DEF Informed
<1>12. destroying' = "waiting" => disconnecting' \/ Settled'
  <2>1. SUFFICES ASSUME destroying = "waiting", ~disconnecting' PROVE Settled'
    BY <1>7
  <2>2. disconnecting
    BY <1>1, <1>3, <2>1 DEF DestroyGoesOn, TypesInv, ParentTypes, Threads
  <2>3. m = Message("disconnected")
    BY <1>7, <2>1, <2>2
  <2>4. m \in Elements(t.outbox)
    BY <1>1, <1>2, ElementsOfTail
  <2>5. Unfinished(t) <= 1 /\ t.child.closing >= 0
    BY <2>2 DEF ControlInv, Owed
  <2>6. Pending \in SUBSET Packets
    BY DEF Pending
  <2>7. Informed(t, status = "CONNECTED", Pending, stray, TRUE)
    BY <1>4, <2>2 DEF Informed
  <2>8. Settled
    BY <1>1, <2>3, <2>4, <2>5, <2>6, <2>7, LeftIsSettled DEF Settled
  <2>9. ~IsLast(m) /\ \A p : m # WithIds("sent", {p})
    BY <2>3, LastMessages, MessagesDiffer
  <2> QED
    BY <1>6, <2>8, <2>9 DEF Settled
<1> QED
  BY <1>2, <1>3, <1>7, <1>11, <1>12, KnownIsInformed

\* A call of the parent, to the thread that it knows.
LEMMA CallKeepsNews ==
    ASSUME TypesInv, NewsInv, OneThread', NEW m \in Calls, m # Message("answer"),
           socketProcess # 0, Call(socketProcess, m),
           UNCHANGED <<socketProcess, status, stray>>, Pending' \subseteq Pending,
           \/ m # Message("connect") /\ disconnecting' = disconnecting
           \/ /\ m = Message("disconnect") /\ ~disconnecting
              /\ disconnecting' <=> Runs(socketProcess)
           \/ m = Message("connect") /\ ~disconnecting /\ ~disconnecting',
           destroying' = "waiting" => destroying = "waiting" \/ disconnecting'
    PROVE  NewsInv'
<1> DEFINE k == socketProcess
           t == thread[socketProcess]
           u == thread'[socketProcess]
<1>1. ThreadsInv /\ k \in Threads /\ t \in Thread
  BY DEF TypesInv, ParentTypes, ThreadsInv, Threads
<1>2. u.life = t.life
  BY <1>1, CallEffect
<1>3. disconnecting' => u.life \in {"running", "closed"}
  <2>1. disconnecting \/ Runs(socketProcess) => t.life \in {"running", "closed"}
    BY DEF NewsInv, Runs
  <2> QED
    BY <1>2, <2>1
<1>4. ASSUME u.life = "running"
      PROVE  Informed(u, status = "CONNECTED", Pending', stray, disconnecting')
  <2>1. Runs(k)
    BY <1>2, <1>4 DEF Runs
  <2>2. /\ u.inbox = Append(t.inbox, m) /\ u.outbox = t.outbox /\ u.waits = t.waits
        /\ u.child = t.child /\ u.dump = t.dump
    BY <1>1, <2>1, CallQueues
  <2>3. Informed(t, status = "CONNECTED", Pending, stray, disconnecting)
    BY <1>1, <2>1 DEF NewsInv, Runs
  <2>4. disconnecting' => (disconnecting /\ m # Message("connect")) \/ m = Message("disconnect")
    OBVIOUS
  <2> DEFINE was == status = "CONNECTED"
  <2>5. Informed(t, was, Pending, stray, disconnecting)
    BY <2>3
  <2> HIDE DEF t, u, was
  <2>6. Informed(u, was, Pending', stray, disconnecting')
    BY <1>1, <2>2, <2>4, <2>5, PostedInforms
  <2> QED
    BY <2>6 DEF was
<1>5. Settled => Settled'
  BY DEF Settled
<1>6. Settled' \/ (socketProcess' # 0 /\ u.life \in {"running", "closed"})
  BY <1>2, <1>5 DEF NewsInv
<1>7. destroying' = "waiting" => disconnecting' \/ Settled'
  BY <1>5 DEF NewsInv
<1> QED
  BY <1>1, <1>3, <1>4, <1>6, <1>7, KnownIsInformed

\* Without a thread that runs the parent has to be settled.
LEMMA SettledKeepsNews ==
    ASSUME OneThread', \A n \in Threads : thread'[n].life # "running", Settled', ~disconnecting'
    PROVE  NewsInv'
  BY DEF NewsInv

\* Every step keeps the parent informed.
LEMMA NewsStep ==
    ASSUME ~SlowParent, ~Overlap, TypesInv, ControlInv, NewsInv, ~doubled',
           [Next]_connectionVars
    PROVE  NewsInv'
<1>1. ThreadsInv /\ socketProcess \in 0 .. MaxThreads /\ OneThread'
  BY ControlStep DEF TypesInv, ParentTypes, ControlInv
<1>2. \A n \in Threads : n # 0
  BY DEF Threads
<1>3. ASSUME NEW n \in Threads, thread[n].life \in Alive
      PROVE  /\ n = socketProcess /\ socketProcess # 0
             /\ \A m \in Threads \ {n} : thread[m].life \notin Alive
  BY <1>2, <1>3, RunningIsKnown DEF ControlInv
<1>4. /\ disconnecting => socketProcess # 0
      /\ socketProcess = 0 => Settled /\ \A n \in Threads : thread[n].life # "running"
  BY <1>3 DEF ControlInv, Owed, NewsInv, Alive
<1>5. CASE Connect
  <2>1. /\ ~disconnecting /\ destroying = "no"
        /\ UNCHANGED <<socketProcess, disconnecting, destroying, status, promise, stray>>
    BY <1>5 DEF Connect, atemVars, promiseVars
  <2>2. Pending' = Pending
    BY <2>1 DEF Pending
  <2>3. CASE socketProcess = 0
    <3>1. Settled'
      BY <1>4, <2>1, <2>2, <2>3 DEF Settled
    <3>2. CreateThread
      BY <1>5, <2>3 DEF Connect
    <3>3. \A n \in Threads : thread'[n].life # "running"
      <4>1. PICK n \in Threads : thread' = [thread EXCEPT ![n].life = "creating"]
        BY <3>2 DEF CreateThread
      <4>2. \A m \in Threads \ {n} : thread'[m] = thread[m]
        BY <1>1, <4>1 DEF ThreadsInv
      <4>3. thread'[n].life = "creating"
        BY <1>1, <4>1 DEF ThreadsInv, Thread
      <4> QED
        BY <1>4, <2>3, <4>2, <4>3
    <3> QED
      BY <1>1, <2>1, <3>1, <3>3, SettledKeepsNews
  <2>4. CASE socketProcess # 0
    <3>1. Call(socketProcess, Message("connect"))
      BY <1>5, <2>4 DEF Connect
    <3> QED
      BY <1>1, <2>1, <2>2, <2>4, <3>1, CallKeepsNews, CallsAreCalls
  <2> QED
    BY <2>3, <2>4
<1>6. CASE Disconnect \/ Destroy
  <2>1. /\ ~disconnecting /\ destroying = "no"
        /\ UNCHANGED <<socketProcess, status, promise, stray>>
        /\ destroying' = "waiting" => ~HasDied
        /\ disconnecting' = (socketProcess # 0 /\ ~HasDied)
        /\ socketProcess # 0 => Call(socketProcess, Message("disconnect"))
        /\ socketProcess = 0 => UNCHANGED thread
    BY <1>6 DEF Disconnect, Destroy, CallDisconnect, atemVars, promiseVars
  <2>2. Pending' = Pending
    BY <2>1 DEF Pending
  <2>3. CASE socketProcess = 0
    <3>1. Settled'
      BY <1>4, <2>1, <2>2, <2>3 DEF Settled
    <3> QED
      BY <1>1, <1>4, <2>1, <2>3, <3>1, SettledKeepsNews
  <2>4. CASE socketProcess # 0
    <3>1. disconnecting' <=> Runs(socketProcess)
      BY <2>1, <2>4 DEF HasDied
    <3>2. destroying' = "waiting" => disconnecting'
      BY <2>1, <2>4
    <3> QED
      BY <1>1, <2>1, <2>2, <2>4, <3>1, <3>2, CallKeepsNews, CallsAreCalls
  <2> QED
    BY <2>3, <2>4
<1>7. CASE SendCommands
  <2>1. /\ socketProcess # 0
        /\ UNCHANGED <<socketProcess, disconnecting, destroying, status, stray>>
        /\ sent' = sent + 1 /\ sent' \in Packets
        /\ Call(socketProcess, WithIds("send", {sent'}))
        /\ promise' = [promise EXCEPT ![sent'] =
                          IF Runs(socketProcess) THEN "sending" ELSE "failed"]
    <3>1. sent \in 0 .. MaxPackets /\ sent < MaxPackets /\ sent' = sent + 1
      BY <1>7 DEF SendCommands, TypesInv, ParentTypes
    <3>2. sent' \in Packets
      BY <3>1, ConnectionAssumption DEF Packets
    <3> QED
      BY <1>7, <3>1, <3>2 DEF SendCommands, socketVars, atemVars
  <2>2. Pending' \subseteq Pending
    BY <2>1 DEF Pending, TypesInv, ParentTypes
  <2> DEFINE m == WithIds("send", {sent'})
  <2>3. m \in Calls /\ m # Message("answer") /\ m # Message("connect")
    BY <2>1, CallsAreCalls, MessagesDiffer
  <2>4. Call(socketProcess, m)
    BY <2>1
  <2> HIDE DEF m
  <2> QED
    BY <1>1, <2>1, <2>2, <2>3, <2>4, CallKeepsNews
<1>8. ASSUME NEW n \in Threads, ThreadCreated(n)
      PROVE  NewsInv'
  <2>1. /\ socketProcess = 0 /\ thread[n].life = "creating"
        /\ \A m \in Threads \ {n} : thread[m].life # "running"
    BY <1>3, <1>8 DEF ThreadCreated, ControlInv, OneThread, Alive
  <2>2. /\ UNCHANGED <<disconnecting, destroying, status, promise, stray>>
        /\ socketProcess' = n
    BY <1>8 DEF ThreadCreated, atemVars, promiseVars
  <2>3. /\ Settled /\ ~disconnecting
    BY <1>4, <2>1
  <2>4. Settled' /\ Pending' \subseteq stray' /\ status' # "CONNECTED"
    BY <2>2, <2>3 DEF Settled, Pending
  <2>5. thread'[n].child = Fresh /\ thread'[n].outbox = <<>>
    <3>1. /\ thread'[n].child = thread[n].child /\ thread'[n].outbox = thread[n].outbox
      BY <1>1, <1>8, CreatedEffect
    <3>2. Empty(thread[n]) /\ thread[n] \in Thread
      BY <1>1, <2>1 DEF ControlInv, OneThread, ThreadsInv
    <3> QED
      BY <3>1, <3>2, EmptyOwesNothing
  <2>6. Informed(thread'[n], FALSE, Pending', stray', FALSE)
    BY <2>4, <2>5, FreshInforms
  <2>7. (status' = "CONNECTED") = FALSE /\ disconnecting' = FALSE
    BY <2>2, <2>3, <2>4 DEF TypesInv, ParentTypes
  <2>8. Informed(thread'[n], status' = "CONNECTED", Pending', stray', disconnecting')
    BY <2>6, <2>7
  <2> QED
    BY <1>1, <2>2, <2>4, <2>7, <2>8, KnownIsInformed
<1>9. ASSUME NEW n \in Threads, ParentTakes(n), ~DestroyGoesOn
      PROVE  NewsInv'
  <2>1. UNCHANGED stray
    BY <1>9 DEF ParentTakes
  <2>2. CASE TakesMessage(n)
    BY <1>1, <1>9, <2>1, <2>2, MessageKeepsNews
  <2>3. CASE TakeClosed(n)
    <3>1. /\ thread[n].life = "closed" /\ thread' = [thread EXCEPT ![n].life = "dead"]
          /\ disconnecting' = FALSE /\ status' = "CLOSED"
          /\ promise' = [p \in Packets |-> AfterDeath(promise[p])]
      BY <2>3 DEF TakeClosed, Close
    <3>2. Pending' = {}
      BY <3>1 DEF Pending, AfterDeath
    <3>3. \A m \in Threads : thread'[m].life # "running"
      <4>1. /\ thread'[n].life = "dead" /\ \A m \in Threads \ {n} : thread'[m] = thread[m]
        BY <1>1, <3>1 DEF ThreadsInv, Thread
      <4> QED
        BY <1>3, <3>1, <4>1 DEF Alive
    <3>4. Settled'
      BY <3>1, <3>2 DEF Settled
    <3> QED
      BY <1>1, <3>1, <3>3, <3>4, SettledKeepsNews
  <2>4. CASE TakeRestarted(n)
    <3>1. /\ thread[n].life = "dead" /\ thread' = [thread EXCEPT ![n] = AgainConnecting(n)]
          /\ UNCHANGED <<socketProcess, disconnecting, destroying, status, promise>>
      BY <2>4 DEF TakeRestarted, atemVars, promiseVars
    <3>2. n = socketProcess /\ socketProcess # 0
      BY <1>3, <3>1 DEF Alive
    <3>3. Settled /\ ~disconnecting
      BY <3>1, <3>2 DEF NewsInv
    <3>4. Settled' /\ Pending' \subseteq stray' /\ status' # "CONNECTED"
      BY <2>1, <3>1, <3>3 DEF Settled, Pending
    <3>5. thread'[n].child = Fresh /\ thread'[n].outbox = <<>> /\ thread'[n].life = "running"
      BY <1>1, <3>1, AgainEffect
    <3>6. Informed(thread'[n], FALSE, Pending', stray', FALSE)
      BY <3>4, <3>5, FreshInforms
    <3>7. (status' = "CONNECTED") = FALSE /\ disconnecting' = FALSE
      BY <3>1, <3>3, <3>4 DEF TypesInv, ParentTypes
    <3>8. Informed(thread'[n], status' = "CONNECTED", Pending', stray', disconnecting')
      BY <3>6, <3>7
    <3> QED
      BY <1>1, <3>1, <3>2, <3>4, <3>7, <3>8, KnownIsInformed
  <2> QED
    BY <1>9, <2>2, <2>3, <2>4 DEF ParentTakes, TakesMessage
<1>10. CASE FinishDestroy
  <2>1. /\ destroying = "waiting" /\ ~disconnecting /\ socketProcess' = 0
        /\ UNCHANGED <<disconnecting, status, stray>>
        /\ promise' = promise \/ \E ids : Become(ids, "sending", "failed")
    BY <1>10 DEF FinishDestroy, DestroyGoesOn, atemVars
  <2>2. Pending' = Pending
    BY <2>1 DEF Pending, Become
  <2>3. Settled'
    BY <2>1, <2>2 DEF NewsInv, Settled
  <2>4. \A n \in Threads : thread'[n].life # "running"
    BY <1>1, <1>2, <2>1 DEF OneThread, Alive
  <2> QED
    BY <1>1, <2>1, <2>3, <2>4, SettledKeepsNews
<1>11. ASSUME NEW n \in Threads, ChildRuns(n) \/ DeviceStep(n)
       PROVE  NewsInv'
  <2>1. /\ UNCHANGED <<socketProcess, disconnecting, destroying, status, promise>>
        /\ stray \subseteq stray'
    BY <1>11 DEF ChildRuns, DeviceStep, atemVars, promiseVars, socketVars, TakeConnect,
       TakeDisconnectCall, TakeSend, TakeAnswer, CloseSocket, Redial
  <2>2. thread[n].life = "running" /\ thread'[n].life = "running"
    BY <1>1, <1>11, WorkEffect DEF Works, RunsOn, Runs, TypesInv, ParentTypes
  <2>3. n = socketProcess /\ socketProcess # 0
    BY <1>3, <2>2 DEF Alive
  <2>4. Informed(thread[n], status = "CONNECTED", Pending, stray, disconnecting)
    BY <2>2 DEF NewsInv
  <2>5. Informed(thread'[n], status' = "CONNECTED", Pending', stray', disconnecting')
    BY <1>11, <2>4, WorkInforms
  <2>6. Settled => Settled'
    BY <2>1 DEF Settled, Pending
  <2>7. destroying' = "waiting" => disconnecting' \/ Settled'
    BY <2>1, <2>6 DEF NewsInv
  <2> QED
    BY <1>1, <2>1, <2>2, <2>3, <2>5, <2>7, KnownIsInformed
<1>12. ASSUME NEW n \in Threads, Crash(n)
       PROVE  NewsInv'
  <2>1. /\ UNCHANGED <<socketProcess, disconnecting, destroying, status, promise, stray>>
        /\ thread[n].life = "running"
        /\ thread' = [thread EXCEPT ![n] = [NoThread EXCEPT !.life = "closed"]]
    BY <1>12 DEF Crash, Runs, socketVars, atemVars, promiseVars
  <2>2. thread'[n].life = "closed"
    BY <1>1, <2>1, EmptiedEffect DEF Life
  <2>3. n = socketProcess /\ socketProcess # 0
    BY <1>3, <2>1 DEF Alive
  <2>4. Settled => Settled'
    BY <2>1 DEF Settled, Pending
  <2>5. destroying' = "waiting" => disconnecting' \/ Settled'
    BY <2>1, <2>4 DEF NewsInv
  <2> QED
    BY <1>1, <2>1, <2>2, <2>3, <2>5, KnownIsInformed
<1>13. CASE UNCHANGED connectionVars
  BY <1>13 DEF connectionVars, socketVars, atemVars, promiseVars, NewsInv, Settled, Pending
<1> QED
  BY <1>5, <1>6, <1>7, <1>8, <1>9, <1>10, <1>11, <1>12, <1>13 DEF Next, ParentStep

\* A user that waits for its connects never asks for two threads at once.
LEMMA NeverDoubled ==
    ASSUME ~Overlap PROVE Spec => []~doubled
<1>1. Init => ~doubled
  BY DEF Init
<1>2. ~doubled /\ [Next]_connectionVars => ~doubled'
  <2> SUFFICES ASSUME ~doubled, [Next]_connectionVars PROVE ~doubled'
    OBVIOUS
  <2>1. CASE Connect
    BY <2>1, Zenon DEF Connect, CreateThread
  <2>2. CASE Disconnect \/ Destroy
    BY <2>2 DEF Disconnect, Destroy, CallDisconnect
  <2>3. CASE UNCHANGED userVars
    BY <2>3 DEF userVars
  <2>4. CASE \E n \in Threads : ChildRuns(n) \/ Crash(n)
    BY <2>4 DEF ChildRuns, Crash
  <2>5. CASE UNCHANGED connectionVars
    BY <2>3, <2>5 DEF connectionVars
  <2>6. \A n \in Threads : ThreadCreated(n) \/ ParentTakes(n) \/ DeviceStep(n)
                               => UNCHANGED userVars
    BY DEF ThreadCreated, ParentTakes, DeviceStep
  <2>7. SendCommands \/ FinishDestroy => UNCHANGED userVars
    BY DEF SendCommands, FinishDestroy
  <2> QED
    BY <2>1, <2>2, <2>3, <2>4, <2>5, <2>6, <2>7 DEF Next, ParentStep
<1> QED
  BY <1>1, <1>2, PTL DEF Spec

\* Under a parent that is fast, and a user that waits for its calls, the news is always
\* right.
LEMMA NewsIsAlwaysTold ==
    ASSUME ~SlowParent, ~Overlap PROVE Spec => [](TypesInv /\ ControlInv /\ NewsInv)
<1>1. Init => NewsInv
  <2>1. Init => \A n \in Threads : thread[n].life # "running"
    BY DEF Init, NoThread
  <2> QED
    BY <2>1 DEF Init, NewsInv, Settled, Pending
<1>2. TypesInv /\ ControlInv /\ NewsInv /\ ~doubled' /\ [Next]_connectionVars => NewsInv'
  BY NewsStep
<1>3. Spec => []NewsInv
  BY <1>1, <1>2, AlwaysInControl, NeverDoubled, PTL DEF Spec
<1> QED
  BY <1>3, AlwaysInControl, NeverDoubled, PTL

\* The end of a session is told by a report, or by the death of the thread.
LEMMA EndIsNews ==
    ASSUME NEW n \in Threads, Ended(thread[n])
    PROVE  NewsOfEnd(n)
  BY DEF Ended, Elements, NewsOfEnd, UnderWay, DisconnectReport

\* While the parent says CONNECTED, the child is in a session that delivered its whole
\* initial state, or news of its end is under way (atem.ts:140-146, 290-292,
\* atemSocket.ts:131-173).  It needs messages between threads that are faster than the
\* network: the rest of a restart that resumes after the next session began drops it
\* without a word.  And a user that does not connect while a call is unfinished, who may
\* ask for two threads at once.
THEOREM StatusIsAlwaysCurrent ==
    ASSUME ~SlowParent, ~Overlap PROVE Spec => []StatusIsCurrent
<1>1. TypesInv /\ NewsInv => StatusIsCurrent
  <2> SUFFICES ASSUME TypesInv, NewsInv, status = "CONNECTED"
               PROVE  \E n \in Threads : \/ /\ Runs(n) /\ thread[n].child.state = "Established"
                                            /\ thread[n].dump = 2
                                         \/ NewsOfEnd(n)
    BY DEF StatusIsCurrent
  <2>1. /\ socketProcess \in Threads
        /\ thread[socketProcess].life \in {"running", "closed"}
    BY DEF NewsInv, Settled, TypesInv, ParentTypes, Threads
  <2>2. CASE thread[socketProcess].life = "closed"
    BY <2>1, <2>2 DEF NewsOfEnd
  <2>3. CASE thread[socketProcess].life = "running"
    <3>1. ~Ended(thread[socketProcess]) => HasAll(thread[socketProcess])
      BY <2>1, <2>3 DEF NewsInv, Informed, TellsStatus
    <3> QED
      BY <2>1, <2>3, <3>1, EndIsNews DEF HasAll, NewsOfEnd, Runs
  <2> QED
    BY <2>1, <2>2, <2>3
<1> QED
  BY <1>1, NewsIsAlwaysTold, PTL

\* A promise that waits is waited for by someone: its packet is in flight, or the
\* acknowledgement or the end of the session is reported; excepted are the packets a child
\* got without a session (atem.ts:202-219, atemSocket.ts:124-128,
\* atemSocketChild.ts:147-150).  Threads and user are those of StatusIsAlwaysCurrent.
THEOREM PendingIsAlwaysCarried ==
    ASSUME ~SlowParent, ~Overlap PROVE Spec => []PendingIsCarried
<1>1. TypesInv /\ NewsInv => PendingIsCarried
  <2> SUFFICES ASSUME TypesInv, NewsInv, NEW p \in Pending \ stray
               PROVE  \E n \in Threads :
                         \/ p \in thread[n].child.inFlight
                         \/ NewsOfEnd(n)
                         \/ \E i \in DOMAIN thread[n].outbox :
                               /\ thread[n].outbox[i].type = "acknowledged"
                               /\ p \in thread[n].outbox[i].ids
    BY DEF PendingIsCarried
  <2> DEFINE k == socketProcess
  <2>1. /\ k \in Threads /\ thread[k].life \in {"running", "closed"}
        /\ p \in Packets \ stray
    BY DEF NewsInv, Settled, TypesInv, ParentTypes, Threads, Pending
  <2>2. CASE thread[k].life = "closed"
    BY <2>1, <2>2 DEF NewsOfEnd
  <2>3. CASE thread[k].life = "running"
    <3>1. TellsPacket(thread[k], p, p \in Pending)
      BY <2>1, <2>3 DEF NewsInv, Informed
    <3>2. Ended(thread[k]) \/ Carries(thread[k], p)
      BY <3>1 DEF TellsPacket
    <3>3. AckedLater(thread[k].outbox, p) =>
             \E i \in DOMAIN thread[k].outbox : /\ thread[k].outbox[i].type = "acknowledged"
                                                /\ p \in thread[k].outbox[i].ids
      <4> SUFFICES ASSUME AckedLater(thread[k].outbox, p)
                   PROVE  \E i \in DOMAIN thread[k].outbox :
                             /\ thread[k].outbox[i].type = "acknowledged"
                             /\ p \in thread[k].outbox[i].ids
        OBVIOUS
      <4>1. PICK ids \in SUBSET Packets :
               /\ p \in ids
               /\ ComesAfter(thread[k].outbox, WithIds("acknowledged", ids),
                             WithIds("sent", {p}))
        BY DEF AckedLater
      <4>2. PICK i \in 1 .. Len(thread[k].outbox) :
               thread[k].outbox[i] = WithIds("acknowledged", ids)
        BY <4>1 DEF ComesAfter
      <4>3. thread[k].outbox \in Seq(Reports)
        BY <2>1 DEF TypesInv, ThreadsInv, Thread
      <4>4. i \in DOMAIN thread[k].outbox
        BY <4>2, <4>3, LenProperties
      <4> QED
        BY <4>1, <4>2, <4>4 DEF WithIds
    <3> QED
      BY <2>1, <3>2, <3>3, EndIsNews DEF Carries, NewsOfEnd
  <2> QED
    BY <2>1, <2>2, <2>3
<1> QED
  BY <1>1, NewsIsAlwaysTold, PTL
=============================================================================
