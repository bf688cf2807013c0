---------------------------- MODULE MediaPoolProofs ----------------------------
(***************************************************************************)
(* Proofs about a queue of transfers in the media pool (MediaPool,         *)
(* DataTransferQueue): the promise of a transfer settles once, no transfer *)
(* is dropped with its promise pending, and one whose lock is lost is      *)
(* aborted.                                                                *)
(*                                                                         *)
(* The inductive invariant is InOrder.  Its part Good relates the active   *)
(* transfer, the tasks, the handlers and the promises; its part Numbered   *)
(* says which numbers the active transfer and the running handler may      *)
(* have, relative to the next one given out: a handler that has awaited    *)
(* finds its transfer by the number alone (dataTransferQueue.ts:187-197),  *)
(* so that a number given out twice meanwhile would hand one transfer's    *)
(* result to another.                                                      *)
(*                                                                         *)
(* Each operator of DataTransferQueue has a lemma that it keeps Good, is   *)
(* Faithful, and keeps Numbered; an action of the event loop composes      *)
(* them as the code's methods call each other.                             *)
(***************************************************************************)
EXTENDS MediaPool, TLAPS

-----------------------------------------------------------------------------
(* Sequences of handlers *)

IsSequence(s) == \E S : s \in Seq(S)
Holds(s, e) == \E i \in DOMAIN s : s[i] = e

\* An element is held by a longer sequence if it was before or is the one added.
LEMMA AppendHolds ==
    ASSUME NEW s, NEW e, IsSequence(s)
    PROVE  /\ IsSequence(Append(s, e))
           /\ \A x : Holds(Append(s, e), x) <=> Holds(s, x) \/ x = e
<1>1. PICK S : s \in Seq(S)
  BY DEF IsSequence
<1> DEFINE T == S \union {e}
<1>2. s \in Seq(T) /\ e \in T
  BY <1>1
<1> HIDE DEF T
<1>3. Append(s, e) \in Seq(T)
  BY <1>2
<1>4. /\ Len(s) \in Nat /\ DOMAIN s = 1 .. Len(s)
      /\ DOMAIN Append(s, e) = 1 .. Len(s) + 1
      /\ \A i \in 1 .. Len(s) : Append(s, e)[i] = s[i]
      /\ Append(s, e)[Len(s) + 1] = e
  BY <1>2, <1>3
<1>5. ASSUME NEW x
      PROVE  Holds(Append(s, e), x) <=> Holds(s, x) \/ x = e
  <2>1. ASSUME Holds(Append(s, e), x) PROVE Holds(s, x) \/ x = e
    BY <1>4, <2>1 DEF Holds
  <2>2. ASSUME Holds(s, x) PROVE Holds(Append(s, e), x)
    BY <1>4, <2>2 DEF Holds
  <2>3. Holds(Append(s, e), e)
    BY <1>4 DEF Holds
  <2> QED
    BY <2>1, <2>2, <2>3
<1> QED
  BY <1>3, <1>5 DEF IsSequence

\* What a sequence holds is its head or held by the rest.
LEMMA TailHolds ==
    ASSUME NEW s, IsSequence(s), s # <<>>
    PROVE  /\ IsSequence(Tail(s))
           /\ \A x : Holds(s, x) <=> x = Head(s) \/ Holds(Tail(s), x)
<1>1. PICK S : s \in Seq(S)
  BY DEF IsSequence
<1>2. Tail(s) \in Seq(S)
  BY <1>1
<1>3. /\ Len(s) \in Nat /\ Len(s) # 0 /\ DOMAIN s = 1 .. Len(s) /\ Head(s) = s[1]
      /\ DOMAIN Tail(s) = 1 .. Len(s) - 1
      /\ \A i \in 1 .. Len(s) - 1 : Tail(s)[i] = s[i + 1]
  BY <1>1, <1>2
<1>4. ASSUME NEW x
      PROVE  Holds(s, x) <=> x = Head(s) \/ Holds(Tail(s), x)
  <2>1. ASSUME NEW i \in DOMAIN s, s[i] = x PROVE x = Head(s) \/ Holds(Tail(s), x)
    <3>1. CASE i = 1
      BY <1>3, <2>1, <3>1
    <3>2. CASE i # 1
      <4>1. i - 1 \in 1 .. Len(s) - 1 /\ (i - 1) + 1 = i
        BY <1>3, <2>1, <3>2
      <4> QED
        BY <1>3, <2>1, <4>1 DEF Holds
    <3> QED
      BY <3>1, <3>2
  <2>2. ASSUME NEW i \in DOMAIN Tail(s), Tail(s)[i] = x PROVE Holds(s, x)
    <3>1. i + 1 \in 1 .. Len(s) /\ s[i + 1] = x
      BY <1>3, <2>2
    <3> QED
      BY <1>3, <3>1 DEF Holds
  <2>3. Holds(s, Head(s))
    BY <1>3 DEF Holds
  <2> QED
    BY <2>1, <2>2, <2>3 DEF Holds
<1> QED
  BY <1>2, <1>4 DEF IsSequence

\* The empty sequence and one of a single element.
LEMMA ShortHolds ==
    /\ IsSequence(<<>>) /\ \A x : ~Holds(<<>>, x)
    /\ \A e : IsSequence(<<e>>) /\ \A x : Holds(<<e>>, x) <=> x = e
<1>1. <<>> \in Seq({}) /\ DOMAIN <<>> = {}
  OBVIOUS
<1>2. ASSUME NEW e
      PROVE  /\ <<e>> \in Seq({e})
             /\ \A x : Holds(<<e>>, x) <=> x = e
  BY DEF Holds
<1> QED
  BY <1>1, <1>2 DEF Holds, IsSequence

-----------------------------------------------------------------------------
(* The state of a queue *)

IsTransfer(x) ==
    /\ DOMAIN x = {"moved", "numFrames", "promise"}
    /\ x.promise \in {"pending", "resolved", "rejected"}

IsQueue(q) ==
    /\ DOMAIN q = {"tasks", "active", "isLocked", "urgent", "waiting", "running", "nextId",
                   "lockCommands", "fields"}
    /\ q.tasks \in Seq(Transfers)
    /\ DOMAIN q.active = {"id", "of", "state", "queuedCommands"}
    /\ q.active.of \in Transfers \union {NoTransfer}
    /\ DOMAIN q.fields = Transfers
    /\ \A t \in Transfers : IsTransfer(q.fields[t])

Handlers(q) ==
    /\ IsSequence(q.urgent) /\ IsSequence(q.waiting)
    /\ \A h : Holds(q.urgent, h) => h = Start \/ \E id : h = AbortOf(id)
    /\ \A h : Holds(q.waiting, h) => \E command : h = Handle(command)
    /\ q.running.wait \in {"idle", "return", "store", "firstFrame", "nextFrame"}
    /\ q.running.wait = "idle" => q.running = Idle

Settled(q, t) == q.fields[t].promise # "pending"
Held(q, t) == q.active.of = t \/ Holds(q.tasks, t)

\* A transfer that was begun is settled, active or to be run again.
Kept(q) == \A t \in Transfers : q.fields[t] # NewTransfer /\ ~Settled(q, t) => Held(q, t)

FinishedIsSettled(q) ==
    IsActive(q) /\ q.active.state = "Finished" => Settled(q, q.active.of)

StoreIsSettled(q) ==
    /\ q.running.wait = "store" /\ q.running.result.newState = "Finished"
    /\ IsActive(q) /\ q.active.id = q.running.id
    => Settled(q, q.active.of)

OwnFrame(q) ==
    q.running.wait \in {"firstFrame", "nextFrame"} =>
        /\ q.running.of \in Transfers /\ Kind[q.running.of] = "clip"
        /\ IsActive(q) /\ q.active.id = q.running.id => q.active.of = q.running.of
        /\ q.active.of = q.running.of \/ Settled(q, q.running.of)

Begun(q) == /\ IsQueue(q) /\ Handlers(q) /\ Kept(q) /\ FinishedIsSettled(q)
            /\ StoreIsSettled(q) /\ OwnFrame(q)

LosesFile(q) ==
    Locking /\ ~q.isLocked /\ IsActive(q) /\ Kind[q.active.of] # "clip" =>
        \/ Holds(q.urgent, AbortOf(q.active.id))
        \/ /\ q.active.state = "Pending"
           /\ q.running.wait = "store" /\ q.running.id = q.active.id =>
                  q.running.result.newState = "Pending"

Good(q) == Begun(q) /\ LosesFile(q)

\* What the running handler waits for will be stored under a number that is not given
\* out again meanwhile.
Waits(q) == q.running.wait \in {"store", "firstFrame", "nextFrame"}
IdIsFree(q) == Waits(q) => q.running.id # q.nextId

\* From one state to a later one.
Faithful(q, r) ==
    \A t \in Transfers :
        /\ Settled(q, t) => r.fields[t].promise = q.fields[t].promise
        /\ Held(q, t) => Held(r, t) \/ Settled(r, t)

\* Two faithful steps are one.
LEMMA FaithfulSteps ==
    ASSUME NEW q, NEW r, NEW s, Faithful(q, r), Faithful(r, s)
    PROVE  Faithful(q, s)
BY DEF Faithful, Settled

-----------------------------------------------------------------------------
\* The head of the tasks becomes the active transfer, and only its start is to be handled.
LEMMA DequeueEffect ==
    ASSUME NEW q, IsQueue(q), ~IsActive(q), q.tasks # <<>>
    PROVE  LET r == DequeueAndRun(q)
           IN  /\ Head(q.tasks) \in Transfers /\ Tail(q.tasks) \in Seq(Transfers)
               /\ DOMAIN r = DOMAIN q /\ r.tasks = Tail(q.tasks) /\ r.isLocked = q.isLocked
               /\ DOMAIN r.active = DOMAIN q.active
               /\ r.active.id = q.nextId /\ r.active.of = Head(q.tasks)
               /\ r.active.state = "Pending"
               /\ r.urgent = <<Start>> /\ r.waiting = <<>> /\ r.running = q.running
               /\ r.fields = q.fields
               /\ r.nextId = IF q.nextId + 1 > MaxTransferIndex THEN 0 ELSE q.nextId + 1
<1> DEFINE r == DequeueAndRun(q)
           x == [id |-> q.nextId, of |-> Head(q.tasks), state |-> "Pending",
                 queuedCommands |-> <<>>]
           c == [ClearHandlers(TakeId(q)) EXCEPT !.tasks = Tail(@), !.active = x]
<1>1. Head(q.tasks) \in Transfers /\ Tail(q.tasks) \in Seq(Transfers) /\ Head(q.tasks) # NoTransfer
  BY TransfersAssumption DEF IsQueue
<1>2. DOMAIN q.active = DOMAIN x
  BY DEF IsQueue
<1>3. r = TryStartTransfer(c)
  BY DEF DequeueAndRun
<1> HIDE DEF r
<1>4. x.id = q.nextId /\ x.of = Head(q.tasks) /\ x.state = "Pending"
  OBVIOUS
<1> HIDE DEF x
<1>5. /\ DOMAIN c = DOMAIN q /\ c.tasks = Tail(q.tasks) /\ c.isLocked = q.isLocked
      /\ c.active = x
      /\ c.urgent = <<>> /\ c.waiting = <<>> /\ c.running = q.running
      /\ c.fields = q.fields
      /\ c.nextId = IF q.nextId + 1 > MaxTransferIndex THEN 0 ELSE q.nextId + 1
  BY DEF ClearHandlers, TakeId, IsQueue
<1> HIDE DEF c
<1>6. IsActive(c)
  BY <1>1, <1>4, <1>5 DEF IsActive
<1>7. /\ DOMAIN r = DOMAIN q /\ r.tasks = Tail(q.tasks) /\ r.isLocked = q.isLocked
      /\ r.active = x
      /\ r.urgent = <<Start>> /\ r.waiting = <<>> /\ r.running = q.running
      /\ r.fields = q.fields /\ r.nextId = c.nextId
  BY <1>3, <1>5, <1>6 DEF TryStartTransfer, AddUrgent, IsQueue
<1> QED
  BY <1>1, <1>2, <1>4, <1>5, <1>7 DEF r

\* The next transfer begins: nothing is dropped, and the result a handler still waits to
\* store is not taken for its own.
LEMMA DequeueGood ==
    ASSUME NEW q, Begun(q), LosesFile(q), IdIsFree(q)
    PROVE  Good(DequeueAndRun(q)) /\ Faithful(q, DequeueAndRun(q))
<1> DEFINE r == DequeueAndRun(q)
<1>1. CASE IsActive(q) \/ q.tasks = <<>>
  BY <1>1 DEF DequeueAndRun, Good, Faithful
<1>2. CASE ~IsActive(q) /\ q.tasks # <<>>
  <2>1. \A t : Holds(q.tasks, t) <=> t = Head(q.tasks) \/ Holds(Tail(q.tasks), t)
    BY <1>2, TailHolds DEF Begun, IsQueue, IsSequence
  <2>2. /\ Head(q.tasks) \in Transfers /\ Tail(q.tasks) \in Seq(Transfers)
        /\ DOMAIN r = DOMAIN q /\ r.tasks = Tail(q.tasks) /\ r.isLocked = q.isLocked
        /\ DOMAIN r.active = DOMAIN q.active
        /\ r.active.id = q.nextId /\ r.active.of = Head(q.tasks) /\ r.active.state = "Pending"
        /\ r.urgent = <<Start>> /\ r.waiting = <<>> /\ r.running = q.running
        /\ r.fields = q.fields
    BY <1>2, DequeueEffect DEF Begun
  <2> HIDE DEF r
  <2>7. IsQueue(r)
    BY <2>2 DEF Begun, IsQueue
  <2>8. Handlers(r)
    BY <2>2, ShortHolds DEF Begun, Handlers
  <2> DEFINE next == Head(q.tasks)
  <2>9. /\ q.active.of = NoTransfer /\ r.active.of = next /\ next \in Transfers
        /\ r.active.id = q.nextId /\ r.active.state = "Pending"
    BY <1>2, <2>2 DEF IsActive
  <2> HIDE DEF next
  <2>10. \A t : Holds(q.tasks, t) <=> t = next \/ Holds(r.tasks, t)
    BY <2>1, <2>2 DEF next
  <2>11. /\ r.running = q.running /\ r.fields = q.fields /\ r.isLocked = q.isLocked
         /\ NoTransfer \notin Transfers
    BY <2>2, TransfersAssumption
  <2>12. Faithful(q, r) /\ Kept(r)
    BY <2>9, <2>10, <2>11 DEF Begun, Faithful, Kept, Held, Settled
  <2>13. FinishedIsSettled(r) /\ StoreIsSettled(r)
    BY <2>9, <2>11 DEF FinishedIsSettled, StoreIsSettled, IdIsFree, Waits
  <2>14. OwnFrame(r)
    BY <2>9, <2>11 DEF OwnFrame, IdIsFree, Waits, Begun, Settled
  <2>15. LosesFile(r)
    BY <2>9, <2>11 DEF LosesFile, IdIsFree, Waits
  <2> QED
    BY <2>7, <2>8, <2>12, <2>13, <2>14, <2>15 DEF r, Good, Begun
<1> QED
  BY <1>1, <1>2

\* Ending the active transfer, whose promise has settled, begins the next one.
LEMMA EndGood ==
    ASSUME NEW q, Begun(q), IdIsFree(q), IsActive(q), Settled(q, q.active.of)
    PROVE  Good(EndActive(q)) /\ Faithful(q, EndActive(q))
<1> DEFINE r == [TransferCompleted(q) EXCEPT !.active = NoActive]
<1>1. /\ DOMAIN r = DOMAIN q /\ r.active = NoActive
      /\ \A f \in {"tasks", "urgent", "waiting", "running", "nextId", "fields"} : r[f] = q[f]
  BY DEF TransferCompleted, SendLock, Begun, IsQueue
<1>2. EndActive(q) = DequeueAndRun(r)
  BY DEF EndActive
<1> HIDE DEF r
<1>3. /\ r.tasks = q.tasks /\ r.urgent = q.urgent /\ r.waiting = q.waiting /\ r.running = q.running
      /\ r.nextId = q.nextId /\ r.fields = q.fields /\ r.active = NoActive
      /\ r.active.of = NoTransfer /\ NoTransfer \notin Transfers /\ ~IsActive(r)
  BY <1>1, TransfersAssumption DEF IsActive, NoActive
<1>4. IsQueue(r) /\ Handlers(r)
  BY <1>1, <1>3 DEF Begun, IsQueue, Handlers, NoActive
<1>5. Faithful(q, r)
  BY <1>3 DEF Faithful, Held, Settled
<1>6. Kept(r)
  BY <1>3 DEF Begun, Kept, Held, Settled
<1>7. FinishedIsSettled(r) /\ StoreIsSettled(r) /\ LosesFile(r)
  BY <1>3 DEF FinishedIsSettled, StoreIsSettled, LosesFile
<1>8. OwnFrame(r)
  BY <1>3 DEF Begun, OwnFrame, Settled
<1>9. Begun(r) /\ IdIsFree(r)
  BY <1>3, <1>4, <1>6, <1>7, <1>8 DEF Begun, IdIsFree, Waits
<1>10. Good(DequeueAndRun(r)) /\ Faithful(r, DequeueAndRun(r))
  BY <1>7, <1>9, DequeueGood
<1> QED
  BY <1>2, <1>5, <1>10, FaithfulSteps

-----------------------------------------------------------------------------
(* The handlers *)

\* What a transfer answers to a command: its promise settles once, and has settled when
\* the transfer reports that it is finished.
LEMMA AnswerSettles ==
    ASSUME NEW t \in Transfers, NEW x, NEW command, NEW oldState, IsTransfer(x),
           oldState = "Finished" => x.promise # "pending"
    PROVE  LET result == HandleCommand(t, x, command, oldState)
           IN  /\ IsTransfer(result.fields)
               /\ x.promise # "pending" => result.fields.promise = x.promise
               /\ result.newState = "Finished" => result.fields.promise # "pending"
               /\ result.frameDone => Kind[t] = "clip"
<1> DEFINE Answer(r) ==
        /\ DOMAIN r = {"fields", "newState", "commands", "frameDone"}
        /\ IsTransfer(r.fields)
        /\ x.promise # "pending" => r.fields.promise = x.promise
        /\ r.newState = "Finished" => r.fields.promise # "pending"
        /\ r.frameDone = FALSE
<1>1. ASSUME NEW y, IsTransfer(y), NEW outcome \in {"resolved", "rejected"}
      PROVE  /\ IsTransfer(Settle(y, outcome)) /\ Settle(y, outcome).promise # "pending"
             /\ y.promise # "pending" => Settle(y, outcome).promise = y.promise
  BY <1>1 DEF Settle, IsTransfer
<1>2. Answer(HandleError(t, x, command))
  <2>1. CASE command.code = "Retry"
    BY <2>1 DEF HandleError, StartBuffer, Progress
  <2>2. CASE command.code # "Retry"
    BY <1>1, <2>2 DEF HandleError, Abort, Progress
  <2> QED
    BY <2>1, <2>2
<1>3. Answer(Progress(x, oldState, <<>>))
  BY DEF Progress
<1>4. Answer(Progress(Settle(x, "resolved"), "Finished", <<>>))
  BY <1>1 DEF Progress
<1>5. Answer(Continue(t, x, command, oldState))
  BY DEF Continue, Progress, IsTransfer
<1>6. Answer(Complete(x, oldState))
  BY <1>3, <1>4 DEF Complete
<1>7. Answer(Receive(x, command, oldState))
  <2> DEFINE y == [x EXCEPT !.moved = @ + 1]
  <2>1. IsTransfer(y) /\ y.promise = x.promise
    BY DEF IsTransfer
  <2> HIDE DEF y
  <2>2. Answer(Progress(Abort(y), "Finished", <<>>)) /\ Answer(Progress(y, oldState, <<DataAck(command.id)>>))
    BY <1>1, <2>1 DEF Progress, Abort
  <2> QED
    BY <2>2 DEF Receive, y
<1>8. Answer(HandleUpload(t, x, command, oldState))
  BY <1>2, <1>3, <1>5, <1>6 DEF HandleUpload
<1>9. Answer(HandleDownload(t, x, command, oldState))
  BY <1>2, <1>3, <1>4, <1>7 DEF HandleDownload
<1>10. CASE Kind[t] = "upload"
  BY <1>8, <1>10 DEF HandleCommand
<1>11. CASE Kind[t] = "download"
  BY <1>9, <1>11 DEF HandleCommand
<1>12. CASE Kind[t] = "clip"
  <2> DEFINE frame == HandleUpload(t, x, command, oldState)
  <2>1. IsTransfer(frame.fields)
    BY <1>8
  <2> HIDE DEF frame
  <2> DEFINE y == [frame.fields EXCEPT !.promise = x.promise]
  <2>2. IsTransfer(y) /\ y.promise = x.promise
    BY <2>1 DEF IsTransfer
  <2>3. HandleCommand(t, x, command, oldState).fields = y
    BY <1>12 DEF HandleCommand, HandleFrame, frame
  <2>4. HandleCommand(t, x, command, oldState).newState = "Transferring"
    BY <1>12 DEF HandleCommand, HandleFrame
  <2> QED
    BY <1>12, <2>2, <2>3, <2>4
<1> QED
  BY <1>10, <1>11, <1>12, TransfersAssumption

\* The same queue, but for what its handler waits for and the lock commands.
SameTransfers(q, r) ==
    /\ DOMAIN r = DOMAIN q /\ r.tasks = q.tasks /\ r.active = q.active /\ r.fields = q.fields
    /\ r.nextId = q.nextId
    /\ r.urgent = q.urgent /\ r.waiting = q.waiting /\ r.isLocked = q.isLocked

\* Another wait of the handler changes no transfer.
LEMMA HandlerGood ==
    ASSUME NEW q, NEW r, Begun(q), SameTransfers(q, r),
           r.running.wait \in {"idle", "return", "store", "firstFrame", "nextFrame"},
           r.running.wait = "idle" => r.running = Idle,
           StoreIsSettled(r), OwnFrame(r)
    PROVE  Begun(r) /\ Faithful(q, r)
<1>1. IsQueue(r) /\ Handlers(r)
  BY DEF SameTransfers, Begun, IsQueue, Handlers
<1>2. Faithful(q, r) /\ Kept(r)
  BY DEF SameTransfers, Begun, Faithful, Kept, Held, Settled
<1>3. FinishedIsSettled(r)
  BY DEF SameTransfers, Begun, FinishedIsSettled, IsActive, Settled
<1> QED
  BY <1>1, <1>2, <1>3 DEF Begun

\* A handler that waits for its turn only, or for none.
LEMMA TurnGood ==
    ASSUME NEW q, NEW h \in {Idle, Returning}, Begun(q)
    PROVE  LET r == [q EXCEPT !.running = h]
           IN  /\ Begun(r) /\ Faithful(q, r) /\ SameTransfers(q, r)
               /\ r.running = h
               /\ LosesFile(q) => LosesFile(r)
<1> DEFINE r == [q EXCEPT !.running = h]
<1>1. SameTransfers(q, r) /\ r.running = h
  BY DEF SameTransfers, Begun, IsQueue
<1> HIDE DEF r
<1>2. h.wait \in {"idle", "return"} /\ (h.wait = "idle" => h = Idle)
  BY DEF Idle, Returning
<1>3. StoreIsSettled(r) /\ OwnFrame(r)
  BY <1>1, <1>2 DEF StoreIsSettled, OwnFrame
<1>4. Begun(r) /\ Faithful(q, r)
  BY <1>1, <1>2, <1>3, HandlerGood
<1>5. LosesFile(q) => LosesFile(r)
  BY <1>1, <1>2 DEF LosesFile, SameTransfers, IsActive
<1> QED
  BY <1>1, <1>4, <1>5 DEF r

\* start, up to its first await.
LEMMA BeginStartGood ==
    ASSUME NEW q, Begun(q), LosesFile(q), q.running = Idle
    PROVE  Good(BeginStart(q)) /\ Faithful(q, BeginStart(q))
<1> DEFINE t == q.active.of
           r == BeginStart(q)
<1>1. CASE ~IsActive(q) \/ q.active.state # "Pending"
  <2>1. r = [q EXCEPT !.running = Returning]
    BY <1>1 DEF BeginStart
  <2> QED
    BY <2>1, TurnGood DEF Good
<1>2. CASE IsActive(q) /\ q.active.state = "Pending" /\ Locking /\ ~q.isLocked
  <2> DEFINE x == Progress(Active(q), "Pending", <<>>)
  <2>1. r = [SendLock(q, TRUE) EXCEPT !.running = Storing(q, x)]
    BY <1>2 DEF BeginStart
  <2>2. x.newState = "Pending"
    BY DEF Progress
  <2> HIDE DEF r, x
  <2>3. SameTransfers(q, r) /\ r.running = Storing(q, x)
    BY <2>1 DEF SameTransfers, SendLock, Begun, IsQueue
  <2>4. r.running.wait = "store" /\ r.running.result = x
    BY <2>3 DEF Storing
  <2>5. StoreIsSettled(r) /\ OwnFrame(r)
    BY <2>2, <2>4 DEF StoreIsSettled, OwnFrame
  <2>6. LosesFile(r)
    BY <1>2, <2>2, <2>3, <2>4 DEF LosesFile, SameTransfers
  <2> QED
    BY <2>3, <2>4, <2>5, <2>6, HandlerGood DEF Good, r
<1>3. CASE IsActive(q) /\ q.active.state = "Pending" /\ ~(Locking /\ ~q.isLocked) /\ Kind[t] = "clip"
  <2>1. r = [q EXCEPT !.running = FirstFrame(q)]
    BY <1>3 DEF BeginStart
  <2> HIDE DEF r
  <2>2. SameTransfers(q, r) /\ r.running = FirstFrame(q)
    BY <2>1 DEF SameTransfers, Begun, IsQueue
  <2>3. r.running.wait = "firstFrame" /\ r.running.of = q.active.of
    BY <2>2 DEF FirstFrame
  <2>4. StoreIsSettled(r) /\ OwnFrame(r)
    BY <1>3, <2>2, <2>3 DEF StoreIsSettled, OwnFrame, SameTransfers, IsActive, Begun, IsQueue
  <2>5. LosesFile(r)
    BY <1>3, <2>2 DEF LosesFile, SameTransfers
  <2> QED
    BY <2>2, <2>3, <2>4, <2>5, HandlerGood DEF Good, r
<1>4. CASE IsActive(q) /\ q.active.state = "Pending" /\ ~(Locking /\ ~q.isLocked) /\ Kind[t] # "clip"
  <2> DEFINE x == StartBuffer(t, Active(q), q.active.id)
  <2>1. r = [q EXCEPT !.running = Storing(q, x)]
    BY <1>4 DEF BeginStart
  <2>2. x.newState = "Ready"
    BY DEF Progress, StartBuffer
  <2> HIDE DEF r, x
  <2>3. SameTransfers(q, r) /\ r.running = Storing(q, x)
    BY <2>1 DEF SameTransfers, Begun, IsQueue
  <2>4. r.running.wait = "store" /\ r.running.result = x
    BY <2>3 DEF Storing
  <2>5. StoreIsSettled(r) /\ OwnFrame(r)
    BY <2>2, <2>4 DEF StoreIsSettled, OwnFrame
  <2>6. LosesFile(r)
    BY <1>4, <2>3 DEF LosesFile, SameTransfers
  <2> QED
    BY <2>3, <2>4, <2>5, <2>6, HandlerGood DEF Good, r
<1> QED
  BY <1>1, <1>2, <1>3, <1>4

\* abort of one transfer: it settles and ends, unless another is active by now.
LEMMA BeginAbortGood ==
    ASSUME NEW q, NEW id, Begun(q), q.running = Idle,
           q.active.id # id => LosesFile(q)
    PROVE  Good(BeginAbort(q, id)) /\ Faithful(q, BeginAbort(q, id))
<1> DEFINE r == [q EXCEPT !.running = Returning]
<1>1. /\ Begun(r) /\ Faithful(q, r) /\ SameTransfers(q, r) /\ r.running = Returning
      /\ LosesFile(q) => LosesFile(r)
  BY TurnGood
<1> HIDE DEF r
<1>2. CASE ~(IsActive(q) /\ q.active.id = id)
  <2>1. BeginAbort(q, id) = r
    BY <1>2 DEF BeginAbort, r
  <2>2. LosesFile(r)
    BY <1>1, <1>2 DEF LosesFile, SameTransfers, IsActive
  <2> QED
    BY <1>1, <2>1, <2>2 DEF Good
<1>3. CASE IsActive(q) /\ q.active.id = id
  <2> DEFINE s == AbortActive(r)
             t == q.active.of
  <2>1. BeginAbort(q, id) = EndActive(s)
    BY <1>3 DEF BeginAbort, r
  <2>2. t \in Transfers /\ r.active = q.active /\ IsTransfer(r.fields[t]) /\ IsActive(r)
        /\ t \in DOMAIN r.fields
    BY <1>1, <1>3 DEF SameTransfers, IsActive, Begun, IsQueue
  <2>3. /\ IsTransfer(Abort(r.fields[t])) /\ Abort(r.fields[t]).promise # "pending"
        /\ r.fields[t].promise # "pending" => Abort(r.fields[t]).promise = r.fields[t].promise
    BY <2>2 DEF Abort, Settle, IsTransfer
  <2>4. /\ DOMAIN s = DOMAIN r
        /\ \A f \in {"tasks", "active", "isLocked", "urgent", "waiting", "running", "nextId"} :
               s[f] = r[f]
        /\ DOMAIN s.fields = DOMAIN r.fields
        /\ s.fields[t] = Abort(r.fields[t])
        /\ \A u \in Transfers : u # t => s.fields[u] = r.fields[u]
    BY <1>1, <2>2 DEF AbortActive, Begun, IsQueue
  <2>5. s.tasks = r.tasks /\ s.active = r.active /\ s.urgent = r.urgent /\ s.waiting = r.waiting
        /\ s.running = Returning /\ s.nextId = r.nextId
    BY <1>1, <2>4
  <2> HIDE DEF s, t
  <2>6. IsQueue(s) /\ Handlers(s)
    <3>1. \A u \in Transfers : IsTransfer(s.fields[u])
      BY <1>1, <2>3, <2>4 DEF Begun, IsQueue
    <3> QED
      BY <1>1, <2>4, <2>5, <3>1 DEF Begun, IsQueue, Handlers
  <2>7. Faithful(r, s)
    <3>1. \A u \in Transfers : Settled(r, u) => s.fields[u].promise = r.fields[u].promise
      BY <2>3, <2>4 DEF Settled
    <3>2. \A u \in Transfers : Held(r, u) => Held(s, u)
      BY <2>5 DEF Held
    <3> QED
      BY <3>1, <3>2 DEF Faithful
  <2>8. \A u \in Transfers : Settled(r, u) => Settled(s, u)
    BY <2>7 DEF Faithful, Settled
  <2>9. Kept(s)
    BY <1>1, <2>3, <2>4, <2>5 DEF Begun, Kept, Held, Settled
  <2>10. Settled(s, t) /\ s.active.of = t
    BY <2>2, <2>3, <2>4, <2>5 DEF Settled, t
  <2>11. /\ FinishedIsSettled(s) /\ StoreIsSettled(s) /\ OwnFrame(s) /\ IdIsFree(s)
    BY <2>5, <2>10 DEF FinishedIsSettled, StoreIsSettled, OwnFrame, IdIsFree, Waits, Returning
  <2>12. Begun(s) /\ IsActive(s)
    BY <2>2, <2>5, <2>6, <2>9, <2>11 DEF Begun, IsActive
  <2>13. Good(EndActive(s)) /\ Faithful(s, EndActive(s))
    BY <2>10, <2>11, <2>12, EndGood
  <2>14. Faithful(q, s)
    BY <1>1, <2>7, FaithfulSteps
  <2>15. Faithful(q, EndActive(s))
    BY <2>13, <2>14, FaithfulSteps
  <2> QED
    BY <2>1, <2>13, <2>15
<1> QED
  BY <1>2, <1>3

\* What is active and what is to be run decides which transfers are held.
LEMMA SameHeld ==
    ASSUME NEW q, NEW r, r.tasks = q.tasks, r.active = q.active
    PROVE  \A t : Held(q, t) <=> Held(r, t)
BY DEF Held

\* For that, the number of the active one does not matter.
LEMMA SameHeldOf ==
    ASSUME NEW q, NEW r, r.tasks = q.tasks, r.active.of = q.active.of
    PROVE  \A t : Held(q, t) <=> Held(r, t)
BY DEF Held

\* A change of one transfer that has begun: its promise settles at most.
LEMMA ChangeGood ==
    ASSUME NEW q, NEW r, NEW t \in Transfers, Begun(q),
           DOMAIN r = DOMAIN q, r.tasks = q.tasks, r.active = q.active,
           r.urgent = q.urgent, r.waiting = q.waiting,
           DOMAIN r.fields = DOMAIN q.fields, IsTransfer(r.fields[t]),
           Settled(q, t) => r.fields[t].promise = q.fields[t].promise,
           \A u \in Transfers : u # t => r.fields[u] = q.fields[u],
           Held(q, t) \/ Settled(r, t)
    PROVE  IsQueue(r) /\ Faithful(q, r) /\ Kept(r)
           /\ \A u \in Transfers : Settled(q, u) => Settled(r, u)
<1>1. \A u \in Transfers : IsTransfer(r.fields[u])
  BY DEF Begun, IsQueue
<1>2. IsQueue(r)
  BY <1>1 DEF Begun, IsQueue
<1>3. \A u \in Transfers : Settled(q, u) => r.fields[u].promise = q.fields[u].promise
  BY DEF Settled
<1>4. \A u \in Transfers : Held(q, u) <=> Held(r, u)
  BY SameHeld
<1>5. Kept(r)
  BY <1>3, <1>4 DEF Begun, Kept, Settled
<1> QED
  BY <1>2, <1>3, <1>4, <1>5 DEF Faithful, Settled

\* A command of the device, up to the first await of its handler.
LEMMA BeginHandleGood ==
    ASSUME NEW q, NEW command, Begun(q), LosesFile(q), q.running = Idle, q.urgent = <<>>
    PROVE  Good(BeginHandle(q, command)) /\ Faithful(q, BeginHandle(q, command))
<1> DEFINE t == q.active.of
           result == HandleCommand(t, Active(q), command, q.active.state)
           r == BeginHandle(q, command)
<1>1. CASE ~IsActive(q) \/ q.active.id # command.id \/ q.active.state = "Pending"
  <2>1. r = [q EXCEPT !.running = Returning]
    BY <1>1 DEF BeginHandle
  <2> QED
    BY <2>1, TurnGood DEF Good
<1>2. CASE IsActive(q) /\ q.active.id = command.id /\ q.active.state # "Pending"
  <2>1. t \in Transfers /\ IsTransfer(Active(q)) /\ t \in DOMAIN q.fields
    BY <1>2 DEF IsActive, Active, Begun, IsQueue
  <2>2. q.active.state = "Finished" => Active(q).promise # "pending"
    BY <1>2 DEF Begun, FinishedIsSettled, Active, Settled
  <2>3. /\ IsTransfer(result.fields)
        /\ Active(q).promise # "pending" => result.fields.promise = Active(q).promise
        /\ result.newState = "Finished" => result.fields.promise # "pending"
        /\ result.frameDone => Kind[t] = "clip"
    BY <2>1, <2>2, AnswerSettles
  <2>4. r = [q EXCEPT !.fields[t] = result.fields,
                      !.running = IF result.frameDone THEN FrameAfter(q, result)
                                                      ELSE Storing(q, result)]
    BY <1>2 DEF BeginHandle
  <2> HIDE DEF r, result
  <2>5. /\ DOMAIN r = DOMAIN q
        /\ r.tasks = q.tasks /\ r.active = q.active /\ r.isLocked = q.isLocked
        /\ r.urgent = q.urgent /\ r.waiting = q.waiting /\ r.nextId = q.nextId
        /\ DOMAIN r.fields = DOMAIN q.fields /\ r.fields[t] = result.fields
        /\ \A u \in Transfers : u # t => r.fields[u] = q.fields[u]
        /\ r.running = IF result.frameDone THEN FrameAfter(q, result) ELSE Storing(q, result)
    BY <2>1, <2>4 DEF Begun, IsQueue
  <2>6. Settled(q, t) => r.fields[t].promise = q.fields[t].promise
    BY <2>3, <2>5 DEF Settled, Active
  <2>7. Held(q, t)
    BY DEF Held
  <2>8. IsQueue(r) /\ Faithful(q, r) /\ Kept(r) /\ \A u \in Transfers : Settled(q, u) => Settled(r, u)
    <3> HIDE DEF t
    <3> QED
      BY <2>1, <2>3, <2>5, <2>6, <2>7, ChangeGood
  <2>9. FinishedIsSettled(r)
    BY <2>1, <2>5, <2>8 DEF Begun, FinishedIsSettled, IsActive
  <2>10. ASSUME result.frameDone PROVE Begun(r)
    <3>1. r.running.wait = "nextFrame" /\ r.running.of = t
      BY <2>5, <2>10 DEF FrameAfter
    <3>2. OwnFrame(r) /\ StoreIsSettled(r)
      BY <2>1, <2>3, <2>5, <2>10, <3>1 DEF OwnFrame, StoreIsSettled
    <3>3. Handlers(r)
      BY <2>5, <3>1 DEF Begun, Handlers
    <3> QED
      BY <2>8, <2>9, <3>2, <3>3 DEF Begun
  <2>11. ASSUME ~result.frameDone PROVE Begun(r)
    <3>1. r.running.wait = "store" /\ r.running.result = result
      BY <2>5, <2>11 DEF Storing
    <3>2. OwnFrame(r) /\ StoreIsSettled(r)
      BY <2>3, <2>5, <3>1 DEF OwnFrame, StoreIsSettled, Settled
    <3>3. Handlers(r)
      BY <2>5, <3>1 DEF Begun, Handlers
    <3> QED
      BY <2>8, <2>9, <3>2, <3>3 DEF Begun
  <2>12. LosesFile(r)
    BY <1>2, <2>5, ShortHolds DEF LosesFile, IsActive
  <2> QED
    BY <2>8, <2>10, <2>11, <2>12 DEF Good, r
<1> QED
  BY <1>1, <1>2

\* The next handler begins.
LEMMA RunNextGood ==
    ASSUME NEW q, Good(q)
    PROVE  Good(RunNext(q)) /\ Faithful(q, RunNext(q))
<1>1. CASE q.running # Idle \/ (q.urgent = <<>> /\ q.waiting = <<>>)
  BY <1>1 DEF RunNext, Faithful
<1>2. CASE q.running = Idle /\ q.urgent # <<>>
  <2> DEFINE r == [q EXCEPT !.urgent = Tail(@)]
             h == Head(q.urgent)
  <2>1. /\ DOMAIN r = DOMAIN q
        /\ r.tasks = q.tasks /\ r.active = q.active /\ r.isLocked = q.isLocked
        /\ r.urgent = Tail(q.urgent) /\ r.waiting = q.waiting /\ r.nextId = q.nextId
        /\ r.fields = q.fields /\ r.running = Idle
    BY <1>2 DEF Good, Begun, IsQueue
  <2>2. RunNext(q) = Begin(r, h)
    BY <1>2 DEF RunNext
  <2> HIDE DEF r, h
  <2>3. /\ IsSequence(r.urgent)
        /\ \A e : Holds(q.urgent, e) <=> e = h \/ Holds(r.urgent, e)
    BY <1>2, <2>1, TailHolds DEF Good, Begun, Handlers, h
  <2>4. Handlers(r)
    BY <2>1, <2>3 DEF Good, Begun, Handlers, Idle
  <2>5. Faithful(q, r) /\ Kept(r) /\ IsQueue(r)
    BY <2>1 DEF Good, Begun, Kept, Faithful, Held, Settled, IsQueue
  <2>6. FinishedIsSettled(r) /\ StoreIsSettled(r) /\ OwnFrame(r)
    BY <2>1 DEF Good, Begun, FinishedIsSettled, StoreIsSettled, OwnFrame, Settled, IsActive, Idle
  <2>7. Begun(r)
    BY <2>4, <2>5, <2>6 DEF Begun
  <2>8. h # AbortOf(r.active.id) => LosesFile(r)
    BY <1>2, <2>1, <2>3 DEF Good, LosesFile, IsActive
  <2>9. h = Start \/ \E id : h = AbortOf(id)
    BY <2>3 DEF Good, Begun, Handlers
  <2>10. CASE h = Start
    <3>1. h # AbortOf(r.active.id) /\ h.do = "start"
      BY <2>10 DEF Start, AbortOf
    <3>2. RunNext(q) = BeginStart(r)
      BY <2>2, <3>1 DEF Begin
    <3>3. Good(BeginStart(r)) /\ Faithful(r, BeginStart(r))
      BY <2>1, <2>7, <2>8, <3>1, BeginStartGood
    <3> QED
      BY <2>5, <3>2, <3>3, FaithfulSteps
  <2>11. CASE \E id : h = AbortOf(id)
    <3>1. PICK id : h = AbortOf(id)
      BY <2>11
    <3>2. h.do = "abort" /\ h.id = id /\ h # Start
      BY <3>1 DEF AbortOf, Start
    <3>3. r.active.id # id => h # AbortOf(r.active.id)
      BY <3>2 DEF AbortOf
    <3>4. RunNext(q) = BeginAbort(r, id)
      BY <2>2, <3>2 DEF Begin
    <3>5. Good(BeginAbort(r, id)) /\ Faithful(r, BeginAbort(r, id))
      BY <2>1, <2>7, <2>8, <3>3, BeginAbortGood
    <3> QED
      BY <2>5, <3>4, <3>5, FaithfulSteps
  <2> QED
    BY <2>9, <2>10, <2>11
<1>3. CASE q.running = Idle /\ q.urgent = <<>> /\ q.waiting # <<>>
  <2> DEFINE r == [q EXCEPT !.waiting = Tail(@)]
             h == Head(q.waiting)
  <2>1. /\ DOMAIN r = DOMAIN q
        /\ r.tasks = q.tasks /\ r.active = q.active /\ r.isLocked = q.isLocked
        /\ r.urgent = q.urgent /\ r.waiting = Tail(q.waiting) /\ r.nextId = q.nextId
        /\ r.fields = q.fields /\ r.running = Idle
    BY <1>3 DEF Good, Begun, IsQueue
  <2>2. RunNext(q) = Begin(r, h)
    BY <1>3 DEF RunNext
  <2> HIDE DEF r, h
  <2>3. /\ IsSequence(r.waiting)
        /\ \A e : Holds(q.waiting, e) <=> e = h \/ Holds(r.waiting, e)
    BY <1>3, <2>1, TailHolds DEF Good, Begun, Handlers, h
  <2>4. Handlers(r)
    BY <2>1, <2>3 DEF Good, Begun, Handlers, Idle
  <2>5. Faithful(q, r) /\ Kept(r) /\ IsQueue(r)
    BY <2>1 DEF Good, Begun, Kept, Faithful, Held, Settled, IsQueue
  <2>6. FinishedIsSettled(r) /\ StoreIsSettled(r) /\ OwnFrame(r)
    BY <2>1 DEF Good, Begun, FinishedIsSettled, StoreIsSettled, OwnFrame, Settled, IsActive, Idle
  <2>7. Begun(r) /\ LosesFile(r)
    BY <1>3, <2>1, <2>4, <2>5, <2>6 DEF Begun, Good, LosesFile, IsActive
  <2>8. PICK command : h = Handle(command)
    BY <2>3 DEF Good, Begun, Handlers
  <2>9. h.do = "handle" /\ h.command = command
    BY <2>8 DEF Handle
  <2>10. RunNext(q) = BeginHandle(r, command)
    BY <2>2, <2>9 DEF Begin
  <2>11. Good(BeginHandle(r, command)) /\ Faithful(r, BeginHandle(r, command))
    BY <1>3, <2>1, <2>7, BeginHandleGood
  <2> QED
    BY <2>5, <2>10, <2>11, FaithfulSteps
<1> QED
  BY <1>1, <1>2, <1>3

-----------------------------------------------------------------------------
(* The end of a handler *)

\* The same queue, but for the transfer that is active, what the handler waits for and
\* the next number.
SameHandlers(q, r) ==
    /\ DOMAIN r = DOMAIN q /\ r.tasks = q.tasks /\ r.urgent = q.urgent
    /\ r.waiting = q.waiting /\ r.isLocked = q.isLocked

\* A result is stored with the transfer of its number, if that is the active one.
LEMMA StoreEffect ==
    ASSUME NEW q, NEW id, NEW result,
           DOMAIN q = {"tasks", "active", "isLocked", "urgent", "waiting", "running", "nextId",
                       "lockCommands", "fields"},
           DOMAIN q.active = {"id", "of", "state", "queuedCommands"}
    PROVE  LET r == StoreResult(q, id, result)
           IN  /\ SameHandlers(q, r) /\ r.fields = q.fields
               /\ DOMAIN r.active = DOMAIN q.active /\ r.active.of = q.active.of
               /\ r.active.id = q.active.id
               /\ r.active.state = IF IsActive(q) /\ q.active.id = id THEN result.newState
                                                                  ELSE q.active.state
<1> DEFINE r == StoreResult(q, id, result)
<1>1. CASE IsActive(q) /\ q.active.id = id
  <2>1. r = [q EXCEPT !.active.state = result.newState,
                      !.active.queuedCommands = @ \o result.commands]
    BY <1>1 DEF StoreResult
  <2> HIDE DEF r
  <2>2. /\ DOMAIN r = DOMAIN q /\ r.tasks = q.tasks /\ r.urgent = q.urgent
        /\ r.waiting = q.waiting /\ r.isLocked = q.isLocked /\ r.fields = q.fields
        /\ DOMAIN r.active = DOMAIN q.active /\ r.active.of = q.active.of
        /\ r.active.id = q.active.id /\ r.active.state = result.newState
    BY <2>1
  <2> QED
    BY <1>1, <2>2 DEF SameHandlers, r
<1>2. CASE ~(IsActive(q) /\ q.active.id = id)
  BY <1>2 DEF StoreResult, SameHandlers
<1> QED
  BY <1>1, <1>2

\* What a handler leaves behind when it ends with a result for transfer t.
LEMMA EndedGood ==
    ASSUME NEW q, NEW r, NEW t \in Transfers, Good(q), SameHandlers(q, r), r.running = Idle,
           DOMAIN r.active = DOMAIN q.active, r.active.of = q.active.of,
           DOMAIN r.fields = DOMAIN q.fields, IsTransfer(r.fields[t]),
           Settled(q, t) => r.fields[t].promise = q.fields[t].promise,
           \A u \in Transfers : u # t => r.fields[u] = q.fields[u],
           Held(q, t) \/ Settled(r, t),
           FinishedIsSettled(r), LosesFile(r)
    PROVE  Good(r) /\ Faithful(q, r)
<1>1. \A u \in Transfers : IsTransfer(r.fields[u])
  BY DEF Good, Begun, IsQueue
<1>2. DOMAIN r = DOMAIN q /\ r.tasks = q.tasks /\ r.urgent = q.urgent /\ r.waiting = q.waiting
  BY DEF SameHandlers
<1>3. IsQueue(r)
  BY <1>1, <1>2 DEF Good, Begun, IsQueue
<1>4. \A u \in Transfers : Settled(q, u) => r.fields[u].promise = q.fields[u].promise
  BY DEF Settled
<1>5. \A u : Held(q, u) <=> Held(r, u)
  BY <1>2, SameHeldOf
<1>6. Kept(r)
  BY <1>4, <1>5 DEF Good, Begun, Kept, Settled
<1>7. Handlers(r)
  BY <1>2 DEF Good, Begun, Handlers, Idle
<1>8. StoreIsSettled(r) /\ OwnFrame(r)
  BY DEF StoreIsSettled, OwnFrame, Idle
<1> QED
  BY <1>3, <1>4, <1>5, <1>6, <1>7, <1>8 DEF Good, Begun, Faithful, Settled

\* A result of a buffer.
LEMMA StoredGood ==
    ASSUME NEW q, Good(q), q.running.wait = "store"
    PROVE  Good(HandlerDone(Resumed(q))) /\ Faithful(q, HandlerDone(Resumed(q)))
<1> DEFINE a == StoreResult(q, q.running.id, q.running.result)
           r == HandlerDone(a)
<1>1. HandlerDone(Resumed(q)) = r
  BY DEF Resumed
<1>2. /\ DOMAIN q = {"tasks", "active", "isLocked", "urgent", "waiting", "running", "nextId",
                     "lockCommands", "fields"}
      /\ DOMAIN q.active = {"id", "of", "state", "queuedCommands"}
  BY DEF Good, Begun, IsQueue
<1>3. /\ SameHandlers(q, a) /\ a.fields = q.fields
      /\ DOMAIN a.active = DOMAIN q.active /\ a.active.of = q.active.of
      /\ a.active.id = q.active.id
      /\ a.active.state = IF IsActive(q) /\ q.active.id = q.running.id
                          THEN q.running.result.newState ELSE q.active.state
  BY <1>2, StoreEffect
<1> HIDE DEF a
<1>4. /\ SameHandlers(q, r) /\ r.fields = q.fields /\ r.active = a.active /\ r.running = Idle
  BY <1>2, <1>3 DEF HandlerDone, SameHandlers
<1> HIDE DEF r
<1>5. r.active.of = q.active.of /\ r.active.id = q.active.id
      /\ IsActive(r) = IsActive(q) /\ DOMAIN r.active = DOMAIN q.active
  BY <1>3, <1>4 DEF IsActive
<1>6. FinishedIsSettled(r)
  BY <1>3, <1>4, <1>5 DEF Good, Begun, FinishedIsSettled, StoreIsSettled, Settled
<1>7. LosesFile(r)
  BY <1>3, <1>4, <1>5 DEF Good, LosesFile, SameHandlers, Idle
<1>8. q.active.of \in Transfers \/ ~IsActive(q)
  BY DEF Good, Begun, IsQueue, IsActive
<1>9. CASE q.active.of \in Transfers
  <2> DEFINE t == q.active.of
  <2>1. t \in Transfers /\ Held(q, t) /\ IsTransfer(r.fields[t])
    BY <1>4, <1>9 DEF Held, Good, Begun, IsQueue
  <2> HIDE DEF t
  <2> QED
    BY <1>1, <1>4, <1>5, <1>6, <1>7, <2>1, EndedGood
<1>10. CASE ~IsActive(q)
  <2>1. a = q
    BY <1>10 DEF a, StoreResult
  <2> QED
    BY <1>1, <2>1, TurnGood DEF r, HandlerDone, Good
<1> QED
  BY <1>8, <1>9, <1>10

\* What a handler stores that waited for a frame.
FrameStored(q, r, t, result) ==
    /\ SameHandlers(q, r)
    /\ DOMAIN r.active = DOMAIN q.active /\ r.active.of = q.active.of
    /\ r.active.id = q.active.id
    /\ r.active.state = IF IsActive(q) /\ q.active.id = q.running.id
                        THEN result.newState ELSE q.active.state
    /\ DOMAIN r.fields = DOMAIN q.fields /\ r.fields[t] = result.fields
    /\ \A u \in Transfers : u # t => r.fields[u] = q.fields[u]

\* The two ways a frame is stored have that effect.
LEMMA FrameEffect ==
    ASSUME NEW q, NEW t \in Transfers, NEW result, NEW other, Good(q), t = q.running.of,
           q.running.wait \in {"firstFrame", "nextFrame"},
           other.newState = result.newState,
           NEW r, r = StoreResult(StoreFields(q, t, result), q.running.id, other)
    PROVE  FrameStored(q, r, t, result)
<1> DEFINE a == StoreFields(q, t, result)
<1>1. /\ DOMAIN q = {"tasks", "active", "isLocked", "urgent", "waiting", "running", "nextId",
                     "lockCommands", "fields"}
      /\ DOMAIN q.active = {"id", "of", "state", "queuedCommands"}
      /\ DOMAIN q.fields = Transfers
  BY DEF Good, Begun, IsQueue
<1>2. /\ SameHandlers(q, a) /\ a.active = q.active
      /\ DOMAIN a.fields = DOMAIN q.fields /\ a.fields[t] = result.fields
      /\ \A u \in Transfers : u # t => a.fields[u] = q.fields[u]
  BY <1>1 DEF StoreFields, SameHandlers
<1> HIDE DEF a
<1>3. /\ DOMAIN a = {"tasks", "active", "isLocked", "urgent", "waiting", "running", "nextId",
                     "lockCommands", "fields"}
      /\ DOMAIN a.active = {"id", "of", "state", "queuedCommands"}
  BY <1>1, <1>2 DEF SameHandlers
<1>4. /\ SameHandlers(a, r) /\ r.fields = a.fields
      /\ DOMAIN r.active = DOMAIN a.active /\ r.active.of = a.active.of
      /\ r.active.id = a.active.id
      /\ r.active.state = IF IsActive(a) /\ a.active.id = q.running.id THEN other.newState
                                                                      ELSE a.active.state
  BY <1>3, StoreEffect DEF a
<1>5. IsActive(a) = IsActive(q)
  BY <1>2 DEF IsActive
<1>6. SameHandlers(q, r)
  BY <1>2, <1>4 DEF SameHandlers
<1> QED
  BY <1>2, <1>4, <1>5, <1>6 DEF FrameStored

\* A handler that waited for a frame ends.
LEMMA FrameGood ==
    ASSUME NEW q, NEW r, NEW t \in Transfers, NEW y, NEW newState,
           Good(q), t = q.running.of, q.running.wait \in {"firstFrame", "nextFrame"},
           IsTransfer(y), Settled(q, t) => y.promise = q.fields[t].promise,
           newState # "Pending", newState = "Finished" => y.promise # "pending",
           SameHandlers(q, r), r.running = Idle,
           DOMAIN r.active = DOMAIN q.active, r.active.of = q.active.of,
           r.active.id # q.active.id => IsActive(q) /\ q.active.id = q.running.id,
           r.active.state = IF IsActive(q) /\ q.active.id = q.running.id
                            THEN newState ELSE q.active.state,
           DOMAIN r.fields = DOMAIN q.fields, r.fields[t] = y,
           \A u \in Transfers : u # t => r.fields[u] = q.fields[u]
    PROVE  Good(r) /\ Faithful(q, r)
<1>1. /\ Kind[t] = "clip"
      /\ (IsActive(q) /\ q.active.id = q.running.id => q.active.of = t)
      /\ (q.active.of = t \/ Settled(q, t))
  BY DEF Good, Begun, OwnFrame
<1>2. Settled(q, t) => Settled(r, t)
  BY DEF Settled
<1>3. Held(q, t) \/ Settled(r, t)
  BY <1>1, <1>2 DEF Held
<1>4. IsActive(r) = IsActive(q)
  BY DEF IsActive
<1>5. FinishedIsSettled(r)
  <2>1. CASE IsActive(q) /\ q.active.id = q.running.id
    BY <1>1, <1>4, <2>1 DEF FinishedIsSettled, Settled
  <2>2. CASE ~(IsActive(q) /\ q.active.id = q.running.id)
    <3>1. \A u \in Transfers : Settled(q, u) => Settled(r, u)
      BY <1>2 DEF Settled
    <3>2. IsActive(q) => q.active.of \in Transfers
      BY DEF Good, Begun, IsQueue, IsActive
    <3> QED
      BY <1>4, <2>2, <3>1, <3>2 DEF Good, Begun, FinishedIsSettled
  <2> QED
    BY <2>1, <2>2
<1>6. LosesFile(r)
  <2>1. CASE IsActive(q) /\ q.active.id = q.running.id
    BY <1>1, <2>1 DEF LosesFile
  <2>2. CASE ~(IsActive(q) /\ q.active.id = q.running.id)
    BY <1>4, <2>2 DEF Good, LosesFile, SameHandlers, Idle
  <2> QED
    BY <2>1, <2>2
<1> QED
  BY <1>2, <1>3, <1>5, <1>6, EndedGood

\* A clip has its first frame, or there is none.
LEMMA FirstFrameGood ==
    ASSUME NEW q, Good(q), q.running.wait = "firstFrame"
    PROVE  Good(HandlerDone(Resumed(q))) /\ Faithful(q, HandlerDone(Resumed(q)))
<1> DEFINE t == q.running.of
           x == q.fields[t]
           result == StartClip(t, x, q.running.id)
           a == ResumeStartClip(q)
           r == HandlerDone(a)
<1>1. CASE NoFrames(q)
  <2>1. Resumed(q) = q
    BY <1>1 DEF Resumed
  <2> QED
    BY <2>1, TurnGood DEF HandlerDone, Good
<1>2. CASE ~NoFrames(q)
  <2>1. HandlerDone(Resumed(q)) = r
    BY <1>2 DEF Resumed
  <2>2. t \in Transfers /\ IsTransfer(x)
    BY DEF Good, Begun, OwnFrame, IsQueue
  <2>3. IsTransfer(result.fields) /\ result.fields.promise = x.promise /\ result.newState = "Ready"
    BY <2>2 DEF StartClip, StartBuffer, Progress, TakeFrame, IsTransfer
  <2>4. a = StoreResult(StoreFields(q, t, result), q.running.id, result)
    BY DEF ResumeStartClip
  <2> HIDE DEF result
  <2>11. t = q.running.of /\ q.running.wait \in {"firstFrame", "nextFrame"}
    OBVIOUS
  <2> HIDE DEF a, t
  <2>5. FrameStored(q, a, t, result)
    BY <2>2, <2>4, <2>11, FrameEffect
  <2>6. DOMAIN q = {"tasks", "active", "isLocked", "urgent", "waiting", "running", "nextId",
                    "lockCommands", "fields"}
    BY DEF Good, Begun, IsQueue
  <2>7. /\ SameHandlers(q, r) /\ r.active = a.active /\ r.fields = a.fields /\ r.running = Idle
    BY <2>5, <2>6 DEF HandlerDone, SameHandlers, FrameStored
  <2> HIDE DEF r
  <2>8. Settled(q, t) => result.fields.promise = q.fields[t].promise
    BY <2>3
  <2> DEFINE y == result.fields
  <2>9. /\ IsTransfer(y) /\ r.fields[t] = y /\ DOMAIN r.fields = DOMAIN q.fields
        /\ (Settled(q, t) => y.promise = q.fields[t].promise)
        /\ \A u \in Transfers : u # t => r.fields[u] = q.fields[u]
        /\ DOMAIN r.active = DOMAIN q.active /\ r.active.of = q.active.of
        /\ r.active.id = q.active.id
        /\ r.active.state = IF IsActive(q) /\ q.active.id = q.running.id
                            THEN "Ready" ELSE q.active.state
    BY <2>3, <2>5, <2>7, <2>8 DEF FrameStored
  <2> HIDE DEF y
  <2>10. Good(r) /\ Faithful(q, r)
    BY <2>2, <2>7, <2>9, <2>11, FrameGood
  <2> QED
    BY <2>1, <2>10
<1> QED
  BY <1>1, <1>2

\* A clip has its next frame, or had its last one.
LEMMA NextFrameGood ==
    ASSUME NEW q, Good(q), q.running.wait = "nextFrame"
    PROVE  Good(HandlerDone(Resumed(q))) /\ Faithful(q, HandlerDone(Resumed(q)))
<1> DEFINE t == q.running.of
           x == q.fields[t]
           result == IF FramesLeft(t, x) THEN NextFrame(t, x, q.nextId) ELSE LastFrameDone(x)
           other == [result EXCEPT !.commands = q.running.commands \o @]
           a == StoreResult(StoreFields(q, t, result), q.running.id, other)
           b == ResumeNextFrame(q)
           r == HandlerDone(b)
<1>1. HandlerDone(Resumed(q)) = r
  BY DEF Resumed
<1>2. t \in Transfers /\ IsTransfer(x) /\ t = q.running.of
      /\ q.running.wait \in {"firstFrame", "nextFrame"}
  BY DEF Good, Begun, OwnFrame, IsQueue
<1>3. /\ IsTransfer(result.fields) /\ (x.promise # "pending" => result.fields.promise = x.promise)
      /\ result.newState # "Pending"
      /\ (result.newState = "Finished" => result.fields.promise # "pending")
      /\ other.newState = result.newState
  <2>1. CASE FramesLeft(t, x)
    BY <1>2, <2>1 DEF NextFrame, StartBuffer, Progress, TakeFrame, IsTransfer
  <2>2. CASE ~FramesLeft(t, x)
    BY <1>2, <2>2 DEF LastFrameDone, Progress, Settle, IsTransfer
  <2> QED
    BY <2>1, <2>2
<1>4. b = IF FramesLeft(t, x) THEN StoreNewId(TakeId(a), q.running.id, q.nextId) ELSE a
  BY DEF ResumeNextFrame
<1>5. a = StoreResult(StoreFields(q, t, result), q.running.id, other)
  OBVIOUS
<1> HIDE DEF result, other, a, b, t
<1>6. FrameStored(q, a, t, result)
  BY <1>2, <1>3, <1>5, FrameEffect
<1>7. /\ DOMAIN q = {"tasks", "active", "isLocked", "urgent", "waiting", "running", "nextId",
                     "lockCommands", "fields"}
      /\ DOMAIN q.active = {"id", "of", "state", "queuedCommands"}
  BY DEF Good, Begun, IsQueue
<1>8. /\ SameHandlers(q, b) /\ b.fields = a.fields
      /\ DOMAIN b.active = DOMAIN q.active /\ b.active.of = q.active.of
      /\ b.active.state = a.active.state
      /\ (b.active.id # q.active.id => IsActive(q) /\ q.active.id = q.running.id)
  <2>1. CASE ~FramesLeft(t, x)
    BY <1>4, <1>6, <2>1 DEF FrameStored
  <2>2. CASE FramesLeft(t, x)
    <3> DEFINE c == TakeId(a)
    <3>1. /\ SameHandlers(q, c) /\ c.active = a.active /\ c.fields = a.fields
      BY <1>6, <1>7 DEF FrameStored, SameHandlers, TakeId
    <3>2. b = StoreNewId(c, q.running.id, q.nextId)
      BY <1>4, <2>2
    <3> HIDE DEF c
    <3>3. IsActive(c) = IsActive(q) /\ c.active.id = q.active.id /\ c.active.of = q.active.of
          /\ DOMAIN c.active = DOMAIN q.active
      BY <1>6, <3>1 DEF FrameStored, IsActive
    <3>4. CASE ~IsActive(q) \/ q.active.id # q.running.id
      <4>1. b = c
        BY <3>2, <3>3, <3>4 DEF StoreNewId
      <4> QED
        BY <3>1, <3>3, <4>1
    <3>5. CASE IsActive(q) /\ q.active.id = q.running.id
      <4>1. b = [c EXCEPT !.active.id = q.nextId]
        BY <3>2, <3>3, <3>5 DEF StoreNewId
      <4>2. /\ SameHandlers(q, b) /\ b.fields = a.fields
            /\ DOMAIN b.active = DOMAIN c.active /\ b.active.of = c.active.of
            /\ b.active.state = c.active.state
        BY <1>7, <3>1, <3>3, <4>1 DEF SameHandlers
      <4> QED
        BY <3>1, <3>3, <3>5, <4>2
    <3> QED
      BY <3>4, <3>5
  <2> QED
    BY <2>1, <2>2
<1>9. /\ SameHandlers(q, r) /\ r.active = b.active /\ r.fields = b.fields /\ r.running = Idle
  BY <1>7, <1>8 DEF HandlerDone, SameHandlers
<1> HIDE DEF r, x
<1> DEFINE y == result.fields
           newState == result.newState
<1>10. /\ IsTransfer(y) /\ r.fields[t] = y /\ DOMAIN r.fields = DOMAIN q.fields
       /\ (Settled(q, t) => y.promise = q.fields[t].promise)
       /\ newState # "Pending" /\ (newState = "Finished" => y.promise # "pending")
       /\ \A u \in Transfers : u # t => r.fields[u] = q.fields[u]
       /\ DOMAIN r.active = DOMAIN q.active /\ r.active.of = q.active.of
       /\ (r.active.id # q.active.id => IsActive(q) /\ q.active.id = q.running.id)
       /\ r.active.state = IF IsActive(q) /\ q.active.id = q.running.id
                           THEN newState ELSE q.active.state
  BY <1>3, <1>6, <1>8, <1>9 DEF FrameStored, Settled, x
<1> HIDE DEF y, newState
<1>11. Good(r) /\ Faithful(q, r)
  BY <1>2, <1>9, <1>10, FrameGood
<1> QED
  BY <1>1, <1>11

\* A handler that is not idle comes to its end, and the next one begins.
LEMMA ResumedGood ==
    ASSUME NEW q, Good(q), q.running # Idle
    PROVE  Good(HandlerDone(Resumed(q))) /\ Faithful(q, HandlerDone(Resumed(q)))
<1>1. CASE q.running.wait = "return"
  BY <1>1, TurnGood DEF Resumed, HandlerDone, Good
<1> QED
  BY <1>1, StoredGood, FirstFrameGood, NextFrameGood DEF Good, Begun, Handlers

-----------------------------------------------------------------------------
(* Numbers *)

Numbers == 0 .. MaxTransferIndex
After(n) == IF n + 1 > MaxTransferIndex THEN 0 ELSE n + 1

\* The active transfer has the last number given out or, when a clip took one since that
\* is not active any more, the one before.  While a result waits to be stored at most one
\* other transfer begins, after the connection was made (`on`).
Numbered(q, on) ==
    /\ q.nextId \in Numbers
    /\ IsActive(q) => /\ q.active.id \in Numbers
                      /\ q.nextId \in {After(q.active.id), After(After(q.active.id))}
    /\ Waits(q) => /\ q.running.id \in Numbers
                   /\ IsActive(q) /\ q.active.id # q.running.id => q.nextId = After(q.active.id)
    /\ q.running.wait = "store" /\ ~IsActive(q) =>
          /\ on
          /\ q.nextId \in {After(q.running.id), After(After(q.running.id))}
    /\ q.running.wait = "store" /\ IsActive(q) /\ q.active.id # q.running.id =>
          /\ on
          /\ q.nextId \in {After(After(q.running.id)), After(After(After(q.running.id)))}

\* With at least four numbers, three steps from a number do not lead back to it.
LEMMA AfterNumbers ==
    ASSUME NEW n \in Numbers
    PROVE  /\ After(n) \in Numbers
           /\ MaxTransferIndex >= 3 =>
                 /\ After(n) # n /\ After(After(n)) # n /\ After(After(After(n))) # n
<1>1. MaxTransferIndex \in Nat
  BY QueueAssumption
<1>2. After(n) \in Numbers
  BY <1>1 DEF After, Numbers
<1>3. ASSUME MaxTransferIndex >= 3
      PROVE  /\ After(n) # n /\ After(After(n)) # n /\ After(After(After(n))) # n
  BY <1>1, <1>3 DEF After, Numbers
<1> QED
  BY <1>2, <1>3

\* A result that waits to be stored has a number that is not the next one.
LEMMA StoreIdIsFree ==
    ASSUME NEW q, NEW on, Numbered(q, on), MaxTransferIndex >= 3, q.running.wait = "store"
    PROVE  q.running.id # q.nextId
<1>1. q.running.id \in Numbers /\ (IsActive(q) => q.active.id \in Numbers)
  BY DEF Numbered, Waits
<1>2. CASE IsActive(q) /\ q.active.id = q.running.id
  BY <1>1, <1>2, AfterNumbers DEF Numbered
<1>3. CASE ~(IsActive(q) /\ q.active.id = q.running.id)
  BY <1>1, <1>3, AfterNumbers DEF Numbered
<1> QED
  BY <1>2, <1>3

\* The numbers stay in order as long as none is given out and a result waits for the
\* active transfer only.
LEMMA SameNumbers ==
    ASSUME NEW q, NEW r, NEW on, Numbered(q, on), r.active.of = q.active.of,
           r.active.id = q.active.id, r.nextId = q.nextId,
           r.running = q.running \/ ~Waits(r) \/ (IsActive(q) /\ r.running.id = q.active.id)
    PROVE  Numbered(r, on)
<1>1. IsActive(r) = IsActive(q)
  BY DEF IsActive
<1>2. CASE r.running = q.running
  BY <1>1, <1>2 DEF Numbered, Waits
<1>3. CASE ~Waits(r)
  BY <1>1, <1>3 DEF Numbered, Waits
<1>4. CASE IsActive(q) /\ r.running.id = q.active.id
  BY <1>1, <1>4 DEF Numbered, Waits
<1> QED
  BY <1>2, <1>3, <1>4

\* No transfer is active any more.
LEMMA PartedNumbers ==
    ASSUME NEW q, NEW r, NEW on, NEW later, Numbered(q, on), ~IsActive(r), r.nextId = q.nextId,
           r.running = q.running, r.running.wait = "store" => ~on /\ later
    PROVE  Numbered(r, later)
BY DEF Numbered, Waits

\* The next transfer begins.
LEMMA DequeueNumbers ==
    ASSUME NEW q, NEW on, IsQueue(q), Numbered(q, on)
    PROVE  Numbered(DequeueAndRun(q), on)
<1> DEFINE r == DequeueAndRun(q)
<1>1. CASE IsActive(q) \/ q.tasks = <<>>
  BY <1>1 DEF DequeueAndRun
<1>2. CASE ~IsActive(q) /\ q.tasks # <<>>
  <2>1. /\ r.active.of = Head(q.tasks) /\ r.active.id = q.nextId /\ r.running = q.running
        /\ r.nextId = After(q.nextId) /\ Head(q.tasks) \in Transfers
    BY <1>2, DequeueEffect DEF After
  <2> HIDE DEF r
  <2>5. IsActive(r)
    BY <2>1, TransfersAssumption DEF IsActive
  <2>2. q.nextId \in Numbers /\ After(q.nextId) \in Numbers
    BY AfterNumbers DEF Numbered
  <2>3. q.running.wait = "store" =>
           /\ on
           /\ r.nextId \in {After(After(q.running.id)), After(After(After(q.running.id)))}
    BY <1>2, <2>1 DEF Numbered
  <2>4. Waits(q) => q.running.id \in Numbers
    BY DEF Numbered
  <2> QED
    BY <2>1, <2>2, <2>3, <2>4, <2>5 DEF Numbered, Waits, r
<1> QED
  BY <1>1, <1>2

\* Ending the active transfer keeps the numbers in order unless a result waits.
LEMMA EndNumbers ==
    ASSUME NEW q, NEW on, IsQueue(q), Numbered(q, on), q.running.wait # "store"
    PROVE  Numbered(EndActive(q), on)
<1> DEFINE r == [TransferCompleted(q) EXCEPT !.active = NoActive]
<1>1. /\ DOMAIN r = DOMAIN q /\ r.tasks = q.tasks /\ r.active = NoActive
      /\ r.running = q.running /\ r.nextId = q.nextId /\ r.fields = q.fields
  BY DEF TransferCompleted, SendLock, IsQueue
<1>2. EndActive(q) = DequeueAndRun(r)
  BY DEF EndActive
<1> HIDE DEF r
<1>3. IsQueue(r) /\ ~IsActive(r)
  BY <1>1 DEF IsQueue, IsActive, NoActive
<1>4. Numbered(r, on)
  BY <1>1, <1>3, PartedNumbers
<1> QED
  BY <1>2, <1>3, <1>4, DequeueNumbers

\* So does the begin of each handler ...
LEMMA BeginNumbers ==
    ASSUME NEW q, NEW h, NEW on, Begun(q), Numbered(q, on), q.running = Idle,
           h = Start \/ (\E id : h = AbortOf(id)) \/ \E command : h = Handle(command)
    PROVE  Numbered(Begin(q, h), on)
<1> DEFINE a == [q EXCEPT !.running = Returning]
<1>1. /\ DOMAIN q = {"tasks", "active", "isLocked", "urgent", "waiting", "running", "nextId",
                     "lockCommands", "fields"}
      /\ IsQueue(q)
  BY DEF Begun, IsQueue
<1>2. SameTransfers(q, a) /\ a.running = Returning
  BY <1>1 DEF SameTransfers
<1> HIDE DEF a
<1>3. ~Waits(a) /\ a.running.wait # "store" /\ IsQueue(a)
  BY <1>1, <1>2 DEF Waits, Returning, SameTransfers, IsQueue
<1>4. Numbered(a, on)
  BY <1>2, <1>3, SameNumbers DEF SameTransfers
<1>5. CASE h = Start
  <2> DEFINE r == BeginStart(q)
  <2>1. Begin(q, h) = r
    BY <1>5 DEF Begin, Start
  <2>2. \/ r = a
        \/ /\ IsActive(q) /\ r.active = q.active /\ r.nextId = q.nextId
           /\ r.running.id = q.active.id
    BY <1>1 DEF BeginStart, SendLock, Storing, FirstFrame, a
  <2> HIDE DEF r
  <2> QED
    BY <1>4, <2>1, <2>2, SameNumbers
<1>6. CASE \E id : h = AbortOf(id)
  <2>1. PICK id : h = AbortOf(id)
    BY <1>6
  <2>2. Begin(q, h) = BeginAbort(q, id)
    BY <2>1 DEF Begin, AbortOf
  <2> DEFINE b == AbortActive(a)
  <2>3. BeginAbort(q, id) = a \/ (BeginAbort(q, id) = EndActive(b) /\ IsActive(q))
    BY DEF BeginAbort, a
  <2>4. ASSUME IsActive(q) PROVE Numbered(EndActive(b), on)
    <3> DEFINE t == a.active.of
    <3>1. t \in Transfers
      BY <1>2, <1>3, <2>4 DEF SameTransfers, IsActive, IsQueue
    <3>2. IsTransfer(Abort(a.fields[t]))
      BY <1>3, <3>1 DEF IsQueue, Abort, Settle, IsTransfer
    <3>3. /\ DOMAIN b = DOMAIN a /\ b.tasks = a.tasks /\ b.active = a.active
          /\ b.running = a.running /\ b.nextId = a.nextId /\ DOMAIN b.fields = DOMAIN a.fields
          /\ b.fields[t] = Abort(a.fields[t])
          /\ \A u \in Transfers : u # t => b.fields[u] = a.fields[u]
      BY <1>3, <3>1 DEF AbortActive, IsQueue
    <3> HIDE DEF b, t
    <3>4. \A u \in Transfers : IsTransfer(b.fields[u])
      BY <1>3, <3>2, <3>3 DEF IsQueue
    <3>5. IsQueue(b)
      BY <1>3, <3>3, <3>4 DEF IsQueue
    <3>6. Numbered(b, on)
      BY <1>4, <3>3, SameNumbers
    <3> QED
      BY <1>3, <3>3, <3>5, <3>6, EndNumbers
  <2> HIDE DEF b
  <2> QED
    BY <1>4, <2>2, <2>3, <2>4
<1>7. CASE \E command : h = Handle(command)
  <2>1. PICK command : h = Handle(command)
    BY <1>7
  <2> DEFINE r == BeginHandle(q, command)
             t == q.active.of
             result == HandleCommand(t, Active(q), command, q.active.state)
  <2>2. Begin(q, h) = r
    BY <2>1 DEF Begin, Handle
  <2>3. CASE ~IsActive(q) \/ q.active.id # command.id \/ q.active.state = "Pending"
    <3>1. r = a
      BY <2>3 DEF BeginHandle, a
    <3> QED
      BY <1>4, <2>2, <3>1
  <2>4. CASE IsActive(q) /\ q.active.id = command.id /\ q.active.state # "Pending"
    <3>1. r = [q EXCEPT !.fields[t] = result.fields,
                        !.running = IF result.frameDone THEN FrameAfter(q, result)
                                                        ELSE Storing(q, result)]
      BY <2>4 DEF BeginHandle
    <3> HIDE DEF r, result
    <3>2. /\ r.active = q.active /\ r.nextId = q.nextId
          /\ r.running = IF result.frameDone THEN FrameAfter(q, result) ELSE Storing(q, result)
      BY <1>1, <3>1
    <3>3. r.running.id = q.active.id
      BY <3>2 DEF FrameAfter, Storing
    <3> QED
      BY <2>2, <2>4, <3>2, <3>3, SameNumbers
  <2> QED
    BY <2>3, <2>4
<1> QED
  BY <1>5, <1>6, <1>7

\* ... of the next one, whichever it is ...
LEMMA RunNextNumbers ==
    ASSUME NEW q, NEW on, Good(q), Numbered(q, on)
    PROVE  Numbered(RunNext(q), on)
<1>1. CASE q.running # Idle \/ (q.urgent = <<>> /\ q.waiting = <<>>)
  BY <1>1 DEF RunNext
<1>2. ASSUME NEW r, NEW h, q.running = Idle, RunNext(q) = Begin(r, h),
             DOMAIN r = DOMAIN q, r.tasks = q.tasks, r.active = q.active, r.nextId = q.nextId,
             r.fields = q.fields, r.running = Idle,
             IsSequence(r.urgent), IsSequence(r.waiting),
             \A e : Holds(r.urgent, e) => Holds(q.urgent, e),
             \A e : Holds(r.waiting, e) => Holds(q.waiting, e),
             Holds(q.urgent, h) \/ Holds(q.waiting, h)
      PROVE  Numbered(RunNext(q), on)
  <2>1. Handlers(r) /\ IsQueue(r)
    BY <1>2 DEF Good, Begun, Handlers, IsQueue, Idle
  <2>2. Kept(r)
    BY <1>2 DEF Good, Begun, Kept, Held, Settled
  <2>3. FinishedIsSettled(r) /\ StoreIsSettled(r) /\ OwnFrame(r)
    BY <1>2 DEF Good, Begun, FinishedIsSettled, StoreIsSettled, OwnFrame, Settled, IsActive, Idle
  <2>4. Begun(r)
    BY <2>1, <2>2, <2>3 DEF Begun
  <2>5. Numbered(r, on)
    BY <1>2, SameNumbers
  <2>6. h = Start \/ (\E id : h = AbortOf(id)) \/ \E command : h = Handle(command)
    BY <1>2 DEF Good, Begun, Handlers
  <2> QED
    BY <1>2, <2>4, <2>5, <2>6, BeginNumbers
<1>3. CASE q.running = Idle /\ q.urgent # <<>>
  <2> DEFINE r == [q EXCEPT !.urgent = Tail(@)]
             h == Head(q.urgent)
  <2>1. /\ DOMAIN r = DOMAIN q
        /\ r.tasks = q.tasks /\ r.active = q.active /\ r.nextId = q.nextId
        /\ r.urgent = Tail(q.urgent) /\ r.waiting = q.waiting
        /\ r.fields = q.fields /\ r.running = Idle
    BY <1>3 DEF Good, Begun, IsQueue
  <2>2. RunNext(q) = Begin(r, h)
    BY <1>3 DEF RunNext
  <2> HIDE DEF r
  <2>3. /\ IsSequence(r.urgent) /\ IsSequence(r.waiting) /\ Holds(q.urgent, h)
        /\ \A e : Holds(r.urgent, e) => Holds(q.urgent, e)
    BY <1>3, <2>1, TailHolds DEF Good, Begun, Handlers
  <2> HIDE DEF h
  <2> QED
    BY <1>2, <1>3, <2>1, <2>2, <2>3
<1>4. CASE q.running = Idle /\ q.urgent = <<>> /\ q.waiting # <<>>
  <2> DEFINE r == [q EXCEPT !.waiting = Tail(@)]
             h == Head(q.waiting)
  <2>1. /\ DOMAIN r = DOMAIN q
        /\ r.tasks = q.tasks /\ r.active = q.active /\ r.nextId = q.nextId
        /\ r.urgent = q.urgent /\ r.waiting = Tail(q.waiting)
        /\ r.fields = q.fields /\ r.running = Idle
    BY <1>4 DEF Good, Begun, IsQueue
  <2>2. RunNext(q) = Begin(r, h)
    BY <1>4 DEF RunNext
  <2> HIDE DEF r
  <2>3. /\ IsSequence(r.urgent) /\ IsSequence(r.waiting) /\ Holds(q.waiting, h)
        /\ \A e : Holds(r.waiting, e) => Holds(q.waiting, e)
    BY <1>4, <2>1, TailHolds DEF Good, Begun, Handlers
  <2> HIDE DEF h
  <2> QED
    BY <1>2, <1>4, <2>1, <2>2, <2>3
<1> QED
  BY <1>1, <1>3, <1>4

\* ... and its end, where a clip may have taken a number.
LEMMA ResumedNumbers ==
    ASSUME NEW q, NEW on, Good(q), Numbered(q, on), q.running # Idle
    PROVE  Numbered(HandlerDone(Resumed(q)), on)
<1> DEFINE b == Resumed(q)
           r == HandlerDone(b)
<1>1. /\ DOMAIN q = {"tasks", "active", "isLocked", "urgent", "waiting", "running", "nextId",
                     "lockCommands", "fields"}
      /\ DOMAIN q.active = {"id", "of", "state", "queuedCommands"}
      /\ DOMAIN q.fields = Transfers
  BY DEF Good, Begun, IsQueue
<1>2. ASSUME NEW a, DOMAIN a = DOMAIN q, NEW id, NEW result, DOMAIN a.active = DOMAIN q.active
      PROVE  LET c == StoreResult(a, id, result)
             IN  /\ DOMAIN c = DOMAIN q /\ DOMAIN c.active = DOMAIN q.active
                 /\ c.active.id = a.active.id /\ c.active.of = a.active.of /\ c.nextId = a.nextId
  BY <1>1, <1>2 DEF StoreResult
<1>3. ASSUME NEW t, NEW result
      PROVE  LET c == StoreFields(q, t, result)
             IN  DOMAIN c = DOMAIN q /\ c.active = q.active /\ c.nextId = q.nextId
  BY <1>1 DEF StoreFields
<1>9. SUFFICES Numbered(r, on)
  OBVIOUS
<1>10. r = HandlerDone(b) /\ b = Resumed(q)
  OBVIOUS
<1> HIDE DEF r, b
<1>4. ASSUME DOMAIN b = DOMAIN q, b.active.id = q.active.id, b.active.of = q.active.of,
             b.nextId = q.nextId
      PROVE  Numbered(r, on)
  <2>1. r.active = b.active /\ r.nextId = b.nextId /\ r.running = Idle
    BY <1>1, <1>4, <1>10 DEF HandlerDone
  <2>2. ~Waits(r)
    BY <2>1 DEF Waits, Idle
  <2> QED
    BY <1>4, <2>1, <2>2, SameNumbers
<1>5. CASE q.running.wait = "return"
  BY <1>4, <1>5, <1>10 DEF Resumed
<1>6. CASE q.running.wait = "store"
  <2>1. b = StoreResult(q, q.running.id, q.running.result)
    BY <1>6, <1>10 DEF Resumed
  <2> QED
    BY <1>1, <1>2, <1>4, <2>1
<1>7. CASE q.running.wait = "firstFrame"
  <2> DEFINE t == q.running.of
             result == StartClip(t, q.fields[t], q.running.id)
             a == StoreFields(q, t, result)
  <2>1. b = q \/ b = StoreResult(a, q.running.id, result)
    BY <1>7, <1>10 DEF Resumed, ResumeStartClip
  <2>2. DOMAIN a = DOMAIN q /\ a.active = q.active /\ a.nextId = q.nextId
    BY <1>3
  <2> HIDE DEF a, result
  <2>3. CASE b = q
    BY <1>4, <2>3
  <2>4. CASE b = StoreResult(a, q.running.id, result)
    <3>1. DOMAIN b = DOMAIN q /\ b.active.id = a.active.id /\ b.active.of = a.active.of
          /\ b.nextId = a.nextId
      BY <1>2, <2>2, <2>4
    <3> QED
      BY <1>4, <2>2, <3>1
  <2> QED
    BY <2>1, <2>3, <2>4
<1>8. CASE q.running.wait = "nextFrame"
  <2> DEFINE t == q.running.of
             x == q.fields[t]
             result == IF FramesLeft(t, x) THEN NextFrame(t, x, q.nextId) ELSE LastFrameDone(x)
             other == [result EXCEPT !.commands = q.running.commands \o @]
             a == StoreFields(q, t, result)
             s == StoreResult(a, q.running.id, other)
             left == FramesLeft(t, x)
  <2>1. b = IF left THEN StoreNewId(TakeId(s), q.running.id, q.nextId) ELSE s
    BY <1>8, <1>10 DEF Resumed, ResumeNextFrame
  <2>2. DOMAIN a = DOMAIN q /\ a.active = q.active /\ a.nextId = q.nextId
    BY <1>3
  <2> HIDE DEF a, result, other, left
  <2>3. /\ DOMAIN s = DOMAIN q /\ DOMAIN s.active = DOMAIN q.active
        /\ s.active.id = q.active.id /\ s.active.of = q.active.of /\ s.nextId = q.nextId
    BY <1>2, <2>2
  <2> HIDE DEF s
  <2>4. CASE ~left
    BY <1>4, <2>1, <2>3, <2>4
  <2>5. CASE left
    <3> DEFINE c == TakeId(s)
    <3>1. /\ DOMAIN c = DOMAIN q /\ c.active = s.active /\ c.nextId = After(q.nextId)
      BY <1>1, <2>3 DEF TakeId, After
    <3>2. b = StoreNewId(c, q.running.id, q.nextId)
      BY <2>1, <2>5
    <3> HIDE DEF c
    <3>3. IsActive(c) = IsActive(q) /\ c.active.id = q.active.id /\ c.active.of = q.active.of
          /\ DOMAIN c.active = DOMAIN q.active
      BY <2>3, <3>1 DEF IsActive
    <3>4. /\ q.nextId \in Numbers /\ After(q.nextId) \in Numbers
      BY AfterNumbers DEF Numbered
    <3>5. DOMAIN b = DOMAIN q =>
             r.active = b.active /\ r.nextId = b.nextId /\ r.running = Idle
      BY <1>1, <1>10 DEF HandlerDone
    <3>6. CASE ~IsActive(q) \/ q.active.id # q.running.id
      <4>1. b = c
        BY <3>2, <3>3, <3>6 DEF StoreNewId
      <4>2. r.active = c.active /\ r.nextId = After(q.nextId) /\ r.running = Idle
        BY <3>1, <3>5, <4>1
      <4>3. IsActive(r) = IsActive(q) /\ r.active.id = q.active.id
        BY <3>3, <4>2 DEF IsActive
      <4>4. IsActive(q) => q.nextId = After(q.active.id) /\ q.active.id \in Numbers
        BY <1>8, <3>6 DEF Numbered, Waits
      <4> QED
        BY <3>4, <4>2, <4>3, <4>4 DEF Numbered, Waits, Idle
    <3>7. CASE IsActive(q) /\ q.active.id = q.running.id
      <4>1. b = [c EXCEPT !.active.id = q.nextId]
        BY <3>2, <3>3, <3>7 DEF StoreNewId
      <4>2. DOMAIN b = DOMAIN c /\ b.active.id = q.nextId /\ b.nextId = c.nextId
        BY <1>1, <3>1, <3>3, <4>1
      <4>3. r.active.id = q.nextId /\ r.nextId = After(q.nextId) /\ r.running = Idle
        BY <3>1, <3>5, <4>2
      <4> QED
        BY <3>4, <4>3 DEF Numbered, Waits, Idle
    <3> QED
      BY <3>6, <3>7
  <2> QED
    BY <2>4, <2>5
<1> QED
  BY <1>5, <1>6, <1>7, <1>8 DEF Good, Begun, Handlers

\* So does clearing the queue, if a result waits to be stored only when the interval starts.
LEMMA ClearNumbers ==
    ASSUME NEW q, NEW on, NEW later, IsQueue(q), Numbered(q, on),
           q.running.wait = "store" => ~on /\ later
    PROVE  Numbered(ClearQueue(q), later)
<1> DEFINE r == ClearQueue(q)
<1>1. r.active = NoActive /\ r.nextId = q.nextId /\ r.running = q.running
  BY DEF ClearQueue, TransferCompleted, ClearHandlers, SendLock, IsQueue
<1> HIDE DEF r
<1>2. ~IsActive(r)
  BY <1>1 DEF IsActive, NoActive
<1>3. Numbered(r, later)
  BY <1>1, <1>2, PartedNumbers
<1> QED
  BY <1>3 DEF r

\* What holds of a queue between two events; `on` says whether the interval runs.
InOrder(q, on) == Good(q) /\ Numbered(q, on)

\* The next handler keeps the queue in order.
LEMMA NextInOrder ==
    ASSUME NEW q, NEW on, InOrder(q, on)
    PROVE  InOrder(RunNext(q), on) /\ Faithful(q, RunNext(q))
BY RunNextGood, RunNextNumbers DEF InOrder

-----------------------------------------------------------------------------
(* The entry points *)

\* The same queue, but for its lock commands.
LEMMA UnsentGood ==
    ASSUME NEW q, NEW on, InOrder(q, on)
    PROVE  LET r == [q EXCEPT !.lockCommands = <<>>]
           IN  /\ InOrder(r, on) /\ Faithful(q, r) /\ SameTransfers(q, r) /\ r.running = q.running
<1> DEFINE r == [q EXCEPT !.lockCommands = <<>>]
<1>1. SameTransfers(q, r) /\ r.running = q.running
  BY DEF InOrder, SameTransfers, Good, Begun, IsQueue
<1> HIDE DEF r
<1>2. r.running.wait \in {"idle", "return", "store", "firstFrame", "nextFrame"}
      /\ (r.running.wait = "idle" => r.running = Idle)
  BY <1>1 DEF InOrder, Good, Begun, Handlers
<1>3. StoreIsSettled(r) /\ OwnFrame(r)
  BY <1>1 DEF SameTransfers, InOrder, Good, Begun, StoreIsSettled, OwnFrame, IsActive, Settled
<1>4. Begun(r) /\ Faithful(q, r)
  BY <1>1, <1>2, <1>3, HandlerGood DEF InOrder, Good
<1>5. LosesFile(r)
  BY <1>1 DEF InOrder, Good, LosesFile, SameTransfers, IsActive
<1>6. Numbered(r, on)
  BY <1>1, SameNumbers DEF InOrder, SameTransfers
<1> QED
  BY <1>1, <1>4, <1>5, <1>6 DEF r, InOrder, Good

\* A handler is added, and the lock noted, which is lost only together with an abort.
LEMMA AddedGood ==
    ASSUME NEW q, NEW r, NEW on, InOrder(q, on),
           DOMAIN r = DOMAIN q, r.tasks = q.tasks, r.active = q.active, r.fields = q.fields,
           r.running = q.running, r.nextId = q.nextId,
           IsSequence(r.urgent), IsSequence(r.waiting),
           \A h : Holds(q.urgent, h) => Holds(r.urgent, h),
           \A h : Holds(r.urgent, h) => Holds(q.urgent, h) \/ h = Start \/ \E id : h = AbortOf(id),
           \A h : Holds(r.waiting, h) => Holds(q.waiting, h) \/ \E command : h = Handle(command),
           ~r.isLocked /\ IsActive(q) => ~q.isLocked \/ Holds(r.urgent, AbortOf(q.active.id))
    PROVE  InOrder(r, on) /\ Faithful(q, r)
<1>1. IsQueue(r)
  BY DEF InOrder, Good, Begun, IsQueue
<1>2. Handlers(r)
  BY DEF InOrder, Good, Begun, Handlers
<1>3. \A u : Held(q, u) <=> Held(r, u)
  BY SameHeld
<1>4. Kept(r) /\ Faithful(q, r)
  BY <1>3 DEF InOrder, Good, Begun, Kept, Faithful, Settled
<1>5. FinishedIsSettled(r) /\ StoreIsSettled(r) /\ OwnFrame(r)
  BY DEF InOrder, Good, Begun, FinishedIsSettled, StoreIsSettled, OwnFrame, IsActive, Settled
<1>6. LosesFile(r)
  BY DEF InOrder, Good, LosesFile, IsActive
<1>7. Numbered(r, on)
  BY SameNumbers DEF InOrder
<1> QED
  BY <1>1, <1>2, <1>4, <1>5, <1>6, <1>7 DEF InOrder, Good, Begun

\* The queue is cleared: what it held is aborted.
LEMMA ClearGood ==
    ASSUME NEW q, Good(q)
    PROVE  Good(ClearQueue(q)) /\ Faithful(q, ClearQueue(q))
<1> DEFINE aborted == {q.tasks[i] : i \in DOMAIN q.tasks} \union
                      (IF IsActive(q) THEN {q.active.of} ELSE {})
           a == TransferCompleted(ClearHandlers([q EXCEPT !.tasks = <<>>]))
           r == ClearQueue(q)
<1>1. /\ DOMAIN q = {"tasks", "active", "isLocked", "urgent", "waiting", "running", "nextId",
                     "lockCommands", "fields"}
      /\ DOMAIN q.fields = Transfers
      /\ \A t \in Transfers : IsTransfer(q.fields[t])
      /\ q.active.of \in Transfers \union {NoTransfer} /\ q.tasks \in Seq(Transfers)
  BY DEF Good, Begun, IsQueue
<1>2. /\ DOMAIN a = DOMAIN q /\ a.tasks = <<>> /\ a.urgent = <<>> /\ a.waiting = <<>>
      /\ a.running = q.running /\ a.fields = q.fields
  BY <1>1 DEF TransferCompleted, ClearHandlers, SendLock
<1>3. r = [a EXCEPT !.active = NoActive,
                    !.fields = [t \in Transfers |-> IF t \in aborted THEN Abort(@[t]) ELSE @[t]]]
  BY DEF ClearQueue
<1> HIDE DEF a, r, aborted
<1>4. /\ DOMAIN r = DOMAIN q /\ r.tasks = <<>> /\ r.urgent = <<>> /\ r.waiting = <<>>
      /\ r.running = q.running /\ r.active = NoActive
      /\ r.fields = [t \in Transfers |-> IF t \in aborted THEN Abort(q.fields[t]) ELSE q.fields[t]]
  BY <1>1, <1>2, <1>3
<1>5. \A t \in Transfers :
         /\ IsTransfer(r.fields[t])
         /\ Settled(q, t) => r.fields[t].promise = q.fields[t].promise
         /\ t \in aborted => Settled(r, t)
         /\ t \notin aborted => r.fields[t] = q.fields[t]
  <2>1. ASSUME NEW x, IsTransfer(x)
        PROVE  /\ IsTransfer(Abort(x)) /\ Abort(x).promise # "pending"
               /\ x.promise # "pending" => Abort(x).promise = x.promise
    BY <2>1 DEF IsTransfer, Abort, Settle
  <2>2. SUFFICES ASSUME NEW t \in Transfers
                 PROVE  /\ IsTransfer(r.fields[t])
                        /\ Settled(q, t) => r.fields[t].promise = q.fields[t].promise
                        /\ t \in aborted => Settled(r, t)
                        /\ t \notin aborted => r.fields[t] = q.fields[t]
    OBVIOUS
  <2>3. /\ IsTransfer(q.fields[t])
        /\ r.fields[t] = IF t \in aborted THEN Abort(q.fields[t]) ELSE q.fields[t]
    BY <1>1, <1>4
  <2>4. CASE t \in aborted
    BY <2>1, <2>3, <2>4 DEF Settled
  <2>5. CASE t \notin aborted
    BY <2>3, <2>5
  <2> QED
    BY <2>4, <2>5
<1>6. \A t \in Transfers : Held(q, t) => t \in aborted
  BY <1>1, TransfersAssumption DEF Held, Holds, aborted, IsActive
<1>7. IsQueue(r) /\ Handlers(r) /\ ~IsActive(r)
  <2>1. <<>> \in Seq(Transfers) /\ DOMAIN NoActive = {"id", "of", "state", "queuedCommands"}
        /\ NoActive.of = NoTransfer
    BY DEF NoActive
  <2>2. IsQueue(r)
    BY <1>1, <1>4, <1>5, <2>1 DEF IsQueue
  <2>3. Handlers(r)
    BY <1>4, ShortHolds DEF Good, Begun, Handlers
  <2> QED
    BY <1>4, <2>1, <2>2, <2>3 DEF IsActive
<1>8. Faithful(q, r) /\ Kept(r)
  BY <1>5, <1>6 DEF Good, Begun, Kept, Faithful, Settled
<1>9. FinishedIsSettled(r) /\ StoreIsSettled(r) /\ LosesFile(r)
  BY <1>7 DEF FinishedIsSettled, StoreIsSettled, LosesFile
<1>10. OwnFrame(r)
  <2>1. SUFFICES ASSUME r.running.wait \in {"firstFrame", "nextFrame"}
                 PROVE  /\ r.running.of \in Transfers /\ Kind[r.running.of] = "clip"
                        /\ Settled(r, r.running.of)
    BY <1>7 DEF OwnFrame
  <2> DEFINE t == q.running.of
  <2>2. t \in Transfers /\ Kind[t] = "clip" /\ (q.active.of = t \/ Settled(q, t))
    BY <1>4, <2>1 DEF Good, Begun, OwnFrame
  <2>3. Held(q, t) \/ Settled(q, t)
    BY <2>2 DEF Held
  <2> HIDE DEF t
  <2>4. Settled(r, t)
    BY <1>5, <1>6, <2>2, <2>3 DEF Settled
  <2> QED
    BY <1>4, <2>2, <2>4 DEF t
<1> QED
  BY <1>7, <1>8, <1>9, <1>10 DEF Good, Begun, r

\* What the event loop does to a queue.
QueueStep ==
    \/ Resume \/ \E t \in Transfers : Enqueue(t)
    \/ LockObtained \/ \E locked : UpdateLock(locked)
    \/ \E command : HandleReceived(command)
    \/ Tick \/ SendFailed \/ StartCommandSending \/ StopCommandSending

\* A handler goes on after its await.
LEMMA ResumeGood ==
    ASSUME InOrder(queue, interval), Resume
    PROVE  InOrder(queue', interval') /\ Faithful(queue, queue')
<1>1. InOrder(Fresh, interval) /\ Faithful(queue, Fresh) /\ Fresh.running = queue.running
  BY UnsentGood DEF Fresh
<1> DEFINE q == Fresh
<1> HIDE DEF q
<1>2. InOrder(q, interval) /\ Faithful(queue, q) /\ q.running # Idle
  BY <1>1 DEF q, Resume
<1>3. CASE queue' = RunNext(HandlerDone(Resumed(Fresh)))
  <2> DEFINE r == HandlerDone(Resumed(q))
  <2>1. InOrder(r, interval) /\ Faithful(q, r)
    BY <1>2, ResumedGood, ResumedNumbers DEF InOrder
  <2>2. queue' = RunNext(r) /\ interval' = interval
    BY <1>3 DEF q, Resume
  <2> HIDE DEF r
  <2>3. InOrder(RunNext(r), interval) /\ Faithful(r, RunNext(r))
    BY <2>1, NextInOrder
  <2> QED
    BY <1>2, <2>1, <2>2, <2>3, FaithfulSteps
<1>4. CASE queue' = RunNext(HandlerDone(Fresh))
  <2> DEFINE r == HandlerDone(q)
  <2>1. InOrder(r, interval) /\ Faithful(q, r)
    <3>1. /\ Good(r) /\ Faithful(q, r) /\ SameTransfers(q, r) /\ r.running = Idle
      BY <1>2, TurnGood DEF HandlerDone, InOrder, Good
    <3> HIDE DEF r
    <3>2. Numbered(r, interval)
      BY <1>2, <3>1, SameNumbers DEF InOrder, SameTransfers, Waits, Idle
    <3> QED
      BY <3>1, <3>2 DEF InOrder
  <2>2. queue' = RunNext(r) /\ interval' = interval
    BY <1>4 DEF q, Resume
  <2> HIDE DEF r
  <2>3. InOrder(RunNext(r), interval) /\ Faithful(r, RunNext(r))
    BY <2>1, NextInOrder
  <2> QED
    BY <1>2, <2>1, <2>2, <2>3, FaithfulSteps
<1> QED
  BY <1>3, <1>4 DEF Resume

\* A transfer is enqueued.
LEMMA EnqueueGood ==
    ASSUME InOrder(queue, interval), IdIsFree(queue), NEW t \in Transfers, Enqueue(t)
    PROVE  InOrder(queue', interval') /\ Faithful(queue, queue')
<1> DEFINE q == Fresh
           a == [q EXCEPT !.tasks = Append(@, t)]
           b == DequeueAndRun(a)
<1>1. InOrder(q, interval) /\ Faithful(queue, q) /\ SameTransfers(queue, q) /\ q.running = queue.running
  BY UnsentGood DEF Fresh
<1>2. queue' = RunNext(b) /\ interval' = interval
  BY DEF Enqueue
<1> HIDE DEF q
<1>3. /\ DOMAIN a = DOMAIN q /\ a.tasks = Append(q.tasks, t) /\ a.active = q.active
      /\ a.fields = q.fields /\ a.urgent = q.urgent /\ a.waiting = q.waiting
      /\ a.running = q.running /\ a.isLocked = q.isLocked /\ a.nextId = q.nextId
  BY <1>1 DEF InOrder, Good, Begun, IsQueue
<1> HIDE DEF a, b
<1>4. a.tasks \in Seq(Transfers) /\ \A u : Holds(q.tasks, u) => Holds(a.tasks, u)
  BY <1>1, <1>3, AppendHolds DEF InOrder, Good, Begun, IsQueue, IsSequence
<1>5. IsQueue(a) /\ Handlers(a)
  BY <1>1, <1>3, <1>4 DEF InOrder, Good, Begun, IsQueue, Handlers
<1>6. Faithful(q, a) /\ Kept(a)
  BY <1>1, <1>3, <1>4 DEF InOrder, Good, Begun, Kept, Faithful, Held, Settled
<1>7. FinishedIsSettled(a) /\ StoreIsSettled(a) /\ OwnFrame(a) /\ LosesFile(a)
  BY <1>1, <1>3 DEF InOrder, Good, Begun, FinishedIsSettled, StoreIsSettled, OwnFrame, LosesFile, IsActive,
     Settled
<1>8. IdIsFree(a)
  BY <1>1, <1>3 DEF IdIsFree, Waits, SameTransfers
<1>9. InOrder(b, interval) /\ Faithful(a, b)
  <2>1. Good(b) /\ Faithful(a, b)
    BY <1>5, <1>6, <1>7, <1>8, DequeueGood DEF Begun, b
  <2>2. Numbered(a, interval)
    BY <1>1, <1>3, SameNumbers DEF InOrder
  <2>3. Numbered(b, interval)
    BY <1>5, <2>2, DequeueNumbers DEF b
  <2> QED
    BY <2>1, <2>3 DEF InOrder
<1>10. InOrder(RunNext(b), interval) /\ Faithful(b, RunNext(b))
  BY <1>9, NextInOrder
<1>11. Faithful(queue, a)
  BY <1>1, <1>6, FaithfulSteps
<1>12. Faithful(queue, b)
  BY <1>9, <1>11, FaithfulSteps
<1> QED
  BY <1>2, <1>10, <1>12, FaithfulSteps

\* The device gives the lock.
LEMMA LockObtainedGood ==
    ASSUME InOrder(queue, interval), LockObtained
    PROVE  InOrder(queue', interval') /\ Faithful(queue, queue')
<1> DEFINE q == Fresh
           a == [q EXCEPT !.isLocked = TRUE]
           r == TryStartTransfer(a)
<1>1. InOrder(q, interval) /\ Faithful(queue, q)
  BY UnsentGood DEF Fresh
<1>2. queue' = RunNext(r) /\ interval' = interval
  BY DEF LockObtained
<1> HIDE DEF q
<1>3. /\ DOMAIN a = DOMAIN q /\ a.tasks = q.tasks /\ a.active = q.active /\ a.fields = q.fields
      /\ a.urgent = q.urgent /\ a.waiting = q.waiting /\ a.running = q.running /\ a.isLocked = TRUE
      /\ a.nextId = q.nextId
  BY <1>1 DEF InOrder, Good, Begun, IsQueue
<1>4. /\ DOMAIN r = DOMAIN q /\ r.tasks = q.tasks /\ r.active = q.active /\ r.fields = q.fields
      /\ r.waiting = q.waiting /\ r.running = q.running /\ r.isLocked = TRUE
      /\ r.nextId = q.nextId
      /\ (r.urgent = q.urgent \/ r.urgent = Append(q.urgent, Start))
  <2> HIDE DEF a
  <2> QED
    BY <1>1, <1>3 DEF TryStartTransfer, AddUrgent, InOrder, Good, Begun, IsQueue
<1> HIDE DEF r
<1>5. IsSequence(q.urgent) /\ IsSequence(q.waiting)
  BY <1>1 DEF InOrder, Good, Begun, Handlers
<1>6. /\ IsSequence(r.urgent)
      /\ \A h : Holds(q.urgent, h) => Holds(r.urgent, h)
      /\ \A h : Holds(r.urgent, h) => Holds(q.urgent, h) \/ h = Start \/ \E id : h = AbortOf(id)
  <2>1. CASE r.urgent = q.urgent
    BY <1>5, <2>1
  <2>2. CASE r.urgent = Append(q.urgent, Start)
    BY <1>5, <2>2, AppendHolds
  <2> QED
    BY <1>4, <2>1, <2>2
<1>7. InOrder(r, interval) /\ Faithful(q, r)
  BY <1>1, <1>4, <1>5, <1>6, AddedGood
<1>8. Faithful(queue, r)
  BY <1>1, <1>7, FaithfulSteps
<1>9. InOrder(RunNext(r), interval) /\ Faithful(r, RunNext(r))
  BY <1>7, NextInOrder
<1> QED
  BY <1>2, <1>8, <1>9, FaithfulSteps

\* The lock as the device tells it: an abort is added when it is lost.
LEMMA AbortedGood ==
    ASSUME NEW q, NEW locked, NEW on, InOrder(q, on), ~q.isLocked \/ locked
    PROVE  LET r == [q EXCEPT !.isLocked = locked] IN InOrder(r, on) /\ Faithful(q, r)
<1> DEFINE r == [q EXCEPT !.isLocked = locked]
<1>1. /\ DOMAIN r = DOMAIN q /\ r.tasks = q.tasks /\ r.active = q.active /\ r.fields = q.fields
      /\ r.urgent = q.urgent /\ r.waiting = q.waiting /\ r.running = q.running
      /\ r.isLocked = locked /\ r.nextId = q.nextId
  BY DEF InOrder, Good, Begun, IsQueue
<1> HIDE DEF r
<1>2. IsSequence(r.urgent) /\ IsSequence(r.waiting)
  BY <1>1 DEF InOrder, Good, Begun, Handlers
<1>3. InOrder(r, on) /\ Faithful(q, r)
  BY <1>1, <1>2, AddedGood
<1> QED
  BY <1>3 DEF r

\* An abort of the active transfer is added.
LEMMA TryAbortGood ==
    ASSUME NEW q, NEW a, NEW on, InOrder(q, on),
           DOMAIN a = DOMAIN q, a.tasks = q.tasks, a.active = q.active, a.fields = q.fields,
           a.urgent = q.urgent, a.waiting = q.waiting, a.running = q.running, a.nextId = q.nextId
    PROVE  InOrder(TryAbortTransfer(a), on) /\ Faithful(q, TryAbortTransfer(a))
<1> DEFINE r == TryAbortTransfer(a)
<1>1. IsActive(a) = IsActive(q)
  BY DEF IsActive
<1>2. /\ DOMAIN r = DOMAIN q /\ r.tasks = q.tasks /\ r.active = q.active /\ r.fields = q.fields
      /\ r.waiting = q.waiting /\ r.running = q.running /\ r.isLocked = a.isLocked
      /\ r.nextId = q.nextId
      /\ r.urgent = IF IsActive(q) THEN Append(q.urgent, AbortOf(q.active.id)) ELSE q.urgent
  BY <1>1 DEF TryAbortTransfer, AddUrgent, InOrder, Good, Begun, IsQueue
<1> HIDE DEF r
<1>3. IsSequence(q.urgent) /\ IsSequence(q.waiting)
  BY DEF InOrder, Good, Begun, Handlers
<1>4. /\ IsSequence(r.urgent) /\ IsSequence(r.waiting)
      /\ \A h : Holds(q.urgent, h) => Holds(r.urgent, h)
      /\ \A h : Holds(r.urgent, h) => Holds(q.urgent, h) \/ h = Start \/ \E id : h = AbortOf(id)
      /\ (IsActive(q) => Holds(r.urgent, AbortOf(q.active.id)))
  BY <1>2, <1>3, AppendHolds
<1>5. InOrder(r, on) /\ Faithful(q, r)
  BY <1>2, <1>4, AddedGood
<1> QED
  BY <1>5 DEF r

\* The device tells the state of the lock.
LEMMA UpdateLockGood ==
    ASSUME InOrder(queue, interval), NEW locked, UpdateLock(locked)
    PROVE  InOrder(queue', interval') /\ Faithful(queue, queue')
<1> DEFINE q == Fresh
           a == [q EXCEPT !.isLocked = locked]
<1>1. InOrder(q, interval) /\ Faithful(queue, q) /\ SameTransfers(queue, q)
  BY UnsentGood DEF Fresh
<1>2. /\ queue' = IF queue.isLocked /\ ~locked THEN RunNext(TryAbortTransfer(a)) ELSE a
      /\ interval' = interval
  BY DEF UpdateLock
<1> HIDE DEF q
<1>3. q.isLocked = queue.isLocked
  BY <1>1 DEF SameTransfers
<1>4. CASE queue.isLocked /\ ~locked
  <2>1. /\ DOMAIN a = DOMAIN q /\ a.tasks = q.tasks /\ a.active = q.active /\ a.fields = q.fields
        /\ a.urgent = q.urgent /\ a.waiting = q.waiting /\ a.running = q.running
        /\ a.nextId = q.nextId
    BY <1>1 DEF InOrder, Good, Begun, IsQueue
  <2> HIDE DEF a
  <2> DEFINE r == TryAbortTransfer(a)
  <2>2. InOrder(r, interval) /\ Faithful(q, r)
    BY <1>1, <2>1, TryAbortGood
  <2>3. queue' = RunNext(r) /\ interval' = interval
    BY <1>2, <1>4
  <2> HIDE DEF r
  <2>4. InOrder(RunNext(r), interval) /\ Faithful(r, RunNext(r))
    BY <2>2, NextInOrder
  <2>5. Faithful(queue, r)
    BY <1>1, <2>2, FaithfulSteps
  <2> QED
    BY <2>3, <2>4, <2>5, FaithfulSteps
<1>5. CASE ~(queue.isLocked /\ ~locked)
  <2>1. ~q.isLocked \/ locked
    BY <1>3, <1>5
  <2>2. InOrder(a, interval) /\ Faithful(q, a)
    BY <1>1, <2>1, AbortedGood
  <2> HIDE DEF a
  <2> QED
    BY <1>1, <1>2, <1>5, <2>2, FaithfulSteps
<1> QED
  BY <1>4, <1>5

\* A command of the device arrives.
LEMMA HandleReceivedGood ==
    ASSUME InOrder(queue, interval), NEW command, HandleReceived(command)
    PROVE  InOrder(queue', interval') /\ Faithful(queue, queue')
<1> DEFINE q == Fresh
           r == AddCommand(q, command)
<1>1. InOrder(q, interval) /\ Faithful(queue, q)
  BY UnsentGood DEF Fresh
<1>2. (queue' = RunNext(r) \/ queue' = q) /\ interval' = interval
  BY DEF HandleReceived
<1> HIDE DEF q
<1>3. /\ DOMAIN r = DOMAIN q /\ r.tasks = q.tasks /\ r.active = q.active /\ r.fields = q.fields
      /\ r.urgent = q.urgent /\ r.running = q.running /\ r.isLocked = q.isLocked
      /\ r.nextId = q.nextId
      /\ r.waiting = Append(q.waiting, Handle(command))
  BY <1>1 DEF AddCommand, InOrder, Good, Begun, IsQueue
<1> HIDE DEF r
<1>4. IsSequence(q.urgent) /\ IsSequence(q.waiting)
  BY <1>1 DEF InOrder, Good, Begun, Handlers
<1>5. /\ IsSequence(r.urgent) /\ IsSequence(r.waiting)
      /\ \A h : Holds(r.waiting, h) => Holds(q.waiting, h) \/ \E c : h = Handle(c)
  BY <1>3, <1>4, AppendHolds
<1>6. InOrder(r, interval) /\ Faithful(q, r)
  BY <1>1, <1>3, <1>5, AddedGood
<1>7. InOrder(RunNext(r), interval) /\ Faithful(r, RunNext(r))
  BY <1>6, NextInOrder
<1>8. Faithful(queue, r)
  BY <1>1, <1>6, FaithfulSteps
<1>9. Faithful(queue, RunNext(r))
  BY <1>7, <1>8, FaithfulSteps
<1> QED
  BY <1>1, <1>2, <1>7, <1>9

\* The interval ticks: commands are taken, or the finished transfer ends.
LEMMA TickGood ==
    ASSUME InOrder(queue, interval), IdIsFree(queue), Tick
    PROVE  InOrder(queue', interval') /\ Faithful(queue, queue')
<1> DEFINE q == Fresh
<1>1. InOrder(q, interval) /\ Faithful(queue, q) /\ SameTransfers(queue, q) /\ q.running = queue.running
  BY UnsentGood DEF Fresh
<1>2. CASE queue.active.queuedCommands = <<>> /\ queue.active.state = "Finished"
  <2> DEFINE r == EndActive(q)
  <2>1. queue' = RunNext(r) /\ interval' = interval
    BY <1>2 DEF Tick
  <2> HIDE DEF q
  <2>2. IsActive(q) /\ q.active.state = "Finished" /\ IdIsFree(q)
    BY <1>1, <1>2 DEF Tick, SameTransfers, IsActive, IdIsFree, Waits
  <2>3. Settled(q, q.active.of)
    BY <1>1, <2>2 DEF InOrder, Good, Begun, FinishedIsSettled
  <2>4. InOrder(r, interval) /\ Faithful(q, r)
    <3>1. Good(r) /\ Faithful(q, r)
      BY <1>1, <2>2, <2>3, EndGood DEF InOrder, Good
    <3>2. q.running.wait # "store" /\ IsQueue(q) /\ Numbered(q, interval)
      BY <1>1 DEF Tick, MayInterrupt, InOrder, Good, Begun
    <3> QED
      BY <3>1, <3>2, EndNumbers DEF InOrder
  <2> HIDE DEF r
  <2>5. InOrder(RunNext(r), interval) /\ Faithful(r, RunNext(r))
    BY <2>4, NextInOrder
  <2>6. Faithful(queue, r)
    BY <1>1, <2>4, FaithfulSteps
  <2> QED
    BY <2>1, <2>5, <2>6, FaithfulSteps
<1>3. CASE ~(queue.active.queuedCommands = <<>> /\ queue.active.state = "Finished")
  <2> DEFINE r == [q EXCEPT !.active.queuedCommands = SubSeq(@, Len(Popped) + 1, Len(@))]
  <2>1. queue' = r /\ interval' = interval
    BY <1>3 DEF Tick
  <2> HIDE DEF q
  <2>2. /\ DOMAIN r = DOMAIN q /\ r.tasks = q.tasks /\ r.fields = q.fields
        /\ r.urgent = q.urgent /\ r.waiting = q.waiting /\ r.running = q.running
        /\ r.isLocked = q.isLocked /\ r.nextId = q.nextId
        /\ DOMAIN r.active = DOMAIN q.active /\ r.active.of = q.active.of
        /\ r.active.id = q.active.id /\ r.active.state = q.active.state
    BY <1>1 DEF InOrder, Good, Begun, IsQueue
  <2> HIDE DEF r
  <2>3. IsQueue(r) /\ Handlers(r)
    BY <1>1, <2>2 DEF InOrder, Good, Begun, IsQueue, Handlers
  <2>4. \A u : Held(q, u) <=> Held(r, u)
    BY <2>2, SameHeldOf
  <2>5. Faithful(q, r) /\ Kept(r)
    BY <1>1, <2>2, <2>4 DEF InOrder, Good, Begun, Kept, Faithful, Settled
  <2>6. FinishedIsSettled(r) /\ StoreIsSettled(r) /\ OwnFrame(r) /\ LosesFile(r)
    BY <1>1, <2>2 DEF InOrder, Good, Begun, FinishedIsSettled, StoreIsSettled, OwnFrame, LosesFile,
       IsActive, Settled
  <2>7. InOrder(r, interval) /\ Faithful(queue, r)
    <3>1. Numbered(r, interval)
      BY <1>1, <2>2, SameNumbers DEF InOrder
    <3> QED
      BY <1>1, <2>3, <2>5, <2>6, <3>1, FaithfulSteps DEF InOrder, Good, Begun
  <2> QED
    BY <2>1, <2>7
<1> QED
  BY <1>2, <1>3

\* Sending failed: the active transfer is to be aborted.
LEMMA SendFailedGood ==
    ASSUME InOrder(queue, interval), SendFailed
    PROVE  InOrder(queue', interval') /\ Faithful(queue, queue')
<1> DEFINE q == Fresh
           r == TryAbortTransfer(q)
<1>1. InOrder(q, interval) /\ Faithful(queue, q)
  BY UnsentGood DEF Fresh
<1>2. queue' = RunNext(r) /\ interval' = interval
  BY DEF SendFailed
<1> HIDE DEF q
<1>3. InOrder(r, interval) /\ Faithful(q, r)
  BY <1>1, TryAbortGood
<1> HIDE DEF r
<1>4. InOrder(RunNext(r), interval) /\ Faithful(r, RunNext(r))
  BY <1>3, NextInOrder
<1>5. Faithful(queue, r)
  BY <1>1, <1>3, FaithfulSteps
<1> QED
  BY <1>2, <1>4, <1>5, FaithfulSteps

\* The interval starts or stops, and the queue is cleared.
LEMMA SendingGood ==
    ASSUME InOrder(queue, interval), StartCommandSending \/ StopCommandSending
    PROVE  InOrder(queue', interval') /\ Faithful(queue, queue')
<1> DEFINE q == Fresh
<1>1. InOrder(q, interval) /\ Faithful(queue, q) /\ q.running = queue.running
  BY UnsentGood DEF Fresh
<1>2. \/ queue' = q /\ interval' = interval
      \/ /\ queue' = ClearQueue(q)
         /\ q.running.wait = "store" => ~interval /\ interval'
  BY <1>1 DEF StartCommandSending, StopCommandSending, MayInterrupt
<1> HIDE DEF q
<1>3. CASE queue' = q /\ interval' = interval
  BY <1>1, <1>3
<1>4. CASE /\ queue' = ClearQueue(q)
           /\ q.running.wait = "store" => ~interval /\ interval'
  <2>1. Good(ClearQueue(q)) /\ Faithful(q, ClearQueue(q))
    BY <1>1, ClearGood DEF InOrder
  <2>2. Numbered(ClearQueue(q), interval')
    BY <1>1, <1>4, ClearNumbers DEF InOrder, Good, Begun
  <2>3. Faithful(queue, ClearQueue(q))
    BY <1>1, <2>1, FaithfulSteps
  <2> QED
    BY <1>4, <2>1, <2>2, <2>3 DEF InOrder
<1> QED
  BY <1>2, <1>3, <1>4

\* Every step of the event loop keeps the queue in order.
LEMMA QueueInOrder ==
    ASSUME InOrder(queue, interval), IdIsFree(queue), QueueStep
    PROVE  InOrder(queue', interval') /\ Faithful(queue, queue')
BY ResumeGood, EnqueueGood, LockObtainedGood, UpdateLockGood, HandleReceivedGood, TickGood,
   SendFailedGood, SendingGood DEF QueueStep

-----------------------------------------------------------------------------
(* The pool *)

\* A new queue is in order.
LEMMA NewQueueInOrder ==
    ASSUME PoolInit
    PROVE  InOrder(queue, interval)
<1>1. queue = NewQueue
  BY DEF PoolInit, QueueInit
<1>2. /\ DOMAIN queue = {"tasks", "active", "isLocked", "urgent", "waiting", "running", "nextId",
                         "lockCommands", "fields"}
      /\ queue.tasks = <<>> /\ queue.active = NoActive /\ queue.urgent = <<>>
      /\ queue.waiting = <<>> /\ queue.running = Idle
      /\ queue.fields = [t \in Transfers |-> NewTransfer]
  BY <1>1 DEF NewQueue
<1>3. NoActive.of = NoTransfer /\ DOMAIN NoActive = {"id", "of", "state", "queuedCommands"}
  BY DEF NoActive
<1>4. IsTransfer(NewTransfer)
  BY DEF IsTransfer, NewTransfer
<1>5. IsQueue(queue)
  BY <1>2, <1>3, <1>4 DEF IsQueue
<1>6. Handlers(queue)
  BY <1>2, ShortHolds DEF Handlers, Idle
<1>7. Kept(queue)
  BY <1>2 DEF Kept
<1>8. queue.nextId = 0
  BY <1>1 DEF NewQueue
<1>9. Numbered(queue, interval)
  BY <1>2, <1>3, <1>8, QueueAssumption DEF Numbered, Waits, Numbers, IsActive, Idle
<1> QED
  BY <1>2, <1>3, <1>5, <1>6, <1>7, <1>9
  DEF InOrder, Good, Begun, FinishedIsSettled, StoreIsSettled, OwnFrame, LosesFile, IsActive, Idle

\* The pool changes the queue only as its event loop does.
LEMMA PoolSteps ==
    ASSUME [PoolNext]_poolVars
    PROVE  QueueStep \/ UNCHANGED queueVars
<1>1. ASSUME UserEnqueues PROVE QueueStep
  BY <1>1 DEF UserEnqueues, ClientStep, QueueStep
<1>2. ASSUME HandlerResumes \/ IntervalTicks \/ SendingFails PROVE QueueStep
  BY <1>2 DEF HandlerResumes, IntervalTicks, SendingFails, ClientStep, QueueStep
<1>3. ASSUME ClientReceives PROVE QueueStep
  BY <1>3 DEF ClientReceives, QueueStep
<1>4. ASSUME LinkLost PROVE QueueStep
  BY <1>4 DEF LinkLost, QueueStep
<1>5. ASSUME \/ LinkOpens \/ LinkCloses \/ DeviceReceives \/ DeviceContinues \/ DeviceFails
             \/ OtherLocks \/ OtherUnlocks \/ DeviceRevokes
      PROVE  UNCHANGED queueVars
  BY <1>5 DEF LinkOpens, LinkCloses, DeviceReceives, DeviceContinues, DeviceFails, OtherLocks,
     OtherUnlocks, DeviceRevokes
<1>6. ASSUME UNCHANGED poolVars PROVE UNCHANGED queueVars
  BY <1>6 DEF poolVars
<1> QED
  BY <1>1, <1>2, <1>3, <1>4, <1>5, <1>6 DEF PoolNext


\* The number of a transfer that waits for a frame is not given out again before the
\* frame is there.
FrameIdIsFree ==
    queue.running.wait \in {"firstFrame", "nextFrame"} => queue.running.id # queue.nextId

\* Every step of the pool keeps the queue in order while the awaited frame's number is free.
LEMMA PoolStepInOrder ==
    ASSUME MaxTransferIndex >= 3, InOrder(queue, interval), FrameIdIsFree, [PoolNext]_poolVars
    PROVE  InOrder(queue', interval') /\ Faithful(queue, queue')
<1>1. IdIsFree(queue)
  BY StoreIdIsFree DEF IdIsFree, Waits, FrameIdIsFree, InOrder
<1>2. CASE QueueStep
  BY <1>1, <1>2, QueueInOrder
<1>3. CASE UNCHANGED queueVars
  BY <1>3 DEF queueVars, Faithful
<1> QED
  BY <1>2, <1>3, PoolSteps

\* The queue is always in order.
LEMMA PoolInOrder ==
    ASSUME MaxTransferIndex >= 3
    PROVE  PoolSpec /\ []FrameIdIsFree => []InOrder(queue, interval)
<1>1. PoolInit => InOrder(queue, interval)
  BY NewQueueInOrder
<1>2. InOrder(queue, interval) /\ FrameIdIsFree /\ [PoolNext]_poolVars => InOrder(queue, interval)'
  BY PoolStepInOrder
<1> QED
  BY <1>1, <1>2, PTL DEF PoolSpec

\* Nothing is forgotten: a transfer that was enqueued and whose promise is pending is the
\* active one or still to be run, whatever was aborted, lost or cleared in between
\* (dataTransferQueue.ts:37-51, 120-163, 178-216).  The hypotheses say that the ids have
\* not gone once around while a handler awaits a frame of its clip; the code has 65535.
THEOREM NothingIsLeftRunning ==
    ASSUME MaxTransferIndex >= 3
    PROVE  PoolSpec /\ []FrameIdIsFree => []NothingLeftRunning
<1>1. InOrder(queue, interval) => NothingLeftRunning
  BY DEF InOrder, Good, Begun, Kept, NothingLeftRunning, PromiseOf, Enqueued, Unused, Held, Holds,
     Settled
<1> QED
  BY <1>1, PoolInOrder, PTL

\* A transfer of one file does not go on once the lock is lost: it is over, waits for the
\* lock, or its abort is among the handlers (dataTransferQueue.ts:270-279, 155-163).
THEOREM LostLockAlwaysAborts ==
    ASSUME MaxTransferIndex >= 3
    PROVE  PoolSpec /\ []FrameIdIsFree => []LostLockAbortsFile
<1>1. InOrder(queue, interval) => LostLockAbortsFile
  BY DEF InOrder, Good, LosesFile, LostLockAbortsFile, LostLockAborts, Holds
<1> QED
  BY <1>1, PoolInOrder, PTL

\* The promise of a transfer settles once and for all, and a transfer that is active or to
\* be run leaves the queue only with its promise settled (dataTransfer.ts:34-54,
\* dataTransferQueue.ts:37-51, 120-163).
THEOREM PromisesAreFaithful ==
    ASSUME MaxTransferIndex >= 3
    PROVE  PoolSpec /\ []FrameIdIsFree => [][Faithful(queue, queue')]_poolVars
<1>1. InOrder(queue, interval) /\ FrameIdIsFree /\ [PoolNext]_poolVars
      => [Faithful(queue, queue')]_poolVars
  BY PoolStepInOrder
<1> QED
  BY <1>1, PoolInOrder, PTL DEF PoolSpec

\* Without clips no handler awaits a frame, and all of this holds as long as there are four
\* ids: nothing is left running, every transfer whose lock is lost is aborted, and promises
\* are faithful (dataTransferQueue.ts:37-51, 155-163, 270-279).
THEOREM FilePoolsAreInOrder ==
    ASSUME MaxTransferIndex >= 3, \A t \in Transfers : Kind[t] # "clip"
    PROVE  PoolSpec => /\ []NothingLeftRunning /\ []LostLockAborts
                       /\ [][Faithful(queue, queue')]_poolVars
<1>1. InOrder(queue, interval) => FrameIdIsFree /\ NothingLeftRunning
  BY DEF InOrder, Good, Begun, OwnFrame, FrameIdIsFree, Kept, NothingLeftRunning, PromiseOf, Enqueued,
     Unused, Held, Holds, Settled
<1>2. InOrder(queue, interval) => LostLockAborts
  BY DEF InOrder, Good, Begun, IsQueue, LosesFile, LostLockAborts, Holds, IsActive
<1>3. PoolInit => InOrder(queue, interval)
  BY NewQueueInOrder
<1>4. InOrder(queue, interval) /\ [PoolNext]_poolVars
      => InOrder(queue, interval)' /\ [Faithful(queue, queue')]_poolVars
  BY <1>1, PoolStepInOrder
<1> QED
  BY <1>1, <1>2, <1>3, <1>4, PTL DEF PoolSpec
=============================================================================
