---------------------------- MODULE PoolLockProofs ----------------------------
(***************************************************************************)
(* The lock of a media pool, for every number of transfers, chunks and     *)
(* ids.  First the queue: what each step does to whether it is locked, has *)
(* an active transfer and owes the device a request or a return (Calm).    *)
(* Then both ends of the connection: what travels to the device is covered *)
(* by the lock, and what it answers agrees with what the queue believes    *)
(* (LockInOrder).  From it follow the promises a client with the pool to   *)
(* itself makes: no request without the lock, and no lock it keeps.        *)
(***************************************************************************)
EXTENDS MediaPoolProofs

-----------------------------------------------------------------------------
(* The pool's lock *)

\* What the queue's commands rest on: counts are numbers, and what it lets the interval
\* send are no lock commands.
Counted(command) == command.type = "continue" => command.count \in Nat

Orders(s) == IsSequence(s) /\ \A i \in DOMAIN s : s[i].type # "lock"

Typed(q) ==
    /\ \A t \in Transfers : q.fields[t].moved \in Int
    /\ Orders(q.active.queuedCommands)
    /\ q.running.wait = "store" => Orders(q.running.result.commands)
    /\ q.running.wait = "nextFrame" => Orders(q.running.commands)
    /\ \A h : Holds(q.waiting, h) => Counted(h.command)

\* The running handler will find the active transfer its own.
Own(q) == Waits(q) /\ IsActive(q) /\ q.running.id = q.active.id

\* A transfer whose start got no further than its first request, and that received nothing.
Beginning == {"Pending", "Ready"}
Young(q) ==
    /\ IsActive(q) /\ q.waiting = <<>> /\ q.active.state \in Beginning
    /\ Own(q) => \/ q.running.wait = "firstFrame"
                 \/ /\ q.running.wait = "store"
                    /\ q.running.result.newState \in Beginning

\* A handler that only waits to ask for the lock, and a transfer that needs the lock.
OnlyAsks(q) ==
    /\ q.running.wait = "store" /\ q.running.result.newState = "Pending"
    /\ q.running.result.commands = <<>>
Goes(q) ==
    \/ q.active.state # "Pending"
    \/ q.active.queuedCommands # <<>>
    \/ Own(q) /\ ~OnlyAsks(q)

\* The queue while the connection lasts: what needs the lock has it, and who has no more to
\* do keeps no lock.
Calm(q) ==
    /\ ~IsActive(q) => q.tasks = <<>> /\ ~q.isLocked
    /\ q.running.wait = "store" => Own(q)
    /\ q.urgent \in {<<>>, <<Start>>}
    /\ q.urgent # <<>> => IsActive(q) /\ ~Goes(q)
    /\ IsActive(q) /\ Goes(q) => q.isLocked
    /\ IsActive(q) /\ ~q.isLocked => Young(q)

\* What a turn of the handlers does about the lock.
Turns(q, r) ==
    /\ r.tasks = q.tasks /\ r.isLocked = q.isLocked /\ (IsActive(r) <=> IsActive(q))
    /\ r.active.id = q.active.id
    /\ \/ r.lockCommands = q.lockCommands /\ (q.urgent = <<>> => r.urgent = <<>>)
       \/ /\ r.lockCommands = Append(q.lockCommands, TRUE)
          /\ q.urgent # <<>> /\ r.urgent = <<>> /\ ~q.isLocked
    /\ Young(q) => Young(r)

\* The start of the active transfer begins.
LEMMA StartCalm ==
    ASSUME Locking, NEW q, IsQueue(q), Handlers(q), Calm(q), q.urgent # <<>>, q.running = Idle
    PROVE  LET r == BeginStart([q EXCEPT !.urgent = Tail(@)])
           IN  Calm(r) /\ Turns(q, r)
<1> DEFINE a == [q EXCEPT !.urgent = Tail(@)]
           r == BeginStart(a)
           lock == Progress(Active(a), "Pending", <<>>)
           start == StartBuffer(a.active.of, Active(a), a.active.id)
<1>1. q.urgent = <<Start>> /\ Tail(<<Start>>) = <<>>
  BY DEF Calm
<1>2. /\ DOMAIN a = DOMAIN q /\ a.urgent = <<>> /\ a.running = Idle
      /\ a.tasks = q.tasks /\ a.active = q.active /\ a.isLocked = q.isLocked
      /\ a.waiting = q.waiting /\ a.lockCommands = q.lockCommands
  BY <1>1 DEF IsQueue
<1> HIDE DEF a
<1>3. IsActive(q) /\ IsActive(a) /\ ~Goes(q) /\ q.active.state = "Pending"
      /\ q.active.queuedCommands = <<>>
  BY <1>1, <1>2 DEF Calm, Goes, IsActive
<1>4. /\ lock.newState = "Pending" /\ lock.commands = <<>>
      /\ start.newState = "Ready"
  BY DEF Progress, StartBuffer
<1> HIDE DEF lock, start
<1>5. \/ /\ ~q.isLocked /\ r.lockCommands = Append(q.lockCommands, TRUE)
         /\ r.running = Storing(a, lock)
      \/ /\ q.isLocked /\ r.lockCommands = q.lockCommands
         /\ r.running \in {FirstFrame(a), Storing(a, start)}
  BY <1>2, <1>3 DEF BeginStart, SendLock, lock, start, IsQueue
<1>6. /\ r.tasks = q.tasks /\ r.active = q.active /\ r.isLocked = q.isLocked
      /\ r.waiting = q.waiting /\ r.urgent = <<>>
  BY <1>2, <1>3 DEF BeginStart, SendLock, IsQueue
<1> HIDE DEF r
<1>7. /\ Storing(a, lock).wait = "store" /\ Storing(a, lock).id = q.active.id
      /\ Storing(a, lock).result = lock
      /\ Storing(a, start).wait = "store" /\ Storing(a, start).id = q.active.id
      /\ Storing(a, start).result = start
      /\ FirstFrame(a).wait = "firstFrame" /\ FirstFrame(a).id = q.active.id
  BY <1>2 DEF Storing, FirstFrame
<1>8. IsActive(r) /\ Own(r) /\ Waits(r) /\ r.active.state = "Pending"
  BY <1>3, <1>5, <1>6, <1>7 DEF IsActive, Own, Waits
<1>9. ~q.isLocked => OnlyAsks(r) /\ ~Goes(r)
  BY <1>3, <1>4, <1>5, <1>6, <1>7 DEF OnlyAsks, Goes
<1>10. \/ r.running.wait = "firstFrame"
       \/ r.running.wait = "store" /\ r.running.result.newState \in Beginning
  BY <1>4, <1>5, <1>7 DEF Beginning
<1>11. Young(q) => Young(r)
  BY <1>6, <1>8, <1>10 DEF Young
<1>12. IsActive(r) /\ ~r.isLocked => Young(r)
  BY <1>3, <1>6, <1>11 DEF Calm
<1>13. Calm(r)
  BY <1>6, <1>8, <1>9, <1>12 DEF Calm
<1> QED
  BY <1>1, <1>3, <1>5, <1>6, <1>8, <1>11, <1>13 DEF Turns, r, a

\* A command begins to be handled, which only a transfer that has the lock receives.
LEMMA HandleCalm ==
    ASSUME NEW q, NEW command, IsQueue(q), Handlers(q), Calm(q), q.waiting # <<>>, q.running = Idle
    PROVE  LET r == BeginHandle([q EXCEPT !.waiting = Tail(@)], command)
           IN  Calm(r) /\ Turns(q, r)
<1> DEFINE a == [q EXCEPT !.waiting = Tail(@)]
           r == BeginHandle(a, command)
<1>1. /\ DOMAIN a = DOMAIN q /\ a.urgent = q.urgent /\ a.running = Idle
      /\ a.tasks = q.tasks /\ a.active = q.active /\ a.isLocked = q.isLocked
      /\ a.lockCommands = q.lockCommands
  BY DEF IsQueue
<1> HIDE DEF a
<1>2. ~Young(q)
  BY DEF Young
<1>3. IsActive(q) => q.isLocked
  BY <1>2 DEF Calm
<1>4. IsActive(a) <=> IsActive(q)
  BY <1>1 DEF IsActive
<1>5. /\ r.tasks = q.tasks /\ r.active = q.active /\ r.isLocked = q.isLocked
      /\ r.urgent = q.urgent /\ r.lockCommands = q.lockCommands
      /\ \/ r.running = Returning
         \/ /\ IsActive(q) /\ q.active.state # "Pending"
            /\ r.running.wait \in {"store", "nextFrame"} /\ r.running.id = q.active.id
  <2>1. CASE \/ ~IsActive(a) \/ a.active.id # command.id \/ a.active.state = "Pending"
    <3>1. r = [a EXCEPT !.running = Returning]
      BY <2>1 DEF BeginHandle
    <3> QED
      BY <1>1, <3>1 DEF IsQueue
  <2>2. CASE ~(\/ ~IsActive(a) \/ a.active.id # command.id \/ a.active.state = "Pending")
    <3> DEFINE result == HandleCommand(a.active.of, Active(a), command, a.active.state)
               next == IF result.frameDone THEN FrameAfter(a, result) ELSE Storing(a, result)
    <3>1. r = [a EXCEPT !.fields[a.active.of] = result.fields, !.running = next]
      BY <2>2 DEF BeginHandle
    <3>2. next.wait \in {"store", "nextFrame"} /\ next.id = a.active.id
      BY DEF FrameAfter, Storing
    <3> HIDE DEF next, result, r
    <3>3. /\ r.tasks = a.tasks /\ r.active = a.active /\ r.isLocked = a.isLocked
          /\ r.urgent = a.urgent /\ r.lockCommands = a.lockCommands /\ r.running = next
      BY <1>1, <3>1 DEF IsQueue
    <3> QED
      BY <1>1, <1>4, <2>2, <3>2, <3>3
  <2> QED
    BY <2>1, <2>2
<1> HIDE DEF r
<1>6. IsActive(r) <=> IsActive(q)
  BY <1>5 DEF IsActive
<1>7. r.running.wait = "store" => Own(r)
  BY <1>5, <1>6 DEF Own, Waits, Returning
<1>8. q.urgent # <<>> => ~Goes(r)
  BY <1>5 DEF Calm, Goes, Own, Waits, Returning
<1>9. Calm(r)
  BY <1>3, <1>5, <1>6, <1>7, <1>8 DEF Calm
<1>10. Turns(q, r)
  BY <1>2, <1>5, <1>6 DEF Turns
<1> QED
  BY <1>9, <1>10 DEF r, a

\* An idle queue begins its next handler.
LEMMA RunNextCalm ==
    ASSUME Locking, NEW q, IsQueue(q), Handlers(q), Calm(q)
    PROVE  Calm(RunNext(q)) /\ Turns(q, RunNext(q))
<1>1. CASE q.running # Idle \/ (q.urgent = <<>> /\ q.waiting = <<>>)
  BY <1>1 DEF RunNext, Turns
<1>2. CASE q.running = Idle /\ q.urgent # <<>>
  <2>1. q.urgent = <<Start>> /\ Head(<<Start>>) = Start /\ Start.do = "start"
    BY <1>2 DEF Calm, Start
  <2>2. RunNext(q) = BeginStart([q EXCEPT !.urgent = Tail(@)])
    BY <1>2, <2>1 DEF RunNext, Begin
  <2> QED
    BY <1>2, <2>2, StartCalm
<1>3. CASE q.running = Idle /\ q.urgent = <<>> /\ q.waiting # <<>>
  <2>1. PICK command : Head(q.waiting) = Handle(command)
    <3>1. Holds(q.waiting, Head(q.waiting))
      BY <1>3, TailHolds DEF Handlers
    <3> QED
      BY <3>1 DEF Handlers
  <2>2. Handle(command).do = "handle" /\ Handle(command).command = command
    BY DEF Handle
  <2>3. RunNext(q) = BeginHandle([q EXCEPT !.waiting = Tail(@)], command)
    BY <1>3, <2>1, <2>2 DEF RunNext, Begin
  <2> QED
    BY <1>3, <2>3, HandleCalm
<1> QED
  BY <1>1, <1>2, <1>3
\* A result adds its commands to the active transfer's.
LEMMA StoreSends ==
    ASSUME NEW q, NEW id, NEW result,
           DOMAIN q = {"tasks", "active", "isLocked", "urgent", "waiting", "running", "nextId",
                       "lockCommands", "fields"},
           DOMAIN q.active = {"id", "of", "state", "queuedCommands"}
    PROVE  LET r == StoreResult(q, id, result)
           IN  /\ r.lockCommands = q.lockCommands /\ r.running = q.running
               /\ r.nextId = q.nextId
               /\ r.active.queuedCommands = IF IsActive(q) /\ q.active.id = id
                                            THEN q.active.queuedCommands \o result.commands
                                            ELSE q.active.queuedCommands
<1> DEFINE r == StoreResult(q, id, result)
<1>1. CASE IsActive(q) /\ q.active.id = id
  <2>1. r = [q EXCEPT !.active.state = result.newState,
                      !.active.queuedCommands = @ \o result.commands]
    BY <1>1 DEF StoreResult
  <2> HIDE DEF r
  <2>2. /\ r.lockCommands = q.lockCommands /\ r.running = q.running /\ r.nextId = q.nextId
        /\ r.active.queuedCommands = q.active.queuedCommands \o result.commands
    BY <2>1
  <2> QED
    BY <1>1, <2>2 DEF r
<1>2. CASE ~(IsActive(q) /\ q.active.id = id)
  BY <1>2 DEF StoreResult
<1> QED
  BY <1>1, <1>2

\* A handler is done: nothing about the lock, and its result is the active transfer's only
\* if that is its own.
Rests(q, r) ==
    /\ r.running = Idle /\ r.tasks = q.tasks /\ r.isLocked = q.isLocked
    /\ r.urgent = q.urgent /\ r.waiting = q.waiting /\ r.lockCommands = q.lockCommands
    /\ (IsActive(r) <=> IsActive(q))
    /\ ~(Own(q) /\ q.running.wait = "nextFrame") => r.active.id = q.active.id
    /\ ~Own(q) => r.active = q.active
    /\ Own(q) /\ q.running.wait = "store" =>
           /\ r.active.state = q.running.result.newState
           /\ r.active.queuedCommands = q.active.queuedCommands \o q.running.result.commands
    /\ Own(q) /\ q.running.wait = "firstFrame" => r.active.state \in {q.active.state, "Ready"}

\* A queue that rests is as calm as before.
LEMMA RestsCalm ==
    ASSUME NEW q, NEW r, Good(q), Calm(q), Rests(q, r)
    PROVE  Calm(r) /\ (Young(q) => Young(r))
<1>1. ~Own(r) /\ r.running.wait = "idle"
  BY DEF Rests, Own, Waits, Idle
<1>2. ASSUME Young(q)
      PROVE  Young(r)
  <2>1. r.active.state \in Beginning
    <3>1. CASE ~Own(q)
      BY <1>2, <3>1 DEF Young, Rests
    <3>2. CASE Own(q) /\ q.running.wait = "firstFrame"
      BY <1>2, <3>2 DEF Young, Rests, Beginning
    <3>3. CASE Own(q) /\ q.running.wait = "store"
      BY <1>2, <3>3 DEF Young, Rests
    <3> QED
      BY <1>2, <3>1, <3>2, <3>3 DEF Young
  <2> QED
    BY <1>1, <1>2, <2>1 DEF Young, Rests
<1>3. ASSUME ~Goes(q)
      PROVE  ~Goes(r)
  <2>1. CASE ~Own(q)
    BY <1>1, <1>3, <2>1 DEF Goes, Rests
  <2>2. CASE Own(q)
    <3>1. /\ OnlyAsks(q) /\ q.active.queuedCommands = <<>>
      BY <1>3, <2>2 DEF Goes
    <3>2. <<>> \o <<>> = <<>>
      OBVIOUS
    <3>3. r.active.state = "Pending" /\ r.active.queuedCommands = <<>> \o <<>>
      BY <2>2, <3>1 DEF Rests, OnlyAsks
    <3> QED
      BY <1>1, <3>2, <3>3 DEF Goes
  <2> QED
    BY <2>1, <2>2
<1> QED
  BY <1>1, <1>2, <1>3 DEF Calm, Rests

\* What a handler that waited for the next frame leaves alone, and what it adds.
LEMMA NextFrameStays ==
    ASSUME NEW q, Good(q), q.running.wait = "nextFrame"
    PROVE  LET a == ResumeNextFrame(q)
               t == q.running.of
               x == q.fields[t]
               result == IF FramesLeft(t, x) THEN NextFrame(t, x, q.nextId) ELSE LastFrameDone(x)
           IN  /\ SameHandlers(q, a) /\ a.lockCommands = q.lockCommands
               /\ a.active.of = q.active.of /\ (~Own(q) => a.active = q.active)
               /\ t \in Transfers
               /\ a.fields = [q.fields EXCEPT ![t] = result.fields]
               /\ a.active.queuedCommands =
                      IF Own(q) THEN q.active.queuedCommands
                                         \o (q.running.commands \o result.commands)
                                ELSE q.active.queuedCommands
<1> DEFINE t == q.running.of
           x == q.fields[t]
           id == q.running.id
           result == IF FramesLeft(t, x) THEN NextFrame(t, x, q.nextId) ELSE LastFrameDone(x)
           other == [result EXCEPT !.commands = q.running.commands \o @]
           b == StoreFields(q, t, result)
           c == StoreResult(b, id, other)
           a == ResumeNextFrame(q)
<1>0. /\ DOMAIN q = {"tasks", "active", "isLocked", "urgent", "waiting", "running", "nextId",
                     "lockCommands", "fields"}
      /\ DOMAIN q.active = {"id", "of", "state", "queuedCommands"}
      /\ t \in Transfers
  BY DEF Good, Begun, IsQueue, OwnFrame
<1>1. other.commands = q.running.commands \o result.commands
  <2>1. CASE FramesLeft(t, x)
    BY <2>1 DEF NextFrame, StartBuffer, Progress
  <2>2. CASE ~FramesLeft(t, x)
    BY <2>2 DEF LastFrameDone, Progress
  <2> QED
    BY <2>1, <2>2
<1>2. a = IF FramesLeft(t, x) THEN StoreNewId(TakeId(c), id, q.nextId) ELSE c
  BY DEF ResumeNextFrame
<1>3. Own(q) <=> IsActive(q) /\ q.active.id = id
  BY DEF Own, Waits
<1> HIDE DEF other, result, a, t
<1>4. /\ DOMAIN b = DOMAIN q /\ b.tasks = q.tasks /\ b.isLocked = q.isLocked
      /\ b.urgent = q.urgent /\ b.waiting = q.waiting /\ b.lockCommands = q.lockCommands
      /\ b.active = q.active /\ b.fields = [q.fields EXCEPT ![t] = result.fields]
  BY <1>0 DEF StoreFields
<1> HIDE DEF b, id
<1>5. /\ SameHandlers(b, c) /\ c.fields = b.fields
      /\ DOMAIN c.active = DOMAIN b.active /\ c.active.of = b.active.of
      /\ c.active.id = b.active.id
  BY <1>0, <1>4, StoreEffect
<1>6. /\ c.lockCommands = b.lockCommands
      /\ c.active.queuedCommands = IF IsActive(b) /\ b.active.id = id
                                   THEN b.active.queuedCommands \o other.commands
                                   ELSE b.active.queuedCommands
  BY <1>0, <1>4, StoreSends
<1>7. ~Own(q) => c.active = q.active
  BY <1>3, <1>4 DEF StoreResult, IsActive
<1> HIDE DEF c
<1>8. /\ SameHandlers(q, c) /\ c.lockCommands = q.lockCommands
      /\ c.active.of = q.active.of /\ c.active.id = q.active.id
      /\ DOMAIN c.active = DOMAIN q.active
      /\ c.fields = [q.fields EXCEPT ![t] = result.fields]
      /\ c.active.queuedCommands =
             IF Own(q) THEN q.active.queuedCommands \o (q.running.commands \o result.commands)
                       ELSE q.active.queuedCommands
  BY <1>1, <1>3, <1>4, <1>5, <1>6 DEF SameHandlers, IsActive
<1> DEFINE commands == q.active.queuedCommands \o (q.running.commands \o result.commands)
           fields == [q.fields EXCEPT ![t] = result.fields]
<1> HIDE DEF commands, fields
<1>9. a = c \/ a = StoreNewId(TakeId(c), id, q.nextId)
  BY <1>2
<1>10. CASE a = c
  BY <1>0, <1>7, <1>8, <1>10 DEF a, t, x, result
<1>11. CASE a = StoreNewId(TakeId(c), id, q.nextId)
  <2> DEFINE d == TakeId(c)
  <2>1. /\ SameHandlers(q, d) /\ d.active = c.active /\ d.fields = c.fields
        /\ d.lockCommands = c.lockCommands
    BY <1>0, <1>8 DEF SameHandlers, TakeId
  <2>2. a = StoreNewId(d, id, q.nextId)
    BY <1>11
  <2> HIDE DEF d
  <2>3. IsActive(d) /\ d.active.id = id <=> Own(q)
    BY <1>3, <1>8, <2>1 DEF IsActive
  <2>4. CASE ~Own(q)
    <3>1. a = d
      BY <2>2, <2>3, <2>4 DEF StoreNewId
    <3> QED
      BY <1>0, <1>7, <1>8, <2>1, <2>4, <3>1 DEF a, t, x, result
  <2>5. CASE Own(q)
    <3>1. a = [d EXCEPT !.active.id = q.nextId]
      BY <2>2, <2>3, <2>5 DEF StoreNewId
    <3>2. DOMAIN d = DOMAIN q /\ DOMAIN d.active = DOMAIN q.active
      BY <1>8, <2>1 DEF SameHandlers
    <3>3. /\ SameHandlers(q, a) /\ a.fields = d.fields /\ a.lockCommands = d.lockCommands
          /\ a.active.of = d.active.of /\ a.active.queuedCommands = d.active.queuedCommands
      BY <1>0, <2>1, <3>1, <3>2 DEF SameHandlers
    <3> QED
      BY <1>0, <1>8, <2>1, <2>5, <3>3 DEF a, t, x, result
  <2> QED
    BY <2>4, <2>5
<1> QED
  BY <1>9, <1>10, <1>11

\* A handler goes on and ends.
LEMMA ResumedRests ==
    ASSUME NEW q, Good(q), q.running # Idle
    PROVE  Rests(q, HandlerDone(Resumed(q)))
<1> DEFINE a == Resumed(q)
           r == HandlerDone(a)
           id == q.running.id
<1>0. /\ DOMAIN q = {"tasks", "active", "isLocked", "urgent", "waiting", "running", "nextId",
                     "lockCommands", "fields"}
      /\ DOMAIN q.active = {"id", "of", "state", "queuedCommands"}
  BY DEF Good, Begun, IsQueue
<1>1. ASSUME SameHandlers(q, a), a.lockCommands = q.lockCommands
      PROVE  /\ r.running = Idle /\ r.tasks = q.tasks /\ r.isLocked = q.isLocked
             /\ r.urgent = q.urgent /\ r.waiting = q.waiting /\ r.lockCommands = q.lockCommands
             /\ r.active = a.active
  <2> HIDE DEF a
  <2> QED
    BY <1>0, <1>1 DEF HandlerDone, SameHandlers
<1>2. CASE q.running.wait = "return"
  <2>1. a = q
    BY <1>2 DEF Resumed
  <2>2. SameHandlers(q, a)
    BY <2>1 DEF SameHandlers
  <2> QED
    BY <1>1, <1>2, <2>1, <2>2 DEF Rests, Own, Waits, IsActive
<1>3. CASE q.running.wait = "store"
  <2>1. a = StoreResult(q, id, q.running.result)
    BY <1>3 DEF Resumed
  <2>2. /\ SameHandlers(q, a) /\ a.active.of = q.active.of /\ a.active.id = q.active.id
        /\ a.active.state = IF IsActive(q) /\ q.active.id = id THEN q.running.result.newState
                                                               ELSE q.active.state
    BY <1>0, <2>1, StoreEffect
  <2>3. /\ a.lockCommands = q.lockCommands
        /\ a.active.queuedCommands = IF IsActive(q) /\ q.active.id = id
                                     THEN q.active.queuedCommands \o q.running.result.commands
                                     ELSE q.active.queuedCommands
    BY <1>0, <2>1, StoreSends
  <2>4. ~Own(q) => a.active = q.active
    BY <1>3, <2>1 DEF Own, Waits, StoreResult
  <2>5. r.active = a.active /\ r.running = Idle /\ r.tasks = q.tasks /\ r.isLocked = q.isLocked
        /\ r.urgent = q.urgent /\ r.waiting = q.waiting /\ r.lockCommands = q.lockCommands
    BY <1>1, <2>2, <2>3
  <2> HIDE DEF a, r
  <2>6. Rests(q, r)
    BY <1>3, <2>2, <2>3, <2>4, <2>5 DEF Rests, Own, IsActive
  <2> QED
    BY <2>6 DEF r, a
<1>4. ASSUME q.running.wait \in {"firstFrame", "nextFrame"}
      PROVE  q.running.of \in Transfers
  BY <1>4 DEF Good, Begun, OwnFrame
<1>5. CASE q.running.wait = "firstFrame" /\ NoFrames(q)
  <2>1. a = q
    BY <1>5 DEF Resumed
  <2>2. SameHandlers(q, a)
    BY <2>1 DEF SameHandlers
  <2> QED
    BY <1>1, <1>5, <2>1, <2>2 DEF Rests, Own, Waits, IsActive
<1>6. CASE q.running.wait = "firstFrame" /\ ~NoFrames(q)
  <2> DEFINE t == q.running.of
             result == StartClip(t, q.fields[t], id)
             b == StoreFields(q, t, result)
  <2>1. a = StoreResult(b, id, result)
    BY <1>6 DEF Resumed, ResumeStartClip
  <2>2. result.newState = "Ready"
    BY DEF StartClip, StartBuffer, Progress
  <2> HIDE DEF result
  <2>3. /\ DOMAIN b = DOMAIN q /\ b.tasks = q.tasks /\ b.isLocked = q.isLocked
        /\ b.urgent = q.urgent /\ b.waiting = q.waiting /\ b.lockCommands = q.lockCommands
        /\ b.active = q.active
    BY <1>0 DEF StoreFields
  <2> HIDE DEF b
  <2>4. /\ SameHandlers(b, a) /\ a.active.of = b.active.of /\ a.active.id = b.active.id
        /\ a.active.state = IF IsActive(b) /\ b.active.id = id THEN result.newState
                                                               ELSE b.active.state
    BY <1>0, <2>1, <2>3, StoreEffect
  <2>5. a.lockCommands = b.lockCommands
    BY <1>0, <2>1, <2>3, StoreSends
  <2>6. ~Own(q) => a.active = q.active
    BY <1>6, <2>1, <2>3 DEF Own, Waits, StoreResult, IsActive
  <2>7. SameHandlers(q, a) /\ a.lockCommands = q.lockCommands
    BY <2>3, <2>4, <2>5 DEF SameHandlers
  <2>8. /\ r.active = a.active /\ r.running = Idle /\ r.tasks = q.tasks
        /\ r.isLocked = q.isLocked
        /\ r.urgent = q.urgent /\ r.waiting = q.waiting /\ r.lockCommands = q.lockCommands
    BY <1>1, <2>7
  <2> HIDE DEF a, r
  <2>9. Rests(q, r)
    BY <1>6, <2>2, <2>3, <2>4, <2>6, <2>8 DEF Rests, Own, IsActive
  <2> QED
    BY <2>9 DEF r, a
<1>7. CASE q.running.wait = "nextFrame"
  <2>1. a = ResumeNextFrame(q)
    BY <1>7 DEF Resumed
  <2>2. /\ SameHandlers(q, a) /\ a.lockCommands = q.lockCommands
        /\ a.active.of = q.active.of /\ (~Own(q) => a.active = q.active)
    BY <1>7, <2>1, NextFrameStays
  <2>3. /\ r.active = a.active /\ r.running = Idle /\ r.tasks = q.tasks
        /\ r.isLocked = q.isLocked
        /\ r.urgent = q.urgent /\ r.waiting = q.waiting /\ r.lockCommands = q.lockCommands
    BY <1>1, <2>2
  <2> HIDE DEF a, r
  <2>4. Rests(q, r)
    BY <1>7, <2>2, <2>3 DEF Rests, Own, Waits, IsActive
  <2> QED
    BY <2>4 DEF r, a
<1> QED
  BY <1>2, <1>3, <1>5, <1>6, <1>7 DEF Good, Begun, Handlers

\* One sequence after another.
LEMMA JoinAt ==
    ASSUME NEW s, NEW t, IsSequence(s), IsSequence(t)
    PROVE  /\ IsSequence(s \o t)
           /\ Len(s) \in Nat /\ Len(t) \in Nat /\ Len(s \o t) = Len(s) + Len(t)
           /\ DOMAIN s = 1 .. Len(s) /\ DOMAIN t = 1 .. Len(t)
           /\ DOMAIN (s \o t) = 1 .. Len(s) + Len(t)
           /\ \A i \in 1 .. Len(s) : (s \o t)[i] = s[i]
           /\ \A i \in 1 .. Len(t) : (s \o t)[Len(s) + i] = t[i]
<1>1. PICK S : s \in Seq(S)
  BY DEF IsSequence
<1>2. PICK T : t \in Seq(T)
  BY DEF IsSequence
<1> DEFINE U == S \union T
<1>3. s \in Seq(U) /\ t \in Seq(U)
  BY <1>1, <1>2
<1> HIDE DEF U
<1>4. s \o t \in Seq(U)
  BY <1>3
<1>5. IsSequence(s \o t)
  BY <1>4 DEF IsSequence
<1>6. /\ Len(s) \in Nat /\ Len(t) \in Nat /\ Len(s \o t) = Len(s) + Len(t)
      /\ DOMAIN s = 1 .. Len(s) /\ DOMAIN t = 1 .. Len(t)
      /\ DOMAIN (s \o t) = 1 .. Len(s) + Len(t)
  BY <1>3, <1>4
<1>7. /\ \A i \in 1 .. Len(s) : (s \o t)[i] = s[i]
      /\ \A i \in 1 .. Len(t) : (s \o t)[Len(s) + i] = t[i]
  BY <1>3, <1>4
<1> QED
  BY <1>5, <1>6, <1>7

\* Short sequences, and those given by their length.
LEMMA GivenSequences ==
    /\ \A e : IsSequence(<<e>>)
    /\ \A d, e : IsSequence(<<d, e>>)
    /\ IsSequence(<<>>)
<1>1. \A e : <<e>> \in Seq({e})
  OBVIOUS
<1>2. \A d, e : <<d, e>> \in Seq({d, e})
  OBVIOUS
<1> QED
  BY <1>1, <1>2, ShortHolds DEF IsSequence

\* Commands of a transfer, and one after another.
LEMMA GivenOrders ==
    /\ \A e : e.type # "lock" => Orders(<<e>>)
    /\ Orders(<<>>)
BY GivenSequences DEF Orders

\* What a transfer gives the interval to send is never a lock command.
LEMMA TransferOrders ==
    /\ \A t, id, frame : Orders(<<Request(t, id, frame)>>)
    /\ \A id : Orders(<<Description(id)>>) /\ Orders(<<DataAck(id)>>)
    /\ \A frames : Orders(<<SetClip(frames)>>)
    /\ Orders(<<ClearClip>>)
<1>1. /\ \A t, id, frame : Request(t, id, frame).type = "request"
      /\ \A id : Description(id).type = "description" /\ DataAck(id).type = "dataAck"
      /\ \A frames : SetClip(frames).type = "setClip"
      /\ ClearClip.type = "clearClip"
  BY DEF Request, Description, DataAck, SetClip, ClearClip
<1> QED
  BY <1>1, GivenOrders

\* Nor is anything in two such sequences after one another.
LEMMA JoinOrders ==
    ASSUME NEW s, NEW t, Orders(s), Orders(t)
    PROVE  Orders(s \o t)
<1>1. /\ IsSequence(s \o t) /\ Len(s) \in Nat /\ Len(t) \in Nat
      /\ DOMAIN s = 1 .. Len(s) /\ DOMAIN t = 1 .. Len(t)
      /\ DOMAIN (s \o t) = 1 .. Len(s) + Len(t)
      /\ \A i \in 1 .. Len(s) : (s \o t)[i] = s[i]
      /\ \A i \in 1 .. Len(t) : (s \o t)[Len(s) + i] = t[i]
  BY JoinAt DEF Orders
<1>2. ASSUME NEW i \in DOMAIN (s \o t)
      PROVE  (s \o t)[i].type # "lock"
  <2>1. CASE i <= Len(s)
    BY <1>1, <2>1 DEF Orders
  <2>2. CASE ~(i <= Len(s))
    <3>1. i - Len(s) \in 1 .. Len(t) /\ i = Len(s) + (i - Len(s))
      BY <1>1, <2>2
    <3> QED
      BY <1>1, <3>1 DEF Orders
  <2> QED
    BY <2>1, <2>2
<1> QED
  BY <1>1, <1>2 DEF Orders

\* What a transfer answers is a sequence of commands, and it goes on counting.
LEMMA AnswerTyped ==
    ASSUME NEW t \in Transfers, NEW x, NEW command, NEW oldState, IsTransfer(x),
           x.moved \in Int, Counted(command)
    PROVE  LET result == HandleCommand(t, x, command, oldState)
           IN  result.fields.moved \in Int /\ Orders(result.commands)
<1>0. Chunks[t] \in Nat /\ Kind[t] \in {"upload", "download", "clip"}
  BY TransfersAssumption
<1> DEFINE Fine(result) == result.fields.moved \in Int /\ Orders(result.commands)
<1>1. \A newState : Fine(Progress(x, newState, <<>>))
  BY GivenOrders DEF Progress
<1>2. \A outcome, newState : Fine(Progress(Settle(x, outcome), newState, <<>>))
  BY GivenOrders DEF Progress, Settle, IsTransfer
<1>3. Fine(HandleError(t, x, command))
  BY <1>2, TransferOrders DEF HandleError, StartBuffer, Progress, Abort
<1>4. Fine(Receive(x, command, oldState))
  <2> DEFINE y == [x EXCEPT !.moved = @ + 1]
             ack == <<DataAck(command.id)>>
  <2>1. IsTransfer(y) /\ y.moved \in Int
    BY DEF IsTransfer
  <2>2. Receive(x, command, oldState) = IF y.moved > MaxDownload THEN Progress(Abort(y), "Finished", <<>>)
                                        ELSE Progress(y, oldState, ack)
    BY DEF Receive
  <2>3. Orders(ack) /\ Orders(<<>>)
    BY GivenOrders, TransferOrders
  <2> HIDE DEF y, ack
  <2>4. Abort(y).moved \in Int
    BY <2>1 DEF Abort, Settle, IsTransfer
  <2> QED
    BY <2>1, <2>2, <2>3, <2>4 DEF Progress
<1>5. Fine(Complete(x, oldState))
  BY <1>1, <1>2 DEF Complete
<1>6. ASSUME command.type = "continue"
      PROVE  Fine(Continue(t, x, command, oldState))
  <2> DEFINE n == ChunksDue(t, x, command.count)
             description == IF oldState = "Ready" THEN <<Description(command.id)>> ELSE <<>>
             chunks == [i \in 1 .. n |-> Data(command.id, x.moved + i)]
             newState == IF oldState = "Ready" THEN "Transferring" ELSE oldState
             y == [x EXCEPT !.moved = @ + n]
  <2>1. n \in Int
    BY <1>0, <1>6 DEF ChunksDue, Counted
  <2>2. Orders(description)
    BY GivenOrders, TransferOrders
  <2>3. Continue(t, x, command, oldState) = Progress(y, newState, description \o chunks)
    BY DEF Continue
  <2> HIDE DEF n, description, newState
  <2>4. IsSequence(chunks)
    <3>1. CASE n \in Nat
      <4>1. chunks \in Seq({chunks[i] : i \in 1 .. n})
        BY <3>1
      <4> QED
        BY <4>1 DEF IsSequence
    <3>2. CASE n \notin Nat
      <4>1. 1 .. n = 1 .. 0
        BY <2>1, <3>2
      <4>2. chunks = [i \in 1 .. 0 |-> Data(command.id, x.moved + i)]
        BY <4>1
      <4>3. [i \in 1 .. 0 |-> Data(command.id, x.moved + i)] \in Seq({})
        OBVIOUS
      <4> QED
        BY <4>2, <4>3 DEF IsSequence
    <3> QED
      BY <3>1, <3>2
  <2>8. Orders(chunks)
    <3>1. \A i \in DOMAIN chunks : chunks[i].type = "data"
      BY DEF Data
    <3> QED
      BY <2>4, <3>1 DEF Orders
  <2> HIDE DEF chunks
  <2>5. Orders(description \o chunks)
    BY <2>2, <2>8, JoinOrders
  <2>6. y.moved \in Int
    BY <2>1 DEF IsTransfer
  <2> HIDE DEF y
  <2> QED
    BY <2>3, <2>5, <2>6 DEF Progress
<1>7. Fine(HandleUpload(t, x, command, oldState))
  BY <1>1, <1>3, <1>5, <1>6 DEF HandleUpload
<1>8. Fine(HandleDownload(t, x, command, oldState))
  BY <1>1, <1>2, <1>3, <1>4 DEF HandleDownload
<1>9. Fine(HandleFrame(t, x, command, oldState))
  <2> DEFINE frame == HandleUpload(t, x, command, oldState)
             fields == [frame.fields EXCEPT !.promise = x.promise]
  <2>1. /\ HandleFrame(t, x, command, oldState).fields = fields
        /\ HandleFrame(t, x, command, oldState).commands = frame.commands
    BY DEF HandleFrame
  <2>2. fields.moved = frame.fields.moved
    OBVIOUS
  <2> HIDE DEF frame, fields
  <2> QED
    BY <1>7, <2>1, <2>2 DEF frame
<1> HIDE DEF Fine
<1>10. Fine(HandleCommand(t, x, command, oldState))
  BY <1>0, <1>7, <1>8, <1>9 DEF HandleCommand
<1> QED
  BY <1>10 DEF Fine

\* A transfer that becomes active has nothing to send.
LEMMA DequeueSends ==
    ASSUME NEW q, IsQueue(q), ~IsActive(q), q.tasks # <<>>
    PROVE  LET r == DequeueAndRun(q)
           IN  r.lockCommands = q.lockCommands /\ r.active.queuedCommands = <<>>
<1> DEFINE r == DequeueAndRun(q)
           x == [id |-> q.nextId, of |-> Head(q.tasks), state |-> "Pending",
                 queuedCommands |-> <<>>]
           c == [ClearHandlers(TakeId(q)) EXCEPT !.tasks = Tail(@), !.active = x]
<1>1. r = TryStartTransfer(c)
  BY DEF DequeueAndRun
<1> HIDE DEF r
<1>2. x.queuedCommands = <<>>
  OBVIOUS
<1> HIDE DEF x
<1>3. DOMAIN c = DOMAIN q /\ c.active = x /\ c.lockCommands = q.lockCommands
  BY DEF ClearHandlers, TakeId, IsQueue
<1> HIDE DEF c
<1>4. r.active = x /\ r.lockCommands = q.lockCommands
  BY <1>1, <1>3 DEF TryStartTransfer, AddUrgent, IsQueue
<1> QED
  BY <1>2, <1>4 DEF r

\* Beginning a transfer keeps the types.
LEMMA DequeueTyped ==
    ASSUME NEW q, IsQueue(q), Typed(q)
    PROVE  Typed(DequeueAndRun(q))
<1> DEFINE r == DequeueAndRun(q)
<1>1. CASE IsActive(q) \/ q.tasks = <<>>
  BY <1>1 DEF DequeueAndRun
<1>2. CASE ~IsActive(q) /\ q.tasks # <<>>
  <2>1. r.waiting = <<>> /\ r.running = q.running /\ r.fields = q.fields
    BY <1>2, DequeueEffect
  <2>2. r.active.queuedCommands = <<>>
    BY <1>2, DequeueSends
  <2> HIDE DEF r
  <2>3. Typed(r)
    BY <2>1, <2>2, ShortHolds, GivenOrders DEF Typed
  <2> QED
    BY <2>3 DEF r
<1> QED
  BY <1>1, <1>2

\* So does ending one.
LEMMA EndTyped ==
    ASSUME NEW q, IsQueue(q), Typed(q)
    PROVE  Typed(EndActive(q))
<1> DEFINE r == [TransferCompleted(q) EXCEPT !.active = NoActive]
<1>1. /\ DOMAIN r = DOMAIN q /\ r.active = NoActive
      /\ \A f \in {"tasks", "urgent", "waiting", "running", "nextId", "fields"} : r[f] = q[f]
  BY DEF TransferCompleted, SendLock, IsQueue
<1>2. EndActive(q) = DequeueAndRun(r)
  BY DEF EndActive
<1> HIDE DEF r
<1>3. NoActive.of = NoTransfer /\ DOMAIN NoActive = {"id", "of", "state", "queuedCommands"}
      /\ NoActive.queuedCommands = <<>>
  BY DEF NoActive
<1>4. IsQueue(r)
  BY <1>1, <1>3 DEF IsQueue
<1>5. Typed(r)
  BY <1>1, <1>3, GivenOrders DEF Typed
<1> QED
  BY <1>2, <1>4, <1>5, DequeueTyped

\* The handlers keep the types, too.
LEMMA StartTyped ==
    ASSUME NEW q, IsQueue(q), Typed(q)
    PROVE  Typed(BeginStart(q))
<1> DEFINE r == BeginStart(q)
           lock == Progress(Active(q), "Pending", <<>>)
           start == StartBuffer(q.active.of, Active(q), q.active.id)
<1>1. Orders(lock.commands) /\ Orders(start.commands)
  BY GivenOrders, TransferOrders DEF Progress, StartBuffer
<1> HIDE DEF lock, start
<1>2. /\ r.fields = q.fields /\ r.active = q.active /\ r.waiting = q.waiting
      /\ r.running \in {Returning, FirstFrame(q), Storing(q, lock), Storing(q, start)}
  BY DEF BeginStart, SendLock, lock, start, IsQueue
<1>3. /\ Returning.wait = "return" /\ FirstFrame(q).wait = "firstFrame"
      /\ Storing(q, lock).wait = "store" /\ Storing(q, lock).result = lock
      /\ Storing(q, start).wait = "store" /\ Storing(q, start).result = start
  BY DEF Returning, FirstFrame, Storing
<1> HIDE DEF r
<1>4. Typed(r)
  BY <1>1, <1>2, <1>3 DEF Typed
<1> QED
  BY <1>4 DEF r

\* An abort.
LEMMA AbortTyped ==
    ASSUME NEW q, NEW id, IsQueue(q), Typed(q)
    PROVE  Typed(BeginAbort(q, id))
<1> DEFINE r == [q EXCEPT !.running = Returning]
           a == AbortActive(r)
<1>1. /\ DOMAIN r = DOMAIN q /\ r.running = Returning
      /\ \A f \in {"tasks", "active", "urgent", "waiting", "nextId", "fields"} : r[f] = q[f]
  BY DEF IsQueue
<1> HIDE DEF r
<1>2. IsQueue(r) /\ Typed(r)
  BY <1>1 DEF IsQueue, Typed, Returning
<1>3. ASSUME IsActive(r)
      PROVE  IsQueue(a) /\ Typed(a)
  <2> DEFINE t == r.active.of
             x == Abort(r.fields[t])
  <2>1. t \in Transfers /\ IsTransfer(r.fields[t]) /\ r.fields[t].moved \in Int
    BY <1>2, <1>3 DEF IsQueue, IsActive, Typed
  <2>2. IsTransfer(x) /\ x.moved \in Int
    BY <2>1 DEF Abort, Settle, IsTransfer
  <2>3. a = [r EXCEPT !.fields[t] = x]
    BY DEF AbortActive
  <2> HIDE DEF t, x, a
  <2>4. /\ DOMAIN a = DOMAIN r /\ DOMAIN a.fields = DOMAIN r.fields /\ a.fields[t] = x
        /\ \A u \in Transfers : u # t => a.fields[u] = r.fields[u]
        /\ \A f \in {"tasks", "active", "urgent", "waiting", "running", "nextId"} : a[f] = r[f]
    BY <1>2, <2>1, <2>3 DEF IsQueue
  <2>5. \A u \in Transfers : IsTransfer(a.fields[u]) /\ a.fields[u].moved \in Int
    BY <1>2, <2>2, <2>4 DEF IsQueue, Typed
  <2> QED
    BY <1>2, <2>4, <2>5 DEF IsQueue, Typed
<1>4. Typed(BeginAbort(q, id)) <=> Typed(IF IsActive(q) /\ q.active.id = id THEN EndActive(a) ELSE r)
  BY DEF BeginAbort, r
<1>5. IsActive(r) <=> IsActive(q)
  BY <1>1 DEF IsActive
<1> HIDE DEF a
<1> QED
  BY <1>2, <1>3, <1>4, <1>5, EndTyped
\* A command of the device.
LEMMA HandleTyped ==
    ASSUME NEW q, NEW command, IsQueue(q), Typed(q), Counted(command)
    PROVE  Typed(BeginHandle(q, command))
<1> DEFINE t == q.active.of
           result == HandleCommand(t, Active(q), command, q.active.state)
           next == IF result.frameDone THEN FrameAfter(q, result) ELSE Storing(q, result)
           r == BeginHandle(q, command)
<1>1. CASE \/ ~IsActive(q) \/ q.active.id # command.id \/ q.active.state = "Pending"
  <2>1. r = [q EXCEPT !.running = Returning]
    BY <1>1 DEF BeginHandle
  <2> HIDE DEF r
  <2>2. /\ r.fields = q.fields /\ r.active = q.active /\ r.waiting = q.waiting
        /\ r.running = Returning
    BY <2>1 DEF IsQueue
  <2>3. Typed(r)
    BY <2>2 DEF Typed, Returning
  <2> QED
    BY <2>3 DEF r
<1>2. CASE ~(\/ ~IsActive(q) \/ q.active.id # command.id \/ q.active.state = "Pending")
  <2>1. r = [q EXCEPT !.fields[t] = result.fields, !.running = next]
    BY <1>2 DEF BeginHandle
  <2>2. t \in Transfers /\ IsTransfer(Active(q)) /\ Active(q).moved \in Int
    BY <1>2 DEF IsQueue, IsActive, Active, Typed
  <2>3. result.fields.moved \in Int /\ Orders(result.commands)
    BY <2>2, AnswerTyped
  <2>4. /\ next.wait = "store" => Orders(next.result.commands)
        /\ next.wait = "nextFrame" => Orders(next.commands)
    BY <2>3 DEF FrameAfter, Storing
  <2> HIDE DEF next, result, r, t
  <2>5. /\ DOMAIN r.fields = DOMAIN q.fields /\ r.fields[t] = result.fields
        /\ \A u \in Transfers : u # t => r.fields[u] = q.fields[u]
        /\ r.active = q.active /\ r.waiting = q.waiting /\ r.running = next
    BY <2>1, <2>2 DEF IsQueue
  <2>6. Typed(r)
    BY <2>3, <2>4, <2>5 DEF Typed
  <2> QED
    BY <2>6 DEF r
<1> QED
  BY <1>1, <1>2

\* The next handler.
LEMMA RunNextTyped ==
    ASSUME NEW q, IsQueue(q), Handlers(q), Typed(q)
    PROVE  Typed(RunNext(q))
<1>1. CASE q.running # Idle \/ (q.urgent = <<>> /\ q.waiting = <<>>)
  BY <1>1 DEF RunNext
<1>2. CASE q.running = Idle /\ q.urgent # <<>>
  <2> DEFINE a == [q EXCEPT !.urgent = Tail(@)]
             h == Head(q.urgent)
  <2>1. IsQueue(a) /\ Typed(a)
    BY DEF IsQueue, Typed
  <2>2. h = Start \/ \E id : h = AbortOf(id)
    BY <1>2, TailHolds DEF Handlers
  <2>3. RunNext(q) = Begin(a, h)
    BY <1>2 DEF RunNext
  <2> HIDE DEF a, h
  <2>4. CASE h = Start
    <3>1. Begin(a, h) = BeginStart(a)
      BY <2>4 DEF Begin, Start
    <3> QED
      BY <2>1, <2>3, <3>1, StartTyped
  <2>5. CASE \E id : h = AbortOf(id)
    <3>1. PICK id : h = AbortOf(id)
      BY <2>5
    <3>2. Begin(a, h) = BeginAbort(a, id)
      BY <3>1 DEF Begin, AbortOf
    <3> QED
      BY <2>1, <2>3, <3>2, AbortTyped
  <2> QED
    BY <2>2, <2>4, <2>5
<1>3. CASE q.running = Idle /\ q.urgent = <<>> /\ q.waiting # <<>>
  <2> DEFINE a == [q EXCEPT !.waiting = Tail(@)]
             h == Head(q.waiting)
  <2>1. /\ Holds(q.waiting, h)
        /\ \A x : Holds(Tail(q.waiting), x) => Holds(q.waiting, x)
    BY <1>3, TailHolds DEF Handlers
  <2>2. PICK command : h = Handle(command)
    BY <2>1 DEF Handlers
  <2>3. Counted(command)
    BY <2>1, <2>2 DEF Typed, Handle
  <2>4. IsQueue(a) /\ Typed(a)
    BY <2>1 DEF IsQueue, Typed
  <2>5. RunNext(q) = Begin(a, h)
    BY <1>3 DEF RunNext
  <2> HIDE DEF a, h
  <2>6. Begin(a, h) = BeginHandle(a, command)
    BY <2>2 DEF Begin, Handle
  <2> QED
    BY <2>3, <2>4, <2>5, <2>6, HandleTyped
<1> QED
  BY <1>1, <1>2, <1>3

\* A handler that ends.
LEMMA ResumedTyped ==
    ASSUME NEW q, Good(q), Typed(q), q.running # Idle
    PROVE  Typed(HandlerDone(Resumed(q)))
<1> DEFINE a == Resumed(q)
           r == HandlerDone(a)
           id == q.running.id
<1>0. /\ DOMAIN q = {"tasks", "active", "isLocked", "urgent", "waiting", "running", "nextId",
                     "lockCommands", "fields"}
      /\ DOMAIN q.active = {"id", "of", "state", "queuedCommands"}
  BY DEF Good, Begun, IsQueue
<1>1. ASSUME SameHandlers(q, a), Orders(a.active.queuedCommands),
             \A u \in Transfers : a.fields[u].moved \in Int
      PROVE  Typed(r)
  <2> HIDE DEF a
  <2>1. /\ r.running = Idle /\ r.waiting = q.waiting /\ r.active = a.active
        /\ r.fields = a.fields
    BY <1>0, <1>1 DEF HandlerDone, SameHandlers
  <2> HIDE DEF r
  <2> QED
    BY <1>1, <2>1 DEF Typed, Idle
<1>2. CASE a = q
  BY <1>1, <1>2 DEF Typed, SameHandlers
<1>3. CASE q.running.wait = "store"
  <2>1. a = StoreResult(q, id, q.running.result)
    BY <1>3 DEF Resumed
  <2>2. SameHandlers(q, a) /\ a.fields = q.fields
    BY <1>0, <2>1, StoreEffect
  <2>3. a.active.queuedCommands = IF IsActive(q) /\ q.active.id = id
                                  THEN q.active.queuedCommands \o q.running.result.commands
                                  ELSE q.active.queuedCommands
    BY <1>0, <2>1, StoreSends
  <2>4. Orders(a.active.queuedCommands)
    BY <1>3, <2>3, JoinOrders DEF Typed
  <2> HIDE DEF a
  <2> QED
    BY <1>1, <2>2, <2>4 DEF Typed, a
<1>4. CASE q.running.wait = "firstFrame" /\ ~NoFrames(q)
  <2> DEFINE t == q.running.of
             result == StartClip(t, q.fields[t], id)
             b == StoreFields(q, t, result)
  <2>1. a = StoreResult(b, id, result)
    BY <1>4 DEF Resumed, ResumeStartClip
  <2>2. t \in Transfers /\ IsTransfer(q.fields[t])
    BY <1>4 DEF Good, Begun, OwnFrame, IsQueue
  <2>3. result.fields.moved = 0
    BY <2>2 DEF StartClip, StartBuffer, Progress, TakeFrame, IsTransfer
  <2>4. Orders(result.commands)
    <3> DEFINE frame == StartBuffer(t, TakeFrame(q.fields[t]), id)
               request == Request(t, id, TakeFrame(q.fields[t]).numFrames)
    <3>1. frame.commands = <<request>> /\ DOMAIN frame = {"fields", "newState", "commands", "frameDone"}
      BY DEF StartBuffer, Progress
    <3>2. result = [frame EXCEPT !.commands = <<ClearClip>> \o @]
      BY DEF StartClip
    <3>4. Orders(<<request>>)
      BY TransferOrders
    <3> HIDE DEF frame, request, result
    <3>3. result.commands = <<ClearClip>> \o <<request>>
      BY <3>1, <3>2
    <3> QED
      BY <3>3, <3>4, TransferOrders, JoinOrders
  <2> HIDE DEF result
  <2>5. /\ DOMAIN b = DOMAIN q /\ b.tasks = q.tasks /\ b.isLocked = q.isLocked
        /\ b.urgent = q.urgent /\ b.waiting = q.waiting
        /\ b.active = q.active /\ b.fields = [q.fields EXCEPT ![t] = result.fields]
    BY <1>0 DEF StoreFields
  <2> HIDE DEF b
  <2>6. SameHandlers(b, a) /\ a.fields = b.fields
    BY <1>0, <2>1, <2>5, StoreEffect
  <2>7. a.active.queuedCommands = IF IsActive(b) /\ b.active.id = id
                                  THEN b.active.queuedCommands \o result.commands
                                  ELSE b.active.queuedCommands
    BY <1>0, <2>1, <2>5, StoreSends
  <2>8. Orders(a.active.queuedCommands)
    BY <2>4, <2>5, <2>7, JoinOrders DEF Typed
  <2> HIDE DEF a, t
  <2>9. \A u \in Transfers : a.fields[u].moved \in Int
    BY <2>2, <2>3, <2>5, <2>6 DEF Typed, Good, Begun, IsQueue
  <2>10. SameHandlers(q, a)
    BY <2>5, <2>6 DEF SameHandlers
  <2> QED
    BY <1>1, <2>8, <2>9, <2>10 DEF a
<1>5. CASE q.running.wait = "nextFrame"
  <2> DEFINE t == q.running.of
             x == q.fields[t]
             result == IF FramesLeft(t, x) THEN NextFrame(t, x, q.nextId) ELSE LastFrameDone(x)
  <2>1. a = ResumeNextFrame(q)
    BY <1>5 DEF Resumed
  <2>2. /\ SameHandlers(q, a) /\ t \in Transfers
        /\ a.fields = [q.fields EXCEPT ![t] = result.fields]
        /\ a.active.queuedCommands =
               IF Own(q) THEN q.active.queuedCommands \o (q.running.commands \o result.commands)
                         ELSE q.active.queuedCommands
    BY <1>5, <2>1, NextFrameStays
  <2>3. IsTransfer(x) /\ x.moved \in Int
    BY <2>2 DEF Good, Begun, IsQueue, Typed
  <2>4. result.fields.moved \in Int /\ Orders(result.commands)
    <3>1. CASE FramesLeft(t, x)
      <4> DEFINE request == Request(t, q.nextId, TakeFrame(x).numFrames)
      <4>1. TakeFrame(x).moved \in Int
        BY <2>3 DEF TakeFrame, IsTransfer
      <4>2. /\ NextFrame(t, x, q.nextId).fields = TakeFrame(x)
            /\ NextFrame(t, x, q.nextId).commands = <<request>>
        BY DEF NextFrame, StartBuffer, Progress
      <4>3. Orders(<<request>>)
        BY TransferOrders
      <4> HIDE DEF request
      <4> QED
        BY <3>1, <4>1, <4>2, <4>3
    <3>2. CASE ~FramesLeft(t, x)
      <4>1. Settle(x, "resolved").moved \in Int
        BY <2>3 DEF Settle, IsTransfer
      <4>2. /\ LastFrameDone(x).fields = Settle(x, "resolved")
            /\ LastFrameDone(x).commands = <<SetClip(x.numFrames)>>
        BY DEF LastFrameDone, Progress
      <4> QED
        BY <3>2, <4>1, <4>2, TransferOrders
    <3> QED
      BY <3>1, <3>2
  <2> HIDE DEF a, result, t
  <2>5. Orders(a.active.queuedCommands)
    <3>1. Orders(q.running.commands \o result.commands)
      BY <1>5, <2>4, JoinOrders DEF Typed
    <3> QED
      BY <2>2, <3>1, JoinOrders DEF Typed
  <2>6. \A u \in Transfers : a.fields[u].moved \in Int
    BY <2>2, <2>4 DEF Typed, Good, Begun, IsQueue
  <2> QED
    BY <1>1, <2>2, <2>5, <2>6 DEF a
<1>6. a = q \/ q.running.wait \in {"store", "nextFrame"}
      \/ (q.running.wait = "firstFrame" /\ ~NoFrames(q))
  BY DEF Resumed, Good, Begun, Handlers
<1> QED
  BY <1>2, <1>3, <1>4, <1>5, <1>6

\* The queue as it always is: its fields, handlers and commands.
Formed(q) == IsQueue(q) /\ Handlers(q) /\ Typed(q)

\* What the event loop does about the lock: nothing ...
Keeps(q, r) ==
    /\ Calm(r) /\ r.lockCommands = <<>> /\ (r.isLocked <=> q.isLocked)
    /\ IsActive(q) /\ ~q.isLocked => /\ IsActive(r) /\ r.active.id = q.active.id
                                     /\ q.urgent = <<>> => r.urgent = <<>>
    /\ ~IsActive(q) /\ IsActive(r) => r.active.id = q.nextId

\* ... or it asks for the lock, once for every transfer that has to ...
AsksFor(q, r) ==
    /\ Calm(r) /\ r.lockCommands = <<TRUE>> /\ ~q.isLocked /\ ~r.isLocked
    /\ IsActive(r) /\ r.urgent = <<>>
    /\ IF IsActive(q) THEN q.urgent # <<>> /\ r.active.id = q.active.id
                      ELSE r.active.id = q.nextId

\* ... or returns it, when all is done.
Returns(q, r) ==
    /\ Calm(r) /\ r.lockCommands = <<FALSE>> /\ q.isLocked /\ ~r.isLocked
    /\ ~IsActive(r) /\ ~Young(q)

\* Sending nothing more of the last event changes nothing.
LEMMA UnsentCalm ==
    ASSUME NEW q, Formed(q)
    PROVE  LET r == [q EXCEPT !.lockCommands = <<>>]
           IN  /\ Formed(r) /\ SameTransfers(q, r) /\ r.running = q.running
               /\ r.lockCommands = <<>>
               /\ (Calm(q) <=> Calm(r)) /\ (Young(q) <=> Young(r))
               /\ (IsActive(q) <=> IsActive(r))
<1> DEFINE r == [q EXCEPT !.lockCommands = <<>>]
<1>1. IsQueue(q) /\ Handlers(q)
  BY DEF Formed
<1>2. SameTransfers(q, r) /\ r.running = q.running /\ r.lockCommands = <<>>
  BY <1>1 DEF SameTransfers, IsQueue
<1> HIDE DEF r
<1>3. Formed(r)
  BY <1>2 DEF Formed, SameTransfers, IsQueue, Handlers, Typed
<1>4. (IsActive(q) <=> IsActive(r)) /\ (Own(q) <=> Own(r))
  BY <1>2 DEF IsActive, SameTransfers, Own, Waits
<1>5. (Young(q) <=> Young(r)) /\ (Goes(q) <=> Goes(r))
  BY <1>2, <1>4 DEF SameTransfers, Young, Goes, OnlyAsks
<1>6. Calm(q) <=> Calm(r)
  BY <1>2, <1>4, <1>5 DEF Calm, SameTransfers
<1> QED
  BY <1>2, <1>3, <1>4, <1>5, <1>6 DEF r

\* The next turn after an event that sent nothing.
LEMMA TurnLock ==
    ASSUME Locking, NEW q, Formed(q), Calm(q)
    PROVE  LET r == RunNext(q)
           IN  /\ Typed(r) /\ Calm(r) /\ Turns(q, r)
BY RunNextTyped, RunNextCalm DEF Formed

\* A handler goes on.
LEMMA ResumeLock ==
    ASSUME Locking, InOrder(queue, interval), Typed(queue), Resume
    PROVE  /\ Typed(queue')
           /\ Calm(queue) => /\ Keeps(queue, queue') \/ AsksFor(queue, queue')
                             /\ Young(queue) => Young(queue')
                             /\ IsActive(queue') <=> IsActive(queue)
<1> DEFINE q == Fresh
<1>1. /\ Formed(q) /\ SameTransfers(queue, q) /\ q.running = queue.running
      /\ q.lockCommands = <<>>
      /\ (Calm(queue) <=> Calm(q)) /\ (Young(queue) <=> Young(q))
      /\ (IsActive(queue) <=> IsActive(q))
  <2>1. Formed(queue)
    BY DEF Formed, InOrder, Good, Begun
  <2> QED
    BY <2>1, UnsentCalm DEF Fresh
<1>2. InOrder(q, interval)
  BY UnsentGood DEF Fresh
<1>3. /\ q.running # Idle
      /\ \/ queue' = RunNext(HandlerDone(Resumed(q)))
         \/ /\ queue' = RunNext(HandlerDone(q))
            /\ q.running.wait \in {"firstFrame", "nextFrame"}
  BY <1>1 DEF Resume, SourceThrows
<1> HIDE DEF q
<1>4. ASSUME NEW r, Formed(r), Calm(q) => Rests(q, r), queue' = RunNext(r)
      PROVE  /\ Typed(queue')
             /\ Calm(queue) => /\ Keeps(queue, queue') \/ AsksFor(queue, queue')
                               /\ Young(queue) => Young(queue')
                               /\ IsActive(queue') <=> IsActive(queue)
  <2>1. Typed(queue')
    BY <1>4, RunNextTyped DEF Formed
  <2>2. ASSUME Calm(queue)
        PROVE  /\ Keeps(queue, queue') \/ AsksFor(queue, queue')
               /\ Young(queue) => Young(queue')
               /\ IsActive(queue') <=> IsActive(queue)
    <3>1. Calm(q) /\ Rests(q, r)
      BY <1>1, <1>4, <2>2
    <3>2. Calm(r) /\ (Young(q) => Young(r))
      BY <1>2, <3>1, RestsCalm DEF InOrder
    <3>3. Calm(queue') /\ Turns(r, queue')
      BY <1>4, <3>2, TurnLock
    <3>4. /\ r.isLocked = q.isLocked /\ r.urgent = q.urgent /\ r.lockCommands = <<>>
          /\ (IsActive(r) <=> IsActive(q))
          /\ IsActive(q) /\ ~q.isLocked => r.active.id = q.active.id
      <4>1. ASSUME Own(q), q.running.wait = "nextFrame" PROVE q.isLocked
        BY <3>1, <4>1 DEF Calm, Goes, OnlyAsks, Own
      <4> QED
        BY <1>1, <3>1, <4>1 DEF Rests
    <3>5. /\ q.isLocked = queue.isLocked /\ q.urgent = queue.urgent /\ q.active = queue.active
          /\ q.nextId = queue.nextId
      BY <1>1 DEF SameTransfers
    <3>6. CASE queue'.lockCommands = r.lockCommands /\ (r.urgent = <<>> => queue'.urgent = <<>>)
      <4>1. Keeps(queue, queue')
        BY <1>1, <3>3, <3>4, <3>5, <3>6 DEF Turns, Keeps
      <4> QED
        BY <1>1, <3>2, <3>3, <3>4, <4>1 DEF Turns
    <3>7. CASE /\ queue'.lockCommands = Append(r.lockCommands, TRUE)
               /\ r.urgent # <<>> /\ queue'.urgent = <<>> /\ ~r.isLocked
      <4>1. queue'.lockCommands = <<TRUE>>
        BY <3>4, <3>7
      <4>2. IsActive(r)
        BY <3>2, <3>7 DEF Calm
      <4>3. AsksFor(queue, queue')
        BY <1>1, <3>3, <3>4, <3>5, <3>7, <4>1, <4>2 DEF Turns, AsksFor
      <4> QED
        BY <1>1, <3>2, <3>3, <3>4, <4>3 DEF Turns
    <3> QED
      BY <3>3, <3>6, <3>7 DEF Turns
  <2> QED
    BY <2>1, <2>2
<1>5. CASE queue' = RunNext(HandlerDone(Resumed(q)))
  <2> DEFINE r == HandlerDone(Resumed(q))
  <2>1. Formed(r)
    <3>1. Good(r)
      BY <1>2, <1>3, ResumedGood DEF InOrder
    <3>2. Typed(r)
      BY <1>1, <1>2, <1>3, ResumedTyped DEF InOrder, Formed
    <3> QED
      BY <3>1, <3>2 DEF Formed, Good, Begun
  <2>2. Rests(q, r)
    BY <1>2, <1>3, ResumedRests DEF InOrder
  <2> HIDE DEF r
  <2> QED
    BY <1>4, <1>5, <2>1, <2>2 DEF r
<1>6. CASE queue' = RunNext(HandlerDone(q)) /\ q.running.wait \in {"firstFrame", "nextFrame"}
  <2> DEFINE r == HandlerDone(q)
  <2>1. SameTransfers(q, r) /\ r.running = Idle /\ r.lockCommands = q.lockCommands
    BY <1>1 DEF HandlerDone, SameTransfers, Formed, IsQueue
  <2> HIDE DEF r
  <2>2. Formed(r)
    BY <1>1, <2>1 DEF Formed, SameTransfers, IsQueue, Handlers, Typed, Idle
  <2>3. Rests(q, r)
    BY <1>6, <2>1 DEF Rests, SameTransfers, IsActive
  <2> QED
    BY <1>4, <1>6, <2>2, <2>3 DEF r
<1> QED
  BY <1>3, <1>5, <1>6

\* A transfer that becomes active while nobody else is.
LEMMA DequeueLock ==
    ASSUME NEW q, Formed(q), ~IsActive(q), q.tasks # <<>>
    PROVE  LET r == DequeueAndRun(q)
           IN  /\ Formed(r) /\ IsActive(r)
               /\ IdIsFree(q) /\ q.running.wait # "store" => Calm(r)
               /\ r.lockCommands = q.lockCommands /\ r.isLocked = q.isLocked
               /\ r.active.id = q.nextId
<1> DEFINE r == DequeueAndRun(q)
<1>1. /\ Head(q.tasks) \in Transfers /\ Tail(q.tasks) \in Seq(Transfers)
      /\ DOMAIN r = DOMAIN q /\ r.tasks = Tail(q.tasks) /\ r.isLocked = q.isLocked
      /\ DOMAIN r.active = DOMAIN q.active
      /\ r.active.id = q.nextId /\ r.active.of = Head(q.tasks) /\ r.active.state = "Pending"
      /\ r.urgent = <<Start>> /\ r.waiting = <<>> /\ r.running = q.running
      /\ r.fields = q.fields
  BY DequeueEffect DEF Formed
<1>2. r.lockCommands = q.lockCommands /\ r.active.queuedCommands = <<>>
  BY DequeueSends DEF Formed
<1>3. Typed(r)
  BY DequeueTyped DEF Formed
<1> HIDE DEF r
<1>4. IsQueue(r) /\ Handlers(r)
  BY <1>1, ShortHolds DEF Formed, IsQueue, Handlers
<1>5. IsActive(r)
  BY <1>1, TransfersAssumption DEF IsActive
<1>6. IdIsFree(q) => ~Own(r)
  BY <1>1 DEF Own, Waits, IdIsFree
<1>7. IdIsFree(q) => ~Goes(r) /\ Young(r)
  BY <1>1, <1>2, <1>5, <1>6 DEF Goes, Young, Beginning
<1>8. IdIsFree(q) /\ q.running.wait # "store" => Calm(r)
  BY <1>1, <1>5, <1>7 DEF Calm
<1> QED
  BY <1>1, <1>2, <1>3, <1>4, <1>5, <1>8 DEF r, Formed

\* A transfer is enqueued.
LEMMA EnqueueLock ==
    ASSUME Locking, InOrder(queue, interval), Typed(queue), IdIsFree(queue),
           NEW t \in Transfers, Enqueue(t)
    PROVE  /\ Typed(queue')
           /\ Calm(queue) => /\ Keeps(queue, queue') \/ AsksFor(queue, queue')
                             /\ Young(queue) => Young(queue')
<1> DEFINE q == Fresh
           a == [q EXCEPT !.tasks = Append(@, t)]
           b == DequeueAndRun(a)
<1>1. /\ Formed(q) /\ SameTransfers(queue, q) /\ q.running = queue.running
      /\ q.lockCommands = <<>>
      /\ (Calm(queue) <=> Calm(q)) /\ (Young(queue) <=> Young(q))
      /\ (IsActive(queue) <=> IsActive(q))
  <2>1. Formed(queue)
    BY DEF Formed, InOrder, Good, Begun
  <2> QED
    BY <2>1, UnsentCalm DEF Fresh
<1>2. queue' = RunNext(b)
  BY DEF Enqueue
<1> HIDE DEF q
<1>3. /\ DOMAIN a = DOMAIN q /\ a.tasks = Append(q.tasks, t) /\ a.active = q.active
      /\ a.fields = q.fields /\ a.urgent = q.urgent /\ a.waiting = q.waiting
      /\ a.running = q.running /\ a.isLocked = q.isLocked /\ a.nextId = q.nextId
      /\ a.lockCommands = q.lockCommands
  BY <1>1 DEF Formed, IsQueue
<1> HIDE DEF a
<1>4. a.tasks \in Seq(Transfers) /\ a.tasks # <<>>
  BY <1>1, <1>3 DEF Formed, IsQueue
<1>5. Formed(a) /\ IdIsFree(a)
  BY <1>1, <1>3, <1>4 DEF Formed, IsQueue, Handlers, Typed, IdIsFree, Waits, SameTransfers
<1>6. (IsActive(a) <=> IsActive(queue)) /\ (Own(a) <=> Own(queue))
  BY <1>1, <1>3 DEF IsActive, Own, Waits, SameTransfers
<1>7. /\ q.isLocked = queue.isLocked /\ q.urgent = queue.urgent /\ q.active = queue.active
      /\ q.nextId = queue.nextId
  BY <1>1 DEF SameTransfers
<1>8. CASE IsActive(queue)
  <2>1. b = a
    BY <1>6, <1>8 DEF DequeueAndRun
  <2>2. Typed(queue')
    BY <1>2, <1>5, <2>1, RunNextTyped DEF Formed
  <2>3. ASSUME Calm(queue)
        PROVE  /\ Keeps(queue, queue') \/ AsksFor(queue, queue')
               /\ Young(queue) => Young(queue')
    <3>1. (Goes(a) <=> Goes(q)) /\ (Young(a) <=> Young(q))
      BY <1>1, <1>3, <1>6 DEF Goes, Young, OnlyAsks, Own, Waits, SameTransfers, IsActive
    <3>2. Calm(a)
      BY <1>1, <1>3, <1>6, <1>8, <2>3, <3>1 DEF Calm, SameTransfers
    <3>3. Calm(queue') /\ Turns(a, queue')
      BY <1>2, <1>5, <2>1, <3>2, TurnLock
    <3>4. CASE queue'.lockCommands = a.lockCommands /\ (a.urgent = <<>> => queue'.urgent = <<>>)
      <4>1. Keeps(queue, queue')
        BY <1>1, <1>3, <1>6, <1>7, <1>8, <3>3, <3>4 DEF Turns, Keeps
      <4> QED
        BY <1>1, <3>1, <3>3, <4>1 DEF Turns
    <3>5. CASE /\ queue'.lockCommands = Append(a.lockCommands, TRUE)
               /\ a.urgent # <<>> /\ queue'.urgent = <<>> /\ ~a.isLocked
      <4>1. queue'.lockCommands = <<TRUE>>
        BY <1>1, <1>3, <3>5
      <4>2. AsksFor(queue, queue')
        BY <1>3, <1>6, <1>7, <1>8, <3>3, <3>5, <4>1 DEF Turns, AsksFor
      <4> QED
        BY <1>1, <3>1, <3>3, <4>2 DEF Turns
    <3> QED
      BY <3>3, <3>4, <3>5 DEF Turns
  <2> QED
    BY <2>2, <2>3
<1>9. CASE ~IsActive(queue)
  <2>1. /\ Formed(b) /\ IsActive(b)
        /\ IdIsFree(a) /\ a.running.wait # "store" => Calm(b)
        /\ b.lockCommands = a.lockCommands /\ b.isLocked = a.isLocked
        /\ b.active.id = a.nextId
    BY <1>4, <1>5, <1>6, <1>9, DequeueLock
  <2> HIDE DEF b
  <2>2. Typed(queue')
    BY <1>2, <2>1, RunNextTyped DEF Formed
  <2>3. ASSUME Calm(queue)
        PROVE  /\ Keeps(queue, queue') \/ AsksFor(queue, queue')
               /\ Young(queue) => Young(queue')
    <3>1. a.running.wait # "store" /\ ~queue.isLocked
      BY <1>1, <1>3, <1>9, <2>3 DEF Calm, Own
    <3>2. Calm(b)
      BY <1>5, <2>1, <3>1
    <3>3. Calm(queue') /\ Turns(b, queue')
      BY <1>2, <2>1, <3>2, TurnLock
    <3>4. ~Young(queue)
      BY <1>9 DEF Young
    <3>5. CASE queue'.lockCommands = b.lockCommands
      <4>1. Keeps(queue, queue')
        BY <1>1, <1>3, <1>7, <1>9, <2>1, <3>3, <3>5 DEF Turns, Keeps
      <4> QED
        BY <3>4, <4>1
    <3>6. CASE /\ queue'.lockCommands = Append(b.lockCommands, TRUE)
               /\ b.urgent # <<>> /\ queue'.urgent = <<>> /\ ~b.isLocked
      <4>1. queue'.lockCommands = <<TRUE>>
        BY <1>1, <1>3, <2>1, <3>6
      <4>2. AsksFor(queue, queue')
        BY <1>3, <1>7, <1>9, <2>1, <3>1, <3>3, <3>6, <4>1 DEF Turns, AsksFor
      <4> QED
        BY <3>4, <4>2
    <3> QED
      BY <3>3, <3>5, <3>6 DEF Turns
  <2> QED
    BY <2>2, <2>3
<1> QED
  BY <1>8, <1>9

\* The commands the interval takes are a sequence, and so are those it leaves.
LEMMA PoppedTyped ==
    ASSUME NEW s, Orders(s)
    PROVE  /\ LET n == IF Len(s) < MaxPerTick THEN Len(s) ELSE MaxPerTick
              IN  Orders(SubSeq(s, 1, n)) /\ (s = <<>> => SubSeq(s, 1, n) = <<>>)
           /\ \A n \in Nat : Orders(SubSeq(s, n + 1, Len(s)))
<1>1. PICK S : s \in Seq(S)
  BY DEF Orders, IsSequence
<1>2. Len(s) \in Nat /\ MaxPerTick \in Nat
  BY <1>1, QueueAssumption
<1> DEFINE n == IF Len(s) < MaxPerTick THEN Len(s) ELSE MaxPerTick
<1>3. n \in Nat /\ n <= Len(s)
  BY <1>2
<1> HIDE DEF n
<1>4. ASSUME NEW l \in Nat, NEW m \in Nat, m <= Len(s)
      PROVE  Orders(SubSeq(s, l + 1, m))
  <2>1. SubSeq(s, l + 1, m) \in Seq(S)
    BY <1>1, <1>2, <1>4
  <2>2. \A i \in DOMAIN SubSeq(s, l + 1, m) :
            l + i \in DOMAIN s /\ SubSeq(s, l + 1, m)[i] = s[l + i]
    BY <1>1, <1>2, <1>4
  <2> QED
    BY <2>1, <2>2 DEF Orders, IsSequence
<1>5. Orders(SubSeq(s, 0 + 1, n))
  BY <1>3, <1>4
<1>6. s = <<>> => SubSeq(s, 1, n) = <<>>
  BY <1>1, <1>2, <1>3
<1> QED
  BY <1>2, <1>4, <1>5, <1>6 DEF n

\* The interval ticks: it takes commands of a transfer that has the lock, or ends one that
\* is finished and returns the lock if it was the last.
LEMMA TickLock ==
    ASSUME Locking, InOrder(queue, interval), Typed(queue), IdIsFree(queue), Tick
    PROVE  /\ Typed(queue') /\ Orders(Popped)
           /\ Calm(queue) => /\ Keeps(queue, queue') \/ Returns(queue, queue')
                             /\ Young(queue) => Young(queue')
                             /\ Popped # <<>> => queue.isLocked /\ Keeps(queue, queue')
<1> DEFINE q == Fresh
<1>1. /\ Formed(q) /\ SameTransfers(queue, q) /\ q.running = queue.running
      /\ q.lockCommands = <<>>
      /\ (Calm(queue) <=> Calm(q)) /\ (Young(queue) <=> Young(q))
      /\ (IsActive(queue) <=> IsActive(q))
  <2>1. Formed(queue)
    BY DEF Formed, InOrder, Good, Begun
  <2> QED
    BY <2>1, UnsentCalm DEF Fresh
<1>2. IsActive(queue) /\ queue.running.wait # "store" /\ Orders(queue.active.queuedCommands)
  BY DEF Tick, MayInterrupt, Typed
<1>3. /\ Orders(Popped)
      /\ queue.active.queuedCommands = <<>> => Popped = <<>>
  BY <1>2, PoppedTyped DEF Popped
<1>4. /\ q.isLocked = queue.isLocked /\ q.urgent = queue.urgent /\ q.active = queue.active
      /\ q.nextId = queue.nextId /\ q.tasks = queue.tasks
  BY <1>1 DEF SameTransfers
<1>5. CASE queue.active.queuedCommands = <<>> /\ queue.active.state = "Finished"
  <2> DEFINE a == [TransferCompleted(q) EXCEPT !.active = NoActive]
             b == DequeueAndRun(a)
  <2>1. queue' = RunNext(b)
    BY <1>5 DEF Tick, EndActive
  <2> HIDE DEF q
  <2>2. /\ DOMAIN a = DOMAIN q /\ a.active = NoActive
        /\ \A f \in {"tasks", "urgent", "waiting", "running", "nextId", "fields"} : a[f] = q[f]
        /\ IF q.isLocked /\ q.tasks = <<>>
           THEN a.lockCommands = <<FALSE>> /\ a.isLocked = FALSE
           ELSE a.lockCommands = <<>> /\ a.isLocked = q.isLocked
    <3>1. CASE q.isLocked /\ q.tasks = <<>>
      <4>1. a = [q EXCEPT !.lockCommands = Append(@, FALSE), !.isLocked = FALSE,
                          !.active = NoActive]
        BY <3>1 DEF TransferCompleted, SendLock
      <4> HIDE DEF a
      <4>2. Append(q.lockCommands, FALSE) = <<FALSE>>
        BY <1>1
      <4> QED
        BY <1>1, <3>1, <4>1, <4>2 DEF Formed, IsQueue
    <3>2. CASE ~(q.isLocked /\ q.tasks = <<>>)
      <4>1. a = [q EXCEPT !.active = NoActive]
        BY <3>2 DEF TransferCompleted
      <4> HIDE DEF a
      <4> QED
        BY <1>1, <3>2, <4>1 DEF Formed, IsQueue
    <3> QED
      BY <3>1, <3>2
  <2> HIDE DEF a
  <2>3. NoActive.of = NoTransfer /\ DOMAIN NoActive = {"id", "of", "state", "queuedCommands"}
        /\ NoActive.queuedCommands = <<>>
    BY DEF NoActive
  <2>4. ~IsActive(a) /\ IdIsFree(a)
    BY <1>1, <1>4, <2>2, <2>3 DEF IsActive, IdIsFree, Waits
  <2>5. Formed(a)
    BY <1>1, <2>2, <2>3, GivenOrders DEF Formed, IsQueue, Handlers, Typed
  <2>6. ASSUME Calm(queue)
        PROVE  queue.isLocked /\ queue.urgent = <<>> /\ ~Young(queue)
    BY <1>2, <1>5, <2>6 DEF Calm, Goes, Young, Beginning
  <2>7. CASE q.tasks = <<>>
    <3>1. b = a
      BY <2>2, <2>7 DEF DequeueAndRun
    <3>2. Typed(queue')
      BY <2>1, <2>5, <3>1, RunNextTyped DEF Formed
    <3>3. ASSUME Calm(queue)
          PROVE  Returns(queue, queue')
      <4>1. ~Own(a)
        BY <2>4 DEF Own
      <4>2. Calm(a)
        BY <1>1, <1>2, <1>4, <2>2, <2>4, <2>6, <2>7, <3>3, <4>1 DEF Calm
      <4>3. Calm(queue') /\ Turns(a, queue')
        BY <2>1, <2>5, <3>1, <4>2, TurnLock
      <4>4. a.urgent = <<>> /\ a.lockCommands = <<FALSE>> /\ ~a.isLocked
        BY <1>4, <2>2, <2>6, <2>7, <3>3
      <4> QED
        BY <2>4, <2>6, <3>3, <4>3, <4>4 DEF Turns, Returns
    <3>4. Popped = <<>>
      BY <1>3, <1>5
    <3> QED
      BY <1>3, <2>6, <3>2, <3>3, <3>4
  <2>8. CASE q.tasks # <<>>
    <3>1. /\ Formed(b) /\ IsActive(b)
          /\ IdIsFree(a) /\ a.running.wait # "store" => Calm(b)
          /\ b.lockCommands = a.lockCommands /\ b.isLocked = a.isLocked
          /\ b.active.id = a.nextId
      BY <2>2, <2>4, <2>5, <2>8, DequeueLock
    <3> HIDE DEF b
    <3>2. Typed(queue')
      BY <2>1, <3>1, RunNextTyped DEF Formed
    <3>3. ASSUME Calm(queue)
          PROVE  Keeps(queue, queue')
      <4>1. Calm(b)
        BY <1>1, <1>2, <2>2, <2>4, <3>1
      <4>2. Calm(queue') /\ Turns(b, queue')
        BY <2>1, <3>1, <4>1, TurnLock
      <4>3. b.lockCommands = <<>> /\ b.isLocked = queue.isLocked
        BY <1>4, <2>2, <2>8, <3>1
      <4> QED
        BY <1>2, <2>6, <3>3, <4>2, <4>3 DEF Turns, Keeps
    <3> QED
      BY <1>3, <2>6, <3>2, <3>3
  <2> QED
    BY <2>7, <2>8
<1>6. CASE ~(queue.active.queuedCommands = <<>> /\ queue.active.state = "Finished")
  <2> DEFINE r == [q EXCEPT !.active.queuedCommands = SubSeq(@, Len(Popped) + 1, Len(@))]
  <2>1. queue' = r
    BY <1>6 DEF Tick
  <2> HIDE DEF q
  <2>2. /\ DOMAIN r = DOMAIN q /\ r.tasks = q.tasks /\ r.fields = q.fields
        /\ r.urgent = q.urgent /\ r.waiting = q.waiting /\ r.running = q.running
        /\ r.isLocked = q.isLocked /\ r.nextId = q.nextId /\ r.lockCommands = q.lockCommands
        /\ r.active.of = q.active.of
        /\ r.active.id = q.active.id /\ r.active.state = q.active.state
        /\ r.active.queuedCommands
             = SubSeq(q.active.queuedCommands, Len(Popped) + 1, Len(q.active.queuedCommands))
    BY <1>1 DEF Formed, IsQueue
  <2> HIDE DEF r
  <2>3. Len(Popped) \in Nat
    BY <1>3, JoinAt
  <2>4. Orders(r.active.queuedCommands)
    BY <1>2, <1>4, <2>2, <2>3, PoppedTyped
  <2>5. Typed(r)
    BY <1>1, <2>2, <2>4 DEF Formed, Typed
  <2>6. ASSUME Calm(queue)
        PROVE  /\ Keeps(queue, r) /\ (Young(queue) => Young(r))
               /\ Popped # <<>> => queue.isLocked
    <3>1. (IsActive(r) <=> IsActive(q)) /\ (Own(r) <=> Own(q))
      BY <2>2 DEF IsActive, Own, Waits
    <3>2. Young(r) <=> Young(q)
      BY <2>2, <3>1 DEF Young
    <3>3. q.active.queuedCommands = <<>> => r.active.queuedCommands = <<>>
      <4>1. SubSeq(<<>>, Len(<<>>) + 1, Len(<<>>)) = <<>>
        OBVIOUS
      <4> QED
        BY <1>3, <1>4, <2>2, <4>1
    <3>4. Goes(r) => Goes(q)
      BY <2>2, <3>1, <3>3 DEF Goes, OnlyAsks
    <3>5. Calm(r)
      BY <1>1, <2>2, <2>6, <3>1, <3>2, <3>4 DEF Calm
    <3>6. Popped # <<>> => queue.isLocked
      BY <1>2, <1>3, <2>6 DEF Calm, Goes
    <3> QED
      BY <1>1, <1>2, <1>4, <2>2, <3>1, <3>2, <3>5, <3>6 DEF Keeps
  <2> QED
    BY <1>3, <2>1, <2>5, <2>6
<1> QED
  BY <1>5, <1>6

\* The device gives the lock to a transfer that waits for it.
LEMMA LockObtainedLock ==
    ASSUME Locking, InOrder(queue, interval), Typed(queue), LockObtained
    PROVE  /\ Typed(queue')
           /\ Calm(queue) /\ IsActive(queue) /\ ~queue.isLocked /\ queue.urgent = <<>> =>
                 /\ Calm(queue') /\ queue'.lockCommands = <<>> /\ queue'.isLocked
                 /\ IsActive(queue') /\ Young(queue')
<1> DEFINE q == Fresh
           a == [q EXCEPT !.isLocked = TRUE]
           r == TryStartTransfer(a)
<1>1. /\ Formed(q) /\ SameTransfers(queue, q) /\ q.running = queue.running
      /\ q.lockCommands = <<>>
      /\ (Calm(queue) <=> Calm(q)) /\ (Young(queue) <=> Young(q))
      /\ (IsActive(queue) <=> IsActive(q))
  <2>1. Formed(queue)
    BY DEF Formed, InOrder, Good, Begun
  <2> QED
    BY <2>1, UnsentCalm DEF Fresh
<1>2. queue' = RunNext(r)
  BY DEF LockObtained
<1> HIDE DEF q
<1>3. /\ DOMAIN a = DOMAIN q /\ a.tasks = q.tasks /\ a.active = q.active /\ a.fields = q.fields
      /\ a.urgent = q.urgent /\ a.waiting = q.waiting /\ a.running = q.running /\ a.isLocked = TRUE
      /\ a.nextId = q.nextId /\ a.lockCommands = q.lockCommands
  BY <1>1 DEF Formed, IsQueue
<1>4. /\ DOMAIN r = DOMAIN q /\ r.tasks = q.tasks /\ r.active = q.active /\ r.fields = q.fields
      /\ r.waiting = q.waiting /\ r.running = q.running /\ r.isLocked = TRUE
      /\ r.nextId = q.nextId /\ r.lockCommands = q.lockCommands
      /\ r.urgent = IF IsActive(q) THEN Append(q.urgent, Start) ELSE q.urgent
  <2> HIDE DEF a
  <2>1. IsActive(a) <=> IsActive(q)
    BY <1>3 DEF IsActive
  <2> QED
    BY <1>1, <1>3, <2>1 DEF TryStartTransfer, AddUrgent, Formed, IsQueue
<1> HIDE DEF r
<1>5. IsSequence(r.urgent) /\ \A h : Holds(r.urgent, h) => Holds(q.urgent, h) \/ h = Start
  BY <1>1, <1>4, AppendHolds DEF Formed, Handlers
<1>6. Formed(r)
  BY <1>1, <1>4, <1>5 DEF Formed, IsQueue, Handlers, Typed
<1>7. Typed(queue')
  BY <1>2, <1>6, RunNextTyped DEF Formed
<1>8. ASSUME Calm(queue), IsActive(queue), ~queue.isLocked, queue.urgent = <<>>
      PROVE  /\ Calm(queue') /\ queue'.lockCommands = <<>> /\ queue'.isLocked
             /\ IsActive(queue') /\ Young(queue')
  <2>1. q.isLocked = queue.isLocked /\ q.urgent = <<>>
    BY <1>1, <1>8 DEF SameTransfers
  <2>2. Append(<<>>, Start) = <<Start>>
    OBVIOUS
  <2>3. r.urgent = <<Start>>
    BY <1>1, <1>4, <1>8, <2>1, <2>2
  <2>4. IsActive(r) /\ (Own(r) <=> Own(q))
    BY <1>1, <1>4, <1>8 DEF IsActive, Own, Waits
  <2>5. Young(q) /\ ~Goes(q)
    BY <1>1, <1>8, <2>1 DEF Calm
  <2>6. Young(r) /\ ~Goes(r)
    BY <1>4, <2>4, <2>5 DEF Young, Goes, OnlyAsks, IsActive
  <2>7. Calm(r)
    BY <1>1, <1>4, <1>8, <2>3, <2>4, <2>6 DEF Calm
  <2>8. Calm(queue') /\ Turns(r, queue')
    BY <1>2, <1>6, <2>7, TurnLock
  <2> QED
    BY <1>1, <1>4, <2>4, <2>6, <2>8 DEF Turns
<1> QED
  BY <1>7, <1>8

\* The device tells of the lock what the queue knows.
LEMMA UpdateLockLock ==
    ASSUME Locking, InOrder(queue, interval), Typed(queue), NEW locked, UpdateLock(locked)
    PROVE  /\ Typed(queue')
           /\ Calm(queue) /\ (locked <=> queue.isLocked) =>
                 Keeps(queue, queue') /\ (Young(queue) => Young(queue'))
<1> DEFINE q == Fresh
           a == [q EXCEPT !.isLocked = locked]
           r == TryAbortTransfer(a)
<1>1. /\ Formed(q) /\ SameTransfers(queue, q) /\ q.running = queue.running
      /\ q.lockCommands = <<>>
      /\ (Calm(queue) <=> Calm(q)) /\ (Young(queue) <=> Young(q))
      /\ (IsActive(queue) <=> IsActive(q))
  <2>1. Formed(queue)
    BY DEF Formed, InOrder, Good, Begun
  <2> QED
    BY <2>1, UnsentCalm DEF Fresh
<1>2. queue' = IF queue.isLocked /\ ~locked THEN RunNext(r) ELSE a
  BY DEF UpdateLock
<1> HIDE DEF q
<1>3. /\ DOMAIN a = DOMAIN q /\ a.tasks = q.tasks /\ a.active = q.active /\ a.fields = q.fields
      /\ a.urgent = q.urgent /\ a.waiting = q.waiting /\ a.running = q.running
      /\ a.isLocked = locked
      /\ a.nextId = q.nextId /\ a.lockCommands = q.lockCommands
  BY <1>1 DEF Formed, IsQueue
<1> HIDE DEF a
<1>4. Formed(a)
  BY <1>1, <1>3 DEF Formed, IsQueue, Handlers, Typed
<1>5. IsActive(a) <=> IsActive(q)
  BY <1>3 DEF IsActive
<1>6. Formed(r)
  <2>1. /\ DOMAIN r = DOMAIN q /\ r.tasks = q.tasks /\ r.active = q.active /\ r.fields = q.fields
        /\ r.waiting = q.waiting /\ r.running = q.running
        /\ r.urgent = IF IsActive(q) THEN Append(q.urgent, AbortOf(q.active.id)) ELSE q.urgent
    BY <1>1, <1>3, <1>5 DEF TryAbortTransfer, AddUrgent, Formed, IsQueue
  <2> HIDE DEF r
  <2>2. /\ IsSequence(r.urgent)
        /\ \A h : Holds(r.urgent, h) => Holds(q.urgent, h) \/ \E id : h = AbortOf(id)
    BY <1>1, <2>1, AppendHolds DEF Formed, Handlers
  <2> QED
    BY <1>1, <2>1, <2>2 DEF Formed, IsQueue, Handlers, Typed
<1> HIDE DEF r
<1>7. Typed(queue')
  BY <1>2, <1>4, <1>6, RunNextTyped DEF Formed
<1>8. ASSUME Calm(queue), locked <=> queue.isLocked
      PROVE  Keeps(queue, queue') /\ (Young(queue) => Young(queue'))
  <2>1. queue' = a
    BY <1>2, <1>8
  <2>2. a.isLocked <=> q.isLocked
    BY <1>1, <1>3, <1>8 DEF SameTransfers
  <2>3. Own(a) <=> Own(q)
    BY <1>3, <1>5 DEF Own, Waits
  <2>4. (Young(a) <=> Young(q)) /\ (Goes(a) <=> Goes(q))
    BY <1>3, <1>5, <2>3 DEF Young, Goes, OnlyAsks
  <2>5. Calm(a)
    BY <1>1, <1>3, <1>5, <1>8, <2>2, <2>3, <2>4 DEF Calm
  <2>6. a.active = queue.active /\ a.urgent = queue.urgent
    BY <1>1, <1>3 DEF SameTransfers
  <2> QED
    BY <1>1, <1>3, <1>5, <1>8, <2>1, <2>2, <2>4, <2>5, <2>6 DEF Keeps
<1> QED
  BY <1>7, <1>8

\* A command of the device for a transfer that has the lock, or for none.
LEMMA HandleReceivedLock ==
    ASSUME Locking, InOrder(queue, interval), Typed(queue), NEW command, Counted(command),
           HandleReceived(command)
    PROVE  /\ Typed(queue')
           /\ Calm(queue) /\ (IsActive(queue) /\ ~queue.isLocked => queue.active.id # command.id)
                 => Keeps(queue, queue')
<1> DEFINE q == Fresh
           r == AddCommand(q, command)
<1>1. /\ Formed(q) /\ SameTransfers(queue, q) /\ q.running = queue.running
      /\ q.lockCommands = <<>>
      /\ (Calm(queue) <=> Calm(q)) /\ (Young(queue) <=> Young(q))
      /\ (IsActive(queue) <=> IsActive(q))
  <2>1. Formed(queue)
    BY DEF Formed, InOrder, Good, Begun
  <2> QED
    BY <2>1, UnsentCalm DEF Fresh
<1>2. queue' = IF IsActive(queue) /\ queue.active.id = command.id THEN RunNext(r) ELSE q
  BY DEF HandleReceived
<1> HIDE DEF q
<1>3. /\ DOMAIN r = DOMAIN q /\ r.tasks = q.tasks /\ r.active = q.active /\ r.fields = q.fields
      /\ r.urgent = q.urgent /\ r.running = q.running /\ r.isLocked = q.isLocked
      /\ r.nextId = q.nextId /\ r.lockCommands = q.lockCommands
      /\ r.waiting = Append(q.waiting, Handle(command))
  BY <1>1 DEF AddCommand, Formed, IsQueue
<1> HIDE DEF r
<1>4. /\ IsSequence(r.waiting)
      /\ \A h : Holds(r.waiting, h) => Holds(q.waiting, h) \/ h = Handle(command)
  BY <1>1, <1>3, AppendHolds DEF Formed, Handlers
<1>5. Formed(r)
  <2>1. Handle(command).command = command
    BY DEF Handle
  <2> QED
    BY <1>1, <1>3, <1>4, <2>1 DEF Formed, IsQueue, Handlers, Typed
<1>6. Typed(queue')
  BY <1>1, <1>2, <1>5, RunNextTyped DEF Formed
<1>7. /\ q.isLocked = queue.isLocked /\ q.urgent = queue.urgent /\ q.active = queue.active
      /\ q.nextId = queue.nextId
  BY <1>1 DEF SameTransfers
<1>8. ASSUME Calm(queue), ~(IsActive(queue) /\ queue.active.id = command.id)
      PROVE  Keeps(queue, queue')
  BY <1>1, <1>2, <1>7, <1>8 DEF Keeps
<1>9. ASSUME Calm(queue), IsActive(queue), queue.isLocked, queue.active.id = command.id
      PROVE  Keeps(queue, queue')
  <2>1. (IsActive(r) <=> IsActive(q)) /\ (Own(r) <=> Own(q))
    BY <1>3 DEF IsActive, Own, Waits
  <2>2. Goes(r) <=> Goes(q)
    BY <1>3, <2>1 DEF Goes, OnlyAsks
  <2>3. Calm(r)
    BY <1>1, <1>3, <1>7, <1>9, <2>1, <2>2 DEF Calm
  <2>4. queue' = RunNext(r)
    BY <1>2, <1>9
  <2>5. Calm(queue') /\ Turns(r, queue')
    BY <1>5, <2>3, <2>4, TurnLock
  <2> QED
    BY <1>1, <1>3, <1>7, <1>9, <2>1, <2>5 DEF Turns, Keeps
<1> QED
  BY <1>6, <1>8, <1>9

\* A queue that is cleared is calm, without transfers and without the lock.
LEMMA ClearLock ==
    ASSUME Locking, NEW q, Formed(q), q.lockCommands = <<>>
    PROVE  LET r == ClearQueue(q)
           IN  /\ Typed(r) /\ ~IsActive(r) /\ ~r.isLocked
               /\ q.running.wait # "store" => Calm(r)
               /\ ~q.isLocked => r.lockCommands = <<>>
<1> DEFINE aborted == {q.tasks[i] : i \in DOMAIN q.tasks} \union
                      (IF IsActive(q) THEN {q.active.of} ELSE {})
           a == TransferCompleted(ClearHandlers([q EXCEPT !.tasks = <<>>]))
           fields == [t \in Transfers |-> IF t \in aborted THEN Abort(a.fields[t]) ELSE a.fields[t]]
           r == ClearQueue(q)
<1>1. /\ DOMAIN q = {"tasks", "active", "isLocked", "urgent", "waiting", "running", "nextId",
                     "lockCommands", "fields"}
      /\ \A t \in Transfers : IsTransfer(q.fields[t]) /\ q.fields[t].moved \in Int
  BY DEF Formed, IsQueue, Typed
<1>2. /\ DOMAIN a = DOMAIN q /\ a.tasks = <<>> /\ a.urgent = <<>> /\ a.waiting = <<>>
      /\ a.running = q.running /\ a.fields = q.fields
  BY <1>1 DEF TransferCompleted, ClearHandlers, SendLock
<1>3. ~a.isLocked /\ (~q.isLocked => a.lockCommands = <<>>)
  <2> DEFINE c == ClearHandlers([q EXCEPT !.tasks = <<>>])
  <2>1. /\ DOMAIN c = DOMAIN q /\ c.tasks = <<>> /\ c.isLocked = q.isLocked
        /\ c.lockCommands = <<>>
    BY <1>1 DEF ClearHandlers
  <2>2. a = TransferCompleted(c)
    OBVIOUS
  <2> HIDE DEF a, c
  <2>3. CASE q.isLocked
    BY <1>1, <2>1, <2>2, <2>3 DEF TransferCompleted, SendLock
  <2>4. CASE ~q.isLocked
    BY <1>1, <2>1, <2>2, <2>4 DEF TransferCompleted
  <2> QED
    BY <2>3, <2>4
<1>4. r = [a EXCEPT !.active = NoActive, !.fields = fields]
  BY DEF ClearQueue
<1>5. \A t \in Transfers : fields[t].moved \in Int
  <2> HIDE DEF a
  <2>1. \A t \in Transfers : Abort(q.fields[t]).moved = q.fields[t].moved
    BY <1>1 DEF Abort, Settle, IsTransfer
  <2> QED
    BY <1>1, <1>2, <2>1
<1> HIDE DEF a, fields, r
<1>6. /\ r.tasks = <<>> /\ r.urgent = <<>> /\ r.waiting = <<>> /\ r.running = q.running
      /\ r.active = NoActive /\ r.fields = fields /\ r.isLocked = a.isLocked
      /\ r.lockCommands = a.lockCommands
  BY <1>1, <1>2, <1>4
<1>7. ~IsActive(r) /\ NoActive.queuedCommands = <<>>
  BY <1>6 DEF IsActive, NoActive
<1>8. Typed(r)
  BY <1>5, <1>6, <1>7, GivenOrders, ShortHolds DEF Typed, Formed
<1>9. q.running.wait # "store" => Calm(r)
  BY <1>3, <1>6, <1>7 DEF Calm
<1> QED
  BY <1>3, <1>6, <1>7, <1>8, <1>9 DEF r

\* Sending starts, with a calm queue that does nothing yet.
LEMMA StartSendingLock ==
    ASSUME Locking, InOrder(queue, interval), Typed(queue), StartCommandSending
    PROVE  /\ Typed(queue')
           /\ Calm(queue) /\ (interval \/ ~IsActive(queue)) =>
                 /\ Keeps(queue, queue') /\ (Young(queue) => Young(queue'))
                 /\ IsActive(queue') <=> IsActive(queue)
<1> DEFINE q == Fresh
<1>1. /\ Formed(q) /\ SameTransfers(queue, q) /\ q.running = queue.running
      /\ q.lockCommands = <<>>
      /\ (Calm(queue) <=> Calm(q)) /\ (Young(queue) <=> Young(q))
      /\ (IsActive(queue) <=> IsActive(q))
  <2>1. Formed(queue)
    BY DEF Formed, InOrder, Good, Begun
  <2> QED
    BY <2>1, UnsentCalm DEF Fresh
<1>2. queue' = IF interval THEN q ELSE ClearQueue(q)
  BY DEF StartCommandSending
<1> HIDE DEF q
<1>3. CASE interval
  BY <1>1, <1>2, <1>3 DEF Keeps, Formed, SameTransfers
<1>4. CASE ~interval
  <2> DEFINE r == ClearQueue(q)
  <2>1. /\ Typed(r) /\ ~IsActive(r) /\ ~r.isLocked
        /\ q.running.wait # "store" => Calm(r)
        /\ ~q.isLocked => r.lockCommands = <<>>
    BY <1>1, ClearLock
  <2> HIDE DEF r
  <2>2. queue' = r
    BY <1>2, <1>4 DEF r
  <2>3. ASSUME Calm(queue), ~IsActive(queue)
        PROVE  Keeps(queue, r) /\ ~Young(queue)
    <3>1. q.running.wait # "store" /\ ~q.isLocked
      BY <1>1, <2>3 DEF Calm, Own
    <3> QED
      BY <1>1, <2>1, <2>3, <3>1 DEF Keeps, Young, SameTransfers
  <2> QED
    BY <1>4, <2>1, <2>2, <2>3
<1> QED
  BY <1>3, <1>4

\* Sending stops with the connection.
LEMMA StopSendingLock ==
    ASSUME Locking, InOrder(queue, interval), Typed(queue), StopCommandSending
    PROVE  Typed(queue') /\ Calm(queue') /\ ~IsActive(queue')
<1> DEFINE q == Fresh
<1>1. /\ Formed(q) /\ q.running = queue.running /\ q.lockCommands = <<>>
  <2>1. Formed(queue)
    BY DEF Formed, InOrder, Good, Begun
  <2> QED
    BY <2>1, UnsentCalm DEF Fresh
<1>2. queue' = ClearQueue(q) /\ q.running.wait # "store"
  BY <1>1 DEF StopCommandSending, MayInterrupt
<1> HIDE DEF q
<1> QED
  BY <1>1, <1>2, ClearLock

\* A failure to send is of no concern to a queue that does nothing.
LEMMA SendFailedLock ==
    ASSUME Locking, InOrder(queue, interval), Typed(queue), SendFailed
    PROVE  /\ Typed(queue')
           /\ Calm(queue) /\ ~IsActive(queue) => Calm(queue') /\ ~IsActive(queue')
<1> DEFINE q == Fresh
           r == TryAbortTransfer(q)
<1>1. /\ Formed(q) /\ (Calm(queue) <=> Calm(q)) /\ (IsActive(queue) <=> IsActive(q))
  <2>1. Formed(queue)
    BY DEF Formed, InOrder, Good, Begun
  <2> QED
    BY <2>1, UnsentCalm DEF Fresh
<1>2. queue' = RunNext(r)
  BY DEF SendFailed
<1> HIDE DEF q
<1>3. Formed(r)
  <2>1. /\ DOMAIN r = DOMAIN q /\ r.tasks = q.tasks /\ r.active = q.active /\ r.fields = q.fields
        /\ r.waiting = q.waiting /\ r.running = q.running
        /\ r.urgent = IF IsActive(q) THEN Append(q.urgent, AbortOf(q.active.id)) ELSE q.urgent
    BY <1>1 DEF TryAbortTransfer, AddUrgent, Formed, IsQueue
  <2> HIDE DEF r
  <2>2. /\ IsSequence(r.urgent)
        /\ \A h : Holds(r.urgent, h) => Holds(q.urgent, h) \/ \E id : h = AbortOf(id)
    BY <1>1, <2>1, AppendHolds DEF Formed, Handlers
  <2> QED
    BY <1>1, <2>1, <2>2 DEF Formed, IsQueue, Handlers, Typed
<1>4. ~IsActive(q) => r = q
  BY DEF TryAbortTransfer
<1> HIDE DEF r
<1>5. Typed(queue')
  BY <1>2, <1>3, RunNextTyped DEF Formed
<1>6. ASSUME Calm(queue), ~IsActive(queue)
      PROVE  Calm(queue') /\ ~IsActive(queue')
  BY <1>1, <1>2, <1>3, <1>4, <1>6, TurnLock DEF Turns
<1> QED
  BY <1>5, <1>6

-----------------------------------------------------------------------------
(* The pool's lock, at both ends of the connection *)

Asks(c) == c.type = "lock" /\ c.locked
GivesBack(c) == c.type = "lock" /\ ~c.locked
Grants(c) == c.type = "lockObtained"
TellsLocked(c) == c.type = "lockState" /\ c.locked
TellsFree(c) == c.type = "lockState" /\ ~c.locked

NoLocks(s) == \A i \in DOMAIN s : s[i].type # "lock"
NoGrants(r) == \A i \in DOMAIN r : ~Grants(r[i])

\* What travels to the device: it is asked for the lock last of all, and requests go out
\* while we hold the lock and before it is returned.
Covered(s, h) ==
    /\ IsSequence(s)
    /\ \A i \in DOMAIN s :
          /\ s[i].type = "request" => h = "us"
          /\ Asks(s[i]) => i = Len(s)
          /\ GivesBack(s[i]) => h = "us" /\ \A j \in DOMAIN s : j > i => Asks(s[j])

\* What the client knows of the lock and what the device does: they differ only by what is
\* on its way.  A lock that is granted is told once more, after which nothing of the transfer
\* has begun yet: its return cannot overtake the news.
Agree(q, s, r, h) ==
    /\ Calm(q) /\ IsSequence(r)
    /\ q.isLocked => h = "us" /\ NoLocks(s) /\ NoGrants(r) /\ \A i \in DOMAIN r : ~TellsFree(r[i])
    /\ h = "us" => q.isLocked \/ (\E i \in DOMAIN s : GivesBack(s[i])) \/ ~NoGrants(r)
    /\ \A i \in DOMAIN r : Grants(r[i]) =>
          /\ h = "us" /\ NoLocks(s)
          /\ i + 1 \in DOMAIN r /\ TellsLocked(r[i + 1])
          /\ \A j \in DOMAIN r : j > i => ~Grants(r[j]) /\ ~TellsFree(r[j])
    /\ \A i \in DOMAIN r : TellsLocked(r[i]) =>
          IF i = 1 THEN q.isLocked /\ Young(q) ELSE Grants(r[i - 1])
    /\ (\E i \in DOMAIN s : Asks(s[i])) \/ ~NoGrants(r)
          => IsActive(q) /\ ~q.isLocked /\ q.urgent = <<>>

\* The rest of a sequence.
LEMMA RestAt ==
    ASSUME NEW s, IsSequence(s), s # <<>>
    PROVE  /\ IsSequence(Tail(s)) /\ Len(s) \in Nat /\ Len(Tail(s)) = Len(s) - 1
           /\ DOMAIN s = 1 .. Len(s) /\ DOMAIN Tail(s) = 1 .. Len(s) - 1
           /\ 1 \in DOMAIN s /\ Head(s) = s[1]
           /\ \A i \in DOMAIN Tail(s) : i \in Nat /\ i >= 1 /\ i + 1 \in DOMAIN s /\ Tail(s)[i] = s[i + 1]
<1>1. PICK S : s \in Seq(S)
  BY DEF IsSequence
<1>2. Tail(s) \in Seq(S)
  BY <1>1
<1> QED
  BY <1>1, <1>2 DEF IsSequence

\* One more at the end.
LEMMA OneMoreAt ==
    ASSUME NEW s, NEW c, IsSequence(s)
    PROVE  LET t == s \o <<c>>
           IN  /\ IsSequence(t) /\ Len(s) \in Nat /\ Len(t) = Len(s) + 1
               /\ DOMAIN s = 1 .. Len(s) /\ DOMAIN t = 1 .. Len(s) + 1
               /\ t[Len(s) + 1] = c /\ \A i \in 1 .. Len(s) : t[i] = s[i]
<1>1. IsSequence(<<c>>) /\ Len(<<c>>) = 1 /\ <<c>>[1] = c
  BY GivenSequences
<1> DEFINE d == <<c>>
<1> HIDE DEF d
<1>2. IsSequence(d) /\ Len(d) = 1 /\ d[1] = c
  BY <1>1 DEF d
<1> QED
  BY <1>2, JoinAt DEF d

\* The device takes a command.
LEMMA TakenCovered ==
    ASSUME NEW s, NEW h, NEW g, Covered(s, h), s # <<>>, g = h \/ GivesBack(Head(s)) \/ Asks(Head(s))
    PROVE  /\ Covered(Tail(s), g) /\ (Asks(Head(s)) => Tail(s) = <<>>)
           /\ GivesBack(Head(s)) => h = "us" /\ \A i \in DOMAIN Tail(s) : ~GivesBack(Tail(s)[i])
           /\ Head(s).type = "request" => h = "us"
<1>1. /\ IsSequence(Tail(s)) /\ Len(s) \in Nat /\ Len(Tail(s)) = Len(s) - 1
      /\ DOMAIN s = 1 .. Len(s) /\ DOMAIN Tail(s) = 1 .. Len(s) - 1
      /\ 1 \in DOMAIN s /\ Head(s) = s[1]
      /\ \A i \in DOMAIN Tail(s) : i \in Nat /\ i >= 1 /\ i + 1 \in DOMAIN s /\ Tail(s)[i] = s[i + 1]
  BY RestAt DEF Covered
<1>2. ASSUME Asks(Head(s)) PROVE Tail(s) = <<>>
  <2>1. Len(s) = 1
    BY <1>1, <1>2 DEF Covered
  <2> QED
    BY <1>1, <2>1 DEF IsSequence
<1>3. ASSUME NEW i \in DOMAIN Tail(s)
      PROVE  /\ Tail(s)[i].type = "request" => g = "us"
             /\ Asks(Tail(s)[i]) => i = Len(Tail(s))
             /\ GivesBack(Tail(s)[i]) =>
                    g = "us" /\ \A j \in DOMAIN Tail(s) : j > i => Asks(Tail(s)[j])
             /\ GivesBack(Head(s)) => Asks(Tail(s)[i])
  <2>1. i + 1 \in DOMAIN s /\ Tail(s)[i] = s[i + 1] /\ i + 1 > 1 /\ i \in Nat
    BY <1>1, <1>3
  <2>2. GivesBack(Head(s)) => Asks(s[i + 1])
    BY <1>1, <2>1 DEF Covered
  <2>3. ~Asks(Head(s))
    BY <1>1, <1>2, <1>3
  <2>4. GivesBack(Head(s)) => s[i + 1].type # "request" /\ ~GivesBack(s[i + 1])
    BY <2>2 DEF Asks, GivesBack
  <2>5. s[i + 1].type = "request" \/ GivesBack(s[i + 1]) => g = "us"
    BY <2>1, <2>3, <2>4 DEF Covered
  <2>6. Asks(Tail(s)[i]) => i = Len(Tail(s))
    <3>1. ASSUME Asks(s[i + 1]) PROVE i = Len(Tail(s))
      <4>1. i + 1 = Len(s)
        BY <2>1, <3>1 DEF Covered
      <4>2. i = Len(s) - 1
        BY <2>1, <4>1
      <4> QED
        BY <1>1, <4>2
    <3>2. Asks(Tail(s)[i]) <=> Asks(s[i + 1])
      BY <2>1
    <3> QED
      BY <3>1, <3>2
  <2>7. ASSUME GivesBack(s[i + 1]), NEW j \in DOMAIN Tail(s), j > i
        PROVE  Asks(Tail(s)[j])
    BY <1>1, <2>1, <2>7 DEF Covered
  <2> QED
    BY <2>1, <2>2, <2>5, <2>6, <2>7
<1>4. Head(s).type = "request" \/ GivesBack(Head(s)) => h = "us"
  BY <1>1 DEF Covered
<1>5. GivesBack(Head(s)) => \A i \in DOMAIN Tail(s) : ~GivesBack(Tail(s)[i])
  BY <1>3 DEF Asks, GivesBack
<1> QED
  BY <1>1, <1>2, <1>3, <1>4, <1>5 DEF Covered

\* Commands that are no lock commands are sent, while we hold the lock.
LEMMA SentCovered ==
    ASSUME NEW s, NEW h, NEW p, Covered(s, h), Orders(p), p # <<>> => h = "us" /\ NoLocks(s)
    PROVE  Covered(s \o p, h) /\ (NoLocks(s) => NoLocks(s \o p))
<1>1. /\ IsSequence(s \o p) /\ Len(s) \in Nat /\ Len(p) \in Nat
      /\ DOMAIN s = 1 .. Len(s) /\ DOMAIN p = 1 .. Len(p)
      /\ DOMAIN (s \o p) = 1 .. Len(s) + Len(p)
      /\ \A i \in 1 .. Len(s) : (s \o p)[i] = s[i]
      /\ \A i \in 1 .. Len(p) : (s \o p)[Len(s) + i] = p[i]
  BY JoinAt DEF Covered, Orders
<1>2. CASE p = <<>>
  <2>1. s \o p = s
    BY <1>2 DEF Covered, IsSequence
  <2> QED
    BY <2>1
<1>3. CASE p # <<>>
  <2>1. ASSUME NEW i \in DOMAIN (s \o p)
        PROVE  (s \o p)[i].type # "lock"
    <3>1. CASE i <= Len(s)
      BY <1>1, <1>3, <3>1 DEF NoLocks
    <3>2. CASE ~(i <= Len(s))
      <4>1. i - Len(s) \in 1 .. Len(p) /\ i = Len(s) + (i - Len(s))
        BY <1>1, <3>2
      <4> QED
        BY <1>1, <4>1 DEF Orders
    <3> QED
      BY <3>1, <3>2
  <2> QED
    BY <1>1, <1>3, <2>1 DEF Covered, NoLocks, Asks, GivesBack
<1> QED
  BY <1>2, <1>3

\* A lock command is sent.
LEMMA LockCovered ==
    ASSUME NEW s, NEW h, NEW locked \in BOOLEAN, Covered(s, h),
           \A i \in DOMAIN s : ~Asks(s[i]), ~locked => h = "us" /\ NoLocks(s)
    PROVE  LET t == s \o <<Lock(locked)>>
           IN  /\ Covered(t, h)
               /\ ~locked => \E i \in DOMAIN t : GivesBack(t[i])
               /\ locked => \A i \in DOMAIN t : GivesBack(t[i]) => i \in DOMAIN s
               /\ \A i \in DOMAIN s : i \in DOMAIN t /\ t[i] = s[i]
               /\ ~locked => \A i \in DOMAIN t : ~Asks(t[i])
<1> DEFINE c == Lock(locked)
           t == s \o <<c>>
<1>1. c.type = "lock" /\ c.locked = locked
  BY DEF Lock
<1> HIDE DEF c
<1>2. /\ IsSequence(t) /\ Len(s) \in Nat /\ Len(t) = Len(s) + 1
      /\ DOMAIN s = 1 .. Len(s) /\ DOMAIN t = 1 .. Len(s) + 1
      /\ t[Len(s) + 1] = c /\ \A i \in 1 .. Len(s) : t[i] = s[i]
  BY OneMoreAt DEF Covered
<1> HIDE DEF t
<1>3. /\ locked => Asks(t[Len(s) + 1]) /\ ~GivesBack(t[Len(s) + 1])
      /\ ~locked => GivesBack(t[Len(s) + 1]) /\ ~Asks(t[Len(s) + 1])
      /\ t[Len(s) + 1].type # "request"
  BY <1>1, <1>2 DEF Asks, GivesBack
<1>4. ~locked => \A i \in DOMAIN s : ~GivesBack(s[i])
  BY DEF NoLocks, GivesBack
<1>5. ASSUME NEW i \in DOMAIN t
      PROVE  /\ t[i].type = "request" => h = "us"
             /\ Asks(t[i]) => i = Len(t)
             /\ GivesBack(t[i]) => h = "us" /\ \A j \in DOMAIN t : j > i => Asks(t[j])
  <2>1. CASE i \in DOMAIN s
    <3>1. t[i] = s[i] /\ ~Asks(t[i]) /\ (t[i].type = "request" => h = "us")
      BY <1>2, <2>1 DEF Covered
    <3>2. ASSUME GivesBack(t[i]), NEW j \in DOMAIN t, j > i
          PROVE  Asks(t[j])
      <4>1. locked
        BY <1>4, <2>1, <3>1, <3>2
      <4>2. CASE j \in DOMAIN s
        BY <1>2, <2>1, <3>1, <3>2, <4>2 DEF Covered
      <4>3. CASE j = Len(s) + 1
        BY <1>3, <4>1, <4>3
      <4> QED
        BY <1>2, <4>2, <4>3
    <3> QED
      BY <2>1, <3>1, <3>2 DEF Covered
  <2>2. CASE i = Len(s) + 1
    BY <1>2, <1>3, <2>2
  <2> QED
    BY <1>2, <2>1, <2>2
<1>6. ~locked => \E i \in DOMAIN t : GivesBack(t[i])
  BY <1>2, <1>3
<1>7. locked => \A i \in DOMAIN t : GivesBack(t[i]) => i \in DOMAIN s
  BY <1>2, <1>3
<1>8. ~locked => \A i \in DOMAIN t : ~Asks(t[i])
  BY <1>2, <1>3
<1>9. Covered(t, h)
  BY <1>2, <1>5 DEF Covered
<1> QED
  BY <1>2, <1>6, <1>7, <1>8, <1>9 DEF t, c

\* The event loop does nothing about the lock, but may send other commands while it has it.
LEMMA KeepsAgree ==
    ASSUME NEW q, NEW q2, NEW s, NEW r, NEW h, NEW p, Agree(q, s, r, h), Covered(s, h),
           Keeps(q, q2), Young(q) => Young(q2), Orders(p), p # <<>> => q.isLocked
    PROVE  Agree(q2, s \o p, r, h) /\ Covered(s \o p, h)
<1>1. p # <<>> => h = "us" /\ NoLocks(s)
  BY DEF Agree
<1>2. Covered(s \o p, h) /\ (NoLocks(s) => NoLocks(s \o p))
  BY <1>1, SentCovered
<1>3. p = <<>> => s \o p = s
  BY DEF Covered, IsSequence
<1>4. /\ Calm(q2) /\ (q2.isLocked <=> q.isLocked)
      /\ IsActive(q) /\ ~q.isLocked => IsActive(q2) /\ (q.urgent = <<>> => q2.urgent = <<>>)
  BY DEF Keeps
<1> DEFINE t == s \o p
<1>5. (\E i \in DOMAIN t : Asks(t[i])) => \E i \in DOMAIN s : Asks(s[i])
  <2>1. CASE p = <<>>
    BY <1>3, <2>1
  <2>2. CASE p # <<>>
    BY <1>1, <1>2, <2>2 DEF NoLocks, Asks
  <2> QED
    BY <2>1, <2>2
<1>6. (\E i \in DOMAIN s : GivesBack(s[i])) => \E i \in DOMAIN t : GivesBack(t[i])
  <2>1. CASE p = <<>>
    BY <1>3, <2>1
  <2>2. CASE p # <<>>
    BY <1>1, <2>2 DEF NoLocks, GivesBack
  <2> QED
    BY <2>1, <2>2
<1> HIDE DEF t
<1>7. Agree(q2, t, r, h)
  BY <1>2, <1>4, <1>5, <1>6 DEF Agree, t
<1> QED
  BY <1>2, <1>7 DEF t

\* The lock is asked for.
LEMMA AsksAgree ==
    ASSUME NEW q, NEW q2, NEW s, NEW r, NEW h, Agree(q, s, r, h), Covered(s, h), AsksFor(q, q2)
    PROVE  Agree(q2, s \o <<Lock(TRUE)>>, r, h) /\ Covered(s \o <<Lock(TRUE)>>, h)
<1> DEFINE t == s \o <<Lock(TRUE)>>
<1>1. (\A i \in DOMAIN s : ~Asks(s[i])) /\ NoGrants(r)
  BY DEF Agree, AsksFor
<1>2. /\ Covered(t, h) /\ \A i \in DOMAIN s : i \in DOMAIN t /\ t[i] = s[i]
  BY <1>1, LockCovered
<1> HIDE DEF t
<1>3. /\ Calm(q2) /\ ~q2.isLocked /\ IsActive(q2) /\ q2.urgent = <<>> /\ ~q.isLocked
  BY DEF AsksFor
<1>4. h = "us" => \E i \in DOMAIN t : GivesBack(t[i])
  BY <1>1, <1>2, <1>3 DEF Agree
<1>5. Agree(q2, t, r, h)
  BY <1>1, <1>3, <1>4 DEF Agree, NoGrants
<1> QED
  BY <1>2, <1>5 DEF t

\* The lock is returned.
LEMMA ReturnsAgree ==
    ASSUME NEW q, NEW q2, NEW s, NEW r, NEW h, Agree(q, s, r, h), Covered(s, h), Returns(q, q2)
    PROVE  Agree(q2, s \o <<Lock(FALSE)>>, r, h) /\ Covered(s \o <<Lock(FALSE)>>, h)
<1> DEFINE t == s \o <<Lock(FALSE)>>
<1>1. h = "us" /\ NoLocks(s) /\ NoGrants(r)
  BY DEF Agree, Returns
<1>2. \A i \in DOMAIN s : ~Asks(s[i])
  BY <1>1 DEF NoLocks, Asks
<1>3. /\ Covered(t, h) /\ (\E i \in DOMAIN t : GivesBack(t[i])) /\ \A i \in DOMAIN t : ~Asks(t[i])
  BY <1>1, <1>2, LockCovered
<1> HIDE DEF t
<1>4. Calm(q2) /\ ~q2.isLocked /\ ~Young(q)
  BY DEF Returns
<1>5. Agree(q2, t, r, h)
  BY <1>1, <1>3, <1>4 DEF Agree, NoGrants
<1> QED
  BY <1>3, <1>5 DEF t

\* The client takes a command that gives it no lock.
LEMMA HeardAgree ==
    ASSUME NEW q, NEW q2, NEW s, NEW r, NEW h, Agree(q, s, r, h), r # <<>>, ~Grants(Head(r)),
           Keeps(q, q2)
    PROVE  Agree(q2, s, Tail(r), h)
<1> DEFINE u == Tail(r)
<1>1. /\ IsSequence(u) /\ DOMAIN r = 1 .. Len(r) /\ DOMAIN u = 1 .. Len(r) - 1 /\ Len(r) \in Nat
      /\ 1 \in DOMAIN r /\ Head(r) = r[1]
      /\ \A i \in DOMAIN u : i \in Nat /\ i >= 1 /\ i + 1 \in DOMAIN r /\ u[i] = r[i + 1]
  BY RestAt DEF Agree
<1> HIDE DEF u
<1>2. /\ Calm(q2) /\ (q2.isLocked <=> q.isLocked)
      /\ IsActive(q) /\ ~q.isLocked => IsActive(q2) /\ (q.urgent = <<>> => q2.urgent = <<>>)
  BY DEF Keeps
<1>3. \A i \in DOMAIN r : Grants(r[i]) => i > 1 /\ i - 1 \in DOMAIN u /\ u[i - 1] = r[i]
  <2>1. ASSUME NEW i \in DOMAIN r, Grants(r[i])
        PROVE  i > 1 /\ i - 1 \in DOMAIN u /\ u[i - 1] = r[i]
    <3>1. i > 1
      BY <1>1, <2>1
    <3>2. i - 1 \in DOMAIN u /\ (i - 1) + 1 = i
      BY <1>1, <2>1, <3>1
    <3> QED
      BY <1>1, <3>1, <3>2
  <2> QED
    BY <2>1
<1>4. NoGrants(u) <=> NoGrants(r)
  BY <1>1, <1>3 DEF NoGrants
<1>5. ASSUME NEW i \in DOMAIN u, Grants(u[i])
      PROVE  /\ h = "us" /\ NoLocks(s)
             /\ i + 1 \in DOMAIN u /\ TellsLocked(u[i + 1])
             /\ \A j \in DOMAIN u : j > i => ~Grants(u[j]) /\ ~TellsFree(u[j])
  <2>1. i + 1 \in DOMAIN r /\ Grants(r[i + 1])
    BY <1>1, <1>5
  <2>2. /\ h = "us" /\ NoLocks(s)
        /\ (i + 1) + 1 \in DOMAIN r /\ TellsLocked(r[(i + 1) + 1])
        /\ \A j \in DOMAIN r : j > i + 1 => ~Grants(r[j]) /\ ~TellsFree(r[j])
    BY <2>1 DEF Agree
  <2>3. i + 1 \in DOMAIN u
    BY <1>1, <1>5, <2>2
  <2>4. TellsLocked(u[i + 1])
    BY <1>1, <2>2, <2>3
  <2>5. ASSUME NEW j \in DOMAIN u, j > i
        PROVE  ~Grants(u[j]) /\ ~TellsFree(u[j])
    <3>1. j + 1 \in DOMAIN r /\ u[j] = r[j + 1]
      BY <1>1, <2>5
    <3>2. j + 1 > i + 1
      BY <1>1, <1>5, <2>5
    <3> QED
      BY <2>2, <3>1, <3>2
  <2> QED
    BY <2>2, <2>3, <2>4, <2>5
<1>6. ASSUME NEW i \in DOMAIN u, TellsLocked(u[i])
      PROVE  IF i = 1 THEN q2.isLocked /\ Young(q2) ELSE Grants(u[i - 1])
  <2>1. i + 1 \in DOMAIN r /\ TellsLocked(r[i + 1]) /\ i + 1 # 1 /\ (i + 1) - 1 = i
    BY <1>1, <1>6
  <2>2. Grants(r[i])
    BY <2>1 DEF Agree
  <2>3. i \in DOMAIN r
    BY <1>1, <1>6
  <2> QED
    BY <1>1, <1>3, <2>2, <2>3
<1>7. q.isLocked => \A i \in DOMAIN u : ~TellsFree(u[i])
  BY <1>1 DEF Agree
<1>8. Agree(q2, s, u, h)
  BY <1>1, <1>2, <1>4, <1>5, <1>6, <1>7 DEF Agree
<1> QED
  BY <1>8 DEF u

\* The client takes the lock it was given.
LEMMA GrantedAgree ==
    ASSUME NEW q, NEW q2, NEW s, NEW r, NEW h, Agree(q, s, r, h), r # <<>>, Grants(Head(r)),
           Calm(q2), q2.isLocked, IsActive(q2), Young(q2)
    PROVE  Agree(q2, s, Tail(r), h)
<1> DEFINE u == Tail(r)
<1>1. /\ IsSequence(u) /\ DOMAIN r = 1 .. Len(r) /\ DOMAIN u = 1 .. Len(r) - 1 /\ Len(r) \in Nat
      /\ 1 \in DOMAIN r /\ Head(r) = r[1]
      /\ \A i \in DOMAIN u : i \in Nat /\ i >= 1 /\ i + 1 \in DOMAIN r /\ u[i] = r[i + 1]
  BY RestAt DEF Agree
<1> HIDE DEF u
<1>2. /\ h = "us" /\ NoLocks(s)
      /\ \A j \in DOMAIN r : j > 1 => ~Grants(r[j]) /\ ~TellsFree(r[j])
  BY <1>1 DEF Agree
<1>3. \A j \in DOMAIN u : ~Grants(u[j]) /\ ~TellsFree(u[j])
  <2>1. ASSUME NEW j \in DOMAIN u
        PROVE  ~Grants(u[j]) /\ ~TellsFree(u[j])
    <3>1. j + 1 \in DOMAIN r /\ u[j] = r[j + 1] /\ j + 1 > 1
      BY <1>1
    <3> QED
      BY <1>2, <3>1
  <2> QED
    BY <2>1
<1>4. ASSUME NEW i \in DOMAIN u, TellsLocked(u[i])
      PROVE  i = 1
  <2>1. i + 1 \in DOMAIN r /\ TellsLocked(r[i + 1]) /\ i + 1 # 1 /\ (i + 1) - 1 = i /\ i \in DOMAIN r
        /\ i >= 1 /\ i \in Nat
    BY <1>1, <1>4
  <2>2. Grants(r[i])
    BY <2>1 DEF Agree
  <2> QED
    BY <1>2, <2>1, <2>2
<1>5. NoGrants(u) /\ (\A i \in DOMAIN s : ~Asks(s[i]))
  BY <1>2, <1>3 DEF NoGrants, NoLocks, Asks
<1>6. Agree(q2, s, u, h)
  BY <1>1, <1>2, <1>3, <1>4, <1>5 DEF Agree
<1> QED
  BY <1>6 DEF u

\* The device takes a command that is not about the lock.
LEMMA TakenAgree ==
    ASSUME NEW q, NEW s, NEW r, NEW h, Agree(q, s, r, h), Covered(s, h), s # <<>>,
           Head(s).type # "lock"
    PROVE  Agree(q, Tail(s), r, h)
<1> DEFINE u == Tail(s)
<1>1. /\ DOMAIN s = 1 .. Len(s) /\ DOMAIN u = 1 .. Len(s) - 1 /\ Len(s) \in Nat
      /\ 1 \in DOMAIN s /\ Head(s) = s[1]
      /\ \A i \in DOMAIN u : i \in Nat /\ i >= 1 /\ i + 1 \in DOMAIN s /\ u[i] = s[i + 1]
  BY RestAt DEF Covered
<1> HIDE DEF u
<1>2. ASSUME NEW i \in DOMAIN s, s[i].type = "lock"
      PROVE  i - 1 \in DOMAIN u /\ u[i - 1] = s[i]
  <2>1. i > 1
    BY <1>1, <1>2
  <2>2. i - 1 \in DOMAIN u /\ (i - 1) + 1 = i
    BY <1>1, <1>2, <2>1
  <2> QED
    BY <1>1, <2>1, <2>2
<1>3. NoLocks(s) => NoLocks(u)
  BY <1>1 DEF NoLocks
<1>4. (\E i \in DOMAIN s : GivesBack(s[i])) => \E i \in DOMAIN u : GivesBack(u[i])
  BY <1>2 DEF GivesBack
<1>5. (\E i \in DOMAIN u : Asks(u[i])) => \E i \in DOMAIN s : Asks(s[i])
  BY <1>1
<1>6. Agree(q, u, r, h)
  BY <1>3, <1>4, <1>5 DEF Agree
<1> QED
  BY <1>6 DEF u

\* The device answers.
LEMMA AnsweredAgree ==
    ASSUME NEW q, NEW s, NEW r, NEW h, NEW c, Agree(q, s, r, h),
           ~Grants(c), ~TellsLocked(c), TellsFree(c) => ~q.isLocked /\ NoGrants(r)
    PROVE  Agree(q, s, r \o <<c>>, h)
<1> DEFINE u == r \o <<c>>
<1>1. /\ IsSequence(u) /\ Len(r) \in Nat /\ DOMAIN r = 1 .. Len(r) /\ DOMAIN u = 1 .. Len(r) + 1
      /\ u[Len(r) + 1] = c /\ \A i \in 1 .. Len(r) : u[i] = r[i]
  BY OneMoreAt DEF Agree
<1> HIDE DEF u
<1>2. \A i \in DOMAIN u : IF i \in DOMAIN r THEN u[i] = r[i] ELSE u[i] = c
  BY <1>1
<1>3. DOMAIN r \subseteq DOMAIN u
  BY <1>1
<1>4. NoGrants(u) <=> NoGrants(r)
  BY <1>2, <1>3 DEF NoGrants
<1>5. ASSUME NEW i \in DOMAIN u, Grants(u[i])
      PROVE  /\ h = "us" /\ NoLocks(s)
             /\ i + 1 \in DOMAIN u /\ TellsLocked(u[i + 1])
             /\ \A j \in DOMAIN u : j > i => ~Grants(u[j]) /\ ~TellsFree(u[j])
  <2>1. i \in DOMAIN r /\ Grants(r[i])
    BY <1>2, <1>5
  <2>2. /\ h = "us" /\ NoLocks(s)
        /\ i + 1 \in DOMAIN r /\ TellsLocked(r[i + 1])
        /\ \A j \in DOMAIN r : j > i => ~Grants(r[j]) /\ ~TellsFree(r[j])
    BY <2>1 DEF Agree
  <2>3. ~TellsFree(c)
    BY <2>1 DEF NoGrants
  <2> QED
    BY <1>2, <1>3, <2>2, <2>3
<1>6. ASSUME NEW i \in DOMAIN u, TellsLocked(u[i])
      PROVE  IF i = 1 THEN q.isLocked /\ Young(q) ELSE Grants(u[i - 1])
  <2>1. i \in DOMAIN r /\ TellsLocked(r[i])
    BY <1>2, <1>6
  <2>2. i # 1 => i - 1 \in DOMAIN r
    BY <1>1, <2>1
  <2> QED
    BY <1>2, <1>3, <2>1, <2>2 DEF Agree
<1>7. q.isLocked => \A i \in DOMAIN u : ~TellsFree(u[i])
  BY <1>2 DEF Agree
<1>8. Agree(q, s, u, h)
  BY <1>1, <1>4, <1>5, <1>6, <1>7 DEF Agree
<1> QED
  BY <1>8 DEF u

\* The device grants the lock, and tells so.
LEMMA GrantAgree ==
    ASSUME NEW q, NEW s, NEW r, NEW h, Agree(q, s, r, h), Covered(s, h), s # <<>>, Asks(Head(s))
    PROVE  Agree(q, Tail(s), r \o <<Obtained, LockIs(TRUE)>>, "us") /\ Covered(Tail(s), "us")
<1> DEFINE t == Tail(s)
           two == <<Obtained, LockIs(TRUE)>>
           u == r \o two
<1>1. t = <<>> /\ Covered(t, "us")
  BY TakenCovered
<1>2. 1 \in DOMAIN s /\ Head(s) = s[1]
  BY RestAt DEF Covered
<1>3. IsActive(q) /\ ~q.isLocked /\ q.urgent = <<>> /\ Calm(q) /\ IsSequence(r)
  BY <1>2 DEF Agree
<1>4. NoGrants(r)
  BY <1>2 DEF Agree, NoGrants, NoLocks, Asks
<1>5. IsSequence(two) /\ Len(two) = 2 /\ Grants(two[1]) /\ TellsLocked(two[2]) /\ ~Grants(two[2])
      /\ ~TellsLocked(two[1])
  BY GivenSequences DEF Obtained, LockIs, Grants, TellsLocked
<1>6. ~TellsFree(two[2])
  BY <1>5 DEF TellsLocked, TellsFree
<1> HIDE DEF two
<1>7. /\ IsSequence(u) /\ Len(r) \in Nat /\ DOMAIN r = 1 .. Len(r) /\ DOMAIN u = 1 .. Len(r) + 2
      /\ \A i \in 1 .. Len(r) : u[i] = r[i]
      /\ u[Len(r) + 1] = two[1] /\ u[Len(r) + 2] = two[2]
  <2>1. /\ IsSequence(u) /\ Len(r) \in Nat /\ DOMAIN r = 1 .. Len(r)
        /\ DOMAIN u = 1 .. Len(r) + Len(two)
        /\ \A i \in 1 .. Len(r) : u[i] = r[i]
        /\ \A i \in 1 .. Len(two) : u[Len(r) + i] = two[i]
    <3>1. IsSequence(r) /\ IsSequence(two)
      BY <1>3, <1>5
    <3> QED
      BY <3>1, JoinAt
  <2> HIDE DEF u
  <2>2. 1 \in 1 .. Len(two) /\ 2 \in 1 .. Len(two)
    BY <1>5
  <2> QED
    BY <1>5, <2>1, <2>2
<1> HIDE DEF u
<1>8. \A i \in DOMAIN u : \/ i \in DOMAIN r /\ u[i] = r[i]
                          \/ i = Len(r) + 1 /\ u[i] = two[1]
                          \/ i = Len(r) + 2 /\ u[i] = two[2]
  BY <1>7
<1>9. ASSUME NEW i \in DOMAIN u, Grants(u[i])
      PROVE  /\ i + 1 \in DOMAIN u /\ TellsLocked(u[i + 1])
             /\ \A j \in DOMAIN u : j > i => ~Grants(u[j]) /\ ~TellsFree(u[j])
  <2>1. i = Len(r) + 1
    BY <1>4, <1>5, <1>8, <1>9 DEF NoGrants
  <2>2. i + 1 = Len(r) + 2 /\ i + 1 \in DOMAIN u
    BY <1>7, <2>1
  <2>3. \A j \in DOMAIN u : j > i => j = Len(r) + 2
    BY <1>7, <2>1
  <2> QED
    BY <1>5, <1>6, <1>7, <2>2, <2>3
<1>10. ASSUME NEW i \in DOMAIN u, TellsLocked(u[i])
       PROVE  IF i = 1 THEN q.isLocked /\ Young(q) ELSE Grants(u[i - 1])
  <2>1. CASE i \in DOMAIN r
    <3>1. TellsLocked(r[i]) /\ (i # 1 => i - 1 \in DOMAIN r)
      BY <1>7, <1>10, <2>1
    <3> QED
      BY <1>3, <1>4, <2>1, <3>1 DEF Agree, NoGrants
  <2>2. CASE i = Len(r) + 2
    <3>1. i # 1 /\ i - 1 = Len(r) + 1
      BY <1>7, <2>2
    <3> QED
      BY <1>5, <1>7, <3>1
  <2> QED
    BY <1>5, <1>8, <1>10, <2>1, <2>2
<1>11. NoLocks(t) /\ (\A i \in DOMAIN t : ~Asks(t[i])) /\ ~NoGrants(u)
  BY <1>1, <1>5, <1>7 DEF NoLocks, NoGrants, Asks, Covered
<1> HIDE DEF t
<1>12. Agree(q, t, u, "us")
  BY <1>3, <1>7, <1>9, <1>10, <1>11 DEF Agree
<1> QED
  BY <1>1, <1>12 DEF t, u, two

\* The device takes the lock back, and tells so.
LEMMA FreedAgree ==
    ASSUME NEW q, NEW s, NEW r, NEW h, Agree(q, s, r, h), Covered(s, h), s # <<>>,
           GivesBack(Head(s))
    PROVE  Agree(q, Tail(s), r \o <<LockIs(FALSE)>>, "none") /\ Covered(Tail(s), "none")
<1> DEFINE t == Tail(s)
<1>1. Covered(t, "none")
  BY TakenCovered
<1>2. 1 \in DOMAIN s /\ Head(s) = s[1] /\ \A i \in DOMAIN t : i + 1 \in DOMAIN s /\ t[i] = s[i + 1]
  BY RestAt DEF Covered
<1> HIDE DEF t
<1>3. ~NoLocks(s)
  BY <1>2 DEF NoLocks, GivesBack
<1>4. ~q.isLocked /\ NoGrants(r)
  BY <1>3 DEF Agree, NoGrants
<1>5. (\E i \in DOMAIN t : Asks(t[i])) => \E i \in DOMAIN s : Asks(s[i])
  BY <1>2
<1>6. Agree(q, t, r, "none")
  BY <1>4, <1>5 DEF Agree, NoGrants
<1> DEFINE c == LockIs(FALSE)
<1>7. ~Grants(c) /\ ~TellsLocked(c)
  BY DEF LockIs, Grants, TellsLocked
<1> HIDE DEF c
<1>8. Agree(q, t, r \o <<c>>, "none")
  BY <1>4, <1>6, <1>7, AnsweredAgree
<1> QED
  BY <1>1, <1>8 DEF t, c

-----------------------------------------------------------------------------
(* The pool's lock while connections come and go *)

\* Nothing on its way from the device, or to be answered by it, has the number.
Answers == {"continue", "data", "complete", "error"}
NewNumber(id, s, r, u) ==
    /\ \A i \in DOMAIN r : r[i].type \in Answers => r[i].id # id
    /\ \A i \in DOMAIN s : s[i].type = "request" => s[i].id # id
    /\ u.of # NoTransfer => u.id # id

\* The next transfer gets such a number.
NextIdIsNew == NewNumber(queue.nextId, toDevice, toClient, upload)

\* Both ends of a connection agree.
Connected ==
    /\ ~failing
    /\ Agree(queue, toDevice, toClient, holder)
    /\ IsActive(queue) /\ ~queue.isLocked =>
          NewNumber(queue.active.id, toDevice, toClient, upload)

\* Nothing is left of a connection.
Disconnected ==
    /\ toDevice = <<>> /\ toClient = <<>> /\ holder = "none" /\ upload = NoUpload
    /\ Calm(queue) /\ ~IsActive(queue)

\* Nobody else takes the lock.
Ours ==
    /\ holder \in {"none", "us"}
    /\ used \in [{"errors", "takeovers", "revokes", "losses"} -> Nat]
    /\ used["takeovers"] = 0 /\ used["revokes"] = 0
    /\ DOMAIN upload = DOMAIN NoUpload

LockInOrder ==
    /\ Typed(queue) /\ Covered(toDevice, holder) /\ ~refused /\ Ours
    /\ IsSequence(toClient) /\ \A i \in DOMAIN toClient : Counted(toClient[i])
    /\ link \in {"down", "opening", "up", "closing"}
    /\ link = "up" => interval
    /\ link = "opening" => ~IsActive(queue)
    /\ link \in {"opening", "up"} => Connected
    /\ link = "down" => Disconnected

\* A client that has a lockable pool to itself: nobody else takes the lock or revokes it,
\* nothing is enqueued before the connection is complete, and there are at least four ids.
Alone == Locking /\ ~EarlyTransfers /\ MaxTransferIndex >= 3 /\ MaxTakeovers = 0 /\ MaxRevokes = 0

\* What a client's step sends.
LEMMA SentIs ==
    ASSUME NEW p, Send(p), link \in {"opening", "up"}, IsSequence(toDevice), IsSequence(p)
    PROVE  /\ queue'.lockCommands = <<>> => toDevice' = toDevice \o p
           /\ \A locked : queue'.lockCommands = <<locked>> /\ p = <<>>
                             => toDevice' = toDevice \o <<Lock(locked)>>
<1> DEFINE c == queue'.lockCommands
           l == [i \in DOMAIN c |-> Lock(c[i])]
<1>1. toDevice' = (toDevice \o l) \o p
  BY DEF Send
<1>2. c = <<>> => l = <<>>
  OBVIOUS
<1>3. \A locked : c = <<locked>> => l = <<Lock(locked)>>
  <2>1. ASSUME NEW locked, c = <<locked>>
        PROVE  l = <<Lock(locked)>>
    <3> DEFINE x == Lock(locked)
    <3> HIDE DEF c
    <3>1. l = [i \in DOMAIN <<locked>> |-> Lock(<<locked>>[i])]
      BY <2>1
    <3>2. DOMAIN <<locked>> = 1 .. 1 /\ <<locked>>[1] = locked
      OBVIOUS
    <3>3. \A i \in DOMAIN <<locked>> : Lock(<<locked>>[i]) = x
      BY <3>2
    <3> HIDE DEF x
    <3>4. l = [i \in 1 .. 1 |-> x]
      BY <3>1, <3>2, <3>3
    <3>5. [i \in 1 .. 1 |-> x] = <<x>>
      OBVIOUS
    <3> QED
      BY <3>4, <3>5 DEF x
  <2> QED
    BY <2>1
<1> HIDE DEF l, c
<1>4. toDevice \o <<>> = toDevice
  BY DEF IsSequence
<1>5. \A locked : (toDevice \o <<Lock(locked)>>) \o <<>> = toDevice \o <<Lock(locked)>>
  <2>1. ASSUME NEW x PROVE (toDevice \o <<x>>) \o <<>> = toDevice \o <<x>>
    <3>1. IsSequence(toDevice \o <<x>>)
      BY OneMoreAt
    <3> QED
      BY <3>1 DEF IsSequence
  <2> QED
    BY <2>1
<1> QED
  BY <1>1, <1>2, <1>3, <1>4, <1>5 DEF c

\* A number stays new while no request for it is sent, and so no answer either.
LEMMA StaysNew ==
    ASSUME NEW id, NEW s, NEW r, NEW u, NEW s2, NEW r2, NEW u2, NewNumber(id, s, r, u),
           \A i \in DOMAIN s2 : s2[i].type = "request" => \E j \in DOMAIN s : s2[i] = s[j],
           \A i \in DOMAIN r2 : r2[i].type \in Answers =>
               \/ \E j \in DOMAIN r : r2[i] = r[j]
               \/ u.of # NoTransfer /\ r2[i].id = u.id
               \/ \E j \in DOMAIN s : s[j].type = "request" /\ r2[i].id = s[j].id,
           u2.of # NoTransfer =>
               \/ u.of # NoTransfer /\ u2.id = u.id
               \/ \E j \in DOMAIN s : s[j].type = "request" /\ u2.id = s[j].id
    PROVE  NewNumber(id, s2, r2, u2)
BY DEF NewNumber

\* A step of the client that is not about what it received.
LEMMA ActsConnected ==
    ASSUME NEW p, Connected, NextIdIsNew, Covered(toDevice, holder), link \in {"opening", "up"},
           UNCHANGED <<toClient, deviceVars>>, ~failing', Send(p), Orders(p),
           Keeps(queue, queue') \/ AsksFor(queue, queue') \/ Returns(queue, queue'),
           p # <<>> => queue.isLocked /\ Keeps(queue, queue'),
           Young(queue) => Young(queue')
    PROVE  Connected' /\ Covered(toDevice, holder)'
<1>1. holder' = holder /\ toClient' = toClient /\ upload' = upload
  BY DEF deviceVars
<1>2. Agree(queue, toDevice, toClient, holder) /\ ~failing
  BY DEF Connected
<1>3. /\ queue'.lockCommands = <<>> => toDevice' = toDevice \o p
      /\ \A locked : queue'.lockCommands = <<locked>> /\ p = <<>>
                        => toDevice' = toDevice \o <<Lock(locked)>>
  BY SentIs DEF Covered, Orders
<1>4. CASE Keeps(queue, queue')
  <2>1. toDevice' = toDevice \o p
    BY <1>3, <1>4 DEF Keeps
  <2>2. Agree(queue', toDevice', toClient, holder) /\ Covered(toDevice', holder)
    BY <1>2, <1>4, <2>1, KeepsAgree
  <2>3. ASSUME IsActive(queue'), ~queue'.isLocked
        PROVE  NewNumber(queue'.active.id, toDevice', toClient', upload')
    <3>1. ~queue.isLocked /\ NewNumber(queue'.active.id, toDevice, toClient, upload)
      BY <1>4, <2>3 DEF Keeps, Connected, NextIdIsNew
    <3>2. toDevice' = toDevice
      BY <2>1, <3>1 DEF Covered, IsSequence
    <3> QED
      BY <1>1, <3>1, <3>2, StaysNew
  <2> QED
    BY <1>1, <1>2, <2>2, <2>3 DEF Connected
<1>5. CASE AsksFor(queue, queue')
  <2>1. toDevice' = toDevice \o <<Lock(TRUE)>>
    BY <1>3, <1>5 DEF AsksFor, Keeps
  <2>2. Agree(queue', toDevice', toClient, holder) /\ Covered(toDevice', holder)
    BY <1>2, <1>5, <2>1, AsksAgree
  <2>3. NewNumber(queue'.active.id, toDevice', toClient', upload')
    <3>1. NewNumber(queue'.active.id, toDevice, toClient, upload)
      BY <1>5 DEF AsksFor, Connected, NextIdIsNew
    <3> DEFINE c == Lock(TRUE)
    <3>2. c.type = "lock"
      BY DEF Lock
    <3> HIDE DEF c
    <3>3. \A i \in DOMAIN toDevice' : toDevice'[i].type = "request"
             => \E j \in DOMAIN toDevice : toDevice'[i] = toDevice[j]
      <4>1. toDevice' = toDevice \o <<c>> /\ IsSequence(toDevice)
        BY <2>1 DEF c, Covered
      <4>2. /\ Len(toDevice) \in Nat /\ DOMAIN toDevice = 1 .. Len(toDevice)
            /\ DOMAIN toDevice' = 1 .. Len(toDevice) + 1
            /\ toDevice'[Len(toDevice) + 1] = c
            /\ \A i \in 1 .. Len(toDevice) : toDevice'[i] = toDevice[i]
        BY <4>1, OneMoreAt
      <4> QED
        BY <3>2, <4>2
    <3> QED
      BY <1>1, <3>1, <3>3, StaysNew
  <2> QED
    BY <1>1, <1>2, <2>2, <2>3 DEF Connected
<1>6. CASE Returns(queue, queue')
  <2>1. toDevice' = toDevice \o <<Lock(FALSE)>>
    BY <1>3, <1>6 DEF Returns, Keeps
  <2>2. Agree(queue', toDevice', toClient, holder) /\ Covered(toDevice', holder)
    BY <1>2, <1>6, <2>1, ReturnsAgree
  <2>3. ~IsActive(queue')
    BY <1>6 DEF Returns
  <2> QED
    BY <1>1, <1>2, <2>2, <2>3 DEF Connected
<1> QED
  BY <1>4, <1>5, <1>6

\* The user enqueues a transfer.
LEMMA EnqueuesInOrder ==
    ASSUME Alone, InOrder(queue, interval), IdIsFree(queue), NextIdIsNew, LockInOrder, UserEnqueues
    PROVE  LockInOrder'
<1>1. /\ link = "up" /\ link' = link /\ interval' = interval /\ Send(<<>>)
      /\ UNCHANGED <<toClient, deviceVars, failing, used>>
  BY DEF UserEnqueues, ClientStep, Enqueue, Alone
<1>2. PICK t \in Transfers : Enqueue(t)
  BY DEF UserEnqueues, ClientStep
<1>3. Connected /\ Covered(toDevice, holder) /\ Calm(queue)
  BY <1>1 DEF LockInOrder, Connected, Agree
<1>4. Typed(queue') /\ (Keeps(queue, queue') \/ AsksFor(queue, queue')) /\ (Young(queue) => Young(queue'))
  BY <1>2, <1>3, EnqueueLock DEF LockInOrder, Alone
<1>5. Connected' /\ Covered(toDevice, holder)'
  BY <1>1, <1>3, <1>4, GivenOrders, ActsConnected DEF Connected
<1> QED
  BY <1>1, <1>4, <1>5 DEF LockInOrder, deviceVars, Ours

\* What is sent without a connection is lost.
LEMMA NothingSent ==
    ASSUME NEW p, Send(p), link \in {"down", "closing"}
    PROVE  toDevice' = toDevice
BY DEF Send

\* A handler goes on.
LEMMA ResumesInOrder ==
    ASSUME Alone, InOrder(queue, interval), NextIdIsNew, LockInOrder, HandlerResumes
    PROVE  LockInOrder'
<1>1. /\ Resume /\ link' = link /\ interval' = interval /\ Send(<<>>)
      /\ UNCHANGED <<toClient, deviceVars, failing, used>>
  BY DEF HandlerResumes, ClientStep, Resume
<1>2. /\ Typed(queue')
      /\ Calm(queue) => /\ Keeps(queue, queue') \/ AsksFor(queue, queue')
                        /\ Young(queue) => Young(queue')
                        /\ IsActive(queue') <=> IsActive(queue)
  BY <1>1, ResumeLock DEF LockInOrder, Alone
<1>3. CASE link \in {"opening", "up"}
  <2>1. Connected /\ Covered(toDevice, holder) /\ Calm(queue)
    BY <1>3 DEF LockInOrder, Connected, Agree
  <2>2. Connected' /\ Covered(toDevice, holder)'
    BY <1>1, <1>2, <1>3, <2>1, GivenOrders, ActsConnected DEF Connected
  <2> QED
    BY <1>1, <1>2, <1>3, <2>1, <2>2 DEF LockInOrder, deviceVars, Ours
<1>4. CASE link \in {"down", "closing"}
  <2>1. toDevice' = toDevice
    BY <1>1, <1>4, NothingSent
  <2>2. link = "down" => Calm(queue') /\ ~IsActive(queue')
    BY <1>2 DEF LockInOrder, Disconnected, Keeps, AsksFor
  <2> QED
    BY <1>1, <1>2, <1>4, <2>1, <2>2 DEF LockInOrder, deviceVars, Ours, Disconnected
<1> QED
  BY <1>3, <1>4 DEF LockInOrder

\* The interval ticks.
LEMMA TicksInOrder ==
    ASSUME Alone, InOrder(queue, interval), IdIsFree(queue), NextIdIsNew, LockInOrder, IntervalTicks
    PROVE  LockInOrder'
<1>1. /\ Tick /\ link' = link /\ interval' = interval /\ Send(Popped)
      /\ UNCHANGED <<toClient, deviceVars, used>>
      /\ failing' = (failing \/ (link = "closing" /\ Popped # <<>>))
  BY DEF IntervalTicks, Tick
<1>2. /\ Typed(queue') /\ Orders(Popped)
      /\ Calm(queue) => /\ Keeps(queue, queue') \/ Returns(queue, queue')
                        /\ Young(queue) => Young(queue')
                        /\ Popped # <<>> => queue.isLocked /\ Keeps(queue, queue')
  BY <1>1, TickLock DEF LockInOrder, Alone
<1>3. IsActive(queue)
  BY <1>1 DEF Tick
<1>4. CASE link = "up"
  <2>1. Connected /\ Covered(toDevice, holder) /\ Calm(queue)
    BY <1>4 DEF LockInOrder, Connected, Agree
  <2>2. ~failing'
    BY <1>1, <1>4, <2>1 DEF Connected
  <2> DEFINE p == Popped
  <2>3. Orders(p) /\ (p # <<>> => queue.isLocked /\ Keeps(queue, queue')) /\ Send(p)
    BY <1>1, <1>2, <2>1
  <2> HIDE DEF p
  <2>4. Connected' /\ Covered(toDevice, holder)'
    BY <1>1, <1>2, <1>4, <2>1, <2>2, <2>3, ActsConnected
  <2> QED
    BY <1>1, <1>2, <1>4, <2>4 DEF LockInOrder, deviceVars, Ours
<1>5. CASE link = "closing"
  <2>1. toDevice' = toDevice
    BY <1>1, <1>5, NothingSent
  <2> QED
    BY <1>1, <1>2, <1>5, <2>1 DEF LockInOrder, deviceVars, Ours
<1> QED
  BY <1>3, <1>4, <1>5 DEF LockInOrder, Disconnected

\* Sending failed, for lack of a connection.
LEMMA FailsInOrder ==
    ASSUME Alone, InOrder(queue, interval), LockInOrder, SendingFails
    PROVE  LockInOrder'
<1>1. /\ SendFailed /\ failing /\ link' = link /\ interval' = interval /\ Send(<<>>)
      /\ UNCHANGED <<toClient, deviceVars, used>>
  BY DEF SendingFails, ClientStep, SendFailed
<1>2. link \in {"down", "closing"}
  BY <1>1 DEF LockInOrder, Connected
<1>3. toDevice' = toDevice
  BY <1>1, <1>2, NothingSent
<1>4. Typed(queue') /\ (Calm(queue) /\ ~IsActive(queue) => Calm(queue') /\ ~IsActive(queue'))
  BY <1>1, SendFailedLock DEF LockInOrder, Alone
<1> QED
  BY <1>1, <1>2, <1>3, <1>4 DEF LockInOrder, deviceVars, Ours, Disconnected

\* While nobody transfers, what the device tells of the lock, or answers, begins nothing.
LEMMA NobodyBegins ==
    ASSUME NEW command, ~IsActive(queue), InOrder(queue, interval),
           \/ HandleReceived(command)
           \/ UpdateLock(command.locked) /\ (command.locked <=> queue.isLocked)
    PROVE  ~IsActive(queue')
<1>1. IsQueue(queue)
  BY DEF InOrder, Good, Begun
<1>2. CASE HandleReceived(command)
  <2>1. queue' = Fresh
    BY <1>2 DEF HandleReceived
  <2> QED
    BY <1>1, <2>1 DEF Fresh, IsQueue, IsActive
<1>3. CASE UpdateLock(command.locked) /\ (command.locked <=> queue.isLocked)
  <2>1. queue' = [Fresh EXCEPT !.isLocked = command.locked]
    BY <1>3 DEF UpdateLock
  <2> QED
    BY <1>1, <2>1 DEF Fresh, IsQueue, IsActive
<1> QED
  BY <1>2, <1>3

\* What the client receives while connected.
LEMMA HearsConnected ==
    ASSUME Alone, InOrder(queue, interval), NextIdIsNew, LockInOrder, ClientReceives,
           link \in {"opening", "up"}
    PROVE  Connected' /\ toDevice' = toDevice /\ (link' = "opening" => ~IsActive(queue'))
<1> DEFINE c == Head(toClient)
<1>1. /\ toClient # <<>> /\ toClient' = Tail(toClient) /\ Send(<<>>)
      /\ UNCHANGED <<failing, deviceVars, used>>
      /\ \/ Grants(c) /\ LockObtained /\ link' = link
         \/ c.type = "lockState" /\ UpdateLock(c.locked) /\ link' = link
         \/ /\ c.type = "initComplete" /\ StartCommandSending
            /\ link' = IF link = "opening" THEN "up" ELSE link
         \/ c.type \in Answers /\ HandleReceived(c) /\ link' = link
  BY DEF ClientReceives, Grants, Answers
<1>2. /\ Connected /\ Covered(toDevice, holder) /\ Typed(queue) /\ Calm(queue)
      /\ Agree(queue, toDevice, toClient, holder) /\ ~failing
  BY DEF LockInOrder, Connected, Agree
<1>3. /\ IsSequence(toClient') /\ 1 \in DOMAIN toClient /\ c = toClient[1]
      /\ \A i \in DOMAIN toClient' : i + 1 \in DOMAIN toClient /\ toClient'[i] = toClient[i + 1]
  BY <1>1, RestAt DEF LockInOrder
<1>4. Counted(c)
  BY <1>3 DEF LockInOrder
<1> HIDE DEF c
<1>5. queue'.lockCommands = <<>> => toDevice' = toDevice
  <2>1. queue'.lockCommands = <<>> => toDevice' = toDevice \o <<>>
    BY <1>1, <1>2, GivenSequences, SentIs DEF Covered
  <2> QED
    BY <1>2, <2>1 DEF Covered, IsSequence
<1>6. Locking /\ (link = "opening" => ~IsActive(queue)) /\ (link = "up" => interval)
  BY DEF Alone, LockInOrder
<1>7. ASSUME Keeps(queue, queue'), ~Grants(c)
      PROVE  Connected' /\ toDevice' = toDevice
  <2>1. toDevice' = toDevice /\ holder' = holder /\ upload' = upload
    BY <1>1, <1>5, <1>7 DEF Keeps, deviceVars
  <2>2. Agree(queue', toDevice, toClient', holder)
    BY <1>1, <1>2, <1>7, HeardAgree DEF c
  <2>3. ASSUME IsActive(queue'), ~queue'.isLocked
        PROVE  NewNumber(queue'.active.id, toDevice', toClient', upload')
    <3>1. NewNumber(queue'.active.id, toDevice, toClient, upload)
      BY <1>2, <1>7, <2>3 DEF Keeps, Connected, NextIdIsNew
    <3> QED
      BY <1>3, <2>1, <3>1, StaysNew
  <2> QED
    BY <1>1, <1>2, <2>1, <2>2, <2>3 DEF Connected
<1>8. CASE Grants(c) /\ LockObtained /\ link' = link
  <2>1. IsActive(queue) /\ ~queue.isLocked /\ queue.urgent = <<>>
    BY <1>2, <1>3, <1>8 DEF Agree, NoGrants
  <2>2. /\ Calm(queue') /\ queue'.lockCommands = <<>> /\ queue'.isLocked
        /\ IsActive(queue') /\ Young(queue')
    BY <1>2, <1>6, <1>8, <2>1, LockObtainedLock
  <2>3. toDevice' = toDevice /\ holder' = holder
    BY <1>1, <1>5, <2>2 DEF deviceVars
  <2>4. Agree(queue', toDevice, toClient', holder)
    BY <1>1, <1>2, <1>8, <2>2, GrantedAgree DEF c
  <2> QED
    BY <1>1, <1>2, <1>6, <1>8, <2>1, <2>2, <2>3, <2>4 DEF Connected
<1>9. CASE c.type = "lockState" /\ UpdateLock(c.locked) /\ link' = link
  <2>1. c.locked <=> queue.isLocked
    BY <1>2, <1>3, <1>9 DEF Agree, TellsLocked, TellsFree
  <2>2. Keeps(queue, queue')
    BY <1>2, <1>6, <1>9, <2>1, UpdateLockLock
  <2>3. ~Grants(c)
    BY <1>9 DEF Grants
  <2>4. link' = "opening" => ~IsActive(queue')
    BY <1>6, <1>9, <2>1, NobodyBegins
  <2> QED
    BY <1>7, <2>2, <2>3, <2>4
<1>10. CASE /\ c.type = "initComplete" /\ StartCommandSending
            /\ link' = IF link = "opening" THEN "up" ELSE link
  <2>1. Keeps(queue, queue')
    BY <1>2, <1>6, <1>10, StartSendingLock
  <2>2. ~Grants(c) /\ link' # "opening"
    BY <1>10 DEF Grants
  <2> QED
    BY <1>7, <2>1, <2>2
<1>11. CASE c.type \in Answers /\ HandleReceived(c) /\ link' = link
  <2>1. IsActive(queue) /\ ~queue.isLocked => queue.active.id # c.id
    BY <1>2, <1>3, <1>11 DEF Connected, NewNumber
  <2>2. Keeps(queue, queue')
    BY <1>2, <1>4, <1>6, <1>11, <2>1, HandleReceivedLock
  <2>3. ~Grants(c)
    BY <1>11 DEF Grants, Answers
  <2>4. link' = "opening" => ~IsActive(queue')
    BY <1>6, <1>11, NobodyBegins
  <2> QED
    BY <1>7, <2>2, <2>3, <2>4
<1> QED
  BY <1>1, <1>8, <1>9, <1>10, <1>11

\* What the client receives, connected or not.
LEMMA ReceivesInOrder ==
    ASSUME Alone, InOrder(queue, interval), NextIdIsNew, LockInOrder, ClientReceives
    PROVE  LockInOrder'
<1> DEFINE c == Head(toClient)
<1>1. /\ toClient # <<>> /\ toClient' = Tail(toClient) /\ Send(<<>>)
      /\ UNCHANGED <<failing, deviceVars, used>>
      /\ \/ LockObtained /\ link' = link
         \/ UpdateLock(c.locked) /\ link' = link
         \/ StartCommandSending /\ link' = IF link = "opening" THEN "up" ELSE link
         \/ HandleReceived(c) /\ link' = link
  BY DEF ClientReceives
<1>2. /\ IsSequence(toClient') /\ 1 \in DOMAIN toClient /\ c = toClient[1]
      /\ \A i \in DOMAIN toClient' : i + 1 \in DOMAIN toClient /\ toClient'[i] = toClient[i + 1]
  BY <1>1, RestAt DEF LockInOrder
<1> HIDE DEF c
<1>3. (\A i \in DOMAIN toClient' : Counted(toClient'[i])) /\ Counted(c)
  BY <1>2 DEF LockInOrder
<1>4. Typed(queue')
  BY <1>1, <1>3, LockObtainedLock, UpdateLockLock, StartSendingLock, HandleReceivedLock
  DEF LockInOrder, Alone
<1>5. link \in {"opening", "up", "closing"}
  BY <1>1 DEF LockInOrder, Disconnected
<1>6. CASE link \in {"opening", "up"}
  <2>1. Connected' /\ toDevice' = toDevice /\ (link' = "opening" => ~IsActive(queue'))
    BY <1>6, HearsConnected
  <2>2. link' \in {"opening", "up"} /\ (link' = "up" => interval')
    BY <1>1, <1>6 DEF LockInOrder, LockObtained, UpdateLock, StartCommandSending, HandleReceived
  <2> QED
    BY <1>1, <1>2, <1>3, <1>4, <2>1, <2>2 DEF LockInOrder, deviceVars, Ours
<1>7. CASE link = "closing"
  <2>1. toDevice' = toDevice /\ link' = "closing"
    BY <1>1, <1>7, NothingSent
  <2> QED
    BY <1>1, <1>2, <1>3, <1>4, <2>1 DEF LockInOrder, deviceVars, Ours
<1> QED
  BY <1>5, <1>6, <1>7

\* A connection opens: the device tells that nobody has the lock.
LEMMA OpensInOrder ==
    ASSUME Alone, LockInOrder, LinkOpens
    PROVE  LockInOrder'
<1> DEFINE first == LockIs(FALSE)
           two == <<first, InitComplete>>
<1>1. /\ link = "down" /\ ~failing /\ link' = "opening"
      /\ UNCHANGED <<queueVars, failing, toDevice, deviceVars, used>>
      /\ holder = "none" /\ toDevice = <<>> /\ Calm(queue) /\ ~IsActive(queue)
  BY DEF LinkOpens, LockInOrder, Disconnected
<1>2. toClient' = <<first>> \o <<InitComplete>>
  BY <1>1 DEF LinkOpens, Alone
<1>3. /\ ~Grants(first) /\ ~TellsLocked(first) /\ Counted(first)
      /\ ~Grants(InitComplete) /\ ~TellsLocked(InitComplete) /\ Counted(InitComplete)
      /\ ~TellsFree(InitComplete)
      /\ first.type \notin Answers /\ InitComplete.type \notin Answers
  BY DEF LockIs, InitComplete, Grants, TellsLocked, TellsFree, Counted, Answers
<1> DEFINE last == InitComplete
<1> HIDE DEF first, last
<1>4. IsSequence(<<first>>) /\ DOMAIN <<first>> = 1 .. 1 /\ <<first>>[1] = first /\ Len(<<first>>) = 1
  BY GivenSequences
<1>5. toClient' = <<first>> \o <<last>>
  BY <1>2 DEF last
<1>6. /\ IsSequence(toClient') /\ DOMAIN toClient' = 1 .. 2
      /\ toClient'[1] = first /\ toClient'[2] = last
  <2> DEFINE s == <<first>>
  <2> HIDE DEF s
  <2>1. IsSequence(s) /\ Len(s) = 1 /\ s[1] = first
    BY <1>4 DEF s
  <2>2. toClient' = s \o <<last>>
    BY <1>5 DEF s
  <2>3. /\ IsSequence(toClient') /\ DOMAIN s = 1 .. Len(s) /\ DOMAIN toClient' = 1 .. Len(s) + 1
        /\ toClient'[Len(s) + 1] = last /\ \A i \in 1 .. Len(s) : toClient'[i] = s[i]
    BY <2>1, <2>2, OneMoreAt
  <2> QED
    BY <2>1, <2>3
<1>7. \A i \in DOMAIN toClient' : toClient'[i] \in {first, last}
  BY <1>6
<1>8. \A i \in DOMAIN toClient' :
          /\ ~Grants(toClient'[i]) /\ ~TellsLocked(toClient'[i]) /\ Counted(toClient'[i])
  BY <1>3, <1>7 DEF last
<1>9. Agree(queue', toDevice', toClient', holder')
  <2>1. /\ queue' = queue /\ toDevice' = <<>> /\ holder' = "none" /\ DOMAIN toDevice' = {}
    BY <1>1 DEF queueVars, deviceVars
  <2>2. ~queue.isLocked
    BY <1>1 DEF Calm
  <2> QED
    BY <1>1, <1>6, <1>8, <2>1, <2>2 DEF Agree, NoGrants
<1>10. /\ queue' = queue /\ toDevice' = toDevice /\ holder' = holder /\ refused' = refused
       /\ used' = used /\ failing' = failing /\ link' = "opening" /\ upload' = upload
  BY <1>1 DEF queueVars, deviceVars
<1> QED
  BY <1>1, <1>6, <1>8, <1>9, <1>10 DEF LockInOrder, Connected, Ours

\* A connection closes.
LEMMA ClosesInOrder ==
    ASSUME LockInOrder, LinkCloses
    PROVE  LockInOrder'
<1>1. /\ link' = "closing" /\ UNCHANGED <<queueVars, failing, channels, deviceVars>>
      /\ used' = [used EXCEPT !["losses"] = @ + 1]
  BY DEF LinkCloses, Use
<1>2. /\ used' \in [{"errors", "takeovers", "revokes", "losses"} -> Nat]
      /\ used'["takeovers"] = 0 /\ used'["revokes"] = 0
  BY <1>1 DEF LockInOrder, Ours
<1> QED
  BY <1>1, <1>2 DEF LockInOrder, Ours, queueVars, channels, deviceVars

\* A connection is lost.
LEMMA LostInOrder ==
    ASSUME Alone, InOrder(queue, interval), LockInOrder, LinkLost
    PROVE  LockInOrder'
<1>1. /\ StopCommandSending /\ link' = "down" /\ toDevice' = <<>> /\ toClient' = <<>>
      /\ holder' = "none" /\ upload' = NoUpload /\ refused' = refused /\ used' = used
  BY DEF LinkLost, LockInOrder, Ours
<1>2. Typed(queue') /\ Calm(queue') /\ ~IsActive(queue')
  BY <1>1, StopSendingLock DEF LockInOrder, Alone
<1>3. IsSequence(<<>>) /\ DOMAIN <<>> = {}
  BY GivenSequences
<1>4. Covered(toDevice', holder')
  BY <1>1, <1>3 DEF Covered
<1> QED
  BY <1>1, <1>2, <1>3, <1>4 DEF LockInOrder, Ours, Disconnected

\* The device answers a transfer, if at all, and does nothing about the lock.
LEMMA AnswersInOrder ==
    ASSUME LockInOrder, NEW c, c.type \in Answers, Counted(c),
           UNCHANGED <<queueVars, link, failing, holder, refused>>, Ours',
           \/ toDevice' = toDevice /\ upload.of # NoTransfer
           \/ toDevice # <<>> /\ toDevice' = Tail(toDevice) /\ Head(toDevice).type # "lock",
           \/ toClient' = toClient
           \/ /\ toClient' = toClient \o <<c>>
              /\ \/ upload.of # NoTransfer /\ c.id = upload.id
                 \/ /\ toDevice # <<>> /\ Head(toDevice).type = "request"
                    /\ c.id = Head(toDevice).id,
           upload'.of # NoTransfer =>
               \/ upload.of # NoTransfer /\ upload'.id = upload.id
               \/ /\ toDevice # <<>> /\ Head(toDevice).type = "request"
                  /\ upload'.id = Head(toDevice).id
    PROVE  LockInOrder'
<1>1. /\ queue' = queue /\ interval' = interval /\ link' = link /\ failing' = failing
      /\ holder' = holder /\ refused' = refused
  BY DEF queueVars
<1>2. Covered(toDevice, holder) /\ IsSequence(toClient) /\ IsSequence(toDevice)
  BY DEF LockInOrder, Covered
<1>3. link # "down"
  BY DEF LockInOrder, Disconnected, NoUpload
<1>4. toDevice # <<>> => /\ 1 \in DOMAIN toDevice /\ Head(toDevice) = toDevice[1]
                         /\ \A i \in DOMAIN Tail(toDevice) :
                                i + 1 \in DOMAIN toDevice /\ Tail(toDevice)[i] = toDevice[i + 1]
  BY <1>2, RestAt
<1>5. ~Grants(c) /\ ~TellsLocked(c) /\ ~TellsFree(c)
  BY DEF Answers, Grants, TellsLocked, TellsFree
<1>6. /\ IsSequence(toClient')
      /\ \A i \in DOMAIN toClient' : \/ i \in DOMAIN toClient /\ toClient'[i] = toClient[i]
                                     \/ toClient' # toClient /\ toClient'[i] = c
  <2>1. CASE toClient' = toClient
    BY <1>2, <2>1
  <2>2. CASE toClient' = toClient \o <<c>>
    <3>1. /\ IsSequence(toClient') /\ Len(toClient) \in Nat /\ Len(toClient') = Len(toClient) + 1
          /\ DOMAIN toClient = 1 .. Len(toClient) /\ DOMAIN toClient' = 1 .. Len(toClient) + 1
          /\ toClient'[Len(toClient) + 1] = c
          /\ \A i \in 1 .. Len(toClient) : toClient'[i] = toClient[i]
      BY <1>2, <2>2, OneMoreAt
    <3>2. toClient' # toClient
      BY <3>1
    <3> QED
      BY <3>1, <3>2
  <2> QED
    BY <2>1, <2>2
<1>7. \A i \in DOMAIN toClient' : Counted(toClient'[i])
  BY <1>6 DEF LockInOrder
<1>8. Covered(toDevice', holder)
  BY <1>2, TakenCovered
<1>9. ASSUME Agree(queue, toDevice, toClient, holder)
      PROVE  Agree(queue, toDevice', toClient', holder)
  <2>1. Agree(queue, toDevice', toClient, holder)
    BY <1>2, <1>9, TakenAgree
  <2> QED
    BY <1>5, <2>1, AnsweredAgree
<1>10. ASSUME NEW id, NewNumber(id, toDevice, toClient, upload)
       PROVE  NewNumber(id, toDevice', toClient', upload')
  <2>1. \A i \in DOMAIN toDevice' : \E j \in DOMAIN toDevice : toDevice'[i] = toDevice[j]
    BY <1>4
  <2>2. \A i \in DOMAIN toClient' :
               \/ \E j \in DOMAIN toClient : toClient'[i] = toClient[j]
               \/ upload.of # NoTransfer /\ toClient'[i].id = upload.id
               \/ \E j \in DOMAIN toDevice : /\ toDevice[j].type = "request"
                                             /\ toClient'[i].id = toDevice[j].id
    BY <1>4, <1>6
  <2>3. upload'.of # NoTransfer =>
               \/ upload.of # NoTransfer /\ upload'.id = upload.id
               \/ \E j \in DOMAIN toDevice : /\ toDevice[j].type = "request"
                                             /\ upload'.id = toDevice[j].id
    BY <1>4
  <2> QED
    BY <1>10, <2>1, <2>2, <2>3, StaysNew
<1>11. link \in {"opening", "up"} => Connected'
  BY <1>1, <1>9, <1>10 DEF LockInOrder, Connected
<1> QED
  BY <1>1, <1>3, <1>6, <1>7, <1>8, <1>11 DEF LockInOrder

\* What a longer sequence holds.
LEMMA MoreIn ==
    ASSUME NEW r, NEW t, IsSequence(r), IsSequence(t)
    PROVE  /\ IsSequence(r \o t)
           /\ \A i \in DOMAIN (r \o t) : \/ \E j \in DOMAIN r : (r \o t)[i] = r[j]
                                         \/ \E j \in DOMAIN t : (r \o t)[i] = t[j]
<1> DEFINE u == r \o t
<1>1. /\ IsSequence(u) /\ Len(r) \in Nat /\ Len(t) \in Nat
      /\ DOMAIN r = 1 .. Len(r) /\ DOMAIN t = 1 .. Len(t) /\ DOMAIN u = 1 .. Len(r) + Len(t)
      /\ \A i \in 1 .. Len(r) : u[i] = r[i]
      /\ \A i \in 1 .. Len(t) : u[Len(r) + i] = t[i]
  BY JoinAt
<1> HIDE DEF u
<1>2. ASSUME NEW i \in DOMAIN u
      PROVE  (\E j \in DOMAIN r : u[i] = r[j]) \/ (\E j \in DOMAIN t : u[i] = t[j])
  <2>1. CASE i <= Len(r)
    BY <1>1, <2>1
  <2>2. CASE ~(i <= Len(r))
    <3>1. i - Len(r) \in 1 .. Len(t) /\ i = Len(r) + (i - Len(r))
      BY <1>1, <2>2
    <3> QED
      BY <1>1, <3>1
  <2> QED
    BY <2>1, <2>2
<1> QED
  BY <1>1, <1>2 DEF u

\* What the device tells of the lock.
LEMMA LockNews ==
    ASSUME NEW r, NEW r2, IsSequence(r),
           r2 = r \o <<Obtained, LockIs(TRUE)>> \/ r2 = r \o <<LockIs(FALSE)>>
    PROVE  /\ IsSequence(r2)
           /\ \A i \in DOMAIN r2 : \/ \E j \in DOMAIN r : r2[i] = r[j]
                                   \/ Counted(r2[i]) /\ r2[i].type \notin Answers
<1>1. \A c \in {Obtained, LockIs(TRUE), LockIs(FALSE)} : Counted(c) /\ c.type \notin Answers
  BY DEF Obtained, LockIs, Counted, Answers
<1>2. PICK t : /\ IsSequence(t) /\ r2 = r \o t
               /\ \A j \in DOMAIN t : t[j] \in {Obtained, LockIs(TRUE), LockIs(FALSE)}
  <2>1. ASSUME NEW d, NEW e
        PROVE  /\ IsSequence(<<d>>) /\ \A j \in DOMAIN <<d>> : <<d>>[j] = d
               /\ IsSequence(<<d, e>>) /\ \A j \in DOMAIN <<d, e>> : <<d, e>>[j] \in {d, e}
    BY GivenSequences
  <2> DEFINE a == Obtained
             b == LockIs(TRUE)
             c == LockIs(FALSE)
  <2> HIDE DEF a, b, c
  <2>2. /\ IsSequence(<<a, b>>) /\ \A j \in DOMAIN <<a, b>> : <<a, b>>[j] \in {a, b}
        /\ IsSequence(<<c>>) /\ \A j \in DOMAIN <<c>> : <<c>>[j] = c
    BY <2>1
  <2>3. r2 = r \o <<a, b>> \/ r2 = r \o <<c>>
    BY DEF a, b, c
  <2>4. \E t : /\ IsSequence(t) /\ r2 = r \o t
               /\ \A j \in DOMAIN t : t[j] \in {a, b, c}
    <3>1. CASE r2 = r \o <<a, b>>
      <4> WITNESS <<a, b>>
      <4> QED
        BY <2>2, <3>1
    <3>2. CASE r2 = r \o <<c>>
      <4> WITNESS <<c>>
      <4> QED
        BY <2>2, <3>2
    <3> QED
      BY <2>3, <3>1, <3>2
  <2> QED
    BY <2>4 DEF a, b, c
<1>3. /\ IsSequence(r2)
      /\ \A i \in DOMAIN r2 : (\E j \in DOMAIN r : r2[i] = r[j]) \/ \E j \in DOMAIN t : r2[i] = t[j]
  <2>1. IsSequence(t) /\ r2 = r \o t
    BY <1>2
  <2>2. /\ IsSequence(r \o t)
        /\ \A i \in DOMAIN (r \o t) : \/ \E j \in DOMAIN r : (r \o t)[i] = r[j]
                                      \/ \E j \in DOMAIN t : (r \o t)[i] = t[j]
    BY <2>1, MoreIn
  <2> QED
    BY <2>1, <2>2
<1> QED
  BY <1>1, <1>2, <1>3

\* The device takes what it is asked for the lock, or gets it back.
LEMMA LocksInOrder ==
    ASSUME Alone, LockInOrder, NEW c, c = Head(toDevice), toDevice # <<>>, toDevice' = Tail(toDevice),
           DevLock(c) \/ DevUnlock(c), UNCHANGED <<queueVars, link, failing, used>>
    PROVE  LockInOrder'
<1>1. /\ queue' = queue /\ interval' = interval /\ link' = link /\ failing' = failing /\ used' = used
      /\ refused' = refused
  BY DEF queueVars, DevLock, DevUnlock
<1>2. Covered(toDevice, holder) /\ IsSequence(toClient) /\ holder \in {"none", "us"}
  BY DEF LockInOrder, Ours
<1>3. link # "down"
  BY DEF LockInOrder, Disconnected
<1>4. GivesBack(c) => holder = "us"
  BY <1>2, TakenCovered
<1>5. \/ /\ Asks(c) /\ holder' = "us" /\ upload' = upload
         /\ toClient' = toClient \o <<Obtained, LockIs(TRUE)>>
      \/ /\ GivesBack(c) /\ holder' = "none" /\ upload' = NoUpload
         /\ toClient' = toClient \o <<LockIs(FALSE)>>
  BY <1>2, <1>4 DEF DevLock, DevUnlock, Grant, Reply, Asks, GivesBack
<1>6. /\ IsSequence(toClient')
      /\ \A i \in DOMAIN toClient' :
             \/ \E j \in DOMAIN toClient : toClient'[i] = toClient[j]
             \/ Counted(toClient'[i]) /\ toClient'[i].type \notin Answers
  BY <1>2, <1>5, LockNews
<1>7. Covered(toDevice', holder') /\ Ours'
  <2>1. Covered(toDevice', holder')
    BY <1>2, <1>5, TakenCovered
  <2>2. holder' \in {"none", "us"} /\ DOMAIN upload' = DOMAIN NoUpload
    BY <1>5 DEF LockInOrder, Ours
  <2> QED
    BY <1>1, <2>1, <2>2 DEF LockInOrder, Ours
<1>8. ASSUME link \in {"opening", "up"}
      PROVE  Connected'
  <2>1. /\ ~failing /\ Agree(queue, toDevice, toClient, holder)
        /\ IsActive(queue) /\ ~queue.isLocked =>
               NewNumber(queue.active.id, toDevice, toClient, upload)
    BY <1>8 DEF LockInOrder, Connected
  <2>2. Agree(queue, toDevice', toClient', holder')
    BY <1>2, <1>5, <2>1, GrantAgree, FreedAgree
  <2>3. ASSUME NEW id, NewNumber(id, toDevice, toClient, upload)
        PROVE  NewNumber(id, toDevice', toClient', upload')
    <3>1. \A i \in DOMAIN toDevice' : \E j \in DOMAIN toDevice : toDevice'[i] = toDevice[j]
      BY <1>2, RestAt DEF Covered
    <3>2. upload'.of # NoTransfer => upload.of # NoTransfer /\ upload'.id = upload.id
      BY <1>5 DEF NoUpload
    <3>3. \A i \in DOMAIN toClient' : toClient'[i].type \in Answers
              => \E j \in DOMAIN toClient : toClient'[i] = toClient[j]
      BY <1>6
    <3> QED
      BY <2>3, <3>1, <3>2, <3>3 DEF NewNumber
  <2> QED
    BY <1>1, <2>1, <2>2, <2>3 DEF Connected
<1>9. \A i \in DOMAIN toClient' : Counted(toClient'[i])
  BY <1>6 DEF LockInOrder
<1> QED
  BY <1>1, <1>3, <1>6, <1>7, <1>8, <1>9 DEF LockInOrder

\* The device takes a command of a transfer.
LEMMA TakesInOrder ==
    ASSUME Alone, LockInOrder, NEW c, c = Head(toDevice), toDevice # <<>>, toDevice' = Tail(toDevice),
           UNCHANGED <<queueVars, link, failing, used>>,
           DevRequest(c) \/ DevDescription(c) \/ DevData(c) \/ DevDataAck(c) \/ DevClip(c)
    PROVE  LockInOrder'
<1>1. /\ UNCHANGED <<queueVars, link, failing>> /\ holder' = holder /\ used' = used
      /\ c.type # "lock"
  BY DEF DevRequest, DevDescription, DevData, DevDataAck, DevClip, deviceVars
<1>2. c.type = "request" => holder = "us"
  BY TakenCovered DEF LockInOrder
<1>3. refused' = refused
  BY <1>2 DEF DevRequest, DevDescription, DevData, DevDataAck, DevClip, deviceVars
<1>4. DOMAIN upload = {"id", "of", "frame", "got", "credit", "described"}
  BY DEF LockInOrder, Ours, NoUpload
<1>5. NoUpload.of = NoTransfer /\ DOMAIN NoUpload = {"id", "of", "frame", "got", "credit", "described"}
  BY DEF NoUpload
<1>6. /\ DOMAIN upload' = DOMAIN NoUpload
      /\ upload'.of # NoTransfer => \/ upload.of # NoTransfer /\ upload'.id = upload.id
                                    \/ c.type = "request" /\ upload'.id = c.id
  <2>1. CASE DevRequest(c)
    BY <1>2, <1>5, <2>1 DEF DevRequest
  <2>2. CASE DevDescription(c)
    BY <1>4, <1>5, <2>2 DEF DevDescription
  <2>3. CASE DevData(c)
    BY <1>4, <1>5, <2>3 DEF DevData
  <2>4. CASE DevDataAck(c)
    BY <1>4, <1>5, <2>4 DEF DevDataAck
  <2>5. CASE DevClip(c)
    BY <1>4, <1>5, <2>5 DEF DevClip, deviceVars
  <2> QED
    BY <2>1, <2>2, <2>3, <2>4, <2>5
<1>7. Ours'
  BY <1>1, <1>6 DEF LockInOrder, Ours
<1>8. \E a : /\ a.type \in Answers /\ Counted(a)
             /\ \/ toClient' = toClient
                \/ /\ toClient' = toClient \o <<a>>
                   /\ \/ upload.of # NoTransfer /\ a.id = upload.id
                      \/ c.type = "request" /\ a.id = c.id
  <2> DEFINE Right(a) == /\ a.type \in Answers /\ Counted(a)
                         /\ \/ toClient' = toClient
                            \/ /\ toClient' = toClient \o <<a>>
                               /\ \/ upload.of # NoTransfer /\ a.id = upload.id
                                  \/ c.type = "request" /\ a.id = c.id
  <2>1. \A id, chunk : /\ Data(id, chunk).type \in Answers /\ Counted(Data(id, chunk))
                       /\ Data(id, chunk).id = id
    BY DEF Data, Answers, Counted
  <2>2. \A id : /\ AllReceived(id).type \in Answers /\ Counted(AllReceived(id))
                /\ AllReceived(id).id = id
    BY DEF AllReceived, Answers, Counted
  <2>3. CASE toClient' = toClient
    <3>1. Right(AllReceived(0))
      BY <2>2, <2>3
    <3> QED
      BY <3>1
  <2>4. CASE DevRequest(c) /\ toClient' # toClient
    <3>1. Right(Data(c.id, 1))
      BY <1>2, <2>1, <2>4 DEF DevRequest, Reply
    <3> QED
      BY <3>1
  <2>5. CASE DevData(c) /\ toClient' # toClient
    <3>1. Right(AllReceived(c.id))
      BY <2>2, <2>5 DEF DevData, Reply
    <3> QED
      BY <3>1
  <2>6. CASE DevDataAck(c) /\ toClient' # toClient
    <3>1. Right(AllReceived(c.id)) \/ Right(Data(c.id, upload.got + 2))
      BY <2>1, <2>2, <2>6 DEF DevDataAck, Reply
    <3> QED
      BY <3>1
  <2>7. DevDescription(c) \/ DevClip(c) => toClient' = toClient
    BY DEF DevDescription, DevClip
  <2> QED
    BY <2>3, <2>4, <2>5, <2>6, <2>7
<1> QED
  BY <1>1, <1>3, <1>6, <1>7, <1>8, AnswersInOrder

\* The device asks for more, or gives a transfer up.
LEMMA GoesOnInOrder ==
    ASSUME Alone, LockInOrder, DeviceContinues \/ DeviceFails
    PROVE  LockInOrder'
<1>1. /\ UNCHANGED <<queueVars, link, failing, holder, refused>> /\ toDevice' = toDevice
      /\ upload.of # NoTransfer
  BY DEF DeviceContinues, DeviceFails
<1>2. Credit \in Nat
  BY PoolAssumption
<1>3. CASE DeviceContinues
  <2> DEFINE a == AskForMore(upload.id, Credit)
  <2>1. a.type \in Answers /\ Counted(a) /\ a.id = upload.id
    BY <1>2 DEF AskForMore, Answers, Counted
  <2>2. toClient' = toClient \o <<a>> /\ upload' = [upload EXCEPT !.credit = Credit] /\ used' = used
    BY <1>3 DEF DeviceContinues, Reply
  <2>3. DOMAIN upload = {"id", "of", "frame", "got", "credit", "described"}
    BY DEF LockInOrder, Ours, NoUpload
  <2>4. DOMAIN upload' = DOMAIN upload /\ upload'.id = upload.id /\ upload'.of = upload.of
    BY <2>2, <2>3
  <2> HIDE DEF a
  <2>5. Ours'
    BY <1>1, <2>2, <2>4 DEF LockInOrder, Ours
  <2> QED
    BY <1>1, <2>1, <2>2, <2>4, <2>5, AnswersInOrder
<1>4. CASE DeviceFails
  <2>1. PICK code \in Errors : toClient' = toClient \o <<Failure(upload.id, code)>>
    BY <1>4 DEF DeviceFails, Reply
  <2> DEFINE a == Failure(upload.id, code)
  <2>2. a.type \in Answers /\ Counted(a) /\ a.id = upload.id
    BY DEF Failure, Answers, Counted
  <2>3. toClient' = toClient \o <<a>>
    BY <2>1
  <2> HIDE DEF a
  <2>4. upload' = NoUpload /\ used' = [used EXCEPT !["errors"] = @ + 1]
    BY <1>4 DEF DeviceFails, Use
  <2>5. NoUpload.of = NoTransfer
    BY DEF NoUpload
  <2>6. /\ used' \in [{"errors", "takeovers", "revokes", "losses"} -> Nat]
        /\ used'["takeovers"] = 0 /\ used'["revokes"] = 0
    BY <2>4 DEF LockInOrder, Ours
  <2>7. Ours'
    BY <1>1, <2>4, <2>6 DEF LockInOrder, Ours
  <2> QED
    BY <1>1, <2>2, <2>3, <2>4, <2>5, <2>7, AnswersInOrder
<1> QED
  BY <1>3, <1>4

\* The device takes a command.
LEMMA DeviceInOrder ==
    ASSUME Alone, LockInOrder, DeviceReceives
    PROVE  LockInOrder'
<1> DEFINE c == Head(toDevice)
<1>1. /\ toDevice # <<>> /\ toDevice' = Tail(toDevice) /\ UNCHANGED <<queueVars, link, failing, used>>
      /\ \/ DevLock(c) \/ DevUnlock(c) \/ DevRequest(c) \/ DevDescription(c) \/ DevData(c)
         \/ DevDataAck(c) \/ DevClip(c)
  BY DEF DeviceReceives
<1>2. CASE DevLock(c) \/ DevUnlock(c)
  BY <1>1, <1>2, LocksInOrder
<1>3. CASE DevRequest(c) \/ DevDescription(c) \/ DevData(c) \/ DevDataAck(c) \/ DevClip(c)
  BY <1>1, <1>3, TakesInOrder
<1> QED
  BY <1>1, <1>2, <1>3

\* Nothing is under way at first.
LEMMA NewInOrder ==
    ASSUME PoolInit
    PROVE  LockInOrder
<1>1. queue = NewQueue /\ NoActive.of = NoTransfer /\ NoActive.queuedCommands = <<>>
  BY DEF PoolInit, QueueInit, NoActive
<1>2. /\ queue.tasks = <<>> /\ queue.active = NoActive /\ queue.urgent = <<>> /\ ~queue.isLocked
      /\ queue.waiting = <<>> /\ queue.running = Idle
      /\ \A t \in Transfers : queue.fields[t].moved = 0
  BY <1>1 DEF NewQueue, NewTransfer
<1>3. IsSequence(<<>>) /\ Orders(<<>>) /\ DOMAIN <<>> = {}
  BY GivenOrders DEF Orders
<1>4. Typed(queue) /\ Calm(queue) /\ ~IsActive(queue)
  BY <1>1, <1>2, <1>3, ShortHolds DEF Typed, Calm, IsActive, Idle
<1>5. Covered(toDevice, holder) /\ IsSequence(toClient) /\ \A i \in DOMAIN toClient : Counted(toClient[i])
  BY <1>3 DEF Covered, PoolInit
<1>6. Ours
  BY DEF Ours, PoolInit
<1> QED
  BY <1>4, <1>5, <1>6 DEF LockInOrder, Disconnected, PoolInit

\* Every step keeps the lock in order.
LEMMA LockStepInOrder ==
    ASSUME Alone, InOrder(queue, interval), FrameIdIsFree, NextIdIsNew, LockInOrder,
           [PoolNext]_poolVars
    PROVE  LockInOrder'
<1>1. IdIsFree(queue)
  BY StoreIdIsFree DEF IdIsFree, Waits, FrameIdIsFree, InOrder, Alone
<1>2. CASE UserEnqueues \/ HandlerResumes \/ IntervalTicks \/ SendingFails \/ ClientReceives
  BY <1>1, <1>2, EnqueuesInOrder, ResumesInOrder, TicksInOrder, FailsInOrder, ReceivesInOrder
<1>3. CASE LinkOpens \/ LinkCloses \/ LinkLost
  BY <1>3, OpensInOrder, ClosesInOrder, LostInOrder
<1>4. CASE DeviceReceives \/ DeviceContinues \/ DeviceFails
  BY <1>4, DeviceInOrder, GoesOnInOrder
<1>5. ~(OtherLocks \/ OtherUnlocks \/ DeviceRevokes)
  BY DEF OtherLocks, OtherUnlocks, DeviceRevokes, Use, Alone, LockInOrder, Ours
<1>6. CASE UNCHANGED poolVars
  BY <1>6 DEF poolVars, queueVars, channels, deviceVars, LockInOrder, Connected, Disconnected, Ours
<1> QED
  BY <1>2, <1>3, <1>4, <1>5, <1>6 DEF PoolNext

\* The lock is always in order.
LEMMA LockAlwaysInOrder ==
    ASSUME Alone
    PROVE  PoolSpec /\ []FrameIdIsFree /\ []NextIdIsNew => []LockInOrder
<1>1. PoolInit => LockInOrder
  BY NewInOrder
<1>2. InOrder(queue, interval) /\ FrameIdIsFree /\ NextIdIsNew /\ LockInOrder /\ [PoolNext]_poolVars
      => LockInOrder'
  BY LockStepInOrder
<1>3. PoolSpec /\ []FrameIdIsFree => []InOrder(queue, interval)
  BY PoolInOrder DEF Alone
<1> QED
  BY <1>1, <1>2, <1>3, PTL DEF PoolSpec

\* No transfer is requested from the device without the pool's lock, whatever connections are
\* lost, however late the answers come and however often transfers are enqueued, aborted or
\* retried (dataTransferQueue.ts:245-259, 281-292).  The hypotheses: no one else takes the
\* lock, nothing is enqueued before the connection is complete, and ids have not gone once
\* around while a frame is awaited or an answer to a transfer is on its way.
THEOREM RequestsAlwaysHoldLock ==
    ASSUME Alone
    PROVE  PoolSpec /\ []FrameIdIsFree /\ []NextIdIsNew => []RequestsHoldLock
<1>1. LockInOrder => RequestsHoldLock
  BY DEF LockInOrder, RequestsHoldLock
<1> QED
  BY <1>1, LockAlwaysInOrder, PTL

\* Whenever all is done and nothing is under way the lock is returned, so that others can
\* use the pool (dataTransferQueue.ts:281-292).
THEOREM LockIsAlwaysReturned ==
    ASSUME Alone
    PROVE  PoolSpec /\ []FrameIdIsFree /\ []NextIdIsNew => []LockIsReturned
<1>1. ASSUME LockInOrder, link = "up", toDevice = <<>>, toClient = <<>>, ~IsActive(queue)
      PROVE  holder # "us"
  <2>1. Agree(queue, toDevice, toClient, holder)
    BY <1>1 DEF LockInOrder, Connected
  <2>2. ~queue.isLocked
    BY <1>1, <2>1 DEF Agree, Calm
  <2>3. DOMAIN toDevice = {} /\ DOMAIN toClient = {}
    BY <1>1
  <2> QED
    BY <2>1, <2>2, <2>3 DEF Agree, NoGrants
<1>2. LockInOrder => LockIsReturned
  BY <1>1 DEF LockIsReturned
<1> QED
  BY <1>2, LockAlwaysInOrder, PTL

\* While the connection is up the client never believes to have a lock it does not have
\* (dataTransferQueue.ts:245-292, index.ts:155-170).
THEOREM LockIsAlwaysHeld ==
    ASSUME Alone
    PROVE  PoolSpec /\ []FrameIdIsFree /\ []NextIdIsNew
           => [](link \in {"opening", "up"} /\ queue.isLocked => holder = "us")
<1>1. LockInOrder => (link \in {"opening", "up"} /\ queue.isLocked => holder = "us")
  BY DEF LockInOrder, Connected, Agree
<1> QED
  BY <1>1, LockAlwaysInOrder, PTL
=============================================================================
