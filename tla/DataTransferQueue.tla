--------------------------- MODULE DataTransferQueue ---------------------------
(***************************************************************************)
(* A queue of transfers (src/dataTransfer/dataTransferQueue.ts): the one   *)
(* that is active, the lock it needs, and handleCommandQueue, the p-queue  *)
(* of concurrency 1 in which its handlers run one after the other.         *)
(*                                                                         *)
(* The queue's fields are one record.  A method of the code is an operator *)
(* from the record before it to the record after it, so that a method can  *)
(* call another in the order the code does; an entry point of the event    *)
(* loop is an action on the variable `queue`.                              *)
(*                                                                         *)
(* A handler runs up to its first await when it is added to an idle        *)
(* handleCommandQueue, and the rest later: Resume.                         *)
(*                                                                         *)
(* A definition named before the one it resembles is a slip that one       *)
(* invites; nothing uses it.                                               *)
(***************************************************************************)
EXTENDS DataTransfers

CONSTANTS Locking,          \* DataTransferLockingQueue, or DataTransferSimpleQueue?
          MaxTransferIndex, \* MAX_TRANSFER_INDEX
          MaxPerTick,       \* MAX_PACKETS_TO_SEND_PER_TICK
          SourceMayFail     \* may a clip's source of frames throw?

ASSUME QueueAssumption ==
    /\ Locking \in BOOLEAN /\ SourceMayFail \in BOOLEAN
    /\ MaxTransferIndex \in Nat /\ MaxPerTick \in Nat \ {0}

VARIABLES queue,    \* the fields of the queue, of its transfers, and the id counter
          interval  \* is the manager's interval running?

queueVars == <<queue, interval>>

\* activeTransfer when there is none.
NoActive == [id |-> 0, of |-> NoTransfer, state |-> "Finished", queuedCommands |-> <<>>]
IsActive(q) == q.active.of # NoTransfer
Active(q) == q.fields[q.active.of]

\* What handleCommandQueue holds ...
Start == [do |-> "start"]
AbortOf(id) == [do |-> "abort", id |-> id]
Handle(command) == [do |-> "handle", command |-> command]

\* ... and the handler that is running, by what it waits for: a frame of the source,
\* or nothing but its turn.  It keeps the transfer it began with.
Idle == [wait |-> "idle"]
Returning == [wait |-> "return"]
Storing(q, result) == [wait |-> "store", id |-> q.active.id, result |-> result]
FirstFrame(q) == [wait |-> "firstFrame", id |-> q.active.id, of |-> q.active.of]
FrameAfter(q, result) == [wait |-> "nextFrame", id |-> q.active.id, of |-> q.active.of,
                          commands |-> result.commands]

NewQueue == [tasks |-> <<>>, active |-> NoActive, isLocked |-> FALSE,
             urgent |-> <<>>, waiting |-> <<>>, running |-> Idle,
             nextId |-> 0, lockCommands |-> <<>>,
             fields |-> [t \in Transfers |-> NewTransfer]]

-----------------------------------------------------------------------------
(* The lock *)

SendLock(q, locked) == [q EXCEPT !.lockCommands = Append(@, locked)]

\* transferCompleted: the lock is returned when nothing is left to do.
KeepLock(q) == q
TransferCompleted(q) ==
    IF Locking /\ q.isLocked /\ q.tasks = <<>>
    THEN [SendLock(q, FALSE) EXCEPT !.isLocked = FALSE] ELSE q

-----------------------------------------------------------------------------
(* Starting and ending transfers *)

ClearHandlers(q) == [q EXCEPT !.urgent = <<>>, !.waiting = <<>>]

\* Priority 99 for starting and aborting, 0 for the device's commands.
AddUrgent(q, handler) == [q EXCEPT !.urgent = Append(@, handler)]
AddCommand(q, command) == [q EXCEPT !.waiting = Append(@, Handle(command))]

TryStartTransfer(q) == IF IsActive(q) THEN AddUrgent(q, Start) ELSE q
TryAbortTransfer(q) == IF IsActive(q) THEN AddUrgent(q, AbortOf(q.active.id)) ELSE q

\* nextTransferId: counts up to MAX_TRANSFER_INDEX, then from 0.
TakeId(q) == [q EXCEPT !.nextId = IF @ + 1 > MaxTransferIndex THEN 0 ELSE @ + 1]

DequeueAndRun(q) ==
    IF IsActive(q) \/ q.tasks = <<>> THEN q
    ELSE TryStartTransfer(
            [ClearHandlers(TakeId(q)) EXCEPT
                !.tasks = Tail(@),
                !.active = [id |-> q.nextId, of |-> Head(q.tasks), state |-> "Pending",
                            queuedCommands |-> <<>>]])

\* The active transfer is done with, and the next one begins.
EndOnly(q) == [TransferCompleted(q) EXCEPT !.active = NoActive]
EndActive(q) == DequeueAndRun([TransferCompleted(q) EXCEPT !.active = NoActive])

AbortActive(q) == [q EXCEPT !.fields[q.active.of] = Abort(@)]

-----------------------------------------------------------------------------
(* The handlers, up to their first await *)

StartUnlocked(q) ==
    [q EXCEPT !.running =
        IF ~IsActive(q) \/ q.active.state # "Pending" THEN Returning
        ELSE IF Kind[q.active.of] = "clip" THEN FirstFrame(q)
        ELSE Storing(q, StartBuffer(q.active.of, Active(q), q.active.id))]
BeginStart(q) ==
    LET t == q.active.of
    IN  IF ~IsActive(q) \/ q.active.state # "Pending"
        THEN [q EXCEPT !.running = Returning]
        ELSE IF Locking /\ ~q.isLocked
        THEN [SendLock(q, TRUE) EXCEPT
                 !.running = Storing(q, Progress(Active(q), "Pending", <<>>))]
        ELSE IF Kind[t] = "clip"
        THEN [q EXCEPT !.running = FirstFrame(q)]
        ELSE [q EXCEPT !.running = Storing(q, StartBuffer(t, Active(q), q.active.id))]

BeginAbort(q, id) ==
    LET r == [q EXCEPT !.running = Returning]
    IN  IF IsActive(q) /\ q.active.id = id THEN EndActive(AbortActive(r)) ELSE r

BeginHandle(q, command) ==
    LET t == q.active.of
        result == HandleCommand(t, Active(q), command, q.active.state)
    IN  IF \/ ~IsActive(q) \/ q.active.id # command.id
           \/ q.active.state = "Pending"
        THEN [q EXCEPT !.running = Returning]
        ELSE [q EXCEPT !.fields[t] = result.fields,
                       !.running = IF result.frameDone THEN FrameAfter(q, result)
                                                       ELSE Storing(q, result)]

Begin(q, handler) ==
    CASE handler.do = "start"  -> BeginStart(q)
      [] handler.do = "abort"  -> BeginAbort(q, handler.id)
      [] handler.do = "handle" -> BeginHandle(q, handler.command)

\* p-queue: an idle queue begins the first handler of the highest priority.
RunNext(q) ==
    IF q.running # Idle THEN q
    ELSE IF q.urgent # <<>> THEN Begin([q EXCEPT !.urgent = Tail(@)], Head(q.urgent))
    ELSE IF q.waiting # <<>> THEN Begin([q EXCEPT !.waiting = Tail(@)], Head(q.waiting))
    ELSE q

-----------------------------------------------------------------------------
(* The handlers, from their last await on *)

HandlerDone(q) == [q EXCEPT !.running = Idle]

\* The result is stored with the transfer the handler began with, unless another one
\* is active by now: that throws.  (No transfer starts out finished, so that the code
\* for one that does is left out.)
StoreResult(q, id, result) ==
    IF ~IsActive(q) \/ q.active.id # id THEN q
    ELSE [q EXCEPT !.active.state = result.newState,
                   !.active.queuedCommands = @ \o result.commands]

StoreFields(q, t, result) == [q EXCEPT !.fields[t] = result.fields]

\* The new id is tracked together with the result.
StoreNewId(q, id, newId) ==
    IF ~IsActive(q) \/ q.active.id # id THEN q ELSE [q EXCEPT !.active.id = newId]

\* A clip's first frame is there.
ResumeStartClip(q) ==
    LET t == q.running.of
        result == StartClip(t, q.fields[t], q.running.id)
    IN  StoreResult(StoreFields(q, t, result), q.running.id, result)

\* The next frame of a clip is there, or there are no more.
ResumeNextFrame(q) ==
    LET t == q.running.of
        x == q.fields[t]
        id == q.running.id
        result == IF FramesLeft(t, x) THEN NextFrame(t, x, q.nextId) ELSE LastFrameDone(x)
        stored == StoreResult(StoreFields(q, t, result), id,
                              [result EXCEPT !.commands = q.running.commands \o @])
    IN  IF FramesLeft(t, x) THEN StoreNewId(TakeId(stored), id, q.nextId) ELSE stored

\* A handler goes on; if it waited for a first frame and there is none, or the source
\* failed, it throws.
SourceThrows(q) == q.running.wait \in {"firstFrame", "nextFrame"} /\ SourceMayFail
NoFrames(q) == q.running.wait = "firstFrame" /\ ~FramesLeft(q.running.of, q.fields[q.running.of])

Resumed(q) ==
    CASE q.running.wait = "return"     -> q
      [] q.running.wait = "store"      -> StoreResult(q, q.running.id, q.running.result)
      [] q.running.wait = "firstFrame" -> IF NoFrames(q) THEN q ELSE ResumeStartClip(q)
      [] q.running.wait = "nextFrame"  -> ResumeNextFrame(q)

\* Only while a frame is awaited do other events come in between: all else a handler
\* waits for is its turn in the microtask queue.
MayInterrupt(q) == q.running.wait \in {"idle", "firstFrame", "nextFrame"}

-----------------------------------------------------------------------------
QueueInit == queue = NewQueue /\ interval = FALSE

\* A new event begins with the lock commands of the one before sent.
Fresh == [queue EXCEPT !.lockCommands = <<>>]

Resume ==
    /\ queue.running # Idle
    /\ \/ queue' = RunNext(HandlerDone(Resumed(Fresh)))
       \/ SourceThrows(queue) /\ queue' = RunNext(HandlerDone(Fresh))
    /\ UNCHANGED interval

\* A transfer no one enqueued yet.
Unused(t) == /\ t # queue.active.of
             /\ queue.fields[t] = NewTransfer
             /\ \A i \in DOMAIN queue.tasks : queue.tasks[i] # t

Enqueue(t) ==
    /\ queue' = RunNext(DequeueAndRun([Fresh EXCEPT !.tasks = Append(@, t)]))
    /\ UNCHANGED interval

\* The device gave the lock.
LockObtained ==
    /\ Locking
    /\ queue' = RunNext(TryStartTransfer([Fresh EXCEPT !.isLocked = TRUE]))
    /\ UNCHANGED interval

\* The device tells the state of the lock: losing it ends the transfer.
LockNoted(locked) ==
    /\ Locking
    /\ queue' = [Fresh EXCEPT !.isLocked = locked]
    /\ UNCHANGED interval
UpdateLock(locked) ==
    /\ Locking
    /\ LET q == [Fresh EXCEPT !.isLocked = locked]
       IN  queue' = IF queue.isLocked /\ ~locked THEN RunNext(TryAbortTransfer(q)) ELSE q
    /\ UNCHANGED interval

\* queueHandleCommand and handleCommand: a command for the active transfer.
HandleReceived(command) ==
    /\ queue' = IF IsActive(queue) /\ queue.active.id = command.id
                THEN RunNext(AddCommand(Fresh, command)) ELSE Fresh
    /\ UNCHANGED interval

\* clearQueueAndAbort
ForgetQueue(q) == [TransferCompleted(ClearHandlers([q EXCEPT !.tasks = <<>>])) EXCEPT
                      !.active = NoActive]
ClearQueue(q) ==
    LET aborted == {q.tasks[i] : i \in DOMAIN q.tasks} \union
                   (IF IsActive(q) THEN {q.active.of} ELSE {})
        cleared == ClearHandlers([q EXCEPT !.tasks = <<>>])
    IN  [TransferCompleted(cleared) EXCEPT
            !.active = NoActive,
            !.fields = [t \in Transfers |-> IF t \in aborted THEN Abort(@[t]) ELSE @[t]]]

\* The commands the interval takes from the active transfer.
Popped == IF IsActive(queue)
          THEN SubSeq(queue.active.queuedCommands, 1,
                      IF Len(queue.active.queuedCommands) < MaxPerTick
                      THEN Len(queue.active.queuedCommands) ELSE MaxPerTick)
          ELSE <<>>

Tick ==
    /\ interval /\ MayInterrupt(queue) /\ IsActive(queue)
    /\ queue' = IF queue.active.queuedCommands = <<>> /\ queue.active.state = "Finished"
                THEN RunNext(EndActive(Fresh))
                ELSE [Fresh EXCEPT !.active.queuedCommands =
                                       SubSeq(@, Len(Popped) + 1, Len(@))]
    /\ UNCHANGED interval

\* Sending what the interval took failed.
SendFailed ==
    /\ MayInterrupt(queue)
    /\ queue' = RunNext(TryAbortTransfer(Fresh))
    /\ UNCHANGED interval

StartCommandSending ==
    /\ interval' = TRUE
    /\ queue' = IF interval THEN Fresh ELSE ClearQueue(Fresh)

StopCommandSending ==
    /\ MayInterrupt(queue)
    /\ interval' = FALSE
    /\ queue' = ClearQueue(Fresh)
=============================================================================
