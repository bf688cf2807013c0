------------------------------- MODULE MediaPool -------------------------------
(***************************************************************************)
(* The transfers of one media pool: the queue of the client, the manager   *)
(* that starts and stops it with the connection (src/dataTransfer/index.ts *)
(* and src/atem.ts), the device that owns the pool and its lock, and       *)
(* another client that wants the lock too.                                 *)
(*                                                                         *)
(* Commands travel in order and without loss while the connection lasts,   *)
(* and not at all otherwise: what AtemLink shows of the connection.        *)
(*                                                                         *)
(* The device is not part of the repository.  It is modelled from the      *)
(* sequences recorded in src/dataTransfer/__tests__ and from what the code *)
(* expects of it.                                                          *)
(***************************************************************************)
EXTENDS DataTransferQueue

CONSTANTS Credit,         \* chunks the device asks for at a time
          EarlyTransfers, \* may the user enqueue before the connection is complete?
          MaxErrors,      \* bound: errors the device reports
          Errors,         \* the ones it may report
          MaxTakeovers,   \* bound: times the other client takes the lock
          MaxRevokes,     \* bound: times the device takes our lock away
          MaxLosses       \* bound: connections lost

ASSUME PoolAssumption ==
    /\ Credit \in Nat \ {0}
    /\ EarlyTransfers \in BOOLEAN
    /\ Errors \subseteq ErrorCode
    /\ {MaxErrors, MaxTakeovers, MaxRevokes, MaxLosses} \subseteq Nat

VARIABLES link,        \* the connection: "down", "opening", "up" after InitComplete, or
                       \* "closing" when nothing can be sent any more
          failing,     \* did sending a batch fail, and its promise is not handled yet?
          toDevice,    \* commands on their way to the device
          toClient,    \* commands on their way to the client
          holder,      \* who holds the pool's lock: "none", "us" or "them"
          lockWanted,  \* did we ask for it while they held it?
          upload,      \* what the device is receiving or sending
          stored,      \* auxiliary: [Transfers -> frames the device has completely]
          refused,     \* auxiliary: was a transfer requested without the lock?
          misplaced,   \* auxiliary: did data arrive that is not what comes next?
          undescribed, \* auxiliary: did data arrive before the description?
          used         \* auxiliary: how much of each bound is used up

deviceVars == <<holder, lockWanted, upload, stored, refused, misplaced, undescribed>>
channels == <<toDevice, toClient>>
poolVars == <<queueVars, link, failing, channels, deviceVars, used>>

NoUpload == [id |-> 0, of |-> NoTransfer, frame |-> 0, got |-> 0, credit |-> 0,
             described |-> FALSE]

-----------------------------------------------------------------------------
(* Commands *)

Lock(locked) == [type |-> "lock", locked |-> locked]
Obtained == [type |-> "lockObtained"]
LockIs(locked) == [type |-> "lockState", locked |-> locked]
AskForMore(id, count) == [type |-> "continue", id |-> id, count |-> count]
InitComplete == [type |-> "initComplete"]
AllReceived(id) == [type |-> "complete", id |-> id]
Failure(id, code) == [type |-> "error", id |-> id, code |-> code]

\* Lock commands go out at once, the others when the interval takes them; what is
\* sent without a connection is lost.
Send(commands) ==
    toDevice' = IF link \in {"down", "closing"} THEN toDevice
                ELSE toDevice \o [i \in DOMAIN queue'.lockCommands |->
                                     Lock(queue'.lockCommands[i])] \o commands

Reply(commands) == toClient' = toClient \o commands

Use(bound, max) == used[bound] < max /\ used' = [used EXCEPT ![bound] = @ + 1]

-----------------------------------------------------------------------------
(* The client *)

ClientStep(step) == /\ step
                    /\ Send(<<>>)
                    /\ UNCHANGED <<toClient, deviceVars, used>>

UserEnqueues ==
    /\ EarlyTransfers \/ link = "up"
    /\ ClientStep(\E t \in Transfers : Unused(t) /\ Enqueue(t))
    /\ UNCHANGED <<link, failing>>

HandlerResumes == ClientStep(Resume) /\ UNCHANGED <<link, failing>>

IntervalTicks ==
    /\ Tick
    /\ Send(Popped)
    /\ failing' = (failing \/ (link = "closing" /\ Popped # <<>>))
    /\ UNCHANGED <<toClient, link, deviceVars, used>>

SendingFails ==
    /\ failing /\ failing' = FALSE
    /\ ClientStep(SendFailed)
    /\ UNCHANGED link

\* The commands of the device, in the order they were sent.  InitComplete ends the
\* description of its state with which it begins a connection.
ClientReceives ==
    /\ toClient # <<>>
    /\ LET command == Head(toClient)
       IN  \/ /\ command.type = "lockObtained" /\ LockObtained
              /\ UNCHANGED link
           \/ /\ command.type = "lockState" /\ UpdateLock(command.locked)
              /\ UNCHANGED link
           \/ /\ command.type = "initComplete" /\ StartCommandSending
              /\ link' = IF link = "opening" THEN "up" ELSE link
           \/ /\ command.type \in {"continue", "data", "complete", "error"}
              /\ HandleReceived(command)
              /\ UNCHANGED link
    /\ toClient' = Tail(toClient)
    /\ Send(<<>>)
    /\ UNCHANGED <<failing, deviceVars, used>>

\* A connection is made; the device describes itself.  A failure to send is told to the
\* client over the same channel and thus before anything of a new connection.
LinkOpens ==
    /\ link = "down" /\ ~failing
    /\ link' = "opening"
    /\ toClient' = (IF Locking THEN <<LockIs(holder # "none")>> ELSE <<>>) \o <<InitComplete>>
    /\ UNCHANGED <<queueVars, failing, toDevice, deviceVars, used>>

\* The socket closes: sending throws from here on.
LinkCloses ==
    /\ link \in {"opening", "up"}
    /\ link' = "closing"
    /\ Use("losses", MaxLosses)
    /\ UNCHANGED <<queueVars, failing, channels, deviceVars>>

\* The client is told of the loss.
LinkLost ==
    /\ link = "closing"
    /\ link' = "down"
    /\ StopCommandSending
    /\ toDevice' = <<>> /\ toClient' = <<>>
    /\ holder' = IF holder = "us" THEN "none" ELSE holder
    /\ lockWanted' = FALSE /\ upload' = NoUpload
    /\ UNCHANGED <<failing, stored, refused, misplaced, undescribed, used>>

-----------------------------------------------------------------------------
(* The device *)

\* Microtasks of the client take no time: nothing new arrives before they have run.
AnswersMayArrive == MayInterrupt(queue)

Grant == /\ holder' = "us" /\ lockWanted' = FALSE
         /\ Reply(<<Obtained, LockIs(TRUE)>>)

DevLock(command) ==
    /\ command.type = "lock" /\ command.locked
    /\ IF holder = "them" THEN lockWanted' = TRUE /\ UNCHANGED <<holder, toClient>>
                          ELSE Grant
    /\ UNCHANGED <<upload, stored, refused, misplaced, undescribed>>

DevUnlock(command) ==
    /\ command.type = "lock" /\ ~command.locked
    /\ IF holder = "us" THEN /\ holder' = "none" /\ upload' = NoUpload
                             /\ Reply(<<LockIs(FALSE)>>)
                        ELSE UNCHANGED <<holder, upload, toClient>>
    /\ lockWanted' = FALSE
    /\ UNCHANGED <<stored, refused, misplaced, undescribed>>

\* A request starts a transfer if we hold the lock.
DevRequest(command) ==
    /\ command.type = "request"
    /\ IF Locking /\ holder # "us"
       THEN /\ refused' = TRUE /\ UNCHANGED upload
            /\ Reply(<<Failure(command.id, "NotLocked")>>)
       ELSE /\ upload' = [NoUpload EXCEPT !.id = command.id, !.of = command.of,
                                          !.frame = command.frame]
            /\ UNCHANGED refused
            /\ IF Kind[command.of] = "download"
               THEN Reply(<<Data(command.id, 1)>>)
               ELSE UNCHANGED toClient
    /\ UNCHANGED <<holder, lockWanted, stored, misplaced, undescribed>>

DevDescription(command) ==
    /\ command.type = "description"
    /\ upload' = [upload EXCEPT !.described = @ \/ upload.id = command.id]
    /\ UNCHANGED <<holder, lockWanted, stored, refused, misplaced, undescribed, toClient>>

\* Data of the upload under way; the last chunk completes it.
DevData(command) ==
    /\ command.type = "data"
    /\ IF upload.of # NoTransfer /\ upload.id = command.id
       THEN /\ misplaced' = (misplaced \/ command.chunk # upload.got + 1)
            /\ undescribed' = (undescribed \/ ~upload.described)
            /\ IF upload.got + 1 < Chunks[upload.of]
               THEN /\ upload' = [upload EXCEPT !.got = @ + 1, !.credit = @ - 1]
                    /\ UNCHANGED <<stored, toClient>>
               ELSE /\ upload' = NoUpload
                    /\ stored' = [stored EXCEPT ![upload.of] = @ \union {upload.frame}]
                    /\ Reply(<<AllReceived(command.id)>>)
       ELSE UNCHANGED <<upload, stored, misplaced, undescribed, toClient>>
    /\ UNCHANGED <<holder, lockWanted, refused>>

\* An acknowledged chunk of a download is followed by the next one.
DevDataAck(command) ==
    /\ command.type = "dataAck"
    /\ IF upload.of # NoTransfer /\ upload.id = command.id
       THEN IF upload.got + 1 < Chunks[upload.of]
            THEN /\ upload' = [upload EXCEPT !.got = @ + 1]
                 /\ UNCHANGED stored
                 /\ Reply(<<Data(command.id, upload.got + 2)>>)
            ELSE /\ upload' = NoUpload
                 /\ stored' = [stored EXCEPT ![upload.of] = @ \union {upload.frame}]
                 /\ Reply(<<AllReceived(command.id)>>)
       ELSE UNCHANGED <<upload, stored, toClient>>
    /\ UNCHANGED <<holder, lockWanted, refused, misplaced, undescribed>>

DevClip(command) ==
    /\ command.type \in {"clearClip", "setClip"}
    /\ UNCHANGED <<deviceVars, toClient>>

DeviceReceives ==
    /\ AnswersMayArrive /\ toDevice # <<>>
    /\ LET command == Head(toDevice)
       IN  \/ DevLock(command) \/ DevUnlock(command) \/ DevRequest(command)
           \/ DevDescription(command) \/ DevData(command) \/ DevDataAck(command)
           \/ DevClip(command)
    /\ toDevice' = Tail(toDevice)
    /\ UNCHANGED <<queueVars, link, failing, used>>

\* The device asks for the next chunks of an upload.
DeviceContinues ==
    /\ AnswersMayArrive /\ upload.of # NoTransfer /\ Kind[upload.of] # "download"
    /\ upload.credit = 0
    /\ upload' = [upload EXCEPT !.credit = Credit]
    /\ Reply(<<AskForMore(upload.id, Credit)>>)
    /\ UNCHANGED <<queueVars, link, failing, toDevice, used, holder, lockWanted, stored, refused,
                   misplaced, undescribed>>

\* The device gives a transfer up.
DeviceFails ==
    /\ AnswersMayArrive /\ upload.of # NoTransfer
    /\ Use("errors", MaxErrors)
    /\ upload' = NoUpload
    /\ \E code \in Errors : Reply(<<Failure(upload.id, code)>>)
    /\ UNCHANGED <<queueVars, link, failing, toDevice, holder, lockWanted, stored, refused,
                   misplaced, undescribed>>

\* The other client takes the lock and returns it; everyone is told.
OtherLocks ==
    /\ AnswersMayArrive /\ Locking /\ holder = "none" /\ link # "down"
    /\ Use("takeovers", MaxTakeovers)
    /\ holder' = "them"
    /\ Reply(<<LockIs(TRUE)>>)
    /\ UNCHANGED <<queueVars, link, failing, toDevice, lockWanted, upload, stored, refused,
                   misplaced, undescribed>>

OtherUnlocks ==
    /\ AnswersMayArrive /\ holder = "them" /\ link # "down"
    /\ IF lockWanted THEN Grant
                     ELSE /\ holder' = "none"
                          /\ Reply(<<LockIs(FALSE)>>)
                          /\ UNCHANGED lockWanted
    /\ UNCHANGED <<queueVars, link, failing, toDevice, upload, stored, refused, misplaced,
                   undescribed, used>>

\* Our lock is taken away.
DeviceRevokes ==
    /\ AnswersMayArrive /\ holder = "us"
    /\ Use("revokes", MaxRevokes)
    /\ holder' = "none" /\ upload' = NoUpload
    /\ Reply(<<LockIs(FALSE)>>)
    /\ UNCHANGED <<queueVars, link, failing, toDevice, lockWanted, stored, refused, misplaced,
                   undescribed>>

-----------------------------------------------------------------------------
PoolInit ==
    /\ QueueInit
    /\ link = "down" /\ failing = FALSE /\ toDevice = <<>> /\ toClient = <<>>
    /\ holder = "none" /\ lockWanted = FALSE /\ upload = NoUpload
    /\ stored = [t \in Transfers |-> {}]
    /\ refused = FALSE /\ misplaced = FALSE /\ undescribed = FALSE
    /\ used = [bound \in {"errors", "takeovers", "revokes", "losses"} |-> 0]

PoolNext ==
    \/ UserEnqueues \/ HandlerResumes \/ IntervalTicks \/ SendingFails \/ ClientReceives
    \/ LinkOpens \/ LinkCloses \/ LinkLost
    \/ DeviceReceives \/ DeviceContinues \/ DeviceFails
    \/ OtherLocks \/ OtherUnlocks \/ DeviceRevokes

PoolSpec == PoolInit /\ [][PoolNext]_poolVars

\* The event loop of the client, the device, the connection and the other client go on.
PoolFairness ==
    /\ WF_poolVars(HandlerResumes) /\ WF_poolVars(IntervalTicks) /\ WF_poolVars(ClientReceives)
    /\ WF_poolVars(SendingFails) /\ WF_poolVars(LinkOpens) /\ WF_poolVars(LinkLost)
    /\ WF_poolVars(DeviceReceives) /\ WF_poolVars(DeviceContinues)
    /\ WF_poolVars(OtherUnlocks)

FairPoolSpec == PoolSpec /\ PoolFairness

-----------------------------------------------------------------------------
(* Properties *)

PromiseOf(t) == queue.fields[t].promise
Enqueued(t) == ~Unused(t)

\* No transfer is requested from the device without holding the pool's lock
\* (dataTransferQueue.ts:245-259, 281-292).
RequestsHoldLock == ~refused

\* Whenever nothing is left to do and nothing is under way, the lock is returned: other
\* clients can use the pool (dataTransferQueue.ts:281-292).
LockIsReturned ==
    /\ link = "up" /\ toDevice = <<>> /\ toClient = <<>>
    /\ queue.tasks = <<>> /\ ~IsActive(queue) /\ queue.running = Idle
    => holder # "us"

\* What is stored at the device is the data of the transfer, from the first chunk on
\* and without a gap, after its description (dataTransferUploadBuffer.ts:124-132, 155-191).
DataIsWhole == ~misplaced /\ ~undescribed

\* A promise resolves only if all of the transfer is done: every frame of a clip is
\* stored, every chunk of a download is there once (dataTransfer.ts:34-37).
ResolvedIsDone ==
    \A t \in Transfers : PromiseOf(t) = "resolved" =>
        CASE Kind[t] = "clip"     -> stored[t] = 1 .. Frames[t]
          [] Kind[t] = "upload"   -> stored[t] # {}
          [] Kind[t] = "download" -> stored[t] # {} /\ queue.fields[t].moved = Chunks[t]

\* No transfer goes on after the lock is lost (dataTransferQueue.ts:270-279).
LostLockAborts ==
    Locking /\ ~queue.isLocked /\ IsActive(queue) =>
        \/ queue.active.state \in {"Pending", "Finished"}
        \/ \E i \in DOMAIN queue.urgent : queue.urgent[i] = AbortOf(queue.active.id)

\* That much holds of a transfer of one file, whose id stays: it is over, waits for the
\* lock, or its abort is on the way (dataTransferQueue.ts:155-163, 270-279).
LostLockAbortsFile ==
    IsActive(queue) /\ Kind[queue.active.of] # "clip" => LostLockAborts

\* Without a connection nothing remains of the transfers that ran on it
\* (index.ts:99-113, dataTransferQueue.ts:37-51).
NothingLeftRunning ==
    \A t \in Transfers :
        PromiseOf(t) = "pending" /\ Enqueued(t) =>
            \/ queue.active.of = t
            \/ \E i \in DOMAIN queue.tasks : queue.tasks[i] = t

\* Every transfer ends: its promise resolves or is rejected, whatever becomes of the
\* connection and the lock (dataTransfer.ts:34-37).
TransfersSettle ==
    \A t \in Transfers : Enqueued(t) ~> PromiseOf(t) # "pending"
=============================================================================
