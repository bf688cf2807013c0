---------------------------- MODULE AtemConnection ----------------------------
(***************************************************************************)
(* The two threads of a connection: the parent (AtemSocket and BasicAtem)  *)
(* and the worker that runs the connection child (ChildSteps), with a      *)
(* queue of messages each way.                                             *)
(*                                                                         *)
(* Worker threads come from the library threadedclass, which is not part   *)
(* of the repository: a call is a message that is answered by another, a   *)
(* thread that dies fails the calls it did not answer, says `closed', is   *)
(* made again and says `restarted'.                                        *)
(***************************************************************************)
EXTENDS ChildSteps, FiniteSets

CONSTANTS MaxThreads,   \* bound: threads ever created
          MaxPackets,   \* bound: packets ever sent, one per call
          MaxLosses,    \* bound: sessions the network or the device ends
          MaxCrashes,   \* bound: threads that die or freeze
          MaxCalls,     \* bound: calls of connect, disconnect and destroy
          Overlap,      \* may connect be called while another call is unfinished?
          SlowParent,   \* may messages between threads take longer than a HELLO and its answer?
          EarlySends    \* may the user send before the connection is complete?

ASSUME ConnectionAssumption ==
    /\ MaxThreads \in Nat \ {0} /\ MaxPackets \in Nat /\ MaxLosses \in Nat
    /\ MaxCrashes \in Nat /\ MaxCalls \in Nat /\ EarlySends \in BOOLEAN
    /\ Overlap \in BOOLEAN /\ SlowParent \in BOOLEAN

VARIABLES
    thread,           \* the worker threads
    socketProcess,    \* _socketProcess, 0 for undefined
    creatingSocket,   \* _creatingSocket: the thread last asked for, 0 for none
    isDisconnecting,  \* _isDisconnecting
    connecting,       \* does a connect await the creation of a thread?
    disconnecting,    \* does a disconnect await the child?
    destroying,       \* what destroy awaits
    status,           \* _status of BasicAtem
    state,            \* _state of BasicAtem
    transfers,        \* does the transfer manager send?
    promise,          \* what became of each packet's promise
    sent,             \* _nextPacketTrackingId
    accepted,         \* auxiliary: packets the device accepted
    stray,            \* auxiliary: packets a child got while it had no session
    wanted,           \* auxiliary: what the user last asked for
    crossed,          \* auxiliary: was the disconnection upset, see TakeDisconnectCall and Crash?
    doubled,          \* auxiliary: was a thread ever asked for while another was being made?
    sessions,         \* auxiliary: sessions the device started
    losses, crashes, calls    \* auxiliary: what the bounds limit

socketVars == <<socketProcess, creatingSocket, isDisconnecting, connecting,
                disconnecting, destroying>>
atemVars == <<status, state, transfers>>
promiseVars == <<promise, sent>>
counters == <<sessions, losses, crashes, calls>>
userVars == <<wanted, crossed, doubled>>
connectionVars == <<thread, socketVars, atemVars, promiseVars, accepted, stray,
                    userVars, counters>>

Threads == 1 .. MaxThreads
Packets == 1 .. MaxPackets

-----------------------------------------------------------------------------
(* Threads *)

\* life   of the thread
\* child  the condition of the child
\* dump   batches of the initial state that the session delivered, of two
\* waits  who awaits the parent's answers to onDisconnect, in order
\* inbox, outbox  messages to the child, and to the parent
NoThread == [life |-> "none", child |-> Fresh, dump |-> 0, session |-> 0,
             waits |-> <<>>, inbox |-> <<>>, outbox |-> <<>>]

Message(type) == [type |-> type]
WithIds(type, ids) == [type |-> type, ids |-> ids]

\* Any message of type `type' under way from a thread.
UnderWay(n, type) == \E i \in DOMAIN thread[n].outbox : thread[n].outbox[i].type = type

\* A call of the parent.
Posting(t, message) == [t EXCEPT !.inbox = Append(@, message)]

Runs(n) == thread[n].life = "running"

\* The child became c and made these calls; `wait' is who awaits an onDisconnect.
Child(t, c, calls_, wait) ==
    [t EXCEPT !.child = c, !.outbox = @ \o calls_,
              !.waits = IF calls_ # <<>> THEN Append(@, wait) ELSE @]

\* restartConnection in thread t; a new session will start from its beginning.
RestartIn(t) == Child([t EXCEPT !.dump = 0], Restarted(t.child),
                      RestartReports(t.child), "restart")

-----------------------------------------------------------------------------
(* The state of the device, as far as it matters here: which parts of which
   sessions were applied to it *)

Undefined == [defined |-> FALSE, parts |-> {}]
Created == [defined |-> TRUE, parts |-> {}]

Init ==
    /\ thread = [n \in Threads |-> NoThread]
    /\ socketProcess = 0 /\ creatingSocket = 0 /\ isDisconnecting = FALSE
    /\ connecting = FALSE /\ disconnecting = FALSE /\ destroying = "no"
    /\ status = "CLOSED" /\ state = Created /\ transfers = FALSE
    /\ promise = [p \in Packets |-> "none"] /\ sent = 0
    /\ accepted = {} /\ stray = {} /\ wanted = "nothing"
    /\ crossed = FALSE /\ doubled = FALSE
    /\ sessions = 0 /\ losses = 0 /\ crashes = 0 /\ calls = 0

\* The promises of these packets that are `from' become `to'.
BecomeAny(ids, from, to) ==
    promise' = [p \in Packets |-> IF promise[p] = from THEN to ELSE promise[p]]

Become(ids, from, to) ==
    promise' = [p \in Packets |-> IF p \in ids /\ promise[p] = from THEN to ELSE promise[p]]

-----------------------------------------------------------------------------
(* AtemSocket and BasicAtem: calls of the user.  With Overlap connect may come while
   connects and disconnects are unfinished; a disconnect or a destroy comes when the last
   one is over. *)

MayCall == calls < MaxCalls /\ calls' = calls + 1

\* A call to the child; one to a thread that died fails.
Call(n, message) == thread' = IF Runs(n) THEN [thread EXCEPT ![n] = Posting(@, message)]
                                         ELSE thread

\* connect.  Without a thread it makes one, even when one is being made already, and
\* goes on in ThreadCreated.
CreateThread ==
    \E n \in Threads :
        /\ thread[n].life = "none" /\ \A m \in 1 .. n - 1 : thread[m].life # "none"
        /\ thread' = [thread EXCEPT ![n].life = "creating"]
        /\ creatingSocket' = n
        /\ connecting' = TRUE
        /\ doubled' = (doubled \/ connecting)

\* Left out: a connect while a destroy is unfinished.
Connect ==
    /\ MayCall /\ destroying = "no"
    /\ Overlap \/ (~connecting /\ ~disconnecting)
    /\ isDisconnecting' = FALSE
    /\ wanted' = "connection" /\ crossed' = FALSE
    /\ \/ /\ socketProcess = 0
          /\ CreateThread
       \/ /\ socketProcess # 0
          /\ Call(socketProcess, Message("connect"))
          /\ UNCHANGED <<creatingSocket, connecting, doubled>>
    /\ UNCHANGED <<socketProcess, disconnecting, destroying, atemVars, promiseVars,
                   accepted, stray, sessions, losses, crashes>>

\* The thread was wanted when it was asked for.
ConnectAnyway(made) == Posting(made, Message("connect"))

\* The end of connect: it throws when the user disconnected meanwhile.
ConnectUnlessDisconnecting(made) ==
    IF isDisconnecting THEN made ELSE Posting(made, Message("connect"))

\* The thread is there: _socketProcess is set, and connect goes on.  A destroy that
\* waited for the thread goes on after that.
ThreadCreated(n) ==
    /\ thread[n].life = "creating"
    /\ socketProcess' = n
    /\ connecting' = \E m \in Threads \ {n} : thread[m].life = "creating"
    /\ thread' = [thread EXCEPT ![n] =
                     ConnectUnlessDisconnecting([@ EXCEPT !.life = "running"])]
    /\ UNCHANGED <<creatingSocket, isDisconnecting, disconnecting, destroying, atemVars,
                   promiseVars, accepted, stray, userVars, counters>>

\* disconnect, up to its await; nothing to await without a thread.  When the thread
\* is dead it fails, and so does a destroy.
HasDied == socketProcess # 0 /\ ~Runs(socketProcess)

CallDisconnect(wish) ==
    /\ isDisconnecting' = TRUE
    /\ disconnecting' = (socketProcess # 0 /\ ~HasDied)
    /\ IF socketProcess # 0 THEN Call(socketProcess, Message("disconnect"))
                            ELSE UNCHANGED thread
    /\ wanted' = wish /\ crossed' = HasDied /\ UNCHANGED doubled

Disconnect ==
    /\ MayCall /\ wanted = "connection" /\ ~disconnecting /\ destroying = "no"
    /\ CallDisconnect("disconnection")
    /\ UNCHANGED <<socketProcess, creatingSocket, connecting, destroying, atemVars,
                   promiseVars, accepted, stray, sessions, losses, crashes>>

\* destroy stops the transfers and disconnects; what comes next is in FinishDestroy.
Destroy ==
    /\ MayCall /\ ~disconnecting /\ destroying = "no"
    /\ transfers' = FALSE
    /\ CallDisconnect("destruction")
    /\ destroying' = IF HasDied THEN "no" ELSE "waiting"
    /\ UNCHANGED <<socketProcess, creatingSocket, connecting, status, state,
                   promiseVars, accepted, stray, sessions, losses, crashes>>

\* The disconnect is over, and so is the creation of the last thread asked for: the
\* thread is ended.
DestroyAtOnce == destroying = "waiting" /\ ~disconnecting

DestroyGoesOn == /\ destroying = "waiting" /\ ~disconnecting
                 /\ creatingSocket # 0 => thread[creatingSocket].life # "creating"

\* The packets of calls to a thread that it did not answer yet.
Mentions(messages, types, p) ==
    \E i \in DOMAIN messages : messages[i].type \in types /\ p \in messages[i].ids

Unanswered(t) == {p \in Packets : \/ Mentions(t.inbox, {"send"}, p)
                                  \/ Mentions(t.outbox, {"sent", "notSent"}, p)}

FinishDestroy ==
    /\ DestroyGoesOn
    /\ destroying' = "no"
    /\ socketProcess' = 0
    /\ thread' = IF socketProcess = 0 THEN thread
                 ELSE [thread EXCEPT ![socketProcess] = [NoThread EXCEPT !.life = "ended"]]
    /\ IF socketProcess = 0 THEN UNCHANGED promise
       ELSE Become({p \in Packets : \A n \in Threads \ {socketProcess} :
                                       p \notin Unanswered(thread[n])}, "sending", "failed")
    /\ UNCHANGED <<creatingSocket, isDisconnecting, connecting, disconnecting, atemVars,
                   sent, accepted, stray, userVars, counters>>

\* sendCommands, up to its await: the packet gets the next tracking id.
SendCommands ==
    /\ sent < MaxPackets
    /\ socketProcess # 0
    /\ EarlySends \/ status = "CONNECTED"
    /\ sent' = sent + 1
    /\ promise' = [promise EXCEPT ![sent'] =
                      IF Runs(socketProcess) THEN "sending" ELSE "failed"]
    /\ Call(socketProcess, WithIds("send", {sent'}))
    /\ UNCHANGED <<socketVars, atemVars, accepted, stray, userVars, counters>>

-----------------------------------------------------------------------------
(* AtemSocket and BasicAtem: messages of the thread *)

Pending == {p \in Packets : promise[p] = "pending"}

\* The handler of 'disconnect': every promise that waits is rejected, the state goes.
Close(to) == status' = to /\ transfers' = FALSE

OnDisconnectKeepingStatus ==
    Close(status) /\ Become(Packets, "pending", "rejected") /\ state' = Undefined
OnDisconnectKeepingPromises ==
    Close("CLOSED") /\ UNCHANGED promise /\ state' = Undefined
OnDisconnect ==
    Close("CLOSED") /\ Become(Packets, "pending", "rejected") /\ state' = Undefined

\* _mutateState: a version starts a new state, InitComplete ends the initial one.
Applied(s, batch, session) ==
    IF s.defined THEN [s EXCEPT !.parts = @ \union ({session} \X batch)] ELSE s

StateOnVersion(batch) == state
StateBefore(batch) == IF "version" \in batch THEN Created ELSE state

MutateState(batch, session) ==
    LET starts == "version" \in batch
        before == StateBefore(batch)
    IN  /\ state' = Applied(before, batch, session)
        /\ IF "init" \in batch
           THEN status' = "CONNECTED" /\ transfers' = TRUE
           ELSE /\ status' = IF starts THEN "CONNECTING" ELSE status
                /\ UNCHANGED transfers
        /\ UNCHANGED promise

\* The next message of thread n.
Next1(n, type) == Runs(n) /\ thread[n].outbox # <<>> /\ Head(thread[n].outbox).type = type
Taken(n) == [thread[n] EXCEPT !.outbox = Tail(@)]

\* onDisconnect, to which the child awaits the answer.
TakeDisconnect(n) ==
    /\ Next1(n, "disconnect")
    /\ OnDisconnect
    /\ thread' = [thread EXCEPT ![n] = Posting(Taken(n), Message("answer"))]
    /\ UNCHANGED <<socketVars, sent>>

TakeCommands(n) ==
    /\ Next1(n, "commands")
    /\ MutateState(Head(thread[n].outbox).batch, Head(thread[n].outbox).session)
    /\ thread' = [thread EXCEPT ![n] = Taken(n)]
    /\ UNCHANGED <<socketVars, sent>>

\* _resolveCommands: only what is in _sentQueue is resolved.
TakeAcknowledged(n) ==
    /\ Next1(n, "acknowledged")
    /\ Become(Head(thread[n].outbox).ids, "pending", "resolved")
    /\ thread' = [thread EXCEPT ![n] = Taken(n)]
    /\ UNCHANGED <<socketVars, atemVars, sent>>

\* The answer to sendPackets: only now are the promises entered in _sentQueue.
TakeSent(n) ==
    /\ Next1(n, "sent")
    /\ Become(Head(thread[n].outbox).ids, "sending", "pending")
    /\ thread' = [thread EXCEPT ![n] = Taken(n)]
    /\ UNCHANGED <<socketVars, atemVars, sent>>

TakeNotSent(n) ==
    /\ Next1(n, "notSent")
    /\ Become(Head(thread[n].outbox).ids, "sending", "failed")
    /\ thread' = [thread EXCEPT ![n] = Taken(n)]
    /\ UNCHANGED <<socketVars, atemVars, sent>>

TakeDisconnected(n) ==
    /\ Next1(n, "disconnected")
    /\ disconnecting' = FALSE
    /\ thread' = [thread EXCEPT ![n] = Taken(n)]
    /\ UNCHANGED <<socketProcess, creatingSocket, isDisconnecting, connecting,
                   destroying, atemVars, promiseVars>>

\* What becomes of a promise whose thread died.
AfterDeathUnlessSending(outcome) == IF outcome = "sending" THEN "failed" ELSE outcome

AfterDeath(outcome) == CASE outcome = "pending" -> "rejected"
                         [] outcome = "sending" -> "failed"
                         [] OTHER -> outcome

\* The thread died: 'thread_closed'.  Calls it did not answer fail, destroy with them.
TakeClosed(n) ==
    /\ thread[n].life = "closed"
    /\ Close("CLOSED") /\ state' = Undefined
    /\ promise' = [p \in Packets |-> AfterDeath(promise[p])]
    /\ disconnecting' = FALSE
    /\ destroying' = IF disconnecting THEN "no" ELSE destroying
    /\ thread' = [thread EXCEPT ![n].life = "dead"]
    /\ UNCHANGED <<socketProcess, creatingSocket, isDisconnecting, connecting, sent>>

AgainIdle(n) == [NoThread EXCEPT !.life = "running"]
AgainConnecting(n) ==
    Posting([NoThread EXCEPT !.life = "running"], Message("connect"))

\* The thread was made again: 'restarted' makes it connect, whatever the user wants.
TakeRestarted(n) ==
    /\ thread[n].life = "dead"
    /\ isDisconnecting' = FALSE
    /\ thread' = [thread EXCEPT ![n] = AgainConnecting(n)]
    /\ UNCHANGED <<socketProcess, creatingSocket, connecting, disconnecting,
                   destroying, atemVars, promiseVars>>

ParentTakes(n) ==
    /\ \/ TakeDisconnect(n) \/ TakeCommands(n) \/ TakeAcknowledged(n) \/ TakeSent(n)
       \/ TakeNotSent(n) \/ TakeDisconnected(n) \/ TakeClosed(n) \/ TakeRestarted(n)
    /\ UNCHANGED <<accepted, stray, userVars, counters>>

-----------------------------------------------------------------------------
(* The worker thread: ChildSteps, driven by the parent's calls and the device *)

NextCall(n, type) == Runs(n) /\ thread[n].inbox # <<>> /\ Head(thread[n].inbox).type = type
Begun(n) == [thread[n] EXCEPT !.inbox = Tail(@)]
ThreadBecomes(n, t) == thread' = [thread EXCEPT ![n] = t]

TakeConnect(n) ==
    /\ NextCall(n, "connect")
    /\ ThreadBecomes(n, RestartIn(Begun(n)))
    /\ UNCHANGED <<stray, crossed>>

\* A disconnect that meets a restart that waits for its answer is undone by the rest
\* of the restart: `crossed'.
TakeDisconnectCall(n) ==
    /\ NextCall(n, "disconnect")
    /\ LET c == thread[n].child
       IN  /\ ThreadBecomes(n, Child(Begun(n), Disconnecting(c), DisconnectReports(c),
                                     "disconnect"))
           /\ crossed' = (crossed \/ c.restarting > 0)
    /\ UNCHANGED stray

TakeSend(n) ==
    /\ NextCall(n, "send")
    /\ LET c   == thread[n].child
           ids == Head(thread[n].inbox).ids
           reply == WithIds(IF c.open THEN "sent" ELSE "notSent", ids)
       IN  /\ ThreadBecomes(n, [Begun(n) EXCEPT !.child = Holding(c, ids),
                                                !.outbox = Append(@, reply)])
           /\ stray' = IF c.state = "Established" THEN stray ELSE stray \union ids
    /\ UNCHANGED crossed

\* An answer to onDisconnect goes to the one that waits longest.
TakeAnswer(n) ==
    /\ NextCall(n, "answer")
    /\ LET t    == Begun(n)
           rest == [t EXCEPT !.waits = Tail(@)]
       IN  ThreadBecomes(n, IF Head(t.waits) = "restart"
                            THEN [rest EXCEPT !.child = Resumed(@), !.dump = 0]
                            ELSE [rest EXCEPT !.outbox = Append(@, Message("disconnected"))])
    /\ UNCHANGED <<stray, crossed>>

CloseSocket(n) ==
    /\ Runs(n) /\ thread[n].child.closing > 0
    /\ ThreadBecomes(n, Child(thread[n], ClosedDown(thread[n].child),
                              <<DisconnectReport>>, "disconnect"))
    /\ UNCHANGED <<stray, crossed>>

\* The reconnect timer, while there is no session.  Its seconds are longer than a
\* message takes from thread to thread.
IsIdle(n) == thread[n].inbox = <<>> /\ thread[n].outbox = <<>> /\ thread[n].waits = <<>>

Redial(n) ==
    /\ Runs(n) /\ thread[n].child.armed /\ thread[n].child.state # "Established"
    /\ SlowParent \/ IsIdle(n)
    /\ ThreadBecomes(n, RestartIn(thread[n]))
    /\ UNCHANGED <<stray, crossed>>

ChildRuns(n) ==
    /\ \/ TakeConnect(n) \/ TakeDisconnectCall(n) \/ TakeSend(n) \/ TakeAnswer(n)
       \/ CloseSocket(n) \/ Redial(n)
    /\ UNCHANGED <<socketVars, atemVars, promiseVars, accepted, wanted, doubled, counters>>

-----------------------------------------------------------------------------
(* The device and the network, as AtemLink shows them: sessions begin, deliver in
   order, acknowledge in order, and end *)

StartSession(n) ==
    /\ Runs(n) /\ thread[n].child.open /\ thread[n].child.state = "SynSent"
    /\ SlowParent \/ thread[n].child.restarting = 0
    /\ sessions' = sessions + 1
    /\ ThreadBecomes(n, [thread[n] EXCEPT !.child = InSession(@), !.dump = 0,
                                          !.session = sessions'])
    /\ UNCHANGED <<accepted, losses, crashes>>

InSessionAt(n) == Runs(n) /\ thread[n].child.state = "Established" /\ thread[n].child.open

\* The initial state comes in one batch or in two.
DumpBatch(dump) == CASE dump = 0 -> {{"version"}, {"version", "init"}}
                     [] dump = 1 -> {{"init"}}
                     [] OTHER    -> {}

Deliver(n) ==
    /\ InSessionAt(n)
    /\ \E batch \in DumpBatch(thread[n].dump) :
          ThreadBecomes(n, [thread[n] EXCEPT
              !.dump = IF "init" \in batch THEN 2 ELSE 1,
              !.outbox = Append(@, [type |-> "commands", batch |-> batch,
                                    session |-> thread[n].session])])
    /\ UNCHANGED <<accepted, sessions, losses, crashes>>

\* Packets are acknowledged in the order they were sent; what was sent outside a
\* session holds up what follows (it carries another session id).
Acknowledge(n) ==
    /\ InSessionAt(n)
    /\ \E last \in thread[n].child.inFlight :
          LET ids == {p \in thread[n].child.inFlight : p <= last}
          IN  /\ ids \intersect stray = {}
              /\ accepted' = accepted \union ids
              /\ ThreadBecomes(n, [thread[n] EXCEPT
                     !.child = Relieved(@, ids),
                     !.outbox = Append(@, WithIds("acknowledged", ids))])
    /\ UNCHANGED <<sessions, losses, crashes>>

HoldsUp(n) == thread[n].child.inFlight \intersect stray # {}

LoseSession(n) ==
    /\ InSessionAt(n)
    /\ losses < MaxLosses \/ HoldsUp(n)
    /\ losses' = IF losses < MaxLosses THEN losses + 1 ELSE losses
    /\ ThreadBecomes(n, RestartIn(thread[n]))
    /\ UNCHANGED <<accepted, sessions, crashes>>

DeviceStep(n) ==
    /\ StartSession(n) \/ Deliver(n) \/ Acknowledge(n) \/ LoseSession(n)
    /\ UNCHANGED <<socketVars, atemVars, promiseVars, stray, userVars, calls>>

\* A thread dies, or is killed because it froze; what it had to say is lost.  Bound:
\* none of two threads that were asked for at once does.
Crash(n) ==
    /\ Runs(n) /\ crashes < MaxCrashes /\ ~doubled
    /\ crashes' = crashes + 1
    /\ thread' = [thread EXCEPT ![n] = [NoThread EXCEPT !.life = "closed"]]
    /\ crossed' = (crossed \/ wanted # "connection")
    /\ UNCHANGED <<socketVars, atemVars, promiseVars, accepted, stray, wanted, doubled,
                   sessions, losses, calls>>

\* The rest of destroy runs before the next event of the parent.
ParentStep == \/ Connect \/ Disconnect \/ Destroy \/ SendCommands
              \/ \E n \in Threads : ThreadCreated(n) \/ ParentTakes(n)

Next == \/ ~DestroyGoesOn /\ ParentStep
        \/ FinishDestroy
        \/ \E n \in Threads : ChildRuns(n) \/ DeviceStep(n) \/ Crash(n)

Spec == Init /\ [][Next]_connectionVars

\* Both event loops go on, a thread that is asked for comes, the device answers,
\* delivers and acknowledges; it gives up a session in which packets can not be
\* acknowledged.
Fairness ==
    /\ WF_connectionVars(FinishDestroy)
    /\ \A n \in Threads :
         /\ WF_connectionVars(~DestroyGoesOn /\ ThreadCreated(n))
         /\ WF_connectionVars(~DestroyGoesOn /\ ParentTakes(n))
         /\ WF_connectionVars(ChildRuns(n) /\ ~Redial(n))
         /\ WF_connectionVars(ChildRuns(n) /\ Redial(n))
         /\ WF_connectionVars(DeviceStep(n) /\ (HoldsUp(n) \/ ~LoseSession(n)))

FairSpec == Spec /\ Fairness

-----------------------------------------------------------------------------
(* Properties *)

\* The parent's idea of the connection is never stale without news under way: while it
\* says CONNECTED, the child is in a session that delivered its whole initial state, or
\* the report of its end has been sent (atem.ts:140-146, 290-292, atemSocket.ts:131-173).
NewsOfEnd(n) == UnderWay(n, "disconnect") \/ thread[n].life = "closed"
                \/ thread[n].child.closing > 0

StatusIsCurrent ==
    status = "CONNECTED" =>
        \E n \in Threads : \/ /\ Runs(n) /\ thread[n].child.state = "Established"
                              /\ thread[n].dump = 2
                           \/ NewsOfEnd(n)

\* A connection that is announced has the whole initial state of its session, and
\* nothing of another (atem.ts:225-296); two threads, `doubled', would mix theirs.
ConnectedStateIsWhole ==
    status = "CONNECTED" /\ ~doubled =>
        /\ state.defined
        /\ \E s \in 1 .. sessions : state.parts = {s} \X {"version", "init"}

\* A promise that waits is waited for by someone: its packet is in flight, or the
\* acknowledgement or the end of the session is reported.  Excepted are the packets a
\* child got while it had no session, which its next reset drops without a word
\* (atem.ts:202-219, atemSocket.ts:124-128, atemSocketChild.ts:147-150).
PendingIsCarried ==
    \A p \in Pending \ stray :
        \E n \in Threads :
            \/ p \in thread[n].child.inFlight
            \/ NewsOfEnd(n)
            \/ \E i \in DOMAIN thread[n].outbox :
                  /\ thread[n].outbox[i].type = "acknowledged"
                  /\ p \in thread[n].outbox[i].ids

\* A destroy that was carried out leaves no thread, also when it overtook the creation
\* of the thread; it fails when the thread dies meanwhile, and it ends only one of two
\* threads that were asked for at once, `doubled' (atemSocket.ts:63-71, 76-90).
DestroyLeavesNothing ==
    wanted = "destruction" /\ destroying = "no" /\ ~crossed /\ ~doubled =>
        \A n \in Threads : thread[n].life \in {"none", "ended"}

\* A disconnection lasts, unless it crossed a restart, a thread died or there were two
\* of them (atemSocket.ts:92-98, atemSocketChild.ts:116-123).
DisconnectionHolds ==
    /\ wanted \in {"disconnection", "destruction"} /\ ~crossed /\ ~doubled
    /\ ~connecting /\ ~disconnecting /\ destroying = "no"
    => \A n \in Threads : Runs(n) => /\ thread[n].child.state \in {"Disconnected", "Closed"}
                                     /\ ~thread[n].child.armed

\* The promises implement their specification.
Promises == INSTANCE CommandPromises WITH
    outcome <- [p \in Packets |->
                  CASE promise[p] = "none" -> "none"
                    [] promise[p] \in {"sending", "pending"} -> "waiting"
                    [] promise[p] = "resolved" -> "done"
                    [] OTHER -> "lost"]

\* A packet's promise is settled once and for good, as done only when the device
\* accepted it (atem.ts:202-219, 298-314).
KeepsPromises == Promises!Spec

\* Every packet's promise is settled, save those excepted in PendingIsCarried.
PromisesSettle ==
    \A p \in Packets : promise[p] \in {"sending", "pending"}
        ~> promise[p] \in {"resolved", "rejected", "failed"} \/ p \in stray

\* A user that wants a connection gets one, whatever is lost or dies
\* (atemSocket.ts:165-170, atemSocketChild.ts:94-107).
GetsConnected == wanted = "connection" ~> status = "CONNECTED" \/ wanted # "connection"
=============================================================================
