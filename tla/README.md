# sofie-atem-connection in TLA+

Models, model checking and proofs for the library in `src/`, which controls Blackmagic
ATEM switchers from Node.js over their UDP protocol. Line numbers below refer to `src/src/`.

## 1. Inventory

| part | state | operations | works with |
|---|---|---|---|
| **connection child** `lib/atemSocketChild.ts` | UDP socket, connection state, session id, next and last packet id, packets in flight, three timers, acknowledgements owed | `connect`, `disconnect`, `sendPackets`, reception of a datagram, retransmit, reconnect and acknowledgement timers, restart | runs in a worker thread; calls `onDisconnect`, `onCommandsReceived`, `onPacketsAcknowledged` in the parent, and awaits only the first |
| **socket wrapper** `lib/atemSocket.ts` | the worker thread, address, tracking ids, protocol version | `connect`, `disconnect`, `destroy`, `sendCommands`, parsing of received payloads, a thread that restarts or closes | calls the child, emits events to BasicAtem |
| **BasicAtem** `atem.ts:110-315` | connection status, ATEM state, promises of the packets sent | `sendCommands`, settling of promises by tracking id, application of commands to the state | socket wrapper, transfer manager, state |
| **Atem** `atem.ts:317-` | none | one method per command | BasicAtem |
| **transfer manager** `dataTransfer/index.ts` | queues (stills, one per clip, labels, macros), interval, transfer ids | start and stop with the connection, dispatch of commands to queues, one method per transfer | BasicAtem, queues |
| **transfer queues** `dataTransfer/dataTransferQueue.ts` | tasks, active transfer, lock, a p-queue of handlers | enqueue, start, abort, handle a command, pop commands, lock obtained or changed | manager, transfers |
| **transfers** `dataTransfer/dataTransfer*.ts` | data, how much of it is sent or received, a promise | start, restart, handle a command, abort | queue, sources of frames given by the user |
| **packet builder** `lib/packetBuilder.ts` | packets filled so far | add a command, get the packets | socket wrapper |
| **command parser** `lib/atemCommandParser.ts` | protocol version | choice of a command class | socket wrapper |
| **converters** `lib/converters/` | none | run-length coding, RGBA to YUV, WAV | transfers |
| **tally** `lib/tally.ts` | none | sources visible in programme or preview, through nested mix effects | state |
| **state** `state/`, **commands** `commands/`, **enums** `enums/` | the state of the switcher | each command serialises, deserialises and applies itself | BasicAtem |
| multiviewer labels, video modes | none | rendering, a table | Atem |

### What is hard

* **An unreliable network.** The child numbers packets with 15 bits, acknowledges
  cumulatively, resends, reorders nothing itself and must recognise what is old, repeated or
  early - across the wrap of the ids and across sessions.
* **Awaits in the child.** `restartConnection` and `disconnect` give the event loop away in
  the middle (lines 119, 122, 143); calls, datagrams and timers come in between.
* **Timers that watch.** Whether a loss is ever noticed depends on one of several timers
  running, each set and cleared in several places.
* **Two threads.** The parent's calls and the child's reports cross; a thread can die, freeze or
  still be in the making when the next call comes.
* **A state built by a hundred commands.** Each makes, completes or replaces some object of the
  state, says which paths it changed, and must leave alone what another told.
* **A lock shared with other clients.** A media pool can be locked by another client, taken
  away, or granted after the transfer that wanted it has gone.
* **Handlers with awaits, run one at a time.** A transfer can be aborted, its id can change
  and another can begin while one of its handlers waits for a frame.
* **Loss of the connection** in the middle of all this: queue, handlers, promises and device
  forget at different moments.

`PROJECT.json` lists these one by one under `hazards`, each at its line.

### What makes each part correct

* child: commands are delivered in order and once; what is acknowledged was executed; ids in
  flight are contiguous; timers watch what they must; a disconnection lasts; a lost connection
  is reported and comes back.
* socket wrapper and BasicAtem: every promise of a command settles once, by the
  acknowledgement of its own packet or by the loss of the connection; no reconnection after
  `disconnect` or `destroy`.
* transfers: no request without the lock; the lock returned when idle; data whole and in order;
  a promise resolves only when everything is done, and every promise settles.
* packet builder, run-length coding, chunks: what comes out is what went in, within the size.
* command parser: the class for the version the device speaks, from the first command after it.
* tally: the least set closed under "is shown by".
* state and commands: a client in touch has what the device has, whatever order its commands
  came in; nothing that does not exist is made; a listener that follows the paths has the state;
  a call changes only what it names.

## 2. Modules

```
PacketIds ── AtemSocketChild ── AtemLink ── MCLink        DataTransfers ── DataTransferQueue
                   └── MCChild ───┐ implements                                │
ChildSteps ── ChildContract ◄─────┘                                 MediaPool ── MCPool
    └── AtemConnection ── MCConnection        MixEffectCommands ─┐
             │ implements                     VideoCommands ─────┤
        CommandPromises              StateTree ── AudioCommands ─┼─ AtemMethods ── DeviceParts
                                              DeviceCommands ────┘       AtemStore ──┘
                                                                            └── MCStore
CommandPackets, UploadChunks, Tally ── MCAlgorithms

Proofs:  AtemSocketChildProofs ── AtemLinkProofs     AtemConnectionProofs ── AtemSessionProofs
         MediaPoolProofs ── PoolLockProofs ── PoolDataProofs ── PoolEndProofs
```

In each module an operator that precedes the one it resembles is a slip that one invites, named
in `mutants` of `PROJECT.json`: a run must fail with it in place of the other.

### The connection

**`PacketIds`** - the arithmetic of packet ids: the successor, the advance of
`_nextSendPacketId` by several sends, `_isPacketCoveredByAck`. `MaxPacketId` is the code's
constant (2^15), here any even number from 2 on.

**`AtemSocketChild`** - one variable per field of the class, one action per entry of the event
loop: `Connect`, `Disconnect`, `SendPackets`, `ReceivePacket`, `ReceiveMalformed`,
`AckTimeout`, `RetransmitTimerIdle`, `RetransmitOverdue`, `GiveUpOverdue`, `Silence` (time
passes without reception) and `ReconnectTick`, `SocketError`; and one per continuation of an
`await`: `SocketClosed` (the close callback in `disconnect`) and `ResumeRestart` (the parent
answered `onDisconnect`). Sockets are numbered; `openSockets` are those not closed. What a step
sends is left in `sending` and `posting`. Time is abstracted: a timer that runs may fire.
On its own (`Spec`) the module runs among arbitrary devices: any datagram in any state, except
that a session starts only on a socket a HELLO was sent from; and any parent, except
that the packets it hands over have tracking ids of their own (`AreNew`: `AtemSocket` counts them).
Two constants say how the parent behaves. `Overlap`: it may call `connect` or `disconnect`
while a `disconnect` waits for its socket to close (the API allows it, the tests do not do it).
While a *restart* waits for `onDisconnect` (line 143) every parent may call, whoever began the
restart: a parent that awaits its own calls does not know of one that a timer or a datagram began.
A `disconnect` that comes then is undone by lines 148-157; `crossed` says that it did, and
`DisconnectionLasts` excepts it. `SlowParent`: the answer to `onDisconnect` may take longer than a
HELLO and the device's answer, or than packets are given up after.

**`AtemLink`** - the child, a network that loses, repeats and reorders, and a device (external;
modelled from what the child sends to it and expects of it). Datagrams do not live for ever:
one is gone when its sender is `Lifetime` packets further. Without such a limit no protocol
with ids that wrap works; `Window + Lifetime <= Tolerance + 1` is what this one needs. `LateHello` lets
the network repeat or delay the answer to a HELLO too; `StaleHello` lets a HELLO reach the device
when the child already has its answer, so that a device that lost its session answers it again.

**`ChildSteps`, `ChildContract`** - the child as its parent sees it: six fields, and what a call,
an answer, a datagram or a timer may make of them, with the reports each step makes.
`AtemSocketChild` is shown to implement it (`KeepsContract` in `MCChild`, the mapping takes the
tracking ids of what is in flight and forgets the protocol). The composition of the threads is
built on these steps alone, which keeps it small enough to check.

**`AtemConnection`** - the socket wrapper and BasicAtem in the parent, the child (`ChildSteps`)
in a worker, a queue of messages each way. Parent: `Connect`, `Disconnect`, `Destroy`,
`SendCommands` up to their awaits, `ThreadCreated` and `FinishDestroy` after them, and one
action per message of the thread: `TakeDisconnect`, `TakeCommands` (`_mutateState`),
`TakeAcknowledged` (`_resolveCommands`), `TakeSent`/`TakeNotSent` (the await of
`sendUnprioritizedCommands`, after which the promise is entered), `TakeDisconnected`, and
`TakeClosed` and `TakeRestarted` (`thread_closed` and `restarted`). Worker: the calls it takes, the
close callback, the reconnect timer. Device: sessions start, deliver their initial state in one
or two batches, acknowledge in order, end. Threads come from the library threadedclass, which
is outside the repository: it is modelled from how `atemSocket.ts` uses it. A thread that dies
loses its messages, fails the calls it did not answer, and is made again.
`Overlap` lets the user connect while other connects and disconnects are unfinished. A connect
while a thread is being made asks for a second one (lines 63-66), overwrites `_creatingSocket`, and
a later `destroy` ends one of the two: `doubled` says that this happened, the properties that then
fail except it by name (section 5), all others are checked of two threads too. Left out are a
connect while a destroy is unfinished (section 5), a disconnect or destroy while another is
unfinished, a disconnect of a user who did not connect, and the death of a thread after `doubled`.
The state of the device is reduced to which parts of which session were applied to it.

**`CommandPromises`** - the abstract specification of sending: a packet waits, is settled once
and for good, as done only if the device accepted it. `KeepsPromises` maps `sending` and
`pending` to waiting, `rejected` and `failed` to lost.

### The media pool

**`DataTransfers`** - what an upload, a download and a clip answer to the device, as operators
from the transfer's fields to its `ProgressTransferResult`. Data is counted in chunks. Uploads of
stills, audio, labels and macros differ only in fields of the request and are one kind.

**`DataTransferQueue`** - one queue, with the lock (`DataTransferLockingQueue`) or without
(`DataTransferSimpleQueue`). Its fields are one record, its methods operators on it, so that
a method calls another in the code's order; entry points are actions. `running` is the handler
that runs in the p-queue of concurrency 1, split at its awaits: `Begin...` runs to the first,
`Resume` from there. A wait for nothing but the microtask queue (`"store"`, `"return"`) is over
before the next event; only commands of the same batch and the user's own calls come in
between. A wait for a frame of the user's source (`"firstFrame"`, `"nextFrame"`) lasts.

**`MediaPool`** - the queue; the manager, that starts it at InitComplete, stops it at a loss and
sends on an interval; the connection, as FIFO channels that lose everything at a loss (what
`AtemLink` shows of it), with the interval in which the socket is closed and the client does
not know yet; the device with its lock; and another client that takes it. `EarlyTransfers` lets
the user enqueue before InitComplete, which the API allows.

### The state

**`StateTree`** - the state object as the function from the paths of its leaves to values. What
`applyToState` does is a sequence of steps: need an index below a count, need an object, make it
if it is missing, complete it, assign it, spread over it, delete it. A received command is its
steps and the paths it returns; a writable one is the set of properties behind each flag of its
mask, and `Sent` is what `serialize` then sends, defaults included.

**`MixEffectCommands`, `VideoCommands`, `AudioCommands`, `DeviceCommands`** - every command class
of `commands/`, one definition each, and the shapes of the objects of `state/`, one set of names
each. **`AtemMethods`** - every method of `Atem` that builds a command, with its choice of class
by protocol version. **`DeviceParts`** - thirty parts of a device (a mix effect, a keyer, the
outputs, a Fairlight source, the recorder, ...): the commands that tell of it, in the order the
device keeps, the methods that change it, what takes it away, commands about what does not exist.

**`AtemStore`** - `_mutateState`: batches of commands applied to the state, `connected`,
`stateChanged`, a listener that copies what is under the paths it is given; the device that
introduces itself, is operated, obeys a caller, loses something or talks nonsense; sessions that
are lost (the state goes) or replaced by another (it stays until the next version). A behaviour is
about one of the parts, with all others left out: commands of different parts share no object.

### Algorithms

**`CommandPackets`** - `sendCommands` from the groups of a batch through `PacketBuilder` to
packets, and `_parseCommands` with the class `CommandParser` chooses; bytes are lengths. The
client's batches are packed; the device's are packed the same way (external) and parsed.
**`UploadChunks`** - run-length coding over blocks of 8 bytes and `getNextChunks`, with a chunk size
that may change each time; the reference is `decodeRLE`, chunk by chunk.
**`Tally`** - `listVisibleInputs`, pass by pass; the reference is reachability.

## 3. Runs

| run | question | bounds |
|---|---|---|
| `child_any` | Do the child's own invariants hold whatever happens, and does it implement `ChildContract`? | ids mod 4, all 16 combinations of flags, one packet in flight, 3 packets per acknowledgement, 2 sockets, 2 calls, `Overlap`, `SlowParent` |
| `link_data` | In order, once, honest - through two sessions? | 2 packets out (also as one batch), 3 in per session (one a keep-alive), 2 sessions, 2 sockets, 2 calls, ids mod 10 |
| `link_wrap` | Across the wrap: is what is in flight an interval, does an acknowledgement settle only what it covers? | ids mod 6, 7 packets each way, so that the ids of both sides come round once; no `StaleHello` (section 5) |
| `link_live` | Does the connection come back, and does everything settle? Does a disconnection last, with no socket left and every loss reported? | 3 sockets, 3 sessions, one packet with one retry, 3 calls, also while a restart waits |
| `threads` | Do status, state and promises follow the child through ended sessions, dead threads, overlapping calls? | 2 threads, 2 packets (one per call), one session ended by the network, one crash, 3 calls with `Overlap`; at most 5 of these, and of doubled threads, in one behaviour (`FewEvents`) |
| `pool_transfers` | One client: is the lock held when needed and returned after, is the data whole, is done done? | a still, a clip of 2 frames and a download of 2 chunks each, a source that may throw, one loss |
| `pool_contended` | Another client, a device that revokes the lock and fails: does every transfer end, does none of one file go on without the lock? | a clip and a download, one takeover, revocation, error and loss each, early transfers |
| `store` | For each part: does the client have what the device has, the listener what the client has, and nothing else? | 30 parts, 2 changes, calls, strays, deletions or lost sessions, 2 commands in transit in any grouping |
| `algorithms` | Are batches, uploads and tallies right? | every batch of up to 4 of 7 kinds of commands, one of them larger than a packet, in 5 groups, in packets of 32 bytes at 3 versions; every source of up to 11 blocks of 2 values in chunks of 3, 4 or 5 blocks; 23040 worlds of 2 mix effects, keyer, SuperSource |
| `link_late_hello`, `pool_lost_lock`, `store_reports` | violations, section 5 | |

Why the bounds are enough. The child compares ids only with the last received one, or with one
in flight: what matters is which of them are equal, before or after, within a window, and whether
the wrap lies between; 6 ids with a window of 2 have every such case. Two sessions on two
sockets give every pair of old and new. Two threads are one that `destroy` ended and one a later
`connect` makes, or two made at once; three calls are connect, disconnect or destroy, and connect.
`FewEvents` leaves out behaviours with six or all seven of the calls, packets, losses and crashes; the
invariants of `threads` hold with six too (3.5 million states). The groups -2, -1, 0, 2 and 10 have
every way in which texts sort unlike numbers. Three transfers give a
next transfer to an active one with one waiting; two frames give a first, a next and a last.
`MaxTransferIndex` is large enough for no id to be used twice: `StoreResult` recognises a transfer
by its id alone, and the 65536 ids of the code do not come round while a handler waits. In the
store values are opaque and a command treats all alike: two changes give each pair of a part's
commands in each order. Every count is 1, so index 0 exists and 1 does not. The coder looks at a
block and the one before, with runs from 4 on; 11 blocks hold two runs with a stretch between, and
runs that end in, before and after a chunk of each size.

Values of RLE_HEADER are not among the blocks of a source: raw data that contains it cannot be
decoded, which the format shares with the device. Chunks are of 3 blocks or more: of less, the
code makes no progress or reads before the buffer (section 5).

`MaxPackets` of `threads` counts calls of one packet; batches of several are in `link_data`.
`SlowParent = FALSE` there says that a message between threads is faster than a HELLO and its
answer, and than the reconnect interval.

Deadlock is not checked: every instance ends when its bounds are used up.

**Fairness.** `FairLinkSpec`: timers that run fire (Node's event loop), `onDisconnect` and the
close callback return, the device answers a HELLO while the child waits for it (not one that
lingers in the network), and an answer sent again and again is once delivered. Of the network
nothing else is assumed: `PacketsSettle` needs no delivery at all.
A silence is fair only while the device does not talk to the socket in use. Both properties
except the states in which the model has no socket or session left to use.
`FairSpec` of `AtemConnection`: both event loops go on (messages are taken, `destroy` continues),
a thread that was asked for comes and one that died is made again (threadedclass' autoRestart),
the reconnect timer fires, the device answers, delivers and acknowledges; it gives up a
session in which a packet cannot be acknowledged, which is what `AtemLink` shows of it after ten
retries. `FairPoolSpec`: the event loop
goes on (handlers, interval, reception), a connection that closes is reported and made again,
the device answers and the other client returns the lock some time. That the user's source
provides its next frame is part of the first: section 5 says what happens when it does not.

## 4. Proofs

`tlapm` checks the following for all values of the constants that satisfy the named assumptions of
the modules, with no bound on the number of sockets, sessions, packets, threads or calls. A
theorem that needs more says so in its statement, and below.

### Packet ids (`AtemSocketChildProofs`, first section)

`CoveredIsHalfLap`: `_isPacketCoveredByAck`, with its three cases, is "less than half a lap behind";
`CoveringIsAntisymmetric`: so no two ids are each before the other. From `PacketIdAssumption` alone
(an even number of ids). Further lemmas say when ids compare as the numbers they stand for.

### The child (`AtemSocketChildProofs`)

* `TypeCorrect`. Inductive as it stands; the step is split by action.
* `AckTimerAlwaysHasSocket`, `InFlightAlwaysWatched`, `AckAlwaysOwed`, `ConnectionAlwaysWatched`:
  the invariants of `child_any`, with parents that overlap and are slow. They share one inductive
  invariant, `WatchInv`: the type invariant, the first three properties, and two facts in place of
  the fourth, which is not inductive: the state may become Established on any socket that said
  HELLO, so the timer must be known to run before the state says that a connection is being
  opened. `GreetedIsWatched` says so - the reconnect timer runs from the HELLO until the socket is
  given up - and `ConnectedWasGreeted` that a connection is open only after a HELLO.
* `NoSocketIsOrphaned`, `DisconnectionAlwaysLasts`, `LossIsAlwaysReported` (an action property): for a
  parent that waits for its disconnects (`~Overlap`) and is not slow, but calls whenever it likes
  while a restart waits. `RestInv`: a closed socket was closed by a disconnect, after which no
  timer runs and no restart waits unless the two crossed (`Rested`); at most one restart waits, and
  never in a session that it would drop unreported (`AbandonedIsSilent`).
* `ContractIsKept`: the child implements `ChildContract`, with all parents. The mapping turns packets
  into tracking ids, so `DistinctIds` is needed: no two packets in flight have the same one.

### Child, network and device (`AtemLinkProofs`)

* `ChildInLink`: `LinkSpec => Spec`. The child in the link is the child on its own, among particular
  devices and a parent that numbers its packets, so that every theorem above holds there.
* `DeliveredAlwaysInOrder`, `AcksAreHonest`: what the parent is given in a session is what the device
  sent, in order, once, and what the device takes for acknowledged was given. For `~Overlap`,
  `~SlowParent` and `~LateHello` (`link_late_hello` shows why).
* `InFlightAlwaysContiguous`, `AlwaysExecutedInOrder`, `AcknowledgedAlwaysExecuted`: the same in the
  other direction; also for `~StaleHello` (section 5 shows why). `link_wrap` satisfies all
  hypotheses, `link_data` those of the first two.

The argument has three layers. `SessionInv`: child and device talk of one session at a time - no
session is known that the device did not start, a HELLO's answer under way is newer than all that
is left of other sessions, and after it both ends have the same. `ReceiveInv`: behind every id
under way stands the *number* of a packet in its session. Those the device sent are numbered to
`sent`, the parent has those to `got`, `got <= sent <= got + Window`; a datagram under way is less
than `Lifetime` behind `sent`, an acknowledgement less than `Lifetime` behind `got`. With
`Window + Lifetime <= Tolerance + 1` all numbers that are ever compared lie within half a lap, so
the ids compare as the numbers do - which is the one place the wrap matters. `SendInv` is the
converse for the packets of the child: those after the first `low` are in flight, the device
accepted the first `k`, `low <= k <= order`. There it is also needed that no session begins in a
session (`OneBeginning`), and that a socket without a session holds no acknowledgement (`Unheard`).
Existential numbers in place of auxiliary variables keep the model as it is.

### The two threads (`AtemConnectionProofs`, `AtemSessionProofs`)

For every number of threads, calls and crashes, slow threads or not, and for users whose connects
overlap their other calls (`Overlap`), but for what is said below. Two threads asked for at once
are excepted by the properties themselves: `ControlInv` and what follows from it is shown of
behaviours before `doubled`, or of those without it.

* `ThreadsAreOrderly`: the types of all variables, and `Orderly`: in every thread the answers under
  way or still to be asked for are as many as the calls of `onDisconnect` that wait, so an answer
  reaches the restart or disconnect it was meant for. It is counting in queues (first section of the module).
* `DestroyAlwaysLeavesNothing`: with `OneThread` (at most one thread lives or is being made, and the
  parent knows it), `Owed` (a thread has no disconnect to finish but the one the parent awaits) and
  `IsDestroyed` (a destroy that is over left no thread).
* `PromisesAreKept`: `Spec /\ []~doubled => KeepsPromises`, the refinement of `CommandPromises`, step
  by step; `NeverDoubled` gives the hypothesis for a user that waits (`~Overlap`). The
  invariant `Carried`: a packet is handed over at most once; an acknowledgement under way names
  packets the device accepted; a packet in flight in a session is `Awaited` - its promise is
  pending with no end of session under way, or entered by a message that comes after all ends.
* `DisconnectionAlwaysHolds`: `PartInv`. When the user wants no connection, every thread is at rest
  or has a disconnect in its queue with no connect behind it.
* `ConnectedStateIsAlwaysWhole`: `WholeInv`. The rest of an initial state comes right after the
  version of the same session, in the queue or as the last that the parent has heard; ends and
  other versions cannot come between.
* `StatusIsAlwaysCurrent`, `PendingIsAlwaysCarried`: for `~SlowParent` (TLC finds the first to fail
  otherwise: the rest of a restart that resumes late drops the next session without a word) and
  for `~Overlap`; the run checks them with `Overlap`, two threads included.

The last two share the invariant `NewsInv`. What the parent believes it has read, or is about to
read: so for each thread it says of the last message that ends an initial state, and of the answer
that a packet was sent, that with no report of an end *behind* it in the queue (`Latest`) it is
still true - the child has its session and all of it (`HasAll`), or carries the packet in flight
or as an acknowledgement *behind* that answer (`Carries`). `Fit` is the child's side: a session
has a socket, or one that is being closed, and no restart waits in it. The hard part is the one
report that is missing: `disconnect` closes the socket first, and reports from the close
callback. `Leaving` follows such a disconnect from the parent's queue through the callback and
the wait to its answer: no later connect can come between, so when `disconnecting` ends, the
parent believes in nothing any more (`LeftIsSettled`) - which is what `destroy` relies on when it
takes the thread away.

### The media pool (`MediaPoolProofs`)

* `NothingIsLeftRunning`: a transfer with a pending promise is active or to be run.
* `LostLockAlwaysAborts`: a file whose lock is lost is over, waits for it, or has its abort queued.
* `PromisesAreFaithful`, an action property: a promise settles once, and what is active or to be
  run leaves the queue only settled.
* `FilePoolsAreInOrder`: all three where there are no clips (stills' uploads, macros, labels,
  downloads), with `LostLockAborts` in place of its restriction to files.

The device of the model may send any command at any time as far as these proofs are concerned: they
use nothing of it, of the other client or of the connection but that the queue's entry points are
called. The invariant `Good` has five parts besides types: `Kept` (a transfer that began is settled
or held), `FinishedIsSettled` (the active transfer is "Finished" only with its promise settled),
`StoreIsSettled` (so is one whose running handler is about to say so), `OwnFrame` (a handler that
waits for a frame and finds a transfer under its number finds its own), `LosesFile`.
A handler finds its transfer by its id alone, so this rests on ids: `Numbered` says how
far the next id is ahead of the active transfer's and the running handler's. A wait for the
microtask queue lets at most one clear and one new transfer in between, so four ids
(`MaxTransferIndex >= 3`; the code has 65536) are enough there. A wait for a frame of the user's
source may last, and reconnections may bring any number of transfers meanwhile: that the ids have
not come round to the one that waits is the hypothesis `FrameIdIsFree` of the first three, and
TLC finds it true in the instances of both runs of the pool. Without clips it is not needed.

### The lock of a pool (`PoolLockProofs`)

* `RequestsAlwaysHoldLock`: no transfer is requested from the device without the lock.
* `LockIsAlwaysReturned`: when all is done and nothing is under way, the client has no lock.
* `LockIsAlwaysHeld`: while a connection is up, a client that believes to have the lock has it.

Here the device and the channels matter. For the queue, `Calm` says when it has nothing left to ask
or to give back, and a lemma for each of its steps says what it sends. For both ends of the
connection, `LockInOrder`: what travels to the device is `Covered` (requests go out while the client
holds the lock and before they return it, and nothing follows a request for the lock), and both
ends `Agree`: what the client believes and what the device does differ only by what is on its way -
the lock asked for, granted, or given back - and it is asked for once per active transfer. A
grant is told twice, by LockObtained and by the LockState after it; the second must not reach a
queue that gave the lock back meanwhile and would take it for its own again: until it is read, the
transfer is `Young`. That holds only if no answer meant for an earlier transfer can end it, so a
transfer that waits for its lock has a `NewNumber`, one that nothing under way carries.

The hypotheses. `Alone`: a lockable pool, no other client and no revocation, no transfer before
the connection is complete (section 5: each of these fails one of the properties), and four ids.
Connections may be lost, sources and transfers may fail, the device may refuse or retry, the user may
abort. And two about ids that come round, `FrameIdIsFree` as above and `NextIdIsNew`: the number
the next transfer gets is not on its way. With 65536 ids both need as many transfers while one
answer or frame is awaited; with one id alone (`MaxTransferIndex = 0`) `RequestsHoldLock` fails. TLC
finds all three of `LockInOrder`, `FrameIdIsFree` and `NextIdIsNew` true in the instance of
`pool_transfers`, and with an error of any kind and two losses.

### The data of a pool (`PoolDataProofs`)

* `DataIsAlwaysWhole`: what the device stores of an upload is its data from the first chunk on,
  described before, with other clients, revoked locks, lost connections, refusals and aborts.

The device sees only commands, so the invariant joins three things: what the client said or is about
to say (`Way`: the commands under way, those queued, and those of a handler that still runs), what
the device is at, and what it answered and the client did not handle yet. For every transfer they
are one `Dialog`: a request, which nothing said before is about; the chunks after it; the end, after
which nothing is; between them, the count of bytes sent is that of the last chunk on the way or,
if none is, of those the device has (`Reaches`). The ways of consecutive transfers are `Chained`:
each chunk follows the one before it of the same transfer. `Talks` says so of the active transfer,
and that the others have not begun or are over; `InTalk` adds channels and device. The first part of
the module shows what keeps a dialog up: a command more, an answer less. The second goes through the
handlers of `DataTransferQueue` one by one, the third through the events of `MediaPool`.

The hypotheses. The device asks for no retry (`"Retry" \notin Errors`): the code restarts the request
without the count, and the property fails (section 5). `FrameIdIsFree` as above, and
`NextIdsAreUnused`: no side still speaks of the next two numbers. TLC finds it, and `InTalk`, true
with the bounds of `pool_contended` and eight ids, where it is no restriction; with few ids a number
comes round while its last transfer is still spoken of.

### The ends of a pool's transfers (`PoolEndProofs`)

* `ResolvedIsAlwaysDone`: a promise resolves only if all of the transfer is done - every frame of a
  clip is stored, the data of an upload is there, every chunk of a download arrived once.
* `ResolvedAloneIsDone`: the same of a client that has the pool to itself, with fewer hypotheses.

`InTalk` says that the commands of a transfer come in order; what they add up to is the second
invariant, `InTells`. It relates the fields of every transfer to what the device stored. `Account` is
what was counted: a clip stored at most the frames taken from its source, and resolves when that is
all of them. `Asked`: the device is asked for frames that were taken, and is at one of them. `Course`
is for the active transfer: of a clip all frames but the last one taken are stored, and that one too
once its "complete" is on its way; while a handler waits for the next frame, all of them
(`TakenStored`). A download is a game of turns, `Alternates`: one chunk, or one acknowledgement, or
the request is under way, never two of them, and the chunks the device sent, less the one on its
way, are those the client counted. First it is shown that all this stays true when less is under
way (`LessTells`); then each handler, each event and each step of the device is gone through.

The hypotheses, besides those of `DataIsWhole` (no retry, which a download would resolve with the
data of both attempts; ids that did not come round). `Sized`: no download has no chunks, since the
device sends a first one before it counts. Where there are clips, the device reports no error
(`ClipsMeetNoError`) and is not asked for a frame without the lock (`ClipsAreHeld`), which it
would refuse: the code goes on to the next frame after one that failed, and the property fails
(section 5). Without clips both are void, and other clients, revocations and errors are allowed. For
a client alone `ClipsAreHeld` is what `RequestsAlwaysHoldLock` proves, which gives the second theorem.

### Only model-checked

* `RequestsHoldLock`, `LockIsReturned`, `DataIsWhole` and `ResolvedIsDone` of the pool where the
  hypotheses above do not hold and the properties still do.
* The store and the algorithms: what folds and recursive functions compute for every input is
  induction over data, out of the prover's reach.
* Everything temporal under fairness: `PacketsSettle`, `Reconnects`, `PromisesSettle`,
  `GetsConnected`, `TransfersSettle`.

## 5. What was found

Each of these is a `violation` run, with the property the code's own comments or tests state.

* `link_late_hello` - `atemSocketChild.ts:256` handles a NewSessionId packet in every state. One
  that the network repeats resets `_lastReceivedPacketId`, and commands are emitted again.
* `pool_lost_lock` - the abort of a lost lock is queued with the id of the frame that was
  active; when the next frame comes first the id is another, and the clip goes on unlocked.
* `store_reports` - changes that no path names: the equalizer and dynamics in
  `FairlightMixerSourceUpdateCommand`, the disks in `RecordingDiskInfoUpdateCommand` (which names the
  duration), the multiviewers in a `TopologyCommand` that comes again. `ListenersFollow`, checked by
  `store`, says that there are no others.

Seen while choosing the bounds, by changing one constant of a listed run:

* `pool_contended` with `RequestsHoldLock`: `updateLock` (`dataTransferQueue.ts:272`) takes the
  pool's lock for the client's own. After another client locked the pool, a transfer is requested
  without a lock and refused; and if that client unlocks while a lock is awaited, the waiting
  transfer is aborted and its lock, granted later, kept. (A request that crosses a revocation fails
  the property too, and no client could avoid it.)
* `pool_transfers` with `Errors` and `MaxErrors = 1`: a frame the device refuses counts as uploaded
  (`dataTransferUploadClip.ts:80`); the clip resolves (`ResolvedIsDone` fails). With
  `Errors = {"Retry"}`: an upload restarts its request but not `#bytesSent` (`DataIsWhole` fails); a
  download keeps its data and resolves with both attempts if `MaxDownload` allows.
* `pool_contended` with `SourceMayFail`: a source that throws (a frame of the wrong size is enough)
  or has no frames leaves its transfer active for ever (`dataTransferQueue.ts:144`), and all that
  wait behind it (`TransfersSettle` fails).
* `pool_transfers` with `EarlyTransfers`: a transfer aborted at InitComplete while it waits for its
  lock leaves the lock, granted later, with the client (`LockIsReturned` fails).
* `link_live` with `SlowParent`: a restart that resumes late drops a session that was started
  meanwhile, and no one is told (`LossIsReported` fails). With `Overlap` a call that comes while a
  disconnect waits for its socket to close leaves a socket open (`NoOrphanSocket` and
  `DisconnectionLasts` fail).
* `link_live` with `DisconnectionLasts` without its exception `crossed`: a retransmission, a timer
  or an earlier `connect` begins a restart, it waits for `onDisconnect` (`atemSocketChild.ts:143`),
  `disconnect` comes and clears the timers; the rest of the restart sets the reconnect timer again
  (lines 148-157), and the child connects against the wish of a parent that awaits each of its calls.
* `threads` with `DestroyLeavesNothing` without `doubled`: `connect`, `disconnect`, `connect` while the
  first thread is being made, or two connects, make two threads; `destroy` ends one and the other
  stays, with nobody to end it. Without it too, the two mix the states of their sessions
  (`ConnectedStateIsWhole` fails), and a disconnect reaches one of them (`DisconnectionHolds` fails).
* `threads` with `Connect` allowed while a destroy is unfinished: the thread is ended under the new
  connection, `_socketProcess` is undefined and nothing reports it; the status stays CONNECTED and
  promises wait for ever (`StatusIsCurrent`, `PendingIsCarried` fail).
* `link_wrap` with `StaleHello`, `MaxSessions = 2`, `MaxPacketPerAck = 1`, `MaxBatch = 1` and
  `MaxDevSends = 0`: a device that lost its session answers a HELLO that lingered, and
  NewSessionId in state Established (`atemSocketChild.ts:256`) resets neither `_inFlight` nor
  `_nextSendPacketId`. The next packet is numbered on from the old session; more than half a lap
  ahead of the new one, it is taken for acknowledged by the device's first AckReply, with id 0
  (`AcknowledgedWasExecuted` fails). `_inFlight` keeps what the old session did not acknowledge.
* `pool_transfers` with `MaxTransferIndex = 0`, where all transfers have one id: a result is stored
  with the transfer that began meanwhile (`LostLockAbortsFile` fails). It shows what the proofs
  of the pool need ids for (section 4), not a case of the code's 65536.
* `algorithms` with `SentInOrder` without `SortLikeNumbers`: `sort()` compares numbers as strings, so
  -1 goes before -2, and 10 before 2 (`CommandBase.ts:29` says "Lower values run earlier"). No
  command of the library sets a group of its own. What the property asks of such groups is that
  their commands are not mixed and keep their order.

The properties except what these say, by name, and the model has it:

* `link_live`: a disconnection that crosses a restart (`crossed`).
* `threads`: packets handed to a child that has no session are dropped by its next reset, and their
  promises wait until a later disconnection (`stray`); a disconnection that crosses a restart is
  undone by it, and a thread that is made again connects whatever the user wants,
  `atemSocket.ts:165` (`crossed`); two threads asked for at once (`doubled`). That `sendUnprioritizedCommands` awaits `allSettled`, so that the
  caller is not told of a rejection, is outside the mapping: `KeepsPromises` is about the packets.
* `store`: the index and the source of the Fairlight monitor's solo share a flag (intentionally, the code says), so that asking
  for one sends the other's default (`Shared`).
* `algorithms`: `while (buffer.length > 8)` leaves a last command without a body unread (`Lost`).

Read on the way, with no run: `FairlightMixerInputV8Command` has minimum version 8.1.1 but
`atem.ts:1084` chooses it from 8.0 (the store's Fairlight parts speak 8.1.1, so that neither this
nor the older class, whose flag `rcaToXlrEnabled` has no place in the state, is run); before a state exists the methods choose the oldest class; a
`PowerStatusCommand` before the model is known is lost; aux, colour, input and clip indexes are
not checked against the device's counts; the Fairlight source equalizer and dynamics make an
empty source if there is none; `generateUploadBufferInfo` encodes the caller's object and
returns the copy it took before; `tally.ts:11` adds a missing mix effect to the caller's state
(`Tally` reads its defaults and leaves `world` as it is). That `tally.ts` passes over settings that
no command told yet (lines 61-64, 72, 93, 98, 114, 119) is left out: `Tally` is about a state that is
complete.

## 6. Not modelled

* The binary layout of each command (serialise and deserialise), and values: a command is the
  set of properties it carries. A wrong offset is for the tests, which hold recorded packets.
* Colour and audio conversion, label rendering, hashes; tables of video modes and enums.
* The manager of several transfer queues: `MediaPool` has one. Queues share nothing but the
  counter of ids and the interval.
* The preparation of uploads in `Atem` (`uploadStill` and the like convert and then enqueue).
* Levels and the time (`levelChanged`, `updatedTime`): events that do not touch the state.

The tests were read for what they expect.

## 7. Plan

1. *(done)* `PacketIds`, `AtemSocketChild`, `AtemLink`, with proofs of all their invariants.
2. *(done)* `DataTransfers`, `DataTransferQueue`, `MediaPool` for one queue; proofs of what the
   queue keeps whatever the device does.
3. *(done)* `ChildContract`, `AtemConnection`, `CommandPromises`, the refinements and their proofs.
4. *(done)* The state store and the algorithms.
5. *(done)* `StatusIsCurrent` and `PendingIsCarried` of `AtemConnection` for a parent that is not
   slow; `RequestsHoldLock` and `LockIsReturned` of the pool without other clients.
6. *(done)* `DataIsWhole` and `ResolvedIsDone` of the pool, without retries.
7. Open: a manager of two queues (with and without lock) that share ids and dispatch by id.
