----------------------------- MODULE DataTransfers -----------------------------
(***************************************************************************)
(* The transfers (src/dataTransfer/dataTransfer*.ts): what an upload, a    *)
(* download and a clip answer to the device's commands.  A handler is an   *)
(* operator from the transfer's own fields to its ProgressTransferResult,  *)
(* which holds the fields it leaves behind.                                *)
(*                                                                         *)
(* Data is counted in the chunks the device asks for or sends; how a       *)
(* buffer is cut into them is left out.                                    *)
(*                                                                         *)
(* A definition named before the one it resembles is a slip that one       *)
(* invites; nothing uses it.                                               *)
(***************************************************************************)
EXTENDS Integers, Sequences

CONSTANTS Transfers,     \* the transfers ever enqueued
          Kind,          \* [Transfers -> {"upload", "download", "clip"}]
          Chunks,        \* [Transfers -> Nat]: chunks of its data, of a frame for a clip
          Frames,        \* [Transfers -> Nat]: frames its source provides, for a clip
          MaxDownload,   \* maxBufferSize, in chunks
          NoTransfer

ASSUME TransfersAssumption ==
    /\ Kind \in [Transfers -> {"upload", "download", "clip"}]
    /\ Chunks \in [Transfers -> Nat] /\ Frames \in [Transfers -> Nat]
    /\ MaxDownload \in Nat
    /\ NoTransfer \notin Transfers

ErrorCode == {"Retry", "NotFound", "NotLocked"}

\* The fields of a transfer: chunks sent or received, frames taken from the source,
\* and what became of its promise.
NewTransfer == [moved |-> 0, numFrames |-> 0, promise |-> "pending"]

\* A promise settles once.
Settle(x, outcome) == [x EXCEPT !.promise = IF @ = "pending" THEN outcome ELSE @]
Abort(x) == Settle(x, "rejected")

\* Commands to the device.  A request names what it is for: here the transfer, and
\* the frame of a clip.
Request(t, id, frame) == [type |-> "request", id |-> id, of |-> t, frame |-> frame]
Description(id) == [type |-> "description", id |-> id]
Data(id, chunk) == [type |-> "data", id |-> id, chunk |-> chunk]
DataAck(id) == [type |-> "dataAck", id |-> id]
ClearClip == [type |-> "clearClip"]
SetClip(frames) == [type |-> "setClip", frames |-> frames]

\* ProgressTransferResult.  A clip that has to wait for the next frame of its source
\* has no result yet: `frameDone` says so.
Progress(x, newState, commands) ==
    [fields |-> x, newState |-> newState, commands |-> commands, frameDone |-> FALSE]

-----------------------------------------------------------------------------
(* Buffers *)

\* startTransfer of every transfer of one buffer; a restart is the same.
StartBuffer(t, x, id) == Progress(x, "Ready", <<Request(t, id, x.numFrames)>>)

HandleError(t, x, command) ==
    IF command.code = "Retry" THEN StartBuffer(t, x, command.id)
                              ELSE Progress(Abort(x), "Finished", <<>>)

\* As many chunks as asked for and left.
ChunksDue(t, x, count) ==
    IF count < Chunks[t] - x.moved THEN count ELSE Chunks[t] - x.moved

\* The device asks for more: the description goes before the first chunks.
ContinueUndescribed(t, x, command, oldState) ==
    LET n == ChunksDue(t, x, command.count)
    IN  Progress([x EXCEPT !.moved = @ + n], "Transferring",
                 [i \in 1 .. n |-> Data(command.id, x.moved + i)])
Continue(t, x, command, oldState) ==
    LET n == ChunksDue(t, x, command.count)
        description == IF oldState = "Ready" THEN <<Description(command.id)>> ELSE <<>>
    IN  Progress([x EXCEPT !.moved = @ + n],
                 IF oldState = "Ready" THEN "Transferring" ELSE oldState,
                 description \o [i \in 1 .. n |-> Data(command.id, x.moved + i)])

Complete(x, oldState) ==
    IF oldState = "Transferring" THEN Progress(Settle(x, "resolved"), "Finished", <<>>)
                                 ELSE Progress(x, oldState, <<>>)

HandleUpload(t, x, command, oldState) ==
    CASE command.type = "error"    -> HandleError(t, x, command)
      [] command.type = "continue" -> Continue(t, x, command, oldState)
      [] command.type = "complete" -> Complete(x, oldState)
      [] OTHER                     -> Progress(x, oldState, <<>>)

\* A chunk of a download, unless there were too many.
Receive(x, command, oldState) ==
    LET y == [x EXCEPT !.moved = @ + 1]
    IN  IF y.moved > MaxDownload THEN Progress(Abort(y), "Finished", <<>>)
                                 ELSE Progress(y, oldState, <<DataAck(command.id)>>)

HandleDownload(t, x, command, oldState) ==
    CASE command.type = "error"    -> HandleError(t, x, command)
      [] command.type = "data"     -> Receive(x, command, oldState)
      [] command.type = "complete" -> Progress(Settle(x, "resolved"), "Finished", <<>>)
      [] OTHER                     -> Progress(x, oldState, <<>>)

-----------------------------------------------------------------------------
(* Clips *)

\* The source provided another frame, whose upload starts from its first chunk.
TakeFrame(x) == [x EXCEPT !.numFrames = @ + 1, !.moved = 0]
AllButOneLeft(t, x) == x.numFrames + 1 < Frames[t]
FramesLeft(t, x) == x.numFrames < Frames[t]

\* startTransfer, once the first frame is there.
StartClip(t, x, id) ==
    LET frame == StartBuffer(t, TakeFrame(x), id)
    IN  [frame EXCEPT !.commands = <<ClearClip>> \o @]

\* handleCommand up to the await of the next frame.  The frame answers like any other
\* upload, but its promise is its own, and the state it reports is lost.
HandleFrame(t, x, command, oldState) ==
    LET frame == HandleUpload(t, x, command, oldState)
    IN  [fields    |-> [frame.fields EXCEPT !.promise = x.promise],
         newState  |-> "Transferring",
         commands  |-> frame.commands,
         frameDone |-> frame.newState = "Finished"]

\* ... and from there, with a frame or at the end of them.
NextFrame(t, x, newId) == StartBuffer(t, TakeFrame(x), newId)
LastFrameDone(x) == Progress(Settle(x, "resolved"), "Finished", <<SetClip(x.numFrames)>>)

-----------------------------------------------------------------------------
HandleCommand(t, x, command, oldState) ==
    CASE Kind[t] = "upload"   -> HandleUpload(t, x, command, oldState)
      [] Kind[t] = "download" -> HandleDownload(t, x, command, oldState)
      [] Kind[t] = "clip"     -> HandleFrame(t, x, command, oldState)
=============================================================================
