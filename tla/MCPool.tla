-------------------------------- MODULE MCPool --------------------------------
(* Small instances of the media pool for TLC. *)
EXTENDS MediaPool

CONSTANTS still, clip, other

MCKind == [t \in Transfers |-> IF t = clip THEN "clip"
                               ELSE IF t = other THEN "download" ELSE "upload"]
MCChunks == [t \in Transfers |-> 2]
MCFrames == [t \in Transfers |-> IF t = clip THEN 2 ELSE 0]
=============================================================================
