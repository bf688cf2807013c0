-------------------------------- MODULE MCLink --------------------------------
(* Small instances of the link for TLC. *)
EXTENDS AtemLink

MCSessions == 0 .. MaxSessions
MCTrackingIds == 1 .. MaxCommands
MCPayloads == 0 .. MaxDevSends
=============================================================================
