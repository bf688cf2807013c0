-------------------------------- MODULE MCChild --------------------------------
(* Small instances of the child, among arbitrary devices, for TLC. *)
EXTENDS AtemSocketChild

\* The child as its parent sees it.
Contract == INSTANCE ChildContract WITH
    child <- [state |-> connectionState, inFlight |-> {p.trackingId : p \in inFlight},
              open |-> SocketOpen, armed |-> reconnectTimer,
              restarting |-> restarting, closing |-> closing],
    posting <- posting

\* Whatever devices send and whenever the parent calls, the child does nothing to its
\* parent that ChildContract does not name: packets leave the flight only with a report
\* of their acknowledgement or in a reset, a session ends only with a report or by a
\* restart that was waiting (atemSocketChild.ts:109-160, 245-323).
KeepsContract == Contract!Spec
=============================================================================
