---------------------------- MODULE ChildContract ----------------------------
(***************************************************************************)
(* What the connection child promises to its parent.  The composition of   *)
(* the two threads (AtemConnection) uses nothing of the child but these    *)
(* steps; that AtemSocketChild takes no others is checked by the mapping   *)
(* at the end of AtemSocketChild's own runs.                               *)
(***************************************************************************)
EXTENDS ChildSteps, FiniteSets

VARIABLES child,    \* the condition of the child, see ChildSteps
          posting   \* the calls it makes to the parent in a step

contractVars == <<child, posting>>

Posts(calls) == posting' = calls

Init == child = Fresh /\ posting = <<>>

\* connect, a silence, a packet given up, a socket error.
Restart == child' = Restarted(child) /\ Posts(RestartReports(child))

Resume == /\ child.restarting > 0
          /\ child' = Resumed(child) /\ Posts(<<>>)

Disconnect == child' = Disconnecting(child) /\ Posts(DisconnectReports(child))

CloseDown == /\ child.closing > 0
             /\ child' = ClosedDown(child) /\ Posts(<<DisconnectReport>>)

\* The device accepted the connection, or opened another session.
StartSession == child.open /\ child' = InSession(child) /\ Posts(<<>>)

Send == /\ \E ids \in SUBSET child'.inFlight : child' = Holding(child, ids)
        /\ Posts(<<>>)

\* A datagram of the device: commands for the parent, acknowledgements of packets
\* that were in flight, or neither; the session is given up first when it asks for a
\* packet that is no longer there.
Reports(type) == {posting'[i] : i \in {j \in DOMAIN posting' : posting'[j].type = type}}

Receive ==
    /\ child.state = "Established"
    /\ LET acked == child.inFlight \ child'.inFlight
           lost  == Reports("disconnect") # {}
       IN  /\ child' = Relieved(IF lost THEN Abandoned(child) ELSE child, acked)
           /\ acked = UNION {call.ids : call \in Reports("acknowledged")}
           /\ \A i \in DOMAIN posting' : posting'[i].type = "disconnect" => i = 1

\* Everything the parent does not see.
Quiet == UNCHANGED child /\ Posts(<<>>)

Next == \/ Restart \/ Resume \/ Disconnect \/ CloseDown \/ StartSession \/ Send
        \/ Receive \/ Quiet

Spec == Init /\ [][Next]_contractVars
=============================================================================
