------------------------------ MODULE ChildSteps ------------------------------
(***************************************************************************)
(* The connection child as its parent sees it: what a call, a callback or  *)
(* the network may make of it, as operators from one condition of the      *)
(* child to the next.  Packets are their tracking ids; the protocol that   *)
(* AtemSocketChild spells out is left out.                                 *)
(***************************************************************************)
EXTENDS Naturals, Sequences

\* state      _connectionState
\* inFlight   tracking ids of the packets in flight
\* open       is the current socket open?
\* armed      does the reconnect timer run?
\* restarting calls of restartConnection that await the parent
\* closing    calls of disconnect that await the close callback
Fresh == [state |-> "Closed", inFlight |-> {}, open |-> TRUE, armed |-> FALSE,
          restarting |-> 0, closing |-> 0]

DisconnectReport == [type |-> "disconnect"]

\* The end of restartConnection.  Without an open socket the HELLO throws, after the
\* reset and after the timer was armed.
Dialled(c) ==
    [c EXCEPT !.inFlight = {}, !.armed = TRUE,
              !.state = IF c.open THEN "SynSent" ELSE c.state]

\* restartConnection up to its await: a session is given up and reported ...
Abandoned(c) == [c EXCEPT !.state = "Closed", !.armed = FALSE, !.open = TRUE,
                          !.restarting = c.restarting + 1]

\* ... and everything in one go when there is no session.
Restarted(c) == CASE c.state = "Established"  -> Abandoned(c)
                  [] c.state = "Disconnected" -> Dialled([c EXCEPT !.open = TRUE])
                  [] OTHER                    -> Dialled(c)

RestartReports(c) == IF c.state = "Established" THEN <<DisconnectReport>> ELSE <<>>

\* The parent answered: the rest of restartConnection.
Resumed(c) == Dialled([c EXCEPT !.restarting = c.restarting - 1])

\* disconnect up to its await: there is none when the socket was closed already.
Disconnecting(c) ==
    IF c.open THEN [c EXCEPT !.open = FALSE, !.armed = FALSE, !.closing = c.closing + 1]
              ELSE [c EXCEPT !.armed = FALSE, !.state = "Disconnected"]

DisconnectReports(c) == IF c.open THEN <<>> ELSE <<DisconnectReport>>

\* The close callback.
ClosedDown(c) == [c EXCEPT !.closing = c.closing - 1, !.state = "Disconnected"]

InSession(c) == [c EXCEPT !.state = "Established"]

\* sendPackets does not ask for a session; it throws without a socket.
Holding(c, ids) == IF c.open THEN [c EXCEPT !.inFlight = @ \union ids] ELSE c

Relieved(c, ids) == [c EXCEPT !.inFlight = @ \ ids]
=============================================================================
