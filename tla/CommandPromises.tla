--------------------------- MODULE CommandPromises ---------------------------
(***************************************************************************)
(* What sendCommands promises for each packet: the promise waits until it  *)
(* is settled, once and for good, as done only when the device accepted    *)
(* the packet, and as lost otherwise.                                      *)
(***************************************************************************)
CONSTANT Packets

VARIABLES outcome,   \* what became of each packet
          accepted   \* packets the device accepted

promiseVars == <<outcome, accepted>>

Init == outcome = [p \in Packets |-> "none"] /\ accepted = {}

Become(ps, o) == outcome' = [p \in Packets |-> IF p \in ps THEN o ELSE outcome[p]]

AreIn(ps, o) == \A p \in ps : outcome[p] = o

\* A packet that can not even be handed over is lost at once.
Issue(o) == /\ \E ps \in SUBSET Packets : AreIn(ps, "none") /\ Become(ps, o)
            /\ UNCHANGED accepted

Accept == /\ \E ps \in SUBSET Packets : /\ AreIn(ps, "waiting") \/ AreIn(ps, "lost")
                                        /\ accepted' = accepted \union ps
          /\ UNCHANGED outcome

Settle(o) == /\ \E ps \in SUBSET Packets : /\ AreIn(ps, "waiting")
                                           /\ o = "done" => ps \subseteq accepted
                                           /\ Become(ps, o)
             /\ UNCHANGED accepted

Next == Issue("waiting") \/ Issue("lost") \/ Accept \/ Settle("done") \/ Settle("lost")

Spec == Init /\ [][Next]_promiseVars
=============================================================================
