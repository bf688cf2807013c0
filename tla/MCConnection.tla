----------------------------- MODULE MCConnection -----------------------------
(* Small instances of the two threads for TLC. *)
EXTENDS AtemConnection

\* Bound: calls, packets, lost sessions, deaths of threads and doubled threads together.
CONSTANT MaxEvents

FewEvents == calls + sent + losses + crashes + (IF doubled THEN 1 ELSE 0) <= MaxEvents
=============================================================================
