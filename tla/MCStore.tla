------------------------------- MODULE MCStore -------------------------------
(* Every part of the device, a few changes and calls of each.                *)
EXTENDS AtemStore
=============================================================================
