---------------------------- MODULE MCEarlyPools ----------------------------
(***************************************************************************)
(* EarlyPools for TLC: how many clients each version gets, so many for the *)
(* ring that it is full and goes round more than once.                     *)
(***************************************************************************)
EXTENDS EarlyPools

MCClients == [v \in Versions |-> IF v = "stack" THEN 4 ELSE 8]
=============================================================================
