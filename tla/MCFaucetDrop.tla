---------------------------- MODULE MCFaucetDrop ----------------------------
(* An instance of FaucetDrop for TLC: requests of one user. *)
EXTENDS FaucetDrop, TLC

CONSTANTS a, r1, r2

MCUserOf == [r \in Requests |-> a]
MCNumTxs == [r \in Requests |-> 1]
=============================================================================
