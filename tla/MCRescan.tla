------------------------------ MODULE MCRescan ------------------------------
(* An instance of Rescan for TLC: one account in each of two shards. *)
EXTENDS Rescan, TLC

CONSTANTS a, b, s1, s2, n1, n2

MCShardOf == a :> s1 @@ b :> s2
=============================================================================
