--------------------------- MODULE MCFaucetCoins ---------------------------
(* Instances of FaucetCoins for TLC. *)
EXTENDS FaucetCoins, TLC

CONSTANTS s0, s1, c1, c2, c3, j1, j2, j3

\* Account 1 is the only one of shard s1, and has no coin: job j3 looks for an
\* account in vain while the others work.
MCShardOf == (0 :> s0) @@ (1 :> s1)
MCOwnerOf == [c \in Coins |-> 0]
MCValue == [c \in Coins |-> IF c = c1 THEN 3 ELSE 2]
MCJobShard == [j \in Jobs |-> IF j = j3 THEN s1 ELSE s0]
\* Job j2 needs two transactions.
MCAmounts == [j \in Jobs |-> IF j = j2 THEN <<1, 1>> ELSE <<2>>]
=============================================================================
