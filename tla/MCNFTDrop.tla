------------------------------ MODULE MCNFTDrop ------------------------------
(* Instances of NFTDrop for TLC. *)
EXTENDS NFTDrop, TLC

CONSTANTS a, b, r1, r2, r3

\* Two requests of user a race, and one of user b.
MCUserOf == [r \in Requests |-> IF r = r3 THEN b ELSE a]
MCSymmetry == Permutations(Txs)
=============================================================================
