--------------------------- MODULE MCAccountInfo ---------------------------
(* Instances of AccountInfo for TLC. *)
EXTENDS AccountInfo, TLC

CONSTANTS p1, p2, n1, N1, m1, m2, m3

\* Coins p1, p2 are PRV; n1 is the only coin of the NFT N1.
MCTokenOf == [c \in Coins |-> IF c = n1 THEN N1 ELSE PRV]
MCSymmetry == Permutations(Txs)
=============================================================================
