---------------------------- MODULE MCMintBatch ----------------------------
(* An instance of MintBatch for TLC. *)
EXTENDS MintBatch, TLC

CONSTANTS b1, b2, m1, s1
=============================================================================
