---------------------------- MODULE DropContract ----------------------------
(***************************************************************************)
(* What an NFT drop service promises: it takes on users who own no NFT,    *)
(* delivers at most one to each of them and to nobody else, and says that  *)
(* it is done only after the delivery.                                     *)
(***************************************************************************)
EXTENDS Naturals

CONSTANT Users

VARIABLES
  owed,   \* users the service has taken on
  nfts,   \* NFTs of each user
  told    \* users of whom the service says that they are served

Init ==
  /\ owed = {} /\ told = {}
  /\ nfts \in [Users -> 0..1]

Accept(u) ==
  /\ u \notin owed /\ nfts[u] = 0
  /\ owed' = owed \cup {u}
  /\ UNCHANGED <<nfts, told>>

Deliver(u) ==
  /\ u \in owed /\ nfts[u] = 0
  /\ nfts' = [nfts EXCEPT ![u] = 1]
  /\ UNCHANGED <<owed, told>>

Tell(u) ==
  /\ u \in owed /\ nfts[u] = 1
  /\ told' = told \cup {u}
  /\ UNCHANGED <<owed, nfts>>

Next == \E u \in Users : Accept(u) \/ Deliver(u) \/ Tell(u)

Spec == Init /\ [][Next]_<<owed, nfts, told>>
=============================================================================
