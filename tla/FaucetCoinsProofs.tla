-------------------------- MODULE FaucetCoinsProofs --------------------------
(***************************************************************************)
(* Proofs about FaucetCoins, for any accounts, coins and jobs.             *)
(***************************************************************************)
EXTENDS FaucetCoins, FiniteSetTheorems, TLAPS

-----------------------------------------------------------------------------
(***************************************************************************)
(* Type correctness.                                                       *)
(***************************************************************************)

LEMMA DraftFacts == \A j \in Jobs : \A i \in 1..Len(Amounts[j]) : <<j, i>> \in Drafts
  BY DEF Drafts

LEMMA LenFacts == \A j \in Jobs : Len(Amounts[j]) \in Nat \ {0}
  BY CoinsAssumption

LEMMA PartFacts ==
  \A last \in Nat \ {0} : \A p \in 1..last :
    /\ p \in Nat /\ 1 \in 1..last
    /\ p # last => p + 1 \in 1..last
  OBVIOUS

LEMMA NextFacts == lastUsed \in Accounts => NextAccount \in Accounts
  BY CoinsAssumption DEF Accounts, NextAccount

LEMMA CountFacts == \A S \in SUBSET Coins : Cardinality(S) \in 0..Cardinality(Coins)
<1> TAKE S \in SUBSET Coins
<1>1. IsFiniteSet(Coins)
  BY CoinsAssumption
<1>2. IsFiniteSet(S) /\ Cardinality(S) <= Cardinality(Coins)
  BY <1>1, FS_Subset
<1>3. Cardinality(S) \in Nat /\ Cardinality(Coins) \in Nat
  BY <1>1, <1>2, FS_CardinalityType
<1> QED  BY <1>2, <1>3

LEMMA TypeStep == TypeOK /\ [Next]_vars => TypeOK'
<1> SUFFICES ASSUME TypeOK, [Next]_vars PROVE TypeOK'
  OBVIOUS
<1> USE DEF TypeOK
<1>1. ASSUME NEW j \in Jobs, PassOver(j) PROVE TypeOK'
  BY <1>1, NextFacts DEF PassOver, Goes, acctVars, nodeVars
<1>2. ASSUME NEW j \in Jobs, Examine(j) PROVE TypeOK'
  BY <1>2, NextFacts DEF Examine, Goes, acctVars, nodeVars
<1>3. ASSUME NEW j \in Jobs, IsFresh(j) PROVE TypeOK'
  BY <1>3 DEF IsFresh, TestDone, Goes, acctVars, nodeVars
<1>4. ASSUME NEW j \in Jobs, Reload(j) PROVE TypeOK'
  <2>1. Unspent(account[j]) \in SUBSET Coins
    BY DEF Unspent
  <2> QED  BY <1>4, <2>1 DEF Reload, TestDone, Goes, acctVars, nodeVars
<1>5. ASSUME NEW j \in Jobs, Install(j) PROVE TypeOK'
  <2>1. answer[j] \in SUBSET Coins /\ KeepPending(account[j], answer[j]) \in SUBSET Coins
    BY DEF KeepPending
  <2>2. Cardinality(answer[j]) \in 0..Cardinality(Coins)
    BY <2>1, CountFacts
  <2> QED  BY <1>5, <2>1, <2>2 DEF Install, TestDone, Goes, nodeVars
<1>6. ASSUME NEW j \in Jobs, Panic(j) PROVE TypeOK'
  BY <1>6 DEF Panic, acctVars, nodeVars
<1>7. ASSUME NEW j \in Jobs, TooPoor(j) PROVE TypeOK'
  BY <1>7 DEF TooPoor, Goes, acctVars, nodeVars
<1>8. ASSUME NEW j \in Jobs, Choose(j) PROVE TypeOK'
  BY <1>8 DEF Choose, Goes, acctVars, nodeVars
<1>9. ASSUME NEW j \in Jobs, Lock(j) PROVE TypeOK'
  BY <1>9 DEF Lock, Goes, acctVars, nodeVars
<1>10. ASSUME NEW j \in Jobs, NEW S \in SUBSET Coins, Build(j, S) PROVE TypeOK'
  <2>1. <<j, part[j]>> \in Drafts
    BY DraftFacts
  <2>2. part' \in [Jobs -> Nat] /\ \A k \in Jobs : part'[k] \in 1..Len(Amounts[k])
    <3> DEFINE n == IF part[j] = Len(Amounts[j]) THEN 1 ELSE part[j] + 1
    <3>1. part[j] \in 1..Len(Amounts[j]) /\ Len(Amounts[j]) \in Nat \ {0}
      BY LenFacts
    <3>2. n \in 1..Len(Amounts[j]) /\ n \in Nat
      BY <3>1, PartFacts
    <3>3. part' = [part EXCEPT ![j] = n]
      BY <1>10 DEF Build
    <3> HIDE DEF n
    <3> QED  BY <3>2, <3>3
  <2>3. inputs' \in [Drafts -> SUBSET Coins] /\ inUse' \in [Accounts -> SUBSET Coins]
    BY <1>10, <2>1 DEF Build
  <2> QED  BY <1>10, <2>2, <2>3 DEF Build, Goes, nodeVars
<1>11. ASSUME NEW j \in Jobs, NEW accepted \in BOOLEAN, Send(j, accepted) PROVE TypeOK'
  <2>1. <<j, part[j]>> \in Drafts
    BY DraftFacts
  <2>2. part' \in [Jobs -> Nat] /\ \A k \in Jobs : part'[k] \in 1..Len(Amounts[k])
    <3> DEFINE n == IF part[j] = Len(Amounts[j]) THEN part[j] ELSE part[j] + 1
    <3>1. part[j] \in 1..Len(Amounts[j]) /\ Len(Amounts[j]) \in Nat \ {0}
      BY LenFacts
    <3>2. n \in 1..Len(Amounts[j]) /\ n \in Nat
      BY <3>1, PartFacts
    <3>3. part' = [part EXCEPT ![j] = n]
      BY <1>11 DEF Send
    <3> HIDE DEF n
    <3> QED  BY <3>2, <3>3
  <2>3. fate' \in [Drafts -> {"none", "rejected", "pool", "block"}]
    BY <1>11, <2>1 DEF Send
  <2> QED  BY <1>11, <2>2, <2>3 DEF Send, Goes, acctVars
<1>12. ASSUME NEW d \in Drafts, Include(d) PROVE TypeOK'
  BY <1>12 DEF Include, acctVars
<1>13. ASSUME NEW c \in Coins, Receive(c) PROVE TypeOK'
  BY <1>13 DEF Receive, acctVars
<1>14. CASE UNCHANGED vars
  BY <1>14 DEF vars, acctVars, nodeVars
<1> QED
  BY <1>1, <1>2, <1>3, <1>4, <1>5, <1>6, <1>7, <1>8, <1>9, <1>10, <1>11, <1>12, <1>13, <1>14
     DEF Next, JobNext, Refresh, Decide, Draft, Transmit, NodeNext, Terminated

\* The variables of the airdrop accounts and of the jobs have their types.
THEOREM TypeCorrect == Spec => []TypeOK
<1>1. Init => TypeOK
  <2>1. 0 \in Accounts
    BY CoinsAssumption DEF Accounts
  <2>2. 0 \in 0..Cardinality(Coins)
    BY CoinsAssumption, FS_CardinalityType
  <2>3. \A j \in Jobs : 1 \in 1..Len(Amounts[j])
    BY LenFacts
  <2> SUFFICES ASSUME Init PROVE TypeOK
    OBVIOUS
  <2>4. part \in [Jobs -> Nat] /\ \A j \in Jobs : part[j] \in 1..Len(Amounts[j])
    BY <2>3 DEF Init
  <2>5. chain \in [Coins -> {"absent", "unspent", "spent"}]
    BY DEF Init
  <2> QED  BY <2>1, <2>2, <2>4, <2>5 DEF Init, TypeOK
<1> QED  BY <1>1, TypeStep, PTL DEF Spec

-----------------------------------------------------------------------------
(***************************************************************************)
(* NoCoinReuse.  A coin that has been built into a transaction is marked,  *)
(* or has gone: it is spent, and neither listed nor in an answer that is   *)
(* about to be installed.  The mark is given up only when an answer lacks  *)
(* the coin, and an answer that lacks a listed coin says that it is spent. *)
(***************************************************************************)

Examining(j) == pc[j] \in Tests \cup {"enough?"}

\* Only the holder of airlock examines an account or awaits an answer.
TurnInv ==
  \A j \in Jobs : /\ Examining(j) => airlock = j
                  /\ answer[j] # {} => pc[j] \in Tests

\* What is listed or answered belongs to the account and has been seen on the
\* chain; what an answer lacks has been spent.
ChainInv ==
  /\ \A a \in Accounts : \A c \in list[a] : OwnerOf[c] = a /\ chain[c] # "absent"
  /\ \A j \in Jobs : \A c \in answer[j] : OwnerOf[c] = account[j] /\ chain[c] # "absent"
  /\ \A j \in Jobs : answer[j] # {} =>
       \A c \in list[account[j]] \ answer[j] : chain[c] = "spent"

Gone(c) ==
  /\ chain[c] = "spent" /\ c \notin list[OwnerOf[c]]
  /\ \A j \in Jobs : c \notin answer[j]

UseInv ==
  /\ InUseIsListed
  /\ \A d \in Drafts : \A c \in inputs[d] : c \in inUse[OwnerOf[c]] \/ Gone(c)

CoinInv == TurnInv /\ ChainInv /\ UseInv /\ NoCoinReuse

LEMMA CoinTypes ==
  TypeOK => /\ account \in [Jobs -> Accounts] /\ answer \in [Jobs -> SUBSET Coins]
            /\ pc = [j \in Jobs |-> pc[j]] /\ airlock \in Jobs \cup {Nobody}
            /\ list \in [Accounts -> SUBSET Coins] /\ inUse \in [Accounts -> SUBSET Coins]
            /\ inputs \in [Drafts -> SUBSET Coins]
            /\ chain \in [Coins -> {"absent", "unspent", "spent"}]
            /\ OwnerOf \in [Coins -> Accounts]
  BY CoinsAssumption DEF TypeOK

LEMMA TurnStep == TypeOK /\ TurnInv /\ [Next]_vars => TurnInv'
<1> SUFFICES ASSUME TypeOK, TurnInv, [Next]_vars PROVE TurnInv'
  OBVIOUS
<1> USE CoinsAssumption, CoinTypes DEF TurnInv, Examining, Tests
<1>1. ASSUME NEW j \in Jobs, PassOver(j) PROVE TurnInv'
  BY <1>1 DEF PassOver, Goes, acctVars, nodeVars
<1>2. ASSUME NEW j \in Jobs, Examine(j) PROVE TurnInv'
  BY <1>2 DEF Examine, Goes, acctVars, nodeVars
<1>3. ASSUME NEW j \in Jobs, IsFresh(j) PROVE TurnInv'
  BY <1>3 DEF IsFresh, TestDone, Goes, acctVars, nodeVars
<1>4. ASSUME NEW j \in Jobs, Reload(j) PROVE TurnInv'
  BY <1>4 DEF Reload, IsStale, TestDone, Goes, acctVars, nodeVars
<1>5. ASSUME NEW j \in Jobs, Install(j) PROVE TurnInv'
  BY <1>5 DEF Install, TestDone, Goes, nodeVars
<1>6. ASSUME NEW j \in Jobs, Panic(j) PROVE TurnInv'
  BY <1>6 DEF Panic, acctVars, nodeVars
<1>7. ASSUME NEW j \in Jobs, TooPoor(j) PROVE TurnInv'
  BY <1>7 DEF TooPoor, Goes, acctVars, nodeVars
<1>8. ASSUME NEW j \in Jobs, Choose(j) PROVE TurnInv'
  BY <1>8 DEF Choose, Goes, acctVars, nodeVars
<1>9. ASSUME NEW j \in Jobs, Lock(j) PROVE TurnInv'
  BY <1>9 DEF Lock, Goes, acctVars, nodeVars
<1>10. ASSUME NEW j \in Jobs, NEW S \in SUBSET Coins, Build(j, S) PROVE TurnInv'
  BY <1>10 DEF Build, Goes, nodeVars
<1>11. ASSUME NEW j \in Jobs, NEW accepted \in BOOLEAN, Send(j, accepted) PROVE TurnInv'
  BY <1>11 DEF Send, Goes, acctVars
<1>12. ASSUME NEW d \in Drafts, Include(d) PROVE TurnInv'
  BY <1>12 DEF Include, acctVars
<1>13. ASSUME NEW c \in Coins, Receive(c) PROVE TurnInv'
  BY <1>13 DEF Receive, acctVars
<1>14. CASE UNCHANGED vars
  BY <1>14 DEF vars, acctVars, nodeVars
<1> HIDE DEF TurnInv, Examining, Tests
<1> QED
  BY <1>1, <1>2, <1>3, <1>4, <1>5, <1>6, <1>7, <1>8, <1>9, <1>10, <1>11, <1>12, <1>13, <1>14
     DEF Next, JobNext, Refresh, Decide, Draft, Transmit, NodeNext, Terminated

\* A step that leaves the coins alone preserves the rest: the chain only moves on.
OnlyOnwards ==
  /\ list' = list /\ inUse' = inUse /\ inputs' = inputs /\ answer' = answer
  /\ \A c \in Coins : /\ chain[c] = "spent" => chain'[c] = "spent"
                      /\ chain[c] # "absent" => chain'[c] # "absent"
  /\ \A j \in Jobs : answer[j] # {} => account'[j] = account[j]

LEMMA Frame == TypeOK /\ CoinInv /\ OnlyOnwards => ChainInv' /\ UseInv' /\ NoCoinReuse'
<1> SUFFICES ASSUME TypeOK, CoinInv, OnlyOnwards PROVE ChainInv' /\ UseInv' /\ NoCoinReuse'
  OBVIOUS
<1> USE CoinTypes DEF CoinInv, OnlyOnwards
<1>1. ChainInv'
  <2>1. \A a \in Accounts : \A c \in list[a] : OwnerOf[c] = a /\ chain'[c] # "absent"
    BY DEF ChainInv
  <2>2. \A j \in Jobs : \A c \in answer[j] : OwnerOf[c] = account'[j] /\ chain'[c] # "absent"
    BY DEF ChainInv
  <2>3. \A j \in Jobs : answer[j] # {} =>
          \A c \in list[account'[j]] \ answer[j] : chain'[c] = "spent"
    BY DEF ChainInv
  <2> QED  BY <2>1, <2>2, <2>3 DEF ChainInv
<1>2. UseInv'
  <2>1. \A c \in Coins : Gone(c) => Gone(c)'
    BY DEF Gone
  <2>2. InUseIsListed'
    BY DEF UseInv, InUseIsListed
  <2> QED  BY <2>1, <2>2 DEF UseInv
<1>3. NoCoinReuse'
  BY DEF NoCoinReuse
<1> QED  BY <1>1, <1>2, <1>3

LEMMA CoinStep == TypeOK /\ CoinInv /\ [Next]_vars => CoinInv'
<1> SUFFICES ASSUME TypeOK, CoinInv, [Next]_vars PROVE CoinInv'
  OBVIOUS
<1> DEFINE Rest == ChainInv /\ UseInv /\ NoCoinReuse
<1> SUFFICES Rest'
  BY TurnStep DEF CoinInv
<1>t. TypeOK /\ TurnInv /\ ChainInv /\ UseInv /\ NoCoinReuse
  BY DEF CoinInv
<1>1. ASSUME NEW j \in Jobs, PassOver(j) PROVE Rest'
  BY <1>1, CoinTypes, Frame DEF OnlyOnwards, PassOver, acctVars, nodeVars
<1>2. ASSUME NEW j \in Jobs, Examine(j) PROVE Rest'
  <2>1. \A k \in Jobs : answer[k] # {} => k # j
    BY <1>2, <1>t DEF Examine, Goes, TurnInv, Tests
  <2> QED  BY <1>2, <2>1, CoinTypes, Frame DEF OnlyOnwards, Examine, acctVars, nodeVars
<1>3. ASSUME NEW j \in Jobs, IsFresh(j) PROVE Rest'
  BY <1>3, CoinTypes, Frame DEF OnlyOnwards, IsFresh, acctVars, nodeVars
<1>4. ASSUME NEW j \in Jobs, Reload(j) PROVE Rest'
  <2> DEFINE got == Unspent(account[j])
  <2>1. /\ answer' = [answer EXCEPT ![j] = got]
        /\ UNCHANGED <<list, inUse, account, inputs, chain>>
    BY <1>4 DEF Reload, acctVars, nodeVars
  <2>2. /\ got \in SUBSET Coins
        /\ \A c \in got : OwnerOf[c] = account[j] /\ chain[c] = "unspent"
        /\ \A c \in list[account[j]] \ got : chain[c] = "spent"
    BY <1>t, CoinTypes DEF Unspent, ChainInv
  <2> HIDE DEF got
  <2>3. ChainInv'
    BY <1>t, <2>1, <2>2, CoinTypes DEF ChainInv
  <2>4. ASSUME NEW c \in Coins, Gone(c) PROVE Gone(c)'
    BY <2>1, <2>2, <2>4, CoinTypes, <1>t DEF Gone
  <2>5. UseInv'
    BY <1>t, <2>1, <2>4, CoinTypes DEF UseInv, InUseIsListed
  <2>6. NoCoinReuse'
    BY <1>t, <2>1 DEF NoCoinReuse
  <2> QED  BY <2>3, <2>5, <2>6
<1>5. ASSUME NEW j \in Jobs, Install(j) PROVE Rest'
  <2> DEFINE a == account[j]
             got == answer[j]
  <2>1. /\ list' = [list EXCEPT ![a] = got]
        /\ inUse' = [inUse EXCEPT ![a] = inUse[a] \cap got]
        /\ answer' = [answer EXCEPT ![j] = {}]
        /\ UNCHANGED <<account, inputs, chain>>
    BY <1>5 DEF Install, KeepPending, nodeVars
  <2>2. \A k \in Jobs : answer'[k] = {}
    BY <1>5, <1>t, <2>1, CoinTypes DEF Install, TurnInv, Examining
  <2>3. /\ a \in Accounts /\ got \in SUBSET Coins
        /\ \A c \in got : OwnerOf[c] = a /\ chain[c] # "absent"
        /\ \A c \in list[a] \ got : chain[c] = "spent"
    BY <1>5, <1>t, CoinTypes DEF Install, ChainInv
  <2> HIDE DEF a, got
  <2>4. ChainInv'
    BY <1>t, <2>1, <2>2, <2>3, CoinTypes DEF ChainInv
  <2>5. InUseIsListed'
    BY <1>t, <2>1, <2>3, CoinTypes DEF UseInv, InUseIsListed
  <2>6. ASSUME NEW d \in Drafts, NEW c \in inputs[d] PROVE c \in inUse'[OwnerOf[c]] \/ Gone(c)'
    <3>1. /\ c \in Coins /\ OwnerOf[c] \in Accounts
          /\ c \in inUse[OwnerOf[c]] \/ Gone(c)
          /\ inUse[OwnerOf[c]] \subseteq list[OwnerOf[c]]
      BY <1>t, CoinTypes DEF UseInv, InUseIsListed
    <3>2. CASE OwnerOf[c] # a
      BY <1>t, <2>1, <2>2, <2>3, <3>1, <3>2, CoinTypes DEF Gone
    <3>3. CASE OwnerOf[c] = a /\ Gone(c)
      <4>1. c \notin got
        BY <3>3 DEF Gone, got
      <4> QED  BY <1>t, <2>1, <2>2, <2>3, <3>1, <3>3, <4>1, CoinTypes DEF Gone
    <3>4. CASE OwnerOf[c] = a /\ c \in inUse[a]
      BY <1>t, <2>1, <2>2, <2>3, <3>1, <3>4, CoinTypes DEF Gone
    <3> QED  BY <3>1, <3>2, <3>3, <3>4
  <2>7. UseInv'
    BY <2>1, <2>5, <2>6 DEF UseInv
  <2>8. NoCoinReuse'
    BY <1>t, <2>1 DEF NoCoinReuse
  <2> QED  BY <2>4, <2>7, <2>8
<1>6. ASSUME NEW j \in Jobs, Panic(j) PROVE Rest'
  BY <1>6, CoinTypes, Frame DEF OnlyOnwards, Panic, acctVars, nodeVars
<1>7. ASSUME NEW j \in Jobs, TooPoor(j) PROVE Rest'
  BY <1>7, CoinTypes, Frame DEF OnlyOnwards, TooPoor, acctVars, nodeVars
<1>8. ASSUME NEW j \in Jobs, Choose(j) PROVE Rest'
  BY <1>8, CoinTypes, Frame DEF OnlyOnwards, Choose, acctVars, nodeVars
<1>9. ASSUME NEW j \in Jobs, Lock(j) PROVE Rest'
  BY <1>9, CoinTypes, Frame DEF OnlyOnwards, Lock, acctVars, nodeVars
<1>10. ASSUME NEW j \in Jobs, NEW S \in SUBSET Coins, Build(j, S) PROVE Rest'
  <2> DEFINE a == account[j]
             d == <<j, part[j]>>
  <2>1. a \in Accounts /\ d \in Drafts
    BY <1>t, DraftFacts DEF TypeOK
  <2>2. /\ S \subseteq list[a] \ inUse[a]
        /\ inUse' = [inUse EXCEPT ![a] = inUse[a] \cup S]
        /\ inputs' = [inputs EXCEPT ![d] = S]
        /\ UNCHANGED <<list, account, answer, chain>>
    BY <1>10 DEF Build, Chosen, Free, nodeVars
  <2> HIDE DEF a, d
  <2>3. \A c \in S : OwnerOf[c] = a
    BY <1>t, <2>1, <2>2 DEF ChainInv
  <2>4. ChainInv'
    BY <1>t, <2>2 DEF ChainInv
  <2>5. ASSUME NEW c \in Coins, Gone(c) PROVE Gone(c)'
    BY <2>2, <2>5 DEF Gone
  <2>6. InUseIsListed'
    BY <1>t, <2>1, <2>2, CoinTypes DEF UseInv, InUseIsListed
  <2>7. \A c \in S : c \in inUse'[OwnerOf[c]]
    BY <1>t, <2>1, <2>2, <2>3, CoinTypes
  <2>8. \A c \in Coins : c \in inUse[OwnerOf[c]] => c \in inUse'[OwnerOf[c]]
    BY <1>t, <2>1, <2>2, CoinTypes
  <2>9. \A e \in Drafts : inputs'[e] = IF e = d THEN S ELSE inputs[e]
    BY <1>t, <2>1, <2>2, CoinTypes
  <2>10. UseInv'
    BY <1>t, <2>1, <2>5, <2>6, <2>7, <2>8, <2>9, CoinTypes DEF UseInv
  <2>11. \A e \in Drafts : inputs[e] \cap S = {}
    BY <1>t, <2>1, <2>2, <2>3, CoinTypes DEF UseInv, Gone
  <2>12. NoCoinReuse'
    BY <1>t, <2>9, <2>11 DEF NoCoinReuse
  <2> QED  BY <2>4, <2>10, <2>12
<1>11. ASSUME NEW j \in Jobs, NEW accepted \in BOOLEAN, Send(j, accepted) PROVE Rest'
  BY <1>11, CoinTypes, Frame DEF OnlyOnwards, Send, acctVars
<1>12. ASSUME NEW d \in Drafts, Include(d) PROVE Rest'
  BY <1>12, CoinTypes, Frame DEF OnlyOnwards, Include, acctVars
<1>13. ASSUME NEW c \in Coins, Receive(c) PROVE Rest'
  BY <1>13, CoinTypes, Frame DEF OnlyOnwards, Receive, acctVars
<1>14. CASE UNCHANGED vars
  BY <1>14, Frame DEF OnlyOnwards, vars, acctVars, nodeVars
<1> QED
  BY <1>1, <1>2, <1>3, <1>4, <1>5, <1>6, <1>7, <1>8, <1>9, <1>10, <1>11, <1>12, <1>13, <1>14
     DEF Next, JobNext, Refresh, Decide, Draft, Transmit, NodeNext, Terminated

LEMMA CoinAlways == Spec => []CoinInv
<1>1. Init => CoinInv
  BY DEF Init, CoinInv, TurnInv, ChainInv, UseInv, NoCoinReuse, InUseIsListed, Examining, Tests
<1> QED  BY <1>1, CoinStep, TypeCorrect, PTL DEF Spec

\* For any accounts, coins and concurrent jobs: no coin is ever built into two
\* transactions of the process, whatever is reloaded meanwhile.
THEOREM NoCoinReuseCorrect == Spec => []NoCoinReuse
<1>1. CoinInv => NoCoinReuse
  BY DEF CoinInv
<1> QED  BY <1>1, CoinAlways, PTL

\* A marked coin is always a listed one, which is what the comparison of the two
\* lengths in chooseAirdropAccount relies on.
THEOREM InUseIsListedCorrect == Spec => []InUseIsListed
<1>1. CoinInv => InUseIsListed
  BY DEF CoinInv, UseInv
<1> QED  BY <1>1, CoinAlways, PTL

-----------------------------------------------------------------------------
(***************************************************************************)
(* NoInputConflict.  A coin is spent on the chain only by a transaction in *)
(* a block that it was built into, and, since no coin is built into two,   *)
(* by no other.                                                            *)
(***************************************************************************)

\* Only what its job has sent has a fate.
FateInv ==
  \A j \in Jobs : \A i \in 1..Len(Amounts[j]) :
    fate[<<j, i>>] # "none" => pc[j] = "sent" \/ (pc[j] = "send" /\ i < part[j])

SpendInv ==
  /\ \A d \in Drafts : \A c \in inputs[d] : chain[c] # "absent"
  /\ \A c \in Coins : chain[c] = "spent" => \E d \in Drafts : fate[d] = "block" /\ c \in inputs[d]

LEMMA DraftSplit == \A d \in Drafts : \E j \in Jobs : \E i \in 1..Len(Amounts[j]) : d = <<j, i>>
  BY DEF Drafts

LEMMA FateStep == TypeOK /\ FateInv /\ [Next]_vars => FateInv'
<1> SUFFICES ASSUME TypeOK, FateInv, [Next]_vars PROVE FateInv'
  OBVIOUS
<1>t. /\ pc = [j \in Jobs |-> pc[j]] /\ part \in [Jobs -> Nat]
      /\ fate \in [Drafts -> {"none", "rejected", "pool", "block"}]
      /\ \A j \in Jobs : part[j] \in 1..Len(Amounts[j])
  BY DEF TypeOK
\* What neither builds nor sends moves no job past the building.
<1>1. ASSUME UNCHANGED <<part, fate>>,
             \A j \in Jobs : pc[j] \in {"send", "sent"} => pc'[j] = pc[j]
      PROVE  FateInv'
  BY <1>1, <1>t DEF FateInv
<1>2. ASSUME NEW j \in Jobs,
             PassOver(j) \/ Examine(j) \/ IsFresh(j) \/ TooPoor(j) \/ Choose(j) \/ Lock(j)
      PROVE  FateInv'
  BY <1>1, <1>2, <1>t DEF PassOver, Examine, IsFresh, TestDone, Tests, TooPoor, Choose, Lock, Goes, nodeVars
<1>3. ASSUME NEW j \in Jobs, Reload(j) \/ Install(j) \/ Panic(j) PROVE FateInv'
  BY <1>1, <1>3, <1>t DEF Reload, Install, Panic, TestDone, Tests, Goes, IsStale, nodeVars
<1>4. ASSUME NEW j \in Jobs, NEW S \in SUBSET Coins, Build(j, S) PROVE FateInv'
  <2>1. /\ pc[j] = "build" /\ fate' = fate
        /\ pc' = [pc EXCEPT ![j] = IF part[j] = Len(Amounts[j]) THEN "send" ELSE "build"]
        /\ \A k \in Jobs : k # j => part'[k] = part[k]
    BY <1>4, <1>t DEF Build, Goes, nodeVars
  <2> QED  BY <1>t, <2>1 DEF FateInv
<1>5. ASSUME NEW j \in Jobs, NEW accepted \in BOOLEAN, Send(j, accepted) PROVE FateInv'
  <2> DEFINE to == IF accepted THEN "pool" ELSE "rejected"
             last == part[j] = Len(Amounts[j])
  <2>1. /\ pc[j] = "send" /\ fate' = [fate EXCEPT ![<<j, part[j]>>] = to]
        /\ pc' = [pc EXCEPT ![j] = IF last THEN "sent" ELSE "send"]
        /\ part' = [part EXCEPT ![j] = IF last THEN @ ELSE @ + 1]
    BY <1>5 DEF Send, Goes
  <2> SUFFICES ASSUME NEW k \in Jobs, NEW i \in 1..Len(Amounts[k]), fate'[<<k, i>>] # "none"
               PROVE  pc'[k] = "sent" \/ (pc'[k] = "send" /\ i < part'[k])
    BY DEF FateInv
  <2>2. <<k, i>> \in Drafts /\ <<j, part[j]>> \in Drafts
    BY <1>t, DraftFacts
  <2>3. CASE k # j
    <3>1. fate[<<k, i>>] # "none"
      BY <1>t, <2>1, <2>2, <2>3
    <3> QED  BY <1>t, <2>1, <2>3, <3>1 DEF FateInv
  <2>4. CASE k = j /\ last
    BY <1>t, <2>1, <2>4
  <2>5. CASE k = j /\ ~last
    <3>1. i < part[j] \/ i = part[j]
      BY <1>t, <2>1, <2>2, <2>5 DEF FateInv
    <3> QED  BY <1>t, <2>1, <2>5, <3>1
  <2> QED  BY <2>3, <2>4, <2>5
<1>6. ASSUME NEW d \in Drafts, Include(d) PROVE FateInv'
  <2>1. /\ fate[d] = "pool" /\ fate' = [fate EXCEPT ![d] = "block"] /\ UNCHANGED <<pc, part>>
    BY <1>6 DEF Include
  <2>2. \A e \in Drafts : fate'[e] # "none" => fate[e] # "none"
    BY <1>t, <2>1
  <2> QED  BY <2>1, <2>2, DraftFacts DEF FateInv
<1>7. ASSUME NEW c \in Coins, Receive(c) PROVE FateInv'
  BY <1>7 DEF Receive, FateInv
<1>8. CASE UNCHANGED vars
  BY <1>8 DEF vars, nodeVars, FateInv
<1> QED
  BY <1>2, <1>3, <1>4, <1>5, <1>6, <1>7, <1>8
     DEF Next, JobNext, Refresh, Decide, Draft, Transmit, NodeNext, Terminated

\* A listed coin that is not in use is unspent.
LEMMA FreeFacts ==
  ASSUME TypeOK, CoinInv, SpendInv, NEW a \in Accounts, NEW c \in Free(a)
  PROVE  c \in Coins /\ chain[c] = "unspent"
<1>1. c \in list[a] /\ c \notin inUse[a] /\ c \in Coins
  BY CoinTypes DEF Free
<1>2. OwnerOf[c] = a /\ chain[c] # "absent"
  BY <1>1 DEF CoinInv, ChainInv
<1>3. chain[c] # "spent"
  <2> SUFFICES ASSUME chain[c] = "spent" PROVE FALSE
    OBVIOUS
  <2>1. PICK d \in Drafts : c \in inputs[d]
    BY <1>1 DEF SpendInv
  <2>2. c \in inUse[OwnerOf[c]] \/ Gone(c)
    BY <2>1 DEF CoinInv, UseInv
  <2> QED  BY <1>1, <1>2, <2>2 DEF Gone
<1> QED  BY <1>1, <1>2, <1>3, CoinTypes

LEMMA SpendStep == TypeOK /\ CoinInv /\ FateInv /\ SpendInv /\ [Next]_vars => SpendInv'
<1> SUFFICES ASSUME TypeOK, CoinInv, FateInv, SpendInv, [Next]_vars PROVE SpendInv'
  OBVIOUS
<1>t. /\ fate \in [Drafts -> {"none", "rejected", "pool", "block"}]
      /\ inputs \in [Drafts -> SUBSET Coins] /\ chain \in [Coins -> {"absent", "unspent", "spent"}]
      /\ \A j \in Jobs : <<j, part[j]>> \in Drafts /\ part[j] \in Nat
  BY DraftFacts DEF TypeOK
<1>1. ASSUME UNCHANGED <<inputs, fate, chain>> PROVE SpendInv'
  BY <1>1 DEF SpendInv
<1>2. ASSUME NEW j \in Jobs,
             \/ PassOver(j) \/ Examine(j) \/ IsFresh(j) \/ Reload(j) \/ Install(j)
             \/ Panic(j) \/ TooPoor(j) \/ Choose(j) \/ Lock(j)
      PROVE  SpendInv'
  BY <1>1, <1>2
     DEF PassOver, Examine, IsFresh, Reload, Install, Panic, TooPoor, Choose, Lock, nodeVars
\* A transaction that is built has not been sent, so that no spent coin loses
\* the transaction that has spent it.
<1>3. ASSUME NEW j \in Jobs, NEW S \in SUBSET Coins, Build(j, S) PROVE SpendInv'
  <2> DEFINE d == <<j, part[j]>>
  <2>1. /\ S \subseteq Free(account[j]) /\ pc[j] = "build"
        /\ inputs' = [inputs EXCEPT ![d] = S] /\ UNCHANGED <<fate, chain>>
    BY <1>3 DEF Build, Chosen, Goes, nodeVars
  <2>2. account[j] \in Accounts /\ d \in Drafts /\ part[j] \in 1..Len(Amounts[j])
    BY <1>t DEF TypeOK
  <2>3. fate[d] = "none"
    BY <2>1, <2>2 DEF FateInv
  <2>4. \A c \in S : chain[c] = "unspent"
    BY <2>1, <2>2, FreeFacts
  <2> HIDE DEF d
  <2>5. \A e \in Drafts : inputs'[e] = IF e = d THEN S ELSE inputs[e]
    BY <1>t, <2>1, <2>2
  <2>6. \A e \in Drafts : \A c \in inputs'[e] : chain[c] # "absent"
    BY <2>4, <2>5 DEF SpendInv
  <2>7. ASSUME NEW c \in Coins, chain[c] = "spent"
        PROVE  \E e \in Drafts : fate[e] = "block" /\ c \in inputs'[e]
    <3>1. PICK e \in Drafts : fate[e] = "block" /\ c \in inputs[e]
      BY <2>7 DEF SpendInv
    <3> QED  BY <2>3, <2>5, <3>1
  <2> QED  BY <2>1, <2>6, <2>7 DEF SpendInv
<1>4. ASSUME NEW j \in Jobs, NEW accepted \in BOOLEAN, Send(j, accepted) PROVE SpendInv'
  <2> DEFINE d == <<j, part[j]>>
  <2>1. /\ pc[j] = "send" /\ d \in Drafts /\ UNCHANGED <<inputs, chain>>
        /\ fate' = [fate EXCEPT ![d] = IF accepted THEN "pool" ELSE "rejected"]
    BY <1>4, <1>t DEF Send, Goes
  <2>2. fate[d] = "none"
    <3>1. part[j] \in 1..Len(Amounts[j])
      BY DEF TypeOK
    <3>2. part[j] \in Nat
      BY <1>t
    <3>3. ~(part[j] < part[j])
      BY <3>2
    <3> QED  BY <2>1, <3>1, <3>3 DEF FateInv
  <2>3. \A e \in Drafts : fate[e] = "block" => fate'[e] = "block"
    BY <1>t, <2>1, <2>2
  <2> QED  BY <2>1, <2>3 DEF SpendInv
<1>5. ASSUME NEW d \in Drafts, Include(d) PROVE SpendInv'
  <2>1. /\ fate' = [fate EXCEPT ![d] = "block"] /\ inputs' = inputs
        /\ chain' = [c \in Coins |-> IF c \in inputs[d] THEN "spent" ELSE chain[c]]
    BY <1>5 DEF Include
  <2>2. \A e \in Drafts : fate'[e] = IF e = d THEN "block" ELSE fate[e]
    BY <1>t, <2>1
  <2> QED  BY <1>t, <2>1, <2>2 DEF SpendInv
<1>6. ASSUME NEW c \in Coins, Receive(c) PROVE SpendInv'
  BY <1>6, <1>t DEF Receive, SpendInv
<1>7. CASE UNCHANGED vars
  BY <1>1, <1>7 DEF vars, nodeVars
<1> QED
  BY <1>2, <1>3, <1>4, <1>5, <1>6, <1>7
     DEF Next, JobNext, Refresh, Decide, Draft, Transmit, NodeNext, Terminated

\* For any accounts, coins and concurrent jobs: the coins of a transaction that
\* waits to be sent are unspent and in no other that the node has pooled.
THEOREM NoInputConflictCorrect == Spec => []NoInputConflict
<1>1. Init => FateInv /\ SpendInv
  <2> SUFFICES ASSUME Init PROVE FateInv /\ SpendInv
    OBVIOUS
  <2>1. FateInv
    BY DraftFacts DEF Init, FateInv
  <2> QED  BY <2>1 DEF Init, SpendInv
<1>2. TypeOK /\ CoinInv /\ FateInv /\ SpendInv => NoInputConflict
  <2> SUFFICES ASSUME TypeOK, CoinInv, SpendInv, NEW d \in Drafts, fate[d] = "none"
               PROVE  NodeAccepts(d)
    BY DEF NoInputConflict
  <2>1. inputs[d] \in SUBSET Coins
    BY DEF TypeOK
  <2>2. \A e \in Drafts : fate[e] \in {"pool", "block"} => inputs[d] \cap inputs[e] = {}
    BY DEF CoinInv, NoCoinReuse
  <2>3. ASSUME NEW c \in inputs[d] PROVE chain[c] = "unspent"
    <3>1. chain[c] \in {"absent", "unspent", "spent"} /\ chain[c] # "absent" /\ c \in Coins
      BY <2>1, CoinTypes DEF SpendInv
    <3>2. chain[c] # "spent"
      BY <2>2, <3>1 DEF SpendInv
    <3> QED  BY <3>1, <3>2
  <2> QED  BY <2>2, <2>3 DEF NodeAccepts
<1> QED  BY <1>1, <1>2, FateStep, SpendStep, CoinAlways, TypeCorrect, PTL DEF Spec
=============================================================================
