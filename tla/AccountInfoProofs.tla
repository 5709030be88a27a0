-------------------------- MODULE AccountInfoProofs --------------------------
(***************************************************************************)
(* Proofs about AccountInfo, for every set of coins, tokens, transactions  *)
(* and goroutines.                                                         *)
(***************************************************************************)
EXTENDS AccountInfo, TLAPS

-----------------------------------------------------------------------------
(***************************************************************************)
(* Type correctness.  TypeOK says that account.TokenList lists a coin only *)
(* under a token that has a TokenInfo; for Install to keep that, the same  *)
(* must hold of the lists the scan works on.                               *)
(***************************************************************************)

ScanMapped ==
  \A u \in Updaters :
    /\ \A c \in scanList[u] \cup scanTodo[u] : scanMap[u][TokenOf[c]] # NoMap
    /\ \A t \in scanFunded[u] : scanMap[u][t] # NoMap
    /\ scanRead[u] # NoCoin => scanRead[u] \in scanTodo[u]
    /\ scanPc[u] # "scan" => scanTodo[u] = {} /\ scanFunded[u] = {}

TypeInv == TypeOK /\ ScanMapped

LEMMA TypeStep == TypeInv /\ [Next]_vars => TypeInv'
<1> SUFFICES ASSUME TypeInv, [Next]_vars PROVE TypeInv'
  OBVIOUS
<1> USE AccountAssumption DEF TypeInv, TypeOK, ScanMapped
<1>1. ASSUME NEW c \in Coins, Receive(c) PROVE TypeInv'
  BY <1>1 DEF Receive, vars, accVars, txVars, scanVars
<1>2. ASSUME NEW x \in Txs, Include(x) PROVE TypeInv'
  BY <1>2 DEF Include, vars, accVars, txVars, scanVars
<1>3. ASSUME NEW x \in Txs, Evict(x) PROVE TypeInv'
  BY <1>3 DEF Evict, vars, accVars, txVars, scanVars
<1>4. ASSUME NEW x \in Txs, NEW F \in SUBSET Coins, ChoosePRV(x, F) PROVE TypeInv'
  BY <1>4 DEF ChoosePRV, TxStep, vars, accVars, txVars, scanVars
<1>5. ASSUME NEW x \in Txs, NEW n \in Coins, ChooseNFT(x, n) PROVE TypeInv'
  BY <1>5 DEF ChooseNFT, TxStep, vars, accVars, txVars, scanVars
<1>6. ASSUME NEW x \in Txs, Fail(x) PROVE TypeInv'
  BY <1>6 DEF Fail, vars, accVars, txVars, scanVars
<1>7. ASSUME NEW x \in Txs, SendOk(x) PROVE TypeInv'
  BY <1>7 DEF SendOk, Send, vars, accVars, txVars, scanVars
<1>8. ASSUME NEW x \in Txs, SendLost(x) PROVE TypeInv'
  BY <1>8 DEF SendLost, Send, vars, accVars, txVars, scanVars
<1>9. ASSUME NEW x \in Txs, Finish(x) PROVE TypeInv'
  BY <1>9 DEF Finish, TxStep, vars, accVars, txVars, scanVars
<1>10. ASSUME NEW x \in Txs, NEW t \in Tokens, MarkInputs(x, t) PROVE TypeInv'
  BY <1>10 DEF MarkInputs, MarkTempUsed, UpdateMarks, TokensOf, vars, accVars, txVars, scanVars
<1>11. ASSUME NEW x \in Txs, NEW t \in Tokens, WaiterConfirms(x, t) PROVE TypeInv'
  BY <1>11 DEF WaiterConfirms, MarkUsed, UpdateMarks, vars, accVars, txVars, scanVars
<1>12. ASSUME NEW x \in Txs, NEW t \in Tokens, WaiterTimesOut(x, t) PROVE TypeInv'
  BY <1>12 DEF WaiterTimesOut, ClearTempUsed, UpdateMarks, StateOf, vars, accVars, txVars, scanVars
<1>13. ASSUME NEW u \in Updaters, Clone(u) PROVE TypeInv'
  BY <1>13 DEF Clone, ScanStep, vars, accVars, txVars, scanVars
<1>14. ASSUME NEW u \in Updaters, FetchOk(u) PROVE TypeInv'
  <2>1. PICK fresh \in [Tokens -> MapIds \cup {NoMap}] : Fetch(u, fresh)
    BY <1>14 DEF FetchOk
  <2>2. TypeOK'
    BY <2>1 DEF Fetch, ScanStep, Unspent, TokensOf, accVars, txVars
  <2>3. ScanMapped'
    <3>1. scanTodo' = [scanTodo EXCEPT ![u] = Unspent]
      BY <2>1 DEF Fetch
    <3>2. ASSUME NEW c \in scanList'[u] \cup scanTodo'[u]
          PROVE  scanMap'[u][TokenOf[c]] # NoMap
      <4>1. c \in Coins /\ TokenOf[c] \in TokensOf(Unspent)
        BY <2>1 DEF Fetch, Unspent, TokensOf
      <4>2. scanMap[u][TokenOf[c]] = NoMap => fresh[TokenOf[c]] # NoMap
        BY <2>1, <4>1 DEF Fetch, FreshMaps
      <4> QED  BY <2>1, <4>1, <4>2 DEF Fetch
    <3> QED  BY <2>1, <3>2 DEF Fetch, ScanStep
  <2> QED  BY <2>2, <2>3
<1>15. ASSUME NEW u \in Updaters, FetchFails(u) PROVE TypeInv'
  BY <1>15 DEF FetchFails, ScanStep, vars, accVars, txVars, scanVars
<1>16. ASSUME NEW u \in Updaters, NEW c \in Coins, ReadState(u, c) PROVE TypeInv'
  <2>1. /\ c \in scanTodo[u] /\ scanRead[u] = NoCoin
        /\ UNCHANGED <<chain, accVars, utxoState, txVars, scanPc, scanList,
                       scanMap, scanAnswer, scanFunded>>
    BY <1>16 DEF ReadState
  <2>2. CASE scanRead' = [scanRead EXCEPT ![u] = c] /\ scanTodo' = scanTodo
    BY <2>1, <2>2 DEF accVars, txVars
  <2>3. CASE scanTodo' = [scanTodo EXCEPT ![u] = @ \ {c}] /\ scanRead' = scanRead
    BY <2>1, <2>3 DEF accVars, txVars
  <2> QED  BY <1>16, <2>2, <2>3 DEF ReadState
<1>17. ASSUME NEW u \in Updaters, NEW c \in Coins, AddCoin(u, c) PROVE TypeInv'
  BY <1>17 DEF AddCoin, StoreState, Counted, vars, accVars, txVars, scanVars
<1>18. ASSUME NEW u \in Updaters, NEW c \in Coins, Retire(u, c) PROVE TypeInv'
  BY <1>18 DEF Retire, StoreState, vars, accVars, txVars, scanVars
<1>19. ASSUME NEW u \in Updaters, WriteState(u) PROVE TypeInv'
  BY <1>19 DEF WriteState, StoreState, Counted, vars, accVars, txVars, scanVars
<1>20. ASSUME NEW u \in Updaters, Install(u) PROVE TypeInv'
  BY <1>20 DEF Install, ScanStep, KeptCoins, vars, accVars, txVars, scanVars
<1>21. CASE UNCHANGED vars
  BY <1>21 DEF vars, accVars, txVars, scanVars
<1> QED
  BY <1>1, <1>2, <1>3, <1>4, <1>5, <1>6, <1>7, <1>8, <1>9, <1>10, <1>11, <1>12, <1>13, <1>14, <1>15, <1>16, <1>17, <1>18, <1>19, <1>20, <1>21
     DEF Next, NodeNext, TxNext, ScanNext, Reconcile

\* The account's variables have their types in every reachable state, and
\* account.TokenList lists coins only under tokens it knows.
THEOREM TypeCorrect == Spec => []TypeOK
<1>1. Init => TypeInv
  BY AccountAssumption DEF Init, TypeInv, TypeOK, ScanMapped
<1>2. TypeInv => TypeOK
  BY DEF TypeInv
<1> QED  BY <1>1, <1>2, TypeStep, PTL DEF Spec

-----------------------------------------------------------------------------
(***************************************************************************)
(* RetiredIsSpent.  A scan retires what the clone lists and the answer     *)
(* does not contain.  The clone lists only coins the chain had, so a coin  *)
(* missing from the answer, taken later, is spent; and the waiter marks    *)
(* only the inputs of a transaction that it saw in a block.                *)
(***************************************************************************)

OnChain ==
  /\ \A c \in utxoList : chain[c] # "absent"
  /\ \A x \in Txs : \A c \in txInputs[x] : chain[c] # "absent"
  /\ \A u \in Updaters : \A c \in scanList[u] \cup scanTodo[u] : chain[c] # "absent"

MissingIsSpent ==
  \A u \in Updaters : scanPc[u] = "scan" =>
    /\ scanTodo[u] \subseteq scanAnswer[u]
    /\ \A c \in scanList[u] \ scanAnswer[u] : chain[c] = "spent"

BlockSpends ==
  \A x \in Txs :
    /\ txPool[x] = "block" => \A c \in txInputs[x] : chain[c] = "spent"
    /\ txPc[x] \in {"idle", "fee", "nft"} => txPool[x] = "none"

SpentInv == RetiredIsSpent /\ OnChain /\ MissingIsSpent /\ BlockSpends

LEMMA SpentStep == TypeInv /\ SpentInv /\ [Next]_vars => SpentInv'
<1> SUFFICES ASSUME TypeInv /\ SpentInv, [Next]_vars PROVE SpentInv'
  OBVIOUS
<1> USE AccountAssumption DEF TypeInv, TypeOK, ScanMapped, SpentInv, RetiredIsSpent, OnChain,
                             MissingIsSpent, BlockSpends
<1>1. ASSUME NEW c \in Coins, Receive(c) PROVE SpentInv'
  BY <1>1 DEF Receive, vars, accVars, txVars, scanVars
<1>2. ASSUME NEW x \in Txs, Include(x) PROVE SpentInv'
  BY <1>2 DEF Include, vars, accVars, txVars, scanVars
<1>3. ASSUME NEW x \in Txs, Evict(x) PROVE SpentInv'
  BY <1>3 DEF Evict, vars, accVars, txVars, scanVars
<1>4. ASSUME NEW x \in Txs, NEW F \in SUBSET Coins, ChoosePRV(x, F) PROVE SpentInv'
  BY <1>4 DEF ChoosePRV, TxStep, Offered, vars, accVars, txVars, scanVars
<1>5. ASSUME NEW x \in Txs, NEW n \in Coins, ChooseNFT(x, n) PROVE SpentInv'
  BY <1>5 DEF ChooseNFT, TxStep, OfToken, Offered, vars, accVars, txVars, scanVars
<1>6. ASSUME NEW x \in Txs, Fail(x) PROVE SpentInv'
  BY <1>6 DEF Fail, vars, accVars, txVars, scanVars
<1>7. ASSUME NEW x \in Txs, SendOk(x) PROVE SpentInv'
  BY <1>7 DEF SendOk, Send, vars, accVars, txVars, scanVars
<1>8. ASSUME NEW x \in Txs, SendLost(x) PROVE SpentInv'
  BY <1>8 DEF SendLost, Send, vars, accVars, txVars, scanVars
<1>9. ASSUME NEW x \in Txs, Finish(x) PROVE SpentInv'
  BY <1>9 DEF Finish, TxStep, vars, accVars, txVars, scanVars
<1>10. ASSUME NEW x \in Txs, NEW t \in Tokens, MarkInputs(x, t) PROVE SpentInv'
  BY <1>10 DEF MarkInputs, MarkTempUsed, UpdateMarks, TokensOf, OfToken, vars, accVars, txVars, scanVars
<1>11. ASSUME NEW x \in Txs, NEW t \in Tokens, WaiterConfirms(x, t) PROVE SpentInv'
  BY <1>11 DEF WaiterConfirms, CheckTxInBlock, MarkUsed, UpdateMarks, OfToken, vars, accVars, txVars, scanVars
<1>12. ASSUME NEW x \in Txs, NEW t \in Tokens, WaiterTimesOut(x, t) PROVE SpentInv'
  BY <1>12 DEF WaiterTimesOut, ClearTempUsed, UpdateMarks, StateOf, OfToken, vars, accVars, txVars, scanVars
<1>13. ASSUME NEW u \in Updaters, Clone(u) PROVE SpentInv'
  BY <1>13 DEF Clone, ScanStep, vars, accVars, txVars, scanVars
<1>14. ASSUME NEW u \in Updaters,
             NEW fresh \in [Tokens -> MapIds \cup {NoMap}], Fetch(u, fresh) PROVE SpentInv'
  BY <1>14 DEF Fetch, ScanStep, Unspent, TokensOf, FreshMaps, vars, accVars, txVars, scanVars
<1>15. ASSUME NEW u \in Updaters, FetchFails(u) PROVE SpentInv'
  BY <1>15 DEF FetchFails, ScanStep, vars, accVars, txVars, scanVars
<1>16. ASSUME NEW u \in Updaters, NEW c \in Coins, ReadState(u, c) PROVE SpentInv'
  <2>1. UNCHANGED <<chain, accVars, utxoState, txVars, scanPc, scanList, scanAnswer>>
    BY <1>16 DEF ReadState
  <2>2. scanTodo' = scanTodo \/ scanTodo' = [scanTodo EXCEPT ![u] = @ \ {c}]
    BY <1>16 DEF ReadState
  <2>3. \A v \in Updaters : scanTodo'[v] \subseteq scanTodo[v]
    <3>1. CASE scanTodo' = scanTodo
      BY <3>1
    <3>2. CASE scanTodo' = [scanTodo EXCEPT ![u] = @ \ {c}]
      BY <3>2
    <3> QED  BY <2>2, <3>1, <3>2
  <2>4. RetiredIsSpent' /\ OnChain' /\ BlockSpends'
    BY <2>1, <2>3 DEF accVars, txVars
  <2>5. MissingIsSpent'
    BY <2>1, <2>3
  <2> QED  BY <2>4, <2>5
<1>17. ASSUME NEW u \in Updaters, NEW c \in Coins, AddCoin(u, c) PROVE SpentInv'
  BY <1>17 DEF AddCoin, StoreState, Counted, vars, accVars, txVars, scanVars
<1>18. ASSUME NEW u \in Updaters, NEW c \in Coins, Retire(u, c) PROVE SpentInv'
  BY <1>18 DEF Retire, StoreState, vars, accVars, txVars, scanVars
<1>19. ASSUME NEW u \in Updaters, WriteState(u) PROVE SpentInv'
  BY <1>19 DEF WriteState, StoreState, Counted, vars, accVars, txVars, scanVars
<1>20. ASSUME NEW u \in Updaters, Install(u) PROVE SpentInv'
  BY <1>20 DEF Install, ScanStep, KeptCoins, vars, accVars, txVars, scanVars
<1>21. CASE UNCHANGED vars
  BY <1>21 DEF vars, accVars, txVars, scanVars
<1> QED
  BY <1>1, <1>2, <1>3, <1>4, <1>5, <1>6, <1>7, <1>8, <1>9, <1>10, <1>11, <1>12, <1>13, <1>14, <1>15, <1>16, <1>17, <1>18, <1>19, <1>20, <1>21
     DEF Next, NodeNext, TxNext, ScanNext, FetchOk, Reconcile

\* For all constants: no coin that the chain still holds unspent is ever given
\* state 2 "spent (in block)", by the waiters or by Update.
THEOREM RetiredCorrect == Spec => []RetiredIsSpent
<1>1. Init => TypeInv /\ SpentInv
  BY AccountAssumption
     DEF Init, TypeInv, TypeOK, ScanMapped, SpentInv, RetiredIsSpent, OnChain,
         MissingIsSpent, BlockSpends
<1>2. TypeInv /\ SpentInv /\ [Next]_vars => (TypeInv /\ SpentInv)'
  BY TypeStep, SpentStep
<1>3. TypeInv /\ SpentInv => RetiredIsSpent
  BY DEF SpentInv
<1> QED  BY <1>1, <1>2, <1>3, PTL DEF Spec

-----------------------------------------------------------------------------
(***************************************************************************)
(* TempUsedIsWatched, when a single goroutine updates the account.  Then   *)
(* the map a scan works on is either the account's own, so that the marks  *)
(* and the waiters reach it, or a new one for a token the account does not *)
(* list, on which nobody can have set state 1.                             *)
(***************************************************************************)

Watched(c) ==
  \E x \in Txs : /\ c \in txInputs[x]
                 /\ \/ txPc[x] \in {"sent", "feeMarked"}
                    \/ TokenOf[c] \in txWatch[x]

MarkedIsWatched == \A c \in Coins : StateOf(c) = 1 => Watched(c)

MapsAgree ==
  \A u \in Updaters : 
    /\ scanPc[u] = "idle" => \A t \in Tokens : scanMap[u][t] = NoMap
    /\ scanPc[u] = "cloned" => scanMap[u] = tokenMap
    /\ \A t \in Tokens : scanMap[u][t] # NoMap /\ tokenMap[t] # NoMap
                           => scanMap[u][t] = tokenMap[t]

NewMapsUnmarked ==
  \A u \in Updaters, c \in Coins :
    scanMap[u][TokenOf[c]] # NoMap /\ tokenMap[TokenOf[c]] = NoMap
      => utxoState[scanMap[u][TokenOf[c]]][c] # 1

WaitersFollow == \A x \in Txs : txPc[x] # "followed" => txWatch[x] = {}

WatchInv == MarkedIsWatched /\ MapsAgree /\ NewMapsUnmarked /\ WaitersFollow

OneUpdater == \A u, v \in Updaters : u = v

\* A step that leaves the account and the scans alone only has to keep what
\* watches each coin.
LEMMA WatchFrame ==
  ASSUME WatchInv, UNCHANGED <<accVars, utxoState, scanVars>>, WaitersFollow',
         \A c \in Coins : Watched(c) => Watched(c)'
  PROVE  WatchInv'
<1>1. MarkedIsWatched'
  BY DEF WatchInv, MarkedIsWatched, StateOf, accVars
<1>2. MapsAgree'
  BY DEF WatchInv, MapsAgree, accVars, scanVars
<1>3. NewMapsUnmarked'
  BY DEF WatchInv, NewMapsUnmarked, accVars, scanVars
<1> QED  BY <1>1, <1>2, <1>3 DEF WatchInv

LEMMA WatchStep == OneUpdater /\ TypeInv /\ WatchInv /\ [Next]_vars => WatchInv'
<1> SUFFICES ASSUME OneUpdater, TypeInv, WatchInv, [Next]_vars PROVE WatchInv'
  OBVIOUS
<1> USE AccountAssumption DEF OneUpdater, TypeInv, TypeOK, ScanMapped, WatchInv, MarkedIsWatched, MapsAgree,
             NewMapsUnmarked, WaitersFollow, Watched, StateOf
<1>1. ASSUME NEW c \in Coins, Receive(c) PROVE WatchInv'
  BY <1>1 DEF Receive, vars, accVars, txVars, scanVars
<1>2. ASSUME NEW x \in Txs, Include(x) PROVE WatchInv'
  BY <1>2 DEF Include, vars, accVars, txVars, scanVars
<1>3. ASSUME NEW x \in Txs, Evict(x) PROVE WatchInv'
  BY <1>3 DEF Evict, vars, accVars, txVars, scanVars
<1>4. ASSUME NEW x \in Txs, NEW F \in SUBSET Coins, ChoosePRV(x, F) PROVE WatchInv'
  <2>1. UNCHANGED <<accVars, utxoState, scanVars>>
    BY <1>4 DEF ChoosePRV, TxStep
  <2>2. WaitersFollow'
    BY <1>4 DEF ChoosePRV, TxStep
  <2>3. ASSUME NEW c \in Coins, Watched(c) PROVE Watched(c)'
    <3>1. PICK y \in Txs : /\ c \in txInputs[y]
                           /\ \/ txPc[y] \in {"sent", "feeMarked"}
                              \/ TokenOf[c] \in txWatch[y]
      BY <2>3
    <3>2. y # x
      BY <1>4, <3>1 DEF ChoosePRV, TxStep
    <3> QED  BY <1>4, <3>1, <3>2 DEF ChoosePRV, TxStep
  <2> QED  BY <2>1, <2>2, <2>3, WatchFrame
<1>5. ASSUME NEW x \in Txs, NEW n \in Coins, ChooseNFT(x, n) PROVE WatchInv'
  <2>1. UNCHANGED <<accVars, utxoState, scanVars>>
    BY <1>5 DEF ChooseNFT, TxStep
  <2>2. WaitersFollow'
    BY <1>5 DEF ChooseNFT, TxStep
  <2>3. ASSUME NEW c \in Coins, Watched(c) PROVE Watched(c)'
    <3>1. PICK y \in Txs : /\ c \in txInputs[y]
                           /\ \/ txPc[y] \in {"sent", "feeMarked"}
                              \/ TokenOf[c] \in txWatch[y]
      BY <2>3
    <3>2. y # x
      BY <1>5, <3>1 DEF ChooseNFT, TxStep
    <3> QED  BY <1>5, <3>1, <3>2 DEF ChooseNFT, TxStep
  <2> QED  BY <2>1, <2>2, <2>3, WatchFrame
<1>6. ASSUME NEW x \in Txs, Fail(x) PROVE WatchInv'
  <2>1. UNCHANGED <<accVars, utxoState, scanVars>>
    BY <1>6 DEF Fail
  <2>2. WaitersFollow'
    BY <1>6 DEF Fail
  <2>3. ASSUME NEW c \in Coins, Watched(c) PROVE Watched(c)'
    <3>1. PICK y \in Txs : /\ c \in txInputs[y]
                           /\ \/ txPc[y] \in {"sent", "feeMarked"}
                              \/ TokenOf[c] \in txWatch[y]
      BY <2>3
    <3>2. y # x
      BY <1>6, <3>1 DEF Fail
    <3> QED  BY <1>6, <3>1, <3>2 DEF Fail
  <2> QED  BY <2>1, <2>2, <2>3, WatchFrame
<1>7. ASSUME NEW x \in Txs, NEW to \in {"sent", "followed"}, Send(x, to) PROVE WatchInv'
  <2>1. UNCHANGED <<accVars, utxoState, scanVars>>
    BY <1>7 DEF Send
  <2>2. WaitersFollow'
    BY <1>7 DEF Send
  <2>3. ASSUME NEW c \in Coins, Watched(c) PROVE Watched(c)'
    <3>1. PICK y \in Txs : /\ c \in txInputs[y]
                           /\ \/ txPc[y] \in {"sent", "feeMarked"}
                              \/ TokenOf[c] \in txWatch[y]
      BY <2>3
    <3>2. y # x
      BY <1>7, <3>1 DEF Send
    <3> QED  BY <1>7, <3>1, <3>2 DEF Send
  <2> QED  BY <2>1, <2>2, <2>3, WatchFrame
<1>8. ASSUME NEW x \in Txs, Finish(x) PROVE WatchInv'
  <2>1. UNCHANGED <<accVars, utxoState, scanVars>>
    BY <1>8 DEF Finish, TxStep
  <2>2. WaitersFollow'
    BY <1>8 DEF Finish, TxStep
  <2>3. ASSUME NEW c \in Coins, Watched(c) PROVE Watched(c)'
    <3>1. PICK y \in Txs : /\ c \in txInputs[y]
                           /\ \/ txPc[y] \in {"sent", "feeMarked"}
                              \/ TokenOf[c] \in txWatch[y]
      BY <2>3
    <3>2. y # x
      BY <1>8, <3>1 DEF Finish, TxStep
    <3> QED  BY <1>8, <3>1, <3>2 DEF Finish, TxStep
  <2> QED  BY <2>1, <2>2, <2>3, WatchFrame
<1>9. ASSUME NEW x \in Txs, NEW t \in Tokens, MarkInputs(x, t) PROVE WatchInv'
  <2>1. UNCHANGED <<accVars, txInputs, scanVars>>
    BY <1>9 DEF MarkInputs, MarkTempUsed, accVars
  <2>2. /\ txPc[x] \in {"sent", "feeMarked"}
        /\ \A y \in Txs \ {x} : txPc'[y] = txPc[y] /\ txWatch'[y] = txWatch[y]
        /\ \/ txPc'[x] = "feeMarked" /\ txWatch'[x] = {}
           \/ txPc'[x] = "followed" /\ txWatch'[x] = TokensOf(txInputs[x])
    BY <1>9 DEF MarkInputs
  <2>3. ASSUME NEW c \in Coins, Watched(c) \/ c \in txInputs[x]
        PROVE  Watched(c)'
    <3>1. CASE c \in txInputs[x]
      <4>1. c \in txInputs'[x] /\ txPc'[x] = "followed" => TokenOf[c] \in txWatch'[x]
        BY <2>1, <2>2, <3>1 DEF TokensOf
      <4> QED  BY <2>1, <2>2, <3>1, <4>1
    <3>2. CASE c \notin txInputs[x]
      BY <2>1, <2>2, <2>3, <3>2
    <3> QED  BY <3>1, <3>2
  <2>4. ASSUME NEW m \in MapIds, NEW c \in Coins,
               utxoState'[m][c] # utxoState[m][c]
        PROVE  c \in txInputs[x] /\ m = tokenMap[TokenOf[c]]
    BY <1>9, <2>4 DEF MarkInputs, MarkTempUsed, UpdateMarks, OfToken
  <2>5. MarkedIsWatched'
    BY <2>1, <2>3, <2>4 DEF accVars
  <2>6. MapsAgree' /\ NewMapsUnmarked'
    BY <2>1, <2>4, <1>9 DEF accVars, scanVars, MarkInputs
  <2>7. WaitersFollow'
    BY <2>2
  <2> QED  BY <2>5, <2>6, <2>7
<1>10. ASSUME NEW x \in Txs, NEW t \in Tokens, WaiterConfirms(x, t) PROVE WatchInv'
  BY <1>10 DEF WaiterConfirms, CheckTxInBlock, MarkUsed, UpdateMarks, OfToken, vars, accVars, txVars, scanVars
<1>11. ASSUME NEW x \in Txs, NEW t \in Tokens, WaiterTimesOut(x, t) PROVE WatchInv'
  <2>1. /\ UNCHANGED <<utxoList, tokenMap, txInputs, txPc, scanVars>>
        /\ txWatch' = [txWatch EXCEPT ![x] = @ \ {t}]
    BY <1>11 DEF WaiterTimesOut, ClearTempUsed
  <2>2. ASSUME NEW m \in MapIds, NEW c \in Coins
        PROVE  utxoState'[m][c] = 1 =>
                 utxoState[m][c] = 1 /\ ~(m = tokenMap[t] /\ c \in txInputs[x] /\ TokenOf[c] = t)
    BY <1>11 DEF WaiterTimesOut, ClearTempUsed, UpdateMarks, OfToken
  <2>3. MarkedIsWatched'
    <3> SUFFICES ASSUME NEW c \in Coins, StateOf(c)' = 1 PROVE Watched(c)'
      OBVIOUS
    <3>1. StateOf(c) = 1 /\ ~(c \in txInputs[x] /\ TokenOf[c] = t)
      BY <2>1, <2>2
    <3> QED  BY <2>1, <3>1
  <2>4. MapsAgree' /\ NewMapsUnmarked'
    BY <2>1, <2>2 DEF scanVars
  <2>5. WaitersFollow'
    BY <2>1
  <2> QED  BY <2>3, <2>4, <2>5
<1>12. ASSUME NEW u \in Updaters, Clone(u) PROVE WatchInv'
  BY <1>12 DEF Clone, ScanStep, vars, accVars, txVars, scanVars
<1>13. ASSUME NEW u \in Updaters,
             NEW fresh \in [Tokens -> MapIds \cup {NoMap}], Fetch(u, fresh) PROVE WatchInv'
  <2>1. /\ UNCHANGED <<utxoList, tokenMap, txVars>>
        /\ scanPc[u] = "cloned" /\ scanPc' = [scanPc EXCEPT ![u] = "scan"]
        /\ \A t \in Tokens : /\ fresh[t] # NoMap => scanMap[u][t] = NoMap /\ fresh[t] # tokenMap[t]
                             /\ scanMap'[u][t] \in {NoMap, fresh[t], scanMap[u][t]}
        /\ \A v \in Updaters : v = u
    BY <1>13 DEF Fetch, ScanStep, FreshMaps, accVars
  <2>2. ASSUME NEW m \in MapIds, NEW c \in Coins
        PROVE  utxoState'[m][c] = IF m = fresh[TokenOf[c]] THEN -1 ELSE utxoState[m][c]
    BY <1>13 DEF Fetch
  <2>3. MarkedIsWatched' /\ WaitersFollow'
    BY <2>1, <2>2 DEF txVars
  <2>4. MapsAgree'
    BY <2>1
  <2>5. NewMapsUnmarked'
    BY <2>1, <2>2
  <2> QED  BY <2>3, <2>4, <2>5
<1>14. ASSUME NEW u \in Updaters, FetchFails(u) PROVE WatchInv'
  BY <1>14 DEF FetchFails, ScanStep, vars, accVars, txVars, scanVars
<1>15. ASSUME NEW u \in Updaters, NEW c \in Coins, ReadState(u, c) PROVE WatchInv'
  BY <1>15 DEF ReadState, vars, accVars, txVars, scanVars
<1>16. ASSUME NEW u \in Updaters, NEW c \in Coins, AddCoin(u, c) PROVE WatchInv'
  BY <1>16 DEF AddCoin, StoreState, Counted, vars, accVars, txVars, scanVars
<1>17. ASSUME NEW u \in Updaters, NEW c \in Coins, Retire(u, c) PROVE WatchInv'
  BY <1>17 DEF Retire, StoreState, vars, accVars, txVars, scanVars
<1>18. ASSUME NEW u \in Updaters, WriteState(u) PROVE WatchInv'
  <2>1. UNCHANGED <<accVars, txVars, scanPc, scanMap>>
    BY <1>18 DEF WriteState
  <2>2. ASSUME NEW m \in MapIds, NEW c \in Coins
        PROVE  utxoState'[m][c] \in {0, utxoState[m][c]}
    BY <1>18 DEF WriteState, StoreState
  <2>3. MarkedIsWatched' /\ WaitersFollow'
    BY <2>1, <2>2 DEF accVars, txVars
  <2>4. MapsAgree' /\ NewMapsUnmarked'
    BY <2>1, <2>2 DEF accVars
  <2> QED  BY <2>3, <2>4
<1>19. ASSUME NEW u \in Updaters, Install(u) PROVE WatchInv'
  BY <1>19 DEF Install, ScanStep, KeptCoins, vars, accVars, txVars, scanVars
<1>20. CASE UNCHANGED vars
  BY <1>20 DEF vars, accVars, txVars, scanVars
<1> QED
  BY <1>1, <1>2, <1>3, <1>4, <1>5, <1>6, <1>7, <1>8, <1>9, <1>10, <1>11, <1>12, <1>13, <1>14, <1>15, <1>16, <1>17, <1>18, <1>19, <1>20
     DEF Next, NodeNext, TxNext, SendOk, SendLost, ScanNext, FetchOk, Reconcile

\* For all constants with a single updater: a listed coin in state 1 always has
\* a spender or a waiter that will take the mark back.
THEOREM TempUsedCorrect == OneUpdater => (Spec => []TempUsedIsWatched)
<1>1. OneUpdater /\ Init => TypeInv /\ WatchInv
  BY AccountAssumption
     DEF Init, TypeInv, TypeOK, ScanMapped, WatchInv, MarkedIsWatched, MapsAgree,
         NewMapsUnmarked, WaitersFollow, StateOf
<1>2. OneUpdater /\ TypeInv /\ WatchInv /\ [Next]_vars => (TypeInv /\ WatchInv)'
  BY TypeStep, WatchStep
<1>3. TypeInv /\ WatchInv => TempUsedIsWatched
  BY DEF TypeInv, TypeOK, WatchInv, MarkedIsWatched, Watched, TempUsedIsWatched
<1> QED
  <2> SUFFICES ASSUME OneUpdater PROVE Spec => []TempUsedIsWatched
    OBVIOUS
  <2>1. Init => TypeInv /\ WatchInv
    BY <1>1
  <2>2. TypeInv /\ WatchInv /\ [Next]_vars => (TypeInv /\ WatchInv)'
    BY <1>2
  <2> QED  BY <2>1, <2>2, <1>3, PTL DEF Spec

\* What two updaters do to the account a single one cannot: an unspent coin is
\* never marked for good.
THEOREM NoCoinStrandedCorrect == OneUpdater => (Spec => []NoCoinStranded)
<1>1. TempUsedIsWatched => NoCoinStranded
  BY DEF TempUsedIsWatched, NoCoinStranded
<1> SUFFICES ASSUME OneUpdater PROVE Spec => []NoCoinStranded
  OBVIOUS
<1>2. Spec => []TempUsedIsWatched
  BY TempUsedCorrect
<1> QED  BY <1>1, <1>2, PTL
=============================================================================
