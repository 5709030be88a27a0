----------------------------- MODULE AccountInfo -----------------------------
(***************************************************************************)
(* One airdrop account of nftdrop: the UTXO bookkeeping of                 *)
(* nftdrop/account_info.go, as transferNFT, transferPRV and mintNFT        *)
(* (nftdrop/txs.go) spend its coins, waitingCheckTxInBlock                 *)
(* (nftdrop/common.go) follows each transaction, and Update re-scans the   *)
(* chain.  The full node is external: it keeps the coins' fate and a       *)
(* mempool.                                                                *)
(*                                                                         *)
(* A token's TokenInfo holds a list of coins (copied by clone) and a       *)
(* pointer to a state map (shared by clone and by the Update that works on *)
(* the clone).  The pointers are modelled as identities in MapIds, so that *)
(* two TokenInfos may or may not share a map, as in the code.              *)
(***************************************************************************)
EXTENDS Integers, FiniteSets

CONSTANTS
  Coins,      \* serial numbers of the coins the account may come to own
  Tokens,     \* token identifiers
  TokenOf,    \* the token of each coin
  PRV,        \* the fee token; every other token is an NFT
  Txs,        \* slots for concurrent transactions of the account
  Updaters,   \* goroutines that may run Update on the account
  MapIds,     \* identities of UTXOState maps
  NoMap,      \* "the token has no TokenInfo"
  NoCoin,     \* "no coin is being examined"
  LossyRPC    \* TRUE: SendRawTx may report an error for an accepted tx

ASSUME AccountAssumption ==
  /\ TokenOf \in [Coins -> Tokens]
  /\ PRV \in Tokens
  /\ NoMap \notin MapIds
  /\ NoCoin \notin Coins
  /\ LossyRPC \in BOOLEAN

VARIABLES
  chain,       \* the node's view of each coin
  utxoList,    \* coins listed in account.TokenList, all tokens together
  tokenMap,    \* the UTXOState map of each token in account.TokenList
  utxoState,   \* the contents of the UTXOState maps; -1 is "not found"
  txPc, txInputs, txWatch, txPool,
  scanPc, scanList, scanMap, scanAnswer, scanTodo, scanRead, scanFunded

accVars  == <<utxoList, tokenMap>>
txVars   == <<txPc, txInputs, txWatch, txPool>>
scanVars == <<scanPc, scanList, scanMap, scanAnswer, scanTodo, scanRead,
              scanFunded>>
vars     == <<chain, accVars, utxoState, txVars, scanVars>>

TokensOf(S) == {TokenOf[c] : c \in S}
OfToken(S, t) == {c \in S : TokenOf[c] = t}

-----------------------------------------------------------------------------
(***************************************************************************)
(* The account: what GetListUnspentOutput offers and the three marks.      *)
(***************************************************************************)

\* getUTXOState on the account's own TokenInfo; a token that is not in
\* TokenList has no coin state at all.
StateOf(c) == IF tokenMap[TokenOf[c]] = NoMap
              THEN -1 ELSE utxoState[tokenMap[TokenOf[c]]][c]

Offered(c) == c \in utxoList /\ StateOf(c) <= 0

\* Write mark[c] for the coins of S in the map of token t, if t is listed.
UpdateMarks(t, S, mark) ==
  utxoState' = IF tokenMap[t] = NoMap
               THEN utxoState
               ELSE [utxoState EXCEPT ![tokenMap[t]] =
                       [c \in Coins |-> IF c \in OfToken(S, t)
                                        THEN mark[c] ELSE @[c]]]

MarkTempUsed(t, S) ==
  /\ UpdateMarks(t, S, [c \in Coins |-> 1])
  /\ UNCHANGED utxoList

\* A plausible slip in ClearTempUsed: the test on the state is off by one.
ClearTempUsedSkipsOne(t, S) ==
  /\ UpdateMarks(t, S, [c \in Coins |-> IF StateOf(c) \in {-1, 1, 2} THEN StateOf(c) ELSE 0])
  /\ UNCHANGED utxoList

\* A coin that is not found or spent keeps its state.
ClearTempUsed(t, S) ==
  /\ UpdateMarks(t, S, [c \in Coins |-> IF StateOf(c) \in {-1, 2} THEN StateOf(c) ELSE 0])
  /\ UNCHANGED utxoList

MarkUsed(t, S) ==
  /\ UpdateMarks(t, S, [c \in Coins |-> 2])
  /\ utxoList' = IF tokenMap[t] = NoMap THEN utxoList
                 ELSE utxoList \ OfToken(S, t)

-----------------------------------------------------------------------------
(***************************************************************************)
(* The node.                                                               *)
(***************************************************************************)

Unspent == {c \in Coins : chain[c] = "unspent"}

Receive(c) ==
  /\ chain[c] = "absent"
  /\ chain' = [chain EXCEPT ![c] = "unspent"]
  /\ UNCHANGED <<accVars, utxoState, txVars, scanVars>>

\* The mempool refuses a transaction that spends a spent coin or shares an
\* input with another pooled transaction.
NodeAccepts(x) ==
  /\ txInputs[x] \subseteq Unspent
  /\ \A y \in Txs : txPool[y] = "pool" => txInputs[x] \cap txInputs[y] = {}

Include(x) ==
  /\ txPool[x] = "pool"
  /\ txPool' = [txPool EXCEPT ![x] = "block"]
  /\ chain' = [c \in Coins |-> IF c \in txInputs[x] THEN "spent" ELSE chain[c]]
  /\ UNCHANGED <<accVars, utxoState, txPc, txInputs, txWatch, scanVars>>

Evict(x) ==
  /\ txPool[x] = "pool"
  /\ txPool' = [txPool EXCEPT ![x] = "gone"]
  /\ UNCHANGED <<chain, accVars, utxoState, txPc, txInputs, txWatch, scanVars>>

-----------------------------------------------------------------------------
(***************************************************************************)
(* A spending goroutine.  transferPRV and mintNFT spend PRV coins only;    *)
(* transferNFT picks its fee coins, then an NFT, then that NFT's coin.     *)
(***************************************************************************)

TxStep(x, from, to) == txPc[x] = from /\ txPc' = [txPc EXCEPT ![x] = to]

ChoosePRV(x, F) ==
  /\ TxStep(x, "idle", "fee")
  /\ F # {} /\ F \subseteq {c \in OfToken(Coins, PRV) : Offered(c)}
  /\ txInputs' = [txInputs EXCEPT ![x] = F]
  /\ UNCHANGED <<chain, accVars, utxoState, txWatch, txPool, scanVars>>

\* GetRandomNFT returns a token whose balance is exactly one, and
\* ChooseBestUTXOs(nftID, 1) its only coin.
ChooseNFT(x, n) ==
  /\ TxStep(x, "fee", "nft")
  /\ TokenOf[n] # PRV
  /\ {c \in OfToken(Coins, TokenOf[n]) : Offered(c)} = {n}
  /\ txInputs' = [txInputs EXCEPT ![x] = @ \cup {n}]
  /\ UNCHANGED <<chain, accVars, utxoState, txWatch, txPool, scanVars>>

\* No NFT left, the transaction cannot be built, or the node rejects it: the
\* error is returned before any coin has been marked.
Fail(x) ==
  /\ txPc[x] \in {"fee", "nft"}
  /\ txPc' = [txPc EXCEPT ![x] = "idle"]
  /\ txInputs' = [txInputs EXCEPT ![x] = {}]
  /\ UNCHANGED <<chain, accVars, utxoState, txWatch, txPool, scanVars>>

\* SendRawTx, SendRawTokenTx.  When the answer is lost the goroutine returns
\* the error and the pooled transaction is followed by nobody.
Send(x, to) ==
  /\ txPc[x] \in {"fee", "nft"}
  /\ NodeAccepts(x)
  /\ txPool' = [txPool EXCEPT ![x] = "pool"]
  /\ txPc' = [txPc EXCEPT ![x] = to]
  /\ UNCHANGED <<chain, accVars, utxoState, txInputs, txWatch, scanVars>>

SendOk(x)   == Send(x, "sent")
SendLost(x) == LossyRPC /\ Send(x, "followed")

\* MarkTempUsed on the fee coins and then, for transferNFT, on the NFT's
\* coin; the last mark is followed by the go statements that start one
\* waitingCheckTxInBlock per token.
MarkInputs(x, t) ==
  /\ t \in TokensOf(txInputs[x])
  /\ \/ txPc[x] = "sent" /\ t = PRV
     \/ txPc[x] = "feeMarked" /\ t # PRV
  /\ MarkTempUsed(t, txInputs[x])
  /\ LET last == t # PRV \/ TokensOf(txInputs[x]) = {PRV}
     IN  /\ txPc' = [txPc EXCEPT ![x] = IF last THEN "followed" ELSE "feeMarked"]
         /\ txWatch' = [txWatch EXCEPT ![x] = IF last THEN TokensOf(txInputs[x])
                                                      ELSE {}]
  /\ UNCHANGED <<chain, tokenMap, txInputs, txPool, scanVars>>

\* CheckTxInBlock, and a slip that takes a pooled transaction for a final one.
SeesAccepted(x) == txPool[x] # "none"
CheckTxInBlock(x) == txPool[x] = "block"

\* waitingCheckTxInBlock, the two ways it ends.
WaiterConfirms(x, t) ==
  /\ t \in txWatch[x]
  /\ CheckTxInBlock(x)
  /\ MarkUsed(t, txInputs[x])
  /\ txWatch' = [txWatch EXCEPT ![x] = @ \ {t}]
  /\ UNCHANGED <<chain, tokenMap, txPc, txInputs, txPool, scanVars>>

WaiterTimesOut(x, t) ==
  /\ t \in txWatch[x]
  /\ ClearTempUsed(t, txInputs[x])
  /\ txWatch' = [txWatch EXCEPT ![x] = @ \ {t}]
  /\ UNCHANGED <<chain, tokenMap, txPc, txInputs, txPool, scanVars>>

\* The slot is free again once nobody follows the transaction and the node
\* has settled it.
Finish(x) ==
  /\ TxStep(x, "followed", "idle")
  /\ txWatch[x] = {} /\ txPool[x] \in {"block", "gone"}
  /\ txInputs' = [txInputs EXCEPT ![x] = {}]
  /\ txPool' = [txPool EXCEPT ![x] = "none"]
  /\ UNCHANGED <<chain, accVars, utxoState, txWatch, scanVars>>

-----------------------------------------------------------------------------
(***************************************************************************)
(* Update: clone, fetch, reconcile coin by coin in the shared state maps,  *)
(* install the new TokenList.                                              *)
(***************************************************************************)

ScanStep(u, from, to) == scanPc[u] = from /\ scanPc' = [scanPc EXCEPT ![u] = to]

Clone(u) ==
  /\ ScanStep(u, "idle", "cloned")
  /\ scanList' = [scanList EXCEPT ![u] = utxoList]
  /\ scanMap' = [scanMap EXCEPT ![u] = tokenMap]
  /\ UNCHANGED <<chain, accVars, utxoState, txVars, scanAnswer, scanTodo,
                 scanRead, scanFunded>>

\* Maps of token t that nobody points to.
FreshMaps(t) == MapIds \ ({tokenMap[t]} \cup {scanMap[u][t] : u \in Updaters})

\* GetAllUTXOsV2 answers with the unspent coins.  Only the tokens in the
\* answer are processed; one without a TokenInfo in the clone gets a new,
\* empty one (NewTokenInfo).
Fetch(u, fresh) ==
  LET answered == TokensOf(Unspent)
      new == {t \in answered : scanMap[u][t] = NoMap}
  IN  /\ ScanStep(u, "cloned", "scan")
      /\ \A t \in new : fresh[t] \in FreshMaps(t)
      /\ \A t \in Tokens \ new : fresh[t] = NoMap
      /\ scanAnswer' = [scanAnswer EXCEPT ![u] = Unspent]
      /\ scanTodo' = [scanTodo EXCEPT ![u] = Unspent]
      /\ scanList' = [scanList EXCEPT ![u] = {c \in @ : TokenOf[c] \in answered}]
      /\ scanMap' = [scanMap EXCEPT ![u] =
                       [t \in Tokens |-> IF t \notin answered THEN NoMap
                                         ELSE IF t \in new THEN fresh[t]
                                         ELSE @[t]]]
      /\ utxoState' = [m \in MapIds |-> [c \in Coins |->
                         IF m = fresh[TokenOf[c]] THEN -1 ELSE utxoState[m][c]]]
      /\ UNCHANGED <<chain, accVars, txVars, scanRead, scanFunded>>

FetchFails(u) ==
  /\ ScanStep(u, "cloned", "idle")
  /\ scanList' = [scanList EXCEPT ![u] = {}]
  /\ scanMap' = [scanMap EXCEPT ![u] = [t \in Tokens |-> NoMap]]
  /\ UNCHANGED <<chain, accVars, utxoState, txVars, scanAnswer, scanTodo,
                 scanRead, scanFunded>>

StoreState(u, c, s) ==
  utxoState' = [utxoState EXCEPT ![scanMap[u][TokenOf[c]]] = [@ EXCEPT ![c] = s]]

Counted(u, c) ==
  /\ scanTodo' = [scanTodo EXCEPT ![u] = @ \ {c}]
  /\ scanFunded' = [scanFunded EXCEPT ![u] = @ \cup {TokenOf[c]}]

\* A listed coin: its state is read, and written back as 0 by a later step
\* if it was not in use.  No lock covers the two.
ReadState(u, c) ==
  /\ scanPc[u] = "scan" /\ scanRead[u] = NoCoin
  /\ c \in scanTodo[u] \cap scanList[u]
  /\ IF utxoState[scanMap[u][TokenOf[c]]][c] <= 0
     THEN scanRead' = [scanRead EXCEPT ![u] = c] /\ UNCHANGED scanTodo
     ELSE scanTodo' = [scanTodo EXCEPT ![u] = @ \ {c}] /\ UNCHANGED scanRead
  /\ UNCHANGED <<chain, accVars, utxoState, txVars, scanPc, scanList, scanMap,
                 scanAnswer, scanFunded>>

WriteState(u) ==
  /\ scanRead[u] # NoCoin
  /\ StoreState(u, scanRead[u], 0)
  /\ Counted(u, scanRead[u])
  /\ scanRead' = [scanRead EXCEPT ![u] = NoCoin]
  /\ UNCHANGED <<chain, accVars, txVars, scanPc, scanList, scanMap, scanAnswer>>

\* A coin that the clone did not list is added as unspent, whatever the map
\* says of it.
AddCoin(u, c) ==
  /\ scanPc[u] = "scan" /\ scanRead[u] = NoCoin
  /\ c \in scanTodo[u] \ scanList[u]
  /\ StoreState(u, c, 0)
  /\ Counted(u, c)
  /\ scanList' = [scanList EXCEPT ![u] = @ \cup {c}]
  /\ UNCHANGED <<chain, accVars, txVars, scanPc, scanMap, scanAnswer, scanRead>>

\* After the answer's coins of a token, the listed coins that are not in the
\* answer are retired.  A slip keeps them listed.
RetireKeepsListed(u, c) ==
  /\ scanPc[u] = "scan" /\ scanRead[u] = NoCoin
  /\ c \in scanList[u] \ scanAnswer[u]
  /\ OfToken(scanTodo[u], TokenOf[c]) = {}
  /\ scanAnswer' = [scanAnswer EXCEPT ![u] = @ \cup {c}]
  /\ UNCHANGED <<chain, accVars, utxoState, txVars, scanPc, scanList, scanMap,
                 scanTodo, scanRead, scanFunded>>

Retire(u, c) ==
  /\ scanPc[u] = "scan" /\ scanRead[u] = NoCoin
  /\ c \in scanList[u] \ scanAnswer[u]
  /\ OfToken(scanTodo[u], TokenOf[c]) = {}
  /\ StoreState(u, c, 2)
  /\ scanList' = [scanList EXCEPT ![u] = @ \ {c}]
  /\ UNCHANGED <<chain, accVars, txVars, scanPc, scanMap, scanAnswer, scanTodo,
                 scanRead, scanFunded>>

\* Only the tokens with a positive balance are kept.
KeptCoins(u) == {c \in scanList[u] : TokenOf[c] \in scanFunded[u]}

Install(u) ==
  /\ ScanStep(u, "scan", "idle")
  /\ scanRead[u] = NoCoin /\ scanTodo[u] = {} /\ scanList[u] \subseteq scanAnswer[u]
  /\ utxoList' = KeptCoins(u)
  /\ tokenMap' = [t \in Tokens |-> IF t \in scanFunded[u] THEN scanMap[u][t]
                                   ELSE NoMap]
  /\ scanList' = [scanList EXCEPT ![u] = {}]
  /\ scanMap' = [scanMap EXCEPT ![u] = [t \in Tokens |-> NoMap]]
  /\ scanAnswer' = [scanAnswer EXCEPT ![u] = {}]
  /\ scanFunded' = [scanFunded EXCEPT ![u] = {}]
  /\ UNCHANGED <<chain, utxoState, txVars, scanTodo, scanRead>>

-----------------------------------------------------------------------------
Init ==
  /\ chain \in [Coins -> {"absent", "unspent"}]
  /\ utxoList = {}
  /\ tokenMap = [t \in Tokens |-> NoMap]
  /\ utxoState = [m \in MapIds |-> [c \in Coins |-> -1]]
  /\ txPc = [x \in Txs |-> "idle"]
  /\ txInputs = [x \in Txs |-> {}]
  /\ txWatch = [x \in Txs |-> {}]
  /\ txPool = [x \in Txs |-> "none"]
  /\ scanPc = [u \in Updaters |-> "idle"]
  /\ scanList = [u \in Updaters |-> {}]
  /\ scanMap = [u \in Updaters |-> [t \in Tokens |-> NoMap]]
  /\ scanAnswer = [u \in Updaters |-> {}]
  /\ scanTodo = [u \in Updaters |-> {}]
  /\ scanRead = [u \in Updaters |-> NoCoin]
  /\ scanFunded = [u \in Updaters |-> {}]

NodeNext ==
  \/ \E c \in Coins : Receive(c)
  \/ \E x \in Txs : Include(x) \/ Evict(x)

TxNext(x) ==
  \/ \E F \in SUBSET Coins : ChoosePRV(x, F)
  \/ \E n \in Coins : ChooseNFT(x, n)
  \/ Fail(x) \/ SendOk(x) \/ SendLost(x) \/ Finish(x)
  \/ \E t \in Tokens : \/ MarkInputs(x, t)
                       \/ WaiterConfirms(x, t)
                       \/ WaiterTimesOut(x, t)

Reconcile(u) ==
  \/ \E c \in Coins : ReadState(u, c) \/ AddCoin(u, c) \/ Retire(u, c)
  \/ WriteState(u)
  \/ Install(u)

FetchOk(u) == \E fresh \in [Tokens -> MapIds \cup {NoMap}] : Fetch(u, fresh)

ScanNext(u) == Clone(u) \/ FetchOk(u) \/ FetchFails(u) \/ Reconcile(u)

Next ==
  \/ NodeNext
  \/ \E x \in Txs : TxNext(x)
  \/ \E u \in Updaters : ScanNext(u)

Spec == Init /\ [][Next]_vars

\* UpdateAccount calls Update for ever and a full node that answers now and
\* then is assumed; started goroutines run; the node settles what it pools.
Fairness ==
  /\ \A u \in Updaters : /\ WF_vars(Clone(u)) /\ SF_vars(FetchOk(u))
                         /\ WF_vars(Reconcile(u))
  /\ \A x \in Txs, t \in Tokens :
       /\ WF_vars(MarkInputs(x, t))
       /\ WF_vars(WaiterConfirms(x, t) \/ WaiterTimesOut(x, t))
  /\ \A x \in Txs : WF_vars(Include(x) \/ Evict(x))

FairSpec == Spec /\ Fairness

-----------------------------------------------------------------------------
(***************************************************************************)
(* Properties.                                                             *)
(***************************************************************************)

\* Every variable has its type, and account.TokenList lists coins only under
\* tokens it has a TokenInfo for.
TypeOK ==
  /\ chain \in [Coins -> {"absent", "unspent", "spent"}]
  /\ utxoList \subseteq {c \in Coins : tokenMap[TokenOf[c]] # NoMap}
  /\ tokenMap \in [Tokens -> MapIds \cup {NoMap}]
  /\ utxoState \in [MapIds -> [Coins -> -1..2]]
  /\ txPc \in [Txs -> {"idle", "fee", "nft", "sent", "feeMarked", "followed"}]
  /\ txInputs \in [Txs -> SUBSET Coins]
  /\ txWatch \in [Txs -> SUBSET Tokens]
  /\ txPool \in [Txs -> {"none", "pool", "block", "gone"}]
  /\ scanPc \in [Updaters -> {"idle", "cloned", "scan"}]
  /\ scanList \in [Updaters -> SUBSET Coins]
  /\ scanMap \in [Updaters -> [Tokens -> MapIds \cup {NoMap}]]
  /\ scanAnswer \in [Updaters -> SUBSET Coins]
  /\ scanTodo \in [Updaters -> SUBSET Coins]
  /\ scanRead \in [Updaters -> Coins \cup {NoCoin}]
  /\ scanFunded \in [Updaters -> SUBSET Tokens]

\* State 2, "spent (in block)", is never given to a coin the chain still
\* holds unspent: such a coin would be lost to the account until a re-scan
\* from scratch.  Update concludes it from a clone taken before the fetch.
RetiredIsSpent ==
  \A m \in MapIds, c \in Coins : utxoState[m][c] = 2 => chain[c] = "spent"

\* State 1 on a listed coin always has somebody who will take it back: a
\* spender that has yet to start the waiters, or a running waiter.
TempUsedIsWatched ==
  \A c \in utxoList : StateOf(c) = 1 =>
    \E x \in Txs : /\ c \in txInputs[x]
                   /\ \/ txPc[x] \in {"sent", "feeMarked"}
                      \/ TokenOf[c] \in txWatch[x]

\* The same for the coins that matter: with nobody left to clear the mark, a
\* coin the chain still holds unspent is lost to the account.  UpdateAccount's
\* loop and the Update that splitPRV calls may break it together.
NoCoinStranded ==
  \A c \in utxoList : StateOf(c) = 1 /\ chain[c] = "unspent" =>
    \E x \in Txs : /\ c \in txInputs[x]
                   /\ \/ txPc[x] \in {"sent", "feeMarked"}
                      \/ TokenOf[c] \in txWatch[x] \/ txPool[x] = "pool"

\* A coin spent on the chain is, from some moment on, never offered again,
\* in spite of re-scans that started before it was spent.
SpentCoinsLeave == \A c \in Coins : chain[c] = "spent" ~> []~Offered(c)

\* A coin the chain holds unspent is offered at some time, or gets spent: no
\* sequence of failures, timeouts and evictions strands it.
UnspentCoinsReturn ==
  \A c \in Coins : chain[c] = "unspent" ~> (Offered(c) \/ chain[c] = "spent")
=============================================================================
