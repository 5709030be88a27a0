---------------------------- MODULE RescanProofs ----------------------------
(***************************************************************************)
(* Proofs about Rescan: its type invariant, who holds nftListLock, what    *)
(* being available means, and which NFTs are recognised.                   *)
(***************************************************************************)
EXTENDS Rescan, TLAPS

LEMMA InitType == Init => TypeOK
<1> SUFFICES ASSUME Init PROVE TypeOK
  OBVIOUS
<1>1. NoList \in Lists
  BY DEF Lists
<1>2. nftTokens \in [Accounts -> Lists] /\ allUTXOs \in [Accounts -> Lists] /\ cached \in Lists
  BY <1>1 DEF Init
<1>3. /\ owned \in [Accounts -> SUBSET Tokens] /\ known \in [Accounts -> SUBSET Tokens]
      /\ isNFT \in [Accounts -> SUBSET Tokens] /\ due \in [Accounts -> SUBSET Tokens]
      /\ fetching \in [Accounts -> SUBSET {"nfts", "nftRPC", "coins"}]
  BY DEF Init
<1> QED  BY <1>2, <1>3 DEF Init, TypeOK

\* What an assignment to err does to the types.
LEMMA AssignsType ==
  ASSUME TypeOK, NEW a \in Accounts, NEW failed \in BOOLEAN, Assigns(a, failed)
  PROVE  err' \in [Accounts -> BOOLEAN] /\ outcome' \in [Accounts -> {"none", "lost", "scanned"}]
  BY DEF TypeOK, Assigns

\* A goroutine ends, or goes on with another task.
LEMMA FetchingType ==
  ASSUME TypeOK, NEW a \in Accounts, NEW tasks \in SUBSET {"nfts", "nftRPC", "coins"},
         fetching' = [fetching EXCEPT ![a] = tasks]
  PROVE  fetching' \in [Accounts -> SUBSET {"nfts", "nftRPC", "coins"}]
  BY DEF TypeOK

LEMMA EndsType ==
  ASSUME TypeOK, NEW a \in Accounts, NEW task, Ends(a, task)
  PROVE  fetching' \in [Accounts -> SUBSET {"nfts", "nftRPC", "coins"}]
<1>1. fetching[a] \ {task} \in SUBSET {"nfts", "nftRPC", "coins"}
  BY DEF TypeOK
<1> QED  BY <1>1, FetchingType DEF Ends

LEMMA LeavesType ==
  ASSUME TypeOK, NEW a \in Accounts, Leaves(a)
  PROVE  /\ pc' \in [Accounts -> {"idle", "poll", "failed"}] /\ err' \in [Accounts -> BOOLEAN]
         /\ nftTokens' \in [Accounts -> Lists] /\ allUTXOs' \in [Accounts -> Lists]
         /\ due' \in [Accounts -> SUBSET Tokens]
         /\ fetching' \in [Accounts -> SUBSET {"nfts", "nftRPC", "coins"}]
         /\ strays' \in Nat /\ lock' \in Accounts \cup {Nobody, Stray}
  BY DEF TypeOK, Leaves, Lists

LEMMA TypeStep == TypeOK /\ [Next]_vars => TypeOK'
<1> SUFFICES ASSUME TypeOK, [Next]_vars PROVE TypeOK'
  OBVIOUS
<1> USE DEF node, cache, update, account, startup, history
<1>1. ASSUME NEW a \in Accounts, NEW t \in Tokens, Mint(a, t) \/ Drop(a, t)
      PROVE  TypeOK'
  BY <1>1 DEF Mint, Drop, TypeOK
<1>2. ASSUME NEW a \in Accounts, Fetch(a)
      PROVE  TypeOK'
  <2>1. CASE CacheHit(a)
    <3>1. nftTokens' \in [Accounts -> Lists]
      BY <2>1 DEF CacheHit, TypeOK
    <3> QED  BY <2>1, <3>1, AssignsType, EndsType DEF CacheHit, TypeOK
  <2>2. CASE CacheMiss(a)
    BY <2>2 DEF CacheMiss, TypeOK
  <2> QED  BY <1>2, <2>1, <2>2 DEF Fetch
<1>3. ASSUME NEW a \in Accounts, NFTsEnd(a)
      PROVE  TypeOK'
  <2>1. CASE NFTsAnswered(a)
    <3>1. listed \in Lists
      BY DEF TypeOK, Lists
    <3>2. nftTokens' \in [Accounts -> Lists] /\ cached' \in Lists
      BY <2>1, <3>1 DEF NFTsAnswered, TypeOK
    <3> QED  BY <2>1, <3>2, AssignsType, EndsType DEF NFTsAnswered, TypeOK
  <2>2. CASE NFTsFailed(a)
    <3>1. failures' \in Nat
      BY <2>2 DEF NFTsFailed, CallFails, TypeOK
    <3> QED  BY <2>2, <3>1, AssignsType, EndsType DEF NFTsFailed, CallFails, TypeOK
  <2> QED  BY <1>3, <2>1, <2>2 DEF NFTsEnd
<1>4. ASSUME NEW a \in Accounts, CoinsEnd(a)
      PROVE  TypeOK'
  <2>1. CASE CoinsAnswered(a)
    <3>1. owned[a] \in Lists
      BY DEF TypeOK, Lists
    <3>2. allUTXOs' \in [Accounts -> Lists]
      BY <2>1, <3>1 DEF CoinsAnswered, TypeOK
    <3> QED  BY <2>1, <3>2, AssignsType, EndsType DEF CoinsAnswered, TypeOK
  <2>2. CASE CoinsFailed(a)
    <3>1. failures' \in Nat
      BY <2>2 DEF CoinsFailed, CallFails, TypeOK
    <3> QED  BY <2>2, <3>1, AssignsType, EndsType DEF CoinsFailed, CallFails, TypeOK
  <2> QED  BY <1>4, <2>1, <2>2 DEF CoinsEnd
<1>5. ASSUME NEW a \in Accounts, Polls(a)
      PROVE  TypeOK'
  <2>1. CASE SeesError(a)
    BY <2>1 DEF SeesError, TypeOK
  <2>2. CASE Fails(a)
    BY <2>2, LeavesType DEF Fails, TypeOK
  <2>3. CASE Installs(a)
    <3>1. allUTXOs[a] \in SUBSET Tokens
      BY <2>3 DEF Installs, TypeOK, Lists
    <3>2. known' \in [Accounts -> SUBSET Tokens] /\ isNFT' \in [Accounts -> SUBSET Tokens]
      BY <2>3, <3>1 DEF Installs, TypeOK
    <3> QED  BY <2>3, <3>2, LeavesType DEF Installs, TypeOK
  <2> QED  BY <1>5, <2>1, <2>2, <2>3 DEF Polls
<1>6. ASSUME NEW a \in Accounts, Begins(a)
      PROVE  TypeOK'
  BY <1>6 DEF Begins, DueNow, TypeOK, Lists
<1>7. CASE StrayNext
  <2>1. CASE StrayHit
    BY <2>1 DEF StrayHit, TypeOK
  <2>2. CASE StrayMiss
    BY <2>2 DEF StrayMiss, TypeOK
  <2>3. CASE StrayEnds
    BY <2>3 DEF StrayEnds, TypeOK, Lists
  <2> QED  BY <1>7, <2>1, <2>2, <2>3 DEF StrayNext
<1>8. CASE CacheExpires
  BY <1>8 DEF CacheExpires, TypeOK, Lists
<1>9. CASE LooksReady
  <2>1. \A a \in Accounts : ShardOf[a] \in Shards
    BY RescanAssumption
  <2> QED  BY <1>9, <2>1 DEF LooksReady, TypeOK
<1>10. CASE UNCHANGED vars
  BY <1>10 DEF vars, TypeOK
<1> QED  BY <1>1, <1>2, <1>3, <1>4, <1>5, <1>6, <1>7, <1>8, <1>9, <1>10 DEF Next

\* Every variable of the scans has its type.
THEOREM TypeCorrect == Spec => []TypeOK
<1> QED  BY InitType, TypeStep, PTL DEF Spec

-----------------------------------------------------------------------------
(***************************************************************************)
(* The lock.                                                               *)
(***************************************************************************)

\* An Update that has ended has no goroutine of its own.
IdleIsQuiet == \A a \in Accounts : pc[a] = "idle" => fetching[a] = {}

LEMMA IdleStep == TypeOK /\ IdleIsQuiet /\ [Next]_vars => IdleIsQuiet'
<1> SUFFICES ASSUME TypeOK, IdleIsQuiet, [Next]_vars, NEW a \in Accounts, pc'[a] = "idle"
             PROVE  fetching'[a] = {}
  BY DEF IdleIsQuiet
<1> USE DEF node, cache, update, account, startup, history
<1>a. pc[a] = "idle" => fetching[a] = {}
  BY DEF IdleIsQuiet
<1>1. CASE \E b \in Accounts, t \in Tokens : Mint(b, t) \/ Drop(b, t)
  BY <1>1, <1>a DEF Mint, Drop
<1>2. ASSUME NEW b \in Accounts, NEW task \in {"nfts", "nftRPC", "coins"},
             task \in fetching[b], UNCHANGED pc,
             NEW tasks, fetching' = [fetching EXCEPT ![b] = tasks]
      PROVE  fetching'[a] = {}
  BY <1>2, <1>a DEF TypeOK
<1>3. ASSUME NEW b \in Accounts, Fetch(b) \/ NFTsEnd(b) \/ CoinsEnd(b)
      PROVE  fetching'[a] = {}
  BY <1>2, <1>3 DEF Fetch, CacheHit, CacheMiss, NFTsEnd, NFTsAnswered, NFTsFailed, CoinsEnd,
                    CoinsAnswered, CoinsFailed, Ends
<1>4. ASSUME NEW b \in Accounts, Polls(b) \/ Begins(b)
      PROVE  fetching'[a] = {}
  BY <1>4, <1>a DEF Polls, SeesError, Fails, Installs, Leaves, Begins, TypeOK
<1>5. CASE StrayNext \/ CacheExpires \/ LooksReady \/ UNCHANGED vars
  BY <1>5, <1>a DEF StrayNext, StrayHit, StrayMiss, StrayEnds, CacheExpires, LooksReady, vars
<1> QED  BY <1>1, <1>3, <1>4, <1>5 DEF Next

LEMMA LockStep == TypeOK /\ IdleIsQuiet /\ LockIsCalls /\ [Next]_vars => LockIsCalls'
<1> SUFFICES ASSUME TypeOK, IdleIsQuiet, LockIsCalls, [Next]_vars PROVE LockIsCalls'
  OBVIOUS
<1> USE DEF node, cache, update, account, startup, history
<1>a. Nobody \notin Accounts /\ Stray \notin Accounts /\ Nobody # Stray
  BY RescanAssumption
\* Two accounts cannot both hold it.
<1>b. SUFFICES ASSUME NEW a \in Accounts
               PROVE  lock' = a <=> "nftRPC" \in fetching'[a]
  BY DEF LockIsCalls
<1>c. lock = a <=> "nftRPC" \in fetching[a]
  BY DEF LockIsCalls
<1>d. ASSUME UNCHANGED <<lock, fetching>>
      PROVE  lock' = a <=> "nftRPC" \in fetching'[a]
  BY <1>c, <1>d
<1>1. CASE \E b \in Accounts, t \in Tokens : Mint(b, t) \/ Drop(b, t)
  BY <1>1, <1>d DEF Mint, Drop
<1>2. ASSUME NEW b \in Accounts, Fetch(b)
      PROVE  lock' = a <=> "nftRPC" \in fetching'[a]
  <2>1. CASE CacheHit(b)
    <3>1. fetching' = [fetching EXCEPT ![b] = @ \ {"nfts"}] /\ lock' = lock
      BY <2>1 DEF CacheHit, Ends
    <3> QED  BY <1>c, <3>1 DEF TypeOK
  <2>2. CASE CacheMiss(b)
    <3>1. /\ fetching' = [fetching EXCEPT ![b] = (@ \ {"nfts"}) \cup {"nftRPC"}]
          /\ lock = Nobody /\ lock' = b
      BY <2>2 DEF CacheMiss
    <3> QED  BY <1>a, <1>c, <3>1 DEF TypeOK
  <2> QED  BY <1>2, <2>1, <2>2 DEF Fetch
<1>3. ASSUME NEW b \in Accounts, NFTsEnd(b)
      PROVE  lock' = a <=> "nftRPC" \in fetching'[a]
  <2>1. lock = b /\ lock' = Nobody
    BY <1>3 DEF NFTsEnd, NFTsAnswered, NFTsFailed, LockIsCalls
  <2>2. fetching' = [fetching EXCEPT ![b] = @ \ {"nftRPC"}]
    BY <1>3 DEF NFTsEnd, NFTsAnswered, NFTsFailed, Ends
  <2> QED  BY <1>a, <1>c, <2>1, <2>2 DEF TypeOK
<1>4. ASSUME NEW b \in Accounts, CoinsEnd(b)
      PROVE  lock' = a <=> "nftRPC" \in fetching'[a]
  <2>1. fetching' = [fetching EXCEPT ![b] = @ \ {"coins"}] /\ lock' = lock
    BY <1>4 DEF CoinsEnd, CoinsAnswered, CoinsFailed, Ends
  <2> QED  BY <1>c, <2>1 DEF TypeOK
<1>5. ASSUME NEW b \in Accounts, Polls(b)
      PROVE  lock' = a <=> "nftRPC" \in fetching'[a]
  <2>1. CASE SeesError(b)
    BY <1>d, <2>1 DEF SeesError
  <2>2. CASE Leaves(b)
    <3>1. lock' = IF "nftRPC" \in fetching[b] THEN Stray ELSE lock
      BY <2>2 DEF Leaves
    <3>2. fetching' = [fetching EXCEPT ![b] = {}]
      BY <2>2 DEF Leaves
    <3>3. lock = b <=> "nftRPC" \in fetching[b]
      BY DEF LockIsCalls
    <3> QED  BY <1>a, <1>c, <3>1, <3>2, <3>3 DEF TypeOK
  <2> QED  BY <1>5, <2>1, <2>2 DEF Polls, Fails, Installs
<1>6. ASSUME NEW b \in Accounts, Begins(b)
      PROVE  lock' = a <=> "nftRPC" \in fetching'[a]
  <2>1. fetching[b] = {} /\ lock' = lock /\ fetching' = [fetching EXCEPT ![b] = {"nfts", "coins"}]
    BY <1>6 DEF Begins, IdleIsQuiet
  <2> QED  BY <1>c, <2>1 DEF TypeOK
<1>7. CASE StrayNext
  BY <1>7, <1>a, <1>c DEF StrayNext, StrayHit, StrayMiss, StrayEnds
<1>8. CASE CacheExpires \/ LooksReady \/ UNCHANGED vars
  BY <1>8, <1>d DEF CacheExpires, LooksReady, vars
<1> QED  BY <1>1, <1>2, <1>3, <1>4, <1>5, <1>6, <1>7, <1>8 DEF Next

\* nftListLock is held by exactly the goroutine whose call to the node is under
\* way, and returned when the call ends, with an answer or not.
THEOREM LockIsCallsCorrect == Spec => []LockIsCalls
<1>1. Init => IdleIsQuiet /\ LockIsCalls
  BY RescanAssumption DEF Init, IdleIsQuiet, LockIsCalls
<1> QED  BY <1>1, IdleStep, LockStep, TypeCorrect, PTL DEF Spec

-----------------------------------------------------------------------------
(***************************************************************************)
(* Being available.  Once the poll has seen an error, err is still set, or *)
(* the error is lost.                                                      *)
(***************************************************************************)

Judged(a) ==
  /\ pc[a] = "failed" => err[a] \/ outcome[a] = "lost"
  /\ pc[a] = "idle" /\ available[a] => outcome[a] \in {"scanned", "lost"}
AllJudged == \A a \in Accounts : Judged(a)

LEMMA JudgedStep == TypeOK /\ IdleIsQuiet /\ AllJudged /\ [Next]_vars => AllJudged'
<1> SUFFICES ASSUME TypeOK, IdleIsQuiet, AllJudged, [Next]_vars, NEW a \in Accounts
             PROVE  Judged(a)'
  BY DEF AllJudged
<1> USE DEF node, cache, update, account, startup, history
<1>a. Judged(a)
  BY DEF AllJudged
<1>b. ASSUME UNCHANGED <<pc, err, available, outcome>>
      PROVE  Judged(a)'
  BY <1>a, <1>b DEF Judged
<1>c. ASSUME NEW b \in Accounts, NEW failed \in BOOLEAN, Assigns(b, failed), pc[b] # "idle",
             UNCHANGED <<pc, available>>
      PROVE  Judged(a)'
  <2>1. CASE b = a
    BY <1>a, <1>c, <2>1 DEF Judged, Assigns, TypeOK
  <2>2. CASE b # a
    <3>1. err'[a] = err[a] /\ outcome'[a] = outcome[a]
      BY <1>c, <2>2 DEF Assigns, TypeOK
    <3> QED  BY <1>a, <1>c, <3>1 DEF Judged
  <2> QED  BY <2>1, <2>2
<1>1. CASE \E b \in Accounts, t \in Tokens : Mint(b, t) \/ Drop(b, t)
  BY <1>1, <1>b DEF Mint, Drop
<1>2. ASSUME NEW b \in Accounts, Fetch(b) \/ NFTsEnd(b) \/ CoinsEnd(b)
      PROVE  Judged(a)'
  <2>1. pc[b] # "idle"
    BY <1>2 DEF IdleIsQuiet, Fetch, CacheHit, CacheMiss, NFTsEnd, NFTsAnswered, NFTsFailed,
                CoinsEnd, CoinsAnswered, CoinsFailed
  <2> QED  BY <1>2, <1>b, <1>c, <2>1 DEF Fetch, CacheHit, CacheMiss, NFTsEnd, NFTsAnswered,
                NFTsFailed, CoinsEnd, CoinsAnswered, CoinsFailed
<1>3. ASSUME NEW b \in Accounts, SeesError(b)
      PROVE  Judged(a)'
  BY <1>3, <1>a DEF SeesError, Judged, TypeOK
<1>4. ASSUME NEW b \in Accounts, Fails(b)
      PROVE  Judged(a)'
  <2>1. /\ pc[b] = "failed" /\ pc' = [pc EXCEPT ![b] = "idle"] /\ err' = [err EXCEPT ![b] = FALSE]
        /\ available' = [available EXCEPT ![b] = ~err[b]] /\ outcome' = outcome
    BY <1>4 DEF Fails, Leaves
  <2>2. CASE b = a
    <3>1. pc'[a] = "idle" /\ available'[a] = ~err[a]
      BY <2>1, <2>2 DEF TypeOK
    <3> QED  BY <1>a, <2>1, <2>2, <3>1 DEF Judged
  <2>3. CASE b # a
    <3>1. pc'[a] = pc[a] /\ available'[a] = available[a] /\ err'[a] = err[a]
      BY <2>1, <2>3 DEF TypeOK
    <3> QED  BY <1>a, <2>1, <3>1 DEF Judged
  <2> QED  BY <2>2, <2>3
<1>5. ASSUME NEW b \in Accounts, Installs(b)
      PROVE  Judged(a)'
  <2>1. /\ pc' = [pc EXCEPT ![b] = "idle"] /\ err' = [err EXCEPT ![b] = FALSE]
        /\ available' = [available EXCEPT ![b] = TRUE]
        /\ outcome' = [outcome EXCEPT ![b] = "scanned"]
    BY <1>5 DEF Installs, Leaves
  <2>2. CASE b = a
    <3>1. pc'[a] = "idle" /\ outcome'[a] = "scanned"
      BY <2>1, <2>2 DEF TypeOK
    <3> QED  BY <3>1 DEF Judged
  <2>3. CASE b # a
    <3>1. /\ pc'[a] = pc[a] /\ available'[a] = available[a] /\ err'[a] = err[a]
          /\ outcome'[a] = outcome[a]
      BY <2>1, <2>3 DEF TypeOK
    <3> QED  BY <1>a, <3>1 DEF Judged
  <2> QED  BY <2>2, <2>3
<1>6. ASSUME NEW b \in Accounts, Begins(b)
      PROVE  Judged(a)'
  BY <1>6, <1>a DEF Begins, Judged, TypeOK
<1>7. CASE StrayNext \/ CacheExpires \/ LooksReady \/ UNCHANGED vars
  BY <1>7, <1>b DEF StrayNext, StrayHit, StrayMiss, StrayEnds, CacheExpires, LooksReady, vars
<1> QED  BY <1>1, <1>2, <1>3, <1>4, <1>5, <1>6, <1>7 DEF Next, Polls

\* An account is available between two Updates only if the last one has
\* installed its scan, or has lost an error to the nil of its other goroutine.
THEOREM AvailableIsScannedCorrect == Spec => []AvailableIsScanned
<1>1. Init => IdleIsQuiet /\ AllJudged
  BY DEF Init, IdleIsQuiet, AllJudged, Judged
<1>2. AllJudged => AvailableIsScanned
  BY DEF AllJudged, Judged, AvailableIsScanned
<1> QED  BY <1>1, <1>2, IdleStep, JudgedStep, TypeCorrect, PTL DEF Spec

-----------------------------------------------------------------------------
(***************************************************************************)
(* Recognising NFTs.  The list only grows: whatever the cache holds, and   *)
(* whichever call fills it, has the NFTs that were due when the Update     *)
(* began.                                                                  *)
(***************************************************************************)

DueListed(a) ==
  /\ due[a] \subseteq listed
  /\ "nfts" \in fetching[a] /\ cached # NoList => due[a] \subseteq cached
  /\ nftTokens[a] # NoList => due[a] \subseteq nftTokens[a]
  /\ pc[a] = "idle" => nftTokens[a] = NoList
ListsInv == (cached # NoList => cached \subseteq listed) /\ \A a \in Accounts : DueListed(a)

LEMMA ListsStep == TypeOK /\ IdleIsQuiet /\ ListsInv /\ [Next]_vars => ListsInv'
<1> SUFFICES ASSUME TypeOK, IdleIsQuiet, ListsInv, [Next]_vars PROVE ListsInv'
  OBVIOUS
<1> USE DEF node, cache, update, account, startup, history
<1>a. listed \subseteq listed' /\ (cached # NoList => cached \subseteq listed)
  BY DEF ListsInv, Next, vars, Mint, Drop, Begins, Polls, SeesError, Fails, Installs, Fetch,
         CacheHit, CacheMiss, NFTsEnd, NFTsAnswered, NFTsFailed, CoinsEnd, CoinsAnswered,
         CoinsFailed, CallFails, StrayNext, StrayHit, StrayMiss, StrayEnds, CacheExpires,
         LooksReady
<1>b. ASSUME UNCHANGED <<cached, due, nftTokens>>,
             \A a \in Accounts : pc'[a] = "idle" => pc[a] = "idle",
             \A a \in Accounts : "nfts" \in fetching'[a] => "nfts" \in fetching[a]
      PROVE  ListsInv'
  BY <1>a, <1>b DEF ListsInv, DueListed
\* The cache is filled, or emptied, and no list has come but that one.
<1>c. ASSUME cached' \in {listed, cached, NoList}, UNCHANGED <<due, listed, pc>>,
             \A a \in Accounts : "nfts" \in fetching'[a] => "nfts" \in fetching[a],
             \A a \in Accounts : \/ nftTokens'[a] = nftTokens[a]
                                 \/ nftTokens'[a] = listed /\ pc[a] # "idle"
      PROVE  ListsInv'
  BY <1>a, <1>c DEF ListsInv, DueListed
<1>1. CASE \E b \in Accounts, t \in Tokens : Mint(b, t) \/ Drop(b, t)
  BY <1>1, <1>b DEF Mint, Drop
<1>2. ASSUME NEW b \in Accounts, Fetch(b)
      PROVE  ListsInv'
  <2>1. CASE CacheHit(b)
    <3>1. /\ nftTokens' = [nftTokens EXCEPT ![b] = cached] /\ "nfts" \in fetching[b]
          /\ fetching' = [fetching EXCEPT ![b] = @ \ {"nfts"}] /\ cached # NoList
          /\ UNCHANGED <<cached, due, listed, pc>> /\ pc[b] # "idle"
      BY <2>1 DEF CacheHit, Ends, IdleIsQuiet
    <3>2. \A a \in Accounts : DueListed(a)'
      BY <3>1 DEF ListsInv, DueListed, TypeOK
    <3> QED  BY <1>a, <3>1, <3>2 DEF ListsInv
  <2>2. CASE CacheMiss(b)
    BY <1>b, <2>2 DEF CacheMiss, TypeOK
  <2> QED  BY <1>2, <2>1, <2>2 DEF Fetch
<1>3. ASSUME NEW b \in Accounts, NFTsEnd(b)
      PROVE  ListsInv'
  <2>1. CASE NFTsAnswered(b)
    BY <1>c, <2>1 DEF NFTsAnswered, Ends, TypeOK, IdleIsQuiet
  <2>2. CASE NFTsFailed(b)
    BY <1>b, <2>2 DEF NFTsFailed, Ends, TypeOK
  <2> QED  BY <1>3, <2>1, <2>2 DEF NFTsEnd
<1>4. ASSUME NEW b \in Accounts, CoinsEnd(b)
      PROVE  ListsInv'
  <2>1. fetching' = [fetching EXCEPT ![b] = @ \ {"coins"}] /\ UNCHANGED <<cached, due, nftTokens, pc>>
    BY <1>4 DEF CoinsEnd, CoinsAnswered, CoinsFailed, Ends
  <2> QED  BY <1>b, <2>1 DEF TypeOK
<1>5. ASSUME NEW b \in Accounts, SeesError(b)
      PROVE  ListsInv'
  BY <1>5, <1>b DEF SeesError, TypeOK
<1>6. ASSUME NEW b \in Accounts, Leaves(b), UNCHANGED <<listed, cached>>
      PROVE  ListsInv'
  <2>1. \A a \in Accounts : DueListed(a)'
    BY <1>6 DEF Leaves, ListsInv, DueListed, TypeOK
  <2> QED  BY <1>a, <1>6, <2>1 DEF ListsInv
<1>7. ASSUME NEW b \in Accounts, Begins(b)
      PROVE  ListsInv'
  <2>1. DueNow \subseteq listed /\ (cached # NoList => DueNow = cached)
    BY <1>a DEF DueNow
  <2>2. /\ due' = [due EXCEPT ![b] = DueNow] /\ UNCHANGED <<listed, cached, nftTokens>>
        /\ fetching' = [fetching EXCEPT ![b] = {"nfts", "coins"}] /\ nftTokens[b] = NoList
        /\ pc' = [pc EXCEPT ![b] = "poll"]
    BY <1>7 DEF Begins, ListsInv, DueListed
  <2>3. \A a \in Accounts : DueListed(a)'
    BY <2>1, <2>2 DEF ListsInv, DueListed, TypeOK
  <2> QED  BY <1>a, <2>2, <2>3 DEF ListsInv
<1>8. CASE StrayNext \/ CacheExpires
  BY <1>8, <1>c DEF StrayNext, StrayHit, StrayMiss, StrayEnds, CacheExpires
<1>9. CASE LooksReady \/ UNCHANGED vars
  BY <1>9, <1>b DEF LooksReady, vars
<1> QED  BY <1>1, <1>2, <1>3, <1>4, <1>5, <1>6, <1>7, <1>8, <1>9 DEF Next, Polls, Fails, Installs

LEMMA InitLists == Init => ListsInv
  BY DEF Init, ListsInv, DueListed

\* Only Installs makes a token known, and then the list it uses has every NFT
\* that was due.
LEMMA NFTsStep ==
  TypeOK /\ ListsInv /\ [Next]_vars =>
    [\A a \in Accounts : (due[a] \cap known'[a]) \ known[a] \subseteq isNFT'[a]]_vars
<1> SUFFICES ASSUME TypeOK, ListsInv, Next, NEW a \in Accounts
             PROVE  (due[a] \cap known'[a]) \ known[a] \subseteq isNFT'[a]
  BY DEF vars
<1> USE DEF node, cache, update, account, startup, history
<1>1. ASSUME NEW b \in Accounts, Installs(b)
      PROVE  (due[a] \cap known'[a]) \ known[a] \subseteq isNFT'[a]
  <2>1. due[b] \subseteq nftTokens[b]
    BY <1>1 DEF Installs, ListsInv, DueListed
  <2> QED  BY <1>1, <2>1 DEF Installs, TypeOK
<1>2. CASE known' = known
  BY <1>2
<1>3. \/ known' = known
      \/ \E b \in Accounts : Installs(b)
  BY DEF Next, Mint, Drop, Begins, Polls, SeesError, Fails, Fetch, CacheHit, CacheMiss,
         NFTsEnd, NFTsAnswered, NFTsFailed, CoinsEnd, CoinsAnswered, CoinsFailed, StrayNext,
         StrayHit, StrayMiss, StrayEnds, CacheExpires, LooksReady
<1> QED  BY <1>1, <1>2, <1>3

\* An NFT that every list an Update may come to see has is taken for an NFT when
\* its coin is first seen, whichever goroutine fetched the list.
THEOREM NFTsRecognisedCorrect == Spec => NFTsRecognised
<1>1. Init => IdleIsQuiet
  BY DEF Init, IdleIsQuiet
<1> QED  BY <1>1, InitLists, IdleStep, ListsStep, NFTsStep, TypeCorrect, PTL DEF Spec, NFTsRecognised
=============================================================================
