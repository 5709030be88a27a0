------------------------------- MODULE Rescan -------------------------------
(***************************************************************************)
(* The scans of nftdrop's airdrop accounts: each account's UpdateAccount   *)
(* loop (account_manager.go) calls Update (account_info.go), which fetches *)
(* the list of NFTs, through a cache of 40 s behind a lock (nftlist.go),   *)
(* and the account's coins in two goroutines that share err with the loop  *)
(* that polls for their answers.  readConfig (config.go) waits until the   *)
(* shards have available accounts.  What a scan does to the states of the  *)
(* coins is in AccountInfo: here it finds tokens and tells NFTs.           *)
(***************************************************************************)
EXTENDS Integers

CONSTANTS
  Accounts, Shards, ShardOf,  \* the shards that readConfig waits for
  Tokens,                     \* NFTs
  NoList,                     \* a list that has not come: Go's nil
  Nobody, Stray,              \* the lock is free; held for an Update that has ended
  MaxFailures                 \* bound on calls to the node that fail

ASSUME RescanAssumption ==
  /\ ShardOf \in [Accounts -> Shards]
  /\ \A list \in SUBSET Tokens : NoList # list
  /\ Nobody \notin Accounts \cup {Stray} /\ Stray \notin Accounts
  /\ MaxFailures \in Nat

VARIABLES
  listed, owned, failures,    \* the node: all NFTs, each account's; calls that have failed
  cached, lock, strays,       \* nftlist in cachedb, nftListLock, goroutines that wait for it
                              \* for an Update that has ended
  pc, err, nftTokens, allUTXOs, fetching,  \* Update: the tasks of its goroutines to come
  known, isNFT, available,    \* TokenList, the IsNFT of its entries, available
  shardStatus, ready,         \* readConfig
  outcome, due                \* history of the Update: whether it has installed its scan,
                              \* or lost an error to nil; NFTs it must recognise

node    == <<listed, owned, failures>>
cache   == <<cached, lock, strays>>
update  == <<pc, err, nftTokens, allUTXOs, fetching>>
account == <<known, isNFT, available>>
startup == <<shardStatus, ready>>
history == <<outcome, due>>
vars    == <<node, cache, update, account, startup, history>>

Lists == {NoList} \cup SUBSET Tokens

-----------------------------------------------------------------------------
(***************************************************************************)
(* The node.  An NFT is minted to an account and, once known, dropped.     *)
(***************************************************************************)

Mint(a, t) ==
  /\ t \notin listed
  /\ listed' = listed \cup {t}
  /\ owned' = [owned EXCEPT ![a] = @ \cup {t}]
  /\ UNCHANGED <<failures, cache, update, account, startup, history>>

Drop(a, t) ==
  /\ t \in owned[a] \cap isNFT[a]
  /\ owned' = [owned EXCEPT ![a] = @ \ {t}]
  /\ UNCHANGED <<listed, failures, cache, update, account, startup, history>>

-----------------------------------------------------------------------------
(***************************************************************************)
(* The goroutines of Update.  "nfts" waits for the lock, "nftRPC" holds    *)
(* it, "coins" waits for the node.                                         *)
(***************************************************************************)

CallFails == /\ failures < MaxFailures /\ failures' = failures + 1
             /\ UNCHANGED <<listed, owned>>

\* A goroutine's assignment to err, seen or not.
Assigns(a, failed) ==
  /\ err' = [err EXCEPT ![a] = failed]
  /\ outcome' = IF err[a] /\ ~failed THEN [outcome EXCEPT ![a] = "lost"] ELSE outcome

Ends(a, task) == fetching' = [fetching EXCEPT ![a] = @ \ {task}]

\* getNFTList: the lock, and the cached list if there is one; otherwise the
\* lock is held during the call.
CacheHit(a) ==
  /\ "nfts" \in fetching[a] /\ lock = Nobody /\ cached # NoList
  /\ nftTokens' = [nftTokens EXCEPT ![a] = cached]
  /\ Assigns(a, FALSE) /\ Ends(a, "nfts")
  /\ UNCHANGED <<node, cache, pc, allUTXOs, account, startup, due>>

CacheMiss(a) ==
  /\ "nfts" \in fetching[a] /\ lock = Nobody /\ cached = NoList
  /\ lock' = a
  /\ fetching' = [fetching EXCEPT ![a] = (@ \ {"nfts"}) \cup {"nftRPC"}]
  /\ UNCHANGED <<node, cached, strays, pc, err, nftTokens, allUTXOs, account, startup, history>>

\* A slip keeps the fetched list to the cache; another returns without
\* unlocking.
NFTsForgotten(a) ==
  /\ "nftRPC" \in fetching[a]
  /\ cached' = listed /\ lock' = Nobody
  /\ nftTokens' = [nftTokens EXCEPT ![a] = {}]
  /\ Assigns(a, FALSE) /\ Ends(a, "nftRPC")
  /\ UNCHANGED <<node, strays, pc, allUTXOs, account, startup, due>>

NFTsAnswered(a) ==
  /\ "nftRPC" \in fetching[a]
  /\ cached' = listed /\ lock' = Nobody
  /\ nftTokens' = [nftTokens EXCEPT ![a] = listed]
  /\ Assigns(a, FALSE) /\ Ends(a, "nftRPC")
  /\ UNCHANGED <<node, strays, pc, allUTXOs, account, startup, due>>

KeepsLock(a) ==
  /\ "nftRPC" \in fetching[a] /\ CallFails
  /\ Assigns(a, TRUE) /\ Ends(a, "nftRPC")
  /\ UNCHANGED <<cache, pc, nftTokens, allUTXOs, account, startup, due>>

NFTsFailed(a) ==
  /\ "nftRPC" \in fetching[a] /\ CallFails
  /\ lock' = Nobody
  /\ Assigns(a, TRUE) /\ Ends(a, "nftRPC")
  /\ UNCHANGED <<cached, strays, pc, nftTokens, allUTXOs, account, startup, due>>

\* GetAllUTXOsV2.
CoinsAnswered(a) ==
  /\ "coins" \in fetching[a]
  /\ allUTXOs' = [allUTXOs EXCEPT ![a] = owned[a]]
  /\ Assigns(a, FALSE) /\ Ends(a, "coins")
  /\ UNCHANGED <<node, cache, pc, nftTokens, account, startup, due>>

CoinsFailed(a) ==
  /\ "coins" \in fetching[a] /\ CallFails
  /\ Assigns(a, TRUE) /\ Ends(a, "coins")
  /\ UNCHANGED <<cache, pc, nftTokens, allUTXOs, account, startup, due>>

\* The goroutines of an Update that has ended still use the lock and the cache;
\* such a call may fail whatever MaxFailures.
StrayHit ==
  /\ strays > 0 /\ lock = Nobody /\ cached # NoList
  /\ strays' = strays - 1
  /\ UNCHANGED <<node, cached, lock, update, account, startup, history>>

StrayMiss ==
  /\ strays > 0 /\ lock = Nobody /\ cached = NoList
  /\ strays' = strays - 1 /\ lock' = Stray
  /\ UNCHANGED <<node, cached, update, account, startup, history>>

StrayEnds ==
  /\ lock = Stray /\ lock' = Nobody
  /\ cached' \in {listed, cached}
  /\ UNCHANGED <<node, strays, update, account, startup, history>>

CacheExpires ==
  /\ cached # NoList /\ cached' = NoList
  /\ UNCHANGED <<node, lock, strays, update, account, startup, history>>

-----------------------------------------------------------------------------
(***************************************************************************)
(* Update, once a minute.                                                  *)
(***************************************************************************)

\* The NFTs in every list that an Update which begins now can come to see.
DueNow == IF cached # NoList THEN cached ELSE IF lock = Nobody THEN listed ELSE {}

Begins(a) ==
  /\ pc[a] = "idle"
  /\ pc' = [pc EXCEPT ![a] = "poll"]
  /\ fetching' = [fetching EXCEPT ![a] = {"nfts", "coins"}]
  /\ outcome' = [outcome EXCEPT ![a] = "none"]
  /\ due' = [due EXCEPT ![a] = DueNow]
  /\ UNCHANGED <<node, cache, err, nftTokens, allUTXOs, account, startup>>

\* The poll returns when it sees an error.  The deferred function looks at err
\* once more before it sets available.  A slip looks at the lists first.
SeesErrorLast(a) ==
  /\ pc[a] = "poll" /\ err[a] /\ nftTokens[a] # NoList
  /\ pc' = [pc EXCEPT ![a] = "failed"]
  /\ UNCHANGED <<node, cache, err, nftTokens, allUTXOs, fetching, account, startup, history>>

SeesError(a) ==
  /\ pc[a] = "poll" /\ err[a]
  /\ pc' = [pc EXCEPT ![a] = "failed"]
  /\ UNCHANGED <<node, cache, err, nftTokens, allUTXOs, fetching, account, startup, history>>

\* Update ends, and its variables with it; its goroutine for the NFTs may not
\* have.
Leaves(a) ==
  /\ pc' = [pc EXCEPT ![a] = "idle"]
  /\ err' = [err EXCEPT ![a] = FALSE]
  /\ nftTokens' = [nftTokens EXCEPT ![a] = NoList]
  /\ allUTXOs' = [allUTXOs EXCEPT ![a] = NoList]
  /\ due' = [due EXCEPT ![a] = {}]
  /\ fetching' = [fetching EXCEPT ![a] = {}]
  /\ strays' = strays + (IF "nfts" \in fetching[a] THEN 1 ELSE 0)
  /\ lock' = IF "nftRPC" \in fetching[a] THEN Stray ELSE lock

\* A slip takes the end of an Update for its success.
FailsAvailable(a) ==
  /\ pc[a] = "failed" /\ Leaves(a)
  /\ available' = [available EXCEPT ![a] = TRUE]
  /\ UNCHANGED <<node, cached, known, isNFT, startup, outcome>>

Fails(a) ==
  /\ pc[a] = "failed" /\ Leaves(a)
  /\ available' = [available EXCEPT ![a] = ~err[a]]
  /\ UNCHANGED <<node, cached, known, isNFT, startup, outcome>>

\* Both lists have come.  A token that the account knew keeps its TokenInfo.
Installs(a) ==
  /\ pc[a] = "poll" /\ ~err[a] /\ nftTokens[a] # NoList /\ allUTXOs[a] # NoList
  /\ Leaves(a)
  /\ known' = [known EXCEPT ![a] = allUTXOs[a]]
  /\ isNFT' = [isNFT EXCEPT ![a] =
                 allUTXOs[a] \cap (@ \cup (nftTokens[a] \ known[a]))]
  /\ available' = [available EXCEPT ![a] = TRUE]
  /\ outcome' = [outcome EXCEPT ![a] = "scanned"]
  /\ UNCHANGED <<node, cached, startup>>

\* readConfig looks at the accounts every 10 s and remembers the shards.
LooksReady ==
  /\ ~ready
  /\ shardStatus' = shardStatus \cup {ShardOf[a] : a \in {b \in Accounts : available[b]}}
  /\ ready' = (Shards \subseteq shardStatus')
  /\ UNCHANGED <<node, cache, update, account, history>>

-----------------------------------------------------------------------------
Init ==
  /\ listed = {} /\ owned = [a \in Accounts |-> {}] /\ failures = 0
  /\ cached = NoList /\ lock = Nobody /\ strays = 0
  /\ pc = [a \in Accounts |-> "idle"] /\ err = [a \in Accounts |-> FALSE]
  /\ nftTokens = [a \in Accounts |-> NoList] /\ allUTXOs = [a \in Accounts |-> NoList]
  /\ fetching = [a \in Accounts |-> {}]
  /\ known = [a \in Accounts |-> {}] /\ isNFT = [a \in Accounts |-> {}]
  /\ available = [a \in Accounts |-> FALSE]
  /\ shardStatus = {} /\ ready = FALSE
  /\ outcome = [a \in Accounts |-> "none"] /\ due = [a \in Accounts |-> {}]

Fetch(a) == CacheHit(a) \/ CacheMiss(a)
NFTsEnd(a) == NFTsAnswered(a) \/ NFTsFailed(a)
CoinsEnd(a) == CoinsAnswered(a) \/ CoinsFailed(a)
Polls(a) == SeesError(a) \/ Fails(a) \/ Installs(a)
StrayNext == StrayHit \/ StrayMiss \/ StrayEnds

Next ==
  \/ \E a \in Accounts : \/ \E t \in Tokens : Mint(a, t) \/ Drop(a, t)
                         \/ Begins(a) \/ Polls(a) \/ Fetch(a) \/ NFTsEnd(a) \/ CoinsEnd(a)
  \/ StrayNext \/ CacheExpires \/ LooksReady

Spec == Init /\ [][Next]_vars

\* Goroutines run and calls return, in the end with an answer (MaxFailures); Go's
\* mutex is handed to whoever waits.
Fairness ==
  /\ \A a \in Accounts :
       /\ WF_vars(Begins(a)) /\ WF_vars(Polls(a))
       /\ SF_vars(Fetch(a)) /\ WF_vars(NFTsEnd(a)) /\ WF_vars(CoinsEnd(a))
  /\ SF_vars(StrayHit \/ StrayMiss) /\ WF_vars(StrayEnds)
  /\ WF_vars(LooksReady)

FairSpec == Spec /\ Fairness

-----------------------------------------------------------------------------
(***************************************************************************)
(* Properties.                                                             *)
(***************************************************************************)

\* Every variable has its type.
TypeOK ==
  /\ listed \in SUBSET Tokens /\ owned \in [Accounts -> SUBSET Tokens] /\ failures \in Nat
  /\ cached \in Lists /\ lock \in Accounts \cup {Nobody, Stray} /\ strays \in Nat
  /\ pc \in [Accounts -> {"idle", "poll", "failed"}] /\ err \in [Accounts -> BOOLEAN]
  /\ nftTokens \in [Accounts -> Lists] /\ allUTXOs \in [Accounts -> Lists]
  /\ fetching \in [Accounts -> SUBSET {"nfts", "nftRPC", "coins"}]
  /\ known \in [Accounts -> SUBSET Tokens] /\ isNFT \in [Accounts -> SUBSET Tokens]
  /\ available \in [Accounts -> BOOLEAN]
  /\ shardStatus \in SUBSET Shards /\ ready \in BOOLEAN
  /\ outcome \in [Accounts -> {"none", "lost", "scanned"}]
  /\ due \in [Accounts -> SUBSET Tokens]

\* nftListLock is held for exactly as long as somebody's call to the node lasts,
\* also when the Update that made the call has given up.
LockIsCalls ==
  /\ \A a \in Accounts : lock = a <=> "nftRPC" \in fetching[a]
  /\ \A a, b \in Accounts : "nftRPC" \in fetching[a] \cap fetching[b] => a = b

\* An account is available between two Updates only if the last one has
\* installed its scan, or an error of its goroutines was overwritten between
\* the two looks that the poll and the deferred function take at err.
AvailableIsScanned ==
  \A a \in Accounts :
    pc[a] = "idle" /\ available[a] => outcome[a] \in {"scanned", "lost"}

\* An NFT that is in every list the Update can come to see is taken for an NFT
\* when its coin is first seen, whichever goroutine fetched the list.
NFTsRecognised ==
  [][\A a \in Accounts : (due[a] \cap known'[a]) \ known[a] \subseteq isNFT'[a]]_vars

\* Every Update ends, unless one of its goroutines has overwritten the error of
\* the other before the poll saw it.
UpdatesEnd ==
  \A a \in Accounts : pc[a] # "idle" ~> pc[a] = "idle" \/ outcome[a] = "lost"

\* "Sync periodically updates UTXOs of all accounts" (account_manager.go).
UpdatesGoOn == \A a \in Accounts : []<>(pc[a] = "idle")

\* However the node fails at first, the server starts, unless an error was
\* overwritten.
StartsUp == <>(ready \/ \E a \in Accounts : outcome[a] = "lost")

=============================================================================
