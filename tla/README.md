# TLA+ models of prv-airdrop-tool

The repository holds two services that hand out tokens of the Incognito chain,
and two helpers. Both services are a few hundred lines of Go with many
goroutines, a small LevelDB of user records, and a full node that answers when
and as it pleases. The modules here model what those goroutines do to each
other, to the database and to the service's coins; TLC checks them on small
instances, and the TLA+ proof system proves the main safety properties for all
instances.

## 1. The system

| Part | Source | State | Operations | Talks to |
|---|---|---|---|---|
| NFT drop service | `nftdrop/main.go`, `common.go`, `db.go` | `adc.UserAccounts`, `userlock`, one database record per user | `APIReqDrop`, `AirdropNFT`, `watchUserAirdropStatus`, `main`'s resume loop | coin service (`checkUserHaveNFT`), full node, account manager |
| Account bookkeeping | `nftdrop/account_info.go`, `txs.go`, `common.go` | per account `TokenList`: for each token a coin list and a shared map of coin states 0, 1, 2 | `Update`, `clone`, `MarkTempUsed`, `ClearTempUsed`, `MarkUsed`, `transferPRV`, `transferNFT`, `mintNFT`, `waitingCheckTxInBlock` | full node |
| Minting and splitting | `nftdrop/txs.go` | local counters, `doneChan`, `errChan` | `mintNFTMany`, `splitPRV` | account bookkeeping |
| Account manager | `nftdrop/account_manager.go`, `config.go` | `Accounts`, `isMinting`, `isSplitting` | `UpdateAccount`, `manageNFTs`, `managePRVUTXOs`, `GetRandomAirdropAccount` | account bookkeeping |
| NFT-list cache | `nftdrop/nftlist.go`, `cache.go` | a list kept for 40 s | `getNFTList` | full node |
| PRV drop service, users | `main.go`, `db.go` | `adc.UserAccounts`, `userlock`, one database record per payment address | `APIFaucet`, `APIReqDrop`, `AirdropUser`, `watchUserAirdropStatus`, `main` | full node, the accounts below |
| PRV drop service, accounts | `main.go` | `AirdropAccounts` with `UTXOList`, `UTXOInUse`, `TotalUTXO` and a lock each; `airlock`, `lastUsedADA` | `chooseAirdropAccount`, `getAirdropAccountUTXOs`, `CreateAirDropTx` | full node |
| Shield poller | `shielddrop/main.go` | `fromtime`, `offset` | one loop | coin service, PRV drop service |
| Slack notifier | `slacknoti/slack.go` | an unbuffered channel, a batch | `StartSlackHook`, `SendSlackNoti` | Slack |
| Configuration, captcha, HTTP bodies, logs | `config.go`, `nftdrop/config.go`, `utils.go`, `logger.go` | none | | |

Sources are relative to `src/`. What makes each part correct, and what is hard
about it:

* **NFT drop service.** A user gets at most one NFT (`MaxNFTPerAccount`), is
  not forgotten, and is called served only when he is. Hard: requests of one
  user race; an HTTP call separates the test for a known user from his
  insertion; a time-out starts the drop over while the transaction may still be
  included; the process may die between the send and the first stored record.
* **Account bookkeeping.** A coin in the pool is not offered for ever, a spent
  coin leaves the offer for good, an unspent one comes back. Hard: `Update`
  reconciles a copy taken before a fetch with coin states that spenders and
  waiters change meanwhile, without a lock over both, and then replaces the
  token list.
* **PRV drop service, accounts.** No coin goes into two transactions, no
  goroutine waits for ever on the two kinds of locks. Hard: coins are reloaded
  while others build transactions from them.
* **PRV drop service, users.** The statuses in the records are true, records
  with pending transactions are resumed after a crash. Hard: lookup and
  insertion are separate; two records of a user share one database key; errors
  of the status check count as success.
* **Minting and splitting, account manager.** A batch ends with every worker
  accounted for, nobody blocks on a full channel, an account is minted to by
  one goroutine at a time and is offered for drops again. Hard: each failure
  starts another worker while the collector may have left; `splitPRV`'s workers
  assign to the same `err` that its loop tests.
* **Scans and the NFT-list cache.** An account is available after a scan and
  only then; an NFT is told from other tokens; one slow call holds up nobody for
  ever. Hard: three goroutines of a scan share `err` without a lock, one mutex
  is held across a call to the node, and a scan that has given up leaves a
  goroutine behind that still takes it.
* **`ChooseBestUTXOs`.** The coins suffice and none is superfluous. Hard: it
  reads the account three times while others change it; its loop looks one coin
  ahead and subtracts from an unsigned number.
* **Shield poller, Slack notifier.** No shield and no notice is skipped or
  repeated. Hard: time and offset move on under different conditions; the
  channel is made by the goroutine that reads it.

The hazards, line by line, are listed in `PROJECT.json`, each with the
properties that cover it or the reason why none does.

## 2. The modules

| Module | Models | Lines |
|---|---|---|
| `AccountInfo` | account bookkeeping: spenders, waiters, updaters | 432 |
| `Rescan` | the scans: fetch goroutines, NFT-list cache, availability, the wait of `readConfig` | 305 |
| `MintBatch` | minting and splitting: the manager's loops, the batches and their workers | 402 |
| `CoinChoice` | `ChooseBestUTXOs` | 209 |
| `NFTDrop` | the NFT drop service | 433 |
| `DropContract` | what an NFT drop service promises; `NFTDrop` refines it | 38 |
| `FaucetCoins` | the PRV service's accounts and the goroutines that share them | 304 |
| `FaucetDrop` | the PRV service's users, records and watchers | 321 |
| `ShieldPoll` | the shield poller | 136 |
| `SlackNoti` | the Slack notifier | 106 |
| `MC...` | the instances for TLC; in `MCHelpers` a behaviour is one of `ShieldPoll`, of `SlackNoti` or of `CoinChoice`, as `shown` says | |
| `...Proofs` | the theorems about the module of that name; `HelperProofs` those about `ShieldPoll`, `SlackNoti`, and the three of `MCHelpers` side by side | |

Operators named as slips in a comment (`ClearTempUsedSkipsOne`, `NoLock`,
`KeepNone`, ...) are plausible mistakes in the code next to them. No
specification uses them; `PROJECT.json` pairs each property with one that
breaks it.

### AccountInfo

`utxoList` and `tokenMap` are `account.TokenList`: which coins are listed, and
for each token which `UTXOState` map its `TokenInfo` points to. The maps
themselves are `utxoState[m]`, named by identities, because `clone` copies the
list but shares the map, and `NewTokenInfo` makes a new one; which of the two
happened decides where a mark is written. `-1` is `getUTXOState`'s "not found".

A member of `Txs` is one call of `transferPRV`, `transferNFT` or `mintNFT`:
`ChoosePRV` and `ChooseNFT` pick coins that are offered, `SendOk`, `SendLost`
and `Fail` are the outcomes of the send, `MarkInputs` sets state 1 and starts
the waiters, `WaiterConfirms` and `WaiterTimesOut` are the two ends of
`waitingCheckTxInBlock`. A member of `Updaters` runs `Update`: `Clone`,
`Fetch`, then one step per read and write of a coin's state (`ReadState`,
`WriteState`, `AddCoin`), `Retire` and `Install`. `UpdateAccount` never ends,
so the updater starts over; `splitPRV` calls `Update` as well, which is a
second updater.

The amounts of coins are left out: a spender takes any offered PRV coin, and
a token is funded when it has an unmarked coin.

### Rescan

What `AccountInfo` calls `Fetch` is taken apart here. `fetching[a]` holds the
tasks of the two goroutines that `Update` starts: `"nfts"` waits for
`nftListLock`, `"nftRPC"` holds it during the call to the node, `"coins"` is
`GetAllUTXOsV2`. Each assigns to `err[a]` when it ends, and so may overwrite
what the other has assigned. `SeesError` is the poll's look at `err`, `Fails`
the deferred function's, a step later; `Installs` is the rest of `Update`.
`strays` counts the goroutines of Updates that have returned and still want the
lock. `CacheExpires` is the end of the 40 seconds. `LooksReady` is one turn of
the loop in `readConfig`, which remembers the shards it has once seen.

Three things in the code that the model shows and the properties allow for: an
error overwritten by nil before the poll sees it leaves the Update polling for
ever (`outcome = "lost"`, run `RescanStuck`); one overwritten between the
poll's look and the deferred function's makes the account available without a
scan; and an NFT that is minted after the list was fetched gets a `TokenInfo`
with `IsNFT` false, which stays as long as the coin does. A call that fails for
a goroutine of an ended Update is not counted in `MaxFailures`.

### MintBatch

`Minters` and `Splitters` are the goroutines that `manageNFTs` and
`managePRVUTXOs` start on one account; both may run `splitPRV`, so its
variables `need`, `remaining` and `err` are per goroutine. `MayMint` and
`MaySplit` are the loops' tests of the flags; the flag is set a step later, by
the goroutine that was started (`SetMinting`, `SetSplitting`). Between the two
the code has only the loops' sleeps, 1 second and then `defaultSleepTime`,
which the model, having no time, leaves out. So no property says that an account
has one minting goroutine at a time: the theorems hold for any number, the run
has one of each kind, which is the code as far as the sleeps suffice.

A batch is a slot with its workers and the lengths of its two channels; the
slot outlives the collector, because workers do (`held`), and is free again
when both are gone. Retries go on after the collector has left, as in the code,
and a collector that leaves on `errCount` leaves retries behind. `AssignsErr`
is a first worker of `splitPRV` that assigns to the caller's `err`, whenever it
gets round to it. `OwnTransfer` and `Test` are separate steps for that reason.

A transaction fails, or the node accepts it. Whether it gets into a block
`transferPRV` does not say: it returns nil, and reports on `doneChan`, also when
`waitingCheckTxInBlock` has timed out. So `sent` counts the outputs of a call of
`splitPRV`, up to `need`, that the node has accepted, and `SplitIsSent` is about
these; that they exist afterwards, as `txs_test.go:269-270` expects, the code
does not ensure. `fooled` says that the loop has taken its own failed transfer
for a success because a worker had reset `err`.

Not modelled: the panic when `err` becomes nil between `err != nil` and
`err.Error()`; and the `Update` inside `splitPRV`, which is `AccountInfo`'s
second updater.

### CoinChoice

The three reads of the account are `ReadBalance`, `TakeExact`/`NoneExact` and
`ReadList`; between them `Change` replaces the offered coins by any others. The
loop is one action per branch (`Skip`, `Close`, `Add`, `EndLoop`), the check
after it `LastCoin` or `Enough`. Coins of one value are listed in any order, as
`sort.Slice` is not stable and the map has no order. When the balance was just
the amount the whole list is returned, whatever it holds by then:
`ChosenSuffices` exempts that case, and only that case.

### ShieldPoll and SlackNoti

`Fetch` is one page with its requests, of which any may fail; `Advanced` and
`NextOffset` are the two rules by which `fromtime` and `offset` move. The coin
service is external: it is taken to list what is not older than the given time,
by time, and may learn of shields late (`Index`). A shield that it learns of
when the poller has passed its place, one indexed while the poller was down, and one
whose request failed are never asked for again; `NoneIsPassedOver` says that
nothing else is lost. Not in the model: `requestAirdrop` sends a `GET` while
`main.go` registers `/requestdrop` for `POST`, so that in this version each
request fails, if the two services are deployed as they are here.

In `SlackNoti` a goroutine that reaches `notiChan` before it is made blocks for
ever (`sawNil`). A post that fails leaves `resp` nil, and `resp.Status` then
ends the process (`PostFails`). The comparison of `resp.Status` with `"200"` is
never true of `"200 OK"` and only changes what is logged.

### NFTDrop and DropContract

A goroutine is named by the request that started it, or by the user if `main`
did after a restart. `account` is `adc.UserAccounts`, `db` the database; a
record is `OngoingTxs`, the status of each transaction and `AirdropSuccess`.
`BeginCheck` takes `userlock` and keeps it across the HTTP call until `Refuse`
or `Register`. `TransferOk`, `Record`, `Tick`, `StoreTick`, `TimeOut` and
`EndWatch` are separate steps because a crash (`Restart`, which includes the
resume loop of `main`) may come between any two of them. `StoreTick` stores
the record before `AirdropSuccess` is set, as the code does. The airdrop
accounts are reduced to "a transaction is sent, or an error is returned".
`Persist` stores the record or, like a `Put` whose error is logged, leaves the
database as it was; `unstored` holds the users of whom no record has been
stored yet although that was tried, which is what `StartedIsKept` exempts.

The switches `Late`, `LossyRPC` and `FlakyCheck` say whether a time-out may
come before the transaction's fate is known, whether an error may hide an
accepted transaction, and whether the status check may fail. `missed` records
the transactions that left the list because their check failed: success is
said of those, too.

`DropContract` has three actions, to take a user on, to deliver, to say so.
`MeetsContract` is the refinement: `owed` is the set of known users, `nfts`
counts what is in blocks, `told` is `AirdropSuccess`.

### FaucetCoins

A job is one `AirdropUser`. `PassOver` and `Examine` are one turn of
`chooseAirdropAccount`'s loop; the two tests that call for a reload are the
program counters `"empty?"` and `"used up?"`, and a reload is three steps: the
node's answer (`Reload`), the wait for the account's lock, and `Install` under
it. `TooPoor` is `goto retry`. `Build` is one `CreateAirDropTx` under the
account's lock, which takes the list's unmarked coins until they suffice; in
which order they are listed is left open. `Send` comes after the lock is
released. `Panic` ends the process, as `panic` does in the code; when the free
coins do not suffice it is all that `"build"` can do. The node rejects what
spends a spent or pooled coin, and may reject anything.

### FaucetDrop

A request that is not turned away makes a `UserAccount` of its own, so records
are named by requests, and `users` says which of them the map holds. The
database has one record per payment address, with the request it came from.
`recent[r]` is "less than 30 minutes since `LastAirdropRequest`"; the
watchers' time-outs of 45 and 35 minutes are longer, which is `TimeOut`'s
guard. `Restart` fills the map under `Pubkey`, which is always empty, so no
user is found again; the stored records are watched. A drop's transactions are
built in one step here: `FaucetCoins` is about how. `Persist` may fail, as in
`NFTDrop`. `lost` records the
transactions that left the list because `GetTxDetail` failed.

Two things the code does that a reader may not expect, and that the model has:

* `LastAirdropRequest` is set only when all transactions are built
  (`main.go:420`). Until then a further request of the user replaces the record
  and starts a second drop, though the comment at `main.go:287-292` has "if
  time.Since(t) < 30*time.Minute ... return". The properties hold with both
  drops running.
* Rejected transactions are put on the list to watch (`main.go:438`);
  `GetTxDetail` fails for them, which drops them from the list, and the empty
  list sets `AirdropSuccess` and logs "Done airdrop for user" (`main.go:482`) of a user
  who got nothing. `SuccessMeansDelivered` therefore speaks of transactions
  that are in a block or in `lost`.

### How they compose

`AccountInfo`/`NFTDrop` and `FaucetCoins`/`FaucetDrop` model the two layers of
each service. The upper layer relies on one fact about the lower: its send
succeeds or fails, and a transaction that succeeds is new. Nothing of the upper
layer is read by the lower. `Rescan`, `CoinChoice` and `MintBatch` refine three
single steps of `AccountInfo` (`Fetch`, the choice of coins, and who calls the
transactions and when): each keeps what its own properties tell apart and leaves
the coin states to `AccountInfo`. `AccountLive` assumes that fetches end, and
`Rescan` shows when they do not.

## 3. The runs

Each run finishes within three minutes on two cores.

| Run | Instance | Shows |
|---|---|---|
| `AccountSafety` | 1 PRV coin and 1 NFT, 2 spenders, 1 updater, 2 maps, lost answers | `TempUsedIsWatched` |
| `AccountLive` | 2 PRV coins, 1 spender, 1 updater, 2 maps, lost answers, fair | `RetiredIsSpent`, `SpentCoinsLeave`, `UnspentCoinsReturn` |
| `AccountTwoUpdaters` | 2 PRV coins, 1 spender, 2 updaters, 3 maps | violation: `NoCoinStranded` |
| `Rescan` | 2 accounts in 2 shards, 1 NFT, 1 failing call, fair | `LockIsCalls`, `AvailableIsScanned`, `NFTsRecognised`, `UpdatesEnd`, `StartsUp` |
| `RescanStuck` | as `Rescan` | violation: `UpdatesGoOn` |
| `Batches` | one minter and one splitter, batches of 2 and 1, 1 output per transaction, 2 slots, fair | `SendsNeverBlock`, `DoneMeansOver`, `SplitIsSent`, `FlagsCleared`; no deadlock |
| `Helpers` | 4 shields, pages of 2, 2 starts; 2 messages; coins worth 1, 2, 2, 4 and 7, 12 amounts, 1 change | `NoneIsPassedOver`, `EachIsRequested`, `PostedOnce`, `EachIsPosted`, `ChosenSuffices`, `ChosenIsLeast`, `FailsOnlyIfShort`, and `TypeOK` of all three |
| `DropHostile` | 1 user, 2 requests, 2 transactions, 1 attempt per round, 1 crash, late time-outs, lost answers, failing Puts, fair | `OneDropper`, `NobodyForgotten`, `StartedIsKept`, `SuccessMeansDelivered`, `SuccessIsDurable`, `RequestsAnswered`, `RoundsEnd` |
| `DropCalm` | 2 users, 3 requests, 3 transactions, 2 attempts | `MeetsContract`, and with it `AtMostOneNFT` |
| `DropCrashTwice` | 1 user, 1 request, 1 crash | violation: `AtMostOneNFT` |
| `Coins` | 2 accounts of different shards, 3 coins, 3 jobs, one of them with 2 transactions and one that finds no account, fair | `NoCoinReuse`, `NoInputConflict`, `AirlockReturns`, `ChosenIsSent`; no deadlock |
| `Faucet` | 1 user, 2 requests with 1 transaction each, 1 crash, rejections, failing checks, failing Puts, fair | `DeliveredIsInBlock`, `StoredIsWatched`, `SuccessMeansDelivered`, `PendingIsTracked`, `DeliveredIsDurable`, `StartedEnds` |

Type correctness is a theorem for every module. A run checks it only where it
says more than types: in `Helpers`, where `remainAmount` is a `uint64` that must
not wrap around.

**Why these bounds are enough.** A lost or misplaced mark needs one coin, one
spender and one updater; the second spender adds the race for the same coin,
and the second map the difference between a shared and a new `UTXOState`. A
coin is retired by a re-scan only while another of its token is left, which
takes the two PRV coins of `AccountLive`. The races of the handlers are between
two requests of one user; in `DropCalm` the third request, of another user,
shares the lock. Two transactions are the least for "a second one was sent",
and so for a second round; one crash is enough for each pair of steps around
it. In `DropHostile` a failed transfer uses up the one attempt of its round, and
no check fails: the retry within a round is in `DropCalm`, with two attempts,
and the theorems hold with failing checks and for any number of attempts and
crashes. In `Coins` two jobs share an account with three coins, so that a
reload, a build and an inclusion of the same coin meet, and the third job,
whose shard has no coin, competes for `airlock` for ever. Two drops to one user
are what shares a database key in `FaucetDrop`; drops of several transactions
are covered by the proofs only.

Two accounts are the least that contend for `nftListLock`, and one failure is
enough to overwrite and to be overwritten. In `Batches` a minting batch has two
workers, so that one can fail while the other succeeds, and `mintNFTMany` may
split for one or two missing coins, the latter with a batch of its own; the
two slots are for the collected batch and one with late workers, and a
goroutine waits when both are taken. In `Helpers` the page limit is lower than
the page, as 1000 is lower than what the coin service may send, two shields
have the same time, and the amounts are those that the five coins answer with
an exact coin, with the whole list, from the loop or not at all.

**Deadlock.** `Coins` and `Batches` check it, the former with a `Terminated`
step for the two proper ends. `AccountInfo` never stops. In `NFTDrop` and
`FaucetDrop` the requests of the instance are used up at some time and the
service rightly stops; a call of `ChooseBestUTXOs` ends; an Update of `Rescan`
may be stuck, which `RescanStuck` is about: there the check is off.

**Fairness.**

* Goroutines that can run do: weak fairness of their steps.
* A waiting `Lock` gets its turn: strong fairness of the steps that take a
  lock. Go's mutexes hand themselves over to a waiter after one millisecond.
* `select` chooses a case that is ready again and again: strong fairness of
  `Tick2s`, `Receive` and `TimeOut` of a batch.
* Timers fire: weak fairness of a waiter's time-out, strong fairness of the
  watchers', whose guard the node may switch off and on.
* `AccountLive` assumes that a fetch succeeds now and then, `DropHostile` that
  the coin service answers (`http.Get` has no time-out there) and that calls of
  the node return, `Faucet` that `chooseAirdropAccount`, which may look for
  ever, finds an account, `Coins` that a call of the node answers or panics, and
  `Rescan` that calls return, in the end with an answer. What the node answers
  is left open in `DropHostile` and `Faucet`.
* `Batches` assumes that workers end one way or the other, and that the
  transfer which `splitPRV` repeats without looking at its context succeeds
  some time. With too little PRV it never would, and the flag would stay set.
* In `Helpers` the poller need not start again after a panic, and a post need
  not end, since `http.DefaultClient` has no time-out: `EachIsPosted` is about
  behaviours in which no post hangs.
* A crash, a request, a success of a send and a reload's outcome are never
  owed.

**What the violations mean.** Each is a disagreement of the code with a line of
the repository, quoted in `PROJECT.json`:

* `AccountTwoUpdaters`: a coin keeps its in-pool mark after two Updates at once.
  With one updater `TempUsedIsWatched` holds.
* `RescanStuck`: an account is never scanned again after an overwritten error.
  `UpdatesEnd` and `StartsUp` hold as long as none was overwritten.
* `DropCrashTwice`: a second NFT after a crash between the send and the first
  stored record. With late time-outs, crashes and lost answers away, `DropCalm`
  holds. `AtMostOneNFT` also fails under `Late`, which the comment "We assume
  timed-out = failed" (`nftdrop/common.go:61`) declares to be accepted.
  A second way to it is a crash between the tick that stores the empty list and
  the deferred function that stores the success (`common.go:114`): `main` takes
  the served user for one who is owed.

**What the properties allow for.** Some of what the code does wrong, or only
roughly, is exempted where a property is stated, so that no run would show it:

* A failing status check counts as "in a block", in both services (`missed`,
  `lost`).
* An NFT user whose attempts are used up (`gaveUp`) is tried for again only
  after the next restart. Rounds of sending and timing out may go on for ever,
  for each time-out starts the attempts from 0: `RoundsEnd` is about each round,
  not their number.
* A user of whom no record could be stored (`unstored`) is forgotten by a crash,
  although he was answered 1.
* A later request of a PRV user overwrites the stored record of an earlier one.
* `splitPRV` counts outputs that it has not seen in a block, which its test
  expects to be there, and repeats a failing transfer for as long as it fails;
  `FlagsCleared` assumes that this is not for ever.
* The flag that is to "avoid multiple minting" (`account_manager.go:127`) is set
  by the goroutine whose second it is to prevent.
* `ChooseBestUTXOs` may return too little when the balance was just the amount.
* Shields that come while the poller is down, and notices sent before the
  channel is made, are lost.

`PROJECT.json` lists these hazards, with a note of what no property covers.

## 4. The proofs

The theorems hold for any number of users, requests, coins, tokens,
transactions, accounts, batches and crashes, under the assumptions named
`...Assumption` in the modules, which say little more than that the constants
have their types.

| Module | Theorem | Argument |
|---|---|---|
| `AccountInfoProofs` | `TypeCorrect` | types, and: what an updater still has to look at is in a token of its clone (`ScanMapped`) |
| | `RetiredCorrect` | `SpentInv`: a coin that is missing from an answer although it was listed when the answer was asked for is spent (`MissingIsSpent`), and a transaction in a block has spent its inputs (`BlockSpends`). Without the first the step `Retire` proves nothing |
| | `TempUsedCorrect` | `WatchInv`: with one updater its clone and the account agree on the maps both know (`MapsAgree`), and maps that it made are unmarked. With two updaters it is false (`AccountTwoUpdaters`), so the theorem has that hypothesis; `NoCoinStrandedCorrect`, that what the violation run refutes holds with one updater, follows |
| `RescanProofs` | `TypeCorrect`, `LockIsCallsCorrect` | the call that holds the lock is some goroutine's `"nftRPC"`, or a stray's; an Update that has ended has no goroutine of its own (`IdleIsQuiet`) |
| | `AvailableIsScannedCorrect` | a failed Update sees its error or has lost it (`AllJudged`) |
| | `NFTsRecognisedCorrect` | `ListsInv`: what the Update must recognise is in the cached list as long as a goroutine of it waits, and in any list that it has got. `listed` only grows, which carries it across an expiry and a call of another account |
| `MintBatchProofs` | `TypeCorrect`, `SendsNeverBlockCorrect`, `DoneMeansOverCorrect` | `Conserved`: every worker to start, worker, unread message and counted success stands for one of the `size` transactions, and an error that is taken makes a retry; so no channel can be full while somebody works. `HoldersAlone`: no two goroutines collect the same batch |
| | `SplitIsSentCorrect` | `Covered`: what has been sent, plus what `remaining` still lacks and what successes on the channel will take off it, is at least `need`. `Credit` comes before the message on the channel, and a collector takes off what it reads: no order of late, retried and abandoned workers lets `remaining` run ahead |
| `CoinChoiceProofs` | `ChosenIsLeastCorrect`, `FailsOnlyIfShortCorrect` | `Walking`: what remains and what is chosen add up to the amount, and once a coin has been left out the coin at hand is enough or nothing remains |
| | `ChosenSufficesCorrect`, `TypeCorrect` | `SumInv`: `totalChosenAmount` is what the chosen coins are worth, and `balance` what was offered when it was read. That a coin adds its value to the worth of a set (`WorthRemove`, `WorthAppend`) is shown of a smallest set for which it fails, since the library's finite-set induction cannot be used: so is that the sum that `CHOOSE` picks exists and is unique |
| `HelperProofs` | `PostedOnceCorrect` | `NotiInv`: what is in `notiArray` has been handed over. `NotiInv` is `PostedOnce`, which is not inductive without that, and the types |
| | `NoneIsPassedOverCorrect` | `PollInv`: a round starts at offset 0. Different shields have different places (`PlaceOrder`), so that a page has no more shields than the offset moves on by, nor than are left (`PageLength`); what is not on the page comes after it, in a later place and no earlier in time, so that neither a new offset nor a new `fromtime` passes it over (`FetchStep`); and another shield that is listed only moves places on (`IndexStep`) |
| | `HelpersTypeCorrect`, `HelpersAreParts` | `PartsSpec` lets the three parts step in any combination; `PartsInv` is their invariants, each untouched by a step of the others. `MCHelpers`, where one part runs, is a special case |
| `NFTDropProofs` | `TypeCorrect` | types, and: a goroutine that works for a user finds his record |
| | `OneDropperCorrect` | `LockInv`: the holder of `userlock` is the one request that is checking, and its user is still unknown |
| | `DurableCorrect` | `DoneInv`: a stored success is one in memory too, and the watcher of a successful user has left the branch that writes FALSE |
| | `NobodyForgottenCorrect` | a known user stays known until a crash, after which whoever is stored without success and without a list to watch is dropped to anew; `OneDropper` is needed so that the goroutine that ends is the user's only one |
| | `StartedIsKeptCorrect` | `StoredInv`: who was told "started" is in the database or among those for whom every Put has failed, and a stored record stays (`Writes`, `PutTried`), so that a crash brings him back; the rest is `NobodyForgotten` |
| | `SuccessMeansDeliveredCorrect` | `DeliverInv`: what is on a user's list is his own transaction (`OwnTxs`), and a tick that leaves the list empty has seen a block or a failing check |
| | `AtMostOneNFTCorrect` | under `Calm` (no late time-out, no lost answer, no crash). `Once`: a user has at most one transaction that is in a block or may still get there (`Live`), none while a goroutine of his may send, and the one that there is is on his list, or about to be put on it, while he is watched. An attempt ends without success only when that transaction is gone |
| | `ContractCorrect` | under `Calm` and without failing checks: `NFTDrop` implements `DropContract`. `Register` is `Accept`, a transaction of his that enters a block is `Deliver`, the tick that sees it is `Tell`; every other step is a stutter (`Stutters`). `Once` is what makes the second half of `Deliver`'s guard true |
| `FaucetCoinsProofs` | `TypeCorrect` | types; a loop index stays within its amounts |
| | `NoCoinReuseCorrect`, `InUseIsListedCorrect` | `CoinInv`: only the holder of `airlock` awaits an answer (`TurnInv`); a listed coin that the answer lacks is spent (`ChainInv`); a coin built into a transaction is marked, or spent and in neither list nor answer (`UseInv`). `NoCoinReuse` alone is not inductive: `Install` drops marks, and only `UseInv` says that it drops those of spent coins |
| | `NoInputConflictCorrect` | `FateInv`: only what its job has sent has a fate; `SpendInv`: a spent coin has been spent by a transaction in a block that it was built into. With `NoCoinReuse` no other transaction can have spent, or be about to spend, a coin of one that is still to be sent |
| `FaucetDropProofs` | `TypeCorrect` | types; the number of the transaction to send stays within the drop |
| | `DeliveredCorrect`, `StoredWatched`, `DeliveredDurable` | `Inv`: before its watcher starts a drop has nothing stored and nothing delivered (`EarlyIsEmpty`), so a sending drop cannot contradict the database; a delivered transaction is off the list (`OffList`), so neither the time-out nor a watcher started from the database can call it failed; what is stored as delivered the watcher still has in memory (`Remembered`); since a Put may fail, what is stored may be older than what is in memory, but each transaction on a stored list is watched or has a verdict there (`Stored`), and what a watcher leaves on its list has failed (`EndedIsFailed`) |
| | `SuccessMeansDeliveredCorrect`, `PendingIsTrackedCorrect` | `Covered`: from the last send on, every transaction of the drop is on the list or over, in memory and in what is stored, so that an empty list means all are over; `Truthful`: who is told "done" has such a drop, also when a later request has replaced the record |

**The hypotheses.** `Calm` names three constants, all of which the run
`DropCalm` sets: `Late` and `LossyRPC` are FALSE there and `MaxCrashes` is 0.
None can be dropped: `DropCrashTwice` refutes `AtMostOneNFT` with one crash, a
late time-out starts the drop over while the first transaction may still be
included, and an answer that is lost makes a sent transaction look unsent.
`ContractCorrect` also needs that no check fails, for a failing check makes the
service say "served" of a user who is not. With crashes, late time-outs and lost
answers the theorems about `OneDropper`, `SuccessMeansDelivered` and the stored
records still hold. `OneUpdater` is the account as `UpdateAccount` alone leaves
it.

**Model-checked only.** Liveness: the prover handles neither fairness nor
`ENABLED`, so `SpentCoinsLeave`, `UnspentCoinsReturn`, `UpdatesEnd`, `StartsUp`,
`FlagsCleared`, `EachIsRequested`, `EachIsPosted`, `RequestsAnswered`,
`RoundsEnd`, `AirlockReturns`, `ChosenIsSent` and `StartedEnds` are TLC's.
Every invariant and every action property of the passing runs is a theorem.

## 5. What is left out

* Requests that fail their checks (captcha, JSON, payment address) return
  before anything has changed.
* The arithmetic by which `AirdropUser` arrives at the number of transactions
  and outputs, and fees: constants of `FaucetCoins` and `FaucetDrop`.
* Go's own detection of concurrent map access (`nftdrop/main.go:88` reads a map
  that `AirdropNFT` writes), except that a crash may come at any point; torn
  reads of a map or of `err` as an interface value.
* A call of the coin service or the node that never returns.
* `GetRandomAirdropAccount`, which changes nothing: that it finds an account is
  an open choice.
* Configuration but for the wait of `readConfig`, log files, captcha,
  decompression of HTTP bodies, opening and recovering the database: input and
  output only. Functions without a caller (`ConnectDB`,
  `SendWithCustomChannel`, `cacheStore`).

## 6. What could be added

The arithmetic of `AirdropUser` as recursive functions, against a reference
definition.
