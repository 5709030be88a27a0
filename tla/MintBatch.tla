------------------------------ MODULE MintBatch ------------------------------
(***************************************************************************)
(* How nftdrop keeps one airdrop account in NFTs and coins: the loops      *)
(* manageNFTs and managePRVUTXOs (account_manager.go) start goroutines     *)
(* that run mintNFTMany and splitPRV (txs.go).  Each sends its             *)
(* transactions in batches of workers that report on two bounded channels; *)
(* a worker that fails is retried; the batch may be given up while workers *)
(* are running.  What a transaction does to the coins is in AccountInfo:   *)
(* here it fails or the node accepts it.                                   *)
(***************************************************************************)
EXTENDS Integers

CONSTANTS
  Minters, Splitters, \* the goroutines that the two loops may start
  Slots,              \* slots for batches that somebody collects or works on
  MaxOutputSize,      \* outputs of a transaction (incclient)
  NumMint, NumSplit,  \* numMintBatchNFTs, numSplitPRVs
  NoSlot, Nobody

ASSUME BatchAssumption ==
  /\ Minters \cap Splitters = {}
  /\ MaxOutputSize \in Nat \ {0} /\ NumMint \in Nat /\ NumSplit \in Nat
  /\ NoSlot \notin Slots /\ Nobody \notin Minters \cup Splitters

Goroutines == Minters \cup Splitters

VARIABLES
  isMinting, isSplitting,  \* of the AccountInfo
  pc, current,             \* each goroutine's place and the batch it collects
  need, remaining, err,    \* splitPRV's argument and variables
  sendOk, sent, fooled,    \* history: what splitPRV's own transaction came to; the
                           \* outputs (up to need) that the node has accepted;
                           \* whether splitPRV has taken a failure for a success
  batch

flags    == <<isMinting, isSplitting>>
splits   == <<need, remaining, err, sendOk, sent, fooled>>
vars     == <<flags, pc, current, splits, batch>>

\* A batch: whether somebody collects it; the goroutine to whose err its first
\* workers assign (splitPRV); the workers still to start, first workers,
\* retries and messages; the first workers that have reported and have yet to
\* assign nil, or an error, to err.
Batch == [held : BOOLEAN, owner : Goroutines \cup {Nobody}, size : Nat, toStart : Nat,
          first : Nat, retries : Nat, errChan : Nat, doneChan : Nat,
          errCount : Nat, doneCount : Nat, setNil : Nat, setErr : Nat]

NewBatch(g, n) ==
  [held |-> TRUE, owner |-> g, size |-> n, toStart |-> n, first |-> 0, retries |-> 0,
   errChan |-> 0, doneChan |-> 0, errCount |-> 0, doneCount |-> 0,
   setNil |-> 0, setErr |-> 0]
NoBatch == [NewBatch(Nobody, 0) EXCEPT !.held = FALSE]

Workers(b) == b.first + b.retries + b.setNil + b.setErr

\* Once its collector has left and its workers have ended, nothing is left of it.
Settled(b) == IF b.held \/ Workers(b) > 0 THEN b ELSE NoBatch

-----------------------------------------------------------------------------
(***************************************************************************)
(* Workers: mintNFT and transferPRV, and the closures that run them.       *)
(***************************************************************************)

At(s, b) == batch' = [batch EXCEPT ![s] = Settled(b)]

\* A worker's one message; the send waits for room in the channel.  A first
\* worker of splitPRV has an assignment to make yet.  A slip reports an error
\* and goes on to report again.
Stops(b, who) == IF who = "first" THEN [b EXCEPT !.first = @ - 1]
                                  ELSE [b EXCEPT !.retries = @ - 1]
Assigning(b, who) == IF who = "first" /\ b.owner # Nobody THEN 1 ELSE 0

FailsTwice(b, who) == [Stops(b, who) EXCEPT !.errChan = @ + 2]
Fails(b, who) ==
  [Stops(b, who) EXCEPT !.errChan = @ + 1, !.setErr = @ + Assigning(b, who)]
Succeeds(b, who) ==
  [Stops(b, who) EXCEPT !.doneChan = @ + 1, !.setNil = @ + Assigning(b, who)]

Runs(b, who) == IF who = "first" THEN b.first > 0 ELSE b.retries > 0

\* The node has accepted n more outputs, as far as they are needed.  Whether
\* they get into a block transferPRV does not say: it returns nil when its
\* waiter has seen them there and when the waiter has timed out.
Credit(g, n) ==
  sent' = [sent EXCEPT ![g] = IF @ + n < need[g] THEN @ + n ELSE need[g]]
CreditOwner(s) == IF batch[s].owner = Nobody THEN UNCHANGED sent
                                             ELSE Credit(batch[s].owner, MaxOutputSize)

WorkerFails(s, who) ==
  /\ Runs(batch[s], who) /\ batch[s].errChan < batch[s].size
  /\ At(s, Fails(batch[s], who))
  /\ UNCHANGED <<flags, pc, current, splits>>

\* mintNFT reports as soon as the node has accepted its transaction,
\* transferPRV when it was seen in a block or waiting for that has timed out.
WorkerSucceeds(s, who) ==
  /\ Runs(batch[s], who) /\ batch[s].doneChan < batch[s].size
  /\ At(s, Succeeds(batch[s], who))
  /\ CreditOwner(s)
  /\ UNCHANGED <<flags, pc, current, need, remaining, err, sendOk, fooled>>

\* The first workers of splitPRV assign the result to the err of the caller,
\* whatever that is doing by now; it is kept here only as long as it is tested.
Assign(s, failed) ==
  err' = [err EXCEPT ![batch[s].owner] = failed /\ pc[batch[s].owner] = "test"]

AssignsErr(s) ==
  /\ \/ /\ batch[s].setNil > 0 /\ Assign(s, FALSE)
        /\ At(s, [batch[s] EXCEPT !.setNil = @ - 1])
     \/ /\ batch[s].setErr > 0 /\ Assign(s, TRUE)
        /\ At(s, [batch[s] EXCEPT !.setErr = @ - 1])
  /\ UNCHANGED <<flags, pc, current, need, remaining, sendOk, sent, fooled>>

-----------------------------------------------------------------------------
(***************************************************************************)
(* The loops over the accounts.                                            *)
(***************************************************************************)

\* g goes on; its place says what it does next.
Goes(g, from, to) == pc[g] = from /\ pc' = [pc EXCEPT ![g] = to]

\* Whether the account is available and short of NFTs, or of coins, is up to
\* the environment.  The flag is set by the goroutine that is started: until it
\* has run nothing but the loop's sleeps keeps the loop from starting another.
MayMint == ~isMinting /\ ~isSplitting
MaySplit == ~isSplitting

StartMinting(g) ==
  /\ MayMint /\ g \in Minters /\ Goes(g, "off", "begin")
  /\ UNCHANGED <<flags, current, splits, batch>>

StartSplitting(g) ==
  /\ MaySplit /\ g \in Splitters /\ Goes(g, "off", "begin")
  /\ UNCHANGED <<flags, current, splits, batch>>

\* splitPRV's variables at its start.
CallSplit(g, n) ==
  /\ need' = [need EXCEPT ![g] = n] /\ remaining' = [remaining EXCEPT ![g] = n]
  /\ err' = [err EXCEPT ![g] = FALSE] /\ sendOk' = [sendOk EXCEPT ![g] = FALSE]
  /\ sent' = [sent EXCEPT ![g] = 0]
  /\ fooled' = [fooled EXCEPT ![g] = FALSE]

SetMinting(g) ==
  /\ g \in Minters /\ Goes(g, "begin", "look")
  /\ isMinting' = TRUE
  /\ UNCHANGED <<isSplitting, current, splits, batch>>

SetSplitting(g) ==
  /\ g \in Splitters /\ Goes(g, "begin", "split")
  /\ isSplitting' = TRUE
  /\ CallSplit(g, NumSplit)
  /\ UNCHANGED <<isMinting, current, batch>>

\* After mintNFTMany and a sleep; after splitPRV and a sleep, or an error.
ClearFlag(g) ==
  /\ Goes(g, "over", "off")
  /\ isMinting' = (isMinting /\ g \notin Minters)
  /\ isSplitting' = (isSplitting /\ g \notin Splitters)
  /\ UNCHANGED <<current, splits, batch>>

-----------------------------------------------------------------------------
(***************************************************************************)
(* mintNFTMany up to its batch, and splitPRV.                              *)
(***************************************************************************)

FreeSlots == {s \in Slots : batch[s] = NoBatch}

\* Channels are made and the workers' loop begins.
OpenBatch(g, b) ==
  /\ FreeSlots # {}
  /\ LET s == CHOOSE s \in FreeSlots : TRUE
     IN  At(s, b) /\ current' = [current EXCEPT ![g] = s]

\* splitPRV returns: err is nobody's concern any more.
Return(g, batches) ==
  /\ batch' = [s \in Slots |->
       IF batches[s].owner = g
       THEN Settled([batches[s] EXCEPT !.owner = Nobody, !.setNil = 0, !.setErr = 0])
       ELSE batches[s]]

\* Too little PRV, or no list of coins; n coins of the right amount are missing.
TooPoor(g) ==
  /\ Goes(g, "look", "over")
  /\ UNCHANGED <<flags, current, splits, batch>>

SplitFirst(g, n) ==
  /\ Goes(g, "look", "split")
  /\ CallSplit(g, n)
  /\ UNCHANGED <<flags, current, batch>>

OpenMint(g) ==
  /\ Goes(g, "look", "spawn")
  /\ OpenBatch(g, NewBatch(Nobody, NumMint))
  /\ UNCHANGED <<flags, splits>>

\* The transaction of splitPRV itself, with the outputs asked for or, if they
\* are too many, with larger ones to split again; the result is assigned to err ...
IsLastSend(g) == remaining[g] <= MaxOutputSize
OwnTransfer(g, ok) ==
  /\ remaining[g] > 0
  /\ Goes(g, "split", "test")
  /\ err' = [err EXCEPT ![g] = ~ok]
  /\ sendOk' = [sendOk EXCEPT ![g] = ok]
  /\ IF ok /\ IsLastSend(g) THEN Credit(g, remaining[g])
                           ELSE UNCHANGED sent
  /\ UNCHANGED <<flags, current, need, remaining, fooled, batch>>

\* ... which is tested next.  After a failure there is a sleep and no look at
\* the context.
Tested(g) == /\ err' = [err EXCEPT ![g] = FALSE]
             /\ sendOk' = [sendOk EXCEPT ![g] = FALSE]
SendAgain(g) ==
  /\ err[g] /\ Goes(g, "test", "split")
  /\ Tested(g)
  /\ UNCHANGED <<flags, current, need, remaining, sent, fooled, batch>>

LastSent(g) ==
  /\ ~err[g] /\ IsLastSend(g) /\ Goes(g, "test", "split")
  /\ remaining' = [remaining EXCEPT ![g] = 0]
  /\ fooled' = [fooled EXCEPT ![g] = @ \/ ~sendOk[g]]
  /\ Tested(g)
  /\ UNCHANGED <<flags, current, need, sent, batch>>

Ceil(n, m) == (n + m - 1) \div m
NumTxs(g) == LET most == MaxOutputSize * MaxOutputSize
             IN  Ceil(IF remaining[g] > most THEN most ELSE remaining[g], MaxOutputSize)

OpenSplit(g) ==
  /\ ~err[g] /\ ~IsLastSend(g) /\ Goes(g, "test", "spawn")
  /\ OpenBatch(g, NewBatch(g, NumTxs(g)))
  /\ Tested(g)
  /\ UNCHANGED <<flags, need, remaining, sent, fooled>>

\* splitPRV returns nil: the goroutine of managePRVUTXOs is through,
\* mintNFTMany goes on with its own batch.
SplitReturns(g) ==
  /\ remaining[g] <= 0 /\ Goes(g, "split", "splitDone")
  /\ Return(g, batch)
  /\ UNCHANGED <<flags, current, splits>>

AfterSplit(g) ==
  /\ IF g \in Splitters
     THEN Goes(g, "splitDone", "over") /\ UNCHANGED <<current, batch>>
     ELSE Goes(g, "splitDone", "spawn") /\ OpenBatch(g, NewBatch(Nobody, NumMint))
  /\ CallSplit(g, 0)
  /\ UNCHANGED flags

-----------------------------------------------------------------------------
(***************************************************************************)
(* The batch, alike in mintNFTMany and splitPRV.                           *)
(***************************************************************************)

Mine(g) == batch[current[g]]
Splits(g) == Mine(g).owner = g

StartWorker(g) ==
  /\ pc[g] = "spawn" /\ Mine(g).toStart > 0
  /\ At(current[g], [Mine(g) EXCEPT !.toStart = @ - 1, !.first = @ + 1])
  /\ UNCHANGED <<flags, pc, current, splits>>

AllStarted(g) ==
  /\ Goes(g, "spawn", "collect") /\ Mine(g).toStart = 0
  /\ UNCHANGED <<flags, current, splits, batch>>

\* An error is counted (more than size errors are all one) and retried.  Two
\* slips: retry twice, and take outputs off that were not made.
RetryTwice(g) ==
  /\ pc[g] = "collect" /\ Mine(g).errChan > 0
  /\ At(current[g], [Mine(g) EXCEPT !.errChan = @ - 1, !.retries = @ + 2,
                       !.errCount = IF @ > Mine(g).size THEN @ ELSE @ + 1])
  /\ UNCHANGED <<flags, pc, current, splits>>

CountAnyway(g) ==
  /\ pc[g] = "collect" /\ Mine(g).errChan > 0
  /\ At(current[g], [Mine(g) EXCEPT !.errChan = @ - 1, !.retries = @ + 1,
                       !.errCount = IF @ > Mine(g).size THEN @ ELSE @ + 1])
  /\ remaining' = [remaining EXCEPT ![g] = @ - MaxOutputSize]
  /\ UNCHANGED <<flags, pc, current, need, err, sendOk, sent, fooled>>

TakeError(g) ==
  /\ pc[g] = "collect" /\ Mine(g).errChan > 0
  /\ At(current[g], [Mine(g) EXCEPT !.errChan = @ - 1, !.retries = @ + 1,
                       !.errCount = IF @ > Mine(g).size THEN @ ELSE @ + 1])
  /\ UNCHANGED <<flags, pc, current, splits>>

TakeDone(g) ==
  /\ pc[g] = "collect" /\ Mine(g).doneChan > 0
  /\ At(current[g], [Mine(g) EXCEPT !.doneChan = @ - 1, !.doneCount = @ + 1])
  /\ IF Splits(g) THEN remaining' = [remaining EXCEPT ![g] = @ - MaxOutputSize]
                  ELSE UNCHANGED remaining
  /\ UNCHANGED <<flags, pc, current, need, err, sendOk, sent, fooled>>

\* The counts are the collector's, and are gone with it.
Leave(g, to) ==
  /\ pc' = [pc EXCEPT ![g] = to]
  /\ current' = [current EXCEPT ![g] = NoSlot]
Left(b) == [b EXCEPT !.held = FALSE, !.errCount = 0, !.doneCount = 0]

\* The default case: nothing on the channels, and one of the counts is full.
Finish(g) ==
  /\ pc[g] = "collect" /\ Leave(g, IF Splits(g) THEN "split" ELSE "over")
  /\ Mine(g).errChan = 0 /\ Mine(g).doneChan = 0
  /\ Mine(g).size \in {Mine(g).doneCount, Mine(g).errCount}
  /\ At(current[g], Left(Mine(g)))
  /\ UNCHANGED <<flags, splits>>

\* The context's deadline, which nothing else looks at.  A slip does not
\* return.
TimeOutUnseen(g) == pc[g] = "collect" /\ UNCHANGED vars

TimeOut(g) ==
  /\ pc[g] = "collect" /\ Leave(g, "over")
  /\ IF Splits(g) THEN Return(g, [batch EXCEPT ![current[g]] = Left(@)])
                  ELSE At(current[g], Left(Mine(g)))
  /\ CallSplit(g, 0)
  /\ UNCHANGED flags

-----------------------------------------------------------------------------
Init ==
  /\ isMinting = FALSE /\ isSplitting = FALSE
  /\ pc = [g \in Goroutines |-> "off"]
  /\ current = [g \in Goroutines |-> NoSlot]
  /\ need = [g \in Goroutines |-> 0] /\ remaining = [g \in Goroutines |-> 0]
  /\ err = [g \in Goroutines |-> FALSE] /\ sendOk = [g \in Goroutines |-> FALSE]
  /\ sent = [g \in Goroutines |-> 0]
  /\ fooled = [g \in Goroutines |-> FALSE]
  /\ batch = [s \in Slots |-> NoBatch]

Look(g) == TooPoor(g) \/ OpenMint(g) \/ \E n \in 1..NumMint : SplitFirst(g, n)
Test(g) == SendAgain(g) \/ LastSent(g) \/ OpenSplit(g)
Split(g) == \/ \E ok \in BOOLEAN : OwnTransfer(g, ok)
            \/ Test(g) \/ SplitReturns(g) \/ AfterSplit(g)
Spawn(g) == StartWorker(g) \/ AllStarted(g)
Collect(g) == TakeError(g) \/ TakeDone(g) \/ Finish(g)
Enter(g) == SetMinting(g) \/ SetSplitting(g)
Step(g) == Enter(g) \/ Look(g) \/ Split(g) \/ Spawn(g) \/ Collect(g) \/ ClearFlag(g)

Work(s, who) ==
  WorkerFails(s, who) \/ WorkerSucceeds(s, who)
WorkerNext(s) == Work(s, "first") \/ Work(s, "retries") \/ AssignsErr(s)

Next ==
  \/ \E g \in Goroutines : StartMinting(g) \/ StartSplitting(g) \/ Step(g) \/ TimeOut(g)
  \/ \E s \in Slots : WorkerNext(s)

Spec == Init /\ [][Next]_vars

\* Goroutines run, and transactions come to an end one way or the other; the
\* context's timer fires once, after which every select may choose it; a
\* transaction that splitPRV repeats for ever is accepted some time.
Fairness ==
  /\ \A g \in Goroutines :
       /\ SF_vars(Step(g)) /\ SF_vars(TimeOut(g))
       /\ SF_vars(OwnTransfer(g, TRUE))
  /\ \A s \in Slots : WF_vars(WorkerNext(s))

FairSpec == Spec /\ Fairness

-----------------------------------------------------------------------------
(***************************************************************************)
(* Properties.                                                             *)
(***************************************************************************)

\* Every variable has its type, and who collects has a batch.
TypeOK ==
  /\ isMinting \in BOOLEAN /\ isSplitting \in BOOLEAN
  /\ pc \in [Goroutines -> {"off", "begin", "look", "split", "test", "splitDone", "spawn",
                            "collect", "over"}]
  /\ current \in [Goroutines -> Slots \cup {NoSlot}]
  /\ need \in [Goroutines -> Nat] /\ remaining \in [Goroutines -> Int]
  /\ err \in [Goroutines -> BOOLEAN] /\ sendOk \in [Goroutines -> BOOLEAN]
  /\ sent \in [Goroutines -> Nat]
  /\ fooled \in [Goroutines -> BOOLEAN]
  /\ batch \in [Slots -> Batch]
  /\ \A g \in Goroutines : pc[g] \in {"spawn", "collect"} <=> current[g] # NoSlot

\* The channels have room for as many messages as there are first workers, but
\* each error starts another worker: all the same no send ever blocks, not even
\* when the collector has left the batch.
SendsNeverBlock ==
  \A s \in Slots : batch[s].first + batch[s].retries > 0 =>
    batch[s].errChan < batch[s].size /\ batch[s].doneChan < batch[s].size

\* When all are counted as done ("Mint all NFTs SUCCEEDED") nobody works on the
\* batch any more and no error is left to read: nothing is sent again that was
\* reported as done.  (A transaction that the node has taken in spite of an
\* error is: AccountInfo's SendLost.)
DoneMeansOver ==
  \A g \in Goroutines : pc[g] = "collect" /\ Mine(g).doneCount = Mine(g).size =>
    Mine(g).first + Mine(g).retries + Mine(g).errChan = 0

\* splitPRV returns nil only after the node has accepted transactions with as
\* many outputs as it was asked for, whatever was retried or given up, unless a
\* late worker of an earlier batch has overwritten the error of its last
\* transaction.  That they are in a block it does not say.
SplitIsSent ==
  \A g \in Goroutines : pc[g] = "splitDone" => sent[g] >= need[g] \/ fooled[g]

\* Minting and splitting end, and the account is ready for drops again.
FlagsCleared == (isMinting ~> ~isMinting) /\ (isSplitting ~> ~isSplitting)

=============================================================================
