------------------------------- MODULE NFTDrop -------------------------------
(***************************************************************************)
(* The drop service of nftdrop: the HTTP handler APIReqDrop, the goroutine *)
(* AirdropNFT that it (or main, for a record found in the database)        *)
(* starts, watchUserAirdropStatus that the goroutine turns into, the       *)
(* database of db.go and crashes of the process.  The airdrop accounts are *)
(* reduced to "transferNFT sends a transaction or fails"; AccountInfo      *)
(* models what is behind it.  The full node and the coin service are       *)
(* external.                                                               *)
(***************************************************************************)
EXTENDS Integers, FiniteSets

CONSTANTS
  Users,        \* public keys
  Requests,     \* HTTP requests, each served once
  UserOf,       \* the user a request is for
  Txs,          \* transactions the service may send in all
  MaxAttempts,  \* maxAttempts of common.go
  MaxCrashes,   \* bound on the crashes of the process
  Late,         \* TRUE: a watcher may time out on a transaction still pooled
                \* or included unseen
  LossyRPC,     \* TRUE: transferNFT may report an error for a pooled tx
  FlakyCheck,   \* TRUE: CheckTxInBlock may report an error
  Nobody,       \* "the lock is free"
  NoUser,       \* "the transaction has not been sent"
  NoTx          \* "no transaction"

ASSUME DropAssumption ==
  /\ UserOf \in [Requests -> Users]
  /\ Users \cap Requests = {} /\ Txs # {}
  /\ MaxAttempts \in Nat /\ MaxCrashes \in Nat
  /\ Late \in BOOLEAN /\ LossyRPC \in BOOLEAN /\ FlakyCheck \in BOOLEAN
  /\ Nobody \notin Requests /\ NoUser \notin Users /\ NoTx \notin Txs

VARIABLES
  userlock,  \* the request that holds adc.userlock across the HTTP check
  account,   \* adc.UserAccounts
  db,        \* the records of the database
  reqPc, answer,            \* APIReqDrop
  dropPc, attempt, sent,    \* AirdropNFT and watchUserAirdropStatus
  txUser, pool,             \* the node: receiver and fate of each transaction
  owner,     \* users the coin service knows to own an NFT already
  crashes,
  missed,    \* history: transactions no longer watched after a failed check,
  unstored   \* and users without a record because each Put so far has failed

apiVars  == <<userlock, reqPc, answer>>
dropVars == <<dropPc, attempt, sent>>
nodeVars == <<txUser, pool>>
vars     == <<apiVars, account, db, dropVars, nodeVars, owner, crashes, missed,
              unstored>>

\* A goroutine is named by the request that starts it, or by the user when
\* main starts it after a restart.
Goroutines == Requests \cup Users
Target(g) == IF g \in Users THEN g ELSE UserOf[g]

\* UserAccount; status[t] is 0 when t is not in user.Txs.
Account == [ongoing : SUBSET Txs, status : [Txs -> 0..2], success : BOOLEAN]
NoAccount == [ongoing |-> {}, status |-> [t \in Txs |-> -1], success |-> FALSE]
NewAccount == [ongoing |-> {}, status |-> [t \in Txs |-> 0], success |-> FALSE]
Known(store, u) == store[u] # NoAccount

\* userlock.Lock waits for the holder; a slip that forgets to take it.
NoLock == TRUE
LockFree == userlock = Nobody

Assign(u, acc) == account' = [account EXCEPT ![u] = acc]

\* UpdateUserAirdropInfo.  Its callers log the error of a failing Put and go on.
Persist(u) ==
  \/ /\ db' = [db EXCEPT ![u] = account[u]]
     /\ unstored' = unstored \ {u}
  \/ /\ UNCHANGED db
     /\ unstored' = IF Known(db, u) THEN unstored ELSE unstored \cup {u}

-----------------------------------------------------------------------------
(***************************************************************************)
(* APIReqDrop.                                                             *)
(***************************************************************************)

ReqStep(r, from, to) == reqPc[r] = from /\ reqPc' = [reqPc EXCEPT ![r] = to]
Answer(r, what) == answer' = [answer EXCEPT ![r] = what]

Arrive(r) ==
  /\ ReqStep(r, "idle", "waiting")
  /\ UNCHANGED <<userlock, answer, account, db, unstored, dropVars, nodeVars,
                 owner, crashes, missed>>

\* A known user is told how far his drop is; the fields are read after the
\* lock is released.
AnswerKnown(r) ==
  /\ LockFree
  /\ ReqStep(r, "waiting", "answered")
  /\ Known(account, UserOf[r])
  /\ Answer(r, IF account[UserOf[r]].success THEN "done" ELSE "pending")
  /\ UNCHANGED <<userlock, account, db, unstored, dropVars, nodeVars, owner,
                 crashes, missed>>

\* An unknown user: the lock is kept while the coin service is asked.
BeginCheck(r) ==
  /\ LockFree
  /\ ReqStep(r, "waiting", "checking")
  /\ ~Known(account, UserOf[r])
  /\ userlock' = r
  /\ UNCHANGED <<answer, account, db, unstored, dropVars, nodeVars, owner,
                 crashes, missed>>

\* checkUserHaveNFT failed, or found an NFT.  A slip returns with the lock.
RefuseKeepsLock(r, why) ==
  /\ ReqStep(r, "checking", "answered")
  /\ why = "owner" => UserOf[r] \in owner
  /\ Answer(r, why)
  /\ UNCHANGED <<userlock, account, db, unstored, dropVars, nodeVars, owner,
                 crashes, missed>>

Refuse(r, why) ==
  /\ ReqStep(r, "checking", "answered")
  /\ why = "owner" => UserOf[r] \in owner
  /\ Answer(r, why)
  /\ userlock' = Nobody
  /\ UNCHANGED <<account, db, unstored, dropVars, nodeVars, owner, crashes, missed>>

Register(r) ==
  /\ ReqStep(r, "checking", "registered")
  /\ UserOf[r] \notin owner
  /\ Assign(UserOf[r], NewAccount)
  /\ userlock' = Nobody
  /\ UNCHANGED <<answer, db, unstored, dropVars, nodeVars, owner, crashes, missed>>

\* The record is stored, the goroutine started and the answer 1 given.  A slip
\* does not store.
StoreNothing(r) ==
  /\ ReqStep(r, "registered", "answered")
  /\ dropPc' = [dropPc EXCEPT ![r] = "attempt"]
  /\ Answer(r, "started")
  /\ UNCHANGED <<userlock, account, db, unstored, attempt, sent, nodeVars,
                 owner, crashes, missed>>

StoreAndStart(r) ==
  /\ ReqStep(r, "registered", "answered")
  /\ Persist(UserOf[r])
  /\ dropPc' = [dropPc EXCEPT ![r] = "attempt"]
  /\ Answer(r, "started")
  /\ UNCHANGED <<userlock, account, attempt, sent, nodeVars, owner, crashes, missed>>

-----------------------------------------------------------------------------
(***************************************************************************)
(* AirdropNFT.                                                             *)
(***************************************************************************)

DropStep(g, from, to) == dropPc[g] = from /\ dropPc' = [dropPc EXCEPT ![g] = to]

\* LastAirdropRequest is set under the lock at the start of an attempt.
StartAttempt(g) ==
  /\ LockFree
  /\ attempt[g] < MaxAttempts
  /\ DropStep(g, "attempt", "transfer")
  /\ UNCHANGED <<apiVars, account, db, unstored, attempt, sent, nodeVars,
                 owner, crashes, missed>>

GiveUp(g) ==
  /\ attempt[g] >= MaxAttempts
  /\ DropStep(g, "attempt", "gaveUp")
  /\ UNCHANGED <<apiVars, account, db, unstored, attempt, sent, nodeVars,
                 owner, crashes, missed>>

Pooled(g, t) ==
  /\ pool[t] = "none"
  /\ pool' = [pool EXCEPT ![t] = "pool"]
  /\ txUser' = [txUser EXCEPT ![t] = Target(g)]

\* GetRandomAirdropAccount and transferNFT succeed.
TransferOk(g, t) ==
  /\ DropStep(g, "transfer", "record")
  /\ Pooled(g, t)
  /\ sent' = [sent EXCEPT ![g] = t]
  /\ UNCHANGED <<apiVars, account, db, unstored, attempt, owner, crashes, missed>>

\* One of them returns an error.  When the node's answer is lost, the
\* transaction is in the pool all the same.
TransferFails(g) ==
  /\ DropStep(g, "transfer", "attempt")
  /\ attempt' = [attempt EXCEPT ![g] = @ + 1]
  /\ \/ UNCHANGED nodeVars
     \/ LossyRPC /\ \E t \in Txs : Pooled(g, t)
  /\ UNCHANGED <<apiVars, account, db, unstored, sent, owner, crashes, missed>>

Recorded(acc, t) == [ongoing |-> {t}, status |-> [acc.status EXCEPT ![t] = 1],
                     success |-> acc.success]

Record(g) ==
  /\ LockFree
  /\ DropStep(g, "record", "watch")
  /\ Assign(Target(g), Recorded(account[Target(g)], sent[g]))
  /\ sent' = [sent EXCEPT ![g] = NoTx]
  /\ UNCHANGED <<apiVars, db, unstored, attempt, nodeVars, owner, crashes, missed>>

-----------------------------------------------------------------------------
(***************************************************************************)
(* watchUserAirdropStatus.                                                 *)
(***************************************************************************)

\* CheckTxInBlock, and a slip that takes a pooled transaction for a final one.
IsKnownToNode(t) == pool[t] # "none"
IsInBlock(t) == pool[t] = "block"

\* One tick.  A transaction of E, for which the check returned an error, is
\* dropped from the list like one that was seen in a block.
Ticked(acc, E) ==
  LET seen == {t \in acc.ongoing \ E : IsInBlock(t)}
  IN  [ongoing |-> acc.ongoing \ (E \cup seen),
       status |-> [t \in Txs |-> IF t \in seen THEN 2 ELSE acc.status[t]],
       success |-> acc.success]

Tick(g, E) ==
  /\ DropStep(g, "watch", "ticked")
  /\ E \subseteq account[Target(g)].ongoing /\ (E # {} => FlakyCheck)
  /\ Assign(Target(g), Ticked(account[Target(g)], E))
  /\ missed' = missed \cup E
  /\ UNCHANGED <<apiVars, db, unstored, attempt, sent, nodeVars, owner, crashes>>

\* The tick's record is stored before AirdropSuccess is set.  A slip never
\* sets it.
StoreTickOnly(g) ==
  /\ DropStep(g, "ticked", IF account[Target(g)].ongoing = {} THEN "ended"
                                                              ELSE "watch")
  /\ Persist(Target(g))
  /\ UNCHANGED <<apiVars, account, attempt, sent, nodeVars, owner, crashes, missed>>

StoreTick(g) ==
  LET acc == account[Target(g)]
  IN  /\ DropStep(g, "ticked", IF acc.ongoing = {} THEN "ended" ELSE "watch")
      /\ Persist(Target(g))
      /\ Assign(Target(g), [acc EXCEPT !.success = @ \/ acc.ongoing = {}])
      /\ UNCHANGED <<apiVars, attempt, sent, nodeVars, owner, crashes, missed>>

TimeOut(g) ==
  LET acc == account[Target(g)]
  IN  /\ DropStep(g, "watch", "ended")
      /\ Late \/ \A t \in acc.ongoing : pool[t] = "gone"
      /\ Assign(Target(g), [acc EXCEPT !.ongoing = {}, !.success = FALSE])
      /\ UNCHANGED <<apiVars, db, unstored, attempt, sent, nodeVars, owner,
                     crashes, missed>>

\* The deferred function: store, and drop again unless that was a success.
\* A slip forgets the second half.
EndWatchOnly(g) ==
  /\ DropStep(g, "ended", "finished")
  /\ Persist(Target(g))
  /\ UNCHANGED <<apiVars, account, attempt, sent, nodeVars, owner, crashes, missed>>

EndWatch(g) ==
  /\ DropStep(g, "ended",
              IF account[Target(g)].success THEN "finished" ELSE "attempt")
  /\ Persist(Target(g))
  /\ attempt' = [attempt EXCEPT ![g] = 0]
  /\ UNCHANGED <<apiVars, account, sent, nodeVars, owner, crashes, missed>>

-----------------------------------------------------------------------------
(***************************************************************************)
(* The node, and the process' end.                                         *)
(***************************************************************************)

Settle(t, fate) ==
  /\ pool[t] = "pool"
  /\ pool' = [pool EXCEPT ![t] = fate]
  /\ UNCHANGED <<apiVars, account, db, unstored, dropVars, txUser, owner,
                 crashes, missed>>

\* What main does with the record of u: watch, drop, or nothing.  Two slips:
\* resume only what is watched, or drop to those who have been served.
ResumeWatched(u) == IF db[u].ongoing # {} THEN "watch" ELSE "none"
ResumeAll(u) == IF ~Known(db, u) THEN "none"
                ELSE IF db[u].ongoing # {} THEN "watch" ELSE "attempt"
Resume(u) ==
  IF ~Known(db, u) THEN "none"
  ELSE IF db[u].ongoing # {} THEN "watch"
  ELSE IF ~db[u].success THEN "attempt"
  ELSE "none"

\* A crash at any point, and main of the next process up to r.Run.
Restart ==
  /\ crashes < MaxCrashes
  /\ crashes' = crashes + 1
  /\ account' = db
  /\ userlock' = Nobody
  /\ reqPc' = [r \in Requests |-> IF reqPc[r] = "idle" THEN "idle" ELSE "answered"]
  /\ dropPc' = [g \in Goroutines |-> IF g \in Users THEN Resume(g) ELSE "none"]
  /\ attempt' = [g \in Goroutines |-> 0]
  /\ sent' = [g \in Goroutines |-> NoTx]
  /\ UNCHANGED <<answer, db, unstored, nodeVars, owner, missed>>

-----------------------------------------------------------------------------
Init ==
  /\ userlock = Nobody
  /\ account = [u \in Users |-> NoAccount]
  /\ db = [u \in Users |-> NoAccount]
  /\ reqPc = [r \in Requests |-> "idle"]
  /\ answer = [r \in Requests |-> "none"]
  /\ dropPc = [g \in Goroutines |-> "none"]
  /\ attempt = [g \in Goroutines |-> 0]
  /\ sent = [g \in Goroutines |-> NoTx]
  /\ txUser = [t \in Txs |-> NoUser]
  /\ pool = [t \in Txs |-> "none"]
  /\ owner \in SUBSET Users
  /\ crashes = 0 /\ missed = {} /\ unstored = {}

Check(r) == Refuse(r, "error") \/ Refuse(r, "owner") \/ Register(r)
TakeLock(r) == AnswerKnown(r) \/ BeginCheck(r)
ApiNext(r) == Arrive(r) \/ TakeLock(r) \/ Check(r) \/ StoreAndStart(r)

Transfer(g) == (\E t \in Txs : TransferOk(g, t)) \/ TransferFails(g)
Drop(g) == StartAttempt(g) \/ GiveUp(g) \/ Transfer(g) \/ Record(g)
Watch(g) == (\E E \in SUBSET Txs : Tick(g, E)) \/ StoreTick(g) \/ EndWatch(g)
DropNext(g) == Drop(g) \/ Watch(g) \/ TimeOut(g)

NodeNext(t) == Settle(t, "block") \/ Settle(t, "gone")

Next ==
  \/ \E r \in Requests : ApiNext(r)
  \/ \E g \in Goroutines : DropNext(g)
  \/ \E t \in Txs : NodeNext(t)
  \/ Restart

Spec == Init /\ [][Next]_vars

\* Goroutines run, and a waiting Lock gets its turn (sync.RWMutex is fair); the
\* coin service and the node answer; the context's timer fires.  Neither a crash
\* is owed nor a success of transferNFT, nor a block.
Fairness ==
  /\ \A r \in Requests : SF_vars(TakeLock(r) \/ Check(r) \/ StoreAndStart(r))
  /\ \A g \in Goroutines : SF_vars(Drop(g) \/ Watch(g)) /\ SF_vars(TimeOut(g))

FairSpec == Spec /\ Fairness

-----------------------------------------------------------------------------
(***************************************************************************)
(* Properties.                                                             *)
(***************************************************************************)

\* Every variable has its type.
TypeOK ==
  /\ userlock \in Requests \cup {Nobody}
  /\ account \in [Users -> Account \cup {NoAccount}]
  /\ db \in [Users -> Account \cup {NoAccount}]
  /\ reqPc \in [Requests -> {"idle", "waiting", "checking", "registered", "answered"}]
  /\ answer \in [Requests -> {"none", "pending", "done", "error", "owner", "started"}]
  /\ dropPc \in [Goroutines -> {"none", "attempt", "transfer", "record", "watch",
                                "ticked", "ended", "gaveUp", "finished"}]
  /\ attempt \in [Goroutines -> 0..MaxAttempts]
  /\ sent \in [Goroutines -> Txs \cup {NoTx}]
  /\ txUser \in [Txs -> Users \cup {NoUser}]
  /\ pool \in [Txs -> {"none", "pool", "block", "gone"}]
  /\ owner \subseteq Users
  /\ crashes \in 0..MaxCrashes
  /\ missed \in SUBSET Txs /\ unstored \in SUBSET Users

Working(g) == dropPc[g] \in {"attempt", "transfer", "record", "watch", "ticked", "ended"}
Starting(g) == g \in Requests /\ reqPc[g] = "registered"

\* However many requests a user sends, and whenever the process restarts, at
\* most one goroutine drops to a user: APIReqDrop's test and insertion are one
\* critical section although an HTTP call separates them.
OneDropper ==
  \A g, h \in Goroutines :
    /\ Working(g) \/ Starting(g)
    /\ Working(h) \/ Starting(h)
    /\ Target(g) = Target(h)
    => g = h

\* Somebody works for u, or has used up the attempts.
Pursued(u) ==
  \E g \in Goroutines : /\ Target(g) = u
                        /\ Working(g) \/ Starting(g) \/ dropPc[g] = "gaveUp"

\* A user in the map who has not got his drop has a goroutine that works on
\* it, unless it has used up its attempts: nobody is forgotten across
\* time-outs, failed transfers and restarts.
NobodyForgotten ==
  \A u \in Users : Known(account, u) /\ ~account[u].success => Pursued(u)

\* The answer 1 is a promise that survives every crash and failing Put after
\* it: who was told that his drop has started is known for good, served or
\* pursued, unless no Put of his record has ever worked.
StartedIsKept ==
  \A r \in Requests : answer[r] = "started" =>
    \/ UserOf[r] \in unstored
    \/ /\ Known(account, UserOf[r])
       /\ (account[UserOf[r]].success \/ Pursued(UserOf[r]))

Delivered(u) == {t \in Txs : txUser[t] = u /\ pool[t] = "block"}

\* A check that failed took a transaction for u off the list.
Missed(u) == \E t \in missed : txUser[t] = u

\* AirdropSuccess, in memory or stored, is only said of a user for whom a
\* transaction is in a block, or the check of one has failed.
SuccessMeansDelivered ==
  \A u \in Users : account[u].success \/ db[u].success => Delivered(u) # {} \/ Missed(u)

\* A stored success is never taken back, in spite of the time-out branch that
\* writes FALSE.
SuccessIsDurable ==
  [][\A u \in Users : db[u].success => db'[u].success]_vars

\* MaxNFTPerAccount is 1 (constant.go): no user gets a second NFT, nor one
\* besides an NFT he owned before.
Nfts == [u \in Users |-> Cardinality(Delivered(u)) + IF u \in owner THEN 1 ELSE 0]
AtMostOneNFT == \A u \in Users : Nfts[u] <= 1

\* What the service promises (DropContract), when the process does not die, no
\* error hides a transaction and a time-out means that it is gone.
Owed == {u \in Users : Known(account, u)}
Told == {u \in Users : account[u].success}
Contract == INSTANCE DropContract WITH owed <- Owed, nfts <- Nfts, told <- Told
MeetsContract == Contract!Spec

\* A request is answered once it has arrived, unless the process dies.
RequestsAnswered ==
  \A r \in Requests : reqPc[r] = "waiting" ~> reqPc[r] = "answered"

\* Each round of send and watch ends: a user in the map gets his drop, or
\* another transaction is sent to him, or the attempts of a round are used up,
\* unless the check of a transaction has failed or a crash forgets him.  Nothing
\* bounds the number of rounds: each time-out starts the attempts from 0.
SentTo(u) == Cardinality({t \in Txs : txUser[t] = u})
RoundsEnd ==
  \A u \in Users : \A n \in 0..Cardinality(Txs) : Known(account, u) /\ SentTo(u) = n ~>
    \/ Delivered(u) # {} \/ Missed(u) \/ SentTo(u) > n
    \/ \E g \in Goroutines : Target(g) = u /\ dropPc[g] = "gaveUp"
    \/ ~Known(account, u)
=============================================================================
