------------------------------ MODULE FaucetDrop ------------------------------
(***************************************************************************)
(* The users of the PRV drop service (main.go): the handlers APIFaucet and *)
(* APIReqDrop, which are one handler but for the captcha and the amounts,  *)
(* the goroutine AirdropUser that they start, watchUserAirdropStatus that  *)
(* the goroutine turns into, the database of db.go and crashes.  How       *)
(* AirdropUser comes by its transactions is modelled in FaucetCoins; here  *)
(* it has them, in the end.  The full node is external.                    *)
(***************************************************************************)
EXTENDS Integers

CONSTANTS
  Users, Requests,
  UserOf,       \* the user a request is for
  NumTxs,       \* the transactions a request's drop takes
  MaxCrashes,   \* bound on the crashes of the process
  NoRecord      \* "the key is not there"

ASSUME FaucetAssumption ==
  /\ UserOf \in [Requests -> Users]
  /\ NumTxs \in [Requests -> Nat \ {0}]
  /\ MaxCrashes \in Nat
  /\ NoRecord \notin Requests

\* Each request that is not turned away makes a UserAccount of its own, named
\* by the request; its transactions are numbered.
Parts(r) == 1..NumTxs[r]
AllTxs == UNION {{<<r, i>> : i \in Parts(r)} : r \in Requests}

VARIABLES
  users,           \* adc.UserAccounts
  record,          \* the UserAccounts in memory
  recent,          \* less than 30 minutes since record's LastAirdropRequest
  db,              \* the record of each request as the database holds it
  reqPc, answer,   \* the handlers
  dropPc, part,    \* AirdropUser and watchUserAirdropStatus
  fate,            \* the node's view of each transaction
  crashes,
  lost             \* history: transactions off the list because GetTxDetail failed

memVars == <<users, record>>
apiVars == <<reqPc, answer>>
dropVars == <<dropPc, part>>
vars == <<memVars, recent, db, apiVars, dropVars, fate, crashes, lost>>

\* UserAccount: the parts of OngoingTxs, the Status of each of Txs, AirdropSuccess.
Record(r) == [ongoing : SUBSET Parts(r), status : [Parts(r) -> 0..3], success : BOOLEAN]
NewRecord(r) == [ongoing |-> {}, status |-> [i \in Parts(r) |-> 0], success |-> FALSE]

Assign(r, rec) == record' = [record EXCEPT ![r] = rec]

\* UpdateUserAirdropInfo.  The key is the payment address: what it replaces may
\* be the record of another request.  NewRecord stands for "not there".  The
\* callers log the error of a failing Put and go on.
Persist(r) ==
  \/ db' = [q \in Requests |-> IF q = r THEN record[r]
                               ELSE IF UserOf[q] = UserOf[r] THEN NewRecord(q)
                               ELSE db[q]]
  \/ UNCHANGED db

-----------------------------------------------------------------------------
(***************************************************************************)
(* APIFaucet, APIReqDrop.                                                  *)
(***************************************************************************)

\* A known user is told to wait for half an hour after his transactions were
\* built, and that he is done ever after.
Told(q) == IF record[q].success THEN "done" ELSE IF recent[q] THEN "pending" ELSE "none"

\* The user is looked up under a read lock ...
LookUp(r) ==
  LET q == users[UserOf[r]]
      told == IF q = NoRecord THEN "none" ELSE Told(q)
  IN  /\ reqPc[r] = "idle"
      /\ reqPc' = [reqPc EXCEPT ![r] = IF told = "none" THEN "insert" ELSE "answered"]
      /\ answer' = [answer EXCEPT ![r] = told]
      /\ UNCHANGED <<memVars, recent, db, dropVars, fate, crashes, lost>>

\* ... and is inserted under another lock, whoever has been inserted since.
Insert(r) ==
  /\ reqPc[r] = "insert" /\ reqPc' = [reqPc EXCEPT ![r] = "answered"]
  /\ users' = [users EXCEPT ![UserOf[r]] = r]
  /\ dropPc' = [dropPc EXCEPT ![r] = "build"]
  /\ answer' = [answer EXCEPT ![r] = "started"]
  /\ UNCHANGED <<record, recent, db, part, fate, crashes, lost>>

\* Half an hour has passed.
Expire(r) ==
  /\ recent[r] /\ recent' = [recent EXCEPT ![r] = FALSE]
  /\ UNCHANGED <<memVars, db, apiVars, dropVars, fate, crashes, lost>>

-----------------------------------------------------------------------------
(***************************************************************************)
(* AirdropUser.                                                            *)
(***************************************************************************)

DropStep(r, from, to) == dropPc[r] = from /\ dropPc' = [dropPc EXCEPT ![r] = to]

\* Account chosen, all transactions built; LastAirdropRequest is only set now.
Build(r) ==
  /\ DropStep(r, "build", "send")
  /\ recent' = [recent EXCEPT ![r] = TRUE]
  /\ UNCHANGED <<memVars, db, apiVars, part, fate, crashes, lost>>

\* What is watched: every transaction that was built.  A slip watches those
\* that were sent without an error.
WatchedIfSent(r, status) == {i \in Parts(r) : status[i] = 1}
Watched(r, status) == Parts(r)

\* The loop over the transactions.
IsLast(r) == part[r] = NumTxs[r]

\* The record after a transaction was sent, or was refused.
Sent(r, ok) ==
  LET old == record[r]
      status == [old.status EXCEPT ![part[r]] = IF ok THEN 1 ELSE 3]
  IN  [ongoing |-> IF IsLast(r) THEN Watched(r, status) ELSE old.ongoing,
       status |-> status,
       success |-> old.success]

\* SendRawTx.  When it reports an error the node may have pooled the
\* transaction all the same.
Send(r, ok, pooled) ==
  LET last == IsLast(r)
  IN  /\ DropStep(r, "send", IF last THEN "watch" ELSE "send")
      /\ ok => pooled
      /\ fate' = [fate EXCEPT ![<<r, part[r]>>] = IF pooled THEN "pool" ELSE "unknown"]
      /\ Assign(r, Sent(r, ok))
      /\ part' = [part EXCEPT ![r] = IF last THEN @ ELSE @ + 1]
      /\ UNCHANGED <<users, recent, db, apiVars, crashes, lost>>

-----------------------------------------------------------------------------
(***************************************************************************)
(* watchUserAirdropStatus.                                                 *)
(***************************************************************************)

\* GetTxDetail: an error, or IsInBlock.  A slip takes a transaction that the
\* node knows for one in a block.
Missed(r) == {i \in Parts(r) : fate[<<r, i>>] = "unknown"}
IsFound(r, i) == fate[<<r, i>>] # "unknown"
IsInBlock(r, i) == fate[<<r, i>>] = "block"

\* A transaction for which it fails is dropped from the list, like one in a
\* block.  A slip notes what is in a block and goes on watching it.
TickedKeeps(r, E) ==
  LET seen == {i \in record[r].ongoing \ E : IsInBlock(r, i)}
  IN  [record[r] EXCEPT !.status = [i \in Parts(r) |-> IF i \in seen THEN 2 ELSE @[i]]]
Ticked(r, E) ==
  LET old == record[r]
      seen == {i \in old.ongoing \ E : IsInBlock(r, i)}
  IN  [ongoing |-> old.ongoing \ (E \cup seen),
       status |-> [i \in Parts(r) |-> IF i \in seen THEN 2 ELSE old.status[i]],
       success |-> old.success]

Tick(r, E) ==
  /\ DropStep(r, "watch", "ticked")
  /\ E \subseteq record[r].ongoing /\ record[r].ongoing \cap Missed(r) \subseteq E
  /\ Assign(r, Ticked(r, E))
  /\ lost' = lost \cup {<<r, i>> : i \in E}
  /\ UNCHANGED <<users, recent, db, apiVars, part, fate, crashes>>

\* The tick's record is stored before AirdropSuccess is set.
StoreTick(r) ==
  LET over == record[r].ongoing = {}
  IN  /\ DropStep(r, "ticked", IF over THEN "ended" ELSE "watch")
      /\ Persist(r)
      /\ Assign(r, [record[r] EXCEPT !.success = @ \/ over])
      /\ UNCHANGED <<users, recent, apiVars, part, fate, crashes, lost>>

\* What is still watched has failed.
TimedOut(r) ==
  LET old == record[r]
  IN  [ongoing |-> old.ongoing,
       status |-> [i \in Parts(r) |-> IF i \in old.ongoing THEN 3 ELSE old.status[i]],
       success |-> FALSE]

\* The watcher's 45 minutes, or 35 after a restart, are longer than the 30 of
\* the handlers.  OngoingTxs stays as it is.  A slip does not return.
TimeOutStays(r) ==
  /\ DropStep(r, "watch", "watch")
  /\ ~recent[r]
  /\ Assign(r, TimedOut(r))
  /\ UNCHANGED <<users, recent, db, apiVars, part, fate, crashes, lost>>

TimeOut(r) ==
  /\ DropStep(r, "watch", "ended")
  /\ ~recent[r]
  /\ Assign(r, TimedOut(r))
  /\ UNCHANGED <<users, recent, db, apiVars, part, fate, crashes, lost>>

\* The deferred function.
EndWatch(r) ==
  /\ DropStep(r, "ended", "done")
  /\ Persist(r)
  /\ UNCHANGED <<memVars, recent, apiVars, part, fate, crashes, lost>>

-----------------------------------------------------------------------------
(***************************************************************************)
(* The node, and the process' end.                                         *)
(***************************************************************************)

Settle(d, to) ==
  /\ fate[d] = "pool"
  /\ fate' = [fate EXCEPT ![d] = to]
  /\ UNCHANGED <<memVars, recent, db, apiVars, dropVars, crashes, lost>>

\* main watches each stored record that has OngoingTxs.  A slip leaves alone
\* those that have failed transactions.
ResumesSent(r) == /\ db[r].ongoing # {}
                  /\ \A i \in Parts(r) : db[r].status[i] # 3
Resumes(r) == db[r].ongoing # {}

\* A crash at any point, and main of the next process up to r.Run.  The key of
\* the map is Pubkey, which is always empty: no user is found again.
Restart ==
  /\ crashes < MaxCrashes /\ crashes' = crashes + 1
  /\ users' = [u \in Users |-> NoRecord]
  /\ record' = db
  /\ dropPc' = [r \in Requests |-> IF Resumes(r) THEN "watch"
                                   ELSE IF dropPc[r] = "none" THEN "none" ELSE "gone"]
  /\ reqPc' = [r \in Requests |-> IF reqPc[r] = "insert" THEN "answered" ELSE reqPc[r]]
  /\ UNCHANGED <<recent, db, answer, part, fate, lost>>

-----------------------------------------------------------------------------
Init ==
  /\ users = [u \in Users |-> NoRecord]
  /\ record = [r \in Requests |-> NewRecord(r)]
  /\ recent = [r \in Requests |-> FALSE]
  /\ db = [r \in Requests |-> NewRecord(r)]
  /\ reqPc = [r \in Requests |-> "idle"] /\ answer = [r \in Requests |-> "none"]
  /\ dropPc = [r \in Requests |-> "none"] /\ part = [r \in Requests |-> 1]
  /\ fate = [d \in AllTxs |-> "none"]
  /\ crashes = 0 /\ lost = {}

Transmit(r) == \E ok, pooled \in BOOLEAN : Send(r, ok, pooled)
Look(r) == \E E \in SUBSET Parts(r) : Tick(r, E)
Watch(r) == Look(r) \/ StoreTick(r) \/ EndWatch(r)

RequestNext(r) ==
  LookUp(r) \/ Insert(r) \/ Expire(r) \/ Build(r) \/ Transmit(r) \/ Watch(r) \/ TimeOut(r)
NodeNext(d) == Settle(d, "block") \/ Settle(d, "unknown")

Next ==
  \/ \E r \in Requests : RequestNext(r)
  \/ \E d \in AllTxs : NodeNext(d)
  \/ Restart

Spec == Init /\ [][Next]_vars

\* Goroutines run, an account is found (FaucetCoins), time passes and the
\* context's timer fires.  Nothing is asked of the node.
Fairness ==
  \A r \in Requests : /\ WF_vars(Insert(r) \/ Build(r) \/ Transmit(r) \/ Watch(r))
                     /\ WF_vars(Expire(r)) /\ SF_vars(TimeOut(r))

FairSpec == Spec /\ Fairness

-----------------------------------------------------------------------------
(***************************************************************************)
(* Properties.                                                             *)
(***************************************************************************)

\* Every variable has its type.
TypeOK ==
  /\ users \in [Users -> Requests \cup {NoRecord}]
  /\ record = [r \in Requests |-> record[r]] /\ db = [r \in Requests |-> db[r]]
  /\ \A r \in Requests : record[r] \in Record(r) /\ db[r] \in Record(r)
  /\ recent \in [Requests -> BOOLEAN]
  /\ reqPc \in [Requests -> {"idle", "insert", "answered"}]
  /\ answer \in [Requests -> {"none", "pending", "done", "started"}]
  /\ dropPc \in [Requests -> {"none", "build", "send", "watch", "ticked", "ended",
                               "done", "gone"}]
  /\ part \in [Requests -> Nat] /\ \A r \in Requests : part[r] \in Parts(r)
  /\ fate \in [AllTxs -> {"none", "pool", "block", "unknown"}]
  /\ crashes \in 0..MaxCrashes
  /\ lost \in SUBSET AllTxs

\* Status 2, in memory or stored, is only said of a transaction in a block: a
\* verdict that the time-out turns to 3 and a later watcher to 2 stays true.
DeliveredIsInBlock ==
  \A r \in Requests : \A i \in Parts(r) :
    record[r].status[i] = 2 \/ db[r].status[i] = 2 => fate[<<r, i>>] = "block"

\* What is stored as delivered is never stored as anything else, though a
\* time-out sets the status of whatever is still watched, unless the record of
\* another drop to the same user replaces it.
DeliveredIsDurable ==
  [][\A r \in Requests : \A i \in Parts(r) :
       db[r].status[i] = 2 => db'[r].status[i] = 2 \/ db'[r] = NewRecord(r)]_vars

\* A stored record with transactions to watch is being watched, or has been to
\* the end and has a verdict on each in memory, across crashes, failing Puts and
\* other drops to the same user.
Watching(r) == dropPc[r] \in {"watch", "ticked", "ended"}
StoredIsWatched ==
  \A r \in Requests : db[r].ongoing # {} =>
    \/ Watching(r)
    \/ /\ dropPc[r] = "done"
       /\ \A i \in db[r].ongoing : record[r].status[i] \in {2, 3} \/ <<r, i>> \in lost

\* AirdropSuccess, in memory or stored, and the answer 2 mean that all
\* transactions of the drop are in blocks, but for those that GetTxDetail has
\* failed for.
DeliveredOrLost(r) == \A i \in Parts(r) : fate[<<r, i>>] = "block" \/ <<r, i>> \in lost
SuccessMeansDelivered ==
  /\ \A r \in Requests : record[r].success \/ db[r].success => DeliveredOrLost(r)
  /\ \A r \in Requests : answer[r] = "done" =>
       \E q \in Requests : UserOf[q] = UserOf[r] /\ DeliveredOrLost(q)

\* A transaction that the node still holds stays on the list of its watcher,
\* and on that of a watcher that has given up, from which main resumes, unless
\* GetTxDetail has failed for it.
PendingIsTracked ==
  \A r \in Requests : Watching(r) \/ dropPc[r] = "done" =>
    \A i \in Parts(r) : fate[<<r, i>>] = "pool" /\ <<r, i>> \notin lost => i \in record[r].ongoing

\* A drop that has been promised and for which an account is found comes to an
\* end, whatever the node says of its transactions, unless a crash forgets it.
StartedEnds ==
  \A r \in Requests : answer[r] = "started" ~> dropPc[r] \in {"done", "gone"}
=============================================================================
