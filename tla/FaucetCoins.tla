----------------------------- MODULE FaucetCoins -----------------------------
(***************************************************************************)
(* The airdrop accounts of the PRV drop service (main.go): the goroutines  *)
(* AirdropUser take turns over the accounts (chooseAirdropAccount), reload *)
(* an account's coins (getAirdropAccountUTXOs), build transactions from    *)
(* them (CreateAirDropTx) and send what they have built.  FaucetDrop       *)
(* models what becomes of the users.  The full node is external.           *)
(***************************************************************************)
EXTENDS Integers, Sequences, FiniteSetsExt

CONSTANTS
  NumAccounts,  \* len(adc.AirdropAccounts)
  Shards, ShardOf,   \* the shard of each account
  Coins, OwnerOf, Value,  \* outputs, the account that owns each, what it is worth
  Jobs,         \* AirdropUser goroutines, one per accepted request
  JobShard,     \* the shard of the user
  Amounts,      \* what each of a job's transactions pays out, without the fee
  Fee,          \* DefaultPRVFee
  Nobody        \* "the lock is free"

Accounts == 0..(NumAccounts - 1)

ASSUME CoinsAssumption ==
  /\ NumAccounts \in Nat \ {0}
  /\ ShardOf \in [Accounts -> Shards]
  /\ IsFiniteSet(Coins)
  /\ OwnerOf \in [Coins -> Accounts] /\ Value \in [Coins -> Nat]
  /\ JobShard \in [Jobs -> Shards]
  /\ Amounts \in [Jobs -> Seq(Nat) \ {<<>>}]
  /\ Fee \in Nat /\ Nobody \notin Jobs

\* The transactions of all jobs.
Drafts == UNION {{<<j, i>> : i \in 1..Len(Amounts[j])} : j \in Jobs}

VARIABLES
  lastUsed,       \* adc.lastUsedADA
  airlock, lock,  \* holders of adc.airlock and of each account's lock
  list, inUse, total,  \* UTXOList, UTXOInUse and TotalUTXO of each account
  pc, account, answer, part,  \* the goroutines
  dead,           \* a goroutine has panicked, and the process with it
  inputs, fate,   \* coins and fate of each transaction
  chain           \* the node's view of each coin

acctVars == <<list, inUse, total>>
nodeVars == <<fate, chain>>
vars == <<lastUsed, airlock, lock, acctVars, pc, account, answer, part, dead,
          inputs, nodeVars>>

Worth(S) == MapThenSumSet(LAMBDA c : Value[c], S)
PaidOut(j) == MapThenSumSet(LAMBDA i : Amounts[j][i], DOMAIN Amounts[j])

Goes(j, from, to) ==
  /\ ~dead
  /\ pc[j] = from /\ pc' = [pc EXCEPT ![j] = to]

-----------------------------------------------------------------------------
(***************************************************************************)
(* chooseAirdropAccount.                                                   *)
(***************************************************************************)

NextAccount == (lastUsed + 1) % NumAccounts

\* An account of another shard is passed over, an account of the user's is
\* examined under airlock.
PassOver(j) ==
  /\ airlock = Nobody
  /\ Goes(j, "choose", "choose")
  /\ ShardOf[NextAccount] # JobShard[j]
  /\ lastUsed' = NextAccount
  /\ UNCHANGED <<airlock, lock, acctVars, account, answer, part, dead, inputs, nodeVars>>

Examine(j) ==
  /\ airlock = Nobody
  /\ Goes(j, "choose", "empty?")
  /\ ShardOf[NextAccount] = JobShard[j]
  /\ lastUsed' = NextAccount
  /\ airlock' = j
  /\ account' = [account EXCEPT ![j] = NextAccount]
  /\ UNCHANGED <<lock, acctVars, answer, part, dead, inputs, nodeVars>>

\* The two tests that call for a reload, each followed by the next test.  A
\* job whose answer is not empty waits for the account's lock.
Tests == {"empty?", "used up?"}
IsStale(j) ==
  \/ pc[j] = "empty?" /\ total[account[j]] = 0
  \/ pc[j] = "used up?" /\ Cardinality(inUse[account[j]]) = Cardinality(list[account[j]])
\* A slip repeats the tests after a reload.
TestsAgain(j) ==
  /\ pc[j] \in Tests
  /\ Goes(j, pc[j], IF pc[j] = "empty?" THEN "used up?" ELSE "empty?")

TestDone(j) ==
  /\ pc[j] \in Tests
  /\ Goes(j, pc[j], IF pc[j] = "empty?" THEN "used up?" ELSE "enough?")

IsFresh(j) ==
  /\ answer[j] = {} /\ ~IsStale(j)
  /\ TestDone(j)
  /\ UNCHANGED <<lastUsed, airlock, lock, acctVars, account, answer, part, dead,
                 inputs, nodeVars>>

Unspent(a) == {c \in Coins : OwnerOf[c] = a /\ chain[c] = "unspent"}

\* getAirdropAccountUTXOs asks the node, and returns at once if there is no coin.
Reload(j) ==
  /\ answer[j] = {} /\ IsStale(j)
  /\ IF Unspent(account[j]) = {} THEN TestDone(j) ELSE Goes(j, pc[j], pc[j])
  /\ answer' = [answer EXCEPT ![j] = Unspent(account[j])]
  /\ UNCHANGED <<lastUsed, airlock, lock, acctVars, account, part, dead, inputs, nodeVars>>

\* The node does not answer, or CreateRawTransactionWithInputCoins fails.
Panic(j) ==
  /\ ~dead
  /\ (answer[j] = {} /\ IsStale(j)) \/ pc[j] = "build"
  /\ dead' = TRUE
  /\ UNCHANGED <<lastUsed, airlock, lock, acctVars, pc, account, answer, part,
                 inputs, nodeVars>>

\* The marks of the coins that the node still reports stay; a slip drops all.
KeepNone(a, got) == {}
KeepPending(a, got) == inUse[a] \cap got

\* The coins are replaced under the account's lock.
Install(j) ==
  LET a == account[j]
  IN  /\ answer[j] # {} /\ lock[a] = Nobody
      /\ TestDone(j)
      /\ list' = [list EXCEPT ![a] = answer[j]]
      /\ inUse' = [inUse EXCEPT ![a] = KeepPending(a, answer[j])]
      /\ total' = [total EXCEPT ![a] = Cardinality(answer[j])]
      /\ answer' = [answer EXCEPT ![j] = {}]
      /\ UNCHANGED <<lastUsed, airlock, lock, account, part, dead, inputs, nodeVars>>

\* Coins in use are counted in, fees are not.
TooPoor(j) ==
  /\ Goes(j, "enough?", "choose")
  /\ PaidOut(j) > Worth(list[account[j]])
  /\ airlock' = Nobody
  /\ UNCHANGED <<lastUsed, lock, acctVars, account, answer, part, dead, inputs, nodeVars>>

Choose(j) ==
  /\ Goes(j, "enough?", "lock")
  /\ PaidOut(j) <= Worth(list[account[j]])
  /\ airlock' = Nobody
  /\ UNCHANGED <<lastUsed, lock, acctVars, account, answer, part, dead, inputs, nodeVars>>

-----------------------------------------------------------------------------
(***************************************************************************)
(* AirdropUser: build all transactions under the account's lock, then send *)
(* them.                                                                   *)
(***************************************************************************)

Lock(j) ==
  /\ lock[account[j]] = Nobody
  /\ Goes(j, "lock", "build")
  /\ lock' = [lock EXCEPT ![account[j]] = j]
  /\ UNCHANGED <<lastUsed, airlock, acctVars, account, answer, part, dead, inputs, nodeVars>>

\* Coins are taken in list order, skipping those in use, until they suffice.  A
\* slip skips none.
FreeListed(a) == list[a]
Free(a) == list[a] \ inUse[a]
Chosen(a, need) ==
  {S \in SUBSET Free(a) : /\ Worth(S) >= need
                          /\ \E c \in S : Worth(S \ {c}) < need}

\* CreateAirDropTx.  When the free coins do not suffice, CreateRaw... fails:
\* that is Panic.
Build(j, S) ==
  LET a == account[j]
      last == part[j] = Len(Amounts[j])
  IN  /\ S \in Chosen(a, Amounts[j][part[j]] + Fee)
      /\ Goes(j, "build", IF last THEN "send" ELSE "build")
      /\ inUse' = [inUse EXCEPT ![a] = @ \cup S]
      /\ inputs' = [inputs EXCEPT ![<<j, part[j]>>] = S]
      /\ part' = [part EXCEPT ![j] = IF last THEN 1 ELSE @ + 1]
      /\ lock' = [lock EXCEPT ![a] = IF last THEN Nobody ELSE @]
      /\ UNCHANGED <<lastUsed, airlock, list, total, account, answer, dead, nodeVars>>

\* The node accepts a transaction unless an input is spent or pooled.
NodeAccepts(d) ==
  /\ \A c \in inputs[d] : chain[c] = "unspent"
  /\ \A e \in Drafts : fate[e] = "pool" => inputs[d] \cap inputs[e] = {}

\* A transaction that SendRawTx rejects, for these or other reasons, is not
\* sent again, and its coins stay in use.  A slip sends the first one only.
SendFirst(j, accepted) ==
  LET d == <<j, part[j]>>
      last == part[j] = Len(Amounts[j])
  IN  /\ Goes(j, "send", IF last THEN "sent" ELSE "send")
      /\ accepted => NodeAccepts(d)
      /\ fate' = [fate EXCEPT ![d] = IF accepted THEN "pool" ELSE "rejected"]
      /\ UNCHANGED <<lastUsed, airlock, lock, acctVars, account, answer, part, dead, inputs, chain>>

Send(j, accepted) ==
  LET d == <<j, part[j]>>
      last == part[j] = Len(Amounts[j])
  IN  /\ Goes(j, "send", IF last THEN "sent" ELSE "send")
      /\ accepted => NodeAccepts(d)
      /\ fate' = [fate EXCEPT ![d] = IF accepted THEN "pool" ELSE "rejected"]
      /\ part' = [part EXCEPT ![j] = IF last THEN @ ELSE @ + 1]
      /\ UNCHANGED <<lastUsed, airlock, lock, acctVars, account, answer, dead, inputs, chain>>

-----------------------------------------------------------------------------
(***************************************************************************)
(* The node.                                                               *)
(***************************************************************************)

Include(d) ==
  /\ fate[d] = "pool"
  /\ fate' = [fate EXCEPT ![d] = "block"]
  /\ chain' = [c \in Coins |-> IF c \in inputs[d] THEN "spent" ELSE chain[c]]
  /\ UNCHANGED <<lastUsed, airlock, lock, acctVars, pc, account, answer, part, dead, inputs>>

\* Change and top-ups arrive as new coins.
Receive(c) ==
  /\ chain[c] = "absent"
  /\ chain' = [chain EXCEPT ![c] = "unspent"]
  /\ UNCHANGED <<lastUsed, airlock, lock, acctVars, pc, account, answer, part, dead,
                 inputs, fate>>

-----------------------------------------------------------------------------
Init ==
  /\ lastUsed = 0
  /\ airlock = Nobody /\ lock = [a \in Accounts |-> Nobody]
  /\ list = [a \in Accounts |-> {}] /\ inUse = [a \in Accounts |-> {}]
  /\ total = [a \in Accounts |-> 0]
  /\ pc = [j \in Jobs |-> "choose"]
  /\ account = [j \in Jobs |-> 0]
  /\ answer = [j \in Jobs |-> {}]
  /\ part = [j \in Jobs |-> 1]
  /\ dead = FALSE
  /\ inputs = [d \in Drafts |-> {}]
  /\ fate = [d \in Drafts |-> "none"]
  /\ chain \in [Coins -> {"absent", "unspent"}]

Refresh(j) == IsFresh(j) \/ Reload(j) \/ Install(j)
Decide(j) == TooPoor(j) \/ Choose(j)
Draft(j) == \E S \in SUBSET Coins : Build(j, S)
Transmit(j) == \E accepted \in BOOLEAN : Send(j, accepted)
JobNext(j) == PassOver(j) \/ Examine(j) \/ Refresh(j) \/ Decide(j) \/ Lock(j)
              \/ Draft(j) \/ Transmit(j) \/ Panic(j)

NodeNext == (\E d \in Drafts : Include(d)) \/ (\E c \in Coins : Receive(c))

\* The end: every job has sent its transactions, or the process has died.
Terminated ==
  /\ dead \/ \A j \in Jobs : pc[j] = "sent"
  /\ UNCHANGED vars

Next == (\E j \in Jobs : JobNext(j)) \/ NodeNext \/ Terminated

Spec == Init /\ [][Next]_vars

\* Goroutines run, the node answers or the process panics, and a goroutine
\* that waits for an account's lock gets it (sync.Mutex is fair to waiters).
Fairness ==
  \A j \in Jobs : /\ SF_vars(Refresh(j)) /\ WF_vars(Decide(j))
                  /\ SF_vars(Lock(j)) /\ WF_vars(Draft(j) \/ Panic(j))
                  /\ WF_vars(Transmit(j))

FairSpec == Spec /\ Fairness

-----------------------------------------------------------------------------
(***************************************************************************)
(* Properties.                                                             *)
(***************************************************************************)

\* Every variable has its type.
TypeOK ==
  /\ lastUsed \in Accounts
  /\ airlock \in Jobs \cup {Nobody}
  /\ lock \in [Accounts -> Jobs \cup {Nobody}]
  /\ list \in [Accounts -> SUBSET Coins] /\ inUse \in [Accounts -> SUBSET Coins]
  /\ total \in [Accounts -> 0..Cardinality(Coins)]
  /\ pc \in [Jobs -> {"choose", "empty?", "used up?", "enough?", "lock", "build",
                       "send", "sent"}]
  /\ account \in [Jobs -> Accounts]
  /\ answer \in [Jobs -> SUBSET Coins]
  /\ part \in [Jobs -> Nat] /\ \A j \in Jobs : part[j] \in 1..Len(Amounts[j])
  /\ dead \in BOOLEAN
  /\ inputs \in [Drafts -> SUBSET Coins]
  /\ fate \in [Drafts -> {"none", "rejected", "pool", "block"}]
  /\ chain \in [Coins -> {"absent", "unspent", "spent"}]

\* No coin is built into two transactions, though an account is reloaded while
\* transactions made from it are being built, sent or included.
NoCoinReuse ==
  \A d, e \in Drafts : d # e => inputs[d] \cap inputs[e] = {}

\* A coin in use is a listed one, so that comparing the two lengths tells
\* whether every coin is in use.
InUseIsListed == \A a \in Accounts : inUse[a] \subseteq list[a]

\* What the marks are for: a transaction that is built and not yet sent spends
\* coins that the chain holds unspent and no pooled transaction spends, so that
\* the node has no reason in its coins to refuse it.
NoInputConflict == \A d \in Drafts : fate[d] = "none" => NodeAccepts(d)

\* airlock, which every drop needs, is given back, whatever the account looks
\* like; and a job that has chosen an account gets to send.
AirlockReturns == \A j \in Jobs : airlock = j ~> (airlock # j \/ dead)
ChosenIsSent == \A j \in Jobs : pc[j] = "lock" ~> (pc[j] = "sent" \/ dead)
=============================================================================
