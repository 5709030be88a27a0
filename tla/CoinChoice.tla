------------------------------ MODULE CoinChoice ------------------------------
(***************************************************************************)
(* ChooseBestUTXOs (account_info.go), which picks the coins of a token to  *)
(* pay for an amount.  It reads the account three times, for the balance,  *)
(* for a coin of just the amount and for the list that it walks, and other *)
(* goroutines mark coins as used, or give them back, in between.           *)
(***************************************************************************)
EXTENDS Integers, Sequences, FiniteSets, FiniteSetsExt

CONSTANTS
  Coins,
  ValueOf,      \* Coin.GetValue
  Amounts,      \* the amounts asked for
  MaxChanges    \* bound on what the other goroutines do

ASSUME ChoiceAssumption ==
  /\ IsFiniteSet(Coins)
  /\ ValueOf \in [Coins -> Nat \ {0}]
  /\ Amounts \subseteq Nat \ {0}
  /\ MaxChanges \in Nat

VARIABLES
  offered,              \* the coins of the token whose state is 0 or less
  changes,
  choicePc,             \* "balance", "exact", "list", "loop", "last", "done", "failed"
  requiredAmount, balance,
  utxoList, i,
  coinsToSpend, remainAmount, totalChosenAmount,
  before                \* history: the value of the coins that the loop has passed

envVars == <<offered, changes>>
callVars == <<requiredAmount, balance>>
loopVars == <<i, coinsToSpend, remainAmount, totalChosenAmount, before>>
choiceVars == <<envVars, choicePc, callVars, utxoList, loopVars>>

Goes(from, to) == choicePc = from /\ choicePc' = to

\* Another goroutine: MarkTempUsed, MarkUsed and what gives coins back.
Change(S) ==
  /\ changes < MaxChanges /\ changes' = changes + 1
  /\ offered' = S
  /\ UNCHANGED <<choicePc, callVars, utxoList, loopVars>>

\* GetBalance
Worth(S) == MapThenSumSet(LAMBDA c : ValueOf[c], S)
ReadBalance(amount) ==
  /\ Goes("balance", IF Worth(offered) < amount THEN "failed" ELSE "exact")
  /\ requiredAmount' = amount
  /\ balance' = Worth(offered)
  /\ UNCHANGED <<envVars, utxoList, loopVars>>

\* GetUTXOsByAmount, and one of what it returns if it returns any.
Exact == {c \in offered : ValueOf[c] = requiredAmount}
TakeExact(c) ==
  /\ Goes("exact", "done")
  /\ c \in Exact
  /\ coinsToSpend' = <<c>>
  /\ totalChosenAmount' = ValueOf[c]
  /\ UNCHANGED <<envVars, callVars, utxoList, i, remainAmount, before>>
NoneExact ==
  /\ Goes("exact", "list")
  /\ Exact = {}
  /\ UNCHANGED <<envVars, callVars, utxoList, loopVars>>

\* sortUTXOs: descending, coins of the same value in any order.  A slip sorts
\* upwards.
Ascending(l) == \A j, k \in DOMAIN l : j < k => ValueOf[l[j]] <= ValueOf[l[k]]
Descending(l) == \A j, k \in DOMAIN l : j < k => ValueOf[l[j]] >= ValueOf[l[k]]
Listings(S) ==
  {l \in [1..Cardinality(S) -> S] :
     Descending(l) /\ \A j, k \in DOMAIN l : l[j] = l[k] => j = k}

\* GetListUnspentOutput.  If the balance was just the amount, all of it is
\* taken, whatever the balance is now.
ReadList(l) ==
  /\ Goes("list", CASE l = <<>> -> "failed"
                    [] l # <<>> /\ balance = requiredAmount -> "done"
                    [] OTHER -> "loop")
  /\ l \in Listings(offered)
  /\ utxoList' = l
  /\ i' = 1 /\ before' = 0
  /\ coinsToSpend' = IF balance = requiredAmount THEN l ELSE <<>>
  /\ remainAmount' = requiredAmount /\ totalChosenAmount' = 0
  /\ UNCHANGED <<envVars, callVars>>

-----------------------------------------------------------------------------
\* The loop, over all coins but the last.
Value(k) == ValueOf[utxoList[k]]

InLoop == i < Len(utxoList)

\* Whether a coin is not too much.  A slip compares it with the whole amount.
FitsAmount == Value(i) <= requiredAmount
Fits == Value(i) <= remainAmount

\* Whether a coin that is too much is left for the next one.  A slip leaves it
\* for any smaller one.
NextIsSmaller == Value(i + 1) <= Value(i)
NextIsEnough == Value(i + 1) >= remainAmount

ChooseCoin ==
  /\ coinsToSpend' = Append(coinsToSpend, utxoList[i])
  /\ totalChosenAmount' = totalChosenAmount + Value(i)

NextCoin ==
  /\ i' = i + 1
  /\ before' = before + Value(i)
  /\ UNCHANGED <<envVars, callVars, utxoList>>

\* The coin is too much, and the next one is still enough.
Skip ==
  /\ Goes("loop", "loop") /\ InLoop
  /\ ~Fits /\ NextIsEnough
  /\ UNCHANGED <<coinsToSpend, remainAmount, totalChosenAmount>>
  /\ NextCoin

\* The coin is too much, and the next one is too little.
Close ==
  /\ Goes("loop", "last") /\ InLoop
  /\ ~Fits /\ ~NextIsEnough
  /\ ChooseCoin
  /\ UNCHANGED remainAmount
  /\ NextCoin

\* The coin is not too much.
Add ==
  /\ Goes("loop", "loop") /\ InLoop
  /\ Fits
  /\ ChooseCoin
  /\ remainAmount' = remainAmount - Value(i)
  /\ NextCoin

EndLoop ==
  /\ Goes("loop", "last") /\ ~InLoop
  /\ UNCHANGED <<envVars, callVars, utxoList, loopVars>>

\* After the loop: the last coin, if the others are too little.  A slip does
\* not look at the total again.
LastCoinUnchecked ==
  /\ Goes("last", "done")
  /\ totalChosenAmount < requiredAmount
  /\ coinsToSpend' = Append(coinsToSpend, utxoList[Len(utxoList)])
  /\ totalChosenAmount' = totalChosenAmount + Value(Len(utxoList))
  /\ UNCHANGED <<envVars, callVars, utxoList, i, remainAmount, before>>
LastCoin ==
  LET n == Len(utxoList)
      total == totalChosenAmount + Value(n)
  IN  /\ Goes("last", IF total < requiredAmount THEN "failed" ELSE "done")
      /\ totalChosenAmount < requiredAmount
      /\ coinsToSpend' = Append(coinsToSpend, utxoList[n])
      /\ totalChosenAmount' = total
      /\ UNCHANGED <<envVars, callVars, utxoList, i, remainAmount, before>>
Enough ==
  /\ Goes("last", "done")
  /\ totalChosenAmount >= requiredAmount
  /\ UNCHANGED <<envVars, callVars, utxoList, loopVars>>

-----------------------------------------------------------------------------
ChoiceInit ==
  /\ offered \in SUBSET Coins /\ changes = 0
  /\ choicePc = "balance"
  /\ requiredAmount = 0 /\ balance = 0
  /\ utxoList = <<>> /\ i = 1 /\ before = 0
  /\ coinsToSpend = <<>> /\ remainAmount = 0 /\ totalChosenAmount = 0

Read ==
  \/ \E amount \in Amounts : ReadBalance(amount)
  \/ \E c \in Coins : TakeExact(c)
  \/ NoneExact
  \/ \E l \in Listings(offered) : ReadList(l)
Walk == Skip \/ Close \/ Add \/ EndLoop \/ LastCoin \/ Enough

ChoiceNext == Read \/ Walk \/ \E S \in SUBSET Coins : Change(S)

ChoiceSpec == ChoiceInit /\ [][ChoiceNext]_choiceVars

-----------------------------------------------------------------------------
\* Every variable has its type; remainAmount, a uint64, does not wrap around.
ChoiceTypeOK ==
  /\ offered \in SUBSET Coins /\ changes \in 0..MaxChanges
  /\ choicePc \in {"balance", "exact", "list", "loop", "last", "done", "failed"}
  /\ requiredAmount \in Nat /\ balance \in Nat
  /\ utxoList \in Seq(Coins) /\ i \in 1 .. Len(utxoList) + 1
  /\ coinsToSpend \in Seq(Coins)
  /\ remainAmount \in Nat /\ totalChosenAmount \in Nat /\ before \in Nat

\* The coins that are returned are enough to pay for the amount, unless they
\* are all of the list because the balance was just the amount before another
\* goroutine changed the account; totalChosenAmount is what they are worth.
Chosen == {coinsToSpend[k] : k \in DOMAIN coinsToSpend}
ChosenSuffices ==
  choicePc = "done" =>
    \/ Worth(Chosen) >= requiredAmount /\ totalChosenAmount \in {0, Worth(Chosen)}
    \/ balance = requiredAmount /\ changes > 0

\* The coins that are picked are distinct, and none of them could be left out:
\* no more coins are marked as used than the amount takes.
ChosenIsLeast ==
  choicePc = "done" /\ totalChosenAmount > 0 =>
    /\ totalChosenAmount >= requiredAmount
    /\ \A j, k \in DOMAIN coinsToSpend : coinsToSpend[j] = coinsToSpend[k] => j = k
    /\ \A k \in DOMAIN coinsToSpend :
         totalChosenAmount - ValueOf[coinsToSpend[k]] < requiredAmount

\* "not enough coin to spend" is only returned when all coins of the list are
\* not enough, though the loop leaves some out.
FailsOnlyIfShort ==
  choicePc = "failed" /\ utxoList # <<>> => before + Value(Len(utxoList)) < requiredAmount
=============================================================================
