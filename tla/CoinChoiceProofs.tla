--------------------------- MODULE CoinChoiceProofs ---------------------------
(***************************************************************************)
(* Proofs about CoinChoice, for any coins, values and amounts: first what  *)
(* the loop does to the sums that it adds up, totalChosenAmount and        *)
(* before, then what those sums are.                                       *)
(***************************************************************************)
EXTENDS CoinChoice, FiniteSetTheorems, TLAPS

\* The types that the loop needs.
Types ==
  /\ offered \in SUBSET Coins
  /\ requiredAmount \in Nat /\ (choicePc # "balance" => requiredAmount > 0)
  /\ utxoList \in Seq(Coins) /\ i \in Nat \ {0}
  /\ coinsToSpend \in Seq(Coins)
  /\ remainAmount \in Nat /\ totalChosenAmount \in Nat /\ before \in Nat
  /\ choicePc \in {"balance", "exact", "list"} => utxoList = <<>>

Distinct(s) == \A j, k \in DOMAIN s : s[j] = s[k] => j = k
Least ==
  /\ totalChosenAmount >= requiredAmount
  /\ Distinct(coinsToSpend)
  /\ \A k \in DOMAIN coinsToSpend : totalChosenAmount - ValueOf[coinsToSpend[k]] < requiredAmount

\* The list, and what of it has been chosen: of the coins that were passed.
Listed == utxoList # <<>> /\ Descending(utxoList) /\ Distinct(utxoList)
Passed ==
  /\ Distinct(coinsToSpend)
  /\ \A k \in DOMAIN coinsToSpend : \E j \in 1 .. i - 1 : coinsToSpend[k] = utxoList[j]

\* The loop.  Once a coin has been left out nothing is missing, or the coin at
\* hand is enough.
Walking ==
  /\ i <= Len(utxoList) /\ Listed /\ Passed
  /\ remainAmount + totalChosenAmount = requiredAmount
  /\ before = totalChosenAmount \/ remainAmount = 0 \/ Value(i) >= remainAmount

Inv ==
  /\ Types
  /\ choicePc = "loop" => Walking
  /\ choicePc = "last" => Least \/ (Walking /\ i = Len(utxoList))
  /\ choicePc = "last" => Listed
  /\ choicePc = "done" /\ totalChosenAmount > 0 => Least
  /\ FailsOnlyIfShort

-----------------------------------------------------------------------------
\* A listing of a set of coins is a sequence of its members.
LEMMA ListingFacts ==
  ASSUME NEW S \in SUBSET Coins, NEW l \in Listings(S)
  PROVE  l \in Seq(Coins) /\ Descending(l) /\ Distinct(l)
<1>1. Cardinality(S) \in Nat
  BY ChoiceAssumption, FS_Subset, FS_CardinalityType
<1>2. l \in [1..Cardinality(S) -> S]
  BY DEF Listings
<1>3. l \in Seq(S)
  BY <1>1, <1>2
<1> QED  BY <1>2, <1>3 DEF Listings, Distinct

\* The coin at k of the list, and a coin after it.
LEMMA ValueFacts ==
  ASSUME Types, NEW k \in 1 .. Len(utxoList)
  PROVE  utxoList[k] \in Coins /\ Value(k) \in Nat \ {0}
  BY ChoiceAssumption DEF Types, Value

\* To choose a coin that comes after those that were chosen, where the total
\* without it was too little and with it is enough.
LEMMA LeastFacts ==
  ASSUME Types, Listed, Passed, NEW n \in 1 .. Len(utxoList), i <= n,
         NEW s, s = Append(coinsToSpend, utxoList[n]),
         NEW total, total = totalChosenAmount + Value(n),
         totalChosenAmount < requiredAmount, total >= requiredAmount
  PROVE  /\ Distinct(s)
         /\ \A k \in DOMAIN s : total - ValueOf[s[k]] < requiredAmount
<1> DEFINE m == Len(coinsToSpend)
<1>1. /\ s \in Seq(Coins) /\ m \in Nat /\ DOMAIN s = 1 .. m + 1 /\ DOMAIN coinsToSpend = 1..m
      /\ s[m + 1] = utxoList[n] /\ \A k \in 1..m : s[k] = coinsToSpend[k]
  BY ValueFacts DEF Types
<1>2. \A k \in 1..m : \E j \in 1 .. i - 1 : s[k] = utxoList[j]
  BY <1>1 DEF Passed
<1>3. \A j \in 1 .. i - 1 : j \in 1 .. Len(utxoList) /\ j < n
  BY DEF Types
<1>4. DOMAIN utxoList = 1 .. Len(utxoList)
  BY DEF Types
<1>5. ASSUME NEW k \in 1..m PROVE s[k] # s[m + 1]
  <2>1. PICK j \in 1 .. i - 1 : s[k] = utxoList[j]
    BY <1>2
  <2>2. j \in DOMAIN utxoList /\ n \in DOMAIN utxoList /\ j # n
    BY <1>3, <1>4
  <2>3. utxoList[j] # utxoList[n]
    BY <2>2 DEF Listed, Distinct
  <2> QED  BY <1>1, <2>1, <2>3
<1>6. Distinct(s)
  <2> SUFFICES ASSUME NEW j \in 1 .. m + 1, NEW k \in 1 .. m + 1, s[j] = s[k] PROVE j = k
    BY <1>1 DEF Distinct
  <2>1. CASE j \in 1..m /\ k \in 1..m
    BY <1>1, <2>1 DEF Passed, Distinct
  <2>2. CASE j = m + 1 \/ k = m + 1
    BY <1>1, <1>5, <2>2
  <2> QED  BY <1>1, <2>1, <2>2
<1>7. ASSUME NEW k \in DOMAIN s PROVE total - ValueOf[s[k]] < requiredAmount
  <2>1. CASE k = m + 1
    BY <1>1, <2>1, ValueFacts DEF Types, Value
  <2>2. CASE k \in 1..m
    <3>1. PICK j \in 1 .. i - 1 : s[k] = utxoList[j]
      BY <1>2, <2>2
    <3>2. ValueOf[utxoList[j]] >= ValueOf[utxoList[n]]
      BY <1>3, <1>4 DEF Listed, Descending
    <3>3. /\ Value(j) \in Nat /\ Value(n) \in Nat
          /\ Value(j) = ValueOf[utxoList[j]] /\ Value(n) = ValueOf[utxoList[n]]
      BY <1>3, ValueFacts DEF Value
    <3>4. totalChosenAmount \in Nat /\ requiredAmount \in Nat
      BY DEF Types
    <3>5. total - Value(j) < requiredAmount
      BY <3>2, <3>3, <3>4
    <3>6. ValueOf[s[k]] = Value(j)
      BY <3>1, <3>3
    <3> QED  BY <3>5, <3>6
  <2> QED  BY <1>1, <1>7, <2>1, <2>2
<1> QED  BY <1>6, <1>7

\* To choose the coin at hand keeps the chosen ones distinct and passed.
LEMMA PassedFacts ==
  ASSUME Types, Listed, Passed, i <= Len(utxoList), NEW s, s = Append(coinsToSpend, utxoList[i])
  PROVE  /\ Distinct(s)
         /\ \A k \in DOMAIN s : \E j \in 1 .. i : s[k] = utxoList[j]
<1> DEFINE m == Len(coinsToSpend)
<1>1. /\ m \in Nat /\ DOMAIN s = 1 .. m + 1 /\ DOMAIN coinsToSpend = 1..m
      /\ s[m + 1] = utxoList[i] /\ \A k \in 1..m : s[k] = coinsToSpend[k]
      /\ i \in 1 .. Len(utxoList) /\ DOMAIN utxoList = 1 .. Len(utxoList)
  BY DEF Types
<1>2. \A k \in 1..m : \E j \in 1 .. i - 1 : s[k] = utxoList[j]
  BY <1>1 DEF Passed
<1>3. \A k \in 1..m : s[k] # s[m + 1]
  BY <1>1, <1>2 DEF Listed, Distinct
<1>4. Distinct(s)
  <2> SUFFICES ASSUME NEW j \in 1 .. m + 1, NEW k \in 1 .. m + 1, s[j] = s[k] PROVE j = k
    BY <1>1 DEF Distinct
  <2>1. CASE j \in 1..m /\ k \in 1..m
    BY <1>1, <2>1 DEF Passed, Distinct
  <2>2. CASE j = m + 1 \/ k = m + 1
    BY <1>1, <1>3, <2>2
  <2> QED  BY <1>1, <2>1, <2>2
<1>5. \A k \in 1 .. m + 1 : k \in 1..m \/ k = m + 1
  BY <1>1
<1>6. \A j \in 1 .. i - 1 : j \in 1..i
  BY <1>1
<1> QED  BY <1>1, <1>2, <1>4, <1>5, <1>6

-----------------------------------------------------------------------------
LEMMA InvInit == ChoiceInit => Inv
  BY ChoiceAssumption DEF ChoiceInit, Inv, Types, FailsOnlyIfShort

LEMMA InvStep == Inv /\ [ChoiceNext]_choiceVars => Inv'
<1> SUFFICES ASSUME Inv, [ChoiceNext]_choiceVars PROVE Inv'
  OBVIOUS
<1> USE DEF Goes, envVars, callVars, loopVars
<1>t. Types
  BY DEF Inv
<1>1. ASSUME NEW S \in SUBSET Coins, Change(S) PROVE Inv'
  BY <1>1 DEF Change, Inv, Types, Walking, Listed, Passed, Least, Value, FailsOnlyIfShort
<1>2. ASSUME NEW amount \in Amounts, ReadBalance(amount) PROVE Inv'
  BY <1>2, ChoiceAssumption DEF ReadBalance, Inv, Types, FailsOnlyIfShort
<1>3. ASSUME NEW c \in Coins, TakeExact(c) PROVE Inv'
  <2>1. /\ coinsToSpend' = <<c>> /\ totalChosenAmount' = requiredAmount /\ requiredAmount > 0
        /\ ValueOf[c] = requiredAmount /\ requiredAmount \in Nat
    BY <1>3, <1>t DEF TakeExact, Exact, Types
  <2>2. Least'
    BY <1>3, <2>1 DEF TakeExact, Least, Distinct
  <2> QED  BY <1>3, <1>t, <2>1, <2>2 DEF TakeExact, Inv, Types, FailsOnlyIfShort
<1>4. CASE NoneExact
  BY <1>4 DEF NoneExact, Inv, Types, FailsOnlyIfShort
<1>5. ASSUME NEW l \in Listings(offered), ReadList(l) PROVE Inv'
  <2>1. l \in Seq(Coins) /\ Descending(l) /\ Distinct(l)
    BY <1>t, ListingFacts DEF Types
  <2>2. Types'
    BY <1>5, <1>t, <2>1 DEF ReadList, Types
  <2>3. choicePc' = "loop" => Walking'
    <3> SUFFICES ASSUME choicePc' = "loop" PROVE Walking'
      OBVIOUS
    <3>1. /\ l # <<>> /\ coinsToSpend' = <<>> /\ utxoList' = l /\ i' = 1 /\ before' = 0
          /\ totalChosenAmount' = 0 /\ remainAmount' = requiredAmount'
      BY <1>5 DEF ReadList
    <3>2. 1 <= Len(l)
      BY <2>1, <3>1
    <3>3. Listed' /\ Passed'
      BY <2>1, <3>1 DEF Listed, Passed, Distinct, Descending
    <3>4. requiredAmount' \in Nat /\ remainAmount' + totalChosenAmount' = requiredAmount'
      <4>1. requiredAmount' = requiredAmount /\ requiredAmount \in Nat
        BY <1>5, <1>t DEF ReadList, Types
      <4> QED  BY <3>1, <4>1
    <3> QED  BY <3>1, <3>2, <3>3, <3>4 DEF Walking
  <2>4. /\ choicePc' \in {"failed", "done", "loop"} /\ totalChosenAmount' = 0
        /\ choicePc' = "failed" => utxoList' = <<>>
    BY <1>5 DEF ReadList
  <2> QED  BY <2>2, <2>3, <2>4 DEF Inv, FailsOnlyIfShort
<1>6. ASSUME Skip PROVE Inv'
  <2>1. Walking /\ i < Len(utxoList) /\ Value(i + 1) >= remainAmount
    BY <1>6 DEF Skip, Inv, InLoop, NextIsEnough
  <2>2. i \in 1 .. Len(utxoList)
    BY <1>t, <2>1 DEF Types
  <2>3. Value(i) \in Nat
    BY <1>t, <2>2, ValueFacts
  <2>4. Types'
    BY <1>6, <1>t, <2>3 DEF Skip, NextCoin, Types
  <2>5. Listed' /\ Passed'
    BY <1>6, <1>t, <2>1 DEF Skip, NextCoin, Walking, Listed, Passed, Types
  <2>6. Walking'
    BY <1>6, <1>t, <2>1, <2>5 DEF Skip, NextCoin, Walking, Types, Value
  <2> QED  BY <1>6, <2>4, <2>6 DEF Skip, Inv, FailsOnlyIfShort
<1>7. ASSUME Close PROVE Inv'
  <2>1. /\ Walking /\ i < Len(utxoList)
        /\ ~(Value(i) <= remainAmount) /\ ~(Value(i + 1) >= remainAmount)
    BY <1>7 DEF Close, Inv, InLoop, NextIsEnough, Fits
  <2>2. i \in 1 .. Len(utxoList) /\ i + 1 \in 1 .. Len(utxoList)
    BY <1>t, <2>1 DEF Types
  <2>3. Value(i) \in Nat /\ Value(i + 1) \in Nat \ {0}
    BY <1>t, <2>2, ValueFacts
  <2>4. /\ coinsToSpend' = Append(coinsToSpend, utxoList[i])
        /\ totalChosenAmount' = totalChosenAmount + Value(i)
        /\ UNCHANGED <<requiredAmount, utxoList>>
    BY <1>7 DEF Close, ChooseCoin, NextCoin
  <2>5. totalChosenAmount < requiredAmount /\ totalChosenAmount' >= requiredAmount
    BY <1>t, <2>1, <2>3, <2>4 DEF Walking, Types
  <2>6. Least'
    <3> DEFINE s == Append(coinsToSpend, utxoList[i])
               total == totalChosenAmount + Value(i)
    <3>1. Distinct(s) /\ \A k \in DOMAIN s : total - ValueOf[s[k]] < requiredAmount
      <4>1. Listed /\ Passed /\ i <= i /\ total >= requiredAmount
        BY <1>t, <2>1, <2>4, <2>5 DEF Walking, Types
      <4> HIDE DEF s, total
      <4>2. s = Append(coinsToSpend, utxoList[i]) /\ total = totalChosenAmount + Value(i)
        BY DEF s, total
      <4> QED  BY <1>t, <2>2, <2>5, <4>1, <4>2, LeastFacts
    <3> QED  BY <2>4, <2>5, <3>1 DEF Least, Distinct
  <2>7. Types'
    BY <1>7, <1>t, <2>2, <2>3, <2>4, ValueFacts DEF Close, NextCoin, Types
  <2>8. Listed'
    BY <2>1, <2>4 DEF Walking, Listed
  <2> QED  BY <1>7, <2>6, <2>7, <2>8 DEF Close, Inv, FailsOnlyIfShort
<1>8. ASSUME Add PROVE Inv'
  <2>1. Walking /\ i < Len(utxoList) /\ Value(i) <= remainAmount
    BY <1>8 DEF Add, Inv, InLoop, Fits
  <2>2. i \in 1 .. Len(utxoList)
    BY <1>t, <2>1 DEF Types
  <2>3. Value(i) \in Nat \ {0}
    BY <1>t, <2>2, ValueFacts
  <2>4. /\ coinsToSpend' = Append(coinsToSpend, utxoList[i]) /\ i' = i + 1
        /\ totalChosenAmount' = totalChosenAmount + Value(i)
        /\ remainAmount' = remainAmount - Value(i) /\ before' = before + Value(i)
        /\ UNCHANGED <<requiredAmount, utxoList>>
    BY <1>8 DEF Add, ChooseCoin, NextCoin
  <2>5. Types'
    <3>1. utxoList[i] \in Coins
      BY <1>t, <2>2, ValueFacts
    <3>2. coinsToSpend' \in Seq(Coins)
      BY <1>t, <2>4, <3>1 DEF Types
    <3>3. remainAmount' \in Nat /\ totalChosenAmount' \in Nat /\ before' \in Nat /\ i' \in Nat \ {0}
      <4>1. /\ remainAmount \in Nat /\ totalChosenAmount \in Nat /\ before \in Nat /\ i \in Nat
            /\ Value(i) \in Nat /\ Value(i) <= remainAmount
        BY <1>t, <2>1, <2>3 DEF Types
      <4> QED  BY <2>4, <4>1
    <3>4. offered' = offered /\ choicePc = "loop" /\ choicePc' \in {"loop", "last"}
      BY <1>8 DEF Add, ChooseCoin, NextCoin
    <3> QED  BY <1>t, <2>4, <3>2, <3>3, <3>4 DEF Types
  <2>6. Passed'
    <3>1. i = i' - 1
      BY <1>t, <2>4 DEF Types
    <3> DEFINE s == Append(coinsToSpend, utxoList[i])
    <3>2. Distinct(s) /\ \A k \in DOMAIN s : \E j \in 1..i : s[k] = utxoList[j]
      BY <1>t, <2>1, PassedFacts DEF Walking
    <3> QED  BY <2>4, <3>1, <3>2 DEF Passed, Distinct
  <2>7. i' <= Len(utxoList') /\ Listed'
    BY <1>t, <2>1, <2>4 DEF Walking, Listed, Types
  <2>8. /\ remainAmount' + totalChosenAmount' = requiredAmount'
        /\ before' = totalChosenAmount' \/ remainAmount' = 0
    <3>1. /\ remainAmount \in Nat /\ totalChosenAmount \in Nat /\ before \in Nat
          /\ remainAmount + totalChosenAmount = requiredAmount
          /\ before = totalChosenAmount \/ remainAmount = 0 \/ Value(i) >= remainAmount
      BY <1>t, <2>1 DEF Walking, Types
    <3>2. before = totalChosenAmount \/ remainAmount = Value(i)
      BY <2>1, <2>3, <3>1
    <3>3. remainAmount' + totalChosenAmount' = requiredAmount'
      BY <2>3, <2>4, <3>1
    <3>4. before' = totalChosenAmount' \/ remainAmount' = 0
      BY <2>3, <2>4, <3>1, <3>2
    <3> QED  BY <3>3, <3>4
  <2> QED  BY <1>8, <2>5, <2>6, <2>7, <2>8 DEF Add, Inv, Walking, FailsOnlyIfShort
<1>9. CASE EndLoop
  <2>1. Walking /\ ~(i < Len(utxoList))
    BY <1>9 DEF EndLoop, Inv, InLoop
  <2>2. i = Len(utxoList)
    BY <1>t, <2>1 DEF Walking, Types
  <2> QED
    BY <1>9, <1>t, <2>1, <2>2
       DEF EndLoop, Inv, Types, Walking, Listed, Passed, Value, FailsOnlyIfShort
<1>10. CASE LastCoin
  <2> DEFINE n == Len(utxoList)
             total == totalChosenAmount + Value(n)
  <2>1. /\ totalChosenAmount < requiredAmount
        /\ coinsToSpend' = Append(coinsToSpend, utxoList[n]) /\ totalChosenAmount' = total
        /\ UNCHANGED <<offered, requiredAmount, utxoList, i, remainAmount, before>>
        /\ choicePc = "last" /\ choicePc' = IF total < requiredAmount THEN "failed" ELSE "done"
    BY <1>10 DEF LastCoin
  <2>2. Walking /\ i = n
    BY <1>t, <2>1 DEF Inv, Least, Types
  <2>3. n \in 1 .. Len(utxoList)
    BY <1>t, <2>2 DEF Types
  <2>4. Value(n) \in Nat \ {0} /\ utxoList[n] \in Coins
    BY <1>t, <2>3, ValueFacts
  <2>5. Types'
    BY <1>t, <2>1, <2>4 DEF Types
  <2>6. CASE total < requiredAmount
    <3>1. before + Value(n) < requiredAmount
      BY <1>t, <2>2, <2>4, <2>6 DEF Walking, Types
    <3> QED  BY <2>1, <2>5, <2>6, <3>1 DEF Inv, FailsOnlyIfShort, Value
  <2>7. CASE ~(total < requiredAmount)
    <3>1. Least'
      <4> DEFINE s == Append(coinsToSpend, utxoList[n])
      <4>1. Listed /\ Passed /\ i <= n /\ total >= requiredAmount
        BY <1>t, <2>2, <2>4, <2>7 DEF Walking, Types
      <4>2. Distinct(s) /\ \A k \in DOMAIN s : total - ValueOf[s[k]] < requiredAmount
        <5> HIDE DEF s, total
        <5>1. s = Append(coinsToSpend, utxoList[n]) /\ total = totalChosenAmount + Value(n)
          BY DEF s, total
        <5> QED  BY <1>t, <2>1, <2>3, <4>1, <5>1, LeastFacts
      <4> QED  BY <2>1, <4>1, <4>2 DEF Least, Distinct
    <3> QED  BY <2>1, <2>5, <2>7, <3>1 DEF Inv, FailsOnlyIfShort
  <2> QED  BY <2>6, <2>7
<1>11. CASE Enough
  <2>1. Least
    <3>1. CASE Walking /\ i = Len(utxoList)
      <4>1. \A k \in DOMAIN coinsToSpend : coinsToSpend[k] \in Coins
        BY <1>t DEF Types
      <4>2. totalChosenAmount = requiredAmount
        BY <1>11, <1>t, <3>1 DEF Enough, Walking, Types
      <4> QED  BY <1>t, <3>1, <4>1, <4>2, ChoiceAssumption DEF Walking, Passed, Least, Types
    <3> QED  BY <1>11, <3>1 DEF Enough, Inv
  <2> QED  BY <1>11, <1>t, <2>1 DEF Enough, Inv, Types, Least, FailsOnlyIfShort
<1>12. CASE UNCHANGED choiceVars
  BY <1>12 DEF choiceVars, Inv, Types, Walking, Listed, Passed, Least, Value, FailsOnlyIfShort
<1> QED
  BY <1>1, <1>2, <1>3, <1>4, <1>5, <1>6, <1>7, <1>8, <1>9, <1>10, <1>11, <1>12
     DEF ChoiceNext, Read, Walk

LEMMA InvAlways == ChoiceSpec => []Inv
  BY InvInit, InvStep, PTL DEF ChoiceSpec

-----------------------------------------------------------------------------
\* ChooseBestUTXOs: the coins are distinct and enough, and all of them are
\* needed.
THEOREM ChosenIsLeastCorrect == ChoiceSpec => []ChosenIsLeast
<1>1. Inv => ChosenIsLeast
  BY DEF Inv, Least, Distinct, ChosenIsLeast
<1> QED  BY <1>1, InvAlways, PTL

\* ChooseBestUTXOs: the error means that the list is not enough.
THEOREM FailsOnlyIfShortCorrect == ChoiceSpec => []FailsOnlyIfShort
<1>1. Inv => FailsOnlyIfShort
  BY DEF Inv
<1> QED  BY <1>1, InvAlways, PTL

-----------------------------------------------------------------------------
(***************************************************************************)
(* Worth, a sum over a set.  Induction over the subsets of a finite set is *)
(* done by looking at a smallest one for which the claim is false.         *)
(***************************************************************************)

LEMMA SmallestSet ==
  ASSUME NEW U, IsFiniteSet(U), NEW F \in SUBSET SUBSET U, F # {}
  PROVE  \E S \in F : \A T \in F : T \subseteq S => T = S
<1>1. IsWellFoundedOn(StrictSubsetOrdering(U), FiniteSubsetsOf(U))
  BY FS_StrictSubsetOrderingWellFounded
<1>2. FiniteSubsetsOf(U) = SUBSET U
  BY FS_FiniteSubsetsOfFinite
<1>3. PICK S \in F : \A T \in F : ~(<<T, S>> \in StrictSubsetOrdering(U))
  BY <1>1, <1>2, WFMin
<1> QED  BY <1>3 DEF StrictSubsetOrdering

Pick(S) == CHOOSE c \in S : TRUE

IsSum(f, S) ==
  f = [T \in SUBSET S |-> IF T = {} THEN 0 ELSE ValueOf[Pick(T)] + f[T \ {Pick(T)}]]

\* Worth is the value of the function that MapThenFoldSet defines.
LEMMA WorthDef == \A S : Worth(S) = (CHOOSE f : IsSum(f, S))[S]
  BY DEF Worth, MapThenSumSet, MapThenFoldSet, IsSum, Pick

\* There is one such function at most, wherever it is defined.
LEMMA SumUnique ==
  ASSUME NEW A \in SUBSET Coins, NEW B \in SUBSET Coins, NEW f, NEW g,
         IsSum(f, A), IsSum(g, B)
  PROVE  \A S \in SUBSET (A \cap B) : f[S] = g[S]
<1> DEFINE F == {S \in SUBSET (A \cap B) : f[S] # g[S]}
<1> SUFFICES ASSUME F # {} PROVE FALSE
  OBVIOUS
<1>1. PICK S \in F : \A T \in F : T \subseteq S => T = S
  <2>1. F \in SUBSET SUBSET Coins
    OBVIOUS
  <2> HIDE DEF F
  <2> QED  BY <2>1, ChoiceAssumption, SmallestSet
<1>2. S \in SUBSET A /\ S \in SUBSET B
  OBVIOUS
<1>3. S # {}
  <2>1. f[{}] = 0 /\ g[{}] = 0
    BY DEF IsSum
  <2> QED  BY <2>1
<1> DEFINE c == Pick(S)
<1>4. c \in S
  BY <1>3 DEF Pick
<1>5. f[S] = ValueOf[c] + f[S \ {c}] /\ g[S] = ValueOf[c] + g[S \ {c}]
  BY <1>2, <1>3 DEF IsSum
<1>6. S \ {c} \notin F
  <2>1. S \ {c} # S /\ S \ {c} \subseteq S
    BY <1>4
  <2> HIDE DEF F, c
  <2> QED  BY <1>1, <2>1
<1>7. f[S \ {c}] = g[S \ {c}]
  BY <1>1, <1>6
<1> QED  BY <1>1, <1>5, <1>7

\* There is one: it takes the value of each set from the function of that set.
LEMMA SumExists == \A A \in SUBSET Coins : \E f : IsSum(f, A)
<1> DEFINE F == {A \in SUBSET Coins : ~\E f : IsSum(f, A)}
<1> SUFFICES ASSUME F # {} PROVE FALSE
  OBVIOUS
<1>1. PICK A \in F : \A T \in F : T \subseteq A => T = A
  <2>1. F \in SUBSET SUBSET Coins
    OBVIOUS
  <2> HIDE DEF F
  <2> QED  BY <2>1, ChoiceAssumption, SmallestSet
<1> DEFINE Of(S) == CHOOSE f : IsSum(f, S)
           g == [S \in SUBSET A |->
                   IF S = {} THEN 0 ELSE ValueOf[Pick(S)] + Of(S \ {Pick(S)})[S \ {Pick(S)}]]
<1>2. \A S \in SUBSET A : S # A => IsSum(Of(S), S)
  BY <1>1
<1>3. ASSUME NEW S \in SUBSET A, S # {}
      PROVE  g[S \ {Pick(S)}] = Of(S \ {Pick(S)})[S \ {Pick(S)}]
  <2> DEFINE T == S \ {Pick(S)}
             c == Pick(T)
             U == T \ {c}
  <2>1. T \in SUBSET A /\ T # A /\ T \in SUBSET Coins
    BY <1>3 DEF Pick
  <2>2. IsSum(Of(T), T)
    BY <1>2, <2>1
  <2>3. CASE T = {}
    BY <2>1, <2>2, <2>3 DEF IsSum
  <2>4. CASE T # {}
    <3>1. U \in SUBSET A /\ U # A /\ U \in SUBSET (T \cap U) /\ U \in SUBSET Coins
      BY <2>1, <2>4 DEF Pick
    <3>2. IsSum(Of(U), U)
      BY <1>2, <3>1
    <3>3. Of(T)[U] = Of(U)[U]
      <4> HIDE DEF T, U, Of
      <4> QED  BY <2>1, <2>2, <3>1, <3>2, SumUnique
    <3>4. Of(T)[T] = ValueOf[c] + Of(T)[U]
      <4>1. IsSum(Of(T), T) /\ T \in SUBSET T
        BY <2>2
      <4> HIDE DEF Of, T
      <4> QED  BY <2>4, <4>1 DEF IsSum
    <3>5. g[T] = ValueOf[c] + Of(U)[U]
      <4> HIDE DEF Of, T
      <4> QED  BY <2>1, <2>4
    <3> QED  BY <3>3, <3>4, <3>5
  <2> QED  BY <2>3, <2>4
<1>4. IsSum(g, A)
  <2>1. \A S \in SUBSET A : g[S] = IF S = {} THEN 0 ELSE ValueOf[Pick(S)] + g[S \ {Pick(S)}]
    <3>1. /\ g[{}] = 0
          /\ \A S \in SUBSET A : S # {} =>
               g[S] = ValueOf[Pick(S)] + Of(S \ {Pick(S)})[S \ {Pick(S)}]
      <4> HIDE DEF Of
      <4> QED  OBVIOUS
    <3> HIDE DEF g, Of
    <3> QED  BY <1>3, <3>1
  <2>2. g = [S \in SUBSET A |-> g[S]]
    OBVIOUS
  <2> HIDE DEF g
  <2> QED  BY <2>1, <2>2 DEF IsSum
<1> QED  BY <1>1, <1>4

LEMMA WorthPick ==
  /\ Worth({}) = 0
  /\ \A S \in SUBSET Coins : S # {} =>
       Pick(S) \in S /\ Worth(S) = ValueOf[Pick(S)] + Worth(S \ {Pick(S)})
<1> DEFINE Of(S) == CHOOSE f : IsSum(f, S)
<1>1. \A S \in SUBSET Coins : IsSum(Of(S), S) /\ Worth(S) = Of(S)[S]
  BY SumExists, WorthDef
<1>2. Worth({}) = 0
  <2>1. IsSum(Of({}), {}) /\ Worth({}) = Of({})[{}]
    BY <1>1
  <2> HIDE DEF Of
  <2> QED  BY <2>1 DEF IsSum
<1>3. ASSUME NEW S \in SUBSET Coins, S # {}
      PROVE  Pick(S) \in S /\ Worth(S) = ValueOf[Pick(S)] + Worth(S \ {Pick(S)})
  <2> DEFINE T == S \ {Pick(S)}
  <2>1. Pick(S) \in S
    BY <1>3 DEF Pick
  <2>2. T \in SUBSET (S \cap T) /\ T \in SUBSET Coins /\ S \in SUBSET S
    OBVIOUS
  <2>3. /\ IsSum(Of(S), S) /\ Worth(S) = Of(S)[S]
        /\ IsSum(Of(T), T) /\ Worth(T) = Of(T)[T]
    BY <1>1, <2>2
  <2>4. Of(S)[T] = Of(T)[T]
    <3>1. IsSum(Of(S), S) /\ IsSum(Of(T), T)
      BY <2>3
    <3> HIDE DEF T, Of
    <3> QED  BY <2>2, <3>1, SumUnique
  <2>5. Of(S)[S] = ValueOf[Pick(S)] + Of(S)[T]
    <3>1. IsSum(Of(S), S)
      BY <2>3
    <3> HIDE DEF Of
    <3> QED  BY <1>3, <2>2, <3>1 DEF IsSum
  <2> QED  BY <2>1, <2>3, <2>4, <2>5
<1> QED  BY <1>2, <1>3

LEMMA WorthType == \A S \in SUBSET Coins : Worth(S) \in Nat
<1> DEFINE F == {S \in SUBSET Coins : Worth(S) \notin Nat}
<1> SUFFICES ASSUME F # {} PROVE FALSE
  OBVIOUS
<1>1. PICK S \in F : \A T \in F : T \subseteq S => T = S
  <2>1. F \in SUBSET SUBSET Coins
    OBVIOUS
  <2> HIDE DEF F
  <2> QED  BY <2>1, ChoiceAssumption, SmallestSet
<1>2. S # {} /\ S \in SUBSET Coins
  <2>1. Worth({}) \in Nat
    BY WorthPick
  <2> QED  BY <2>1
<1> DEFINE c == Pick(S)
<1>3. c \in S /\ Worth(S) = ValueOf[c] + Worth(S \ {c})
  BY <1>2, WorthPick
<1>4. Worth(S \ {c}) \in Nat
  <2>1. S \ {c} # S /\ S \ {c} \subseteq S /\ S \ {c} \in SUBSET Coins
    BY <1>2, <1>3
  <2> HIDE DEF c
  <2> QED  BY <1>1, <2>1
<1>5. ValueOf[c] \in Nat
  BY <1>2, <1>3, ChoiceAssumption
<1>6. Worth(S) \in Nat
  BY <1>3, <1>4, <1>5
<1> QED  BY <1>1, <1>6

\* Worth adds up, whatever coin is taken out first.
LEMMA WorthRemove ==
  \A S \in SUBSET Coins : \A c \in S : Worth(S) = ValueOf[c] + Worth(S \ {c})
<1> DEFINE F == {S \in SUBSET Coins : ~\A c \in S : Worth(S) = ValueOf[c] + Worth(S \ {c})}
<1> SUFFICES ASSUME F # {} PROVE FALSE
  OBVIOUS
<1>1. PICK S \in F : \A T \in F : T \subseteq S => T = S
  <2>1. F \in SUBSET SUBSET Coins
    OBVIOUS
  <2> HIDE DEF F
  <2> QED  BY <2>1, ChoiceAssumption, SmallestSet
<1>2. PICK c \in S : Worth(S) # ValueOf[c] + Worth(S \ {c})
  OBVIOUS
<1>3. S \in SUBSET Coins
  OBVIOUS
<1>4. \A T \in SUBSET S : T # S => \A x \in T : Worth(T) = ValueOf[x] + Worth(T \ {x})
  BY <1>1
<1> HIDE DEF F
<1> DEFINE d == Pick(S)
<1>5. d \in S /\ Worth(S) = ValueOf[d] + Worth(S \ {d})
  BY <1>2, <1>3, WorthPick
<1>6. d # c
  BY <1>2, <1>5
<1> HIDE DEF d
<1>7. Worth(S \ {d}) = ValueOf[c] + Worth((S \ {d}) \ {c})
  BY <1>4, <1>5, <1>6
<1>8. Worth(S \ {c}) = ValueOf[d] + Worth((S \ {c}) \ {d})
  BY <1>4, <1>5, <1>6
<1>9. (S \ {c}) \ {d} = (S \ {d}) \ {c}
  OBVIOUS
<1>10. ValueOf[c] \in Nat /\ ValueOf[d] \in Nat /\ Worth((S \ {d}) \ {c}) \in Nat
  BY <1>3, <1>5, WorthType, ChoiceAssumption
<1>11. Worth(S \ {c}) = ValueOf[d] + Worth((S \ {d}) \ {c})
  BY <1>8, <1>9
<1> QED  BY <1>2, <1>5, <1>7, <1>10, <1>11

-----------------------------------------------------------------------------
(***************************************************************************)
(* What was chosen is worth totalChosenAmount: each coin that the loop     *)
(* adds is a new one.                                                      *)
(***************************************************************************)

Members(s) == {s[k] : k \in DOMAIN s}

LEMMA WorthAppend ==
  ASSUME NEW s \in Seq(Coins), NEW c \in Coins, Distinct(Append(s, c))
  PROVE  Worth(Members(Append(s, c))) = Worth(Members(s)) + ValueOf[c]
<1> DEFINE t == Append(s, c)
           m == Len(s)
<1>1. /\ m \in Nat /\ DOMAIN s = 1..m /\ DOMAIN t = 1 .. m + 1 /\ t[m + 1] = c
      /\ \A k \in 1..m : s[k] = t[k] /\ s[k] \in Coins
  OBVIOUS
<1>2. \A k \in 1..m : t[k] # c
  <2>1. m + 1 \in DOMAIN t /\ \A k \in 1..m : k \in DOMAIN t /\ k # m + 1
    BY <1>1
  <2> QED  BY <1>1, <2>1 DEF Distinct
<1> HIDE DEF t
<1>3. \A k \in DOMAIN t : k \in 1..m \/ k = m + 1
  BY <1>1
<1>4. Members(t) = Members(s) \cup {c}
  BY <1>1, <1>3 DEF Members
<1>5. c \notin Members(s) /\ Members(s) \in SUBSET Coins
  BY <1>1, <1>2 DEF Members
<1>6. Worth(Members(t)) = ValueOf[c] + Worth(Members(t) \ {c})
  BY <1>4, <1>5, WorthRemove
<1>7. Members(t) \ {c} = Members(s)
  BY <1>4, <1>5
<1>8. Worth(Members(s)) \in Nat /\ ValueOf[c] \in Nat
  BY <1>5, WorthType, ChoiceAssumption
<1>9. Worth(Members(t)) = ValueOf[c] + Worth(Members(s))
  BY <1>6, <1>7
<1> QED  BY <1>8, <1>9 DEF t

\* A listing of a set lists all of it.
LEMMA ListingAll ==
  ASSUME NEW S \in SUBSET Coins, NEW l \in Listings(S)
  PROVE  Members(l) = S
<1> DEFINE n == Cardinality(S)
<1>1. IsFiniteSet(S) /\ n \in Nat
  BY ChoiceAssumption, FS_Subset, FS_CardinalityType
<1>2. l \in [1..n -> S] /\ \A j, k \in 1..n : l[j] = l[k] => j = k
  BY DEF Listings
<1>3. l \in Injection(1..n, S)
  BY <1>2 DEF Injection, IsInjective
<1>4. Cardinality(1..n) = n
  BY <1>1, FS_Interval
<1>5. l \in Surjection(1..n, S)
  BY <1>1, <1>3, <1>4, FS_Injection
<1> HIDE DEF n
<1>6. \A c \in S : \E k \in 1..n : l[k] = c
  BY <1>5 DEF Surjection
<1> QED  BY <1>2, <1>6 DEF Members

SumInv ==
  /\ balance \in Nat /\ changes \in 0..MaxChanges
  /\ choicePc \in {"balance", "exact", "list", "loop", "last", "done", "failed"}
  /\ i \in 1 .. Len(utxoList) + 1
  /\ choicePc \in {"exact", "list"} /\ changes = 0 => balance = Worth(offered)
  /\ choicePc \in {"loop", "last"} \/ (choicePc = "done" /\ totalChosenAmount > 0) =>
       totalChosenAmount = Worth(Members(coinsToSpend))
  /\ choicePc = "done" /\ totalChosenAmount = 0 =>
       /\ balance = requiredAmount
       /\ changes = 0 => Worth(Members(coinsToSpend)) = requiredAmount

LEMMA SumInit == ChoiceInit => SumInv
<1> SUFFICES ASSUME ChoiceInit PROVE SumInv
  OBVIOUS
<1>1. Len(utxoList) = 0
  BY DEF ChoiceInit
<1> QED  BY <1>1, ChoiceAssumption DEF ChoiceInit, SumInv

LEMMA SumStep == Inv /\ Inv' /\ SumInv /\ [ChoiceNext]_choiceVars => SumInv'
<1> SUFFICES ASSUME Inv, Inv', SumInv, [ChoiceNext]_choiceVars PROVE SumInv'
  OBVIOUS
<1> USE DEF Goes, envVars, callVars, loopVars
<1>t. Types /\ Types'
  BY DEF Inv
<1>1. ASSUME NEW S \in SUBSET Coins, Change(S) PROVE SumInv'
  <2>1. changes' \in 0..MaxChanges /\ changes' # 0
    BY <1>1, ChoiceAssumption DEF Change, SumInv
  <2> QED  BY <1>1, <2>1 DEF Change, SumInv
<1>2. ASSUME NEW amount \in Amounts, ReadBalance(amount) PROVE SumInv'
  <2>1. Worth(offered) \in Nat
    BY <1>t, WorthType DEF Types
  <2> QED  BY <1>2, <2>1 DEF ReadBalance, SumInv
<1>3. ASSUME NEW c \in Coins, TakeExact(c) PROVE SumInv'
  <2>1. /\ coinsToSpend' = <<c>> /\ totalChosenAmount' = ValueOf[c] /\ choicePc' = "done"
        /\ UNCHANGED <<offered, changes, requiredAmount, balance, utxoList, i>>
    BY <1>3 DEF TakeExact
  <2>2. Members(<<c>>) = {c}
    BY DEF Members
  <2>3. Worth({c}) = ValueOf[c] + Worth({})
    <3>1. {c} \ {c} = {}
      OBVIOUS
    <3> QED  BY <3>1, WorthRemove
  <2>4. ValueOf[c] \in Nat \ {0} /\ Worth({}) = 0
    BY ChoiceAssumption, WorthPick
  <2>5. totalChosenAmount' = Worth(Members(coinsToSpend')) /\ totalChosenAmount' # 0
    BY <2>1, <2>2, <2>3, <2>4
  <2> QED  BY <2>1, <2>5 DEF SumInv, Members
<1>4. CASE NoneExact
  BY <1>4 DEF NoneExact, SumInv
<1>5. ASSUME NEW l \in Listings(offered), ReadList(l) PROVE SumInv'
  <2>1. Members(l) = offered /\ l \in Seq(Coins)
    BY <1>t, ListingAll, ListingFacts DEF Types
  <2>2. /\ choicePc = "list" /\ choicePc' \in {"failed", "done", "loop"}
        /\ choicePc' = "done" => balance = requiredAmount
        /\ choicePc' = "loop" => balance # requiredAmount
        /\ utxoList' = l /\ i' = 1 /\ totalChosenAmount' = 0
        /\ coinsToSpend' = IF balance = requiredAmount THEN l ELSE <<>>
        /\ UNCHANGED <<offered, changes, requiredAmount, balance>>
    BY <1>5 DEF ReadList
  <2>3. changes = 0 => balance = Worth(offered)
    BY <2>2 DEF SumInv
  <2>4. i' \in 1 .. Len(utxoList') + 1
    BY <2>1, <2>2
  <2>5. choicePc' = "loop" => totalChosenAmount' = Worth(Members(coinsToSpend'))
    <3>1. Members(<<>>) = {}
      BY DEF Members
    <3> QED  BY <2>2, <3>1, WorthPick
  <2>6. choicePc' = "done" /\ changes' = 0 => Worth(Members(coinsToSpend')) = requiredAmount'
    BY <2>1, <2>2, <2>3
  <2> QED  BY <2>2, <2>4, <2>5, <2>6 DEF SumInv, Members
<1>6. CASE Skip
  <2>1. i < Len(utxoList) /\ i' = i + 1 /\ i \in Nat \ {0} /\ Len(utxoList) \in Nat
    BY <1>6, <1>t DEF Skip, InLoop, NextCoin, Types
  <2> QED  BY <1>6, <2>1 DEF Skip, NextCoin, SumInv, Members
\* A coin is chosen.
<1>7. ASSUME NEW n \in 1 .. Len(utxoList), choicePc \in {"loop", "last"},
             coinsToSpend' = Append(coinsToSpend, utxoList[n]), Distinct(coinsToSpend'),
             totalChosenAmount' = totalChosenAmount + Value(n)
      PROVE  totalChosenAmount' = Worth(Members(coinsToSpend'))
  <2>1. utxoList[n] \in Coins /\ coinsToSpend \in Seq(Coins)
    BY <1>t, <1>7 DEF Types
  <2>2. totalChosenAmount = Worth(Members(coinsToSpend))
    BY <1>7 DEF SumInv
  <2> QED  BY <1>7, <2>1, <2>2, WorthAppend DEF Value
<1>8. CASE Close
  <2>1. /\ choicePc = "loop" /\ choicePc' = "last"
        /\ i < Len(utxoList) /\ i' = i + 1 /\ i \in Nat \ {0} /\ Len(utxoList) \in Nat
        /\ coinsToSpend' = Append(coinsToSpend, utxoList[i])
        /\ totalChosenAmount' = totalChosenAmount + Value(i)
        /\ UNCHANGED <<offered, changes, requiredAmount, balance, utxoList>>
    BY <1>8, <1>t DEF Close, InLoop, ChooseCoin, NextCoin, Types
  <2>2. Distinct(coinsToSpend')
    BY <2>1 DEF Inv, Least, Walking, Passed, Distinct
  <2>3. totalChosenAmount' = Worth(Members(coinsToSpend'))
    BY <1>7, <2>1, <2>2
  <2>4. i' \in 1 .. Len(utxoList') + 1
    BY <2>1
  <2> QED  BY <2>1, <2>3, <2>4 DEF SumInv
<1>9. CASE Add
  <2>1. /\ choicePc = "loop" /\ choicePc' = "loop"
        /\ i < Len(utxoList) /\ i' = i + 1 /\ i \in Nat \ {0} /\ Len(utxoList) \in Nat
        /\ coinsToSpend' = Append(coinsToSpend, utxoList[i])
        /\ totalChosenAmount' = totalChosenAmount + Value(i)
        /\ UNCHANGED <<offered, changes, requiredAmount, balance, utxoList>>
    BY <1>9, <1>t DEF Add, InLoop, ChooseCoin, NextCoin, Types
  <2>2. Distinct(coinsToSpend')
    BY <2>1 DEF Inv, Walking, Passed, Distinct
  <2>3. totalChosenAmount' = Worth(Members(coinsToSpend'))
    BY <1>7, <2>1, <2>2
  <2>4. i' \in 1 .. Len(utxoList') + 1
    BY <2>1
  <2> QED  BY <2>1, <2>3, <2>4 DEF SumInv
<1>10. CASE EndLoop
  BY <1>10 DEF EndLoop, SumInv, Members
<1>11. CASE LastCoin
  <2> DEFINE n == Len(utxoList)
  <2>1. /\ choicePc = "last" /\ choicePc' \in {"failed", "done"}
        /\ choicePc' = "done" => ~(totalChosenAmount' < requiredAmount)
        /\ coinsToSpend' = Append(coinsToSpend, utxoList[n])
        /\ totalChosenAmount' = totalChosenAmount + Value(n)
        /\ UNCHANGED <<offered, changes, requiredAmount, balance, utxoList, i>>
    BY <1>11 DEF LastCoin
  <2>2. /\ requiredAmount \in Nat \ {0} /\ totalChosenAmount' \in Nat
        /\ n \in 1 .. Len(utxoList)
    BY <1>t, <2>1 DEF Types, Inv, Listed
  <2>3. choicePc' = "done" => totalChosenAmount' > 0
    BY <2>1, <2>2
  <2>4. choicePc' = "done" => totalChosenAmount' = Worth(Members(coinsToSpend'))
    <3> SUFFICES ASSUME choicePc' = "done" PROVE totalChosenAmount' = Worth(Members(coinsToSpend'))
      OBVIOUS
    <3>1. Distinct(coinsToSpend')
      BY <2>3 DEF Inv, Least, Distinct
    <3> QED  BY <1>7, <2>1, <2>2, <3>1
  <2>5. totalChosenAmount' # 0 \/ choicePc' # "done"
    BY <2>3
  <2> HIDE DEF n
  <2> QED  BY <2>1, <2>4, <2>5 DEF SumInv
<1>12. CASE Enough
  <2>1. totalChosenAmount > 0
    BY <1>12, <1>t DEF Enough, Types
  <2> QED  BY <1>12, <2>1 DEF Enough, SumInv, Members
<1>13. CASE UNCHANGED choiceVars
  BY <1>13 DEF choiceVars, SumInv, Members
<1> QED
  BY <1>1, <1>2, <1>3, <1>4, <1>5, <1>6, <1>8, <1>9, <1>10, <1>11, <1>12, <1>13
     DEF ChoiceNext, Read, Walk

LEMMA SumAlways == ChoiceSpec => []SumInv
  BY SumInit, SumStep, InvAlways, PTL DEF ChoiceSpec

LEMMA TypeInv == Inv /\ SumInv => ChoiceTypeOK
  BY DEF Inv, Types, SumInv, ChoiceTypeOK

\* For all coins and amounts: the variables of ChooseBestUTXOs have their types,
\* so that remainAmount, a uint64, does not wrap around.
THEOREM TypeCorrect == ChoiceSpec => []ChoiceTypeOK
  BY TypeInv, InvAlways, SumAlways, PTL

\* For all coins and amounts: the coins that ChooseBestUTXOs returns are worth
\* the amount, unless the balance has just been it and then changed.
THEOREM ChosenSufficesCorrect == ChoiceSpec => []ChosenSuffices
<1>1. Inv /\ SumInv => ChosenSuffices
  <2> SUFFICES ASSUME Inv, SumInv, choicePc = "done"
               PROVE  \/ Worth(Chosen) >= requiredAmount /\ totalChosenAmount \in {0, Worth(Chosen)}
                      \/ balance = requiredAmount /\ changes > 0
    BY DEF ChosenSuffices
  <2>1. Chosen = Members(coinsToSpend)
    BY DEF Chosen, Members
  <2>2. totalChosenAmount \in Nat /\ requiredAmount \in Nat /\ changes \in Nat
    BY ChoiceAssumption DEF Inv, Types, SumInv
  <2>3. CASE totalChosenAmount > 0
    BY <2>1, <2>3 DEF Inv, Least, SumInv
  <2>4. CASE totalChosenAmount = 0
    BY <2>1, <2>2, <2>4 DEF SumInv
  <2> QED  BY <2>2, <2>3, <2>4
<1> QED  BY <1>1, InvAlways, SumAlways, PTL
=============================================================================
