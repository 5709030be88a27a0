--------------------------- MODULE MintBatchProofs ---------------------------
(***************************************************************************)
(* Proofs about MintBatch: its type invariant, that no send of a worker    *)
(* ever blocks, that a batch counted as done is over, and that splitPRV    *)
(* sends what it was asked for.                                            *)
(***************************************************************************)
EXTENDS MintBatch, TLAPS

-----------------------------------------------------------------------------
(***************************************************************************)
(* Batches as values.                                                      *)
(***************************************************************************)

\* Each worker to start, worker, message and counted success stands for one of
\* the size transactions; an error that is taken makes a retry.
Conserved(b) ==
  /\ b.held => b.toStart + b.first + b.retries + b.errChan + b.doneChan + b.doneCount = b.size
  /\ ~b.held => b.toStart = 0 /\ b.first + b.retries + b.errChan + b.doneChan <= b.size

Sound(b) == b \in Batch /\ Conserved(b)

LEMMA NewSound ==
  ASSUME NEW g \in Goroutines \cup {Nobody}, NEW n \in Nat
  PROVE  Sound(NewBatch(g, n)) /\ NewBatch(g, n).held
  BY DEF Sound, Conserved, Batch, NewBatch, Goroutines

LEMMA NoBatchSound == Sound(NoBatch)
<1> DEFINE new == NewBatch(Nobody, 0)
<1>1. new \in Batch
  BY NewSound DEF Sound
<1>2. NoBatch = [new EXCEPT !.held = FALSE]
  BY DEF NoBatch
<1>3. /\ new.toStart = 0 /\ new.first = 0 /\ new.retries = 0
      /\ new.errChan = 0 /\ new.doneChan = 0 /\ new.size = 0
  BY DEF NewBatch
<1> HIDE DEF new
<1>4. NoBatch \in Batch
  BY <1>1, <1>2 DEF Batch
<1>5. Conserved(NoBatch)
  BY <1>1, <1>2, <1>3 DEF Conserved, Batch
<1> QED  BY <1>4, <1>5 DEF Sound

\* What is left of a batch, or not.
LEMMA SettledSound ==
  ASSUME NEW b, Sound(b)
  PROVE  /\ Sound(Settled(b))
         /\ b.held => Settled(b) = b
  BY NoBatchSound DEF Settled

LEMMA StopsSound ==
  ASSUME NEW b \in Batch, NEW who, Runs(b, who)
  PROVE  LET c == Stops(b, who) IN
         /\ c \in Batch /\ c.first + c.retries = b.first + b.retries - 1
         /\ c.held = b.held /\ c.owner = b.owner /\ c.size = b.size /\ c.toStart = b.toStart
         /\ c.errChan = b.errChan /\ c.doneChan = b.doneChan /\ c.doneCount = b.doneCount
  BY DEF Batch, Stops, Runs

LEMMA FailsSound ==
  ASSUME NEW b, Sound(b), NEW who, Runs(b, who)
  PROVE  /\ Sound(Fails(b, who)) /\ Fails(b, who).held = b.held
         /\ Fails(b, who).owner = b.owner /\ Fails(b, who).toStart = b.toStart
         /\ Fails(b, who).doneChan = b.doneChan
<1> DEFINE c == Stops(b, who)
           x == c.errChan + 1
           y == c.setErr + Assigning(b, who)
           d == [c EXCEPT !.errChan = x, !.setErr = y]
<1>1. /\ c \in Batch /\ c.first + c.retries = b.first + b.retries - 1
      /\ c.held = b.held /\ c.owner = b.owner /\ c.size = b.size /\ c.toStart = b.toStart
      /\ c.errChan = b.errChan /\ c.doneChan = b.doneChan /\ c.doneCount = b.doneCount
  BY StopsSound DEF Sound
<1>2. Fails(b, who) = d
  BY DEF Fails
<1> HIDE DEF c
<1>3. x \in Nat /\ y \in Nat /\ x = b.errChan + 1
  BY <1>1 DEF Batch, Assigning
<1> HIDE DEF x, y
<1>4. d \in Batch
  BY <1>1, <1>3 DEF Batch
<1>5. /\ d.held = c.held /\ d.owner = c.owner /\ d.size = c.size /\ d.toStart = c.toStart
      /\ d.first = c.first /\ d.retries = c.retries /\ d.errChan = x
      /\ d.doneChan = c.doneChan /\ d.doneCount = c.doneCount
  BY <1>1 DEF Batch
<1> HIDE DEF d
<1>6. b \in Batch /\ Conserved(b)
  BY DEF Sound
<1>7. Conserved(d)
  BY <1>1, <1>3, <1>4, <1>5, <1>6 DEF Conserved, Batch
<1> QED  BY <1>1, <1>2, <1>4, <1>5, <1>7 DEF Sound

LEMMA SucceedsSound ==
  ASSUME NEW b, Sound(b), NEW who, Runs(b, who)
  PROVE  /\ Sound(Succeeds(b, who)) /\ Succeeds(b, who).held = b.held
         /\ Succeeds(b, who).owner = b.owner /\ Succeeds(b, who).toStart = b.toStart
         /\ Succeeds(b, who).doneChan = b.doneChan + 1
<1> DEFINE c == Stops(b, who)
           x == c.doneChan + 1
           y == c.setNil + Assigning(b, who)
           d == [c EXCEPT !.doneChan = x, !.setNil = y]
<1>1. /\ c \in Batch /\ c.first + c.retries = b.first + b.retries - 1
      /\ c.held = b.held /\ c.owner = b.owner /\ c.size = b.size /\ c.toStart = b.toStart
      /\ c.errChan = b.errChan /\ c.doneChan = b.doneChan /\ c.doneCount = b.doneCount
  BY StopsSound DEF Sound
<1>2. Succeeds(b, who) = d
  BY DEF Succeeds
<1> HIDE DEF c
<1>3. x \in Nat /\ y \in Nat /\ x = b.doneChan + 1
  BY <1>1 DEF Batch, Assigning
<1> HIDE DEF x, y
<1>4. d \in Batch
  BY <1>1, <1>3 DEF Batch
<1>5. /\ d.held = c.held /\ d.owner = c.owner /\ d.size = c.size /\ d.toStart = c.toStart
      /\ d.first = c.first /\ d.retries = c.retries /\ d.errChan = c.errChan
      /\ d.doneChan = x /\ d.doneCount = c.doneCount
  BY <1>1 DEF Batch
<1> HIDE DEF d
<1>6. b \in Batch /\ Conserved(b)
  BY DEF Sound
<1>7. Conserved(d)
  BY <1>1, <1>3, <1>4, <1>5, <1>6 DEF Conserved, Batch
<1> QED  BY <1>1, <1>2, <1>3, <1>4, <1>5, <1>7 DEF Sound

LEMMA LeftSound ==
  ASSUME NEW b, Sound(b), b.toStart = 0
  PROVE  Sound(Left(b))
<1> DEFINE d == Left(b)
<1>1. b \in Batch /\ Conserved(b)
  BY DEF Sound
<1>2. d \in Batch
  BY <1>1 DEF Left, Batch
<1>3. /\ d.held = FALSE /\ d.size = b.size /\ d.toStart = b.toStart /\ d.first = b.first
      /\ d.retries = b.retries /\ d.errChan = b.errChan /\ d.doneChan = b.doneChan
  BY <1>1 DEF Left, Batch
<1> HIDE DEF d
<1>4. Conserved(d)
  BY <1>1, <1>2, <1>3 DEF Conserved, Batch
<1> QED  BY <1>2, <1>4 DEF Sound, d

\* splitPRV's number of transactions is a number.
LEMMA NumTxsNat ==
  ASSUME NEW g \in Goroutines, remaining \in [Goroutines -> Int], remaining[g] > 0
  PROVE  NumTxs(g) \in Nat
<1> DEFINE m == MaxOutputSize
<1>1. m \in Nat /\ m > 0
  BY BatchAssumption
<1> HIDE DEF m
<1>2. m * m \in Nat
  BY <1>1
<1>3. \A n \in Nat : Ceil(n, m) \in Nat
  <2> TAKE n \in Nat
  <2>1. n + m - 1 \in Nat
    BY <1>1
  <2>2. \A k \in Nat : k \div m \in Nat
    BY <1>1
  <2> QED  BY <2>1, <2>2 DEF Ceil
<1>4. NumTxs(g) = Ceil(IF remaining[g] > m * m THEN m * m ELSE remaining[g], m)
  BY DEF NumTxs, m
<1> QED  BY <1>2, <1>3, <1>4

-----------------------------------------------------------------------------
(***************************************************************************)
(* The invariant of the batches: they are sound, and whoever collects one  *)
(* is alone with it.                                                       *)
(***************************************************************************)

AllSound == \A s \in Slots : Sound(batch[s])

HolderOf(g) ==
  /\ Mine(g).held /\ Mine(g).owner \in {g, Nobody}
  /\ pc[g] = "collect" => Mine(g).toStart = 0
  /\ \A h \in Goroutines : current[h] = current[g] => h = g
HoldersAlone == \A g \in Goroutines : current[g] # NoSlot => HolderOf(g)

BatchInv == AllSound /\ HoldersAlone

\* Whoever holds a slot holds a slot; NoSlot is none.
LEMMA HeldSlot ==
  ASSUME TypeOK, NEW g \in Goroutines, pc[g] \in {"spawn", "collect"}
  PROVE  current[g] \in Slots /\ current[g] # NoSlot
  BY DEF TypeOK

\* A batch changes in place.
LEMMA InPlace ==
  ASSUME TypeOK, BatchInv, UNCHANGED <<current, pc>>, NEW s \in Slots, NEW b, Sound(b),
         b.held = batch[s].held, b.owner = batch[s].owner, b.toStart <= batch[s].toStart,
         At(s, b)
  PROVE  BatchInv'
<1>1. batch' = [batch EXCEPT ![s] = Settled(b)] /\ Sound(Settled(b))
  BY SettledSound DEF At
<1>2. \A r \in Slots : batch'[r] = IF r = s THEN Settled(b) ELSE batch[r]
  BY <1>1 DEF TypeOK
<1>3. AllSound'
  BY <1>1, <1>2 DEF AllSound, BatchInv
<1>4. ASSUME NEW g \in Goroutines, current'[g] # NoSlot
      PROVE  HolderOf(g)'
  <2>1. current[g] \in Slots /\ current[g] # NoSlot /\ current' = current /\ pc' = pc
    BY <1>4 DEF TypeOK
  <2>2. HolderOf(g)
    BY <2>1 DEF BatchInv, HoldersAlone
  <2>3. CASE current[g] = s
    <3>1. batch'[s] = b
      BY <1>2, <2>2, <2>3, SettledSound DEF HolderOf, Mine
    <3>2. b.toStart \in Nat /\ batch[s].toStart \in Nat
      BY DEF BatchInv, AllSound, Sound, Batch
    <3> QED  BY <2>1, <2>2, <2>3, <3>1, <3>2 DEF HolderOf, Mine
  <2>4. CASE current[g] # s
    BY <1>2, <2>1, <2>2, <2>4 DEF HolderOf, Mine
  <2> QED  BY <2>3, <2>4
<1> QED  BY <1>3, <1>4 DEF BatchInv, HoldersAlone

\* Nothing happens to batches and collectors.
LEMMA Quiet ==
  ASSUME TypeOK, BatchInv, UNCHANGED <<current, batch>>,
         \A g \in Goroutines : pc'[g] = "collect" =>
           pc[g] = "collect" \/ current[g] = NoSlot \/ Mine(g).toStart = 0
  PROVE  BatchInv'
  BY DEF BatchInv, AllSound, HoldersAlone, HolderOf, Mine

\* A batch is opened.
LEMMA Opens ==
  ASSUME TypeOK, BatchInv, NEW g \in Goroutines, current[g] = NoSlot,
         NEW s \in Slots, batch[s] = NoBatch, NEW b, Sound(b), b.held, b.owner \in {g, Nobody},
         At(s, b), current' = [current EXCEPT ![g] = s], pc' = [pc EXCEPT ![g] = "spawn"]
  PROVE  BatchInv' /\ batch' = [batch EXCEPT ![s] = b]
<1>4. batch' = [batch EXCEPT ![s] = b]
  BY SettledSound DEF At
<1>5. AllSound'
  BY <1>4 DEF TypeOK, AllSound, BatchInv
<1>6. ~batch[s].held
  BY DEF NoBatch, NewBatch
<1>7. \A h \in Goroutines : current[h] # s
  BY <1>6, BatchAssumption DEF BatchInv, HoldersAlone, HolderOf, Mine
<1>8. HoldersAlone'
  <2> SUFFICES ASSUME NEW h \in Goroutines, current'[h] # NoSlot PROVE HolderOf(h)'
    BY DEF HoldersAlone
  <2>1. s # NoSlot
    BY BatchAssumption
  <2>2. CASE h = g
    <3>1. current'[h] = s /\ batch'[s] = b /\ pc'[h] = "spawn"
      BY <1>4, <2>2 DEF TypeOK
    <3>2. \A k \in Goroutines : current'[k] = s => k = h
      BY <1>7, <2>2 DEF TypeOK
    <3> QED  BY <2>2, <3>1, <3>2 DEF HolderOf, Mine
  <2>3. CASE h # g
    <3>1. current'[h] = current[h] /\ current[h] # s /\ pc'[h] = pc[h] /\ current[h] \in Slots
      BY <1>7, <2>3 DEF TypeOK
    <3>2. batch'[current[h]] = batch[current[h]]
      BY <1>4, <3>1 DEF TypeOK
    <3>3. HolderOf(h)
      BY <3>1 DEF BatchInv, HoldersAlone
    <3>4. \A k \in Goroutines : current'[k] = current[h] => k = h
      BY <3>1, <3>3 DEF TypeOK, HolderOf
    <3> QED  BY <3>1, <3>2, <3>3, <3>4 DEF HolderOf, Mine
  <2> QED  BY <2>2, <2>3
<1> QED  BY <1>4, <1>5, <1>8 DEF BatchInv

\* A collector leaves its batch, if it has one.
LEMMA Departs ==
  ASSUME TypeOK, BatchInv, NEW g \in Goroutines, NEW to, to # "collect",
         current' = [current EXCEPT ![g] = NoSlot], pc' = [pc EXCEPT ![g] = to],
         \A r \in Slots : Sound(batch'[r]),
         \A r \in Slots : r # current[g] /\ batch[r].owner # g => batch'[r] = batch[r]
  PROVE  BatchInv'
<1>1. AllSound'
  BY DEF AllSound
<1>2. ASSUME NEW h \in Goroutines, current'[h] # NoSlot
      PROVE  HolderOf(h)'
  <2>1. h # g /\ current'[h] = current[h] /\ pc'[h] = pc[h] /\ current[h] \in Slots
    BY <1>2 DEF TypeOK
  <2>2. HolderOf(h)
    BY <1>2, <2>1 DEF BatchInv, HoldersAlone
  <2>3. current[h] # current[g] /\ batch[current[h]].owner # g
    BY <2>1, <2>2, BatchAssumption DEF HolderOf, Mine, Goroutines
  <2>4. batch'[current[h]] = batch[current[h]]
    BY <2>1, <2>3
  <2>5. \A k \in Goroutines : current'[k] = current[h] => k = h
    BY <1>2, <2>1, <2>2 DEF HolderOf, TypeOK
  <2> QED  BY <2>1, <2>2, <2>4, <2>5 DEF HolderOf, Mine
<1> QED  BY <1>1, <1>2 DEF BatchInv, HoldersAlone

\* splitPRV's batches are left to themselves.
LEMMA ReturnSound ==
  ASSUME NEW batches, \A r \in Slots : Sound(batches[r]), NEW g \in Goroutines,
         Return(g, batches)
  PROVE  /\ batch' \in [Slots -> Batch]
         /\ \A r \in Slots : Sound(batch'[r])
         /\ \A r \in Slots : batches[r].owner # g => batch'[r] = batches[r]
<1>1. ASSUME NEW b, Sound(b)
      PROVE  Sound([b EXCEPT !.owner = Nobody, !.setNil = 0, !.setErr = 0])
  <2> DEFINE d == [b EXCEPT !.owner = Nobody, !.setNil = 0, !.setErr = 0]
  <2>1. b \in Batch /\ Conserved(b)
    BY <1>1 DEF Sound
  <2>2. d \in Batch
    BY <2>1 DEF Batch
  <2>3. /\ d.held = b.held /\ d.size = b.size /\ d.toStart = b.toStart /\ d.first = b.first
        /\ d.retries = b.retries /\ d.errChan = b.errChan /\ d.doneChan = b.doneChan
        /\ d.doneCount = b.doneCount
    BY <2>1 DEF Batch
  <2> HIDE DEF d
  <2>4. Conserved(d)
    BY <2>1, <2>2, <2>3 DEF Conserved, Batch
  <2> QED  BY <2>2, <2>4 DEF Sound, d
<1>2. \A r \in Slots : Sound(batch'[r])
  BY <1>1, SettledSound DEF Return
<1>3. batch' = [r \in Slots |-> batch'[r]]
  BY DEF Return
<1>4. \A r \in Slots : batch'[r] \in Batch
  BY <1>2 DEF Sound
<1> QED  BY <1>2, <1>3, <1>4 DEF Return

\* Changing a batch keeps the type of batch.
LEMMA AtType ==
  ASSUME batch \in [Slots -> Batch], NEW s \in Slots, NEW b, Sound(b), At(s, b)
  PROVE  batch' \in [Slots -> Batch]
  BY SettledSound DEF At, Sound

\* The variables of splitPRV at its start.
LEMMA CallType ==
  ASSUME TypeOK, NEW g \in Goroutines, NEW n \in Nat, CallSplit(g, n)
  PROVE  /\ need' \in [Goroutines -> Nat] /\ remaining' \in [Goroutines -> Int]
         /\ err' \in [Goroutines -> BOOLEAN] /\ sendOk' \in [Goroutines -> BOOLEAN]
         /\ sent' \in [Goroutines -> Nat]
         /\ fooled' \in [Goroutines -> BOOLEAN]
  BY DEF TypeOK, CallSplit

LEMMA CreditType ==
  ASSUME TypeOK, NEW g \in Goroutines, NEW n \in Nat, Credit(g, n)
  PROVE  sent' \in [Goroutines -> Nat]
  BY DEF TypeOK, Credit

-----------------------------------------------------------------------------
(***************************************************************************)
(* Every action keeps TypeOK and BatchInv.                                 *)
(***************************************************************************)

BaseInv == TypeOK /\ BatchInv

\* A collector's batch changes in place.
LEMMA CollectorsBatch ==
  ASSUME BaseInv, NEW g \in Goroutines, pc[g] \in {"spawn", "collect"}
  PROVE  /\ current[g] \in Slots /\ current[g] # NoSlot
         /\ Sound(Mine(g)) /\ Mine(g) \in Batch /\ HolderOf(g)
<1>1. current[g] \in Slots /\ current[g] # NoSlot
  BY HeldSlot DEF BaseInv
<1> QED  BY <1>1 DEF BaseInv, BatchInv, AllSound, HoldersAlone, Mine, Sound

LEMMA InitBase == Init => BaseInv
<1> SUFFICES ASSUME Init PROVE BaseInv
  OBVIOUS
<1>1. batch \in [Slots -> Batch]
  BY NoBatchSound DEF Init, Sound
<1>2. \A g \in Goroutines : pc[g] = "off" /\ current[g] = NoSlot
  BY DEF Init
<1>3. TypeOK
  <2>1. /\ current \in [Goroutines -> Slots \cup {NoSlot}]
        /\ pc \in [Goroutines -> {"off", "begin", "look", "split", "test", "splitDone",
                                  "spawn", "collect", "over"}]
    BY DEF Init
  <2>2. /\ need \in [Goroutines -> Nat] /\ remaining \in [Goroutines -> Int]
        /\ err \in [Goroutines -> BOOLEAN] /\ sendOk \in [Goroutines -> BOOLEAN]
        /\ sent \in [Goroutines -> Nat]
        /\ fooled \in [Goroutines -> BOOLEAN]
    BY DEF Init
  <2> QED  BY <1>1, <1>2, <2>1, <2>2 DEF Init, TypeOK
<1>4. BatchInv
  BY <1>2, NoBatchSound DEF Init, BatchInv, AllSound, HoldersAlone
<1> QED  BY <1>3, <1>4 DEF BaseInv

\* The steps of a goroutine that leave all batches alone.
LEMMA QuietSteps ==
  ASSUME BaseInv, NEW g \in Goroutines,
         \/ StartMinting(g) \/ StartSplitting(g) \/ SetMinting(g) \/ SetSplitting(g)
         \/ TooPoor(g) \/ (\E n \in 1..NumMint : SplitFirst(g, n))
         \/ (\E ok \in BOOLEAN : OwnTransfer(g, ok))
         \/ SendAgain(g) \/ LastSent(g) \/ AllStarted(g) \/ ClearFlag(g)
  PROVE  BaseInv'
<1> USE DEF BaseInv
<1>1. CASE StartMinting(g)
  <2>1. TypeOK'
    BY <1>1 DEF StartMinting, Goes, flags, splits, TypeOK
  <2>2. BatchInv'
    BY <1>1, Quiet DEF StartMinting, Goes, TypeOK
  <2> QED  BY <2>1, <2>2
<1>2. CASE StartSplitting(g)
  <2>1. TypeOK'
    BY <1>2 DEF StartSplitting, Goes, flags, splits, TypeOK
  <2>2. BatchInv'
    BY <1>2, Quiet DEF StartSplitting, Goes, TypeOK
  <2> QED  BY <2>1, <2>2
<1>3. CASE SetMinting(g)
  <2>1. TypeOK'
    BY <1>3 DEF SetMinting, Goes, splits, TypeOK
  <2>2. BatchInv'
    BY <1>3, Quiet DEF SetMinting, Goes, TypeOK
  <2> QED  BY <2>1, <2>2
<1>4. CASE SetSplitting(g)
  <2>1. TypeOK'
    BY <1>4, CallType, BatchAssumption DEF SetSplitting, Goes, TypeOK
  <2>2. BatchInv'
    BY <1>4, Quiet DEF SetSplitting, Goes, TypeOK
  <2> QED  BY <2>1, <2>2
<1>5. CASE TooPoor(g)
  <2>1. TypeOK'
    BY <1>5 DEF TooPoor, Goes, flags, splits, TypeOK
  <2>2. BatchInv'
    BY <1>5, Quiet DEF TooPoor, Goes, TypeOK
  <2> QED  BY <2>1, <2>2
<1>6. CASE \E n \in 1..NumMint : SplitFirst(g, n)
  <2> PICK n \in 1..NumMint : SplitFirst(g, n)
    BY <1>6
  <2>0. n \in Nat
    BY BatchAssumption
  <2>1. TypeOK'
    BY <2>0, CallType DEF SplitFirst, Goes, flags, TypeOK
  <2>2. BatchInv'
    BY Quiet DEF SplitFirst, Goes, TypeOK
  <2> QED  BY <2>1, <2>2
<1>7. CASE \E ok \in BOOLEAN : OwnTransfer(g, ok)
  <2> PICK ok \in BOOLEAN : OwnTransfer(g, ok)
    BY <1>7
  <2>0. sent' \in [Goroutines -> Nat]
    <3>1. remaining[g] \in Nat
      BY DEF OwnTransfer, TypeOK
    <3> QED  BY <3>1, CreditType DEF OwnTransfer, TypeOK
  <2>1. TypeOK'
    BY <2>0 DEF OwnTransfer, Goes, flags, TypeOK
  <2>2. BatchInv'
    BY Quiet DEF OwnTransfer, Goes, TypeOK
  <2> QED  BY <2>1, <2>2
<1>8. CASE SendAgain(g)
  <2>1. TypeOK'
    BY <1>8 DEF SendAgain, Tested, Goes, flags, TypeOK
  <2>2. BatchInv'
    BY <1>8, Quiet DEF SendAgain, Goes, TypeOK
  <2> QED  BY <2>1, <2>2
<1>9. CASE LastSent(g)
  <2>1. TypeOK'
    BY <1>9 DEF LastSent, Tested, Goes, flags, TypeOK
  <2>2. BatchInv'
    BY <1>9, Quiet DEF LastSent, Goes, TypeOK
  <2> QED  BY <2>1, <2>2
<1>10. CASE AllStarted(g)
  <2>1. TypeOK'
    BY <1>10 DEF AllStarted, Goes, flags, splits, TypeOK
  <2>2. BatchInv'
    BY <1>10, Quiet DEF AllStarted, Goes, TypeOK
  <2> QED  BY <2>1, <2>2
<1>11. CASE ClearFlag(g)
  <2>1. TypeOK'
    BY <1>11 DEF ClearFlag, Goes, splits, TypeOK
  <2>2. BatchInv'
    BY <1>11, Quiet DEF ClearFlag, Goes, TypeOK
  <2> QED  BY <2>1, <2>2
<1> QED  BY <1>1, <1>2, <1>3, <1>4, <1>5, <1>6, <1>7, <1>8, <1>9, <1>10, <1>11

\* The steps that open a batch.
LEMMA OpeningSteps ==
  ASSUME BaseInv, NEW g \in Goroutines, OpenMint(g) \/ OpenSplit(g) \/ AfterSplit(g)
  PROVE  BaseInv'
<1> USE DEF BaseInv
<1>0. pc[g] \in {"look", "test", "splitDone"} => current[g] = NoSlot
  BY DEF TypeOK
<1>1. ASSUME NEW o \in {g, Nobody}, NEW n \in Nat, OpenBatch(g, NewBatch(o, n)),
             pc' = [pc EXCEPT ![g] = "spawn"], current[g] = NoSlot
      PROVE  /\ BatchInv' /\ batch' \in [Slots -> Batch] /\ pc' = [pc EXCEPT ![g] = "spawn"]
             /\ \E s \in Slots : current' = [current EXCEPT ![g] = s]
  <2> DEFINE s == CHOOSE r \in FreeSlots : TRUE
             b == NewBatch(o, n)
  <2>1. s \in Slots /\ batch[s] = NoBatch
    BY <1>1 DEF OpenBatch, FreeSlots
  <2>2. At(s, b) /\ current' = [current EXCEPT ![g] = s]
    BY <1>1 DEF OpenBatch
  <2>3. Sound(b) /\ b.held /\ b.owner \in {g, Nobody}
    BY NewSound DEF NewBatch
  <2> HIDE DEF s, b
  <2>4. BatchInv'
    BY <1>1, <2>1, <2>2, <2>3, Opens
  <2>5. batch' \in [Slots -> Batch]
    BY <2>1, <2>2, <2>3, AtType DEF TypeOK
  <2> QED  BY <1>1, <2>1, <2>2, <2>4, <2>5
<1>2. ASSUME NEW s \in Slots, current' = [current EXCEPT ![g] = s],
             pc' = [pc EXCEPT ![g] = "spawn"]
      PROVE  /\ current' \in [Goroutines -> Slots \cup {NoSlot}]
             /\ pc' \in [Goroutines -> {"off", "begin", "look", "split", "test", "splitDone",
                                        "spawn", "collect", "over"}]
             /\ \A h \in Goroutines : pc'[h] \in {"spawn", "collect"} <=> current'[h] # NoSlot
  BY <1>2, BatchAssumption DEF TypeOK
<1>3. CASE OpenMint(g)
  <2>1. BatchInv' /\ batch' \in [Slots -> Batch] /\ pc' = [pc EXCEPT ![g] = "spawn"]
        /\ \E s \in Slots : current' = [current EXCEPT ![g] = s]
    BY <1>0, <1>1, <1>3, BatchAssumption DEF OpenMint, Goes
  <2>2. TypeOK'
    BY <1>2, <1>3, <2>1 DEF OpenMint, flags, splits, TypeOK
  <2> QED  BY <2>1, <2>2
<1>4. CASE OpenSplit(g)
  <2>0. NumTxs(g) \in Nat
    <3>1. remaining[g] > 0
      BY <1>4, BatchAssumption DEF OpenSplit, IsLastSend, TypeOK
    <3> QED  BY <3>1, NumTxsNat DEF TypeOK
  <2>1. BatchInv' /\ batch' \in [Slots -> Batch] /\ pc' = [pc EXCEPT ![g] = "spawn"]
        /\ \E s \in Slots : current' = [current EXCEPT ![g] = s]
    BY <1>0, <1>1, <1>4, <2>0 DEF OpenSplit, Goes
  <2>2. TypeOK'
    BY <1>2, <1>4, <2>1 DEF OpenSplit, Tested, flags, TypeOK
  <2> QED  BY <2>1, <2>2
<1>5. CASE AfterSplit(g)
  <2>1. CASE g \in Splitters
    <3>1. pc' = [pc EXCEPT ![g] = "over"] /\ UNCHANGED <<current, batch>>
      BY <1>5, <2>1 DEF AfterSplit, Goes
    <3>2. TypeOK'
      BY <1>5, <3>1, <1>0, CallType DEF AfterSplit, Goes, flags, TypeOK
    <3>3. BatchInv'
      BY <3>1, Quiet DEF TypeOK
    <3> QED  BY <3>2, <3>3
  <2>2. CASE g \notin Splitters
    <3>1. BatchInv' /\ batch' \in [Slots -> Batch] /\ pc' = [pc EXCEPT ![g] = "spawn"]
          /\ \E s \in Slots : current' = [current EXCEPT ![g] = s]
      BY <1>0, <1>1, <1>5, <2>2, BatchAssumption DEF AfterSplit, Goes
    <3>2. TypeOK'
      BY <1>2, <1>5, <3>1, CallType DEF AfterSplit, flags, TypeOK
    <3> QED  BY <3>1, <3>2
  <2> QED  BY <2>1, <2>2
<1> QED  BY <1>3, <1>4, <1>5

\* What the collector does to its batch keeps it sound.
LEMMA StartSound ==
  ASSUME NEW b, Sound(b), b.toStart > 0
  PROVE  LET c == [b EXCEPT !.toStart = @ - 1, !.first = @ + 1] IN
         Sound(c) /\ c.held = b.held /\ c.owner = b.owner /\ c.toStart <= b.toStart
<1> DEFINE x == b.toStart - 1
           y == b.first + 1
           c == [b EXCEPT !.toStart = x, !.first = y]
<1>1. b \in Batch /\ Conserved(b)
  BY DEF Sound
<1>2. x \in Nat /\ y \in Nat
  BY <1>1 DEF Batch
<1>3. b.toStart \in Nat /\ x = b.toStart - 1 /\ y = b.first + 1
  BY <1>1 DEF Batch
<1> HIDE DEF x, y
<1>4. c \in Batch
  BY <1>1, <1>2 DEF Batch
<1>5. /\ c.held = b.held /\ c.owner = b.owner /\ c.size = b.size /\ c.toStart = x /\ c.first = y
      /\ c.retries = b.retries /\ c.errChan = b.errChan /\ c.doneChan = b.doneChan
      /\ c.doneCount = b.doneCount
  BY <1>1 DEF Batch
<1>6. c = [b EXCEPT !.toStart = @ - 1, !.first = @ + 1]
  BY DEF x, y
<1> HIDE DEF c
<1>7. Conserved(c)
  BY <1>1, <1>2, <1>3, <1>4, <1>5 DEF Conserved, Batch
<1> QED  BY <1>2, <1>3, <1>4, <1>5, <1>6, <1>7 DEF Sound

LEMMA ErrorSound ==
  ASSUME NEW b, Sound(b), b.errChan > 0
  PROVE  LET c == [b EXCEPT !.errChan = @ - 1, !.retries = @ + 1,
                            !.errCount = IF @ > b.size THEN @ ELSE @ + 1] IN
         /\ Sound(c) /\ c.held = b.held /\ c.owner = b.owner /\ c.toStart = b.toStart
         /\ c.doneChan = b.doneChan
<1> DEFINE x == b.errChan - 1
           y == b.retries + 1
           z == IF b.errCount > b.size THEN b.errCount ELSE b.errCount + 1
           c == [b EXCEPT !.errChan = x, !.retries = y, !.errCount = z]
<1>1. b \in Batch /\ Conserved(b)
  BY DEF Sound
<1>2. x \in Nat /\ y \in Nat /\ z \in Nat
  BY <1>1 DEF Batch
<1>3. b.errChan \in Nat /\ x = b.errChan - 1 /\ y = b.retries + 1
  BY <1>1 DEF Batch
<1>6. c = [b EXCEPT !.errChan = @ - 1, !.retries = @ + 1,
                    !.errCount = IF @ > b.size THEN @ ELSE @ + 1]
  OBVIOUS
<1> HIDE DEF x, y, z
<1>4. c \in Batch
  BY <1>1, <1>2 DEF Batch
<1>5. /\ c.held = b.held /\ c.owner = b.owner /\ c.size = b.size /\ c.toStart = b.toStart
      /\ c.first = b.first /\ c.retries = y /\ c.errChan = x /\ c.doneChan = b.doneChan
      /\ c.doneCount = b.doneCount
  BY <1>1 DEF Batch
<1> HIDE DEF c
<1>7. Conserved(c)
  BY <1>1, <1>2, <1>3, <1>4, <1>5 DEF Conserved, Batch
<1> QED  BY <1>4, <1>5, <1>6, <1>7 DEF Sound

LEMMA DoneSound ==
  ASSUME NEW b, Sound(b), b.doneChan > 0
  PROVE  LET c == [b EXCEPT !.doneChan = @ - 1, !.doneCount = @ + 1] IN
         /\ Sound(c) /\ c.held = b.held /\ c.owner = b.owner /\ c.toStart = b.toStart
         /\ c.doneChan = b.doneChan - 1
<1> DEFINE x == b.doneChan - 1
           y == b.doneCount + 1
           c == [b EXCEPT !.doneChan = x, !.doneCount = y]
<1>1. b \in Batch /\ Conserved(b)
  BY DEF Sound
<1>2. x \in Nat /\ y \in Nat
  BY <1>1 DEF Batch
<1>3. b.doneChan \in Nat /\ x = b.doneChan - 1 /\ y = b.doneCount + 1
  BY <1>1 DEF Batch
<1>6. c = [b EXCEPT !.doneChan = @ - 1, !.doneCount = @ + 1]
  OBVIOUS
<1> HIDE DEF x, y
<1>4. c \in Batch
  BY <1>1, <1>2 DEF Batch
<1>5. /\ c.held = b.held /\ c.owner = b.owner /\ c.size = b.size /\ c.toStart = b.toStart
      /\ c.first = b.first /\ c.retries = b.retries /\ c.errChan = b.errChan /\ c.doneChan = x
      /\ c.doneCount = y
  BY <1>1 DEF Batch
<1> HIDE DEF c
<1>7. Conserved(c)
  BY <1>1, <1>2, <1>3, <1>4, <1>5 DEF Conserved, Batch
<1> QED  BY <1>3, <1>4, <1>5, <1>6, <1>7 DEF Sound

\* The collector's steps on its batch.
LEMMA CollectingSteps ==
  ASSUME BaseInv, NEW g \in Goroutines, StartWorker(g) \/ TakeError(g) \/ TakeDone(g)
  PROVE  BaseInv'
<1> DEFINE b == Mine(g)
<1>0. pc[g] \in {"spawn", "collect"}
  BY DEF StartWorker, TakeError, TakeDone
<1>a. current[g] \in Slots /\ Sound(b) /\ b \in Batch /\ b = batch[current[g]]
  BY <1>0, CollectorsBatch DEF Mine
<1>b. TypeOK /\ BatchInv /\ batch \in [Slots -> Batch]
  BY DEF BaseInv, TypeOK
<1> HIDE DEF b
<1>1. CASE StartWorker(g)
  <2> DEFINE c == [b EXCEPT !.toStart = @ - 1, !.first = @ + 1]
  <2>1. Sound(c) /\ c.held = b.held /\ c.owner = b.owner /\ c.toStart <= b.toStart
    BY <1>1, <1>a, StartSound DEF StartWorker, Mine
  <2>2. At(current[g], c)
    BY <1>1 DEF StartWorker, b
  <2> HIDE DEF c
  <2>3. BatchInv' /\ batch' \in [Slots -> Batch]
    BY <1>1, <1>a, <1>b, <2>1, <2>2, InPlace, AtType DEF StartWorker
  <2> QED  BY <1>1, <1>b, <2>3 DEF StartWorker, flags, splits, BaseInv, TypeOK
<1>2. CASE TakeError(g)
  <2> DEFINE c == [b EXCEPT !.errChan = @ - 1, !.retries = @ + 1,
                            !.errCount = IF @ > b.size THEN @ ELSE @ + 1]
  <2>0. Sound(b) /\ b \in Batch /\ b.errChan > 0
    BY <1>2, <1>a DEF TakeError, Mine
  <2>1. Sound(c) /\ c.held = b.held /\ c.owner = b.owner /\ c.toStart = b.toStart
    BY <2>0, ErrorSound
  <2>2. At(current[g], c)
    BY <1>2 DEF TakeError, b
  <2>3. c.toStart <= b.toStart
    BY <1>a, <2>1 DEF Batch
  <2> HIDE DEF c
  <2>4. BatchInv' /\ batch' \in [Slots -> Batch]
    BY <1>2, <1>a, <1>b, <2>1, <2>2, <2>3, InPlace, AtType DEF TakeError
  <2> QED  BY <1>2, <1>b, <2>4 DEF TakeError, flags, splits, BaseInv, TypeOK
<1>3. CASE TakeDone(g)
  <2> DEFINE c == [b EXCEPT !.doneChan = @ - 1, !.doneCount = @ + 1]
  <2>1. Sound(c) /\ c.held = b.held /\ c.owner = b.owner /\ c.toStart = b.toStart
    BY <1>3, <1>a, DoneSound DEF TakeDone, Mine
  <2>2. At(current[g], c)
    BY <1>3 DEF TakeDone, b
  <2>3. c.toStart <= b.toStart
    BY <1>a, <2>1 DEF Batch
  <2> HIDE DEF c
  <2>4. BatchInv' /\ batch' \in [Slots -> Batch]
    BY <1>3, <1>a, <1>b, <2>1, <2>2, <2>3, InPlace, AtType DEF TakeDone
  <2>5. remaining' \in [Goroutines -> Int]
    BY <1>3, <1>b, BatchAssumption DEF TakeDone, TypeOK
  <2> QED  BY <1>3, <1>b, <2>4, <2>5 DEF TakeDone, flags, BaseInv, TypeOK
<1> QED  BY <1>1, <1>2, <1>3

\* What Leave does to the type of pc and current.
LEMMA LeaveType ==
  ASSUME TypeOK, NEW g \in Goroutines, NEW to \in {"split", "splitDone", "over"},
         pc' = [pc EXCEPT ![g] = to], current' = [current EXCEPT ![g] = NoSlot]
  PROVE  /\ current' \in [Goroutines -> Slots \cup {NoSlot}]
         /\ pc' \in [Goroutines -> {"off", "begin", "look", "split", "test", "splitDone",
                                    "spawn", "collect", "over"}]
         /\ \A h \in Goroutines : pc'[h] \in {"spawn", "collect"} <=> current'[h] # NoSlot
  BY DEF TypeOK

\* A collector leaves its batch, or splitPRV its batches.
LEMMA LeavingSteps ==
  ASSUME BaseInv, NEW g \in Goroutines, Finish(g) \/ TimeOut(g) \/ SplitReturns(g)
  PROVE  BaseInv'
<1>a. TypeOK /\ BatchInv /\ batch \in [Slots -> Batch] /\ \A r \in Slots : Sound(batch[r])
  BY DEF BaseInv, TypeOK, BatchInv, AllSound
<1>b. ASSUME pc[g] = "collect"
      PROVE  current[g] \in Slots /\ Sound(Left(Mine(g)))
  BY <1>b, CollectorsBatch, LeftSound DEF HolderOf
<1>c. 0 \in Nat
  OBVIOUS
<1>1. CASE Finish(g)
  <2> DEFINE s == current[g]
             c == Left(Mine(g))
  <2>1. pc[g] = "collect" /\ At(s, c) /\ current' = [current EXCEPT ![g] = NoSlot]
    BY <1>1 DEF Finish, Leave
  <2>2. s \in Slots /\ Sound(c)
    BY <1>b, <2>1
  <2> HIDE DEF c
  <2>3. PICK to \in {"split", "over"} : pc' = [pc EXCEPT ![g] = to]
    BY <1>1 DEF Finish, Leave
  <2>4. batch' = [batch EXCEPT ![s] = Settled(c)] /\ Sound(Settled(c))
    BY <2>1, <2>2, SettledSound DEF At
  <2>5. batch' \in [Slots -> Batch]
    BY <1>a, <2>4 DEF Sound
  <2>6. /\ \A r \in Slots : Sound(batch'[r])
        /\ \A r \in Slots : r # s => batch'[r] = batch[r]
    BY <1>a, <2>2, <2>4
  <2>7. BatchInv'
    BY <1>a, <2>1, <2>3, <2>6, Departs
  <2>8. TypeOK'
    BY <1>1, <1>a, <2>1, <2>3, <2>5, LeaveType DEF Finish, flags, splits, TypeOK
  <2> QED  BY <2>7, <2>8 DEF BaseInv
<1>2. CASE TimeOut(g)
  <2> DEFINE s == current[g]
             c == Left(Mine(g))
             left == [batch EXCEPT ![s] = c]
  <2>1. /\ pc[g] = "collect" /\ pc' = [pc EXCEPT ![g] = "over"]
        /\ current' = [current EXCEPT ![g] = NoSlot]
    BY <1>2 DEF TimeOut, Leave
  <2>2. s \in Slots /\ Sound(c)
    BY <1>b, <2>1
  <2>3. IF Splits(g) THEN Return(g, left) ELSE At(s, c)
    BY <1>2 DEF TimeOut, Mine
  <2> HIDE DEF c
  <2>4. \A r \in Slots : Sound(left[r]) /\ (r # s => left[r] = batch[r])
    BY <1>a, <2>2
  <2>5. /\ batch' \in [Slots -> Batch]
        /\ \A r \in Slots : Sound(batch'[r])
        /\ \A r \in Slots : r # s /\ batch[r].owner # g => batch'[r] = batch[r]
    <3>1. CASE Splits(g)
      <4>1. Return(g, left)
        BY <2>3, <3>1
      <4> HIDE DEF left
      <4>2. /\ batch' \in [Slots -> Batch]
            /\ \A r \in Slots : Sound(batch'[r])
            /\ \A r \in Slots : left[r].owner # g => batch'[r] = left[r]
        BY <2>4, <4>1, ReturnSound
      <4> QED  BY <2>4, <4>2
    <3>2. CASE ~Splits(g)
      <4>1. batch' = [batch EXCEPT ![s] = Settled(c)] /\ Sound(Settled(c))
        BY <2>2, <2>3, <3>2, SettledSound DEF At
      <4>2. batch' \in [Slots -> Batch]
        BY <1>a, <4>1 DEF Sound
      <4> QED  BY <1>a, <4>1, <4>2
    <3> QED  BY <3>1, <3>2
  <2>6. BatchInv'
    BY <1>a, <2>1, <2>5, Departs
  <2>7. TypeOK'
    BY <1>2, <1>a, <1>c, <2>1, <2>5, LeaveType, CallType DEF TimeOut, flags, TypeOK
  <2> QED  BY <2>6, <2>7 DEF BaseInv
<1>3. CASE SplitReturns(g)
  <2>1. pc[g] = "split" /\ pc' = [pc EXCEPT ![g] = "splitDone"] /\ current' = current
    BY <1>3 DEF SplitReturns, Goes
  <2>2. current' = [current EXCEPT ![g] = NoSlot]
    BY <1>a, <2>1 DEF TypeOK
  <2>3. /\ batch' \in [Slots -> Batch]
        /\ \A r \in Slots : Sound(batch'[r])
        /\ \A r \in Slots : batch[r].owner # g => batch'[r] = batch[r]
    BY <1>3, <1>a, ReturnSound DEF SplitReturns
  <2>4. BatchInv'
    BY <1>a, <2>1, <2>2, <2>3, Departs
  <2>5. TypeOK'
    BY <1>3, <1>a, <2>1, <2>2, <2>3, LeaveType DEF SplitReturns, flags, splits, TypeOK
  <2> QED  BY <2>4, <2>5 DEF BaseInv
<1> QED  BY <1>1, <1>2, <1>3

\* An assignment to err concerns nothing else of the batch.
LEMMA AssignSound ==
  ASSUME NEW s \in Slots, Sound(batch[s]), AssignsErr(s)
  PROVE  \E c : /\ At(s, c) /\ Sound(c)
               /\ c.held = batch[s].held /\ c.owner = batch[s].owner
               /\ c.toStart = batch[s].toStart /\ c.doneChan = batch[s].doneChan
<1> DEFINE b == batch[s]
           Alike(c) == /\ Sound(c) /\ c.held = b.held /\ c.owner = b.owner
                       /\ c.toStart = b.toStart /\ c.doneChan = b.doneChan
<1>1. b \in Batch /\ Conserved(b)
  BY DEF Sound
<1>2. ASSUME NEW n \in Nat
      PROVE  Alike([b EXCEPT !.setNil = n]) /\ Alike([b EXCEPT !.setErr = n])
  BY <1>1 DEF Sound, Conserved, Batch
<1>3. CASE b.setNil > 0 /\ At(s, [b EXCEPT !.setNil = @ - 1])
  <2>1. b.setNil - 1 \in Nat
    BY <1>1, <1>3 DEF Batch
  <2> QED  BY <1>2, <1>3, <2>1
<1>4. CASE b.setErr > 0 /\ At(s, [b EXCEPT !.setErr = @ - 1])
  <2>1. b.setErr - 1 \in Nat
    BY <1>1, <1>4 DEF Batch
  <2> QED  BY <1>2, <1>4, <2>1
<1> QED  BY <1>3, <1>4 DEF AssignsErr

\* The workers' steps.
LEMMA WorkerSteps ==
  ASSUME BaseInv, NEW s \in Slots, WorkerNext(s)
  PROVE  BaseInv'
<1> DEFINE b == batch[s]
<1>a. /\ TypeOK /\ BatchInv /\ batch \in [Slots -> Batch]
      /\ Sound(b) /\ b \in Batch /\ Conserved(b)
  BY DEF BaseInv, TypeOK, BatchInv, AllSound, Sound
<1>b. b.toStart <= b.toStart
  BY <1>a DEF Batch
<1>1. ASSUME NEW who, WorkerFails(s, who)
      PROVE  BaseInv'
  <2>1. /\ Sound(Fails(b, who)) /\ Fails(b, who).held = b.held
        /\ Fails(b, who).owner = b.owner /\ Fails(b, who).toStart = b.toStart
    BY <1>1, <1>a, FailsSound DEF WorkerFails
  <2>2. At(s, Fails(b, who)) /\ UNCHANGED <<current, pc>>
    BY <1>1 DEF WorkerFails
  <2>3. BatchInv' /\ batch' \in [Slots -> Batch]
    BY <1>a, <1>b, <2>1, <2>2, InPlace, AtType
  <2> QED  BY <1>1, <1>a, <2>3 DEF WorkerFails, flags, splits, BaseInv, TypeOK
<1>2. ASSUME NEW who, WorkerSucceeds(s, who)
      PROVE  BaseInv'
  <2>1. /\ Sound(Succeeds(b, who)) /\ Succeeds(b, who).held = b.held
        /\ Succeeds(b, who).owner = b.owner /\ Succeeds(b, who).toStart = b.toStart
    BY <1>2, <1>a, SucceedsSound DEF WorkerSucceeds
  <2>2. At(s, Succeeds(b, who)) /\ UNCHANGED <<current, pc>>
    BY <1>2 DEF WorkerSucceeds
  <2>3. BatchInv' /\ batch' \in [Slots -> Batch]
    BY <1>a, <1>b, <2>1, <2>2, InPlace, AtType
  <2>4. sent' \in [Goroutines -> Nat]
    <3>1. CASE b.owner = Nobody
      BY <1>2, <1>a, <3>1 DEF WorkerSucceeds, CreditOwner, TypeOK
    <3>2. CASE b.owner # Nobody
      <4>1. b.owner \in Goroutines /\ Credit(b.owner, MaxOutputSize)
        BY <1>2, <1>a, <3>2 DEF WorkerSucceeds, CreditOwner, Batch
      <4> QED  BY <1>a, <4>1, CreditType, BatchAssumption
    <3> QED  BY <3>1, <3>2
  <2> QED  BY <1>2, <1>a, <2>3, <2>4 DEF WorkerSucceeds, flags, BaseInv, TypeOK
<1>3. CASE AssignsErr(s)
  <2>1. PICK c : /\ At(s, c) /\ Sound(c)
                 /\ c.held = b.held /\ c.owner = b.owner /\ c.toStart = b.toStart
    BY <1>3, <1>a, AssignSound
  <2>2. UNCHANGED <<current, pc>>
    BY <1>3 DEF AssignsErr
  <2>3. BatchInv' /\ batch' \in [Slots -> Batch]
    BY <1>a, <1>b, <2>1, <2>2, InPlace, AtType
  <2>4. err' \in [Goroutines -> BOOLEAN]
    BY <1>3, <1>a DEF AssignsErr, Assign, TypeOK
  <2> QED  BY <1>3, <1>a, <2>3, <2>4 DEF AssignsErr, flags, BaseInv, TypeOK
<1> QED  BY <1>1, <1>2, <1>3 DEF WorkerNext, Work

LEMMA BaseStep == BaseInv /\ [Next]_vars => BaseInv'
<1> SUFFICES ASSUME BaseInv, [Next]_vars PROVE BaseInv'
  OBVIOUS
<1>1. ASSUME NEW g \in Goroutines, StartMinting(g) \/ StartSplitting(g)
      PROVE  BaseInv'
  BY <1>1, QuietSteps
<1>2. ASSUME NEW g \in Goroutines, Step(g) \/ TimeOut(g)
      PROVE  BaseInv'
  <2>1. CASE Enter(g)
    BY <2>1, QuietSteps DEF Enter
  <2>2. CASE Look(g)
    BY <2>2, QuietSteps, OpeningSteps DEF Look
  <2>3. CASE Split(g)
    BY <2>3, QuietSteps, OpeningSteps, LeavingSteps DEF Split, Test
  <2>4. CASE Spawn(g)
    BY <2>4, QuietSteps, CollectingSteps DEF Spawn
  <2>5. CASE Collect(g)
    BY <2>5, CollectingSteps, LeavingSteps DEF Collect
  <2>6. CASE ClearFlag(g)
    BY <2>6, QuietSteps
  <2>7. CASE TimeOut(g)
    BY <2>7, LeavingSteps
  <2> QED  BY <1>2, <2>1, <2>2, <2>3, <2>4, <2>5, <2>6, <2>7 DEF Step
<1>3. CASE \E s \in Slots : WorkerNext(s)
  BY <1>3, WorkerSteps
<1>4. CASE UNCHANGED vars
  BY <1>4 DEF vars, flags, splits, BaseInv, TypeOK, BatchInv, AllSound, HoldersAlone, HolderOf,
              Mine
<1> QED  BY <1>1, <1>2, <1>3, <1>4 DEF Next

LEMMA BaseCorrect == Spec => []BaseInv
<1> QED  BY InitBase, BaseStep, PTL DEF Spec

\* Every variable has its type, and exactly the goroutines that start workers
\* or collect have a batch (mintNFTMany and splitPRV, txs.go).
THEOREM TypeCorrect == Spec => []TypeOK
<1>1. BaseInv => TypeOK
  BY DEF BaseInv
<1> QED  BY <1>1, BaseCorrect, PTL

\* However many transactions fail and are tried again, and whether or not the
\* collector has given the batch up, each worker of mintNFTMany and splitPRV
\* finds room in the channel it reports on.
THEOREM SendsNeverBlockCorrect == Spec => []SendsNeverBlock
<1>1. BaseInv => SendsNeverBlock
  <2> SUFFICES ASSUME BaseInv, NEW s \in Slots, batch[s].first + batch[s].retries > 0
               PROVE  batch[s].errChan < batch[s].size /\ batch[s].doneChan < batch[s].size
    BY DEF SendsNeverBlock
  <2>1. batch[s] \in Batch /\ Conserved(batch[s])
    BY DEF BaseInv, BatchInv, AllSound, Sound
  <2> QED  BY <2>1 DEF Conserved, Batch
<1> QED  BY <1>1, BaseCorrect, PTL

\* When mintNFTMany logs that all NFTs are minted, or splitPRV that all outputs
\* are made, nobody works on the batch and no error waits to be tried again.
THEOREM DoneMeansOverCorrect == Spec => []DoneMeansOver
<1>1. BaseInv => DoneMeansOver
  <2> SUFFICES ASSUME BaseInv, NEW g \in Goroutines, pc[g] = "collect",
                      Mine(g).doneCount = Mine(g).size
               PROVE  Mine(g).first + Mine(g).retries + Mine(g).errChan = 0
    BY DEF DoneMeansOver
  <2>1. Sound(Mine(g)) /\ HolderOf(g)
    BY CollectorsBatch
  <2>2. ASSUME NEW b, Sound(b), b.held, b.doneCount = b.size
        PROVE  b.first + b.retries + b.errChan = 0
    <3>1. /\ b.toStart \in Nat /\ b.first \in Nat /\ b.retries \in Nat /\ b.errChan \in Nat
          /\ b.doneChan \in Nat /\ b.doneCount \in Nat /\ b.size \in Nat
      BY <2>2 DEF Sound, Batch
    <3>2. b.toStart + b.first + b.retries + b.errChan + b.doneChan + b.doneCount = b.doneCount
      BY <2>2 DEF Sound, Conserved
    <3>3. b.first <= 0 /\ b.retries <= 0 /\ b.errChan <= 0
      BY <3>1, <3>2
    <3>4. b.first = 0 /\ b.retries = 0 /\ b.errChan = 0
      BY <3>1, <3>3
    <3> QED  BY <3>4
  <2> QED  BY <2>1, <2>2 DEF HolderOf
<1> QED  BY <1>1, BaseCorrect, PTL

-----------------------------------------------------------------------------
(***************************************************************************)
(* What splitPRV sends.  Until enough is sent, the outputs sent and those  *)
(* still to send cover the outputs asked for and, on top of them, the      *)
(* successes that the collector has not read yet.                          *)
(***************************************************************************)

Pending(g) == IF current[g] # NoSlot /\ Mine(g).owner = g
              THEN MaxOutputSize * Mine(g).doneChan ELSE 0

Enough(g) == fooled[g] \/ sent[g] >= need[g]
Covered(g) == Enough(g) \/ sent[g] + remaining[g] >= need[g] + Pending(g)
SplitOf(g) ==
  /\ Covered(g)
  /\ pc[g] = "test" /\ sendOk[g] /\ IsLastSend(g) => Enough(g)
  /\ pc[g] = "splitDone" => Enough(g)
SplitInv == \A g \in Goroutines : SplitOf(g)

\* What a step of another goroutine, or of a worker, may leave as it is.
VarsKept(h) ==
  /\ need'[h] = need[h] /\ remaining'[h] = remaining[h] /\ sent'[h] = sent[h]
  /\ fooled'[h] = fooled[h] /\ sendOk'[h] = sendOk[h]
BatchKept(h) ==
  /\ current'[h] = current[h]
  /\ current[h] # NoSlot => /\ batch'[current[h]].owner = Mine(h).owner
                            /\ batch'[current[h]].doneChan = Mine(h).doneChan

LEMMA PendingKept ==
  ASSUME NEW h \in Goroutines, BatchKept(h)
  PROVE  Pending(h)' = Pending(h)
  BY DEF BatchKept, Pending, Mine

LEMMA NonePending ==
  ASSUME NEW g \in Goroutines, current[g] = NoSlot
  PROVE  Pending(g) = 0
  BY DEF Pending

LEMMA SplitKept ==
  ASSUME NEW h \in Goroutines, SplitOf(h), VarsKept(h), BatchKept(h),
         pc'[h] \in {"test", "splitDone"} => pc'[h] = pc[h]
  PROVE  SplitOf(h)'
  BY PendingKept DEF SplitOf, Covered, Enough, VarsKept, IsLastSend

\* splitPRV's variables are set.
LEMMA SplitCalled ==
  ASSUME TypeOK, NEW g \in Goroutines, NEW n \in Nat, CallSplit(g, n), Pending(g)' = 0,
         pc'[g] \notin {"test", "splitDone"}
  PROVE  SplitOf(g)'
<1>1. need'[g] = n /\ remaining'[g] = n /\ sent'[g] = 0
  BY DEF CallSplit, TypeOK
<1> QED  BY <1>1 DEF SplitOf, Covered

\* The collector's step in its batch is no concern of another collector.
LEMMA OthersAt ==
  ASSUME BaseInv, NEW g \in Goroutines, NEW h \in Goroutines \ {g},
         pc[g] \in {"spawn", "collect"}, NEW b, At(current[g], b), current'[h] = current[h]
  PROVE  BatchKept(h)
<1>1. current[g] \in Slots /\ HolderOf(g) /\ batch \in [Slots -> Batch]
  BY CollectorsBatch DEF BaseInv, TypeOK
<1>2. current[h] # current[g]
  BY <1>1 DEF HolderOf
<1>3. current[h] # NoSlot => current[h] \in Slots
  BY DEF BaseInv, TypeOK
<1> QED  BY <1>1, <1>2, <1>3 DEF BatchKept, Mine, At

\* Nor is a new batch,
LEMMA OthersOpen ==
  ASSUME BaseInv, NEW g \in Goroutines, NEW h \in Goroutines \ {g}, NEW b, OpenBatch(g, b)
  PROVE  BatchKept(h)
<1> DEFINE s == CHOOSE r \in FreeSlots : TRUE
<1>1. s \in Slots /\ batch[s] = NoBatch
  BY DEF OpenBatch, FreeSlots
<1>2. At(s, b) /\ current' = [current EXCEPT ![g] = s]
  BY DEF OpenBatch
<1> HIDE DEF s
<1>3. current'[h] = current[h] /\ (current[h] # NoSlot => current[h] \in Slots)
  BY <1>2 DEF BaseInv, TypeOK
<1>4. ~batch[s].held
  BY <1>1 DEF NoBatch, NewBatch
<1>5. current[h] # NoSlot => current[h] # s
  BY <1>4 DEF BaseInv, BatchInv, HoldersAlone, HolderOf, Mine
<1> QED  BY <1>1, <1>2, <1>3, <1>5 DEF BatchKept, Mine, At, BaseInv, TypeOK

\* nor are the batches that splitPRV leaves.
LEMMA OthersReturn ==
  ASSUME BaseInv, NEW g \in Goroutines, NEW h \in Goroutines \ {g}, NEW batches,
         Return(g, batches), \A r \in Slots : r # current[g] => batches[r] = batch[r],
         current'[h] = current[h]
  PROVE  BatchKept(h)
<1>1. SUFFICES ASSUME current[h] # NoSlot
               PROVE  batch'[current[h]] = batch[current[h]]
  BY DEF BatchKept, Mine
<1>2. current[h] \in Slots /\ HolderOf(h)
  BY <1>1 DEF BaseInv, TypeOK, BatchInv, HoldersAlone
<1>3. current[h] # current[g]
  BY <1>2 DEF HolderOf
<1>4. batches[current[h]] = batch[current[h]] /\ batch[current[h]].owner # g
  BY <1>2, <1>3, BatchAssumption DEF HolderOf, Mine, Goroutines
<1> QED  BY <1>2, <1>4 DEF Return

LEMMA InitSplit == Init => SplitInv
  BY DEF Init, SplitInv, SplitOf, Covered, Enough, Pending

\* The steps of g do not touch the split of another goroutine.
LEMMA OthersSplit ==
  ASSUME BaseInv, SplitInv, NEW g \in Goroutines, Step(g) \/ TimeOut(g),
         NEW h \in Goroutines \ {g}
  PROVE  SplitOf(h)'
<1>a. TypeOK
  BY DEF BaseInv
<1>1. pc'[h] = pc[h]
  <2>1. ASSUME NEW from, NEW to, Goes(g, from, to) \/ Leave(g, to)
        PROVE  pc'[h] = pc[h]
    BY <1>a, <2>1 DEF Goes, Leave, TypeOK
  <2>2. CASE Enter(g) \/ Look(g)
    <3>1. CASE Enter(g)
      BY <1>a, <3>1 DEF Enter, SetMinting, SetSplitting, Goes, TypeOK, Goroutines
    <3>2. CASE Look(g)
      BY <2>1, <3>2 DEF Look, TooPoor, OpenMint, SplitFirst
    <3> QED  BY <2>2, <3>1, <3>2
  <2>3. CASE Split(g)
    BY <2>1, <2>3 DEF Split, OwnTransfer, Test, SendAgain, LastSent, OpenSplit, SplitReturns,
                      AfterSplit
  <2>4. CASE Spawn(g) \/ Collect(g)
    BY <2>1, <2>4 DEF Spawn, StartWorker, AllStarted, Collect, TakeError, TakeDone, Finish
  <2>5. CASE ClearFlag(g) \/ TimeOut(g)
    BY <2>1, <2>5 DEF ClearFlag, TimeOut
  <2> QED  BY <2>2, <2>3, <2>4, <2>5 DEF Step
<1>2. VarsKept(h)
  <2> USE <1>a DEF VarsKept, TypeOK
  <2>1. CASE Enter(g)
    BY <2>1 DEF Enter, SetMinting, SetSplitting, CallSplit, splits, Goroutines
  <2>2. CASE Look(g)
    BY <2>2 DEF Look, TooPoor, OpenMint, SplitFirst, CallSplit, splits
  <2>3. CASE \E ok \in BOOLEAN : OwnTransfer(g, ok)
    BY <2>3 DEF OwnTransfer, Credit
  <2>4. CASE Test(g)
    BY <2>4 DEF Test, SendAgain, LastSent, OpenSplit, Tested
  <2>5. CASE SplitReturns(g) \/ AfterSplit(g)
    BY <2>5 DEF SplitReturns, AfterSplit, CallSplit, splits
  <2>6. CASE Spawn(g) \/ Collect(g)
    BY <2>6 DEF Spawn, Collect, StartWorker, AllStarted, TakeError, TakeDone, Finish, splits
  <2>7. CASE ClearFlag(g) \/ TimeOut(g)
    BY <2>7 DEF ClearFlag, TimeOut, CallSplit, splits
  <2> QED  BY <2>1, <2>2, <2>3, <2>4, <2>5, <2>6, <2>7 DEF Step, Split
<1>3. BatchKept(h)
  <2>1. CASE UNCHANGED <<current, batch>>
    BY <2>1 DEF BatchKept, Mine
  <2>2. CASE OpenMint(g) \/ OpenSplit(g) \/ AfterSplit(g)
    BY <2>1, <2>2, OthersOpen DEF OpenMint, OpenSplit, AfterSplit
  <2>3. CASE StartWorker(g) \/ TakeError(g) \/ TakeDone(g)
    BY <2>3, OthersAt DEF StartWorker, TakeError, TakeDone
  <2>4. CASE Finish(g)
    <3>1. current'[h] = current[h]
      BY <1>a, <2>4 DEF Finish, Leave, TypeOK
    <3> QED  BY <2>4, <3>1, OthersAt DEF Finish
  <2>5. CASE TimeOut(g)
    <3>1. current'[h] = current[h] /\ pc[g] = "collect"
      BY <1>a, <2>5 DEF TimeOut, Leave, TypeOK
    <3>2. CASE Splits(g)
      <4> DEFINE left == [batch EXCEPT ![current[g]] = Left(@)]
      <4>1. Return(g, left)
        BY <2>5, <3>2 DEF TimeOut
      <4>2. \A r \in Slots : r # current[g] => left[r] = batch[r]
        BY <1>a DEF TypeOK
      <4> HIDE DEF left
      <4> QED  BY <3>1, <4>1, <4>2, OthersReturn
    <3>3. CASE ~Splits(g)
      BY <2>5, <3>1, <3>3, OthersAt DEF TimeOut
    <3> QED  BY <3>2, <3>3
  <2>6. CASE SplitReturns(g)
    BY <2>6, OthersReturn DEF SplitReturns
  <2>7. CASE Enter(g)
    BY <2>1, <2>7 DEF Enter, SetMinting, SetSplitting
  <2>8. CASE Look(g)
    BY <2>1, <2>2, <2>8 DEF Look, TooPoor, SplitFirst
  <2>9. CASE Split(g)
    BY <2>1, <2>2, <2>6, <2>9 DEF Split, Test, OwnTransfer, SendAgain, LastSent
  <2>10. CASE Spawn(g) \/ Collect(g)
    BY <2>1, <2>3, <2>4, <2>10 DEF Spawn, Collect, AllStarted
  <2>11. CASE ClearFlag(g)
    BY <2>1, <2>11 DEF ClearFlag
  <2> QED  BY <2>5, <2>7, <2>8, <2>9, <2>10, <2>11 DEF Step
<1> QED  BY <1>1, <1>2, <1>3, SplitKept DEF SplitInv

\* Its own steps up to its batch keep the split of g covered.
LEMMA OwnSplitQuiet ==
  ASSUME BaseInv, BaseInv', SplitInv, NEW g \in Goroutines,
         Enter(g) \/ Look(g) \/ Split(g) \/ Spawn(g) \/ ClearFlag(g)
  PROVE  SplitOf(g)'
<1>a. TypeOK /\ TypeOK' /\ SplitOf(g)
  BY DEF BaseInv, SplitInv
<1>b. /\ pc[g] \in {"look", "split", "test", "splitDone", "begin", "off", "over"} => Pending(g) = 0
      /\ pc'[g] \in {"look", "split", "test", "splitDone", "begin", "off", "over"} => Pending(g)' = 0
  BY <1>a DEF TypeOK, Pending
<1>c. /\ need[g] \in Nat /\ remaining[g] \in Int /\ sent[g] \in Nat
      /\ fooled[g] \in BOOLEAN /\ sendOk[g] \in BOOLEAN
  BY <1>a DEF TypeOK
<1>1. ASSUME UNCHANGED <<current, batch, splits>>, pc'[g] \notin {"test", "splitDone"}
      PROVE  SplitOf(g)'
  BY <1>1, <1>a, SplitKept DEF VarsKept, BatchKept, Mine, splits
<1>2. ASSUME NEW n \in Nat, CallSplit(g, n), pc'[g] = "split"
      PROVE  SplitOf(g)'
  BY <1>2, <1>a, <1>b, SplitCalled
<1>3. ASSUME OpenBatch(g, NewBatch(Nobody, NumMint)) \/ OpenBatch(g, NewBatch(g, NumTxs(g)))
      PROVE  Pending(g)' = 0
  <2> DEFINE s == CHOOSE r \in FreeSlots : TRUE
  <2>0. s \in Slots
    BY <1>3 DEF OpenBatch, FreeSlots
  <2>1. ASSUME NEW b, OpenBatch(g, b), b.held, b.doneChan = 0
        PROVE  Pending(g)' = 0
    <3>1. current'[g] = s /\ batch'[s] = b
      BY <1>a, <2>0, <2>1 DEF OpenBatch, At, Settled, TypeOK
    <3>2. MaxOutputSize * 0 = 0
      BY BatchAssumption
    <3> QED  BY <2>1, <3>1, <3>2 DEF Pending, Mine
  <2> QED  BY <1>3, <2>1 DEF NewBatch
<1>4. CASE Enter(g)
  <2>1. CASE SetMinting(g)
    BY <1>1, <1>a, <2>1 DEF SetMinting, Goes, TypeOK
  <2>2. CASE SetSplitting(g)
    BY <1>2, <1>a, <2>2, BatchAssumption DEF SetSplitting, Goes, TypeOK
  <2> QED  BY <1>4, <2>1, <2>2 DEF Enter
<1>5. CASE Look(g)
  <2>1. CASE TooPoor(g)
    BY <1>1, <1>a, <2>1 DEF TooPoor, Goes, TypeOK
  <2>2. CASE OpenMint(g)
    <3>1. UNCHANGED splits /\ Pending(g)' = 0 /\ pc[g] = "look" /\ pc'[g] = "spawn"
      BY <1>3, <1>a, <2>2 DEF OpenMint, Goes, TypeOK
    <3> QED  BY <1>a, <1>b, <3>1 DEF splits, SplitOf, Covered, Enough
  <2>3. CASE \E n \in 1..NumMint : SplitFirst(g, n)
    <3> PICK n \in 1..NumMint : SplitFirst(g, n)
      BY <2>3
    <3>1. n \in Nat
      BY BatchAssumption
    <3> QED  BY <1>2, <1>a, <3>1 DEF SplitFirst, Goes, TypeOK
  <2> QED  BY <1>5, <2>1, <2>2, <2>3 DEF Look
<1>6. CASE \E ok \in BOOLEAN : OwnTransfer(g, ok)
  <2> PICK ok \in BOOLEAN : OwnTransfer(g, ok)
    BY <1>6
  <2>1. /\ pc[g] = "split" /\ pc'[g] = "test" /\ sendOk'[g] = ok
        /\ need'[g] = need[g] /\ remaining'[g] = remaining[g] /\ fooled'[g] = fooled[g]
    BY <1>a DEF OwnTransfer, Goes, TypeOK
  <2>2. Pending(g) = 0 /\ Pending(g)' = 0
    BY <1>b, <2>1
  <2>3. CASE ok /\ IsLastSend(g)
    <3>1. sent'[g] = IF sent[g] + remaining[g] < need[g] THEN sent[g] + remaining[g] ELSE need[g]
      BY <1>a, <2>3 DEF OwnTransfer, Credit, TypeOK
    <3>2. CASE Enough(g)
      <4>1. remaining[g] > 0
        BY DEF OwnTransfer
      <4>2. fooled[g] \/ sent'[g] >= need[g]
        BY <1>c, <3>1, <3>2, <4>1 DEF Enough
      <4>3. Enough(g)'
        BY <2>1, <4>2 DEF Enough
      <4> QED  BY <4>3 DEF SplitOf, Covered
    <3>3. CASE sent[g] + remaining[g] >= need[g]
      <4>1. sent'[g] = need[g]
        BY <1>c, <3>1, <3>3
      <4>2. Enough(g)'
        BY <1>c, <2>1, <4>1 DEF Enough
      <4> QED  BY <4>2 DEF SplitOf, Covered
    <3> QED  BY <1>a, <1>c, <2>2, <3>2, <3>3 DEF SplitOf, Covered
  <2>4. CASE ~(ok /\ IsLastSend(g))
    <3>1. sent'[g] = sent[g]
      BY <2>4 DEF OwnTransfer
    <3> QED  BY <1>a, <2>1, <2>2, <2>4, <3>1 DEF SplitOf, Covered, Enough, IsLastSend
  <2> QED  BY <2>3, <2>4
<1>7. CASE SendAgain(g)
  <2>1. /\ pc[g] = "test" /\ pc'[g] = "split" /\ UNCHANGED <<need, remaining, sent, fooled>>
    BY <1>a, <1>7 DEF SendAgain, Goes, TypeOK
  <2> QED  BY <1>a, <1>b, <2>1 DEF SplitOf, Covered, Enough
<1>8. CASE LastSent(g)
  <2>1. /\ pc[g] = "test" /\ pc'[g] = "split" /\ UNCHANGED <<need, sent>> /\ IsLastSend(g)
        /\ fooled'[g] = (fooled[g] \/ ~sendOk[g])
    BY <1>a, <1>8 DEF LastSent, Goes, TypeOK
  <2>2. Enough(g)'
    BY <1>a, <1>c, <2>1 DEF SplitOf, Enough
  <2> QED  BY <2>1, <2>2 DEF SplitOf, Covered
<1>9. CASE OpenSplit(g)
  <2>1. /\ pc[g] = "test" /\ pc'[g] = "spawn" /\ UNCHANGED <<need, remaining, sent, fooled>>
        /\ Pending(g)' = 0
    BY <1>3, <1>a, <1>9 DEF OpenSplit, Goes, TypeOK
  <2> QED  BY <1>a, <1>b, <2>1 DEF SplitOf, Covered, Enough
<1>10. CASE SplitReturns(g)
  <2>1. /\ pc[g] = "split" /\ pc'[g] = "splitDone" /\ UNCHANGED splits /\ remaining[g] <= 0
    BY <1>a, <1>10 DEF SplitReturns, Goes, TypeOK
  <2>2. Enough(g)
    BY <1>a, <1>b, <1>c, <2>1 DEF SplitOf, Covered, Enough
  <2> QED  BY <2>1, <2>2 DEF splits, SplitOf, Covered, Enough
<1>11. CASE AfterSplit(g)
  <2>1. CallSplit(g, 0) /\ pc'[g] \in {"over", "spawn"}
    BY <1>a, <1>11 DEF AfterSplit, Goes, TypeOK
  <2>2. Pending(g)' = 0
    BY <1>3, <1>a, <1>b, <1>11 DEF AfterSplit, Goes, TypeOK
  <2> QED  BY <1>a, <2>1, <2>2, SplitCalled
<1>12. CASE Spawn(g)
  <2>1. CASE AllStarted(g)
    BY <1>1, <1>a, <2>1 DEF AllStarted, Goes, TypeOK
  <2>2. CASE StartWorker(g)
    <3> DEFINE b == Mine(g)
               c == [b EXCEPT !.toStart = @ - 1, !.first = @ + 1]
    <3>1. Sound(b) /\ b.held /\ current[g] \in Slots /\ b.toStart > 0 /\ pc[g] = "spawn"
      BY <2>2, CollectorsBatch DEF HolderOf, StartWorker
    <3>2. At(current[g], c) /\ UNCHANGED <<pc, current, splits>>
      BY <2>2 DEF StartWorker
    <3>3. Sound(c) /\ c.held = b.held /\ c.owner = b.owner /\ c.doneChan = b.doneChan
      BY <3>1, StartSound DEF Sound, Batch
    <3> HIDE DEF c
    <3>4. batch'[current[g]] = c
      BY <1>a, <3>1, <3>2, <3>3, SettledSound DEF At, TypeOK
    <3>5. BatchKept(g)
      BY <3>2, <3>3, <3>4 DEF BatchKept
    <3> QED  BY <1>a, <3>2, <3>5, SplitKept DEF VarsKept, splits
  <2> QED  BY <1>12, <2>1, <2>2 DEF Spawn
<1>13. CASE ClearFlag(g)
  BY <1>1, <1>a, <1>13 DEF ClearFlag, Goes, TypeOK
<1> QED  BY <1>4, <1>5, <1>6, <1>7, <1>8, <1>9, <1>10, <1>11, <1>12, <1>13 DEF Split, Test

\* And so do the steps of its collector.
LEMMA OwnSplitCollect ==
  ASSUME BaseInv, BaseInv', SplitInv, NEW g \in Goroutines, Collect(g) \/ TimeOut(g)
  PROVE  SplitOf(g)'
<1> DEFINE b == Mine(g)
<1>a. TypeOK /\ TypeOK' /\ SplitOf(g) /\ pc[g] = "collect"
  BY DEF BaseInv, SplitInv, Collect, TakeError, TakeDone, Finish, TimeOut
<1>b. /\ need[g] \in Nat /\ remaining[g] \in Int /\ sent[g] \in Nat /\ MaxOutputSize \in Nat
  BY <1>a, BatchAssumption DEF TypeOK
<1>c. /\ Sound(b) /\ b \in Batch /\ b.held /\ current[g] \in Slots /\ current[g] # NoSlot
      /\ b.owner \in {g, Nobody}
  BY <1>a, CollectorsBatch DEF HolderOf
<1> HIDE DEF b
<1>1. CASE TakeError(g)
  <2> DEFINE c == [b EXCEPT !.errChan = @ - 1, !.retries = @ + 1,
                            !.errCount = IF @ > b.size THEN @ ELSE @ + 1]
  <2>1. At(current[g], c) /\ UNCHANGED <<pc, current, splits>> /\ b.errChan > 0
    BY <1>1 DEF TakeError, b
  <2>2. Sound(c) /\ c.held = b.held /\ c.owner = b.owner /\ c.doneChan = b.doneChan
    BY <1>c, <2>1, ErrorSound
  <2> HIDE DEF c
  <2>3. batch'[current[g]] = c
    BY <1>a, <1>c, <2>1, <2>2, SettledSound DEF At, TypeOK
  <2>4. BatchKept(g)
    BY <2>1, <2>2, <2>3 DEF BatchKept, b
  <2> QED  BY <1>a, <2>1, <2>4, SplitKept DEF VarsKept, splits
<1>2. CASE TakeDone(g)
  <2> DEFINE c == [b EXCEPT !.doneChan = @ - 1, !.doneCount = @ + 1]
  <2>1. /\ At(current[g], c) /\ UNCHANGED <<pc, current, need, sendOk, sent, fooled>>
        /\ b.doneChan > 0
    BY <1>2 DEF TakeDone, b
  <2>2. Sound(c) /\ c.held = b.held /\ c.owner = b.owner /\ c.doneChan = b.doneChan - 1
    BY <1>c, <2>1, DoneSound
  <2> HIDE DEF c
  <2>3. batch'[current[g]] = c
    BY <1>a, <1>c, <2>1, <2>2, SettledSound DEF At, TypeOK
  <2>4. CASE b.owner = g
    <3>1. remaining'[g] = remaining[g] - MaxOutputSize
      BY <1>2, <1>a, <2>4 DEF TakeDone, Splits, TypeOK, b
    <3>2. /\ Pending(g) = MaxOutputSize * b.doneChan
          /\ Pending(g)' = MaxOutputSize * (b.doneChan - 1)
      BY <1>c, <2>1, <2>2, <2>3, <2>4 DEF Pending, Mine, b
    <3>3. \A m, d \in Int : m * (d - 1) = m * d - m /\ m * d \in Int
      OBVIOUS
    <3>4. b.doneChan \in Int
      BY <1>c DEF Batch
    <3>5. /\ MaxOutputSize * (b.doneChan - 1) = MaxOutputSize * b.doneChan - MaxOutputSize
          /\ MaxOutputSize * b.doneChan \in Int
      BY <1>b, <3>3, <3>4
    <3>6. Pending(g)' = Pending(g) - MaxOutputSize /\ Pending(g) \in Int
      BY <3>2, <3>5
    <3>7. Covered(g)'
      BY <1>a, <1>b, <2>1, <3>1, <3>6 DEF SplitOf, Covered, Enough
    <3> QED  BY <1>a, <2>1, <3>7 DEF SplitOf
  <2>5. CASE b.owner # g
    <3>1. UNCHANGED remaining /\ Pending(g) = 0 /\ Pending(g)' = 0
      BY <1>2, <1>c, <2>1, <2>2, <2>3, <2>5 DEF TakeDone, Splits, Pending, Mine, b
    <3> QED  BY <1>a, <2>1, <3>1 DEF SplitOf, Covered, Enough
  <2> QED  BY <2>4, <2>5
<1>3. CASE Finish(g)
  <2>1. /\ pc'[g] \in {"split", "over"} /\ current'[g] = NoSlot /\ UNCHANGED splits
        /\ b.doneChan = 0
    BY <1>3, <1>a DEF Finish, Leave, TypeOK, b
  <2>2. Pending(g) = 0 /\ Pending(g)' = 0
    <3>1. MaxOutputSize * 0 = 0
      BY <1>b
    <3> QED  BY <2>1, <3>1 DEF Pending, b
  <2> QED  BY <1>a, <2>1, <2>2 DEF splits, SplitOf, Covered, Enough
<1>4. CASE TimeOut(g)
  <2>1. pc'[g] = "over" /\ current'[g] = NoSlot /\ CallSplit(g, 0)
    BY <1>4, <1>a DEF TimeOut, Leave, TypeOK
  <2>2. Pending(g)' = 0
    BY <2>1 DEF Pending
  <2> QED  BY <1>a, <2>1, <2>2, SplitCalled
<1> QED  BY <1>1, <1>2, <1>3, <1>4 DEF Collect

\* A worker's success is credited before it is read.
LEMMA WorkerSplit ==
  ASSUME BaseInv, SplitInv, NEW s \in Slots, WorkerNext(s), NEW g \in Goroutines
  PROVE  SplitOf(g)'
<1> DEFINE b == batch[s]
<1>a. /\ TypeOK /\ SplitOf(g) /\ Sound(b) /\ b \in Batch
      /\ need[g] \in Nat /\ remaining[g] \in Int /\ sent[g] \in Nat /\ MaxOutputSize \in Nat
      /\ batch \in [Slots -> Batch]
  BY BatchAssumption DEF BaseInv, TypeOK, SplitInv, BatchInv, AllSound
<1>b. current[g] # NoSlot => current[g] \in Slots /\ HolderOf(g)
  BY DEF BaseInv, TypeOK, BatchInv, HoldersAlone
<1>c. ASSUME NEW c, Sound(c), c.held = b.held, At(s, c)
      PROVE  \A r \in Slots : batch[r].held => batch'[r] = IF r = s THEN c ELSE batch[r]
  BY <1>a, <1>c, SettledSound DEF At
<1>d. ASSUME NEW c, Sound(c), c.held = b.held, c.owner = b.owner, c.doneChan = b.doneChan,
             At(s, c), UNCHANGED <<pc, current, need, remaining, sendOk, sent, fooled>>
      PROVE  SplitOf(g)'
  <2>1. BatchKept(g)
    BY <1>b, <1>c, <1>d DEF BatchKept, HolderOf, Mine
  <2> QED  BY <1>a, <1>d, <2>1, SplitKept DEF VarsKept
<1>1. ASSUME NEW who, WorkerFails(s, who)
      PROVE  SplitOf(g)'
  <2>1. /\ Sound(Fails(b, who)) /\ Fails(b, who).held = b.held
        /\ Fails(b, who).owner = b.owner /\ Fails(b, who).doneChan = b.doneChan
    BY <1>1, <1>a, FailsSound DEF WorkerFails
  <2> QED  BY <1>1, <1>d, <2>1 DEF WorkerFails, splits
<1>2. ASSUME NEW who, WorkerSucceeds(s, who)
      PROVE  SplitOf(g)'
  <2> DEFINE c == Succeeds(b, who)
  <2>1. /\ Sound(c) /\ c.held = b.held /\ c.owner = b.owner /\ c.doneChan = b.doneChan + 1
    BY <1>2, <1>a, SucceedsSound DEF WorkerSucceeds
  <2>2. /\ At(s, c) /\ CreditOwner(s)
        /\ UNCHANGED <<pc, current, need, remaining, sendOk, fooled>>
    BY <1>2 DEF WorkerSucceeds
  <2> HIDE DEF c
  <2>3. current[g] # NoSlot =>
          batch[current[g]].held /\ batch'[current[g]] = IF current[g] = s THEN c ELSE Mine(g)
    BY <1>b, <1>c, <2>1, <2>2 DEF HolderOf, Mine
  <2>4. CASE b.owner # g
    <3>1. sent'[g] = sent[g]
      BY <1>a, <2>2, <2>4 DEF CreditOwner, Credit, TypeOK
    <3>2. Pending(g)' = Pending(g)
      BY <2>1, <2>2, <2>3, <2>4 DEF Pending, Mine
    <3> QED  BY <1>a, <2>2, <3>1, <3>2 DEF SplitOf, Covered, Enough, IsLastSend
  <2>5. CASE b.owner = g
    <3>1. sent'[g] = IF sent[g] + MaxOutputSize < need[g] THEN sent[g] + MaxOutputSize ELSE need[g]
      <4>1. b.owner # Nobody
        BY <2>5, BatchAssumption DEF Goroutines
      <4> QED  BY <1>a, <2>2, <2>5, <4>1 DEF CreditOwner, Credit, TypeOK
    <3>2. Enough(g) => Enough(g)'
      BY <1>a, <2>2, <3>1 DEF Enough
    <3>3. Pending(g) \in Int /\ Pending(g)' \in Int /\ Pending(g)' <= Pending(g) + MaxOutputSize
      <4>1. \A m, d \in Int : m * (d + 1) = m * d + m /\ m * d \in Int
        OBVIOUS
      <4>2. CASE current[g] = s
        <5>1. b.doneChan \in Int
          BY <1>a DEF Batch
        <5>2. /\ Pending(g) = IF current[g] # NoSlot THEN MaxOutputSize * b.doneChan ELSE 0
              /\ Pending(g)' = IF current[g] # NoSlot THEN MaxOutputSize * (b.doneChan + 1) ELSE 0
          BY <2>1, <2>2, <2>3, <2>5, <4>2 DEF Pending, Mine
        <5>3. /\ MaxOutputSize * (b.doneChan + 1) = MaxOutputSize * b.doneChan + MaxOutputSize
              /\ MaxOutputSize * b.doneChan \in Int
          BY <1>a, <4>1, <5>1
        <5> QED  BY <1>a, <5>2, <5>3
      <4>3. CASE current[g] # s
        <5>1. Pending(g)' = Pending(g)
          BY <2>2, <2>3, <4>3 DEF Pending, Mine
        <5>2. Pending(g) \in Int
          <6>1. current[g] # NoSlot => Mine(g).doneChan \in Int
            BY <1>a, <1>b DEF Mine, Batch
          <6> QED  BY <1>a, <4>1, <6>1 DEF Pending
        <5> QED  BY <1>a, <5>1, <5>2
      <4> QED  BY <4>2, <4>3
    <3>4. ASSUME sent[g] + remaining[g] >= need[g] + Pending(g), ~Enough(g)'
          PROVE  sent'[g] + remaining[g] >= need[g] + Pending(g)'
      <4>1. sent'[g] # need[g]
        BY <1>a, <2>2, <3>4 DEF Enough
      <4>2. sent'[g] = sent[g] + MaxOutputSize
        BY <3>1, <4>1
      <4> QED  BY <1>a, <3>3, <3>4, <4>2
    <3>5. Covered(g)'
      BY <1>a, <2>2, <3>2, <3>4 DEF SplitOf, Covered
    <3> QED  BY <1>a, <2>2, <3>2, <3>5 DEF SplitOf, IsLastSend
  <2> QED  BY <2>4, <2>5
<1>3. CASE AssignsErr(s)
  <2>1. PICK c : /\ At(s, c) /\ Sound(c) /\ c.held = b.held /\ c.owner = b.owner
                 /\ c.doneChan = b.doneChan
    BY <1>3, <1>a, AssignSound
  <2> QED  BY <1>3, <1>d, <2>1 DEF AssignsErr
<1> QED  BY <1>1, <1>2, <1>3 DEF WorkerNext, Work

LEMMA SplitStep == BaseInv /\ BaseInv' /\ SplitInv /\ [Next]_vars => SplitInv'
<1> SUFFICES ASSUME BaseInv, BaseInv', SplitInv, [Next]_vars, NEW h \in Goroutines
             PROVE  SplitOf(h)'
  BY DEF SplitInv
<1>a. SplitOf(h) /\ TypeOK
  BY DEF SplitInv, BaseInv
<1>1. ASSUME NEW g \in Goroutines, StartMinting(g) \/ StartSplitting(g)
      PROVE  SplitOf(h)'
  <2>1. UNCHANGED <<current, splits, batch>> /\ (pc'[h] = "begin" \/ pc'[h] = pc[h])
    BY <1>1, <1>a DEF StartMinting, StartSplitting, Goes, TypeOK
  <2> QED  BY <1>a, <2>1, SplitKept DEF VarsKept, BatchKept, Mine, splits
<1>2. ASSUME NEW g \in Goroutines, Step(g) \/ TimeOut(g)
      PROVE  SplitOf(h)'
  <2>1. CASE h # g
    BY <1>2, <2>1, OthersSplit
  <2>2. CASE h = g
    BY <1>2, <2>2, OwnSplitQuiet, OwnSplitCollect DEF Step
  <2> QED  BY <2>1, <2>2
<1>3. CASE \E s \in Slots : WorkerNext(s)
  BY <1>3, WorkerSplit
<1>4. CASE UNCHANGED vars
  BY <1>4, <1>a, SplitKept DEF VarsKept, BatchKept, Mine, splits, vars
<1> QED  BY <1>1, <1>2, <1>3, <1>4 DEF Next

\* splitPRV returns nil only when the node has accepted transactions with as
\* many outputs as it was asked for, unless it has taken a failure of its own
\* transaction for a success, whatever was retried, given up or still under way.
THEOREM SplitIsSentCorrect == Spec => []SplitIsSent
<1>1. SplitInv => SplitIsSent
  BY DEF SplitInv, SplitOf, Enough, SplitIsSent
<1> QED  BY <1>1, InitSplit, SplitStep, BaseCorrect, PTL DEF Spec

=============================================================================
