---------------------------- MODULE NFTDropProofs ----------------------------
(***************************************************************************)
(* Proofs about NFTDrop, for every set of users, requests and transactions *)
(* and every number of crashes.                                            *)
(***************************************************************************)
EXTENDS NFTDrop, FiniteSetTheorems, TLAPS

-----------------------------------------------------------------------------
(***************************************************************************)
(* Type correctness.  Record needs the transaction that transferNFT left.  *)
(***************************************************************************)

TypeInv ==
  /\ TypeOK
  /\ \A g \in Goroutines : dropPc[g] = "record" => sent[g] \in Txs
  /\ \A g \in Goroutines : dropPc[g] = "transfer" => attempt[g] < MaxAttempts
  /\ \A g \in Goroutines : Working(g) => account[Target(g)] \in Account
  /\ \A r \in Requests : reqPc[r] = "registered" => account[UserOf[r]] \in Account
  /\ \A u \in Users : db[u] \in Account => account[u] \in Account

LEMMA TargetType == \A g \in Goroutines : Target(g) \in Users
  BY DropAssumption DEF Goroutines, Target

LEMMA AccountFacts ==
  /\ NewAccount \in Account
  /\ NoAccount \notin Account
  BY DropAssumption DEF Account, NewAccount, NoAccount

LEMMA AssignFacts ==
  ASSUME TypeOK, NEW u \in Users, NEW a \in Account, Assign(u, a)
  PROVE  /\ account' \in [Users -> Account \cup {NoAccount}]
         /\ account'[u] = a
         /\ \A v \in Users \ {u} : account'[v] = account[v]
  BY DEF TypeOK, Assign

\* A Put replaces the record of u, or fails.
LEMMA PersistOther ==
  ASSUME TypeOK, NEW u \in Users, Persist(u)
  PROVE  /\ db'[u] \in {account[u], db[u]}
         /\ \A v \in Users \ {u} : db'[v] = db[v]
         /\ db' \in [Users -> Account \cup {NoAccount}]
         /\ unstored' \in SUBSET Users
  BY DEF TypeOK, Persist

LEMMA RecordFacts ==
  \A acc \in Account :
    /\ \A t \in Txs : Recorded(acc, t) \in Account
    /\ \A E \in SUBSET Txs : Ticked(acc, E) \in Account
    /\ [acc EXCEPT !.success = @ \/ acc.ongoing = {}] \in Account
    /\ [acc EXCEPT !.ongoing = {}, !.success = FALSE] \in Account
<1> SUFFICES ASSUME NEW acc \in Account
    PROVE  /\ \A t \in Txs : Recorded(acc, t) \in Account
           /\ \A E \in SUBSET Txs : Ticked(acc, E) \in Account
           /\ [acc EXCEPT !.success = @ \/ acc.ongoing = {}] \in Account
           /\ [acc EXCEPT !.ongoing = {}, !.success = FALSE] \in Account
  OBVIOUS
<1>1. ASSUME NEW t \in Txs PROVE Recorded(acc, t) \in Account
  BY DEF Recorded, Account
<1>2. ASSUME NEW E \in SUBSET Txs PROVE Ticked(acc, E) \in Account
  BY DEF Ticked, Account
<1>3. [acc EXCEPT !.success = @ \/ acc.ongoing = {}] \in Account
  BY DEF Account
<1>4. [acc EXCEPT !.ongoing = {}, !.success = FALSE] \in Account
  BY DEF Account
<1> QED  BY <1>1, <1>2, <1>3, <1>4

LEMMA TypeStep == TypeInv /\ [Next]_vars => TypeInv'
<1> SUFFICES ASSUME TypeInv, [Next]_vars PROVE TypeInv'
  OBVIOUS
<1> USE DropAssumption, TargetType, AccountFacts DEF TypeInv, TypeOK, Goroutines, Working
<1>1. ASSUME NEW r \in Requests, Arrive(r) PROVE TypeInv'
  BY <1>1 DEF Arrive, ReqStep, vars, apiVars, dropVars, nodeVars
<1>2. ASSUME NEW r \in Requests, AnswerKnown(r) PROVE TypeInv'
  BY <1>2 DEF AnswerKnown, ReqStep, Answer, vars, apiVars, dropVars, nodeVars
<1>3. ASSUME NEW r \in Requests, BeginCheck(r) PROVE TypeInv'
  BY <1>3 DEF BeginCheck, LockFree, ReqStep, vars, apiVars, dropVars, nodeVars
<1>4. ASSUME NEW r \in Requests, NEW why \in {"error", "owner"}, Refuse(r, why) PROVE TypeInv'
  BY <1>4 DEF Refuse, ReqStep, Answer, vars, apiVars, dropVars, nodeVars
<1>5. ASSUME NEW r \in Requests, Register(r) PROVE TypeInv'
  <2>1. /\ account' \in [Users -> Account \cup {NoAccount}]
        /\ account'[UserOf[r]] = NewAccount
        /\ \A v \in Users \ {UserOf[r]} : account'[v] = account[v]
    BY <1>5, AssignFacts DEF Register
  <2> QED  BY <1>5, <2>1 DEF Register, ReqStep, dropVars, nodeVars
<1>6. ASSUME NEW r \in Requests, StoreAndStart(r) PROVE TypeInv'
  <2>1. UserOf[r] \in Users /\ account[UserOf[r]] \in Account /\ Persist(UserOf[r])
    BY <1>6 DEF StoreAndStart, ReqStep
  <2>2. /\ db' \in [Users -> Account \cup {NoAccount}] /\ unstored' \in SUBSET Users
        /\ \A v \in Users : db'[v] \in Account => account[v] \in Account
    BY <2>1, PersistOther
  <2> QED  BY <1>6, <2>1, <2>2 DEF StoreAndStart, Target, ReqStep, Answer, nodeVars
<1>7. ASSUME NEW g \in Goroutines, StartAttempt(g) PROVE TypeInv'
  BY <1>7 DEF StartAttempt, DropStep, vars, apiVars, dropVars, nodeVars
<1>8. ASSUME NEW g \in Goroutines, GiveUp(g) PROVE TypeInv'
  BY <1>8 DEF GiveUp, DropStep, vars, apiVars, dropVars, nodeVars
<1>9. ASSUME NEW g \in Goroutines, NEW t \in Txs, TransferOk(g, t) PROVE TypeInv'
  BY <1>9 DEF TransferOk, DropStep, Pooled, vars, apiVars, dropVars, nodeVars
<1>10. ASSUME NEW g \in Goroutines, TransferFails(g) PROVE TypeInv'
  <2>1. /\ dropPc[g] = "transfer" /\ dropPc' = [dropPc EXCEPT ![g] = "attempt"]
        /\ attempt[g] < MaxAttempts
        /\ attempt' = [attempt EXCEPT ![g] = @ + 1]
        /\ UNCHANGED <<apiVars, account, db, unstored, sent, owner, crashes, missed>>
    BY <1>10 DEF TransferFails, DropStep
  <2> DEFINE NodeType == /\ pool \in [Txs -> {"none", "pool", "block", "gone"}]
                         /\ txUser \in [Txs -> Users \cup {NoUser}]
  <2>2. NodeType'
    <3>1. Target(g) \in Users
      OBVIOUS
    <3>2. CASE UNCHANGED nodeVars
      BY <3>2 DEF nodeVars
    <3>3. ASSUME NEW t \in Txs, Pooled(g, t) PROVE NodeType'
      BY <3>1, <3>3 DEF Pooled
    <3> QED  BY <1>10, <3>2, <3>3 DEF TransferFails
  <2> QED  BY <2>1, <2>2 DEF apiVars
<1>11. ASSUME NEW g \in Goroutines, Record(g) PROVE TypeInv'
  <2>1. PICK a \in Account : Assign(Target(g), a)
    <3>1. account[Target(g)] \in Account
      BY <1>11 DEF Record, DropStep
    <3>2. sent[g] \in Txs
      BY <1>11 DEF Record, DropStep
    <3> QED  BY <1>11, <3>1, <3>2, RecordFacts DEF Record
  <2>2. /\ account' \in [Users -> Account \cup {NoAccount}]
        /\ \A v \in Users : account[v] \in Account => account'[v] \in Account
    BY <2>1, AssignFacts
  <2> QED  BY <1>11, <2>2 DEF Record, DropStep, apiVars, dropVars, nodeVars
<1>12. ASSUME NEW g \in Goroutines, NEW E \in SUBSET Txs, Tick(g, E) PROVE TypeInv'
  <2>1. PICK a \in Account : Assign(Target(g), a)
    <3>1. account[Target(g)] \in Account
      BY <1>12 DEF Tick, DropStep
    <3> QED  BY <1>12, <3>1, RecordFacts DEF Tick
  <2>2. /\ account' \in [Users -> Account \cup {NoAccount}]
        /\ \A v \in Users : account[v] \in Account => account'[v] \in Account
    BY <2>1, AssignFacts
  <2> QED  BY <1>12, <2>2 DEF Tick, DropStep, apiVars, dropVars, nodeVars
<1>13. ASSUME NEW g \in Goroutines, StoreTick(g) PROVE TypeInv'
  <2>1. account[Target(g)] \in Account
    BY <1>13 DEF StoreTick, DropStep
  <2>2. /\ db' \in [Users -> Account \cup {NoAccount}] /\ unstored' \in SUBSET Users
        /\ \A v \in Users : db'[v] \in Account => account[v] \in Account
    BY <1>13, <2>1, PersistOther DEF StoreTick
  <2>3. PICK a \in Account : Assign(Target(g), a)
    BY <1>13, <2>1, RecordFacts DEF StoreTick
  <2>4. /\ account' \in [Users -> Account \cup {NoAccount}]
        /\ \A v \in Users : account[v] \in Account => account'[v] \in Account
    BY <2>3, AssignFacts
  <2> QED  BY <1>13, <2>1, <2>2, <2>4 DEF StoreTick, DropStep, apiVars, nodeVars
<1>14. ASSUME NEW g \in Goroutines, TimeOut(g) PROVE TypeInv'
  <2>1. PICK a \in Account : Assign(Target(g), a)
    <3>1. account[Target(g)] \in Account
      BY <1>14 DEF TimeOut, DropStep
    <3> QED  BY <1>14, <3>1, RecordFacts DEF TimeOut
  <2>2. /\ account' \in [Users -> Account \cup {NoAccount}]
        /\ \A v \in Users : account[v] \in Account => account'[v] \in Account
    BY <2>1, AssignFacts
  <2> QED  BY <1>14, <2>2 DEF TimeOut, DropStep, apiVars, dropVars, nodeVars
<1>15. ASSUME NEW g \in Goroutines, EndWatch(g) PROVE TypeInv'
  <2>1. account[Target(g)] \in Account
    BY <1>15 DEF EndWatch, DropStep
  <2>2. /\ db' \in [Users -> Account \cup {NoAccount}] /\ unstored' \in SUBSET Users
        /\ \A v \in Users : db'[v] \in Account => account[v] \in Account
    BY <1>15, <2>1, PersistOther DEF EndWatch
  <2> QED  BY <1>15, <2>1, <2>2 DEF EndWatch, DropStep, apiVars, nodeVars
<1>16. ASSUME NEW t \in Txs, NEW fate \in {"block", "gone"}, Settle(t, fate) PROVE TypeInv'
  BY <1>16 DEF Settle, vars, apiVars, dropVars, nodeVars
<1>17. ASSUME Restart PROVE TypeInv'
  <2>1. \A u \in Users : Resume(u) \in {"none", "watch", "attempt"}
                         /\ (Resume(u) # "none" => db[u] \in Account)
    BY DEF Resume, Known
  <2>2. TypeOK'
    BY <1>17, <2>1 DEF Restart, nodeVars
  <2>3. \A g \in Goroutines : dropPc'[g] # "none" =>
          /\ g \in Users /\ Target(g) = g
          /\ dropPc'[g] = Resume(g) /\ account'[g] \in Account
    BY <1>17, <2>1 DEF Restart, Target
  <2> QED  BY <1>17, <2>1, <2>2, <2>3 DEF Restart
<1>18. CASE UNCHANGED vars
  BY <1>18 DEF vars, apiVars, dropVars, nodeVars
<1> QED
  BY <1>1, <1>2, <1>3, <1>4, <1>5, <1>6, <1>7, <1>8, <1>9, <1>10, <1>11, <1>12, <1>13, <1>14, <1>15, <1>16, <1>17, <1>18
     DEF Next, ApiNext, TakeLock, Check, DropNext, Drop, Watch, Transfer, NodeNext

-----------------------------------------------------------------------------
(***************************************************************************)
(* OneDropper.  A request that is past the map test holds the lock, so the *)
(* user is still unknown when it inserts him, and an unknown user has no   *)
(* goroutine.                                                              *)
(***************************************************************************)

LockInv ==
  \A r \in Requests :
    /\ reqPc[r] = "checking" <=> userlock = r
    /\ reqPc[r] = "checking" => account[UserOf[r]] = NoAccount
    /\ reqPc[r] # "answered" => dropPc[r] = "none"

OneInv == OneDropper /\ LockInv

LEMMA OneStep == TypeInv /\ OneInv /\ [Next]_vars => OneInv'
<1> SUFFICES ASSUME TypeInv /\ OneInv, [Next]_vars PROVE OneInv'
  OBVIOUS
<1> USE DropAssumption, TargetType, AccountFacts DEF OneInv, OneDropper, LockInv, Goroutines, Working, Starting
<1>a. /\ reqPc \in [Requests -> {"idle", "waiting", "checking", "registered", "answered"}]
      /\ account \in [Users -> Account \cup {NoAccount}]
      /\ userlock \in Requests \cup {Nobody}
      /\ \A g \in Goroutines : Working(g) \/ Starting(g) => account[Target(g)] \in Account
      /\ dropPc = [g \in Goroutines |-> dropPc[g]]
  BY DEF TypeInv, TypeOK, Target
<1>b. ASSUME NEW r \in Requests, reqPc[r] = "checking",
             NEW g \in Goroutines, Working(g) \/ Starting(g)
      PROVE  Target(g) # UserOf[r]
  <2>1. account[UserOf[r]] = NoAccount
    BY <1>b
  <2>2. account[Target(g)] \in Account
    BY <1>a, <1>b
  <2>3. NoAccount \notin Account
    BY AccountFacts
  <2> QED  BY <2>1, <2>2, <2>3
<1>1. ASSUME NEW r \in Requests, Arrive(r) PROVE OneInv'
  BY <1>1 DEF Arrive, ReqStep, vars, apiVars, dropVars, nodeVars
<1>2. ASSUME NEW r \in Requests, AnswerKnown(r) PROVE OneInv'
  BY <1>2 DEF AnswerKnown, ReqStep, Answer, vars, apiVars, dropVars, nodeVars
<1>3. ASSUME NEW r \in Requests, BeginCheck(r) PROVE OneInv'
  <2>1. /\ reqPc[r] = "waiting" /\ reqPc' = [reqPc EXCEPT ![r] = "checking"]
        /\ userlock = Nobody /\ userlock' = r /\ account[UserOf[r]] = NoAccount
        /\ UNCHANGED <<account, dropPc>>
    BY <1>3 DEF BeginCheck, LockFree, ReqStep, Known, dropVars
  <2>2. OneDropper'
    <3>1. \A h \in Goroutines : (Working(h) \/ Starting(h))' => Working(h) \/ Starting(h)
      BY <1>a, <2>1
    <3> QED  BY <3>1 DEF Target
  <2>3. \A q \in Requests : q # r => reqPc'[q] = reqPc[q] /\ reqPc[q] # "checking"
    BY <2>1
  <2>4. LockInv'
    BY <1>a, <2>1, <2>3
  <2> QED  BY <2>2, <2>4
<1>4. ASSUME NEW r \in Requests, NEW why \in {"error", "owner"}, Refuse(r, why) PROVE OneInv'
  <2>1. /\ reqPc[r] = "checking" /\ reqPc' = [reqPc EXCEPT ![r] = "answered"]
        /\ userlock' = Nobody /\ UNCHANGED <<account, dropPc>>
    BY <1>4 DEF Refuse, ReqStep, dropVars
  <2>2. OneDropper'
    BY <2>1
  <2>3. ASSUME NEW q \in Requests PROVE reqPc'[q] # "checking"
    BY <1>a, <2>1
  <2>4. LockInv'
    BY <1>a, <2>1, <2>3
  <2> QED  BY <2>2, <2>4
<1>5. ASSUME NEW r \in Requests, Register(r) PROVE OneInv'
  <2>1. \A h \in Goroutines : Working(h) \/ Starting(h) => Target(h) # UserOf[r]
    BY <1>5, <1>b DEF Register, ReqStep
  <2>2. \A h \in Goroutines : Starting(h)' => Starting(h) \/ h = r
    BY <1>5, <1>a DEF Register, ReqStep
  <2>3. OneDropper'
    BY <1>5, <2>1, <2>2 DEF Register, ReqStep, dropVars, Target
  <2>4. LockInv'
    <3>1. \A q \in Requests : q # r => reqPc'[q] = reqPc[q]
      BY <1>5 DEF Register, ReqStep
    <3>2. /\ reqPc'[r] = "registered" /\ reqPc[r] = "checking"
          /\ dropPc' = dropPc /\ userlock = r /\ userlock' = Nobody
      BY <1>5, <1>a DEF Register, ReqStep, dropVars
    <3>3. \A q \in Requests : q # r => reqPc[q] # "checking"
      BY <3>2
    <3> QED  BY <3>1, <3>2, <3>3
  <2> QED  BY <2>3, <2>4
<1>6. ASSUME NEW r \in Requests, StoreAndStart(r) PROVE OneInv'
  <2>1. /\ reqPc[r] = "registered" /\ reqPc' = [reqPc EXCEPT ![r] = "answered"]
        /\ dropPc' = [dropPc EXCEPT ![r] = "attempt"]
        /\ userlock' = userlock /\ account' = account
    BY <1>6 DEF StoreAndStart, ReqStep
  <2>2. \A h \in Goroutines : (Working(h) \/ Starting(h))' => Working(h) \/ Starting(h)
    BY <2>1, <1>a
  <2>3. OneDropper'
    BY <2>2 DEF Target
  <2>4. LockInv'
    <3>1. \A q \in Requests : q # r => reqPc'[q] = reqPc[q] /\ dropPc'[q] = dropPc[q]
      BY <2>1
    <3>2. reqPc'[r] = "answered" /\ userlock # r
      BY <2>1, <1>a
    <3> QED  BY <2>1, <3>1, <3>2
  <2> QED  BY <2>3, <2>4
<1>7. ASSUME NEW g \in Goroutines, StartAttempt(g) PROVE OneInv'
  BY <1>7 DEF StartAttempt, DropStep, vars, apiVars, dropVars, nodeVars
<1>8. ASSUME NEW g \in Goroutines, GiveUp(g) PROVE OneInv'
  BY <1>8 DEF GiveUp, DropStep, vars, apiVars, dropVars, nodeVars
<1>9. ASSUME NEW g \in Goroutines, NEW t \in Txs, TransferOk(g, t) PROVE OneInv'
  BY <1>9 DEF TransferOk, DropStep, Pooled, vars, apiVars, dropVars, nodeVars
<1>10. ASSUME NEW g \in Goroutines, TransferFails(g) PROVE OneInv'
  BY <1>10 DEF TransferFails, DropStep, Pooled, vars, apiVars, dropVars, nodeVars
<1>11. ASSUME NEW g \in Goroutines, Record(g) PROVE OneInv'
  <2>1. \A v \in Users \ {Target(g)} : account'[v] = account[v]
    BY <1>11, <1>a DEF Record, Assign
  <2>2. \A r \in Requests : reqPc[r] = "checking" => UserOf[r] # Target(g)
    BY <1>11, <1>b DEF Record, DropStep
  <2>3. LockInv'
    BY <1>11, <1>a, <2>1, <2>2 DEF Record, DropStep, apiVars
  <2>4. OneDropper'
    BY <1>11, <1>a DEF Record, DropStep, apiVars, Target
  <2> QED  BY <2>3, <2>4
<1>12. ASSUME NEW g \in Goroutines, NEW E \in SUBSET Txs, Tick(g, E) PROVE OneInv'
  <2>1. \A v \in Users \ {Target(g)} : account'[v] = account[v]
    BY <1>12, <1>a DEF Tick, Assign
  <2>2. \A r \in Requests : reqPc[r] = "checking" => UserOf[r] # Target(g)
    BY <1>12, <1>b DEF Tick, DropStep
  <2>3. LockInv'
    BY <1>12, <1>a, <2>1, <2>2 DEF Tick, DropStep, apiVars
  <2>4. OneDropper'
    BY <1>12, <1>a DEF Tick, DropStep, apiVars, Target
  <2> QED  BY <2>3, <2>4
<1>13. ASSUME NEW g \in Goroutines, StoreTick(g) PROVE OneInv'
  <2>1. \A v \in Users \ {Target(g)} : account'[v] = account[v]
    BY <1>13, <1>a DEF StoreTick, Assign
  <2>2. \A r \in Requests : reqPc[r] = "checking" => UserOf[r] # Target(g)
    BY <1>13, <1>b DEF StoreTick, DropStep
  <2>3. LockInv'
    BY <1>13, <1>a, <2>1, <2>2 DEF StoreTick, DropStep, apiVars
  <2>4. OneDropper'
    BY <1>13, <1>a DEF StoreTick, DropStep, apiVars, Target
  <2> QED  BY <2>3, <2>4
<1>14. ASSUME NEW g \in Goroutines, TimeOut(g) PROVE OneInv'
  <2>1. \A v \in Users \ {Target(g)} : account'[v] = account[v]
    BY <1>14, <1>a DEF TimeOut, Assign
  <2>2. \A r \in Requests : reqPc[r] = "checking" => UserOf[r] # Target(g)
    BY <1>14, <1>b DEF TimeOut, DropStep
  <2>3. LockInv'
    BY <1>14, <1>a, <2>1, <2>2 DEF TimeOut, DropStep, apiVars
  <2>4. OneDropper'
    BY <1>14, <1>a DEF TimeOut, DropStep, apiVars, Target
  <2> QED  BY <2>3, <2>4
<1>15. ASSUME NEW g \in Goroutines, EndWatch(g) PROVE OneInv'
  BY <1>15 DEF EndWatch, DropStep, Persist, vars, apiVars, dropVars, nodeVars
<1>16. ASSUME NEW t \in Txs, NEW fate \in {"block", "gone"}, Settle(t, fate) PROVE OneInv'
  BY <1>16 DEF Settle, vars, apiVars, dropVars, nodeVars
<1>17. ASSUME Restart PROVE OneInv'
  <2>1. \A h \in Goroutines : (Working(h) \/ Starting(h))' => h \in Users /\ Target(h) = h
    BY <1>17 DEF Restart, Target
  <2>2. OneDropper'
    BY <2>1 DEF Target
  <2>3. LockInv'
    BY <1>17 DEF Restart
  <2> QED  BY <2>2, <2>3
<1>18. CASE UNCHANGED vars
  BY <1>18 DEF vars, apiVars, dropVars, nodeVars
<1> QED
  BY <1>1, <1>2, <1>3, <1>4, <1>5, <1>6, <1>7, <1>8, <1>9, <1>10, <1>11, <1>12, <1>13, <1>14, <1>15, <1>16, <1>17, <1>18
     DEF Next, ApiNext, TakeLock, Check, DropNext, Drop, Watch, Transfer, NodeNext

LEMMA InitInv == Init => TypeInv /\ OneInv
  BY DropAssumption, AccountFacts, TargetType
     DEF Init, TypeInv, TypeOK, OneInv, OneDropper, LockInv, Goroutines, Working, Starting

LEMMA BaseInv == Spec => [](TypeInv /\ OneInv)
<1>1. TypeInv /\ OneInv /\ [Next]_vars => (TypeInv /\ OneInv)'
  BY TypeStep, OneStep
<1> QED  BY <1>1, InitInv, PTL DEF Spec

\* The variables of the drop service have their types.
THEOREM TypeCorrect == Spec => []TypeOK
<1>1. TypeInv => TypeOK
  BY DEF TypeInv
<1> QED  BY <1>1, BaseInv, PTL

\* For all requests, users and crashes: no user ever has two goroutines that
\* drop to him, though APIReqDrop asks the coin service between test and insert.
THEOREM OneDropperCorrect == Spec => []OneDropper
<1>1. OneInv => OneDropper
  BY DEF OneInv
<1> QED  BY <1>1, BaseInv, PTL

-----------------------------------------------------------------------------
(***************************************************************************)
(* SuccessIsDurable.  A record is stored as a success by the last step of  *)
(* the user's goroutine, after which nobody writes it.                     *)
(***************************************************************************)

DoneInv ==
  \A u \in Users :
    /\ account[u].success =>
         /\ account[u].ongoing = {}
         /\ \A g \in Goroutines : Target(g) = u =>
              ~Starting(g) /\ (Working(g) => dropPc[g] = "ended")
    /\ db[u].success =>
         /\ account[u].success /\ db[u].ongoing = {}
         /\ \A g \in Goroutines : Target(g) = u => ~Working(g) /\ ~Starting(g)

\* What the other proofs use of TypeInv and OneInv.
LEMMA BaseFacts ==
  ASSUME TypeInv, OneInv
  PROVE  /\ dropPc \in [Goroutines -> {"none", "attempt", "transfer", "record",
                          "watch", "ticked", "ended", "gaveUp", "finished"}]
         /\ reqPc \in [Requests -> {"idle", "waiting", "checking", "registered", "answered"}]
         /\ account \in [Users -> Account \cup {NoAccount}]
         /\ db \in [Users -> Account \cup {NoAccount}]
         /\ \A g \in Goroutines : Working(g) \/ Starting(g) =>
              /\ account[Target(g)] \in Account
              /\ \A h \in Goroutines \ {g} :
                   Target(h) = Target(g) => ~Working(h) /\ ~Starting(h)
  BY DropAssumption DEF TypeInv, TypeOK, OneInv, OneDropper, Working, Starting, Target, Goroutines

LEMMA AssignOther ==
  ASSUME TypeInv, NEW u \in Users, NEW a, Assign(u, a)
  PROVE  /\ account'[u] = a
         /\ \A v \in Users \ {u} : account'[v] = account[v]
  BY DEF TypeInv, TypeOK, Assign

LEMMA DoneStep == TypeInv /\ OneInv /\ DoneInv /\ [Next]_vars => DoneInv'
<1> SUFFICES ASSUME TypeInv, OneInv, DoneInv, [Next]_vars PROVE DoneInv'
  OBVIOUS
<1> USE DropAssumption, TargetType, BaseFacts DEF DoneInv, Working, Starting
<1>1. ASSUME NEW r \in Requests, Arrive(r) PROVE DoneInv'
  BY <1>1 DEF Arrive, ReqStep, vars, apiVars, dropVars, nodeVars
<1>2. ASSUME NEW r \in Requests, AnswerKnown(r) PROVE DoneInv'
  BY <1>2 DEF AnswerKnown, ReqStep, Answer, vars, apiVars, dropVars, nodeVars
<1>3. ASSUME NEW r \in Requests, BeginCheck(r) PROVE DoneInv'
  BY <1>3 DEF BeginCheck, LockFree, ReqStep, vars, apiVars, dropVars, nodeVars
<1>4. ASSUME NEW r \in Requests, NEW why \in {"error", "owner"}, Refuse(r, why) PROVE DoneInv'
  BY <1>4 DEF Refuse, ReqStep, Answer, vars, apiVars, dropVars, nodeVars
<1>5. ASSUME NEW r \in Requests, Register(r) PROVE DoneInv'
  <2>a. UserOf[r] \in Users /\ ~NewAccount.success
    BY DEF NewAccount
  <2>b. account[UserOf[r]] = NoAccount
    BY <1>5 DEF Register, ReqStep, OneInv, LockInv
  <2>c. ~account[UserOf[r]].success
    BY <2>b DEF NoAccount
  <2>1. ~account[UserOf[r]].success /\ ~NewAccount.success /\ UserOf[r] \in Users
    BY <2>a, <2>c
  <2>2. /\ account'[UserOf[r]] = NewAccount
        /\ \A v \in Users \ {UserOf[r]} : account'[v] = account[v]
    BY <1>5, <2>1, AssignOther DEF Register
  <2>3. Target(r) = UserOf[r] /\ r \in Goroutines
    BY DEF Target, Goroutines
  <2>4. \A h \in Requests \ {r} : reqPc'[h] = reqPc[h]
    BY <1>5 DEF Register, ReqStep
  <2>5. dropPc' = dropPc /\ db' = db
    BY <1>5 DEF Register, dropVars
  <2> QED  BY <2>1, <2>2, <2>3, <2>4, <2>5
<1>6. ASSUME NEW r \in Requests, StoreAndStart(r) PROVE DoneInv'
  <2>1. /\ UserOf[r] \in Users /\ Target(r) = UserOf[r] /\ r \in Goroutines
        /\ Starting(r)
    BY <1>6 DEF StoreAndStart, ReqStep, Target, Goroutines
  <2>2. ~account[UserOf[r]].success
    BY <2>1
  <2>3. /\ ~db[UserOf[r]].success
        /\ db'[UserOf[r]] \in {account[UserOf[r]], db[UserOf[r]]}
        /\ \A v \in Users \ {UserOf[r]} : db'[v] = db[v]
    BY <1>6, <2>1, PersistOther DEF StoreAndStart, TypeInv
  <2> QED  BY <1>6, <2>1, <2>2, <2>3 DEF StoreAndStart, ReqStep
<1>7. ASSUME NEW g \in Goroutines, StartAttempt(g) PROVE DoneInv'
  BY <1>7 DEF StartAttempt, DropStep, vars, apiVars, dropVars, nodeVars
<1>8. ASSUME NEW g \in Goroutines, GiveUp(g) PROVE DoneInv'
  BY <1>8 DEF GiveUp, DropStep, vars, apiVars, dropVars, nodeVars
<1>9. ASSUME NEW g \in Goroutines, NEW t \in Txs, TransferOk(g, t) PROVE DoneInv'
  BY <1>9 DEF TransferOk, DropStep, Pooled, vars, apiVars, dropVars, nodeVars
<1>10. ASSUME NEW g \in Goroutines, TransferFails(g) PROVE DoneInv'
  BY <1>10 DEF TransferFails, DropStep, Pooled, vars, apiVars, dropVars, nodeVars
<1>11. ASSUME NEW g \in Goroutines, Record(g) PROVE DoneInv'
  <2>1. /\ Working(g) /\ dropPc[g] # "ended" /\ Target(g) \in Users
        /\ ~account[Target(g)].success /\ ~db[Target(g)].success
    BY <1>11 DEF Record, DropStep
  <2>2. /\ ~account'[Target(g)].success
        /\ \A v \in Users \ {Target(g)} : account'[v] = account[v]
    BY <1>11, <2>1, AssignOther, BaseFacts DEF Record, Recorded
  <2> QED  BY <1>11, <2>1, <2>2 DEF Record, DropStep, apiVars
<1>12. ASSUME NEW g \in Goroutines, NEW E \in SUBSET Txs, Tick(g, E) PROVE DoneInv'
  <2>1. /\ Working(g) /\ dropPc[g] # "ended" /\ Target(g) \in Users
        /\ ~account[Target(g)].success /\ ~db[Target(g)].success
    BY <1>12 DEF Tick, DropStep
  <2>2. /\ ~account'[Target(g)].success
        /\ \A v \in Users \ {Target(g)} : account'[v] = account[v]
    BY <1>12, <2>1, AssignOther, BaseFacts DEF Tick, Ticked
  <2> QED  BY <1>12, <2>1, <2>2 DEF Tick, DropStep, apiVars
<1>13. ASSUME NEW g \in Goroutines, StoreTick(g) PROVE DoneInv'
  <2>1. /\ Working(g) /\ dropPc[g] = "ticked" /\ Target(g) \in Users
        /\ ~account[Target(g)].success /\ ~db[Target(g)].success
        /\ account[Target(g)] \in Account
    BY <1>13 DEF StoreTick, DropStep
  <2>2. /\ account'[Target(g)] = [account[Target(g)] EXCEPT
             !.success = @ \/ account[Target(g)].ongoing = {}]
        /\ \A v \in Users \ {Target(g)} : account'[v] = account[v]
    BY <1>13, <2>1, AssignOther DEF StoreTick
  <2>3. /\ account'[Target(g)].success => account[Target(g)].ongoing = {}
        /\ account'[Target(g)].ongoing = account[Target(g)].ongoing
    BY <2>1, <2>2 DEF Account
  <2>4. /\ db'[Target(g)] \in {account[Target(g)], db[Target(g)]}
        /\ \A v \in Users \ {Target(g)} : db'[v] = db[v]
    BY <1>13, <2>1, PersistOther DEF StoreTick, TypeInv
  <2>5. \A h \in Goroutines \ {g} :
          Target(h) = Target(g) => ~Working(h) /\ ~Starting(h)
    BY <2>1
  <2>a. dropPc' = [dropPc EXCEPT ![g] =
                     IF account[Target(g)].ongoing = {} THEN "ended" ELSE "watch"]
    BY <1>13 DEF StoreTick, DropStep
  <2>6. /\ reqPc' = reqPc
        /\ \A h \in Goroutines \ {g} : dropPc'[h] = dropPc[h]
        /\ account[Target(g)].ongoing = {} => dropPc'[g] = "ended"
    BY <1>13, <2>a DEF StoreTick, apiVars
  <2>7. ASSUME NEW u \in Users, u # Target(g)
        PROVE  /\ account'[u] = account[u] /\ db'[u] = db[u]
               /\ \A h \in Goroutines : Target(h) = u => dropPc'[h] = dropPc[h]
    BY <2>2, <2>4, <2>6, <2>7
  <2>8. /\ ~db'[Target(g)].success
        /\ account'[Target(g)].success =>
             /\ account'[Target(g)].ongoing = {}
             /\ dropPc'[g] = "ended"
    BY <2>1, <2>2, <2>3, <2>4, <2>6
  <2>9. \A h \in Goroutines : Target(h) = Target(g) =>
           ~Starting(h)' /\ (Working(h)' => h = g)
    <3>1. ~Starting(g)
      BY <2>1 DEF OneInv, LockInv
    <3> QED  BY <2>5, <2>6, <3>1
  <2> QED  BY <2>6, <2>7, <2>8, <2>9
<1>14. ASSUME NEW g \in Goroutines, TimeOut(g) PROVE DoneInv'
  <2>1. /\ Working(g) /\ dropPc[g] # "ended" /\ Target(g) \in Users
        /\ ~account[Target(g)].success /\ ~db[Target(g)].success
    BY <1>14 DEF TimeOut, DropStep
  <2>a. account[Target(g)] \in Account
    BY <2>1
  <2>b. ~[account[Target(g)] EXCEPT !.ongoing = {}, !.success = FALSE].success
    BY <2>a DEF Account
  <2>2. /\ ~account'[Target(g)].success
        /\ \A v \in Users \ {Target(g)} : account'[v] = account[v]
    <3> DEFINE acc == [account[Target(g)] EXCEPT !.ongoing = {}, !.success = FALSE]
    <3>1. Assign(Target(g), acc)
      BY <1>14 DEF TimeOut
    <3>2. ~acc.success
      BY <2>b
    <3> HIDE DEF acc
    <3> QED  BY <2>1, <3>1, <3>2, AssignOther
  <2> QED  BY <1>14, <2>1, <2>2 DEF TimeOut, DropStep, apiVars
<1>15. ASSUME NEW g \in Goroutines, EndWatch(g) PROVE DoneInv'
  <2>1. /\ Working(g) /\ dropPc[g] = "ended" /\ Target(g) \in Users
        /\ ~db[Target(g)].success
    BY <1>15 DEF EndWatch, DropStep
  <2>2. /\ db'[Target(g)] \in {account[Target(g)], db[Target(g)]}
        /\ \A v \in Users \ {Target(g)} : db'[v] = db[v]
    BY <1>15, <2>1, PersistOther DEF EndWatch, TypeInv
  <2>3. \A h \in Goroutines \ {g} :
          Target(h) = Target(g) => ~Working(h) /\ ~Starting(h)
    BY <2>1
  <2>4. /\ reqPc' = reqPc /\ account' = account
        /\ \A h \in Goroutines \ {g} : dropPc'[h] = dropPc[h]
        /\ account[Target(g)].success => ~Working(g)'
    BY <1>15 DEF EndWatch, DropStep, apiVars
  <2> QED  BY <2>1, <2>2, <2>3, <2>4
<1>16. ASSUME NEW t \in Txs, NEW fate \in {"block", "gone"}, Settle(t, fate) PROVE DoneInv'
  BY <1>16 DEF Settle, vars, apiVars, dropVars, nodeVars
<1>17. ASSUME Restart PROVE DoneInv'
  <2>1. \A u \in Users : db[u].success => Resume(u) = "none"
    BY DEF Resume
  <2>2. \A g \in Goroutines : /\ ~Starting(g)'
                              /\ Working(g)' => Target(g) = g /\ Resume(g) # "none"
    BY <1>17 DEF Restart, Target, Goroutines
  <2> QED  BY <1>17, <2>1, <2>2 DEF Restart
<1>18. CASE UNCHANGED vars
  BY <1>18 DEF vars, apiVars, dropVars, nodeVars
<1> QED
  BY <1>1, <1>2, <1>3, <1>4, <1>5, <1>6, <1>7, <1>8, <1>9, <1>10, <1>11, <1>12, <1>13, <1>14, <1>15, <1>16, <1>17, <1>18
     DEF Next, ApiNext, TakeLock, Check, DropNext, Drop, Watch, Transfer, NodeNext

LEMMA DoneAlways == Spec => []DoneInv
<1>1. Init => DoneInv
  BY DropAssumption DEF Init, DoneInv, NoAccount, Working, Starting
<1> QED  BY <1>1, DoneStep, BaseInv, PTL DEF Spec

\* For all constants: a success that has been stored is never taken back,
\* whatever times out or crashes.
THEOREM DurableCorrect == Spec => SuccessIsDurable
<1>1. TypeInv /\ OneInv /\ DoneInv /\ [Next]_vars
        => [\A u \in Users : db[u].success => db'[u].success]_vars
  <2> SUFFICES ASSUME TypeInv, OneInv, DoneInv, Next, NEW u \in Users, db[u].success
      PROVE db'[u].success
    BY DEF vars
  <2>1. \A g \in Goroutines : Target(g) = u => ~Working(g) /\ ~Starting(g)
    BY DEF DoneInv
  <2>2. ASSUME NEW v \in Users, Persist(v), v # u PROVE db'[u] = db[u]
    BY <2>2, PersistOther DEF TypeInv
  <2>3. ASSUME NEW r \in Requests, ApiNext(r) PROVE db'[u] = db[u]
    <3>1. CASE StoreAndStart(r)
      <4>1. UserOf[r] # u /\ UserOf[r] \in Users
        BY <3>1, <2>1, DropAssumption DEF StoreAndStart, ReqStep, Starting, Target, Goroutines
      <4> QED  BY <3>1, <4>1, <2>2 DEF StoreAndStart
    <3> QED
      BY <2>3, <3>1 DEF ApiNext, Arrive, TakeLock, AnswerKnown, BeginCheck, Check,
                        Refuse, Register
  <2>4. ASSUME NEW g \in Goroutines, DropNext(g) PROVE db'[u] = db[u]
    <3>1. CASE StoreTick(g) \/ EndWatch(g)
      <4>1. Target(g) # u /\ Target(g) \in Users
        BY <3>1, <2>1, TargetType DEF StoreTick, EndWatch, DropStep, Working
      <4> QED  BY <3>1, <4>1, <2>2 DEF StoreTick, EndWatch
    <3> QED
      BY <2>4, <3>1 DEF DropNext, Drop, Watch, Transfer, StartAttempt, GiveUp, TransferOk,
                        TransferFails, Record, Tick, TimeOut
  <2>5. ASSUME NEW t \in Txs, NodeNext(t) PROVE db' = db
    BY <2>5 DEF NodeNext, Settle
  <2>6. CASE Restart
    BY <2>6 DEF Restart
  <2> QED  BY <2>3, <2>4, <2>5, <2>6 DEF Next
<1> QED  BY <1>1, DoneAlways, BaseInv, PTL DEF Spec, SuccessIsDurable

-----------------------------------------------------------------------------
(***************************************************************************)
(* NobodyForgotten.  A goroutine ends by a success or by giving up, and    *)
(* main resumes every stored user who has had neither.                     *)
(***************************************************************************)

Cares(g) == Working(g) \/ Starting(g) \/ dropPc[g] = "gaveUp"

LEMMA ForgottenStep ==
  TypeInv /\ OneInv /\ NobodyForgotten /\ [Next]_vars => NobodyForgotten'
<1> SUFFICES ASSUME TypeInv, OneInv, NobodyForgotten, [Next]_vars PROVE NobodyForgotten'
  OBVIOUS
<1> USE DropAssumption, TargetType, BaseFacts DEF Cares
<1>a. \A u \in Users : Known(account, u) /\ ~account[u].success =>
        \E g \in Goroutines : Target(g) = u /\ Cares(g)
  BY DEF NobodyForgotten, Pursued
\* A step that only u and his goroutine g see, after which he still has one.
<1>b. ASSUME NEW u \in Users, NEW g \in Goroutines, Target(g) = u,
             \A v \in Users \ {u} : account'[v] = account[v],
             \A h \in Goroutines \ {g} : Cares(h) => Cares(h)',
             Cares(g)' \/ account'[u].success
      PROVE  NobodyForgotten'
  <2>1. ASSUME NEW v \in Users, Known(account, v)', ~account'[v].success
        PROVE  \E h \in Goroutines : Target(h) = v /\ Cares(h)'
    <3>1. CASE v = u
      BY <1>b, <2>1, <3>1
    <3>2. CASE v # u
      BY <1>a, <1>b, <2>1, <3>2 DEF Known
    <3> QED  BY <3>1, <3>2
  <2> QED  BY <2>1 DEF NobodyForgotten, Pursued, Target
<1>c. ASSUME account' = account, \A g \in Goroutines : Cares(g) => Cares(g)'
      PROVE  NobodyForgotten'
  BY <1>a, <1>c DEF NobodyForgotten, Pursued, Known, Target
<1>1. ASSUME NEW r \in Requests, ApiNext(r) PROVE NobodyForgotten'
  <2>1. r \in Goroutines /\ Target(r) = UserOf[r] /\ UserOf[r] \in Users
    BY DEF Goroutines, Target
  <2>2. CASE Register(r)
    <3>1. \A v \in Users \ {UserOf[r]} : account'[v] = account[v]
      BY <2>1, <2>2, AssignOther DEF Register
    <3>2. reqPc' = [reqPc EXCEPT ![r] = "registered"] /\ dropPc' = dropPc
      BY <2>2 DEF Register, ReqStep, dropVars
    <3>3. Cares(r)' /\ \A h \in Goroutines \ {r} : Cares(h) => Cares(h)'
      BY <3>2 DEF Working, Starting
    <3> QED  BY <1>b, <2>1, <3>1, <3>3
  <2>3. CASE StoreAndStart(r)
    <3>1. /\ reqPc' = [reqPc EXCEPT ![r] = "answered"] /\ account' = account
          /\ dropPc' = [dropPc EXCEPT ![r] = "attempt"]
      BY <2>3 DEF StoreAndStart, ReqStep
    <3>2. \A h \in Goroutines : Cares(h) => Cares(h)'
      BY <2>1, <3>1 DEF Working, Starting
    <3> QED  BY <1>c, <3>1, <3>2
  <2>4. CASE Arrive(r) \/ AnswerKnown(r) \/ BeginCheck(r) \/ Refuse(r, "error") \/ Refuse(r, "owner")
    <3>1. PICK pc : reqPc' = [reqPc EXCEPT ![r] = pc]
      BY <2>4 DEF Arrive, AnswerKnown, BeginCheck, Refuse, ReqStep
    <3>2. account' = account /\ dropPc' = dropPc /\ reqPc[r] # "registered"
      BY <2>4 DEF Arrive, AnswerKnown, BeginCheck, Refuse, ReqStep, dropVars
    <3>3. \A h \in Goroutines : Cares(h) => Cares(h)'
      BY <3>1, <3>2 DEF Working, Starting
    <3> QED  BY <1>c, <3>2, <3>3
  <2> QED  BY <1>1, <2>2, <2>3, <2>4 DEF ApiNext, TakeLock, Check
\* AirdropNFT and the watcher go on, give up, or have succeeded.
<1>2. ASSUME NEW g \in Goroutines, NEW from, NEW to, DropStep(g, from, to), reqPc' = reqPc,
             \A v \in Users \ {Target(g)} : account'[v] = account[v],
             \/ to \in {"attempt", "transfer", "record", "watch", "ticked", "ended", "gaveUp"}
             \/ account'[Target(g)].success
      PROVE  NobodyForgotten'
  <2>1. dropPc' = [dropPc EXCEPT ![g] = to]
    BY <1>2 DEF DropStep
  <2>2. /\ \A h \in Goroutines \ {g} : Cares(h) => Cares(h)'
        /\ Cares(g)' \/ account'[Target(g)].success
    BY <1>2, <2>1 DEF Working, Starting
  <2> QED  BY <1>2, <1>b, <2>2
<1>3. ASSUME NEW g \in Goroutines, DropNext(g) PROVE NobodyForgotten'
  <2>1. CASE Record(g) \/ (\E E \in SUBSET Txs : Tick(g, E)) \/ StoreTick(g) \/ TimeOut(g)
    <3>1. PICK acc : Assign(Target(g), acc)
      BY <2>1 DEF Record, Tick, StoreTick, TimeOut
    <3>2. \A v \in Users \ {Target(g)} : account'[v] = account[v]
      BY <3>1, AssignOther
    <3> QED  BY <1>2, <2>1, <3>2 DEF Record, Tick, StoreTick, TimeOut, apiVars
  <2>2. CASE StartAttempt(g) \/ GiveUp(g) \/ Transfer(g)
    BY <1>2, <2>2 DEF StartAttempt, GiveUp, Transfer, TransferOk, TransferFails, apiVars
  <2>3. CASE EndWatch(g)
    BY <1>2, <2>3 DEF EndWatch, apiVars
  <2> QED  BY <1>3, <2>1, <2>2, <2>3 DEF DropNext, Drop, Watch
<1>4. ASSUME NEW t \in Txs, NodeNext(t) PROVE NobodyForgotten'
  BY <1>4, <1>c DEF NodeNext, Settle, apiVars, dropVars, Working, Starting
<1>5. CASE Restart
  <2>1. ASSUME NEW u \in Users, Known(account, u)', ~account'[u].success
        PROVE  u \in Goroutines /\ Target(u) = u /\ Cares(u)'
    <3>1. Resume(u) \in {"watch", "attempt"} /\ u \in Goroutines
      BY <1>5, <2>1 DEF Restart, Known, Resume, Goroutines
    <3>2. dropPc'[u] = Resume(u)
      BY <1>5, <3>1 DEF Restart
    <3> QED  BY <3>1, <3>2 DEF Target, Working
  <2> QED  BY <2>1 DEF NobodyForgotten, Pursued, Target
<1>6. CASE UNCHANGED vars
  BY <1>6, <1>c DEF vars, apiVars, dropVars, Working, Starting
<1> QED  BY <1>1, <1>3, <1>4, <1>5, <1>6 DEF Next

\* For all constants: a user in the map who has not got his drop has a goroutine
\* that works on it, or has used up its attempts.
THEOREM NobodyForgottenCorrect == Spec => []NobodyForgotten
<1>1. Init => NobodyForgotten
  BY DEF Init, NobodyForgotten, Known
<1> QED  BY <1>1, ForgottenStep, BaseInv, PTL DEF Spec

-----------------------------------------------------------------------------
(***************************************************************************)
(* StartedIsKept.  Only known users are stored and no record is lost, so   *)
(* that a user who was told that his drop has started is in the database,  *)
(* hence in the map, from the first Put that works.                        *)
(***************************************************************************)

StoredInv ==
  \A r \in Requests :
    answer[r] = "started" => Known(db, UserOf[r]) \/ UserOf[r] \in unstored

\* Who writes the database, and with what.
LEMMA Writes ==
  ASSUME TypeInv, Next
  PROVE  \/ UNCHANGED <<db, unstored>>
         \/ \E u \in Users : account[u] \in Account /\ Persist(u)
<1> USE DropAssumption, TargetType DEF TypeInv, Working
<1>1. ASSUME NEW r \in Requests, ApiNext(r), ~UNCHANGED <<db, unstored>>
      PROVE  \E u \in Users : account[u] \in Account /\ Persist(u)
  <2>1. StoreAndStart(r)
    BY <1>1 DEF ApiNext, Arrive, TakeLock, AnswerKnown, BeginCheck, Check, Refuse, Register
  <2>2. account[UserOf[r]] \in Account /\ UserOf[r] \in Users /\ Persist(UserOf[r])
    BY <2>1 DEF StoreAndStart, ReqStep
  <2> QED  BY <2>2
<1>2. ASSUME NEW g \in Goroutines, DropNext(g), ~UNCHANGED <<db, unstored>>
      PROVE  \E u \in Users : account[u] \in Account /\ Persist(u)
  <2>1. StoreTick(g) \/ EndWatch(g)
    BY <1>2 DEF DropNext, Drop, Watch, Transfer, StartAttempt, GiveUp, TransferOk,
                TransferFails, Record, Tick, TimeOut
  <2>2. account[Target(g)] \in Account /\ Target(g) \in Users /\ Persist(Target(g))
    BY <2>1 DEF StoreTick, EndWatch, DropStep
  <2> QED  BY <2>2
<1>3. ASSUME NEW t \in Txs, NodeNext(t) PROVE UNCHANGED <<db, unstored>>
  BY <1>3 DEF NodeNext, Settle
<1>4. CASE Restart
  BY <1>4 DEF Restart
<1> QED  BY <1>1, <1>2, <1>3, <1>4 DEF Next

\* A Put that works makes the user known, one that fails is remembered.
LEMMA PutTried ==
  ASSUME TypeInv, NEW u \in Users, account[u] \in Account, Persist(u)
  PROVE  Known(db, u)' \/ u \in unstored'
<1>1. CASE db' = [db EXCEPT ![u] = account[u]]
  BY <1>1, AccountFacts DEF Known, TypeInv, TypeOK
<1>2. CASE UNCHANGED db /\ unstored' = IF Known(db, u) THEN unstored ELSE unstored \cup {u}
  BY <1>2 DEF Known
<1> QED  BY <1>1, <1>2 DEF Persist

LEMMA TriedStays ==
  ASSUME TypeInv, Next, NEW u \in Users, Known(db, u) \/ u \in unstored
  PROVE  Known(db, u)' \/ u \in unstored'
<1>1. ASSUME NEW v \in Users, account[v] \in Account, Persist(v)
      PROVE  Known(db, u)' \/ u \in unstored'
  <2>1. CASE v = u
    BY <1>1, <2>1, PutTried
  <2>2. CASE v # u
    BY <1>1, <2>2, PersistOther DEF Known, Persist, TypeInv
  <2> QED  BY <2>1, <2>2
<1> QED  BY <1>1, Writes DEF Known

LEMMA StoredStep == TypeInv /\ StoredInv /\ [Next]_vars => StoredInv'
<1> SUFFICES ASSUME TypeInv, StoredInv, Next PROVE StoredInv'
  BY DEF vars, apiVars, StoredInv, Known
<1>1. \A r \in Requests : UserOf[r] \in Users
  BY DropAssumption
<1>2. ASSUME \A q \in Requests : answer'[q] = "started" => answer[q] = "started"
      PROVE  StoredInv'
  BY <1>1, <1>2, TriedStays DEF StoredInv, Known
<1>3. ASSUME NEW r \in Requests, NEW what, what # "started", Answer(r, what)
      PROVE  StoredInv'
  BY <1>2, <1>3 DEF Answer, TypeInv, TypeOK
<1>4. ASSUME NEW r \in Requests, StoreAndStart(r) PROVE StoredInv'
  <2>1. \A q \in Requests \ {r} : answer'[q] = answer[q]
    BY <1>4 DEF StoreAndStart, Answer, TypeInv, TypeOK
  <2>2. Known(db, UserOf[r])' \/ UserOf[r] \in unstored'
    BY <1>1, <1>4, PutTried DEF StoreAndStart, ReqStep, TypeInv
  <2> QED  BY <1>1, <2>1, <2>2, TriedStays DEF StoredInv, Known
<1>5. ASSUME NEW r \in Requests, ApiNext(r) PROVE StoredInv'
  <2>1. CASE AnswerKnown(r)
    BY <1>3, <2>1 DEF AnswerKnown
  <2>2. CASE Refuse(r, "error") \/ Refuse(r, "owner")
    BY <1>3, <2>2 DEF Refuse
  <2> QED  BY <1>2, <1>4, <1>5, <2>1, <2>2
              DEF ApiNext, Arrive, TakeLock, BeginCheck, Check, Register
<1>6. ASSUME NEW g \in Goroutines, DropNext(g) PROVE answer' = answer
  BY <1>6 DEF DropNext, Drop, Watch, Transfer, StartAttempt, GiveUp, TransferOk, TransferFails,
              Record, Tick, StoreTick, EndWatch, TimeOut, apiVars
<1>7. ASSUME NEW t \in Txs, NodeNext(t) PROVE answer' = answer
  BY <1>7 DEF NodeNext, Settle, apiVars
<1>8. Restart => answer' = answer
  BY DEF Restart
<1> QED  BY <1>2, <1>5, <1>6, <1>7, <1>8 DEF Next

\* For all constants: whoever was told that his drop has started is served or
\* pursued, through every crash and every failing Put, from the first Put of
\* his record that works.
THEOREM StartedIsKeptCorrect == Spec => []StartedIsKept
<1>1. Init => StoredInv
  BY DEF Init, StoredInv
<1>2. Init => NobodyForgotten
  BY DEF Init, NobodyForgotten, Known
<1>3. TypeInv /\ StoredInv /\ NobodyForgotten => StartedIsKept
  <2> SUFFICES ASSUME TypeInv, StoredInv, NobodyForgotten, NEW r \in Requests,
                      answer[r] = "started", UserOf[r] \notin unstored
               PROVE  /\ Known(account, UserOf[r])
                      /\ account[UserOf[r]].success \/ Pursued(UserOf[r])
    BY DEF StartedIsKept
  <2>1. UserOf[r] \in Users /\ Known(db, UserOf[r])
    BY DropAssumption DEF StoredInv
  <2>2. account[UserOf[r]] \in Account
    BY <2>1 DEF Known, TypeInv, TypeOK
  <2>3. Known(account, UserOf[r])
    BY <2>2, AccountFacts DEF Known
  <2> QED  BY <2>1, <2>3 DEF NobodyForgotten
<1> QED  BY <1>1, <1>2, <1>3, StoredStep, ForgottenStep, BaseInv, PTL DEF Spec

-----------------------------------------------------------------------------
(***************************************************************************)
(* SuccessMeansDelivered.  A watched transaction is the user's own, and    *)
(* the list is only emptied by a block, a failed check or a time-out.      *)
(***************************************************************************)

Served(u) == Delivered(u) # {} \/ Missed(u)

OwnTxs ==
  /\ \A t \in Txs : pool[t] = "none" => txUser[t] = NoUser
  /\ \A u \in Users : \A t \in account[u].ongoing \cup db[u].ongoing :
       t \in Txs /\ txUser[t] = u
  /\ \A g \in Goroutines : dropPc[g] = "record" => txUser[sent[g]] = Target(g)

DeliverInv ==
  /\ OwnTxs
  /\ \A g \in Goroutines :
       /\ dropPc[g] = "watch" => account[Target(g)].ongoing # {}
       /\ dropPc[g] = "ticked" /\ account[Target(g)].ongoing = {} => Served(Target(g))
  /\ SuccessMeansDelivered

\* What the node does: a user's transactions stay his, a block stays a block.
NodeKeeps ==
  /\ \A t \in Txs : txUser[t] \in Users => txUser'[t] = txUser[t]
  /\ \A t \in Txs : pool[t] = "block" => pool'[t] = "block"
  /\ \A t \in Txs : pool'[t] = "none" => txUser'[t] = NoUser
  /\ missed \subseteq missed'

LEMMA NodeSteps == TypeInv /\ OwnTxs /\ [Next]_vars => NodeKeeps
<1> SUFFICES ASSUME TypeInv, OwnTxs, [Next]_vars PROVE NodeKeeps
  OBVIOUS
<1> USE DropAssumption, TargetType DEF OwnTxs, TypeInv, TypeOK
<1>1. ASSUME UNCHANGED nodeVars, missed \subseteq missed'
      PROVE  NodeKeeps
  BY <1>1 DEF nodeVars, NodeKeeps
<1>2. ASSUME NEW g \in Goroutines, NEW t \in Txs, Pooled(g, t), missed' = missed
      PROVE  NodeKeeps
  BY <1>2 DEF Pooled, NodeKeeps
<1>3. ASSUME NEW t \in Txs, NodeNext(t)
      PROVE  NodeKeeps
  BY <1>3 DEF NodeNext, Settle, NodeKeeps
<1>4. ASSUME NEW r \in Requests, ApiNext(r)
      PROVE  NodeKeeps
  BY <1>1, <1>4 DEF ApiNext, Arrive, TakeLock, AnswerKnown, BeginCheck, Check, Refuse, Register,
                    StoreAndStart
<1>5. ASSUME NEW g \in Goroutines, DropNext(g)
      PROVE  NodeKeeps
  <2>1. CASE Transfer(g)
    BY <1>1, <1>2, <2>1 DEF Transfer, TransferOk, TransferFails
  <2> QED  BY <1>1, <1>5, <2>1 DEF DropNext, Drop, Watch, StartAttempt, GiveUp, Record, Tick,
                                   StoreTick, EndWatch, TimeOut
<1>6. CASE Restart \/ UNCHANGED vars
  BY <1>1, <1>6 DEF Restart, vars
<1> QED  BY <1>3, <1>4, <1>5, <1>6 DEF Next

LEMMA ServedStays ==
  ASSUME TypeInv, NodeKeeps, NEW u \in Users, Served(u)
  PROVE  Served(u)'
<1>1. CASE Delivered(u) # {}
  <2>1. PICK t \in Txs : txUser[t] = u /\ pool[t] = "block"
    BY <1>1 DEF Delivered
  <2>2. txUser'[t] = u /\ pool'[t] = "block"
    BY <2>1 DEF NodeKeeps
  <2> QED  BY <2>2 DEF Served, Delivered
<1>2. CASE Missed(u)
  BY <1>2 DEF Missed, Served, NodeKeeps, TypeInv, TypeOK
<1> QED  BY <1>1, <1>2 DEF Served

\* After a step that leaves the goroutines of u where they are, or takes them
\* out of the watch.
LEMMA DeliverOther ==
  ASSUME TypeInv, OneInv, DeliverInv, NodeKeeps
  PROVE  \A u \in Users :
           account'[u] \in {account[u], db[u]} /\ db'[u] \in {account[u], db[u]} =>
             /\ \A t \in account'[u].ongoing \cup db'[u].ongoing : t \in Txs /\ txUser'[t] = u
             /\ account'[u].success \/ db'[u].success => Served(u)'
  BY ServedStays DEF DeliverInv, OwnTxs, SuccessMeansDelivered, NodeKeeps, Served

LEMMA DeliverStep ==
  TypeInv /\ OneInv /\ DeliverInv /\ [Next]_vars => DeliverInv'
<1> SUFFICES ASSUME TypeInv, OneInv, DeliverInv, [Next]_vars PROVE DeliverInv'
  OBVIOUS
<1> USE DropAssumption, TargetType, BaseFacts
<1>a. NodeKeeps
  BY NodeSteps DEF DeliverInv
<1>b. /\ \A t \in Txs : pool'[t] = "none" => txUser'[t] = NoUser
      /\ \A u \in Users : \A t \in Txs : txUser[t] = u => txUser'[t] = u
      /\ \A u \in Users : Served(u) => Served(u)'
  BY <1>a, ServedStays DEF NodeKeeps
\* The map and the goroutines change for u and his goroutine g only.
<1>c. ASSUME NEW g \in Goroutines, dropPc[g] \in {"watch", "ticked", "record", "ended"},
             NEW to, dropPc' = [dropPc EXCEPT ![g] = to], to # "record",
             sent'[g] \in {sent[g], NoTx}, \A h \in Goroutines \ {g} : sent'[h] = sent[h],
             \A v \in Users \ {Target(g)} : account'[v] = account[v] /\ db'[v] = db[v],
             \A t \in account'[Target(g)].ongoing \cup db'[Target(g)].ongoing :
               t \in Txs /\ txUser[t] = Target(g),
             account'[Target(g)].success \/ db'[Target(g)].success => Served(Target(g))',
             to = "watch" => account'[Target(g)].ongoing # {},
             to = "ticked" /\ account'[Target(g)].ongoing = {} => Served(Target(g))'
      PROVE  DeliverInv'
  <2>1. \A h \in Goroutines \ {g} : dropPc'[h] = dropPc[h]
    BY <1>c
  <2>2. \A h \in Goroutines \ {g} : dropPc[h] \in {"watch", "ticked"} => Target(h) # Target(g)
    BY <1>c DEF Working
  <2>3. OwnTxs'
    <3>1. \A u \in Users : \A t \in account'[u].ongoing \cup db'[u].ongoing :
            t \in Txs /\ txUser'[t] = u
      <4> SUFFICES ASSUME NEW u \in Users, NEW t \in account'[u].ongoing \cup db'[u].ongoing
                   PROVE  t \in Txs /\ txUser'[t] = u
        OBVIOUS
      <4>1. t \in Txs /\ txUser[t] = u
        BY <1>c DEF DeliverInv, OwnTxs
      <4> QED  BY <4>1, <1>b
    <3>2. \A h \in Goroutines : dropPc'[h] = "record" => txUser'[sent'[h]] = Target(h)
      <4> SUFFICES ASSUME NEW h \in Goroutines, dropPc'[h] = "record"
                   PROVE  txUser'[sent'[h]] = Target(h)
        OBVIOUS
      <4>1. h # g /\ dropPc[h] = "record" /\ sent'[h] = sent[h]
        BY <1>c, <2>1
      <4>2. sent[h] \in Txs /\ txUser[sent[h]] = Target(h)
        BY <4>1 DEF DeliverInv, OwnTxs, TypeInv
      <4> QED  BY <4>1, <4>2, <1>b
    <3> QED  BY <1>b, <3>1, <3>2 DEF OwnTxs, Target
  <2>4. SuccessMeansDelivered'
    BY <1>b, <1>c DEF DeliverInv, SuccessMeansDelivered, Served
  <2>5. ASSUME NEW h \in Goroutines
        PROVE  /\ dropPc'[h] = "watch" => account'[Target(h)].ongoing # {}
               /\ dropPc'[h] = "ticked" /\ account'[Target(h)].ongoing = {} => Served(Target(h))'
    BY <1>b, <1>c, <2>1, <2>2 DEF DeliverInv
  <2> QED  BY <2>3, <2>4, <2>5 DEF DeliverInv, Target
\* Neither the map nor the watchers change.
<1>d. ASSUME account' = account, \A u \in Users : db'[u] \in {account[u], db[u]},
             \A g \in Goroutines : dropPc'[g] \in {"watch", "ticked"} => dropPc'[g] = dropPc[g],
             \A g \in Goroutines : dropPc'[g] = "record" =>
               sent'[g] \in Txs /\ txUser'[sent'[g]] = Target(g)
      PROVE  DeliverInv'
  <2>1. OwnTxs'
    BY <1>a, <1>b, <1>d, DeliverOther DEF OwnTxs, Target
  <2>2. SuccessMeansDelivered'
    BY <1>a, <1>d, DeliverOther DEF SuccessMeansDelivered, Served
  <2>3. ASSUME NEW h \in Goroutines
        PROVE  /\ dropPc'[h] = "watch" => account'[Target(h)].ongoing # {}
               /\ dropPc'[h] = "ticked" /\ account'[Target(h)].ongoing = {} => Served(Target(h))'
    BY <1>b, <1>d DEF DeliverInv
  <2> QED  BY <2>1, <2>2, <2>3 DEF DeliverInv, Target
<1>e. ASSUME UNCHANGED <<account, db, dropPc, sent>>
      PROVE  DeliverInv'
  <2>1. \A g \in Goroutines : dropPc[g] = "record" =>
          sent[g] \in Txs /\ txUser'[sent[g]] = Target(g)
    BY <1>b DEF DeliverInv, OwnTxs, TypeInv
  <2> QED  BY <1>d, <1>e, <2>1
<1>1. ASSUME NEW r \in Requests, ApiNext(r) PROVE DeliverInv'
  <2>a. r \in Goroutines /\ Target(r) = UserOf[r] /\ UserOf[r] \in Users
    BY DropAssumption DEF Goroutines, Target
  <2>b. \A g \in Goroutines : dropPc[g] = "record" =>
          sent[g] \in Txs /\ txUser'[sent[g]] = Target(g)
    BY <1>b DEF DeliverInv, OwnTxs, TypeInv
  <2>1. CASE Arrive(r) \/ TakeLock(r) \/ Refuse(r, "error") \/ Refuse(r, "owner")
    BY <1>e, <2>1 DEF Arrive, TakeLock, AnswerKnown, BeginCheck, Refuse, dropVars
  <2>2. CASE Register(r)
    <3>1. /\ account'[UserOf[r]] = NewAccount /\ UNCHANGED <<db, dropPc, sent>>
          /\ \A v \in Users \ {UserOf[r]} : account'[v] = account[v]
      BY <2>a, <2>2, AssignOther DEF Register, dropVars
    <3>2. NewAccount.ongoing = {} /\ ~NewAccount.success
      BY DEF NewAccount
    <3>3. \A g \in Goroutines : dropPc[g] \in {"watch", "ticked"} => Target(g) # UserOf[r]
      <4>1. account[UserOf[r]] = NoAccount
        BY <2>2 DEF Register, ReqStep, OneInv, LockInv
      <4> QED  BY <4>1, AccountFacts DEF Working
    <3>4. OwnTxs'
      <4>1. \A u \in Users : \A t \in account'[u].ongoing \cup db'[u].ongoing :
              t \in Txs /\ txUser'[t] = u
        BY <1>b, <3>1, <3>2 DEF DeliverInv, OwnTxs
      <4> QED  BY <1>b, <2>b, <3>1, <4>1 DEF OwnTxs, Target
    <3>5. SuccessMeansDelivered'
      BY <1>b, <3>1, <3>2 DEF DeliverInv, SuccessMeansDelivered, Served
    <3>6. ASSUME NEW h \in Goroutines
          PROVE  /\ dropPc'[h] = "watch" => account'[Target(h)].ongoing # {}
                 /\ dropPc'[h] = "ticked" /\ account'[Target(h)].ongoing = {} => Served(Target(h))'
      BY <1>b, <3>1, <3>3 DEF DeliverInv
    <3> QED  BY <3>4, <3>5, <3>6 DEF DeliverInv, Target
  <2>3. CASE StoreAndStart(r)
    <3>1. /\ account' = account /\ sent' = sent /\ Persist(UserOf[r])
          /\ dropPc' = [dropPc EXCEPT ![r] = "attempt"]
      BY <2>3 DEF StoreAndStart
    <3>2. \A u \in Users : db'[u] \in {account[u], db[u]}
      BY <2>a, <3>1, PersistOther DEF TypeInv
    <3>3. \A g \in Goroutines : dropPc'[g] \in {"watch", "ticked", "record"} => dropPc'[g] = dropPc[g]
      BY <3>1
    <3> QED  BY <1>d, <2>b, <3>1, <3>2, <3>3
  <2> QED  BY <1>1, <2>1, <2>2, <2>3 DEF ApiNext, Check
<1>2. ASSUME NEW g \in Goroutines, StartAttempt(g) \/ GiveUp(g) \/ TransferFails(g)
      PROVE  DeliverInv'
  <2>1. \A h \in Goroutines : dropPc[h] = "record" =>
          sent[h] \in Txs /\ txUser'[sent[h]] = Target(h)
    BY <1>b DEF DeliverInv, OwnTxs, TypeInv
  <2>2. PICK to \in {"transfer", "gaveUp", "attempt"} : dropPc' = [dropPc EXCEPT ![g] = to]
    BY <1>2 DEF StartAttempt, GiveUp, TransferFails, DropStep
  <2>3. UNCHANGED <<account, db, sent>>
    BY <1>2 DEF StartAttempt, GiveUp, TransferFails
  <2>4. \A h \in Goroutines : dropPc'[h] \in {"watch", "ticked", "record"} => dropPc'[h] = dropPc[h]
    BY <2>2
  <2> QED  BY <1>d, <2>1, <2>3, <2>4
<1>3. ASSUME NEW g \in Goroutines, NEW t \in Txs, TransferOk(g, t)
      PROVE  DeliverInv'
  <2>1. /\ UNCHANGED <<account, db>> /\ dropPc' = [dropPc EXCEPT ![g] = "record"]
        /\ sent' = [sent EXCEPT ![g] = t] /\ txUser' = [txUser EXCEPT ![t] = Target(g)]
    BY <1>3 DEF TransferOk, DropStep, Pooled
  <2>2. sent \in [Goroutines -> Txs \cup {NoTx}] /\ txUser \in [Txs -> Users \cup {NoUser}]
    BY DEF TypeInv, TypeOK
  <2>3. \A h \in Goroutines : dropPc'[h] = "record" =>
          sent'[h] \in Txs /\ txUser'[sent'[h]] = Target(h)
    <3> SUFFICES ASSUME NEW h \in Goroutines, dropPc'[h] = "record"
                 PROVE  sent'[h] \in Txs /\ txUser'[sent'[h]] = Target(h)
      OBVIOUS
    <3>1. CASE h = g
      BY <2>1, <2>2, <3>1
    <3>2. CASE h # g
      <4>1. dropPc[h] = "record" /\ sent'[h] = sent[h]
        BY <2>1, <2>2, <3>2
      <4>2. sent[h] \in Txs /\ txUser[sent[h]] = Target(h)
        BY <4>1 DEF DeliverInv, OwnTxs, TypeInv
      <4> QED  BY <1>b, <4>1, <4>2
    <3> QED  BY <3>1, <3>2
  <2> QED  BY <1>d, <2>1, <2>3
<1>4. ASSUME NEW g \in Goroutines, Record(g)
      PROVE  DeliverInv'
  <2> DEFINE u == Target(g)
  <2>1. /\ account'[u] = Recorded(account[u], sent[g])
        /\ \A v \in Users \ {u} : account'[v] = account[v]
    BY <1>4, AssignOther DEF Record
  <2>2. /\ dropPc[g] = "record" /\ dropPc' = [dropPc EXCEPT ![g] = "watch"]
        /\ sent' = [sent EXCEPT ![g] = NoTx] /\ db' = db
    BY <1>4 DEF Record, DropStep
  <2>3. sent[g] \in Txs /\ txUser[sent[g]] = u
    BY <2>2 DEF DeliverInv, OwnTxs, TypeInv
  <2>4. account'[u].ongoing = {sent[g]} /\ account'[u].success = account[u].success
    BY <2>1 DEF Recorded
  <2>5. account'[u].success \/ db'[u].success => Served(u)'
    BY <1>b, <2>2, <2>4 DEF DeliverInv, SuccessMeansDelivered, Served
  <2>6. sent \in [Goroutines -> Txs \cup {NoTx}]
    BY DEF TypeInv, TypeOK
  <2>7. \A t \in account'[u].ongoing \cup db'[u].ongoing : t \in Txs /\ txUser[t] = u
    BY <2>2, <2>3, <2>4 DEF DeliverInv, OwnTxs
  <2>8. sent'[g] = NoTx /\ \A h \in Goroutines \ {g} : sent'[h] = sent[h]
    BY <2>2, <2>6
  <2> HIDE DEF u
  <2> QED  BY <1>c, <2>1, <2>2, <2>4, <2>5, <2>7, <2>8 DEF u
<1>5. ASSUME NEW g \in Goroutines, NEW E \in SUBSET Txs, Tick(g, E)
      PROVE  DeliverInv'
  <2> DEFINE u == Target(g)
             acc == account[u]
  <2>1. /\ account'[u] = Ticked(acc, E)
        /\ \A v \in Users \ {u} : account'[v] = account[v]
    BY <1>5, AssignOther DEF Tick
  <2>2. /\ dropPc[g] = "watch" /\ dropPc' = [dropPc EXCEPT ![g] = "ticked"]
        /\ UNCHANGED <<sent, db, nodeVars>> /\ missed' = missed \cup E /\ E \subseteq acc.ongoing
    BY <1>5 DEF Tick, DropStep
  <2>3. /\ acc.ongoing # {}
        /\ \A t \in acc.ongoing : t \in Txs /\ txUser[t] = u
    BY <2>2 DEF DeliverInv, OwnTxs
  <2>4. /\ account'[u].ongoing = acc.ongoing \ (E \cup {t \in acc.ongoing \ E : IsInBlock(t)})
        /\ account'[u].success = acc.success
    BY <2>1 DEF Ticked
  <2>5. account'[u].ongoing = {} => Served(u)'
    <3>1. CASE E # {}
      BY <2>2, <2>3, <3>1 DEF nodeVars, Served, Missed
    <3>2. CASE E = {}
      BY <2>2, <2>3, <2>4, <3>2 DEF nodeVars, Served, Delivered, IsInBlock
    <3> QED  BY <3>1, <3>2
  <2>6. account'[u].success \/ db'[u].success => Served(u)'
    BY <1>b, <2>2, <2>4 DEF DeliverInv, SuccessMeansDelivered, Served
  <2>7. \A t \in account'[u].ongoing \cup db'[u].ongoing : t \in Txs /\ txUser[t] = u
    BY <2>2, <2>3, <2>4 DEF DeliverInv, OwnTxs
  <2>8. \A v \in Users \ {u} : account'[v] = account[v] /\ db'[v] = db[v]
    BY <2>1, <2>2
  <2> HIDE DEF u, acc
  <2> QED  BY <1>c, <2>2, <2>5, <2>6, <2>7, <2>8 DEF u
<1>6. ASSUME NEW g \in Goroutines, StoreTick(g)
      PROVE  DeliverInv'
  <2> DEFINE u == Target(g)
             acc == account[u]
             to == IF acc.ongoing = {} THEN "ended" ELSE "watch"
  <2>1. /\ account'[u] = [acc EXCEPT !.success = @ \/ acc.ongoing = {}]
        /\ \A v \in Users \ {u} : account'[v] = account[v]
    BY <1>6, AssignOther DEF StoreTick
  <2>2. /\ dropPc[g] = "ticked" /\ dropPc' = [dropPc EXCEPT ![g] = to]
        /\ sent' = sent /\ Persist(u)
    BY <1>6 DEF StoreTick, DropStep
  <2>3. db'[u] \in {acc, db[u]} /\ \A v \in Users \ {u} : db'[v] = db[v]
    BY <2>2, PersistOther DEF TypeInv
  <2>4. acc \in Account
    BY <2>2 DEF TypeInv, Working
  <2>5. /\ account'[u].ongoing = acc.ongoing
        /\ account'[u].success => acc.success \/ acc.ongoing = {}
    BY <2>1, <2>4 DEF Account
  <2>6. acc.success \/ acc.ongoing = {} => Served(u)'
    BY <1>b, <2>2 DEF DeliverInv, SuccessMeansDelivered, Served
  <2>7. account'[u].success \/ db'[u].success => Served(u)'
    BY <1>b, <2>3, <2>5, <2>6 DEF DeliverInv, SuccessMeansDelivered, Served
  <2>8. \A t \in account'[u].ongoing \cup db'[u].ongoing : t \in Txs /\ txUser[t] = u
    BY <2>3, <2>5 DEF DeliverInv, OwnTxs
  <2>9. \A v \in Users \ {u} : account'[v] = account[v] /\ db'[v] = db[v]
    BY <2>1, <2>3
  <2>10. to \in {"ended", "watch"} /\ (to = "watch" => acc.ongoing # {})
    OBVIOUS
  <2> HIDE DEF u, acc, to
  <2> QED  BY <1>c, <2>2, <2>5, <2>7, <2>8, <2>9, <2>10 DEF u
<1>7. ASSUME NEW g \in Goroutines, TimeOut(g)
      PROVE  DeliverInv'
  <2> DEFINE u == Target(g)
             acc == account[u]
  <2>1. /\ account'[u] = [acc EXCEPT !.ongoing = {}, !.success = FALSE]
        /\ \A v \in Users \ {u} : account'[v] = account[v]
    BY <1>7, AssignOther DEF TimeOut
  <2>2. /\ dropPc[g] = "watch" /\ dropPc' = [dropPc EXCEPT ![g] = "ended"]
        /\ UNCHANGED <<sent, db>>
    BY <1>7 DEF TimeOut, DropStep
  <2>3. acc \in Account
    BY <2>2 DEF TypeInv, Working
  <2>4. account'[u].ongoing = {} /\ ~account'[u].success
    BY <2>1, <2>3 DEF Account
  <2>5. db'[u].success => Served(u)'
    BY <1>b, <2>2 DEF DeliverInv, SuccessMeansDelivered, Served
  <2>6. \A t \in account'[u].ongoing \cup db'[u].ongoing : t \in Txs /\ txUser[t] = u
    BY <2>2, <2>4 DEF DeliverInv, OwnTxs
  <2>7. \A v \in Users \ {u} : account'[v] = account[v] /\ db'[v] = db[v]
    BY <2>1, <2>2
  <2> HIDE DEF u, acc
  <2> QED  BY <1>c, <2>2, <2>4, <2>5, <2>6, <2>7 DEF u
<1>8. ASSUME NEW g \in Goroutines, EndWatch(g)
      PROVE  DeliverInv'
  <2>1. PICK to \in {"finished", "attempt"} : dropPc' = [dropPc EXCEPT ![g] = to]
    BY <1>8 DEF EndWatch, DropStep
  <2>2. UNCHANGED <<account, sent>> /\ Persist(Target(g))
    BY <1>8 DEF EndWatch
  <2>3. \A v \in Users : db'[v] \in {account[v], db[v]}
    BY <2>2, PersistOther DEF TypeInv
  <2>4. \A h \in Goroutines : dropPc[h] = "record" =>
          sent[h] \in Txs /\ txUser'[sent[h]] = Target(h)
    BY <1>b DEF DeliverInv, OwnTxs, TypeInv
  <2>5. \A h \in Goroutines : dropPc'[h] \in {"watch", "ticked", "record"} => dropPc'[h] = dropPc[h]
    BY <2>1
  <2> QED  BY <1>d, <2>2, <2>3, <2>4, <2>5
<1>9. ASSUME NEW t \in Txs, NodeNext(t) PROVE DeliverInv'
  BY <1>e, <1>9 DEF NodeNext, Settle, dropVars
<1>10. CASE Restart
  <2>1. /\ account' = db /\ db' = db
        /\ dropPc' = [g \in Goroutines |-> IF g \in Users THEN Resume(g) ELSE "none"]
    BY <1>10 DEF Restart
  <2>2. \A g \in Goroutines :
          /\ dropPc'[g] \notin {"ticked", "record"}
          /\ dropPc'[g] = "watch" => Target(g) = g /\ db[g].ongoing # {}
    BY <2>1 DEF Resume, Target
  <2>3. OwnTxs'
    <3>1. \A u \in Users : \A t \in account'[u].ongoing \cup db'[u].ongoing :
            t \in Txs /\ txUser'[t] = u
      BY <1>b, <2>1 DEF DeliverInv, OwnTxs
    <3> QED  BY <1>b, <2>2, <3>1 DEF OwnTxs
  <2>4. SuccessMeansDelivered'
    BY <1>b, <2>1 DEF DeliverInv, SuccessMeansDelivered, Served
  <2>5. \A g \in Goroutines :
          /\ dropPc'[g] = "watch" => account'[Target(g)].ongoing # {}
          /\ dropPc'[g] = "ticked" /\ account'[Target(g)].ongoing = {} => Served(Target(g))'
    BY <2>1, <2>2
  <2> QED  BY <2>3, <2>4, <2>5 DEF DeliverInv, Target
<1>11. CASE UNCHANGED vars
  BY <1>e, <1>11 DEF vars, dropVars
<1> QED  BY <1>1, <1>2, <1>3, <1>4, <1>5, <1>6, <1>7, <1>8, <1>9, <1>10, <1>11
            DEF Next, DropNext, Drop, Watch, Transfer

LEMMA DeliverAlways == Spec => []DeliverInv
<1>1. Init => DeliverInv
  BY DEF Init, DeliverInv, OwnTxs, SuccessMeansDelivered, NoAccount
<1> QED  BY <1>1, DeliverStep, BaseInv, PTL DEF Spec

\* For all constants: AirdropSuccess is only said of a user for whom a
\* transaction is in a block, unless the check of one has failed.
THEOREM SuccessMeansDeliveredCorrect == Spec => []SuccessMeansDelivered
<1>1. DeliverInv => SuccessMeansDelivered
  BY DEF DeliverInv
<1> QED  BY <1>1, DeliverAlways, PTL

-----------------------------------------------------------------------------
(***************************************************************************)
(* AtMostOneNFT, as long as the process does not die, no error hides a     *)
(* transaction and a time-out means that it is gone: between two attempts  *)
(* the user has no transaction that is, or may still get, in a block.      *)
(***************************************************************************)

Calm == ~Late /\ ~LossyRPC /\ MaxCrashes = 0

Live(u) == {t \in Txs : txUser[t] = u /\ pool[t] \in {"pool", "block"}}

Sending(g) == Starting(g) \/ dropPc[g] \in {"attempt", "transfer"}

Once(u) ==
  /\ IF Known(account, u) THEN u \notin owner ELSE \A t \in Txs : txUser[t] # u
  /\ \A t1, t2 \in Live(u) : t1 = t2
  /\ \A t1, t2 \in account[u].ongoing : t1 = t2
  /\ \A g \in Goroutines : Target(g) = u =>
       /\ Sending(g) => Live(u) = {}
       /\ dropPc[g] = "record" => Live(u) \subseteq {sent[g]}
       /\ dropPc[g] \in {"watch", "ticked"} /\ account[u].ongoing # {} =>
            Live(u) \subseteq account[u].ongoing
       /\ dropPc[g] = "ended" /\ ~account[u].success => Live(u) = {}

OnceInv ==
  /\ \A t \in Txs : pool[t] # "none" => txUser[t] \in Users
  /\ \A u \in Users : Once(u)

\* A step that does not concern u, or only takes his goroutine out of the way.
LEMMA OnceFrame ==
  ASSUME NEW u \in Users, Once(u), owner' = owner, account'[u] = account[u],
         \A t \in Txs : /\ txUser'[t] = u <=> txUser[t] = u
                        /\ txUser[t] = u => pool'[t] = pool[t],
         \A g \in Goroutines : Target(g) = u =>
           /\ Sending(g)' => Sending(g)
           /\ dropPc'[g] \in {"record", "watch", "ticked", "ended"} => dropPc'[g] = dropPc[g]
           /\ sent'[g] = sent[g]
  PROVE  Once(u)'
<1>1. Live(u)' = Live(u)
  BY DEF Live
<1>2. Known(account, u)' <=> Known(account, u)
  BY DEF Known
<1> QED  BY <1>1, <1>2 DEF Once, Target

\* A step of g, which is the only goroutine of u at work.
LEMMA OnceOwn ==
  ASSUME TypeInv, OneInv, NEW g \in Goroutines, Working(g), NEW u, u = Target(g), Once(u),
         owner' = owner, reqPc' = reqPc, Known(account, u)',
         \A h \in Goroutines \ {g} : dropPc'[h] = dropPc[h],
         \A t1, t2 \in Live(u)' : t1 = t2,
         \A t1, t2 \in account'[u].ongoing : t1 = t2,
         dropPc'[g] \in {"attempt", "transfer"} => Live(u)' = {},
         dropPc'[g] = "record" => Live(u)' \subseteq {sent'[g]},
         dropPc'[g] \in {"watch", "ticked"} /\ account'[u].ongoing # {} =>
           Live(u)' \subseteq account'[u].ongoing,
         dropPc'[g] = "ended" /\ ~account'[u].success => Live(u)' = {}
  PROVE  Once(u)'
<1>1. Known(account, u) /\ u \in Users
  BY BaseFacts, AccountFacts, TargetType DEF Known
<1>2. u \notin owner'
  BY <1>1 DEF Once
<1>3. ~Starting(g)
  BY BaseFacts DEF OneInv, LockInv, Starting, Working
<1>4. \A h \in Goroutines \ {g} : Target(h) = u => ~Working(h) /\ ~Starting(h)
  BY BaseFacts
<1>5. \A h \in Goroutines : Starting(h)' <=> Starting(h)
  BY DEF Starting
<1>6. \A h \in Goroutines \ {g} : Target(h) = u =>
        dropPc'[h] \notin {"attempt", "transfer", "record", "watch", "ticked", "ended"}
  BY <1>4 DEF Working
<1> QED  BY <1>2, <1>3, <1>4, <1>5, <1>6 DEF Once, Sending, Target

LEMMA LiveKeeps ==
  ASSUME nodeVars' = nodeVars
  PROVE  \A u : Live(u)' = Live(u)
  BY DEF nodeVars, Live

LEMMA OnceStep ==
  ASSUME Calm
  PROVE  TypeInv /\ OneInv /\ DeliverInv /\ OnceInv /\ [Next]_vars => OnceInv'
<1> SUFFICES ASSUME TypeInv, OneInv, DeliverInv, OnceInv, [Next]_vars PROVE OnceInv'
  OBVIOUS
<1> USE DropAssumption, TargetType
<1>a. \A u \in Users : Once(u)
  BY DEF OnceInv
\* Steps that no user's goroutine starts a new stage in.
<1>b. ASSUME UNCHANGED <<owner, account, nodeVars, sent>>,
             \A g \in Goroutines :
               /\ Sending(g)' => Sending(g)
               /\ dropPc'[g] \in {"record", "watch", "ticked", "ended"} => dropPc'[g] = dropPc[g]
      PROVE  OnceInv'
  BY <1>a, <1>b, OnceFrame DEF OnceInv, nodeVars
\* A step of g: users other than his are not concerned.
<1>c. ASSUME NEW g \in Goroutines, owner' = owner, reqPc' = reqPc, nodeVars' = nodeVars,
             \A h \in Goroutines \ {g} : dropPc'[h] = dropPc[h] /\ sent'[h] = sent[h],
             \A v \in Users \ {Target(g)} : account'[v] = account[v],
             Once(Target(g))'
      PROVE  OnceInv'
  <2>1. ASSUME NEW v \in Users, v # Target(g) PROVE Once(v)'
    BY <1>a, <1>c, <2>1, OnceFrame DEF nodeVars, Sending, Starting
  <2> QED  BY <1>c, <2>1 DEF OnceInv, nodeVars
<1>1. ASSUME NEW r \in Requests, ApiNext(r) PROVE OnceInv'
  <2>a. r \in Goroutines /\ Target(r) = UserOf[r] /\ UserOf[r] \in Users
    BY DEF Goroutines, Target
  <2>1. CASE Register(r)
    <3> DEFINE u == UserOf[r]
    <3>1. /\ account'[u] = NewAccount /\ u \notin owner
          /\ \A v \in Users \ {u} : account'[v] = account[v]
          /\ UNCHANGED <<owner, nodeVars, sent, dropPc>>
      BY <2>a, <2>1, AssignOther DEF Register, dropVars
    <3>2. \A h \in Goroutines \ {r} : Starting(h)' <=> Starting(h)
      BY <2>1 DEF Register, ReqStep, Starting
    <3>3. account[u] = NoAccount
      BY <2>1 DEF Register, ReqStep, OneInv, LockInv
    <3>4. ASSUME NEW v \in Users, v # u PROVE Once(v)'
      BY <1>a, <2>a, <3>1, <3>2, <3>4, OnceFrame DEF nodeVars, Sending
    <3>5. Once(u)'
      <4>1. \A t \in Txs : txUser[t] # u
        BY <1>a, <2>a, <3>3 DEF Once, Known
      <4>2. Live(u)' = {}
        BY <3>1, <4>1 DEF Live, nodeVars
      <4>3. Known(account, u)'
        BY <3>1, AccountFacts DEF Known
      <4>4. NewAccount.ongoing = {}
        BY DEF NewAccount
      <4> QED  BY <3>1, <4>2, <4>3, <4>4 DEF Once
    <3> QED  BY <3>1, <3>4, <3>5 DEF OnceInv, nodeVars
  <2>2. CASE StoreAndStart(r)
    <3>1. /\ Starting(r) /\ reqPc' = [reqPc EXCEPT ![r] = "answered"]
          /\ dropPc' = [dropPc EXCEPT ![r] = "attempt"]
          /\ UNCHANGED <<owner, account, nodeVars, sent>>
      BY <2>2 DEF StoreAndStart, ReqStep, Starting
    <3> QED  BY <1>b, <3>1, BaseFacts DEF Sending, Starting
  <2>3. CASE Arrive(r) \/ TakeLock(r) \/ Refuse(r, "error") \/ Refuse(r, "owner")
    <3>1. PICK pc : reqPc' = [reqPc EXCEPT ![r] = pc] /\ pc # "registered"
      BY <2>3 DEF Arrive, TakeLock, AnswerKnown, BeginCheck, Refuse, ReqStep
    <3>2. UNCHANGED <<owner, account, nodeVars, sent, dropPc>>
      BY <2>3 DEF Arrive, TakeLock, AnswerKnown, BeginCheck, Refuse, dropVars
    <3> QED  BY <1>b, <3>1, <3>2, BaseFacts DEF Sending, Starting
  <2> QED  BY <1>1, <2>1, <2>2, <2>3 DEF ApiNext, Check
<1>2. ASSUME NEW g \in Goroutines, StartAttempt(g) \/ GiveUp(g) \/ TransferFails(g)
      PROVE  OnceInv'
  <2>1. UNCHANGED <<owner, account, nodeVars, sent, reqPc>>
    BY <1>2 DEF StartAttempt, GiveUp, TransferFails, apiVars, Calm
  <2>2. PICK to \in {"transfer", "gaveUp", "attempt"} : dropPc' = [dropPc EXCEPT ![g] = to]
    BY <1>2 DEF StartAttempt, GiveUp, TransferFails, DropStep
  <2>3. Sending(g)
    BY <1>2 DEF StartAttempt, GiveUp, TransferFails, DropStep, Sending
  <2> QED  BY <1>b, <2>1, <2>2, <2>3, BaseFacts DEF Sending, Starting
<1>3. ASSUME NEW g \in Goroutines, NEW t \in Txs, TransferOk(g, t)
      PROVE  OnceInv'
  <2> DEFINE u == Target(g)
  <2>1. /\ dropPc[g] = "transfer" /\ dropPc' = [dropPc EXCEPT ![g] = "record"]
        /\ sent' = [sent EXCEPT ![g] = t] /\ pool[t] = "none"
        /\ pool' = [pool EXCEPT ![t] = "pool"] /\ txUser' = [txUser EXCEPT ![t] = u]
        /\ UNCHANGED <<owner, account, reqPc>>
    BY <1>3 DEF TransferOk, DropStep, Pooled, apiVars
  <2>2. /\ sent \in [Goroutines -> Txs \cup {NoTx}]
        /\ pool \in [Txs -> {"none", "pool", "block", "gone"}]
        /\ txUser \in [Txs -> Users \cup {NoUser}]
        /\ txUser[t] = NoUser
    BY <2>1 DEF TypeInv, TypeOK, DeliverInv, OwnTxs
  <2>3. /\ \A x \in Txs \ {t} : txUser'[x] = txUser[x] /\ pool'[x] = pool[x]
        /\ txUser'[t] = u /\ pool'[t] = "pool" /\ sent'[g] = t
        /\ \A h \in Goroutines \ {g} : dropPc'[h] = dropPc[h] /\ sent'[h] = sent[h]
        /\ dropPc'[g] = "record"
    BY <2>1, <2>2, BaseFacts
  <2>4. ASSUME NEW v \in Users, v # u PROVE Once(v)'
    BY <1>a, <2>1, <2>2, <2>3, <2>4, OnceFrame DEF Sending, Starting
  <2>5. Once(u)'
    <3>1. Live(u) = {}
      BY <1>a, <2>1 DEF Once, Sending
    <3>2. Live(u)' = {t}
      BY <2>3, <3>1 DEF Live
    <3>3. Working(g) /\ Once(u) /\ Known(account, u)'
      BY <1>a, <2>1, BaseFacts, AccountFacts DEF Working, Known
    <3>4. \A t1, t2 \in account'[u].ongoing : t1 = t2
      BY <2>1, <3>3 DEF Once
    <3> HIDE DEF u
    <3> QED  BY <2>1, <2>3, <3>2, <3>3, <3>4, OnceOwn DEF u
  <2>6. \A x \in Txs : pool'[x] # "none" => txUser'[x] \in Users
    BY <2>3 DEF OnceInv
  <2> QED  BY <2>4, <2>5, <2>6 DEF OnceInv
<1>4. ASSUME NEW g \in Goroutines, Record(g)
      PROVE  OnceInv'
  <2> DEFINE u == Target(g)
  <2>1. /\ dropPc[g] = "record" /\ dropPc' = [dropPc EXCEPT ![g] = "watch"]
        /\ sent' = [sent EXCEPT ![g] = NoTx]
        /\ account'[u] = Recorded(account[u], sent[g])
        /\ \A v \in Users \ {u} : account'[v] = account[v]
        /\ UNCHANGED <<owner, nodeVars, reqPc>>
    BY <1>4, AssignOther DEF Record, DropStep, apiVars
  <2>2. /\ Working(g) /\ Once(u) /\ account[u] \in Account
        /\ sent \in [Goroutines -> Txs \cup {NoTx}] /\ sent[g] \in Txs
    BY <1>a, <2>1, BaseFacts DEF Working, TypeInv, TypeOK
  <2>3. account'[u].ongoing = {sent[g]} /\ Known(account, u)'
    <3>1. account'[u].ongoing = {sent[g]}
      BY <2>1 DEF Recorded
    <3>2. Recorded(account[u], sent[g]) \in Account
      BY <2>2, RecordFacts
    <3> QED  BY <2>1, <3>1, <3>2, AccountFacts DEF Known
  <2>4. Live(u)' = Live(u) /\ Live(u) \subseteq {sent[g]}
    BY <2>1, <2>2, LiveKeeps DEF Once
  <2>5. /\ \A h \in Goroutines \ {g} : dropPc'[h] = dropPc[h] /\ sent'[h] = sent[h]
        /\ dropPc'[g] = "watch"
    BY <2>1, <2>2, BaseFacts
  <2>6. Once(u)'
    <3> HIDE DEF u
    <3> QED  BY <2>1, <2>2, <2>3, <2>4, <2>5, OnceOwn DEF u
  <2> QED  BY <1>c, <2>1, <2>5, <2>6
<1>5. ASSUME NEW g \in Goroutines, NEW E \in SUBSET Txs, Tick(g, E)
      PROVE  OnceInv'
  <2> DEFINE u == Target(g)
  <2>1. /\ dropPc[g] = "watch" /\ dropPc' = [dropPc EXCEPT ![g] = "ticked"]
        /\ account'[u] = Ticked(account[u], E)
        /\ \A v \in Users \ {u} : account'[v] = account[v]
        /\ UNCHANGED <<owner, nodeVars, reqPc, sent>>
    BY <1>5, AssignOther DEF Tick, DropStep, apiVars
  <2>2. /\ Working(g) /\ Once(u) /\ account[u] \in Account
    BY <1>a, <2>1, BaseFacts DEF Working
  <2>3. account'[u].ongoing \subseteq account[u].ongoing /\ Known(account, u)'
    <3>1. account'[u].ongoing \subseteq account[u].ongoing
      BY <2>1 DEF Ticked
    <3>2. Ticked(account[u], E) \in Account
      BY <2>2, RecordFacts
    <3> QED  BY <2>1, <3>1, <3>2, AccountFacts DEF Known
  <2>4. account[u].ongoing # {} => Live(u) \subseteq account[u].ongoing
    BY <2>1, <2>2 DEF Once
  <2>5. /\ \A h \in Goroutines \ {g} : dropPc'[h] = dropPc[h] /\ sent'[h] = sent[h]
        /\ dropPc'[g] = "ticked"
    BY <2>1, BaseFacts
  <2>6. Live(u)' = Live(u)
    BY <2>1, LiveKeeps
  <2>7. \A t1, t2 \in account[u].ongoing : t1 = t2
    BY <2>2 DEF Once
  <2>8. account'[u].ongoing # {} => Live(u)' \subseteq account'[u].ongoing
    BY <2>3, <2>4, <2>6, <2>7
  <2>9. Once(u)'
    <3>1. \A t1, t2 \in Live(u)' : t1 = t2
      BY <2>2, <2>6 DEF Once
    <3> HIDE DEF u
    <3> QED  BY <2>1, <2>2, <2>3, <2>5, <2>7, <2>8, <3>1, OnceOwn DEF u
  <2> QED  BY <1>c, <2>1, <2>5, <2>9
<1>6. ASSUME NEW g \in Goroutines, StoreTick(g)
      PROVE  OnceInv'
  <2> DEFINE u == Target(g)
             acc == account[u]
             to == IF acc.ongoing = {} THEN "ended" ELSE "watch"
  <2>1. /\ dropPc[g] = "ticked" /\ dropPc' = [dropPc EXCEPT ![g] = to]
        /\ account'[u] = [acc EXCEPT !.success = @ \/ acc.ongoing = {}]
        /\ \A v \in Users \ {u} : account'[v] = account[v]
        /\ UNCHANGED <<owner, nodeVars, reqPc, sent>>
    BY <1>6, AssignOther DEF StoreTick, DropStep, apiVars
  <2>2. Working(g) /\ Once(u) /\ acc \in Account
    BY <1>a, <2>1, BaseFacts DEF Working
  <2>3. /\ account'[u].ongoing = acc.ongoing /\ Known(account, u)'
        /\ acc.ongoing = {} => account'[u].success
    <3>1. account'[u].ongoing = acc.ongoing /\ (acc.ongoing = {} => account'[u].success)
      BY <2>1, <2>2 DEF Account
    <3>2. account'[u] \in Account
      BY <2>1, <2>2, RecordFacts
    <3> QED  BY <3>1, <3>2, AccountFacts DEF Known
  <2>4. /\ \A h \in Goroutines \ {g} : dropPc'[h] = dropPc[h] /\ sent'[h] = sent[h]
        /\ dropPc'[g] = to
    BY <2>1, BaseFacts
  <2>5. Live(u)' = Live(u)
    BY <2>1, LiveKeeps
  <2>6. /\ \A t1, t2 \in acc.ongoing : t1 = t2
        /\ \A t1, t2 \in Live(u) : t1 = t2
        /\ acc.ongoing # {} => Live(u) \subseteq acc.ongoing
    BY <2>1, <2>2 DEF Once
  <2>7. Once(u)'
    <3>a. owner' = owner /\ reqPc' = reqPc
      BY <2>1
    <3>1. CASE acc.ongoing = {}
      <4>1. dropPc'[g] = "ended" /\ account'[u].success
        BY <2>3, <2>4, <3>1
      <4> HIDE DEF u, acc, to
      <4> QED  BY <2>2, <2>3, <2>4, <2>5, <2>6, <3>a, <4>1, OnceOwn DEF u
    <3>2. CASE acc.ongoing # {}
      <4>1. dropPc'[g] = "watch"
        BY <2>4, <3>2
      <4> HIDE DEF u, acc, to
      <4> QED  BY <2>2, <2>3, <2>4, <2>5, <2>6, <3>a, <3>2, <4>1, OnceOwn DEF u
    <3> QED  BY <3>1, <3>2
  <2> QED  BY <1>c, <2>1, <2>4, <2>7
<1>7. ASSUME NEW g \in Goroutines, TimeOut(g)
      PROVE  OnceInv'
  <2> DEFINE u == Target(g)
             acc == account[u]
  <2>1. /\ dropPc[g] = "watch" /\ dropPc' = [dropPc EXCEPT ![g] = "ended"]
        /\ \A t \in acc.ongoing : pool[t] = "gone"
        /\ account'[u] = [acc EXCEPT !.ongoing = {}, !.success = FALSE]
        /\ \A v \in Users \ {u} : account'[v] = account[v]
        /\ UNCHANGED <<owner, nodeVars, reqPc, sent>>
    BY <1>7, AssignOther DEF TimeOut, DropStep, apiVars, Calm
  <2>2. Working(g) /\ Once(u) /\ acc \in Account /\ acc.ongoing # {}
    BY <1>a, <2>1, BaseFacts DEF Working, DeliverInv
  <2>3. account'[u].ongoing = {} /\ Known(account, u)'
    <3>1. account'[u].ongoing = {}
      BY <2>1, <2>2 DEF Account
    <3>2. [acc EXCEPT !.ongoing = {}, !.success = FALSE] \in Account
      BY <2>2, RecordFacts
    <3> QED  BY <2>1, <3>1, <3>2, AccountFacts DEF Known
  <2>4. /\ \A h \in Goroutines \ {g} : dropPc'[h] = dropPc[h] /\ sent'[h] = sent[h]
        /\ dropPc'[g] = "ended"
    BY <2>1, BaseFacts
  <2>5. Live(u) \subseteq acc.ongoing
    BY <2>1, <2>2 DEF Once
  <2>6. Live(u)' = {}
    BY <2>1, <2>5, LiveKeeps DEF Live
  <2>7. Once(u)'
    <3> HIDE DEF u, acc
    <3> QED  BY <2>1, <2>2, <2>3, <2>4, <2>6, OnceOwn DEF u
  <2> QED  BY <1>c, <2>1, <2>4, <2>7
<1>8. ASSUME NEW g \in Goroutines, EndWatch(g)
      PROVE  OnceInv'
  <2> DEFINE u == Target(g)
             to == IF account[u].success THEN "finished" ELSE "attempt"
  <2>1. /\ dropPc[g] = "ended" /\ dropPc' = [dropPc EXCEPT ![g] = to]
        /\ UNCHANGED <<owner, account, nodeVars, reqPc, sent>>
    BY <1>8 DEF EndWatch, DropStep, apiVars
  <2>2. Working(g) /\ Once(u) /\ account[u] \in Account
    BY <1>a, <2>1, BaseFacts DEF Working
  <2>3. Known(account, u)'
    BY <2>1, <2>2, AccountFacts DEF Known
  <2>4. /\ \A h \in Goroutines \ {g} : dropPc'[h] = dropPc[h] /\ sent'[h] = sent[h]
        /\ dropPc'[g] = to
    BY <2>1, BaseFacts
  <2>5. Live(u)' = Live(u) /\ (to = "attempt" => Live(u) = {})
    BY <2>1, <2>2, LiveKeeps DEF Once
  <2>6. /\ \A t1, t2 \in account[u].ongoing : t1 = t2
        /\ \A t1, t2 \in Live(u) : t1 = t2
    BY <2>2 DEF Once
  <2>7. to \in {"finished", "attempt"}
    OBVIOUS
  <2>8. Once(u)'
    <3> HIDE DEF u, to
    <3> QED  BY <2>1, <2>2, <2>3, <2>4, <2>5, <2>6, <2>7, OnceOwn DEF u
  <2> QED  BY <1>c, <2>1, <2>4, <2>8
<1>9. ASSUME NEW t \in Txs, NEW fate \in {"block", "gone"}, Settle(t, fate)
      PROVE  OnceInv'
  <2>1. /\ pool[t] = "pool" /\ pool' = [pool EXCEPT ![t] = fate]
        /\ UNCHANGED <<account, dropPc, sent, reqPc, owner, txUser>>
    BY <1>9 DEF Settle, dropVars, apiVars
  <2>2. pool \in [Txs -> {"none", "pool", "block", "gone"}]
    BY DEF TypeInv, TypeOK
  <2>3. \A u : Live(u)' \subseteq Live(u)
    BY <2>1, <2>2 DEF Live
  <2>4. ASSUME NEW u \in Users PROVE Once(u)'
    BY <1>a, <2>1, <2>3 DEF Once, Known, Target, Sending, Starting
  <2> QED  BY <2>1, <2>2, <2>4 DEF OnceInv
<1>10. ~Restart
  BY DEF Restart, Calm, TypeInv, TypeOK
<1>11. CASE UNCHANGED vars
  BY <1>b, <1>11 DEF vars, dropVars, apiVars, Sending, Starting
<1> QED  BY <1>1, <1>2, <1>3, <1>4, <1>5, <1>6, <1>7, <1>8, <1>9, <1>10, <1>11
            DEF Next, DropNext, Drop, Watch, Transfer, NodeNext

LEMMA OnceAlways == Calm => (Spec => []OnceInv)
<1> SUFFICES ASSUME Calm PROVE Spec => []OnceInv
  OBVIOUS
<1>1. Init => OnceInv
  BY DropAssumption
     DEF Init, OnceInv, Once, Live, Known, NoAccount, Sending, Starting
<1>2. TypeInv /\ OneInv /\ DeliverInv /\ OnceInv /\ [Next]_vars => OnceInv'
  BY OnceStep
<1> QED  BY <1>1, <1>2, BaseInv, DeliverAlways, PTL DEF Spec

\* How many NFTs a user has.
LEMMA NftsFacts ==
  ASSUME OnceInv, NEW u \in Users
  PROVE  /\ Delivered(u) = {} => Nfts[u] = IF u \in owner THEN 1 ELSE 0
         /\ Delivered(u) # {} => Known(account, u) /\ u \notin owner /\ Nfts[u] = 1
<1>1. CASE Delivered(u) = {}
  BY <1>1, FS_EmptySet DEF Nfts
<1>2. CASE Delivered(u) # {}
  <2>1. PICK t \in Txs : t \in Delivered(u) /\ txUser[t] = u
    BY <1>2 DEF Delivered
  <2>2. Delivered(u) \subseteq Live(u)
    BY DEF Delivered, Live
  <2>3. Delivered(u) = {t}
    BY <2>1, <2>2 DEF OnceInv, Once
  <2>4. Known(account, u) /\ u \notin owner
    BY <2>1 DEF OnceInv, Once
  <2>5. Cardinality(Delivered(u)) = 1
    BY <2>3, FS_Singleton
  <2> QED  BY <1>2, <2>4, <2>5 DEF Nfts
<1> QED  BY <1>1, <1>2

\* For all users, requests, transactions and attempts: nobody gets a second NFT
\* from a process that does not die, sees every transaction it sends and times
\* out only on one that is gone.
THEOREM AtMostOneNFTCorrect == Calm => (Spec => []AtMostOneNFT)
<1>1. OnceInv => AtMostOneNFT
  BY NftsFacts DEF AtMostOneNFT
<1> QED  BY <1>1, OnceAlways, PTL

-----------------------------------------------------------------------------
(***************************************************************************)
(* MeetsContract.  Register accepts a user, a block that takes in his      *)
(* transaction delivers, StoreTick tells; every other step stutters.       *)
(***************************************************************************)

\* No check fails, so that no transaction is dropped unseen.
NoneMissed == missed = {}

LEMMA MissedAlways == ~FlakyCheck => (Spec => []NoneMissed)
<1> SUFFICES ASSUME ~FlakyCheck PROVE Spec => []NoneMissed
  OBVIOUS
<1>1. Init => NoneMissed
  BY DEF Init, NoneMissed
<1>2. NoneMissed /\ [Next]_vars => NoneMissed'
  <2> SUFFICES ASSUME [Next]_vars PROVE missed' = missed
    BY DEF NoneMissed
  <2>1. ASSUME NEW r \in Requests, ApiNext(r) PROVE missed' = missed
    BY <2>1 DEF ApiNext, Arrive, TakeLock, AnswerKnown, BeginCheck, Check, Refuse, Register,
                StoreAndStart
  <2>2. ASSUME NEW g \in Goroutines, DropNext(g) PROVE missed' = missed
    BY <2>2 DEF DropNext, Drop, Watch, Transfer, StartAttempt, GiveUp, TransferOk, TransferFails,
                Record, Tick, StoreTick, EndWatch, TimeOut
  <2>3. ASSUME NEW t \in Txs, NodeNext(t) PROVE missed' = missed
    BY <2>3 DEF NodeNext, Settle
  <2>4. CASE Restart \/ UNCHANGED vars
    BY <2>4 DEF Restart, vars
  <2> QED  BY <2>1, <2>2, <2>3, <2>4 DEF Next
<1> QED  BY <1>1, <1>2, PTL DEF Spec

\* What leaves the map's keys, its successes and the blocks alone is a stutter.
LEMMA Stutters ==
  ASSUME owner' = owner,
         \A u \in Users : /\ Known(account, u)' <=> Known(account, u)
                          /\ account'[u].success <=> account[u].success,
         \A t \in Txs : /\ pool'[t] = "block" <=> pool[t] = "block"
                        /\ pool[t] = "block" => txUser'[t] = txUser[t]
  PROVE  UNCHANGED <<Owed, Nfts, Told>>
<1>1. \A u \in Users : Delivered(u)' = Delivered(u)
  BY DEF Delivered
<1> QED  BY <1>1 DEF Owed, Nfts, Told

LEMMA ContractStep ==
  ASSUME Calm, ~FlakyCheck
  PROVE  /\ TypeInv /\ OneInv /\ DoneInv /\ DeliverInv
         /\ OnceInv /\ OnceInv' /\ NoneMissed
         /\ [Next]_vars
         => [Contract!Next]_<<Owed, Nfts, Told>>
<1> SUFFICES ASSUME TypeInv, OneInv, DoneInv, DeliverInv, OnceInv, OnceInv', NoneMissed,
                    [Next]_vars
             PROVE  Contract!Next \/ UNCHANGED <<Owed, Nfts, Told>>
  OBVIOUS
<1> USE DropAssumption, TargetType
<1>1. ASSUME NEW r \in Requests, ApiNext(r)
      PROVE  Contract!Next \/ UNCHANGED <<Owed, Nfts, Told>>
  <2>1. CASE Register(r)
    <3> DEFINE u == UserOf[r]
    <3>1. /\ u \in Users /\ u \notin owner /\ account[u] = NoAccount
          /\ account'[u] = NewAccount
          /\ \A v \in Users \ {u} : account'[v] = account[v]
          /\ UNCHANGED <<owner, nodeVars>>
      BY <2>1, AssignOther DEF Register, ReqStep, OneInv, LockInv
    <3>2. ~Known(account, u) /\ Known(account, u)'
      BY <3>1, AccountFacts DEF Known
    <3>3. Nfts[u] = 0
      BY <3>1, <3>2, NftsFacts
    <3>4. u \notin Owed /\ Owed' = Owed \cup {u}
      BY <3>1, <3>2 DEF Owed, Known
    <3>5. Nfts' = Nfts
      <4>1. \A v \in Users : Delivered(v)' = Delivered(v)
        BY <3>1 DEF Delivered, nodeVars
      <4> QED  BY <3>1, <4>1 DEF Nfts
    <3>6. Told' = Told
      <4>1. ~account[u].success /\ ~account'[u].success
        BY <3>1 DEF NoAccount, NewAccount
      <4> QED  BY <3>1, <4>1 DEF Told
    <3>7. Contract!Accept(u)
      BY <3>3, <3>4, <3>5, <3>6 DEF Contract!Accept
    <3> QED  BY <3>1, <3>7 DEF Contract!Next
  <2>2. CASE Arrive(r) \/ TakeLock(r) \/ Refuse(r, "error") \/ Refuse(r, "owner") \/ StoreAndStart(r)
    <3>1. UNCHANGED <<account, owner, nodeVars>>
      BY <2>2 DEF Arrive, TakeLock, AnswerKnown, BeginCheck, Refuse, StoreAndStart
    <3> QED  BY <3>1, Stutters DEF nodeVars, Known
  <2> QED  BY <1>1, <2>1, <2>2 DEF ApiNext, Check
<1>2. ASSUME NEW g \in Goroutines, StartAttempt(g) \/ GiveUp(g) \/ Transfer(g) \/ EndWatch(g)
      PROVE  UNCHANGED <<Owed, Nfts, Told>>
  <2>1. account' = account /\ owner' = owner
    BY <1>2 DEF StartAttempt, GiveUp, Transfer, TransferOk, TransferFails, EndWatch
  <2>2. \/ UNCHANGED nodeVars
        \/ \E t \in Txs : Pooled(g, t)
    BY <1>2 DEF StartAttempt, GiveUp, Transfer, TransferOk, TransferFails, EndWatch
  <2>3. ASSUME NEW t \in Txs, Pooled(g, t)
        PROVE  \A x \in Txs : /\ pool'[x] = "block" <=> pool[x] = "block"
                              /\ pool[x] = "block" => txUser'[x] = txUser[x]
    BY <2>3 DEF Pooled, TypeInv, TypeOK
  <2> QED  BY <2>1, <2>2, <2>3, Stutters DEF nodeVars, Known
\* The watcher's steps before the list is empty, and the time-out.
<1>3. ASSUME NEW g \in Goroutines, Record(g) \/ (\E E \in SUBSET Txs : Tick(g, E)) \/ TimeOut(g)
      PROVE  UNCHANGED <<Owed, Nfts, Told>>
  <2> DEFINE u == Target(g)
             acc == account[u]
  <2>1. UNCHANGED <<owner, nodeVars>> /\ Working(g) /\ dropPc[g] # "ended"
    BY <1>3 DEF Record, Tick, TimeOut, DropStep, Working
  <2>2. acc \in Account /\ ~acc.success
    BY <2>1, BaseFacts DEF DoneInv
  <2>3. PICK a \in Account : Assign(u, a) /\ ~a.success
    <3>1. CASE Record(g)
      <4>1. sent[g] \in Txs
        BY <3>1 DEF Record, DropStep, TypeInv
      <4>2. Recorded(acc, sent[g]) \in Account /\ ~Recorded(acc, sent[g]).success
        BY <2>2, <4>1, RecordFacts DEF Recorded
      <4> QED  BY <3>1, <4>2 DEF Record
    <3>2. ASSUME NEW E \in SUBSET Txs, Tick(g, E)
          PROVE  \E a \in Account : Assign(u, a) /\ ~a.success
      <4>1. Ticked(acc, E) \in Account
        BY <2>2, RecordFacts
      <4>2. ~Ticked(acc, E).success
        BY <2>2 DEF Ticked
      <4> QED  BY <3>2, <4>1, <4>2 DEF Tick
    <3>3. CASE TimeOut(g)
      <4> DEFINE a == [acc EXCEPT !.ongoing = {}, !.success = FALSE]
      <4>1. a \in Account
        BY <2>2, RecordFacts
      <4>2. ~a.success
        BY <2>2 DEF Account
      <4>3. Assign(u, a)
        BY <3>3 DEF TimeOut
      <4> HIDE DEF a
      <4> QED  BY <4>1, <4>2, <4>3
    <3> QED  BY <1>3, <3>1, <3>2, <3>3
  <2>4. account'[u] = a /\ \A v \in Users \ {u} : account'[v] = account[v]
    BY <2>3, AssignOther
  <2>5. \A v \in Users : /\ Known(account, v)' <=> Known(account, v)
                         /\ account'[v].success <=> account[v].success
    BY <2>2, <2>3, <2>4, AccountFacts DEF Known
  <2> QED  BY <2>1, <2>5, Stutters DEF nodeVars
<1>4. ASSUME NEW g \in Goroutines, StoreTick(g)
      PROVE  Contract!Next \/ UNCHANGED <<Owed, Nfts, Told>>
  <2> DEFINE u == Target(g)
             acc == account[u]
  <2>1. /\ dropPc[g] = "ticked" /\ UNCHANGED <<owner, nodeVars>>
        /\ account'[u] = [acc EXCEPT !.success = @ \/ acc.ongoing = {}]
        /\ \A v \in Users \ {u} : account'[v] = account[v]
    BY <1>4, AssignOther DEF StoreTick, DropStep
  <2>2. Working(g) /\ u \in Users /\ acc \in Account /\ ~acc.success
    BY <2>1, BaseFacts DEF Working, DoneInv
  <2>3. account'[u].success <=> acc.ongoing = {}
    BY <2>1, <2>2 DEF Account
  <2>4. Known(account, u) /\ Known(account, u)'
    <3>1. [acc EXCEPT !.success = @ \/ acc.ongoing = {}] \in Account
      BY <2>2, RecordFacts
    <3> QED  BY <2>1, <2>2, <3>1, AccountFacts DEF Known
  <2>5. CASE acc.ongoing = {}
    <3>1. Delivered(u) # {}
      BY <2>1, <2>5 DEF DeliverInv, Served, Missed, NoneMissed
    <3>2. Nfts[u] = 1 /\ u \in Owed
      BY <2>2, <2>4, <3>1, NftsFacts DEF Owed
    <3>3. Told' = Told \cup {u}
      BY <2>1, <2>2, <2>3, <2>5 DEF Told
    <3>4. Nfts' = Nfts
      <4>1. \A v \in Users : Delivered(v)' = Delivered(v)
        BY <2>1 DEF Delivered, nodeVars
      <4> QED  BY <2>1, <4>1 DEF Nfts
    <3>5. Owed' = Owed
      BY <2>1, <2>4 DEF Owed, Known
    <3>6. Contract!Tell(u)
      BY <3>2, <3>3, <3>4, <3>5 DEF Contract!Tell
    <3> QED  BY <2>2, <3>6 DEF Contract!Next
  <2>6. CASE acc.ongoing # {}
    <3>1. \A v \in Users : /\ Known(account, v)' <=> Known(account, v)
                           /\ account'[v].success <=> account[v].success
      BY <2>1, <2>2, <2>3, <2>4, <2>6 DEF Known
    <3> QED  BY <2>1, <3>1, Stutters DEF nodeVars
  <2> QED  BY <2>5, <2>6
<1>5. ASSUME NEW t \in Txs, Settle(t, "block")
      PROVE  Contract!Next
  <2> DEFINE u == txUser[t]
  <2>1. /\ pool[t] = "pool" /\ pool' = [pool EXCEPT ![t] = "block"]
        /\ UNCHANGED <<account, txUser, owner>>
        /\ pool \in [Txs -> {"none", "pool", "block", "gone"}]
    BY <1>5 DEF Settle, TypeInv, TypeOK
  <2>2. u \in Users /\ t \in Live(u) /\ t \notin Delivered(u) /\ t \in Delivered(u)'
    BY <2>1 DEF OnceInv, Live, Delivered
  <2>3. Delivered(u) = {}
    <3>1. Delivered(u) \subseteq Live(u)
      BY DEF Delivered, Live
    <3> QED  BY <2>2, <3>1 DEF OnceInv, Once
  <2>4. Known(account, u) /\ u \notin owner
    BY <2>2 DEF OnceInv, Once, Live
  <2>5. Nfts[u] = 0
    BY <2>2, <2>3, <2>4, NftsFacts
  <2>6. Nfts'[u] = 1
    <3>1. Delivered(u)' = {t}
      BY <2>1, <2>2, <2>3 DEF Delivered
    <3>2. Cardinality(Delivered(u)') = 1
      BY <3>1, FS_Singleton
    <3> QED  BY <2>1, <2>2, <2>4, <3>2 DEF Nfts
  <2>7. ASSUME NEW v \in Users, v # u PROVE Nfts'[v] = Nfts[v]
    <3>1. Delivered(v)' = Delivered(v)
      BY <2>1, <2>7 DEF Delivered
    <3> QED  BY <2>1, <3>1 DEF Nfts
  <2>8. Nfts' = [Nfts EXCEPT ![u] = 1]
    <3>1. Nfts = [v \in Users |-> Nfts[v]] /\ Nfts' = [v \in Users |-> Nfts'[v]]
      BY DEF Nfts
    <3> QED  BY <2>2, <2>6, <2>7, <3>1
  <2>9. u \in Owed /\ UNCHANGED <<Owed, Told>>
    BY <2>1, <2>2, <2>4 DEF Owed, Told, Known
  <2> QED  BY <2>2, <2>5, <2>8, <2>9 DEF Contract!Deliver, Contract!Next
<1>6. ASSUME NEW t \in Txs, Settle(t, "gone")
      PROVE  UNCHANGED <<Owed, Nfts, Told>>
  BY <1>6, Stutters DEF Settle, Known, TypeInv, TypeOK
<1>7. ~Restart
  BY DEF Restart, Calm, TypeInv, TypeOK
<1>8. CASE UNCHANGED vars
  BY <1>8, Stutters DEF vars, nodeVars, Known
<1> QED  BY <1>1, <1>2, <1>3, <1>4, <1>5, <1>6, <1>7, <1>8 DEF Next, DropNext, Drop, Watch, NodeNext

\* For all constants: the drop service implements DropContract when, besides, no
\* check of a transaction fails.
THEOREM ContractCorrect == Calm /\ ~FlakyCheck => (Spec => MeetsContract)
<1> SUFFICES ASSUME Calm, ~FlakyCheck PROVE Spec => MeetsContract
  OBVIOUS
<1>1. Init => Contract!Init
  <2> SUFFICES ASSUME Init PROVE Contract!Init
    OBVIOUS
  <2>1. \A u \in Users : Delivered(u) = {}
    BY DEF Init, Delivered
  <2>2. Nfts \in [Users -> 0..1]
    BY <2>1, FS_EmptySet DEF Nfts
  <2>3. Owed = {} /\ Told = {}
    BY DEF Init, Owed, Told, Known, NoAccount
  <2> QED  BY <2>2, <2>3 DEF Contract!Init
<1>2. /\ TypeInv /\ OneInv /\ DoneInv /\ DeliverInv
      /\ OnceInv /\ OnceInv' /\ NoneMissed
      /\ [Next]_vars
      => [Contract!Next]_<<Owed, Nfts, Told>>
  BY ContractStep
<1>3. Spec => []OnceInv
  BY OnceAlways
<1>4. Spec => []NoneMissed
  BY MissedAlways
<1> QED  BY <1>1, <1>2, <1>3, <1>4, BaseInv, DoneAlways, DeliverAlways, PTL
         DEF Spec, MeetsContract, Contract!Spec
=============================================================================
