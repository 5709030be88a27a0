--------------------------- MODULE FaucetDropProofs ---------------------------
(***************************************************************************)
(* Proofs about FaucetDrop, for any users, requests, transactions and      *)
(* crashes.                                                                *)
(***************************************************************************)
EXTENDS FaucetDrop, TLAPS

-----------------------------------------------------------------------------
(***************************************************************************)
(* Type correctness.                                                       *)
(***************************************************************************)

LEMMA PartFacts ==
  \A r \in Requests : /\ 1 \in Parts(r) /\ NumTxs[r] \in Parts(r)
                      /\ \A i \in Parts(r) : i \in Nat /\ (i # NumTxs[r] => i + 1 \in Parts(r))
                      /\ \A i \in Parts(r) : <<r, i>> \in AllTxs
<1> TAKE r \in Requests
<1>1. NumTxs[r] \in Nat \ {0}
  BY FaucetAssumption
<1>2. \A i \in Parts(r) : <<r, i>> \in AllTxs
  BY DEF AllTxs
<1> QED  BY <1>1, <1>2 DEF Parts

\* What the steps make of a record is a record.
LEMMA RecordFacts ==
  ASSUME NEW r \in Requests, NEW rec \in Record(r)
  PROVE  /\ rec.ongoing \in SUBSET Parts(r)
         /\ rec.status \in [Parts(r) -> 0..3] /\ rec.success \in BOOLEAN
         /\ \A b \in BOOLEAN : [rec EXCEPT !.success = b] \in Record(r)
         /\ \A S \in SUBSET Parts(r) : [rec EXCEPT !.ongoing = S] \in Record(r)
         /\ \A f \in [Parts(r) -> 0..3] : [rec EXCEPT !.status = f] \in Record(r)
  BY DEF Record

LEMMA NewFacts == \A r \in Requests : NewRecord(r) \in Record(r)
  BY DEF NewRecord, Record

LEMMA TickedFacts ==
  ASSUME NEW r \in Requests, NEW E, record[r] \in Record(r)
  PROVE  Ticked(r, E) \in Record(r)
<1> DEFINE seen == {i \in record[r].ongoing \ E : IsInBlock(r, i)}
           left == record[r].ongoing \ (E \cup seen)
           status == [i \in Parts(r) |-> IF i \in seen THEN 2 ELSE record[r].status[i]]
<1>1. left \in SUBSET Parts(r) /\ status \in [Parts(r) -> 0..3]
  BY RecordFacts
<1>2. Ticked(r, E) = [ongoing |-> left, status |-> status, success |-> record[r].success]
  BY DEF Ticked
<1> HIDE DEF left, status
<1> QED  BY <1>1, <1>2, RecordFacts DEF Record

LEMMA SentFacts ==
  ASSUME NEW r \in Requests, NEW ok \in BOOLEAN, record[r] \in Record(r)
  PROVE  Sent(r, ok) \in Record(r)
<1> DEFINE verdict == IF ok THEN 1 ELSE 3
           status == [record[r].status EXCEPT ![part[r]] = verdict]
           ongoing == IF IsLast(r) THEN Watched(r, status) ELSE record[r].ongoing
<1>1. verdict \in 0..3
  OBVIOUS
<1>2. status \in [Parts(r) -> 0..3]
  <2> HIDE DEF verdict
  <2> QED  BY <1>1, RecordFacts
<1>3. ongoing \in SUBSET Parts(r)
  BY RecordFacts DEF Watched
<1>4. Sent(r, ok) = [ongoing |-> ongoing, status |-> status, success |-> record[r].success]
  BY DEF Sent
<1> HIDE DEF ongoing, status
<1> QED  BY <1>2, <1>3, <1>4, RecordFacts DEF Record

LEMMA TimedOutFacts ==
  ASSUME NEW r \in Requests, record[r] \in Record(r)
  PROVE  TimedOut(r) \in Record(r)
<1> DEFINE status == [i \in Parts(r) |-> IF i \in record[r].ongoing THEN 3 ELSE record[r].status[i]]
<1>1. status \in [Parts(r) -> 0..3]
  BY RecordFacts
<1>2. TimedOut(r) = [ongoing |-> record[r].ongoing, status |-> status, success |-> FALSE]
  BY DEF TimedOut
<1> HIDE DEF status
<1> QED  BY <1>1, <1>2, RecordFacts DEF Record

\* A Put replaces the record of r, and the one of another request of the user,
\* or fails.
LEMMA PersistFacts ==
  ASSUME NEW r \in Requests, Persist(r)
  PROVE  /\ db'[r] \in {record[r], db[r]}
         /\ \A q \in Requests \ {r} : db'[q] \in {db[q], NewRecord(q)}
         /\ db = [q \in Requests |-> db[q]] => db' = [q \in Requests |-> db'[q]]
  BY DEF Persist

LEMMA TypeStep == TypeOK /\ [Next]_vars => TypeOK'
<1> SUFFICES ASSUME TypeOK, [Next]_vars PROVE TypeOK'
  OBVIOUS
<1> USE FaucetAssumption DEF TypeOK, DropStep, memVars, apiVars, dropVars
<1>1. ASSUME NEW r \in Requests, LookUp(r) PROVE TypeOK'
  BY <1>1 DEF LookUp, Told
<1>2. ASSUME NEW r \in Requests, Insert(r) PROVE TypeOK'
  BY <1>2 DEF Insert
<1>3. ASSUME NEW r \in Requests, Expire(r) PROVE TypeOK'
  BY <1>3 DEF Expire
<1>4. ASSUME NEW r \in Requests, Build(r) PROVE TypeOK'
  BY <1>4 DEF Build
<1>5. ASSUME NEW r \in Requests, NEW ok \in BOOLEAN, NEW pooled \in BOOLEAN,
             Send(r, ok, pooled)
      PROVE  TypeOK'
  BY <1>5, SentFacts, PartFacts DEF Send, Assign, IsLast
<1>6. ASSUME NEW r \in Requests, NEW E \in SUBSET Parts(r), Tick(r, E) PROVE TypeOK'
  <2>1. lost' \in SUBSET AllTxs
    BY <1>6, PartFacts DEF Tick
  <2> QED  BY <1>6, <2>1, TickedFacts DEF Tick, Assign
<1>7. ASSUME NEW r \in Requests, StoreTick(r) PROVE TypeOK'
  <2>1. db' = [q \in Requests |-> db'[q]] /\ \A q \in Requests : db'[q] \in Record(q)
    BY <1>7, PersistFacts, NewFacts DEF StoreTick
  <2> QED  BY <1>7, <2>1, RecordFacts DEF StoreTick, Assign
<1>8. ASSUME NEW r \in Requests, TimeOut(r) PROVE TypeOK'
  BY <1>8, TimedOutFacts DEF TimeOut, Assign
<1>9. ASSUME NEW r \in Requests, EndWatch(r) PROVE TypeOK'
  <2>1. db' = [q \in Requests |-> db'[q]] /\ \A q \in Requests : db'[q] \in Record(q)
    BY <1>9, PersistFacts, NewFacts DEF EndWatch
  <2> QED  BY <1>9, <2>1 DEF EndWatch
<1>10. ASSUME NEW d \in AllTxs, NEW to \in {"block", "unknown"}, Settle(d, to) PROVE TypeOK'
  BY <1>10 DEF Settle
<1>11. CASE Restart
  BY <1>11 DEF Restart
<1>12. CASE UNCHANGED vars
  BY <1>12 DEF vars
<1> QED
  BY <1>1, <1>2, <1>3, <1>4, <1>5, <1>6, <1>7, <1>8, <1>9, <1>10, <1>11, <1>12
     DEF Next, RequestNext, Transmit, Look, Watch, NodeNext

\* Every variable keeps its type: the shape of each record, in memory and in
\* the database, survives every handler, goroutine and restart.
THEOREM TypeCorrect == Spec => []TypeOK
<1>1. Init => TypeOK
  BY FaucetAssumption, NewFacts, PartFacts DEF Init, TypeOK
<1> QED  BY <1>1, TypeStep, PTL DEF Spec

-----------------------------------------------------------------------------
(***************************************************************************)
(* What is stored and what is watched.                                     *)
(***************************************************************************)

\* Before the watcher nothing is stored, and nothing is delivered.
Early(r) == dropPc[r] \in {"none", "build", "send"}
EarlyIsEmpty(r) ==
  /\ reqPc[r] \in {"idle", "insert"} => dropPc[r] = "none"
  /\ Early(r) => /\ db[r] = NewRecord(r)
                 /\ \A i \in Parts(r) : record[r].status[i] # 2
  /\ dropPc[r] = "none" => record[r] = NewRecord(r)

\* What is delivered, in memory or stored, is not on the list.
OffList(r) ==
  \A i \in Parts(r) : /\ record[r].status[i] = 2 => i \notin record[r].ongoing
                      /\ db[r].status[i] = 2 => i \notin db[r].ongoing

\* A watcher knows what is stored as delivered.
Remembered(r) ==
  Watching(r) => \A i \in Parts(r) : db[r].status[i] = 2 => record[r].status[i] = 2

\* A watcher that has given up leaves failed transactions on the list.
EndedIsFailed(r) ==
  dropPc[r] \in {"ended", "done"} => \A i \in record[r].ongoing : record[r].status[i] = 3

InBlock(r) ==
  \A i \in Parts(r) :
    record[r].status[i] = 2 \/ db[r].status[i] = 2 => fate[<<r, i>>] = "block"

\* What is stored as pending has a watcher, or had one to its end, and has left
\* its list for a block or an error only.
Stored(r) ==
  db[r].ongoing # {} =>
    /\ Watching(r) \/ dropPc[r] = "done"
    /\ \A i \in db[r].ongoing :
         i \in record[r].ongoing \/ record[r].status[i] = 2 \/ <<r, i>> \in lost

Good(r) ==
  /\ EarlyIsEmpty(r) /\ OffList(r) /\ Remembered(r) /\ EndedIsFailed(r)
  /\ InBlock(r) /\ Stored(r)

Inv == TypeOK /\ \A r \in Requests : Good(r)

\* What the records consist of.
LEMMA NewParts ==
  \A r \in Requests : /\ NewRecord(r).ongoing = {}
                      /\ \A i \in Parts(r) : NewRecord(r).status[i] = 0
  BY DEF NewRecord

LEMMA SentParts ==
  ASSUME NEW r \in Requests, NEW ok \in BOOLEAN, record[r] \in Record(r), part[r] \in Parts(r)
  PROVE  /\ \A i \in Parts(r) :
              Sent(r, ok).status[i] = 2 => i # part[r] /\ record[r].status[i] = 2
         /\ Sent(r, ok).status[part[r]] # 2
<1> DEFINE verdict == IF ok THEN 1 ELSE 3
           status == [record[r].status EXCEPT ![part[r]] = verdict]
<1>1. Sent(r, ok).status = status
  BY DEF Sent
<1>2. record[r].status \in [Parts(r) -> 0..3] /\ verdict # 2
  BY RecordFacts
<1> HIDE DEF verdict
<1> QED  BY <1>1, <1>2

LEMMA TickedParts ==
  ASSUME NEW r \in Requests, NEW E
  PROVE  /\ Ticked(r, E).ongoing \subseteq record[r].ongoing
         /\ \A i \in Parts(r) :
              \/ Ticked(r, E).status[i] = record[r].status[i]
              \/ /\ Ticked(r, E).status[i] = 2 /\ fate[<<r, i>>] = "block"
                 /\ i \notin Ticked(r, E).ongoing
  BY DEF Ticked, IsInBlock

LEMMA TimedOutParts ==
  ASSUME NEW r \in Requests
  PROVE  /\ TimedOut(r).ongoing = record[r].ongoing
         /\ \A i \in Parts(r) :
              TimedOut(r).status[i] = IF i \in record[r].ongoing THEN 3 ELSE record[r].status[i]
  BY DEF TimedOut

LEMMA SucceededParts ==
  ASSUME NEW r \in Requests, record[r] \in Record(r), NEW b
  PROVE  /\ [record[r] EXCEPT !.success = b].ongoing = record[r].ongoing
         /\ [record[r] EXCEPT !.success = b].status = record[r].status
  BY DEF Record

LEMMA AssignFacts ==
  ASSUME TypeOK, NEW r \in Requests, NEW rec, Assign(r, rec)
  PROVE  record'[r] = rec /\ \A q \in Requests \ {r} : record'[q] = record[q]
  BY DEF TypeOK, Assign

LEMMA DropFacts ==
  ASSUME TypeOK, NEW r \in Requests, NEW from, NEW to, DropStep(r, from, to)
  PROVE  /\ dropPc[r] = from /\ dropPc'[r] = to
         /\ \A q \in Requests \ {r} : dropPc'[q] = dropPc[q]
  BY DEF TypeOK, DropStep

\* A step of another request's drop, which may replace this one's record.
LEMMA Elsewhere ==
  ASSUME NEW q \in Requests, Good(q), record'[q] = record[q], dropPc'[q] = dropPc[q],
         reqPc'[q] = reqPc[q], db'[q] \in {db[q], NewRecord(q)},
         \A i \in Parts(q) : fate[<<q, i>>] = "block" => fate'[<<q, i>>] = "block",
         lost \subseteq lost'
  PROVE  Good(q)'
<1> USE DEF Good, EarlyIsEmpty, OffList, Remembered, EndedIsFailed, InBlock, Stored
<1>1. CASE db'[q] = db[q]
  BY <1>1 DEF Early, Watching
<1>2. CASE db'[q] = NewRecord(q)
  BY <1>2, NewParts DEF Early, Watching
<1> QED  BY <1>1, <1>2

LEMMA InvStep == Inv /\ [Next]_vars => Inv'
<1> SUFFICES ASSUME Inv, [Next]_vars PROVE \A q \in Requests : Good(q)'
  BY TypeStep DEF Inv
<1>t. TypeOK /\ \A q \in Requests : Good(q) /\ record[q] \in Record(q) /\ db[q] \in Record(q)
  BY DEF Inv, TypeOK
<1> USE DEF memVars, apiVars, dropVars
<1>1. ASSUME NEW r \in Requests, LookUp(r) PROVE \A q \in Requests : Good(q)'
  <2> TAKE q \in Requests
  <2>1. UNCHANGED <<record, db, dropPc, fate, lost>> /\ reqPc'[q] \in {reqPc[q], "insert", "answered"}
    BY <1>1, <1>t DEF LookUp, TypeOK
  <2>2. reqPc'[q] = "insert" => reqPc[q] \in {"idle", "insert"}
    BY <1>1, <1>t DEF LookUp, TypeOK
  <2> QED
    BY <1>t, <2>1, <2>2 DEF Good, EarlyIsEmpty, Early, OffList, Remembered, EndedIsFailed,
                            InBlock, Stored, Watching
<1>2. ASSUME NEW r \in Requests, Insert(r) PROVE \A q \in Requests : Good(q)'
  <2> TAKE q \in Requests
  <2>1. UNCHANGED <<record, db, fate, lost>>
    BY <1>2 DEF Insert
  <2>2. CASE q = r
    <3>1. dropPc[q] = "none" /\ dropPc'[q] = "build" /\ reqPc'[q] = "answered"
      BY <1>2, <1>t, <2>2 DEF Insert, TypeOK, Good, EarlyIsEmpty
    <3> QED
      BY <1>t, <2>1, <3>1 DEF Good, EarlyIsEmpty, Early, OffList, Remembered, EndedIsFailed,
                              InBlock, Stored, Watching
  <2>3. CASE q # r
    <3>1. dropPc'[q] = dropPc[q] /\ reqPc'[q] = reqPc[q]
      BY <1>2, <1>t, <2>3 DEF Insert, TypeOK
    <3> QED  BY <1>t, <2>1, <3>1, Elsewhere
  <2> QED  BY <2>2, <2>3
<1>3. ASSUME NEW r \in Requests, Expire(r) PROVE \A q \in Requests : Good(q)'
  BY <1>3, <1>t, Elsewhere DEF Expire
<1>4. ASSUME NEW r \in Requests, Build(r) PROVE \A q \in Requests : Good(q)'
  <2> TAKE q \in Requests
  <2>1. UNCHANGED <<record, db, fate, reqPc, lost>> /\ DropStep(r, "build", "send")
    BY <1>4 DEF Build
  <2>2. CASE q = r
    <3>1. dropPc[q] = "build" /\ dropPc'[q] = "send"
      BY <1>t, <2>1, <2>2, DropFacts
    <3> QED
      BY <1>t, <2>1, <3>1 DEF Good, EarlyIsEmpty, Early, OffList, Remembered, EndedIsFailed,
                              InBlock, Stored, Watching
  <2>3. CASE q # r
    BY <1>t, <2>1, <2>3, DropFacts, Elsewhere
  <2> QED  BY <2>2, <2>3
<1>5. ASSUME NEW r \in Requests, NEW ok \in BOOLEAN, NEW pooled \in BOOLEAN,
             Send(r, ok, pooled)
      PROVE  \A q \in Requests : Good(q)'
  <2> TAKE q \in Requests
  <2>1. PICK to \in {"send", "watch"} : DropStep(r, "send", to)
    BY <1>5 DEF Send
  <2>2. Assign(r, Sent(r, ok)) /\ UNCHANGED <<db, reqPc, lost>> /\ part[r] \in Parts(r)
    BY <1>5, <1>t DEF Send, TypeOK
  <2>3. \A d \in AllTxs : d # <<r, part[r]>> => fate'[d] = fate[d]
    BY <1>5, <1>t DEF Send, TypeOK
  <2>4. CASE q = r
    <3>1. dropPc[r] = "send" /\ dropPc'[r] \in {"send", "watch"} /\ record'[r] = Sent(r, ok)
      BY <1>t, <2>1, <2>2, DropFacts, AssignFacts
    <3>2. db'[r] = NewRecord(r) /\ \A i \in Parts(r) : record'[r].status[i] # 2
      BY <1>t, <2>2, <3>1, SentParts DEF Good, EarlyIsEmpty, Early
    <3>3. reqPc'[r] \notin {"idle", "insert"}
      BY <1>t, <2>2, <3>1 DEF Good, EarlyIsEmpty
    <3> QED
      BY <2>4, <3>1, <3>2, <3>3, NewParts
         DEF Good, EarlyIsEmpty, Early, OffList, Remembered, EndedIsFailed, InBlock, Stored
  <2>5. CASE q # r
    <3>1. \A i \in Parts(q) : fate'[<<q, i>>] = fate[<<q, i>>]
      BY <2>3, <2>5, PartFacts
    <3> QED  BY <1>t, <2>1, <2>2, <2>5, <3>1, DropFacts, AssignFacts, Elsewhere
  <2> QED  BY <2>4, <2>5
<1>6. ASSUME NEW r \in Requests, NEW E \in SUBSET Parts(r), Tick(r, E)
      PROVE  \A q \in Requests : Good(q)'
  <2> TAKE q \in Requests
  <2>1. /\ DropStep(r, "watch", "ticked") /\ Assign(r, Ticked(r, E))
        /\ UNCHANGED <<db, reqPc, fate>> /\ lost' = lost \cup {<<r, i>> : i \in E}
    BY <1>6 DEF Tick
  <2>2. CASE q = r
    <3>1. dropPc[r] = "watch" /\ dropPc'[r] = "ticked" /\ record'[r] = Ticked(r, E)
      BY <1>t, <2>1, DropFacts, AssignFacts
    <3>2. /\ record'[r].ongoing \subseteq record[r].ongoing
          /\ \A i \in Parts(r) :
               \/ record'[r].status[i] = record[r].status[i]
               \/ /\ record'[r].status[i] = 2 /\ fate[<<r, i>>] = "block"
                  /\ i \notin record'[r].ongoing
      BY <3>1, TickedParts
    <3>3. EarlyIsEmpty(r)' /\ EndedIsFailed(r)'
      BY <1>t, <2>1, <3>1 DEF Good, EarlyIsEmpty, Early, EndedIsFailed
    <3>5. Stored(r)'
      <4> SUFFICES ASSUME NEW i \in db[r].ongoing
                   PROVE  \/ i \in record'[r].ongoing \/ record'[r].status[i] = 2
                          \/ <<r, i>> \in lost'
        BY <2>1, <3>1 DEF Stored, Watching
      <4>1. i \in Parts(r) /\ (i \in record[r].ongoing \/ record[r].status[i] = 2 \/ <<r, i>> \in lost)
        BY <1>t, RecordFacts DEF Good, Stored
      <4> QED  BY <2>1, <3>1, <3>2, <4>1 DEF Ticked
    <3>4. OffList(r)' /\ Remembered(r)' /\ InBlock(r)'
      BY <1>t, <2>1, <3>1, <3>2 DEF Good, OffList, Remembered, InBlock, Watching
    <3> QED  BY <2>2, <3>3, <3>4, <3>5 DEF Good
  <2>3. CASE q # r
    BY <1>t, <2>1, <2>3, DropFacts, AssignFacts, Elsewhere
  <2> QED  BY <2>2, <2>3
<1>7. ASSUME NEW r \in Requests, StoreTick(r) PROVE \A q \in Requests : Good(q)'
  <2> TAKE q \in Requests
  <2>1. PICK to \in {"ended", "watch"} :
          DropStep(r, "ticked", to) /\ (to = "ended" => record[r].ongoing = {})
    BY <1>7 DEF StoreTick
  <2>2. PICK b : Assign(r, [record[r] EXCEPT !.success = b])
    BY <1>7 DEF StoreTick
  <2>3. Persist(r) /\ UNCHANGED <<reqPc, fate, lost>>
    BY <1>7 DEF StoreTick
  <2>4. CASE q = r
    <3>1. /\ dropPc[r] = "ticked" /\ dropPc'[r] \in {"ended", "watch"}
          /\ dropPc'[r] = "ended" => record[r].ongoing = {}
      BY <1>t, <2>1, DropFacts
    <3>2. record'[r] = [record[r] EXCEPT !.success = b]
      BY <1>t, <2>2, AssignFacts
    <3>3. record'[r].ongoing = record[r].ongoing /\ record'[r].status = record[r].status
      BY <1>t, <3>2, SucceededParts
    <3>4. db'[r] \in {record[r], db[r]}
      BY <2>3, PersistFacts
    <3> QED
      BY <1>t, <2>3, <2>4, <3>1, <3>3, <3>4
         DEF Good, EarlyIsEmpty, Early, OffList, Remembered, EndedIsFailed, InBlock, Stored,
             Watching
  <2>5. CASE q # r
    BY <1>t, <2>1, <2>2, <2>3, <2>5, DropFacts, AssignFacts, PersistFacts, Elsewhere
  <2> QED  BY <2>4, <2>5
<1>8. ASSUME NEW r \in Requests, TimeOut(r) PROVE \A q \in Requests : Good(q)'
  <2> TAKE q \in Requests
  <2>1. /\ DropStep(r, "watch", "ended") /\ Assign(r, TimedOut(r))
        /\ UNCHANGED <<db, reqPc, fate, lost>>
    BY <1>8 DEF TimeOut
  <2>2. CASE q = r
    <3>1. dropPc[r] = "watch" /\ dropPc'[r] = "ended" /\ record'[r] = TimedOut(r)
      BY <1>t, <2>1, DropFacts, AssignFacts
    <3>2. record[r].ongoing \subseteq Parts(r) /\ db[r].ongoing \subseteq Parts(r)
      BY <1>t, RecordFacts
    <3> QED
      BY <1>t, <2>1, <2>2, <3>1, <3>2, TimedOutParts
         DEF Good, EarlyIsEmpty, Early, OffList, Remembered, EndedIsFailed, InBlock, Stored,
             Watching
  <2>3. CASE q # r
    BY <1>t, <2>1, <2>3, DropFacts, AssignFacts, Elsewhere
  <2> QED  BY <2>2, <2>3
<1>9. ASSUME NEW r \in Requests, EndWatch(r) PROVE \A q \in Requests : Good(q)'
  <2> TAKE q \in Requests
  <2>1. DropStep(r, "ended", "done") /\ Persist(r) /\ UNCHANGED <<record, reqPc, fate, lost>>
    BY <1>9 DEF EndWatch
  <2>2. CASE q = r
    <3>1. dropPc[r] = "ended" /\ dropPc'[r] = "done" /\ db'[r] \in {record[r], db[r]}
      BY <1>t, <2>1, DropFacts, PersistFacts
    <3> QED
      BY <1>t, <2>1, <2>2, <3>1
         DEF Good, EarlyIsEmpty, Early, OffList, Remembered, EndedIsFailed, InBlock, Stored,
             Watching
  <2>3. CASE q # r
    BY <1>t, <2>1, <2>3, DropFacts, PersistFacts, Elsewhere
  <2> QED  BY <2>2, <2>3
<1>10. ASSUME NEW d \in AllTxs, NEW to \in {"block", "unknown"}, Settle(d, to)
       PROVE  \A q \in Requests : Good(q)'
  <2> TAKE q \in Requests
  <2>1. \A e \in AllTxs : fate[e] = "block" => fate'[e] = "block"
    BY <1>10, <1>t DEF Settle, TypeOK
  <2> QED  BY <1>10, <1>t, <2>1, PartFacts, Elsewhere DEF Settle
<1>11. ASSUME Restart PROVE \A q \in Requests : Good(q)'
  <2> TAKE q \in Requests
  <2>1. record' = db /\ UNCHANGED <<db, fate, lost>>
    BY <1>11 DEF Restart
  <2>2. /\ reqPc'[q] \in {reqPc[q], "answered"} /\ reqPc'[q] # "insert"
        /\ dropPc'[q] = IF db[q].ongoing # {} THEN "watch"
                        ELSE IF dropPc[q] = "none" THEN "none" ELSE "gone"
    BY <1>11, <1>t DEF Restart, Resumes, TypeOK
  <2> QED
    BY <1>t, <2>1, <2>2, NewParts
       DEF Good, EarlyIsEmpty, Early, OffList, Remembered, EndedIsFailed, InBlock, Stored,
           Watching
<1>12. ASSUME UNCHANGED vars PROVE \A q \in Requests : Good(q)'
  BY <1>12, <1>t, Elsewhere DEF vars
<1> QED
  BY <1>1, <1>2, <1>3, <1>4, <1>5, <1>6, <1>7, <1>8, <1>9, <1>10, <1>11, <1>12
     DEF Next, RequestNext, Transmit, Look, Watch, NodeNext

LEMMA InvAlways == Spec => []Inv
<1>1. Init => Inv
  <2> SUFFICES ASSUME Init PROVE Inv
    OBVIOUS
  <2>1. TypeOK
    BY FaucetAssumption, NewFacts, PartFacts DEF Init, TypeOK
  <2>2. ASSUME NEW r \in Requests PROVE Good(r)
    <3>1. /\ record[r] = NewRecord(r) /\ db[r] = NewRecord(r)
          /\ dropPc[r] = "none"
      BY DEF Init
    <3> QED
      BY <3>1, NewParts DEF Good, EarlyIsEmpty, Early, OffList, Remembered, EndedIsFailed,
                            InBlock, Stored, Watching
  <2> QED  BY <2>1, <2>2 DEF Inv
<1> QED  BY <1>1, InvStep, PTL DEF Spec

\* A transaction is said to be delivered (Status 2), in memory or in the
\* database, only if it is in a block.
THEOREM DeliveredCorrect == Spec => []DeliveredIsInBlock
<1>1. Inv => DeliveredIsInBlock
  BY DEF Inv, Good, InBlock, DeliveredIsInBlock
<1> QED  BY <1>1, InvAlways, PTL

\* No stored record with transactions to watch is forgotten by the process.
THEOREM StoredWatched == Spec => []StoredIsWatched
<1>1. Inv => StoredIsWatched
  <2> SUFFICES ASSUME Inv, NEW r \in Requests, NEW i \in db[r].ongoing, ~Watching(r)
               PROVE  /\ dropPc[r] = "done"
                      /\ record[r].status[i] \in {2, 3} \/ <<r, i>> \in lost
    BY DEF StoredIsWatched
  <2>1. Stored(r) /\ EndedIsFailed(r)
    BY DEF Inv, Good
  <2> QED  BY <2>1 DEF Stored, EndedIsFailed
<1> QED  BY <1>1, InvAlways, PTL

\* A delivery that is stored stays so until the user's next drop replaces the
\* record: only a watcher writes it again, and a watcher remembers it.
THEOREM DeliveredDurable == Spec => DeliveredIsDurable
<1> DEFINE Kept == \A r \in Requests : \A i \in Parts(r) :
                     db[r].status[i] = 2 => db'[r].status[i] = 2 \/ db'[r] = NewRecord(r)
<1>1. ASSUME NEW r \in Requests, Inv, Persist(r), Watching(r) PROVE Kept
  <2> TAKE q \in Requests
  <2> TAKE i \in Parts(q)
  <2> HAVE db[q].status[i] = 2
  <2>1. CASE q = r
    BY <1>1, <2>1, PersistFacts DEF Inv, Good, Remembered
  <2>2. CASE q # r
    BY <1>1, <2>2, PersistFacts
  <2> QED  BY <2>1, <2>2
<1>2. ASSUME db' = db PROVE Kept
  BY <1>2
<1>3. ASSUME NEW r \in Requests, RequestNext(r), db' # db PROVE Persist(r) /\ Watching(r)
  BY <1>3 DEF RequestNext, LookUp, Insert, Expire, Build, Transmit, Send, Watch, Look, Tick,
              StoreTick, EndWatch, TimeOut, DropStep, Watching
<1>4. (\E d \in AllTxs : NodeNext(d)) \/ Restart \/ UNCHANGED vars => db' = db
  BY DEF NodeNext, Settle, Restart, vars
<1>5. Inv /\ [Next]_vars => [Kept]_vars
  <2> HIDE DEF Kept
  <2> QED  BY <1>1, <1>2, <1>3, <1>4 DEF Next
<1> QED  BY <1>5, InvAlways, PTL DEF Spec, DeliveredIsDurable

-----------------------------------------------------------------------------
(***************************************************************************)
(* SuccessMeansDelivered, PendingIsTracked.  From the moment a drop is     *)
(* watched its list covers the transactions that are neither in a block    *)
(* nor lost; it is emptied by no other step, and a restart resumes from a  *)
(* list that was stored by a watcher.                                      *)
(***************************************************************************)

Over(r, i) == fate[<<r, i>>] = "block" \/ <<r, i>> \in lost
Covers(r, rec) == \A i \in Parts(r) : i \in rec.ongoing \/ Over(r, i)
Covered(r) ==
  /\ Early(r) => ~record[r].success
  /\ Watching(r) \/ dropPc[r] = "done" => Covers(r, record[r])
  /\ db[r].ongoing # {} => Covers(r, db[r])
  /\ record[r].success \/ db[r].success => DeliveredOrLost(r)
Known(u) == users[u] # NoRecord => users[u] \in Requests /\ UserOf[users[u]] = u
Truthful(r) ==
  answer[r] = "done" =>
    \E q \in Requests : UserOf[q] = UserOf[r] /\ ~Early(q) /\ DeliveredOrLost(q)

\* Only Send makes a transaction anything but over, and only in an early drop.
LEMMA OverStays ==
  Inv /\ [Next]_vars =>
    \A q \in Requests : ~Early(q) => \A i \in Parts(q) : Over(q, i) => Over(q, i)'
<1> SUFFICES ASSUME Inv, [Next]_vars, NEW q \in Requests, ~Early(q), NEW i \in Parts(q), Over(q, i)
             PROVE  Over(q, i)'
  OBVIOUS
<1> USE DEF memVars, apiVars, dropVars
<1>t. TypeOK /\ <<q, i>> \in AllTxs
  BY PartFacts DEF Inv
<1>1. ASSUME UNCHANGED fate, lost \subseteq lost' PROVE Over(q, i)'
  BY <1>1 DEF Over
<1>2. ASSUME NEW r \in Requests, NEW ok \in BOOLEAN, NEW pooled \in BOOLEAN, Send(r, ok, pooled)
      PROVE  Over(q, i)'
  <2>1. r # q
    BY <1>2 DEF Send, DropStep, Early
  <2>2. fate'[<<q, i>>] = fate[<<q, i>>] /\ lost' = lost
    BY <1>2, <1>t, <2>1 DEF Send, TypeOK
  <2> QED  BY <2>2 DEF Over
<1>3. ASSUME NEW d \in AllTxs, NEW to \in {"block", "unknown"}, Settle(d, to) PROVE Over(q, i)'
  BY <1>3, <1>t DEF Settle, TypeOK, Over
<1>4. ASSUME NEW r \in Requests, RequestNext(r), ~Transmit(r) PROVE Over(q, i)'
  BY <1>1, <1>4 DEF RequestNext, LookUp, Insert, Expire, Build, Watch, Look, Tick, StoreTick,
                    EndWatch, TimeOut
<1>5. CASE Restart \/ UNCHANGED vars
  BY <1>1, <1>5 DEF Restart, vars
<1> QED  BY <1>2, <1>3, <1>4, <1>5 DEF Next, Transmit, NodeNext

\* A step of another request's drop, which may replace this one's record; the
\* drop itself may begin.
LEMMA CoveredElsewhere ==
  ASSUME NEW q \in Requests, Good(q), Covered(q), record'[q] = record[q],
         dropPc'[q] = dropPc[q] \/ (Early(q) /\ dropPc'[q] \in {"build", "send"}),
         db'[q] \in {db[q], NewRecord(q)},
         ~Early(q) => \A i \in Parts(q) : Over(q, i) => Over(q, i)'
  PROVE  Covered(q)'
<1>1. NewRecord(q).ongoing = {} /\ ~NewRecord(q).success
  BY DEF NewRecord
<1>2. CASE Early(q)
  <2>1. db[q] = NewRecord(q) /\ ~record[q].success
    BY <1>2 DEF Good, EarlyIsEmpty, Covered
  <2>2. ~Watching(q)' /\ dropPc'[q] # "done"
    BY <1>2 DEF Early, Watching
  <2> QED  BY <1>1, <2>1, <2>2 DEF Covered
<1>3. CASE ~Early(q)
  <2>1. dropPc'[q] = dropPc[q] /\ ~Early(q)'
    BY <1>3 DEF Early
  <2>2. DeliveredOrLost(q) => DeliveredOrLost(q)'
    BY <1>3 DEF DeliveredOrLost, Over
  <2>3. \A rec : Covers(q, rec) => \A i \in Parts(q) : i \in rec.ongoing \/ Over(q, i)'
    BY <1>3 DEF Covers
  <2>4. Watching(q)' \/ dropPc'[q] = "done" => Covers(q, record[q])
    BY <2>1 DEF Covered, Watching
  <2>5. CASE db'[q] = db[q]
    BY <2>1, <2>2, <2>3, <2>4, <2>5 DEF Covered, Covers
  <2>6. CASE db'[q] = NewRecord(q)
    BY <1>1, <2>1, <2>2, <2>3, <2>4, <2>6 DEF Covered, Covers
  <2> QED  BY <2>5, <2>6
<1> QED  BY <1>2, <1>3

\* A step of the watcher of r, after which its record and what is stored of it
\* still cover the drop.
LEMMA CoveredHere ==
  ASSUME NEW r \in Requests, ~Early(r)',
         \A i \in Parts(r) : i \in record'[r].ongoing \/ Over(r, i)',
         \A i \in Parts(r) : i \in db'[r].ongoing \/ Over(r, i)' \/ db'[r].ongoing = {},
         record'[r].success \/ db'[r].success => \A i \in Parts(r) : Over(r, i)'
  PROVE  Covered(r)'
BY DEF Covered, Covers, DeliveredOrLost, Over

LEMMA CoveredStep ==
  Inv /\ (\A r \in Requests : Covered(r)) /\ [Next]_vars => \A r \in Requests : Covered(r)'
<1> SUFFICES ASSUME Inv, \A r \in Requests : Covered(r), [Next]_vars, NEW q \in Requests
             PROVE  Covered(q)'
  OBVIOUS
<1> USE DEF memVars, apiVars, dropVars
<1>t. TypeOK /\ \A r \in Requests : Good(r) /\ record[r] \in Record(r) /\ db[r] \in Record(r)
  BY DEF Inv, TypeOK
<1>o. ~Early(q) => \A i \in Parts(q) : Over(q, i) => Over(q, i)'
  BY OverStays
<1> DEFINE Begins == Early(q) /\ dropPc'[q] \in {"build", "send"}
           Unmoved == /\ record'[q] = record[q] /\ db'[q] \in {db[q], NewRecord(q)}
                      /\ (dropPc'[q] = dropPc[q] \/ Begins)
<1>1. Unmoved => Covered(q)'
  <2> HAVE Unmoved
  <2>1. Good(q) /\ Covered(q)
    BY <1>t
  <2>2. record'[q] = record[q]
    OBVIOUS
  <2>3. dropPc'[q] = dropPc[q] \/ (Early(q) /\ dropPc'[q] \in {"build", "send"})
    OBVIOUS
  <2>4. db'[q] \in {db[q], NewRecord(q)}
    OBVIOUS
  <2> HIDE DEF Unmoved, Begins
  <2> QED  BY <2>1, <2>2, <2>3, <2>4, <1>o, CoveredElsewhere
<1>2. ASSUME NEW r \in Requests, LookUp(r) \/ Insert(r) \/ Expire(r) \/ Build(r)
      PROVE  Covered(q)'
  <2>1. Insert(r) => Early(r)
    BY <1>t DEF Insert, Early, Good, EarlyIsEmpty
  <2>2. record' = record /\ db' = db
    BY <1>2 DEF LookUp, Insert, Expire, Build
  <2>3. dropPc'[q] = dropPc[q] \/ Begins
    BY <1>2, <1>t, <2>1 DEF LookUp, Insert, Expire, Build, DropStep, TypeOK, Early
  <2> QED  BY <1>1, <2>2, <2>3
<1>3. ASSUME NEW r \in Requests, NEW ok \in BOOLEAN, NEW pooled \in BOOLEAN, Send(r, ok, pooled)
      PROVE  Covered(q)'
  <2>1. PICK to \in {"send", "watch"} :
          DropStep(r, "send", to) /\ (to = "watch" <=> IsLast(r))
    BY <1>3 DEF Send
  <2>2. Assign(r, Sent(r, ok)) /\ UNCHANGED <<db, reqPc>>
    BY <1>3 DEF Send
  <2>3. CASE q = r
    <3>1. Early(r) /\ dropPc'[r] = to /\ record'[r] = Sent(r, ok)
      BY <1>t, <2>1, <2>2, DropFacts, AssignFacts DEF Early
    <3>2. /\ Sent(r, ok).success = record[r].success
          /\ to = "watch" => Sent(r, ok).ongoing = Parts(r)
      BY <2>1 DEF Sent, Watched
    <3>3. db'[r] = NewRecord(r) /\ ~record'[r].success
      BY <1>t, <2>2, <3>1, <3>2 DEF Good, EarlyIsEmpty, Covered
    <3>4. NewRecord(r).ongoing = {} /\ ~NewRecord(r).success
      BY DEF NewRecord
    <3>5. Watching(r)' \/ dropPc'[r] = "done" => record'[r].ongoing = Parts(r)
      BY <3>1, <3>2 DEF Watching
    <3> QED  BY <2>3, <3>3, <3>4, <3>5 DEF Covered, Covers
  <2>4. CASE q # r
    <3>1. record'[q] = record[q] /\ db'[q] = db[q] /\ dropPc'[q] = dropPc[q]
      BY <1>t, <2>1, <2>2, <2>4, DropFacts, AssignFacts
    <3> QED  BY <1>1, <3>1
  <2> QED  BY <2>3, <2>4
<1>4. ASSUME NEW r \in Requests, NEW E \in SUBSET Parts(r), Tick(r, E)
      PROVE  Covered(q)'
  <2>1. /\ DropStep(r, "watch", "ticked") /\ Assign(r, Ticked(r, E)) /\ UNCHANGED <<db, fate>>
        /\ lost' = lost \cup {<<r, i>> : i \in E}
    BY <1>4 DEF Tick
  <2>2. CASE q = r
    <3>1. dropPc[r] = "watch" /\ dropPc'[r] = "ticked" /\ record'[r] = Ticked(r, E)
      BY <1>t, <2>1, DropFacts, AssignFacts
    <3>2. /\ Covers(r, record[r]) /\ (db[r].ongoing # {} => Covers(r, db[r]))
          /\ record[r].success \/ db[r].success => \A i \in Parts(r) : Over(r, i)
      BY <3>1 DEF Covered, Watching, DeliveredOrLost, Over
    <3>3. \A i \in Parts(r) : Over(r, i) => Over(r, i)'
      BY <1>o, <2>2, <3>1 DEF Early
    <3>4. ASSUME NEW i \in Parts(r), i \notin record'[r].ongoing PROVE Over(r, i)'
      BY <2>1, <3>1, <3>2, <3>3, <3>4 DEF Ticked, IsInBlock, Covers, Over
    <3>5. record'[r].success = record[r].success
      BY <3>1 DEF Ticked
    <3>6. ~Early(r)'
      BY <3>1 DEF Early
    <3>7. \A i \in Parts(r) : i \in db'[r].ongoing \/ Over(r, i)' \/ db'[r].ongoing = {}
      BY <2>1, <3>2, <3>3 DEF Covers
    <3> QED  BY <2>1, <2>2, <3>2, <3>3, <3>4, <3>5, <3>6, <3>7, CoveredHere
  <2>3. CASE q # r
    <3>1. record'[q] = record[q] /\ db'[q] = db[q] /\ dropPc'[q] = dropPc[q]
      BY <1>t, <2>1, <2>3, DropFacts, AssignFacts
    <3> QED  BY <1>1, <3>1
  <2> QED  BY <2>2, <2>3
<1>5. ASSUME NEW r \in Requests, NEW from \in {"ticked", "watch", "ended"}, NEW to \in {"ended", "watch", "done"},
             DropStep(r, from, to), UNCHANGED fate,
             \A p \in Requests \ {r} : record'[p] = record[p],
             record'[r].ongoing = record[r].ongoing,
             record'[r].success => record[r].success \/ record[r].ongoing = {},
             Persist(r) \/ UNCHANGED db
      PROVE  Covered(q)'
  <2>1. CASE q = r
    <3>1. Watching(r) /\ ~Early(r) /\ ~Early(r)'
      BY <1>t, <1>5, DropFacts DEF Watching, Early
    <3>2. /\ Covers(r, record[r]) /\ (db[r].ongoing # {} => Covers(r, db[r]))
          /\ record[r].success \/ db[r].success => \A i \in Parts(r) : Over(r, i)
      BY <3>1 DEF Covered, DeliveredOrLost, Over
    <3>3. \A i \in Parts(r) : Over(r, i) => Over(r, i)'
      BY <1>o, <2>1, <3>1
    <3>4. db'[r] \in {record[r], db[r]}
      BY <1>5, PersistFacts
    <3>5. \A i \in Parts(r) : i \in db'[r].ongoing \/ Over(r, i)' \/ db'[r].ongoing = {}
      BY <3>2, <3>3, <3>4 DEF Covers
    <3>6. record'[r].success \/ db'[r].success => \A i \in Parts(r) : Over(r, i)'
      BY <1>5, <3>2, <3>3, <3>4 DEF Covers
    <3>7. \A i \in Parts(r) : i \in record'[r].ongoing \/ Over(r, i)'
      BY <1>5, <3>2, <3>3 DEF Covers
    <3> QED  BY <2>1, <3>1, <3>5, <3>6, <3>7, CoveredHere
  <2>2. CASE q # r
    <3>1. record'[q] = record[q] /\ dropPc'[q] = dropPc[q]
      BY <1>t, <1>5, <2>2, DropFacts
    <3>2. db'[q] \in {db[q], NewRecord(q)}
      BY <1>5, <2>2, PersistFacts
    <3> QED  BY <1>1, <3>1, <3>2
  <2> QED  BY <2>1, <2>2
<1>6. ASSUME NEW r \in Requests, StoreTick(r) PROVE Covered(q)'
  <2>1. PICK to \in {"ended", "watch"} : DropStep(r, "ticked", to)
    BY <1>6 DEF StoreTick
  <2> DEFINE b == record[r].success \/ record[r].ongoing = {}
  <2>2. Assign(r, [record[r] EXCEPT !.success = b]) /\ Persist(r) /\ UNCHANGED fate
    BY <1>6 DEF StoreTick
  <2>3. record'[r] = [record[r] EXCEPT !.success = b]
        /\ \A p \in Requests \ {r} : record'[p] = record[p]
    <3> HIDE DEF b
    <3> QED  BY <1>t, <2>2, AssignFacts
  <2>4. record'[r].ongoing = record[r].ongoing /\ record'[r].success = b
    <3> HIDE DEF b
    <3> QED  BY <1>t, <2>3 DEF Record
  <2>5. record'[r].success => record[r].success \/ record[r].ongoing = {}
    BY <2>4
  <2> HIDE DEF b
  <2> QED  BY <1>5, <2>1, <2>2, <2>3, <2>4, <2>5
<1>7. ASSUME NEW r \in Requests, TimeOut(r) PROVE Covered(q)'
  <2>1. DropStep(r, "watch", "ended") /\ Assign(r, TimedOut(r)) /\ UNCHANGED <<db, fate>>
    BY <1>7 DEF TimeOut
  <2>2. /\ record'[r].ongoing = record[r].ongoing /\ ~record'[r].success
        /\ \A p \in Requests \ {r} : record'[p] = record[p]
    BY <1>t, <2>1, AssignFacts DEF TimedOut
  <2> QED  BY <1>5, <2>1, <2>2
<1>8. ASSUME NEW r \in Requests, EndWatch(r) PROVE Covered(q)'
  BY <1>5, <1>8 DEF EndWatch
<1>9. ASSUME NEW d \in AllTxs, NEW to \in {"block", "unknown"}, Settle(d, to) PROVE Covered(q)'
  <2>1. record' = record /\ db' = db /\ dropPc' = dropPc
    BY <1>9 DEF Settle
  <2> QED  BY <1>1, <2>1
<1>10. CASE Restart
  <2>1. /\ record' = db /\ UNCHANGED <<db, fate, lost>>
        /\ dropPc'[q] = IF db[q].ongoing # {} THEN "watch"
                        ELSE IF dropPc[q] = "none" THEN "none" ELSE "gone"
    BY <1>10 DEF Restart, Resumes
  <2>2. Early(q)' => Early(q)
    BY <2>1 DEF Early
  <2>3. Early(q) => ~db[q].success
    <3>1. Early(q) => db[q] = NewRecord(q)
      BY <1>t DEF Good, EarlyIsEmpty
    <3>2. ~NewRecord(q).success
      BY DEF NewRecord
    <3> QED  BY <3>1, <3>2
  <2>4. Watching(q)' \/ dropPc'[q] = "done" => db[q].ongoing # {}
    BY <2>1 DEF Watching
  <2> QED  BY <2>1, <2>2, <2>3, <2>4 DEF Covered, Covers, Over, DeliveredOrLost
<1>11. CASE UNCHANGED vars
  <2>1. record' = record /\ db' = db /\ dropPc' = dropPc
    BY <1>11 DEF vars
  <2> QED  BY <1>1, <2>1
<1> QED
  BY <1>2, <1>3, <1>4, <1>6, <1>7, <1>8, <1>9, <1>10, <1>11
     DEF Next, RequestNext, Transmit, Look, Watch, NodeNext

LEMMA KnownStep ==
  Inv /\ (\A u \in Users : Known(u)) /\ [Next]_vars => \A u \in Users : Known(u)'
<1> SUFFICES ASSUME Inv, \A u \in Users : Known(u), [Next]_vars, NEW u \in Users
             PROVE  Known(u)'
  OBVIOUS
<1>1. ASSUME users' = users PROVE Known(u)'
  BY <1>1 DEF Known
<1>2. ASSUME NEW r \in Requests, Insert(r) PROVE Known(u)'
  BY <1>2, FaucetAssumption DEF Insert, Known, Inv, TypeOK
<1>3. CASE Restart
  BY <1>3 DEF Restart, Known
<1>4. ASSUME NEW r \in Requests, RequestNext(r), ~Insert(r) PROVE users' = users
  BY <1>4 DEF RequestNext, LookUp, Expire, Build, Transmit, Send, Watch, Look, Tick, StoreTick,
              EndWatch, TimeOut, memVars
<1>5. (\E d \in AllTxs : NodeNext(d)) \/ UNCHANGED vars => users' = users
  BY DEF NodeNext, Settle, vars, memVars
<1> QED  BY <1>1, <1>2, <1>3, <1>4, <1>5 DEF Next

LEMMA TruthfulStep ==
  Inv /\ (\A u \in Users : Known(u)) /\ (\A r \in Requests : Covered(r) /\ Truthful(r)) /\ [Next]_vars
    => \A r \in Requests : Truthful(r)'
<1> SUFFICES ASSUME Inv, \A u \in Users : Known(u),
                    \A r \in Requests : Covered(r) /\ Truthful(r), [Next]_vars,
                    NEW r \in Requests
             PROVE  Truthful(r)'
  OBVIOUS
<1> USE DEF memVars, apiVars, dropVars
<1>t. TypeOK /\ \A q \in Requests : Good(q)
  BY DEF Inv
<1>1. \A q \in Requests : ~Early(q) => ~Early(q)'
  <2> SUFFICES ASSUME NEW q \in Requests, ~Early(q) PROVE ~Early(q)'
    OBVIOUS
  <2>1. ASSUME NEW p \in Requests, Insert(p) PROVE ~Early(q)'
    <3>1. dropPc[p] = "none"
      BY <1>t, <2>1 DEF Insert, Good, EarlyIsEmpty
    <3> QED  BY <1>t, <2>1, <3>1 DEF Insert, Early, TypeOK
  <2>2. ASSUME NEW p \in Requests, Transmit(p) PROVE ~Early(q)'
    BY <1>t, <2>2 DEF Transmit, Send, DropStep, Early, TypeOK
  <2>3. ASSUME NEW p \in Requests, Build(p) \/ Watch(p) \/ TimeOut(p) PROVE ~Early(q)'
    BY <1>t, <2>3 DEF Build, Watch, Look, Tick, StoreTick, EndWatch, TimeOut, DropStep, Early, TypeOK
  <2>4. ASSUME NEW p \in Requests, LookUp(p) \/ Expire(p) PROVE ~Early(q)'
    BY <2>4 DEF LookUp, Expire, Early
  <2>5. CASE Restart
    BY <1>t, <2>5 DEF Restart, Early
  <2>6. CASE (\E d \in AllTxs : NodeNext(d)) \/ UNCHANGED vars
    BY <2>6 DEF NodeNext, Settle, vars, Early
  <2> QED  BY <2>1, <2>2, <2>3, <2>4, <2>5, <2>6 DEF Next, RequestNext
<1>2. \A q \in Requests : ~Early(q) /\ DeliveredOrLost(q) => DeliveredOrLost(q)'
  BY OverStays DEF DeliveredOrLost, Over
<1>3. CASE answer'[r] = answer[r]
  BY <1>1, <1>2, <1>3 DEF Truthful
<1>4. ASSUME NEW p \in Requests, LookUp(p), answer'[r] = "done", answer'[r] # answer[r]
      PROVE  Truthful(r)'
  <2> DEFINE q == users[UserOf[p]]
  <2>1. /\ p = r /\ answer' = [answer EXCEPT ![p] = IF q = NoRecord THEN "none" ELSE Told(q)]
        /\ UserOf[p] \in Users
    BY <1>4, <1>t, FaucetAssumption DEF LookUp, TypeOK
  <2>2. q \in Requests /\ record[q].success
    BY <1>4, <1>t, <2>1 DEF Told, TypeOK
  <2>3. ~Early(q) /\ DeliveredOrLost(q)
    BY <2>2 DEF Covered
  <2>4. UserOf[q] = UserOf[r]
    BY <2>1, <2>2, FaucetAssumption DEF Known
  <2> QED  BY <1>1, <1>2, <2>2, <2>3, <2>4 DEF Truthful
<1>5. answer'[r] = answer[r] \/ answer'[r] # "done" \/ \E p \in Requests : LookUp(p)
  <2>1. ASSUME NEW p \in Requests, Insert(p) PROVE answer'[r] \in {answer[r], "started"}
    BY <1>t, <2>1 DEF Insert, TypeOK
  <2>2. ASSUME NEW p \in Requests, Expire(p) \/ Build(p) \/ Transmit(p) \/ Watch(p) \/ TimeOut(p)
        PROVE  answer' = answer
    BY <2>2 DEF Expire, Build, Transmit, Send, Watch, Look, Tick, StoreTick, EndWatch, TimeOut, apiVars
  <2>3. CASE Restart \/ (\E d \in AllTxs : NodeNext(d)) \/ UNCHANGED vars
    BY <2>3 DEF Restart, NodeNext, Settle, vars, apiVars
  <2> QED  BY <2>1, <2>2, <2>3 DEF Next, RequestNext
<1> QED  BY <1>3, <1>4, <1>5 DEF Truthful

LEMMA CoveredAlways ==
  Spec => [](Inv /\ \A r \in Requests : Covered(r) /\ Truthful(r))
<1> DEFINE All == /\ \A u \in Users : Known(u)
                  /\ \A r \in Requests : Covered(r) /\ Truthful(r)
<1>1. Init => All
  BY DEF Init, Known, Covered, Truthful, Early, Watching, NewRecord
<1>2. Inv /\ All /\ [Next]_vars => All'
  <2> SUFFICES ASSUME Inv, All, [Next]_vars PROVE All'
    OBVIOUS
  <2>1. \A u \in Users : Known(u)'
    BY KnownStep
  <2>2. \A r \in Requests : Covered(r)'
    BY CoveredStep
  <2>3. \A r \in Requests : Truthful(r)'
    BY TruthfulStep
  <2> QED  BY <2>1, <2>2, <2>3
<1>3. All => \A r \in Requests : Covered(r) /\ Truthful(r)
  OBVIOUS
<1> HIDE DEF All
<1> QED  BY <1>1, <1>2, <1>3, InvAlways, PTL DEF Spec

\* main.go: AirdropSuccess and the answer 2 are only given once every
\* transaction of the drop is in a block or has been lost from the list.
THEOREM SuccessMeansDeliveredCorrect == Spec => []SuccessMeansDelivered
<1>1. Inv /\ (\A r \in Requests : Covered(r) /\ Truthful(r)) => SuccessMeansDelivered
  BY DEF Covered, Truthful, SuccessMeansDelivered
<1> QED  BY <1>1, CoveredAlways, PTL

\* main.go: what the node still holds is on the list of the drop's watcher.
THEOREM PendingIsTrackedCorrect == Spec => []PendingIsTracked
<1>1. ASSUME Inv, \A r \in Requests : Covered(r), NEW r \in Requests, NEW i \in Parts(r),
             Watching(r) \/ dropPc[r] = "done", fate[<<r, i>>] = "pool", <<r, i>> \notin lost
      PROVE  i \in record[r].ongoing
  BY <1>1 DEF Covered, Covers, Over
<1>2. Inv /\ (\A r \in Requests : Covered(r) /\ Truthful(r)) => PendingIsTracked
  BY <1>1 DEF PendingIsTracked
<1> QED  BY <1>2, CoveredAlways, PTL
=============================================================================
