----------------------------- MODULE HelperProofs -----------------------------
(***************************************************************************)
(* Proofs about the shield poller and the Slack notifier, for any shields, *)
(* page sizes and messages, and about the three parts that MCHelpers       *)
(* composes.                                                               *)
(***************************************************************************)
EXTENDS MCHelpers, CoinChoiceProofs

-----------------------------------------------------------------------------
(***************************************************************************)
(* The Slack notifier.  Only what has been received, and not posted yet,   *)
(* is in notiArray.                                                        *)
(***************************************************************************)

NotiInv ==
  /\ NotiTypeOK /\ PostedOnce
  /\ \A m \in notiArray : senderPc[m] = "sent"

LEMMA NotiInit1 == NotiInit => NotiInv
  BY DEF NotiInit, NotiInv, NotiTypeOK, PostedOnce

LEMMA NotiStep == NotiInv /\ [NotiNext]_notiVars => NotiInv'
<1> SUFFICES ASSUME NotiInv, [NotiNext]_notiVars PROVE NotiInv'
  OBVIOUS
<1> USE DEF NotiInv, NotiTypeOK, PostedOnce
<1>1. CASE MakeChannel \/ Tick2s \/ PostFails \/ UNCHANGED notiVars
  BY <1>1 DEF MakeChannel, Tick2s, PostFails, notiVars
\* What is posted had not been.
<1>2. CASE Post
  <2>1. /\ posts' = [m \in Messages |-> IF m \in notiArray THEN posts[m] + 1 ELSE posts[m]]
        /\ notiArray' = {} /\ hookPc' = "select" /\ UNCHANGED <<senderPc, sawNil>>
    BY <1>2 DEF Post, AfterPost
  <2>2. ASSUME NEW m \in Messages
        PROVE  posts'[m] = IF senderPc[m] = "sent" THEN 1 ELSE 0
    BY <2>1
  <2>3. posts' \in [Messages -> Nat]
    BY <2>1
  <2> QED  BY <2>1, <2>2, <2>3
<1>3. ASSUME NEW m \in Messages, Call(m) \/ Begin(m) PROVE NotiInv'
  <2>1. PICK to \in {"called", "blocked"} : /\ senderPc[m] \in {"idle", "called"}
                                            /\ senderPc' = [senderPc EXCEPT ![m] = to]
                                            /\ to = "called" => senderPc[m] = "idle"
    BY <1>3 DEF Call, Begin, Moves
  <2>2. /\ UNCHANGED <<hookPc, notiArray, posts>>
        /\ sawNil' \subseteq sawNil \cup (IF to = "blocked" THEN {m} ELSE {})
    BY <1>3, <2>1 DEF Call, Begin, Moves
  <2> QED  BY <2>1, <2>2
<1>4. ASSUME NEW m \in Messages, Receive(m) PROVE NotiInv'
  BY <1>4 DEF Receive, MayHand, Moves
<1> QED  BY <1>1, <1>2, <1>3, <1>4 DEF NotiNext

\* For all messages: one that has been handed over waits to be posted, or has
\* been posted once.
THEOREM PostedOnceCorrect == NotiSpec => []PostedOnce
<1>1. NotiInv => PostedOnce
  BY DEF NotiInv
<1> QED  BY <1>1, NotiInit1, NotiStep, PTL DEF NotiSpec

-----------------------------------------------------------------------------
(***************************************************************************)
(* Pages.  The shields of a set have different places, so that a page has  *)
(* no more of them than places.                                            *)
(***************************************************************************)

LEMMA PlaceType ==
  ASSUME NEW S, IsFiniteSet(S), NEW s
  PROVE  /\ Place(s, S) \in Nat /\ Cardinality(S) \in Nat
         /\ Place(s, S) <= Cardinality(S)
<1> DEFINE B == {t \in S : t < s}
<1>1. B \in SUBSET S
  OBVIOUS
<1>2. Place(s, S) = Cardinality(B)
  BY DEF Place
<1> HIDE DEF B
<1>3. /\ IsFiniteSet(B) /\ Cardinality(B) \in Nat /\ Cardinality(S) \in Nat
      /\ Cardinality(B) <= Cardinality(S)
  BY <1>1, FS_Subset, FS_CardinalityType
<1> QED  BY <1>2, <1>3

\* A place of a set is before its end.
LEMMA PlaceInside ==
  ASSUME NEW S, IsFiniteSet(S), S \subseteq Nat, NEW s \in S
  PROVE  Place(s, S) < Cardinality(S)
<1> DEFINE B == {t \in S : t < s}
<1>1. B \in SUBSET S /\ s \notin B
  OBVIOUS
<1>2. Place(s, S) = Cardinality(B)
  BY DEF Place
<1> HIDE DEF B
<1>3. B # S
  BY <1>1
<1>4. Cardinality(B) <= Cardinality(S) /\ Cardinality(B) # Cardinality(S)
  BY <1>1, <1>3, FS_Subset
<1>5. Place(s, S) \in Nat /\ Cardinality(S) \in Nat
  BY PlaceType
<1> QED  BY <1>2, <1>4, <1>5

\* The place of a larger shield is larger, whether or not it is listed ...
LEMMA PlaceGrows ==
  ASSUME NEW S, IsFiniteSet(S), S \subseteq Nat, NEW s \in S, NEW t \in Nat, s < t
  PROVE  Place(s, S) < Place(t, S)
<1> DEFINE B == {x \in S : x < s}
           C == {x \in S : x < t}
<1>1. B \in SUBSET C /\ C \in SUBSET S /\ s \in C /\ s \notin B
  <2>1. \A x \in S : x < s => x < t
    OBVIOUS
  <2>2. B \in SUBSET C /\ C \in SUBSET S
    BY <2>1
  <2>3. s \in C
    OBVIOUS
  <2>4. s \notin B
    OBVIOUS
  <2> QED  BY <2>2, <2>3, <2>4
<1>2. Place(s, S) = Cardinality(B) /\ Place(t, S) = Cardinality(C)
  BY DEF Place
<1>3. Place(s, S) \in Nat /\ Place(t, S) \in Nat
  BY PlaceType
<1> HIDE DEF B, C
<1>4. B # C /\ IsFiniteSet(C)
  BY <1>1, FS_Subset
<1>5. Cardinality(B) <= Cardinality(C) /\ Cardinality(B) # Cardinality(C)
  BY <1>1, <1>4, FS_Subset
<1> QED  BY <1>2, <1>3, <1>5

\* ... so that different shields have different places.
LEMMA PlaceOrder ==
  ASSUME NEW S, IsFiniteSet(S), S \subseteq Nat, NEW s \in S, NEW t \in S
  PROVE  /\ s < t <=> Place(s, S) < Place(t, S)
         /\ s = t <=> Place(s, S) = Place(t, S)
<1>1. s \in Nat /\ t \in Nat /\ Place(s, S) \in Nat /\ Place(t, S) \in Nat
  BY PlaceType
<1>2. /\ s < t => Place(s, S) < Place(t, S)
      /\ t < s => Place(t, S) < Place(s, S)
  BY <1>1, PlaceGrows
<1> QED  BY <1>1, <1>2

\* A page from an offset on is no longer than a page may be, nor than what is
\* left of the list.
LEMMA PageLength ==
  ASSUME NEW S, IsFiniteSet(S), S \subseteq Nat, NEW from \in Nat,
         NEW L, L = {s \in S : Place(s, S) \in from .. from + PageCap - 1}
  PROVE  /\ IsFiniteSet(L) /\ Cardinality(L) \in 0 .. PageCap
         /\ L # {} => from + Cardinality(L) <= Cardinality(S)
<1> USE PollAssumption
<1>1. L \in SUBSET S
  OBVIOUS
<1>2. IsFiniteSet(L) /\ Cardinality(L) \in Nat
  BY <1>1, FS_Subset, FS_CardinalityType
<1> DEFINE f == [s \in L |-> Place(s, S)]
<1>3. \A s, t \in L : f[s] = f[t] => s = t
  <2> SUFFICES ASSUME NEW s \in L, NEW t \in L, f[s] = f[t] PROVE s = t
    OBVIOUS
  <2> QED  BY <1>1, PlaceOrder
<1>4. ASSUME NEW n \in Nat, \A s \in L : Place(s, S) \in from .. n
      PROVE  L # {} => from + Cardinality(L) <= n + 1
  <2> DEFINE R == from .. n
  <2>1. f \in Injection(L, R)
    BY <1>3, <1>4 DEF Injection, IsInjective
  <2>2. IsFiniteSet(R) /\ Cardinality(R) = IF from > n THEN 0 ELSE n - from + 1
    BY FS_Interval
  <2>3. Cardinality(L) <= Cardinality(R)
    <3> HIDE DEF f, R
    <3> QED  BY <2>1, <2>2, FS_Injection
  <2>4. ASSUME L # {} PROVE from <= n
    <3>1. PICK s \in L : TRUE
      BY <2>4
    <3> QED  BY <1>4, <3>1
  <2> HIDE DEF f, R
  <2> QED  BY <1>2, <2>2, <2>3, <2>4
<1>5. L # {} => from + Cardinality(L) <= from + PageCap
  <2>1. from + PageCap - 1 \in Nat /\ \A s \in L : Place(s, S) \in from .. (from + PageCap - 1)
    OBVIOUS
  <2> QED  BY <1>2, <1>4, <2>1
<1>6. L # {} => from + Cardinality(L) <= Cardinality(S)
  <2>1. Cardinality(S) \in Nat
    BY FS_CardinalityType
  <2>2. ASSUME NEW s \in L PROVE Place(s, S) \in from .. (Cardinality(S) - 1)
    <3>1. Place(s, S) < Cardinality(S) /\ Place(s, S) \in Nat
      BY <1>1, PlaceInside, PlaceType
    <3> QED  BY <2>1, <3>1
  <2>3. ASSUME L # {} PROVE Cardinality(S) - 1 \in Nat
    <3>1. PICK s \in L : TRUE
      BY <2>3
    <3> QED  BY <2>1, <2>2, <3>1
  <2>4. Cardinality(S) - 1 \in Nat => (L # {} => from + Cardinality(L) <= Cardinality(S) - 1 + 1)
    <3> DEFINE n == Cardinality(S) - 1
    <3>1. \A s \in L : Place(s, S) \in from .. n
      BY <2>2
    <3> HIDE DEF n
    <3>2. n \in Nat => (L # {} => from + Cardinality(L) <= n + 1)
      BY <1>4, <3>1
    <3> QED  BY <3>2 DEF n
  <2> QED  BY <1>2, <2>1, <2>3, <2>4
<1>7. L = {} => Cardinality(L) = 0
  BY FS_EmptySet
<1> QED  BY <1>2, <1>5, <1>6, <1>7

-----------------------------------------------------------------------------
\* A finite set of numbers that is not empty has a largest one.
LEMMA MaxFacts ==
  ASSUME NEW S, IsFiniteSet(S), S # {}
  PROVE  S \subseteq Nat => Max(S) \in S /\ \A y \in S : Max(S) >= y
<1> DEFINE From(x) == {y \in S : y >= x}
           F == {From(x) : x \in S}
<1>1. PICK A \in F : \A B \in F : B \subseteq A => B = A
  <2>1. F \in SUBSET SUBSET S /\ F # {}
    <3>1. \A x \in S : From(x) \in SUBSET S
      OBVIOUS
    <3> HIDE DEF From
    <3> QED  BY <3>1
  <2> HIDE DEF F
  <2> QED  BY <2>1, SmallestSet
<1> HAVE S \subseteq Nat
<1>2. PICK x \in S : A = From(x)
  OBVIOUS
<1>3. ASSUME NEW y \in S, ~(x >= y) PROVE FALSE
  <2>1. From(y) \subseteq From(x) /\ x \in From(x) /\ x \notin From(y)
    <3>1. x \in Nat /\ y \in Nat /\ x < y
      BY <1>3
    <3>2. \A z \in S : z >= y => z >= x
      BY <3>1
    <3>3. From(y) \subseteq From(x)
      BY <3>2
    <3> QED  BY <3>1, <3>3
  <2>2. From(y) \in F
    OBVIOUS
  <2> QED  BY <1>1, <1>2, <2>1, <2>2
<1> QED  BY <1>3 DEF Max

\* The shields since a time.
LEMMA SinceFacts ==
  ASSUME NEW I \in SUBSET Shields, NEW S, S \subseteq I
  PROVE  /\ IsFiniteSet(I) /\ IsFiniteSet(S) /\ S \subseteq Nat
         /\ Cardinality(I) \in Nat /\ Cardinality(S) \in Nat
         /\ Cardinality(S) <= Cardinality(I)
<1>1. IsFiniteSet(I) /\ I \subseteq Nat
  BY PollAssumption, FS_Subset
<1> QED  BY <1>1, FS_Subset, FS_CardinalityType

LEMMA LatestFacts ==
  ASSUME PollTypeOK, NEW list \in SUBSET indexed
  PROVE  /\ Latest(list) \in {0} \cup {LocktimeOf[s] : s \in Shields}
         /\ Latest(list) \in Nat /\ fromtime \in Nat
         /\ Latest(list) = fromtime \/ \E s \in list : Latest(list) = LocktimeOf[s]
<1> USE PollAssumption DEF PollTypeOK
<1> DEFINE times == {LocktimeOf[s] : s \in list}
           T == {fromtime} \cup times
<1>1. IsFiniteSet(T)
  <2>1. IsFiniteSet(list)
    BY SinceFacts
  <2>2. IsFiniteSet(times)
    <3> DEFINE f == [s \in list |-> LocktimeOf[s]]
    <3>1. f \in Surjection(list, times)
      BY DEF Surjection
    <3> HIDE DEF f, times
    <3> QED  BY <2>1, <3>1, FS_Surjection
  <2> HIDE DEF times
  <2> QED  BY <2>2, FS_Singleton, FS_Union
<1>2. T \subseteq Nat /\ T # {}
  <2>1. LocktimeOf \in [Shields -> Nat] /\ list \in SUBSET Shields
    OBVIOUS
  <2>2. fromtime = 0 \/ \E s \in Shields : fromtime = LocktimeOf[s]
    OBVIOUS
  <2>3. times \subseteq Nat
    BY <2>1
  <2>4. fromtime \in Nat
    BY <2>1, <2>2
  <2> HIDE DEF times
  <2> QED  BY <2>3, <2>4
<1>3. Latest(list) \in T
  <2>1. Latest(list) = Max(T)
    BY DEF Latest
  <2> HIDE DEF T
  <2> QED  BY <1>1, <1>2, <2>1, MaxFacts
<1> QED  BY <1>2, <1>3

-----------------------------------------------------------------------------
(***************************************************************************)
(* The shield poller.  A round starts at 0, and a start has one left.      *)
(***************************************************************************)

PollInv ==
  /\ PollTypeOK /\ NoneIsPassedOver
  /\ pollPc = "sleep" => offset = 0
  /\ pollPc = "start" => starts < MaxStarts

Unserved == indexed \ (requested \cup refused \cup missed)

LEMMA PollInit1 == PollInit => PollInv
<1> SUFFICES ASSUME PollInit PROVE PollInv
  OBVIOUS
<1>1. Cardinality({}) = 0
  BY FS_EmptySet
<1> QED  BY <1>1, PollAssumption DEF PollInit, PollInv, PollTypeOK, NoneIsPassedOver

\* What is passed over on a start is missed.
LEMMA StartStep == ASSUME PollInv, Start PROVE PollInv'
<1> USE PollAssumption DEF PollInv, PollTypeOK, Start
<1>1. indexed \in SUBSET Shields /\ indexed' = indexed /\ Cardinality(indexed) \in Nat
  BY SinceFacts
<1>2. PICK now \in {LocktimeOf[s] : s \in Shields} :
        /\ fromtime' = now
        /\ missed' = missed \cup {s \in indexed : LocktimeOf[s] < now}
  OBVIOUS
<1>3. PollTypeOK'
  <2>1. /\ pollPc' = "fetch" /\ offset' = 0 /\ starts' \in 0 .. MaxStarts
        /\ Cardinality(indexed)' = Cardinality(indexed)
    BY <1>1
  <2>2. offset' \in 0 .. Cardinality(indexed)'
    BY <1>1, <2>1
  <2> QED  BY <1>1, <1>2, <2>1, <2>2
<1>4. NoneIsPassedOver'
  <2> SUFFICES ASSUME NEW s \in indexed', s \notin (requested \cup refused \cup missed)'
               PROVE  LocktimeOf[s] >= fromtime' /\ Place(s, Since(fromtime)') >= offset'
    BY DEF NoneIsPassedOver
  <2>1. LocktimeOf[s] \in Nat /\ now \in Nat /\ ~(LocktimeOf[s] < now)
    BY <1>1, <1>2
  <2>2. IsFiniteSet(Since(fromtime)')
    BY <1>1, SinceFacts DEF Since
  <2>3. Place(s, Since(fromtime)') \in Nat
    BY <2>2, PlaceType
  <2> QED  BY <1>2, <2>1, <2>3
<1> QED  BY <1>3, <1>4

\* A shield that is not on the page, and was not passed before, is after the
\* page: in a place after its last one, and not before its time.
LEMMA FetchStep ==
  ASSUME PollInv, NEW failing \in SUBSET Shields, Fetch(failing)
  PROVE  PollInv'
<1> USE PollAssumption
<1> DEFINE S == Since(fromtime)
           L == Page(fromtime, offset)
<1>1. PollTypeOK /\ indexed \in SUBSET Shields /\ offset \in Nat
  BY SinceFacts DEF PollInv, PollTypeOK
<1>2. S \subseteq indexed /\ L \subseteq S
  BY DEF Since, Page
<1>3. /\ IsFiniteSet(S) /\ S \subseteq Nat /\ Cardinality(S) \in Nat
      /\ Cardinality(S) <= Cardinality(indexed) /\ Cardinality(indexed) \in Nat
  BY <1>1, <1>2, SinceFacts
<1>4. L = {s \in S : Place(s, S) \in offset .. offset + PageCap - 1}
  BY DEF Page
<1>5. /\ Cardinality(L) \in Nat /\ Cardinality(L) <= PageCap
      /\ L # {} => offset + Cardinality(L) <= Cardinality(S)
  <2>1. IsFiniteSet(L) /\ Cardinality(L) \in 0 .. PageCap
    BY <1>1, <1>3, <1>4, PageLength
  <2>2. L # {} => offset + Cardinality(L) <= Cardinality(S)
    BY <1>1, <1>3, <1>4, PageLength
  <2> QED  BY <2>1, <2>2
<1>6. /\ Latest(L) \in {0} \cup {LocktimeOf[s] : s \in Shields}
      /\ Latest(L) \in Nat /\ fromtime \in Nat
      /\ Latest(L) = fromtime \/ \E s \in L : Latest(L) = LocktimeOf[s]
  BY <1>1, <1>2, LatestFacts
<1>7. /\ failing \subseteq L /\ requested' = requested \cup (L \ failing)
      /\ refused' = refused \cup failing
      /\ fromtime' = Advanced(L) /\ offset' = NextOffset(L)
      /\ pollPc' = IF Cardinality(L) > Threshold THEN "fetch" ELSE "sleep"
      /\ UNCHANGED <<indexed, missed, starts>>
  BY DEF Fetch
\* What is still unserved comes after the page.
<1>8. ASSUME NEW s \in Unserved'
      PROVE  /\ s \in S /\ s \in Shields /\ LocktimeOf[s] \in Nat /\ LocktimeOf[s] >= fromtime
             /\ Place(s, S) \in Nat /\ Place(s, S) >= offset + PageCap
  <2>1. s \in Unserved /\ s \notin L
    BY <1>7 DEF Unserved
  <2>2. LocktimeOf[s] >= fromtime /\ Place(s, S) >= offset /\ s \in indexed
    BY <2>1 DEF Unserved, PollInv, NoneIsPassedOver
  <2>3. s \in S /\ Place(s, S) \in Nat
    BY <1>3, <2>2, PlaceType DEF Since
  <2>4. Place(s, S) \notin offset .. offset + PageCap - 1
    BY <1>4, <2>1, <2>3
  <2>5. Place(s, S) >= offset + PageCap
    <3> HIDE DEF S
    <3> QED  BY <1>1, <2>2, <2>3, <2>4
  <2>6. s \in Shields /\ LocktimeOf[s] \in Nat
    BY <1>1, <2>2
  <2> QED  BY <2>2, <2>3, <2>5, <2>6
<1>9. CASE Cardinality(L) > Threshold
  <2>1. /\ fromtime' = fromtime /\ offset' = offset + Cardinality(L) /\ pollPc' = "fetch"
        /\ Since(fromtime)' = S
    <3>1. ~(Cardinality(L) <= Threshold)
      <4> HIDE DEF L
      <4> QED  BY <1>5, <1>9
    <3>2. /\ fromtime' = fromtime /\ offset' = offset + Cardinality(L) /\ pollPc' = "fetch"
          /\ indexed' = indexed
      <4> HIDE DEF L
      <4> QED  BY <1>7, <1>9, <3>1 DEF Advanced, NextOffset
    <3> QED  BY <3>2 DEF Since
  <2>2. L # {}
    BY <1>5, <1>9, FS_EmptySet
  <2>3. offset' \in 0 .. Cardinality(indexed)'
    <3>1. Cardinality(indexed)' = Cardinality(indexed)
      BY <1>7
    <3> HIDE DEF S, L
    <3> QED  BY <1>1, <1>3, <1>5, <2>1, <2>2, <3>1
  <2>4. PollTypeOK'
    BY <1>1, <1>2, <1>7, <2>1, <2>3 DEF PollTypeOK
  <2>5. NoneIsPassedOver'
    <3> SUFFICES ASSUME NEW s \in Unserved'
                 PROVE  LocktimeOf[s] >= fromtime' /\ Place(s, Since(fromtime)') >= offset'
      BY DEF NoneIsPassedOver, Unserved
    <3>1. Place(s, S) >= offset + Cardinality(L)
      <4>1. Place(s, S) \in Nat /\ Place(s, S) >= offset + PageCap
        BY <1>8
      <4> HIDE DEF S, L
      <4> QED  BY <1>1, <1>5, <4>1
    <3> QED  BY <1>8, <2>1, <3>1
  <2> QED  BY <2>1, <2>4, <2>5 DEF PollInv
<1>10. CASE ~(Cardinality(L) > Threshold)
  <2>1. fromtime' = Latest(L) /\ offset' = 0 /\ pollPc' = "sleep"
    <3>1. Cardinality(L) <= Threshold
      <4> HIDE DEF L
      <4> QED  BY <1>5, <1>10
    <3> QED  BY <1>7, <1>10, <3>1 DEF Advanced, NextOffset
  <2>2. PollTypeOK'
    <3>1. Cardinality(indexed)' = Cardinality(indexed)
      BY <1>7
    <3>2. fromtime' \in {0} \cup {LocktimeOf[s] : s \in Shields} /\ offset' \in 0 .. Cardinality(indexed)'
      <4> HIDE DEF S, L
      <4> QED  BY <1>3, <1>6, <2>1, <3>1
    <3>3. requested' \subseteq indexed' /\ refused' \subseteq indexed'
      BY <1>1, <1>2, <1>7 DEF PollTypeOK
    <3> HIDE DEF S, L
    <3> QED  BY <1>1, <1>7, <2>1, <3>2, <3>3 DEF PollTypeOK
  <2>3. NoneIsPassedOver'
    <3> SUFFICES ASSUME NEW s \in Unserved'
                 PROVE  LocktimeOf[s] >= fromtime' /\ Place(s, Since(fromtime)') >= offset'
      BY DEF NoneIsPassedOver, Unserved
    <3>1. ASSUME NEW t \in L PROVE LocktimeOf[t] <= LocktimeOf[s]
      <4>1. t \in S /\ Place(t, S) \in offset .. offset + PageCap - 1 /\ t \in Shields
        BY <1>1, <1>2, <1>4
      <4>2. Place(t, S) < Place(s, S)
        <5>1. Place(s, S) \in Nat /\ Place(s, S) >= offset + PageCap
          BY <1>8
        <5> HIDE DEF S
        <5> QED  BY <1>1, <4>1, <5>1
      <4>3. t < s
        BY <1>3, <1>8, <4>1, <4>2, PlaceOrder
      <4> QED  BY <1>8, <4>1, <4>3
    <3>2. LocktimeOf[s] >= Latest(L)
      <4>1. LocktimeOf[s] \in Nat /\ LocktimeOf[s] >= fromtime
        BY <1>8
      <4>2. ASSUME NEW t \in L PROVE LocktimeOf[s] >= LocktimeOf[t]
        <5>1. LocktimeOf[t] \in Nat
          BY <1>1, <1>2
        <5> QED  BY <3>1, <4>1, <5>1
      <4> QED  BY <1>6, <4>1, <4>2
    <3>3. Place(s, Since(fromtime)') \in Nat
      <4>1. IsFiniteSet(Since(fromtime)')
        BY <1>1, <1>7, SinceFacts DEF Since
      <4> QED  BY <4>1, PlaceType
    <3> QED  BY <2>1, <3>2, <3>3
  <2> QED  BY <2>1, <2>2, <2>3 DEF PollInv
<1> QED  BY <1>9, <1>10

\* Another shield moves the places of those after it on, and is itself in a
\* place that the round has yet to reach, or missed.
LEMMA IndexStep ==
  ASSUME PollInv, NEW s \in Shields, Index(s)
  PROVE  PollInv'
<1> USE PollAssumption
<1> DEFINE S == Since(fromtime)
<1>1. PollTypeOK /\ indexed \in SUBSET Shields /\ indexed' \in SUBSET Shields
  BY DEF PollInv, PollTypeOK, Index
<1>2. /\ s \notin indexed /\ indexed' = indexed \cup {s}
      /\ missed \subseteq missed' /\ missed' \subseteq missed \cup {s}
      /\ UNCHANGED <<pollPc, fromtime, offset, requested, refused, starts>>
  BY DEF Index
<1>3. Cardinality(indexed) \in Nat /\ Cardinality(indexed') \in Nat
      /\ Cardinality(indexed) <= Cardinality(indexed')
  BY <1>1, <1>2, SinceFacts
<1>4. PollTypeOK'
  <2>1. offset' \in 0 .. Cardinality(indexed)'
    BY <1>1, <1>2, <1>3 DEF PollTypeOK
  <2> QED  BY <1>1, <1>2, <2>1 DEF PollTypeOK
<1>5. S' \subseteq S \cup {s} /\ S \subseteq S' /\ IsFiniteSet(S')
  <2>1. S' \subseteq indexed'
    BY DEF Since
  <2>2. S' \subseteq S \cup {s} /\ S \subseteq S'
    BY <1>2 DEF Since
  <2> HIDE DEF S
  <2> QED  BY <1>1, <2>1, <2>2, SinceFacts
\* Places only grow.
<1>6. ASSUME NEW t \in Nat PROVE Place(t, S) <= Place(t, S') /\ Place(t, S) \in Nat /\ Place(t, S') \in Nat
  <2> DEFINE B == {x \in S : x < t}
             C == {x \in S' : x < t}
  <2>1. B \in SUBSET C /\ C \in SUBSET S'
    <3> HIDE DEF S
    <3> QED  BY <1>5
  <2>2. Place(t, S) = Cardinality(B) /\ Place(t, S') = Cardinality(C)
    BY DEF Place
  <2>3. Cardinality(B) <= Cardinality(C) /\ IsFiniteSet(S)
    <3> HIDE DEF B, C, S
    <3> QED  BY <1>5, <2>1, FS_Subset
  <2>4. Place(t, S) \in Nat /\ Place(t, S') \in Nat
    <3> HIDE DEF B, C, S
    <3> QED  BY <1>5, <2>3, PlaceType
  <2> HIDE DEF B, C, S
  <2> QED  BY <2>2, <2>3, <2>4
<1>7. NoneIsPassedOver'
  <2> SUFFICES ASSUME NEW t \in Unserved'
               PROVE  LocktimeOf[t] >= fromtime /\ Place(t, S') >= offset
    BY <1>2 DEF NoneIsPassedOver, Unserved
  <2>1. t \in Shields /\ t \in Nat /\ LocktimeOf[t] \in Nat /\ offset \in Nat /\ fromtime \in Nat
    BY <1>1, <1>3 DEF Unserved, PollTypeOK
  <2>2. CASE t = s
    <3>1. s \notin missed'
      BY <2>2 DEF Unserved
    <3>2. /\ ~(LocktimeOf[s] < fromtime)
          /\ pollPc = "sleep" \/ ~(Cardinality({x \in S : x < s}) < offset)
      BY <3>1 DEF Index
    <3>3. pollPc = "sleep" => offset = 0
      BY DEF PollInv
    <3>4. offset = 0 \/ ~(Place(s, S) < offset)
      BY <3>2, <3>3 DEF Place
    <3>5. Place(s, S) <= Place(s, S') /\ Place(s, S) \in Nat /\ Place(s, S') \in Nat
      BY <1>6
    <3> HIDE DEF S
    <3> QED  BY <2>1, <2>2, <3>2, <3>4, <3>5
  <2>3. CASE t # s
    <3>1. t \in Unserved
      BY <1>2, <2>3 DEF Unserved
    <3>2. LocktimeOf[t] >= fromtime /\ Place(t, S) >= offset
      BY <3>1 DEF PollInv, NoneIsPassedOver, Unserved
    <3>3. Place(t, S) <= Place(t, S') /\ Place(t, S) \in Nat /\ Place(t, S') \in Nat
      BY <1>6, <2>1
    <3> HIDE DEF S
    <3> QED  BY <2>1, <3>2, <3>3
  <2> QED  BY <2>2, <2>3
<1> QED  BY <1>2, <1>4, <1>7 DEF PollInv

\* What moves neither the round nor the lists moves no place.
LEMMA IdleStep ==
  ASSUME PollInv, UNCHANGED <<fromtime, offset, indexed, requested, refused, missed, starts>>,
         pollPc' \in {"start", "fetch", "sleep", "panic"},
         pollPc' = "sleep" => pollPc = "sleep",
         pollPc' = "start" => starts < MaxStarts
  PROVE  PollInv'
<1>1. PollTypeOK'
  BY DEF PollInv, PollTypeOK
<1>2. Since(fromtime)' = Since(fromtime)
  BY DEF Since
<1>3. NoneIsPassedOver'
  BY <1>2 DEF PollInv, NoneIsPassedOver
<1> QED  BY <1>1, <1>3 DEF PollInv

LEMMA PollStep == PollInv /\ [PollNext]_pollVars => PollInv'
<1> SUFFICES ASSUME PollInv, [PollNext]_pollVars PROVE PollInv'
  OBVIOUS
<1>1. ASSUME NEW failing \in SUBSET Shields, Fetch(failing) PROVE PollInv'
  BY <1>1, FetchStep
<1>2. ASSUME NEW s \in Shields, Index(s) PROVE PollInv'
  BY <1>2, IndexStep
<1>3. CASE Start
  BY <1>3, StartStep
<1>4. CASE Wake \/ Panic \/ StartAgain
  BY <1>4, IdleStep DEF Wake, Panic, StartAgain
<1>5. CASE UNCHANGED pollVars
  <2>1. pollPc \in {"start", "fetch", "sleep", "panic"} /\ (pollPc = "start" => starts < MaxStarts)
    BY DEF PollInv, PollTypeOK
  <2> QED  BY <1>5, <2>1, IdleStep DEF pollVars
<1> QED  BY <1>1, <1>2, <1>3, <1>4, <1>5 DEF PollNext, Poll

\* For any shields, times, thresholds and page sizes: the poller passes no
\* shield over but those that it has requested, or whose request has failed,
\* or that were indexed behind its back.
THEOREM NoneIsPassedOverCorrect == PollSpec => []NoneIsPassedOver
<1>1. PollInv => NoneIsPassedOver
  BY DEF PollInv
<1> QED  BY <1>1, PollInit1, PollStep, PTL DEF PollSpec

-----------------------------------------------------------------------------
(***************************************************************************)
(* The three parts side by side: each may step, alone or with the others,  *)
(* which MCHelpers does not let it.                                        *)
(***************************************************************************)

PartsInit == PollInit /\ NotiInit /\ ChoiceInit
PartsNext == [PollNext]_pollVars /\ [NotiNext]_notiVars /\ [ChoiceNext]_choiceVars
PartsSpec == PartsInit /\ [][PartsNext]_<<pollVars, notiVars, choiceVars>>

PartsInv == PollInv /\ NotiInv /\ Inv /\ SumInv

LEMMA PartsStep ==
  PartsInv /\ [PartsNext]_<<pollVars, notiVars, choiceVars>> => PartsInv'
<1> SUFFICES ASSUME PartsInv, [PartsNext]_<<pollVars, notiVars, choiceVars>>
             PROVE  PartsInv'
  OBVIOUS
<1>1. [PollNext]_pollVars /\ [NotiNext]_notiVars /\ [ChoiceNext]_choiceVars
  BY DEF PartsNext
<1>2. PollInv' /\ NotiInv'
  BY <1>1, PollStep, NotiStep DEF PartsInv
<1>3. Inv'
  BY <1>1, InvStep DEF PartsInv
<1>4. SumInv'
  BY <1>1, <1>3, SumStep DEF PartsInv
<1> QED  BY <1>2, <1>3, <1>4 DEF PartsInv

\* Every variable of the three parts keeps its type when they run side by
\* side, whatever the parts' constants are; remainAmount, a uint64, does not
\* wrap around.
THEOREM HelpersTypeCorrect == PartsSpec => []TypeOK
<1>1. PartsInit => PartsInv
  BY PollInit1, NotiInit1, InvInit, SumInit DEF PartsInit, PartsInv
<1>2. PartsInv => TypeOK
  BY TypeInv DEF PartsInv, TypeOK, PollInv, NotiInv
<1> QED  BY <1>1, <1>2, PartsStep, PTL DEF PartsSpec

\* A behaviour of MCHelpers, in which one part runs, is one of those.
THEOREM HelpersAreParts == Spec => PartsSpec
<1>1. Init => PartsInit
  BY DEF Init, PartsInit
<1>2. [Next]_vars => [PartsNext]_<<pollVars, notiVars, choiceVars>>
  BY DEF Next, vars, PartsNext
<1> QED  BY <1>1, <1>2, PTL DEF Spec, PartsSpec
=============================================================================
