------------------------------ MODULE ShieldPoll ------------------------------
(***************************************************************************)
(* The shield poller (shielddrop/main.go): it asks the coin service for    *)
(* the shielding transactions since fromtime, page by page, and requests   *)
(* an airdrop for the receivers of each.  The coin service and the airdrop *)
(* service are external.  A shield is a number; shields are numbered in    *)
(* the order in which the coin service lists them, by Locktime.            *)
(***************************************************************************)
EXTENDS Integers, FiniteSets, FiniteSetsExt

CONSTANTS
  Shields,
  LocktimeOf,
  Threshold,    \* 1000: after a page of more than that another is fetched
  PageCap,      \* the shields that the coin service returns at most
  MaxStarts     \* bound on the starts of the process

ASSUME PollAssumption ==
  /\ Shields \subseteq Nat /\ IsFiniteSet(Shields)
  /\ LocktimeOf \in [Shields -> Nat]
  /\ \A s, t \in Shields : s < t => LocktimeOf[s] <= LocktimeOf[t]
  /\ Threshold \in Nat \ {0} /\ PageCap \in Nat \ {0} /\ MaxStarts \in Nat \ {0}

VARIABLES
  pollPc,           \* "start", "fetch", "sleep", "panic"
  fromtime, offset,
  indexed,          \* the shields that the coin service knows
  requested,        \* the shields whose airdrop was requested
  refused,          \* history: ... of which requestAirdrop has failed
  missed,           \* history: indexed behind the poller's back
  starts

pollVars == <<pollPc, fromtime, offset, indexed, requested, refused, missed, starts>>

\* What the coin service lists, and where: from a time on, by Locktime.
Since(time) == {s \in indexed : LocktimeOf[s] >= time}
Place(s, S) == Cardinality({t \in S : t < s})

\* getShieldWithRespond
Page(time, from) == {s \in Since(time) : Place(s, Since(time)) \in from .. from + PageCap - 1}

\* The time of the last shield.
Latest(list) == Max({fromtime} \cup {LocktimeOf[s] : s \in list})

\* A page that may have a successor does not move fromtime: the offset counts
\* from there.  A slip moves it on every page.
AdvancedAlways(list) == Latest(list)
Advanced(list) == IF Cardinality(list) <= Threshold THEN Latest(list) ELSE fromtime

\* The next page starts where this one ends; each round starts at 0.  A slip
\* goes on where the last round has ended.
NextOffsetKept(list) == offset + Cardinality(list)
NextOffset(list) == IF Cardinality(list) > Threshold THEN offset + Cardinality(list) ELSE 0

\* main: only what is shielded from now on counts, where now is not before any
\* shield that is already known.
Start ==
  /\ pollPc = "start" /\ pollPc' = "fetch"
  /\ \E now \in {LocktimeOf[s] : s \in Shields} :
       /\ \A s \in indexed : LocktimeOf[s] <= now
       /\ fromtime' = now
       /\ missed' = missed \cup {s \in indexed : LocktimeOf[s] < now}
  /\ offset' = 0
  /\ starts' = starts + 1
  /\ UNCHANGED <<indexed, requested, refused>>

\* A page and the requests for its shields, some of which fail and are logged.
Fetch(failing) ==
  LET list == Page(fromtime, offset)
  IN  /\ pollPc = "fetch"
      /\ failing \subseteq list
      /\ requested' = requested \cup (list \ failing)
      /\ refused' = refused \cup failing
      /\ fromtime' = Advanced(list)
      /\ offset' = NextOffset(list)
      /\ pollPc' = IF Cardinality(list) > Threshold THEN "fetch" ELSE "sleep"
      /\ UNCHANGED <<indexed, missed, starts>>

\* Ten seconds.
Wake ==
  /\ pollPc = "sleep" /\ pollPc' = "fetch"
  /\ UNCHANGED <<fromtime, offset, indexed, requested, refused, missed, starts>>

\* The coin service does not answer.
Panic ==
  /\ pollPc = "fetch" /\ pollPc' = "panic"
  /\ UNCHANGED <<fromtime, offset, indexed, requested, refused, missed, starts>>

\* The process is started again.
StartAgain ==
  /\ pollPc = "panic" /\ starts < MaxStarts /\ pollPc' = "start"
  /\ UNCHANGED <<fromtime, offset, indexed, requested, refused, missed, starts>>

\* The coin service learns of a shield, in any order.  One before fromtime, or
\* in a place that a round has passed, is missed.
Index(s) ==
  LET passed == {t \in Since(fromtime) : t < s}
  IN  /\ s \notin indexed /\ indexed' = indexed \cup {s}
      /\ missed' = IF LocktimeOf[s] < fromtime
                     \/ (pollPc # "sleep" /\ Cardinality(passed) < offset)
                   THEN missed \cup {s} ELSE missed
      /\ UNCHANGED <<pollPc, fromtime, offset, requested, refused, starts>>

PollInit ==
  /\ pollPc = "start" /\ fromtime = 0 /\ offset = 0
  /\ indexed = {} /\ requested = {} /\ refused = {} /\ missed = {}
  /\ starts = 0

Poll == Start \/ (\E failing \in SUBSET Shields : Fetch(failing)) \/ Wake
PollNext == Poll \/ Panic \/ StartAgain \/ \E s \in Shields : Index(s)

PollSpec == PollInit /\ [][PollNext]_pollVars

-----------------------------------------------------------------------------
\* Every variable has its type.
PollTypeOK ==
  /\ pollPc \in {"start", "fetch", "sleep", "panic"}
  /\ fromtime \in {0} \cup {LocktimeOf[s] : s \in Shields}
  /\ offset \in 0 .. Cardinality(indexed)
  /\ indexed \subseteq Shields /\ missed \subseteq indexed
  /\ requested \subseteq indexed /\ refused \subseteq indexed
  /\ starts \in 0..MaxStarts

\* The poller passes no shield over: one before fromtime, or in a place before
\* the offset, has been requested, unless the request failed, or the coin
\* service learned of it too late or while the poller was down.
NoneIsPassedOver ==
  \A s \in indexed \ (requested \cup refused \cup missed) :
    LocktimeOf[s] >= fromtime /\ Place(s, Since(fromtime)) >= offset

\* A shield that is not missed is requested in the end, however the pages fall,
\* if the poller goes on running.
EachIsRequested ==
  \A s \in Shields :
    s \in indexed ~> s \in requested \cup refused \cup missed \/ pollPc = "panic"
=============================================================================
