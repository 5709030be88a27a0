------------------------------ MODULE MCHelpers ------------------------------
(***************************************************************************)
(* Three parts that share no state, the shield poller, the Slack notifier  *)
(* and ChooseBestUTXOs, for TLC: a behaviour is one of one of them, for    *)
(* there is nothing to learn from their interleavings.                     *)
(***************************************************************************)
EXTENDS ShieldPoll, SlackNoti, CoinChoice

CONSTANTS m1, m2

VARIABLE shown   \* the part that this behaviour is of

\* Two shields of the same time, and two that are alone.
MCLocktimeOf == <<1, 1, 2, 3>>
MCValueOf == <<1, 2, 2, 4, 7>>

Init ==
  /\ shown \in {"poll", "noti", "choice"}
  /\ PollInit /\ NotiInit /\ ChoiceInit /\ (shown # "choice" => offered = {})

Next ==
  \/ shown = "poll" /\ PollNext /\ UNCHANGED <<notiVars, choiceVars, shown>>
  \/ shown = "noti" /\ NotiNext /\ UNCHANGED <<pollVars, choiceVars, shown>>
  \/ shown = "choice" /\ ChoiceNext /\ UNCHANGED <<pollVars, notiVars, shown>>

vars == <<pollVars, notiVars, choiceVars, shown>>

\* The poller runs.  So do the goroutines of the notifier, and select chooses
\* what is ready in the end; a post need not end, for http.DefaultClient has no
\* time-out.
OfPoll(A) == shown = "poll" /\ A /\ UNCHANGED <<notiVars, choiceVars, shown>>
OfNoti(A) == shown = "noti" /\ A /\ UNCHANGED <<pollVars, choiceVars, shown>>
Fairness ==
  /\ WF_vars(OfPoll(Poll)) /\ WF_vars(OfNoti(MakeChannel)) /\ SF_vars(OfNoti(Tick2s))
  /\ \A m \in Messages : WF_vars(OfNoti(Begin(m))) /\ SF_vars(OfNoti(Receive(m)))

Spec == Init /\ [][Next]_vars /\ Fairness

\* Every variable of the three parts has its type; the loop of ChooseBestUTXOs
\* keeps remainAmount, a uint64, from wrapping around.
TypeOK == PollTypeOK /\ NotiTypeOK /\ ChoiceTypeOK
=============================================================================
