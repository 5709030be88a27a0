------------------------------ MODULE SlackNoti ------------------------------
(***************************************************************************)
(* The Slack notifier (slacknoti/slack.go): goroutines hand their messages *)
(* to StartSlackHook over an unbuffered channel, which posts what it has   *)
(* gathered every two seconds.  notiLock is left out: only StartSlackHook  *)
(* takes it.  Slack is external.                                           *)
(***************************************************************************)
EXTENDS Naturals

CONSTANT Messages   \* each is sent by a goroutine of its own

VARIABLES
  hookPc,        \* StartSlackHook: "start", "select", "post"; "gone": it has panicked
  senderPc,      \* SendSlackNoti: "idle", "called", "blocked", "sent"
  sawNil,        \* the messages whose goroutines have found the channel nil
  notiArray,
  posts          \* the posts that had each message

notiVars == <<hookPc, senderPc, sawNil, notiArray, posts>>

Running == hookPc # "gone"
Moves(m, from, to) == senderPc[m] = from /\ senderPc' = [senderPc EXCEPT ![m] = to]

\* The channel is made.  StartSlackHook is started before the first request is
\* served, but nothing makes a goroutine wait for it.
MakeChannel ==
  /\ hookPc = "start" /\ hookPc' = "select"
  /\ UNCHANGED <<senderPc, sawNil, notiArray, posts>>

\* go slacknoti.SendSlackNoti(msg), in chooseAirdropAccount.
Call(m) ==
  /\ Running /\ Moves(m, "idle", "called")
  /\ UNCHANGED <<hookPc, sawNil, notiArray, posts>>

\* notiChan is read; a send on a nil channel blocks for ever.
Begin(m) ==
  /\ Running /\ Moves(m, "called", "blocked")
  /\ sawNil' = IF hookPc = "start" THEN sawNil \cup {m} ELSE sawNil
  /\ UNCHANGED <<hookPc, notiArray, posts>>

\* The goroutines from which StartSlackHook may receive.
Listening == hookPc = "select"
MayHand(m) == Listening /\ m \notin sawNil

\* case noti := <-notiChan
Receive(m) ==
  /\ MayHand(m) /\ Moves(m, "blocked", "sent")
  /\ notiArray' = notiArray \cup {m}
  /\ UNCHANGED <<hookPc, sawNil, posts>>

\* Whether there is something to post.  A slip waits for a second message.
DueForMany == \E m, n \in notiArray : m # n
Due == notiArray # {}

\* case <-t.C
Tick2s ==
  /\ Listening /\ Due /\ hookPc' = "post"
  /\ UNCHANGED <<senderPc, sawNil, notiArray, posts>>

\* What is left of notiArray after a post, and the slip that keeps it.
KeptAfterPost == notiArray
AfterPost == {}

\* send, where Slack answers, whatever it answers ...
Post ==
  /\ hookPc = "post" /\ hookPc' = "select"
  /\ posts' = [m \in Messages |-> IF m \in notiArray THEN posts[m] + 1 ELSE posts[m]]
  /\ notiArray' = AfterPost
  /\ UNCHANGED <<senderPc, sawNil>>

\* ... and where it does not: resp is nil, and resp.Status panics.
PostFails ==
  /\ hookPc = "post" /\ hookPc' = "gone"
  /\ UNCHANGED <<senderPc, sawNil, notiArray, posts>>

NotiInit ==
  /\ hookPc = "start" /\ senderPc = [m \in Messages |-> "idle"] /\ sawNil = {}
  /\ notiArray = {} /\ posts = [m \in Messages |-> 0]

NotiNext ==
  \/ MakeChannel \/ Tick2s \/ Post \/ PostFails
  \/ \E m \in Messages : Call(m) \/ Begin(m) \/ Receive(m)

NotiSpec == NotiInit /\ [][NotiNext]_notiVars

-----------------------------------------------------------------------------
\* Every variable has its type.
NotiTypeOK ==
  /\ hookPc \in {"start", "select", "post", "gone"}
  /\ senderPc \in [Messages -> {"idle", "called", "blocked", "sent"}]
  /\ sawNil \subseteq {m \in Messages : senderPc[m] = "blocked"}
  /\ notiArray \subseteq Messages /\ posts \in [Messages -> Nat]

\* A message that has been handed over waits in notiArray or has been posted,
\* and never both: none is posted twice, and none is forgotten between posts.
PostedOnce ==
  \A m \in Messages :
    posts[m] = IF senderPc[m] = "sent" /\ m \notin notiArray THEN 1 ELSE 0

\* If no post hangs, a message is posted in the end, unless its goroutine came
\* before StartSlackHook or a post has brought the process down.
EachIsPosted ==
  []<>(hookPc # "post") =>
    \A m \in Messages :
      senderPc[m] = "called" ~> posts[m] > 0 \/ m \in sawNil \/ ~Running
=============================================================================
