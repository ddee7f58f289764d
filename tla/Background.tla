---------------------------- MODULE Background -----------------------------
(***************************************************************************)
(* Background runs (`on_background` and `background` of                    *)
(* crates/murtaugh-gateway/src/chat.rs): what a node's session does        *)
(* between turns is drawn by one task per session, which is started by the *)
(* first event that finds none and ends when it finds nothing left to do.  *)
(*                                                                         *)
(* Events of a session are numbered in the order the node sent them.  What *)
(* the cards of a run ask for is in module Cards.                          *)
(***************************************************************************)
EXTENDS Naturals, Sequences, SequencesExt

CONSTANTS
  Session,    \* the sessions, each on a node
  Task,       \* what may be drawing at one time
  None,
  Limit       \* the most events a session sends: bounds the model

ASSUME TaskAssumption == None \notin Task
ASSUME LimitAssumption == Limit \in Nat

VARIABLES
  sent,         \* Session -> how many of its events were handed in
  backgrounds,  \* Session -> the task whose channel takes them, or None
  channel,      \* Task -> the events sent to it and not received
  task,         \* Task -> the run
  shown,        \* Session -> the events drawn
  dropped       \* Session -> the events of no thread, thrown away

vars == <<sent, backgrounds, channel, task, shown, dropped>>

Stages == {"free", "placing", "showing", "idle", "draining", "finishing", "closing"}

Run  == [of : Session \cup {None}, at : Stages, done : BOOLEAN]
Free == [of |-> None, at |-> "free", done |-> FALSE]

Init ==
  /\ sent        = [s \in Session |-> 0]
  /\ backgrounds = [s \in Session |-> None]
  /\ channel     = [w \in Task |-> <<>>]
  /\ task        = [w \in Task |-> Free]
  /\ shown       = [s \in Session |-> <<>>]
  /\ dropped     = [s \in Session |-> {}]

At(w, stage)    == task[w].at = stage
Moves(w, stage) == task' = [task EXCEPT ![w].at = stage]
Received(w)     == channel' = [channel EXCEPT ![w] = Tail(@)]

----------------------------------------------------------------------------
(* `on_background` *)

Sends(s) == sent[s] < Limit /\ sent' = [sent EXCEPT ![s] = @ + 1]

ToRun(s) ==
  /\ Sends(s)
  /\ backgrounds[s] # None
  /\ channel' = [channel EXCEPT ![backgrounds[s]] = Append(@, sent'[s])]
  /\ UNCHANGED <<backgrounds, task, shown, dropped>>

StartsRun(s, w) ==
  /\ Sends(s)
  /\ backgrounds[s] = None
  /\ At(w, "free")
  /\ channel' = [channel EXCEPT ![w] = <<sent'[s]>>]
  /\ backgrounds' = [backgrounds EXCEPT ![s] = w]
  /\ task' = [task EXCEPT ![w] = [of |-> s, at |-> "placing", done |-> FALSE]]
  /\ UNCHANGED <<shown, dropped>>

----------------------------------------------------------------------------
(* `background` *)

(* `pinned`: a thread is pinned to the session and its node is there, or   *)
(* not, or the store cannot tell.                                          *)
Placed(w) ==
  /\ At(w, "placing")
  /\ \E stage \in {"showing", "draining"} :
       task' = [task EXCEPT ![w].at = stage, ![w].done = FALSE]
  /\ UNCHANGED <<sent, backgrounds, channel, shown, dropped>>

Shows(w) ==
  /\ At(w, "showing") \/ At(w, "idle")
  /\ channel[w] # <<>>
  /\ Received(w)
  /\ shown' = [shown EXCEPT ![task[w].of] = Append(@, Head(channel[w]))]
  /\ \E completes \in BOOLEAN :
       task' = [task EXCEPT ![w].at = "showing", ![w].done = @ \/ completes]
  /\ UNCHANGED <<sent, backgrounds, dropped>>

(* Nothing came for long. *)
Idles(w) ==
  /\ At(w, "showing")
  /\ channel[w] = <<>>
  /\ Moves(w, "idle")
  /\ UNCHANGED <<sent, backgrounds, channel, shown, dropped>>

(* A bug's: the entry is gone before the reply is finished. *)
EntryGoneEarly(w) == [backgrounds EXCEPT ![task[w].of] = None]

EntryWhileFinishing(w) == backgrounds

(* The agent is done and no card is left, which is looked at before every  *)
(* event, or the run idled, which is tried in no order with an event that  *)
(* came just then.                                                         *)
ShowEnds(w) ==
  /\ (At(w, "showing") /\ task[w].done) \/ At(w, "idle")
  /\ Moves(w, "finishing")
  /\ backgrounds' = EntryWhileFinishing(w)
  /\ UNCHANGED <<sent, channel, shown, dropped>>

Finished(w) ==
  /\ At(w, "finishing")
  /\ Moves(w, "closing")
  /\ UNCHANGED <<sent, backgrounds, channel, shown, dropped>>

Drains(w) ==
  /\ At(w, "draining")
  /\ channel[w] # <<>>
  /\ Received(w)
  /\ dropped' = [dropped EXCEPT ![task[w].of] = @ \cup {Head(channel[w])}]
  /\ UNCHANGED <<sent, backgrounds, task, shown>>

Drained(w) ==
  /\ At(w, "draining")
  /\ channel[w] = <<>>
  /\ Moves(w, "closing")
  /\ UNCHANGED <<sent, backgrounds, channel, shown, dropped>>

(* A bug's: that nothing is left was seen before the lock was taken. *)
NothingLeftBefore(w) == TRUE

NothingLeft(w) == channel[w] = <<>>

(* Under the lock: an event sent while the run was ending starts the next. *)
Close(w) ==
  /\ At(w, "closing")
  /\ IF NothingLeft(w)
     THEN /\ backgrounds' = [backgrounds EXCEPT ![task[w].of] = None]
          /\ task' = [task EXCEPT ![w] = Free]
     ELSE Moves(w, "placing") /\ UNCHANGED backgrounds
  /\ UNCHANGED <<sent, channel, shown, dropped>>

TaskStep(w) ==
  \/ Placed(w)
  \/ Shows(w)
  \/ Finished(w)
  \/ Drains(w)
  \/ Drained(w)
  \/ Close(w)

Next ==
  \/ \E s \in Session : ToRun(s) \/ \E w \in Task : StartsRun(s, w)
  \/ \E w \in Task : TaskStep(w) \/ Idles(w) \/ ShowEnds(w)

Spec == Init /\ [][Next]_vars

(* Slack's and the store's calls end.  A run need not. *)
FairSpec == Spec /\ \A w \in Task : WF_vars(TaskStep(w))

----------------------------------------------------------------------------
(* Properties *)

(* Every variable keeps its type, and a task that is not there has nothing *)
(* to receive.                                                             *)
TypeOK ==
  /\ sent \in [Session -> Nat]
  /\ backgrounds \in [Session -> Task \cup {None}]
  /\ channel \in [Task -> Seq(Nat)]
  /\ task \in [Task -> Run]
  /\ \A w \in Task : At(w, "free") => channel[w] = <<>>
  /\ shown \in [Session -> Seq(Nat)]
  /\ dropped \in [Session -> SUBSET Nat]

(* A session's events are taken by the one task that runs for it: no event *)
(* waits in a channel nobody reads, and no two replies are drawn at once.  *)
OneTask ==
  \A w \in Task, s \in Session :
    backgrounds[s] = w <=> ~At(w, "free") /\ task[w].of = s

(* Every event handed in was drawn, dropped for want of a thread, or waits *)
(* in the channel of the session's task.                                   *)
NoneStranded ==
  \A s \in Session : \A n \in 1 .. sent[s] :
    \/ n \in ToSet(shown[s]) \cup dropped[s]
    \/ backgrounds[s] # None /\ n \in ToSet(channel[backgrounds[s]])

(* "the one task that draws them keeps a session's events in the order the *)
(* node sent them"                                                         *)
InOrder ==
  \A s \in Session : \A i, j \in DOMAIN shown[s] :
    i < j => shown[s][i] < shown[s][j]

(* One task draws the background work of a session, in order, and none of  *)
(* its events is left with nobody to draw it.                              *)
DrawnInOrder == TypeOK /\ OneTask /\ NoneStranded /\ InOrder

(* Whatever runs end meanwhile, every event is drawn or dropped. *)
EveryEventSettles ==
  \A s \in Session : \A n \in 1 .. Limit :
    sent[s] >= n ~> n \in ToSet(shown[s]) \cup dropped[s]
=============================================================================
