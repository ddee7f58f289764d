------------------------------ MODULE Socket -------------------------------
(***************************************************************************)
(* Socket Mode: the reader that keeps a connection to Slack                *)
(* (crates/murtaugh-slack/src/socket.rs), Slack as the simulator plays it  *)
(* (crates/slack-sim/src/socket.rs), and the gateway's loop with the       *)
(* events it remembers (crates/murtaugh-gateway/src/run.rs).               *)
(*                                                                         *)
(* A connection carries frames in order until it is cut.  Slack repeats an *)
(* event that is not acked in ACK_TIMEOUT, MAX_RETRIES times; a click or a *)
(* view's submission it does not repeat.  Time is left out: a wait ends at *)
(* some point, and an ack is later than ACK_TIMEOUT only MaxSlow times     *)
(* while the envelope or its ack is under way.                             *)
(***************************************************************************)
EXTENDS Naturals, Sequences, SequencesExt, FiniteSetsExt

CONSTANTS
  Envelope,
  KindOf,       \* Envelope -> "event", "click" or "view"
  Remembered,   \* REMEMBERED_EVENTS
  MaxRetries,   \* MAX_RETRIES
  MaxConns,     \* bounds the model: connections,
  MaxCuts,      \* connections cut,
  MaxRefreshes, \* connections Slack asks to replace,
  MaxSlow       \* and late acks

KindAssumption == KindOf \in [Envelope -> {"event", "click", "view"}]
BoundsAssumption ==
  /\ Remembered \in Nat \ {0}
  /\ {MaxRetries, MaxConns, MaxCuts, MaxRefreshes, MaxSlow} \subseteq Nat

VARIABLES
  conns,        \* the connections Slack has, a newer one a higher number
  refreshing,   \* those it asked to replace
  down, up,     \* connection -> the frames on their way to the app, to Slack
  pending,      \* Envelope -> the attempt that waits for its ack, or None
  undelivered,  \* what waits for a connection, with its attempt
  timers,       \* <<envelope, attempt>>
  unsent,       \* the envelopes that did not happen yet
  reader,       \* the task that reads
  answers,      \* submissions the app answered
  queue,        \* what the app has yet to take
  seen,         \* the events remembered, oldest first
  spawned,      \* the events handled, in order
  acked,        \* what Slack will not send again
  budget        \* what the bounds leave

vars == <<conns, refreshing, down, up, pending, undelivered, timers, unsent, reader,
          answers, queue, seen, spawned, acked, budget>>

slack == <<conns, refreshing, pending, undelivered, timers, unsent, acked>>
app   == <<queue, seen, spawned>>

None  == MaxRetries + 1
NoWs  == 0
Conn  == 1 .. MaxConns

Hello         == <<"hello">>
Disconnect    == <<"disconnect">>
Goodbye       == <<"close">>
Carries(e)    == <<"envelope", e>>
Open(c)       == c \in conns

Init ==
  /\ conns       = {}
  /\ refreshing  = {}
  /\ down        = [c \in Conn |-> <<>>]
  /\ up          = [c \in Conn |-> <<>>]
  /\ pending     = [e \in Envelope |-> None]
  /\ undelivered = <<>>
  /\ timers      = {}
  /\ unsent      = Envelope
  /\ reader      = [at |-> "dialling", ws |-> NoWs, old |-> NoWs, dialled |-> NoWs,
                    early |-> <<>>, backlog |-> <<>>, handing |-> <<>>]
  /\ answers     = <<>>
  /\ queue       = <<>>
  /\ seen        = <<>>
  /\ spawned     = <<>>
  /\ acked       = {}
  /\ budget      = [conns |-> MaxConns, cuts |-> MaxCuts, refreshes |-> MaxRefreshes,
                    slow |-> MaxSlow]

Running == reader.at \notin {"refused", "closed"}

Spends(what) == budget[what] > 0 /\ budget' = [budget EXCEPT ![what] = @ - 1]

----------------------------------------------------------------------------
(* Slack *)

(* Those Slack did not ask to replace. *)
FreshConns == conns \ refreshing

(* `dispatch`: on the newest connection that is to stay, or kept for one;  *)
(* the timer of the attempt before is over.                                *)
Dispatch(e, attempt, before) ==
  IF FreshConns = {}
  THEN /\ undelivered' = Append(undelivered, <<e, attempt>>)
       /\ pending' = [pending EXCEPT ![e] = None]
       /\ timers' = timers \ {<<e, before>>}
       /\ UNCHANGED down
  ELSE /\ down' = [down EXCEPT ![Max(FreshConns)] = Append(@, Carries(e))]
       /\ pending' = [pending EXCEPT ![e] = attempt]
       /\ timers' = (timers \ {<<e, before>>}) \cup {<<e, attempt>>}
       /\ UNCHANGED undelivered

Happens(e) ==
  /\ Running
  /\ e \in unsent
  /\ unsent' = unsent \ {e}
  /\ Dispatch(e, 0, None)
  /\ UNCHANGED <<conns, refreshing, up, reader, answers, app, acked, budget>>

(* The envelope or its ack is on its way. *)
UnderWay(e) ==
  \/ \E c \in conns : Carries(e) \in ToSet(down[c]) \cup ToSet(up[c])
  \/ Carries(e) \in ToSet(reader.early) \cup ToSet(reader.backlog)
  \/ e \in ToSet(queue)
  \/ e \in ToSet(answers)

(* A bug's: an event is given up at the first late ack. *)
NeverAgain(e, attempt) == FALSE

Again(e, attempt) == KindOf[e] = "event" /\ attempt < MaxRetries

(* `ack_timed_out` *)
TimesOut(e, attempt) ==
  /\ Running
  /\ <<e, attempt>> \in timers
  /\ IF pending[e] = attempt /\ UnderWay(e) THEN Spends("slow") ELSE UNCHANGED budget
  /\ IF pending[e] = attempt /\ Again(e, attempt)
     THEN Dispatch(e, attempt + 1, attempt)
     ELSE /\ pending' = [pending EXCEPT ![e] = IF @ = attempt THEN None ELSE @]
          /\ timers' = timers \ {<<e, attempt>>}
          /\ UNCHANGED <<down, undelivered>>
  /\ UNCHANGED <<conns, refreshing, up, unsent, reader, answers, app, acked>>

(* `on_frame`: an ack, or the close of the connection. *)
SlackReads(c) ==
  /\ Running
  /\ Open(c) /\ up[c] # <<>>
  /\ up' = [up EXCEPT ![c] = Tail(@)]
  /\ IF Head(up[c]) = Goodbye
     THEN /\ conns' = conns \ {c}
          /\ UNCHANGED <<pending, acked>>
     ELSE /\ pending' = [pending EXCEPT ![Head(up[c])[2]] = None]
          /\ acked' = acked \cup {Head(up[c])[2]}
          /\ UNCHANGED conns
  /\ UNCHANGED <<refreshing, down, undelivered, timers, unsent, reader, answers, app, budget>>

(* `send_disconnect` *)
Refreshes(c) ==
  /\ Running
  /\ Open(c) /\ c \notin refreshing
  /\ Spends("refreshes")
  /\ refreshing' = refreshing \cup {c}
  /\ down' = [down EXCEPT ![c] = Append(@, Disconnect)]
  /\ UNCHANGED <<conns, up, pending, undelivered, timers, unsent, reader, answers, app, acked>>

(* The connection is cut: what was on its way to Slack is lost, and what   *)
(* was on its way to the app is, or was received already.                  *)
Cut(c) ==
  /\ Running
  /\ Open(c)
  /\ Spends("cuts")
  /\ conns' = conns \ {c}
  /\ up' = [up EXCEPT ![c] = <<>>]
  /\ \E received \in {<<>>, down[c]} : down' = [down EXCEPT ![c] = received]
  /\ UNCHANGED <<refreshing, pending, undelivered, timers, unsent, reader, answers, app, acked>>

----------------------------------------------------------------------------
(* The reader *)

(* `dial`: Slack gives the new connection what waited for one.  It need    *)
(* not greet first.                                                        *)
Dials ==
  /\ reader.at = "dialling"
  /\ Spends("conns")
  /\ LET c == MaxConns - budget.conns + 1
         waiting == [i \in DOMAIN undelivered |-> Carries(undelivered[i][1])]
     IN /\ conns' = conns \cup {c}
        /\ \E early \in BOOLEAN :
             down' = [down EXCEPT ![c] = IF early THEN Append(waiting, Hello)
                                         ELSE <<Hello>> \o waiting]
        /\ reader' = [reader EXCEPT !.at = "greeting", !.dialled = c]
  /\ pending' = [e \in Envelope |->
       IF \E i \in DOMAIN undelivered : undelivered[i][1] = e
       THEN Max({undelivered[i][2] : i \in {j \in DOMAIN undelivered : undelivered[j][1] = e}})
       ELSE pending[e]]
  /\ timers' = timers \cup ToSet(undelivered)
  /\ undelivered' = <<>>
  /\ UNCHANGED <<refreshing, up, unsent, answers, app, acked>>

(* Slack refuses to open one: the reader ends. *)
Refused ==
  /\ reader.at = "dialling"
  /\ reader' = [reader EXCEPT !.at = "refused"]
  /\ UNCHANGED <<slack, down, up, answers, app, budget>>

(* The replaced connection is closed once there is a new one. *)
Closes(c) == IF Open(c) THEN [up EXCEPT ![c] = Append(@, Goodbye)] ELSE up


EarlyPutBy(c, frame) == up

Greeted ==
  /\ reader.at = "greeting"
  /\ down[reader.dialled] # <<>>
  /\ LET c == reader.dialled
         frame == Head(down[c])
     IN /\ down' = [down EXCEPT ![c] = Tail(@)]
        /\ IF frame = Hello
           THEN /\ reader' = [reader EXCEPT !.at = "reading", !.ws = c, !.dialled = NoWs,
                                            !.old = NoWs, !.early = <<>>, !.backlog = @ \o reader.early]
                /\ up' = Closes(reader.old)
           ELSE /\ reader' = [reader EXCEPT !.early = Append(@, frame)]
                /\ up' = EarlyPutBy(c, frame)
  /\ UNCHANGED <<slack, answers, app, budget>>

(* It ended before the hello: what came early is gone with it. *)
NotGreeted ==
  /\ reader.at = "greeting"
  /\ ~Open(reader.dialled) /\ down[reader.dialled] = <<>>
  /\ reader' = [reader EXCEPT !.at = "dialling", !.dialled = NoWs, !.early = <<>>]
  /\ UNCHANGED <<slack, down, up, answers, app, budget>>

(* On the connection there is, if any; writing on a cut one may succeed. *)
Acked(e) ==
  IF reader.ws # NoWs /\ Open(reader.ws)
  THEN [up EXCEPT ![reader.ws] = Append(@, Carries(e))] ELSE up

(* `lost`, when the write fails. *)
AfterAck(r) ==
  IF r.ws # NoWs /\ ~Open(r.ws) THEN {r, [r EXCEPT !.ws = NoWs]} ELSE {r}

AnswersView(e) == KindOf[e] = "view"

(* `handle`: an envelope is acked as it arrives, unless it is a view's     *)
(* submission, which the app answers; then it is handed over.              *)
Handles(r, frame) ==
  CASE frame = Hello -> reader' = r /\ UNCHANGED up
    [] frame = Disconnect ->
         /\ reader' = [r EXCEPT !.at = "dialling", !.old = r.ws, !.ws = NoWs]
         /\ UNCHANGED up
    [] OTHER ->
         LET e == frame[2]
         IN IF AnswersView(e)
            THEN reader' = [r EXCEPT !.handing = <<e>>] /\ UNCHANGED up
            ELSE /\ up' = Acked(e)
                 /\ \E after \in AfterAck(r) : reader' = [after EXCEPT !.handing = <<e>>]

ReadsBacklog ==
  /\ reader.at = "reading" /\ reader.handing = <<>>
  /\ reader.backlog # <<>>
  /\ Handles([reader EXCEPT !.backlog = Tail(@)], Head(reader.backlog))
  /\ UNCHANGED <<slack, down, answers, app, budget>>

ReadsFrame ==
  /\ reader.at = "reading" /\ reader.handing = <<>>
  /\ reader.backlog = <<>>
  /\ reader.ws # NoWs
  /\ down[reader.ws] # <<>>
  /\ down' = [down EXCEPT ![reader.ws] = Tail(@)]
  /\ Handles(reader, Head(down[reader.ws]))
  /\ UNCHANGED <<slack, answers, app, budget>>

(* `SocketMode`'s task: the event is in the app's channel. *)
Hands ==
  /\ reader.at = "reading" /\ reader.handing # <<>>
  /\ queue' = Append(queue, reader.handing[1])
  /\ reader' = [reader EXCEPT !.handing = <<>>]
  /\ UNCHANGED <<slack, down, up, answers, seen, spawned, budget>>

(* The connection ended, failed, or kept silent after a ping. *)
Lost ==
  /\ reader.at = "reading" /\ reader.handing = <<>>
  /\ reader.backlog = <<>>
  /\ reader.ws # NoWs => ~Open(reader.ws) /\ down[reader.ws] = <<>>
  /\ reader' = [reader EXCEPT !.at = "dialling", !.ws = NoWs]
  /\ UNCHANGED <<slack, down, up, answers, app, budget>>

(* An answer goes out on the connection there is by now. *)
Answers ==
  /\ reader.at = "reading" /\ reader.handing = <<>>
  /\ reader.backlog = <<>>
  /\ reader.ws # NoWs
  /\ answers # <<>>
  /\ answers' = Tail(answers)
  /\ up' = Acked(Head(answers))
  /\ reader' \in AfterAck(reader)
  /\ UNCHANGED <<slack, down, app, budget>>

----------------------------------------------------------------------------
(* The gateway's loop *)

(* A bug's: one event fewer is remembered. *)
ForgetsEarly(order) == IF Len(order) >= Remembered THEN Tail(order) ELSE order

ForgetsOldest(order) == IF Len(order) > Remembered THEN Tail(order) ELSE order

(* `first_time`: an event already seen is skipped.  A submission's ack is  *)
(* dropped, which answers it.                                              *)
Takes ==
  /\ Running
  /\ queue # <<>>
  /\ queue' = Tail(queue)
  /\ LET e == Head(queue)
     IN /\ IF KindOf[e] = "event" /\ e \in ToSet(seen) THEN UNCHANGED <<seen, spawned>>
           ELSE /\ spawned' = Append(spawned, e)
                /\ seen' = IF KindOf[e] = "event" THEN ForgetsOldest(Append(seen, e)) ELSE seen
        /\ answers' = IF AnswersView(e) THEN Append(answers, e) ELSE answers
  /\ UNCHANGED <<slack, down, up, reader, budget>>

(* The gateway stops leading: what it has not taken is gone. *)
Stops ==
  /\ Running
  /\ reader' = [reader EXCEPT !.at = "closed"]
  /\ queue' = <<>>
  /\ UNCHANGED <<slack, down, up, answers, seen, spawned, budget>>

ReaderStep ==
  Dials \/ Greeted \/ NotGreeted \/ ReadsBacklog \/ ReadsFrame \/ Hands \/ Lost \/ Answers

Next ==
  \/ \E e \in Envelope : Happens(e) \/ \E a \in 0 .. MaxRetries : TimesOut(e, a)
  \/ \E c \in Conn : SlackReads(c) \/ Refreshes(c) \/ Cut(c)
  \/ ReaderStep \/ Refused \/ Takes \/ Stops

Spec == Init /\ [][Next]_vars

----------------------------------------------------------------------------
(* Properties *)

(* Every variable keeps its type, and no envelope waits for two acks.      *)
TypeOK ==
  /\ conns \subseteq Conn
  /\ refreshing \subseteq Conn
  /\ pending \in [Envelope -> 0 .. None]
  /\ reader.ws \in Conn \cup {NoWs}
  /\ reader.ws # NoWs => reader.at \in {"reading", "refused", "closed"}
  /\ ToSet(seen) \subseteq Envelope
  /\ Len(seen) <= Remembered

(* What Slack counts as acked, and so never sends again, was handed to the *)
(* app: no cut and no replaced connection loses it in between.  A gateway  *)
(* that stops loses what it had not taken.                                 *)
AckedIsHanded ==
  reader.at # "closed" =>
    \A e \in acked : e \in ToSet(queue) \cup ToSet(spawned) \cup ToSet(reader.handing)

(* An event that Slack repeats, its ack lost or late, is handled once,     *)
(* unless REMEMBERED_EVENTS others came in between.                        *)
HandledOnce ==
  \A i, j \in DOMAIN spawned :
    i < j /\ spawned[i] = spawned[j] /\ KindOf[spawned[i]] = "event"
      => Cardinality({k \in i + 1 .. j - 1 : KindOf[spawned[k]] = "event"}) >= Remembered

(* No event is given up while the gateway goes on: until it was handled it *)
(* waits for the app, for a connection, or for an ack without which Slack  *)
(* sends it again, whatever connections were cut or replaced.  (Slack does *)
(* give up at MAX_RETRIES late or lost acks.)                              *)
NotGivenUp ==
  \A e \in Envelope \ unsent :
    KindOf[e] = "event" /\ Running =>
      \/ e \in ToSet(spawned) \cup ToSet(queue) \cup ToSet(reader.handing)
      \/ \E i \in DOMAIN undelivered : undelivered[i][1] = e
      \/ <<e, pending[e]>> \in timers
=============================================================================
