------------------------------- MODULE Bridge -------------------------------
(***************************************************************************)
(* The client's bridge (crates/murtaugh-client/src/bridge.rs): an editor   *)
(* on one side, one link to Murtaugh on the other.  The link is dialled    *)
(* for the first session, introduced with `initialize` by the pump each    *)
(* time it starts over, and carries sessions, turns, and the tool calls    *)
(* the person is asked about.                                              *)
(*                                                                         *)
(* The link (rax_tokio) and Murtaugh are external: a link that starts over *)
(* loses what was in flight and every session, and Murtaugh serves no link *)
(* it was not introduced to.                                               *)
(***************************************************************************)
EXTENDS Naturals, Sequences

CONSTANTS
  Session,   \* sessions the editor opens, one turn in each
  Call,      \* tool calls Murtaugh holds for the person
  NoSession,
  MaxSaid,   \* bounds the model: messages of a turn,
  MaxResets, \* times the link starts over or ends,
  MaxSlow    \* and calls Murtaugh does not answer in time

NoSessionAssumption == NoSession \notin Session
CallAssumption == Call \cap {"message", "complete", "error"} = {}   \* events have names
BoundsAssumption == MaxSaid \in Nat /\ MaxResets \in Nat /\ MaxSlow \in Nat

VARIABLES
  link,     \* [at, introduced: Murtaugh knows it, fresh: `Fresh` events queued]
  ready,    \* the watch of the same name
  pump,     \* what the pump is at
  session,  \* Session -> where `session/new` is, or the session
  live,     \* the sessions Murtaugh has
  turn,     \* Session -> its turn
  call,     \* Call -> the call, its `ask` task and what became of it
  resets, slow

vars == <<link, ready, pump, session, live, turn, call, resets, slow>>

NoTurn == [at |-> "none", reply |-> "none", said |-> 0, complete |-> FALSE, closed |-> FALSE,
           stream |-> <<>>, drawn |-> 0, stop |-> FALSE, failed |-> FALSE, answer |-> "none"]
NoCall == [of |-> NoSession, held |-> FALSE, ask |-> "none", person |-> "none", ran |-> FALSE]

Init ==
  /\ link    = [at |-> "undialled", introduced |-> FALSE, fresh |-> 0]
  /\ ready   = FALSE
  /\ pump    = "idle"
  /\ session = [s \in Session |-> "none"]
  /\ live    = {}
  /\ turn    = [s \in Session |-> NoTurn]
  /\ call    = [c \in Call |-> NoCall]
  /\ resets  = 0
  /\ slow    = 0

Up == link.at = "up"

----------------------------------------------------------------------------
(* The link and its pump *)

Connects ==
  /\ link.at = "dialling"
  /\ link' = [link EXCEPT !.at = "up", !.fresh = @ + 1]
  /\ UNCHANGED <<ready, pump, session, live, turn, call, resets, slow>>

(* What Murtaugh has not answered is lost, its streams end, and what it    *)
(* held is no longer held.                                                 *)
Loses(at, fresh) ==
  /\ Up /\ resets < MaxResets
  /\ resets' = resets + 1
  /\ link' = [at |-> at, introduced |-> FALSE, fresh |-> link.fresh + fresh]
  /\ live' = {}
  /\ session' = [s \in Session |-> IF session[s] = "opening" THEN "lost" ELSE session[s]]
  /\ turn' = [s \in Session |-> [turn[s] EXCEPT
                !.reply = IF turn[s].at = "prompting" /\ @ = "none" THEN "lost" ELSE @,
                !.closed = turn[s].reply = "taken" \/ @]]
  /\ call' = [c \in Call |-> [call[c] EXCEPT !.held = FALSE]]
  /\ pump' = IF pump = "introducing" THEN "lost" ELSE pump
  /\ UNCHANGED <<ready, slow>>

StartsOver == Loses("up", 1)

(* `Closed` or `Replaced`: the pump stops. *)
LinkEnds == Loses("closed", 0)

(* A bug's: the link is thought ready until it is known not to be. *)
StaysReady == ready

(* A fresh link is not ready until it is introduced. *)
NotReady == FALSE

Introduces ==
  /\ pump = "idle" /\ link.fresh > 0
  /\ link' = [link EXCEPT !.fresh = @ - 1]
  /\ ready' = NotReady
  /\ pump' = IF Up THEN "introducing" ELSE "lost"
  /\ UNCHANGED <<session, live, turn, call, resets, slow>>

TakesIntroduction ==
  /\ Up /\ pump = "introducing"
  /\ link' = [link EXCEPT !.introduced = TRUE]
  /\ pump' = "introduced"
  /\ UNCHANGED <<ready, session, live, turn, call, resets, slow>>

Introduced ==
  /\ pump = "introduced"
  /\ ready' = TRUE
  /\ pump' = "idle"
  /\ UNCHANGED <<link, session, live, turn, call, resets, slow>>

(* `initialize` was lost, or got no answer in time. *)
NotIntroduced ==
  /\ \/ pump = "lost" /\ UNCHANGED slow
     \/ pump = "introducing" /\ slow < MaxSlow /\ slow' = slow + 1
  /\ pump' = "idle"
  /\ UNCHANGED <<link, ready, session, live, turn, call, resets>>

PumpEnds ==
  /\ pump = "idle" /\ link.at = "closed" /\ link.fresh = 0
  /\ pump' = "ended"
  /\ ready' = FALSE
  /\ UNCHANGED <<link, session, live, turn, call, resets, slow>>

----------------------------------------------------------------------------
(* Sessions *)

(* `session/new`, and `link`: the first one dials. *)
AsksSession(s) ==
  /\ session[s] = "none"
  /\ session' = [session EXCEPT ![s] = "linking"]
  /\ link' = IF link.at = "undialled" THEN [link EXCEPT !.at = "dialling"] ELSE link
  /\ UNCHANGED <<ready, pump, live, turn, call, resets, slow>>

(* Ready, so the session is asked for; not ready within CONNECT_TIMEOUT.   *)
SessionLinked(s) ==
  /\ session[s] = "linking"
  /\ session' = [session EXCEPT ![s] =
       IF ~ready THEN "failed" ELSE IF Up THEN "opening" ELSE "lost"]
  /\ UNCHANGED <<link, ready, pump, live, turn, call, resets, slow>>

(* Murtaugh creates the session, on a link it was introduced to. *)
Creates(s) ==
  /\ session[s] = "opening" /\ Up
  /\ session' = [session EXCEPT ![s] = IF link.introduced THEN "created" ELSE "lost"]
  /\ live' = IF link.introduced THEN live \cup {s} ELSE live
  /\ UNCHANGED <<link, ready, pump, turn, call, resets, slow>>

(* The editor is told: its session, or why there is none. *)
SessionAnswered(s) ==
  /\ session[s] \in {"created", "lost"}
  /\ session' = [session EXCEPT ![s] = IF @ = "created" THEN "open" ELSE "failed"]
  /\ UNCHANGED <<link, ready, pump, live, turn, call, resets, slow>>

(* `session/close`: Murtaugh ends the turn of a session it closes. *)
ClosesSession(s) ==
  /\ session[s] = "open"
  /\ session' = [session EXCEPT ![s] = "closed"]
  /\ live' = live \ {s}
  /\ turn' = [turn EXCEPT ![s].closed = turn[s].reply = "taken" \/ @]
  /\ call' = [c \in Call |-> IF call[c].of = s THEN [call[c] EXCEPT !.held = FALSE] ELSE call[c]]
  /\ UNCHANGED <<link, ready, pump, resets, slow>>

----------------------------------------------------------------------------
(* Turns *)

(* `session/prompt` *)
AsksPrompt(s) ==
  /\ session[s] = "open" /\ turn[s].at = "none"
  /\ turn' = [turn EXCEPT ![s].at = "linking"]
  /\ UNCHANGED <<link, ready, pump, session, live, call, resets, slow>>

Answers(s, answer) == [turn[s] EXCEPT !.at = "answered", !.answer = answer]

(* A bug's: nothing bounds the wait for a link that is ready. *)
WaitsForReady(s) ==
  /\ turn[s].at = "linking" /\ ready
  /\ turn' = [turn EXCEPT ![s] =
       IF Up THEN [@ EXCEPT !.at = "prompting"] ELSE Answers(s, "error")]
  /\ UNCHANGED <<link, ready, pump, session, live, call, resets, slow>>

(* The link is ready, or is not within CONNECT_TIMEOUT. *)
PromptLinked(s) ==
  /\ turn[s].at = "linking"
  /\ turn' = [turn EXCEPT ![s] =
       IF ready /\ Up THEN [@ EXCEPT !.at = "prompting"] ELSE Answers(s, "error")]
  /\ UNCHANGED <<link, ready, pump, session, live, call, resets, slow>>

(* Murtaugh takes the prompt of a session it has, late too. *)
TakesPrompt(s) ==
  /\ Up /\ turn[s].at \in {"prompting", "answered"} /\ turn[s].reply \in {"none", "late"}
  /\ turn[s].at = "answered" => turn[s].reply = "late"
  /\ turn' = [turn EXCEPT ![s].reply = IF link.introduced /\ s \in live THEN "taken" ELSE "lost"]
  /\ UNCHANGED <<link, ready, pump, session, live, call, resets, slow>>

(* The prompt's answer is read: the turn's events are next, or it failed.  *)
PromptAnswered(s) ==
  /\ turn[s].at = "prompting" /\ turn[s].reply # "none"
  /\ turn' = [turn EXCEPT ![s] =
       IF turn[s].reply = "taken" THEN [@ EXCEPT !.at = "running"] ELSE Answers(s, "error")]
  /\ UNCHANGED <<link, ready, pump, session, live, call, resets, slow>>

(* "Murtaugh did not take the prompt in time": it may still take it. *)
PromptTimesOut(s) ==
  /\ turn[s].at = "prompting" /\ turn[s].reply = "none"
  /\ slow < MaxSlow
  /\ slow' = slow + 1
  /\ turn' = [turn EXCEPT ![s] = [Answers(s, "error") EXCEPT !.reply = "late"]]
  /\ UNCHANGED <<link, ready, pump, session, live, call, resets>>

(* The turn's stream is open on Murtaugh's side, and nothing of it is held.*)
Working(s) ==
  /\ turn[s].reply = "taken" /\ ~turn[s].closed
  /\ \A c \in Call : call[c].of = s => ~call[c].held

Sends(s, event) == [turn EXCEPT ![s].stream = Append(@, event)]

Says(s) ==
  /\ Working(s) /\ turn[s].said < MaxSaid
  /\ turn' = [Sends(s, "message") EXCEPT ![s].said = @ + 1]
  /\ UNCHANGED <<link, ready, pump, session, live, call, resets, slow>>

Holds(s, c) ==
  /\ Working(s) /\ call[c] = NoCall
  /\ turn' = Sends(s, c)
  /\ call' = [call EXCEPT ![c].of = s, ![c].held = TRUE]
  /\ UNCHANGED <<link, ready, pump, session, live, resets, slow>>

Completes(s, how) ==
  /\ turn' = [Sends(s, how) EXCEPT ![s].complete = (how = "complete"), ![s].closed = TRUE]
  /\ UNCHANGED <<link, ready, pump, session, live, resets, slow>>

Ends(s) == \E how \in {"complete", "error"} : Working(s) /\ Completes(s, how) /\ UNCHANGED call

(* The editor cancels: what was held is let go, and the turn ends. *)
Cancels(s) ==
  /\ turn[s].at = "running" /\ turn[s].reply = "taken" /\ ~turn[s].closed
  /\ Completes(s, "complete")
  /\ call' = [c \in Call |-> IF call[c].of = s THEN [call[c] EXCEPT !.held = FALSE] ELSE call[c]]

(* What the editor draws, if anything. *)
Draws(t, event) == [t EXCEPT !.drawn = IF event = "message" THEN @ + 1 ELSE @]

(* A task puts a held call to the person. *)
Asks(event) == [c \in Call |-> IF c = event THEN [call[c] EXCEPT !.ask = "asking"] ELSE call[c]]

(* An event of the turn: drawn, kept for the end, or put to the person.    *)
Receives(s) ==
  /\ turn[s].at = "running" /\ turn[s].stream # <<>>
  /\ LET event == Head(turn[s].stream)
     IN /\ turn' = [turn EXCEPT ![s] =
              [Draws(turn[s], event) EXCEPT !.stream = Tail(@),
                                            !.stop   = (event = "complete") \/ @,
                                            !.failed = (event = "error") \/ @]]
        /\ call' = Asks(event)
  /\ UNCHANGED <<link, ready, pump, session, live, resets, slow>>

(* A bug's: a stream that ends is a turn that ended. *)
StreamIsEnd(t) == IF t.failed THEN "error" ELSE "end_turn"

(* A stream that ends with no word of how was lost. *)
Outcome(t) == IF t.stop /\ ~t.failed THEN "end_turn" ELSE "error"

TurnEnds(s) ==
  /\ turn[s].at = "running" /\ turn[s].stream = <<>> /\ turn[s].closed
  /\ turn' = [turn EXCEPT ![s] = Answers(s, Outcome(turn[s]))]
  /\ UNCHANGED <<link, ready, pump, session, live, call, resets, slow>>

----------------------------------------------------------------------------
(* The calls put to the person *)

(* The person chooses, or the editor fails the request. *)
PersonDecides(c, choice) ==
  /\ call[c].ask = "asking" /\ call[c].person = "none"
  /\ call' = [call EXCEPT ![c].person = choice]
  /\ UNCHANGED <<link, ready, pump, session, live, turn, resets, slow>>

(* A bug's: what was not rejected is allowed. *)
AllowsUnlessRejected(choice) == choice # "reject"

Allows(choice) == choice = "allow"

(* The verdict reaches Murtaugh, which runs the call if it still holds it. *)
Decided(c) ==
  /\ call[c].ask = "asking" /\ call[c].person # "none"
  /\ call' = [call EXCEPT ![c].ask = "over", ![c].held = FALSE,
                          ![c].ran = call[c].held /\ Allows(call[c].person)]
  /\ UNCHANGED <<link, ready, pump, session, live, turn, resets, slow>>

----------------------------------------------------------------------------

PersonActs == \E c \in Call, choice \in {"allow", "reject", "failed"} : PersonDecides(c, choice)

Bridging ==
  \/ Introduces \/ Introduced \/ NotIntroduced \/ PumpEnds
  \/ \E s \in Session : SessionLinked(s) \/ SessionAnswered(s)

Turning(s) == PromptLinked(s) \/ PromptAnswered(s) \/ Receives(s) \/ TurnEnds(s)

Next ==
  \/ Connects \/ StartsOver \/ LinkEnds \/ TakesIntroduction \/ Bridging \/ PersonActs
  \/ \E s \in Session :
       \/ AsksSession(s) \/ Creates(s) \/ ClosesSession(s) \/ AsksPrompt(s)
       \/ TakesPrompt(s) \/ PromptTimesOut(s) \/ Turning(s)
       \/ Says(s) \/ Ends(s) \/ Cancels(s)
       \/ \E c \in Call : Holds(s, c)
  \/ \E c \in Call : Decided(c)

(* The bridge's tasks run; Murtaugh answers a prompt or the wait for its   *)
(* answer ends, and it ends the turns it took; the person decides.         *)
Fairness ==
  /\ WF_vars(PersonActs)
  /\ \A s \in Session :
       /\ WF_vars(Turning(s))
       /\ WF_vars(TakesPrompt(s))
       /\ WF_vars(Ends(s))
  /\ \A c \in Call : WF_vars(Decided(c))

Spec     == Init /\ [][Next]_vars
FairSpec == Spec /\ Fairness

----------------------------------------------------------------------------
(* Properties *)

(* Every variable keeps its type. *)
TypeOK ==
  /\ link \in [at : {"undialled", "dialling", "up", "closed"}, introduced : BOOLEAN,
               fresh : 0 .. MaxResets + 1]
  /\ ready \in BOOLEAN
  /\ pump \in {"idle", "introducing", "introduced", "lost", "ended"}
  /\ \A s \in Session :
       /\ session[s] \in {"none", "linking", "opening", "created", "lost", "open", "closed", "failed"}
       /\ turn[s].at \in {"none", "linking", "prompting", "running", "answered"}
       /\ turn[s].drawn <= turn[s].said
  /\ live \subseteq Session

(* The editor is told that a turn ended only when Murtaugh ended it, and   *)
(* after everything it said in it was drawn: a turn cut short by the link, *)
(* at whatever moment, is never taken for a short one.                     *)
EndedIsEnded ==
  \A s \in Session :
    turn[s].answer = "end_turn" => turn[s].complete /\ turn[s].drawn = turn[s].said

(* Murtaugh runs a call it held only when the person in the editor chose   *)
(* to allow it: not when the editor failed, closed or was never asked.     *)
RunsOnlyAllowed == \A c \in Call : call[c].ran => call[c].person = "allow"

(* Once the pump has caught up with the link's own events, a link that is  *)
(* said to be ready was introduced, however often it started over while it *)
(* was being introduced.                                                   *)
ReadyCatchesUp == pump = "idle" /\ link.fresh = 0 /\ ready /\ Up => link.introduced

(* "True while the link is initialized; false after a fresh link until it  *)
(* is again."                                                              *)
ReadyIsIntroduced == ready /\ Up => link.introduced

(* A prompt is answered, whatever becomes of the link.                     *)
EveryPromptAnswered ==
  \A s \in Session : turn[s].at = "linking" ~> turn[s].at = "answered"
=============================================================================
