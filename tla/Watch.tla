------------------------------- MODULE Watch -------------------------------
(***************************************************************************)
(* How a turn is watched until it ends (stream, show, Turn and Thinking of *)
(* crates/murtaugh-gateway/src/chat.rs).  The loop takes the node's events *)
(* one after another and gives up on a turn that goes quiet, unless a      *)
(* person is asked something or a tool has not run for too long; meanwhile *)
(* a task of its own keeps "is thinking..." under the thread.              *)
(*                                                                         *)
(* Time passes in ticks.  What a card, a sign-in and the reply do is left  *)
(* to Cards, SignIn and Reply: here they are open or not, and take time.   *)
(***************************************************************************)
EXTENDS Naturals, Sequences, FiniteSets, SequencesExt

CONSTANTS
  Tool,
  IdleTimeout,  \* `turn_idle_timeout`, in ticks
  ToolCeiling,  \* `tool_ceiling`, in ticks
  MaxEvents,    \* bounds the model: what the node sends and tools place,
  MaxSlow,      \* ticks that pass while an event is shown
  MaxFaults     \* calls of Slack that fail

TimesAssumption == IdleTimeout \in Nat \ {0} /\ ToolCeiling \in Nat \ {0}
BoundsAssumption == {MaxEvents, MaxSlow, MaxFaults} \subseteq Nat

VARIABLES
  loop,     \* [at, quiet: ticks since `active`, ending]
  inbox,    \* [events: those the node sent and nobody took, open: the stream is]
  tools,    \* the tools in flight -> how long since they were first sighted
  ran,      \* the tools in flight -> how long they have run
  waiting,  \* the cards that wait on a person
  signing,  \* whether a sign-in of the node is pending
  thinker,  \* [at, stop]: the task that shows the status
  status,   \* whether Slack shows the status
  silence,  \* ticks since an event, a placement, or a person was waited on
  used      \* [events, slow, faults]

vars == <<loop, inbox, tools, ran, waiting, signing, thinker, status, silence, used>>

Longest == ToolCeiling + IdleTimeout + 1
Later(n)     == IF n < Longest THEN n + 1 ELSE n
Counts(what) == used' = [used EXCEPT ![what] = @ + 1]
May(what)    == used[what] < [events |-> MaxEvents, slow |-> MaxSlow, faults |-> MaxFaults][what]
Fails        == May("faults") /\ Counts("faults")

Starts(t) == <<"start", t>>
Steps(t)  == <<"step", t>>
Ends(t)   == <<"end", t>>
Plain     == {<<"text">>, <<"question">>, <<"sign-in">>, <<"settled">>, <<"file">>}
Events    == Plain \cup UNION {{Starts(t), Steps(t), Ends(t)} : t \in Tool}

Selecting == loop.at = "select"
Over      == loop.at = "over"

-----------------------------------------------------------------------------
(* The node, and the tools that place a message in the reply. *)
Sends(e) ==
  /\ inbox.open
  /\ May("events")
  /\ inbox' = [inbox EXCEPT !.events = Append(@, e)]
  /\ Counts("events")
  /\ UNCHANGED <<loop, tools, ran, waiting, signing, thinker, status, silence>>

Closes ==
  /\ inbox.open
  /\ inbox' = [inbox EXCEPT !.open = FALSE]
  /\ UNCHANGED <<loop, tools, ran, waiting, signing, thinker, status, silence, used>>

-----------------------------------------------------------------------------
(* `Turn::tool`: a call is stamped once, when it is first sighted. *)
Without(f, t)  == [u \in DOMAIN f \ {t} |-> f[u]]
With(f, t)     == [u \in DOMAIN f \cup {t} |-> IF u \in DOMAIN f THEN f[u] ELSE 0]
Restamped(f, t) == [u \in DOMAIN f \cup {t} |-> IF u = t THEN 0 ELSE f[u]]
Stamped(f, t)  == With(f, t)

Folds(e) ==
  /\ tools' = CASE e[1] \in {"start", "step"} -> Stamped(tools, e[2])
                [] e[1] = "end"               -> Without(tools, e[2])
                [] OTHER                      -> tools
  /\ ran'   = CASE e[1] \in {"start", "step"} -> With(ran, e[2])
                [] e[1] = "end"               -> Without(ran, e[2])
                [] OTHER                      -> ran

(* An event is taken, and shown: a question or a plan waits on a person, and  *)
(* so does a tool call that its owner is asked about.                        *)
Takes ==
  /\ Selecting
  /\ inbox.events # <<>>
  /\ LET e == Head(inbox.events) IN
     /\ Folds(e)
     /\ waiting' \in IF e[1] = "question" THEN {waiting + 1}
                     ELSE IF e[1] = "start" THEN {waiting, waiting + 1}
                     ELSE {waiting}
     /\ signing' = IF e[1] = "sign-in" THEN TRUE ELSE IF e[1] = "settled" THEN FALSE ELSE signing
     /\ status' \in {status} \cup (IF e[1] \in {"text", "file"} THEN {FALSE} ELSE {})
  /\ inbox' = [inbox EXCEPT !.events = Tail(@)]
  /\ loop' = [loop EXCEPT !.at = "showing", !.quiet = 0]
  /\ silence' = 0
  /\ UNCHANGED <<thinker, used>>

Shown ==
  /\ loop.at = "showing"
  /\ loop' = [loop EXCEPT !.at = "select"]
  /\ UNCHANGED <<inbox, tools, ran, waiting, signing, thinker, status, silence, used>>

Places ==
  /\ Selecting
  /\ May("events")
  /\ Counts("events")
  /\ loop' = [loop EXCEPT !.quiet = 0]
  /\ status' \in {status, FALSE}
  /\ silence' = 0
  /\ UNCHANGED <<inbox, tools, ran, waiting, signing, thinker>>

(* A card goes when the person answers it or its timeout does; a sign-in     *)
(* when it is settled elsewhere.                                             *)
Leaks(n)  == n
Drops(n)  == n - 1
CardEnds ==
  /\ waiting > 0
  /\ waiting' = Drops(waiting)
  /\ UNCHANGED <<loop, inbox, tools, ran, signing, thinker, status, silence, used>>

SignInEnds ==
  /\ signing
  /\ signing' = FALSE
  /\ UNCHANGED <<loop, inbox, tools, ran, waiting, thinker, status, silence, used>>

-----------------------------------------------------------------------------
(* The idle timer. *)
Due       == Selecting /\ loop.quiet >= IdleTimeout
LongestTool == {tools[t] : t \in DOMAIN tools}
Working   == LongestTool # {} /\ \A age \in LongestTool : age < ToolCeiling
Awaited   == waiting > 0 \/ signing

GoesOn ==
  /\ Due
  /\ Awaited \/ Working
  /\ loop' = [loop EXCEPT !.quiet = 0]
  /\ UNCHANGED <<inbox, tools, ran, waiting, signing, thinker, status, silence, used>>

Leaves(ending) == loop' = [loop EXCEPT !.at = "finishing", !.ending = ending]

GivesUp ==
  /\ Due
  /\ ~Awaited /\ ~Working
  /\ Leaves(IF LongestTool = {} THEN "quiet" ELSE "wedged")
  /\ UNCHANGED <<inbox, tools, ran, waiting, signing, thinker, status, silence, used>>

StreamEnds ==
  /\ Selecting
  /\ inbox.events = <<>> /\ ~inbox.open
  /\ Leaves("closed")
  /\ UNCHANGED <<inbox, tools, ran, waiting, signing, thinker, status, silence, used>>

(* Cards are dismissed with the turn; the reply is finished and the alerts    *)
(* and the notice are posted.                                                *)
Finishes ==
  /\ loop.at = "finishing"
  /\ loop' = [loop EXCEPT !.at = "stopping"]
  /\ waiting' = 0
  /\ status' \in {status, FALSE}
  /\ UNCHANGED <<inbox, tools, ran, signing, thinker, silence, used>>

-----------------------------------------------------------------------------
(* `Thinking`. *)
Sets ==
  /\ thinker.at = "setting"
  /\ \/ status' = TRUE /\ thinker' = [thinker EXCEPT !.at = "asleep"] /\ UNCHANGED used
     \/ status' \in {status, TRUE} /\ thinker' = [thinker EXCEPT !.at = "gone"] /\ Fails
  /\ UNCHANGED <<loop, inbox, tools, ran, waiting, signing, silence>>

Wakes ==
  /\ thinker.at = "asleep"
  /\ thinker' = [thinker EXCEPT !.at = "setting"]
  /\ UNCHANGED <<loop, inbox, tools, ran, waiting, signing, status, silence, used>>

Cancelled ==
  /\ thinker.at = "asleep" /\ thinker.stop
  /\ thinker' = [thinker EXCEPT !.at = "gone"]
  /\ UNCHANGED <<loop, inbox, tools, ran, waiting, signing, status, silence, used>>

Stops ==
  /\ loop.at = "stopping"
  /\ thinker' = [thinker EXCEPT !.stop = TRUE]
  /\ loop' = [loop EXCEPT !.at = "joining"]
  /\ UNCHANGED <<inbox, tools, ran, waiting, signing, status, silence, used>>

Cancels == thinker.stop
Joined  == thinker.at = "gone"

Clears ==
  /\ loop.at = "joining"
  /\ Joined
  /\ \/ status' = FALSE /\ UNCHANGED used
     \/ Fails /\ UNCHANGED status
  /\ loop' = [loop EXCEPT !.at = "over"]
  /\ UNCHANGED <<inbox, tools, ran, waiting, signing, thinker, silence>>

-----------------------------------------------------------------------------
(* The loop keeps up: time passes when it has nothing to do, and while an     *)
(* event is shown.                                                           *)
Tick ==
  /\ \/ Selecting /\ ~Due /\ inbox.events = <<>> /\ inbox.open /\ UNCHANGED used
     \/ loop.at = "showing" /\ May("slow") /\ Counts("slow")
  /\ loop' = [loop EXCEPT !.quiet = @ + 1]
  /\ tools' = [t \in DOMAIN tools |-> Later(tools[t])]
  /\ ran' = [t \in DOMAIN ran |-> Later(ran[t])]
  /\ silence' = IF Awaited THEN 0 ELSE Later(silence)
  /\ UNCHANGED <<inbox, waiting, signing, thinker, status>>

Init ==
  /\ loop    = [at |-> "select", quiet |-> 0, ending |-> "none"]
  /\ inbox   = [events |-> <<>>, open |-> TRUE]
  /\ tools   = <<>>
  /\ ran     = <<>>
  /\ waiting = 0
  /\ signing \in BOOLEAN
  /\ thinker = [at |-> "setting", stop |-> FALSE]
  /\ status  = FALSE
  /\ silence = 0
  /\ used    = [events |-> 0, slow |-> 0, faults |-> 0]

LoopStep    == Takes \/ Shown \/ GoesOn \/ GivesUp \/ StreamEnds \/ Finishes \/ Stops \/ Clears
ThinkerStep == Sets \/ Wakes \/ Cancelled

Next ==
  \/ \E e \in Events : Sends(e)
  \/ Closes \/ Places \/ CardEnds \/ SignInEnds
  \/ LoopStep \/ ThinkerStep \/ Tick

Spec == Init /\ [][Next]_vars

(* Tasks are scheduled, calls of Slack end, and a card has a timeout; a      *)
(* sign-in that nobody settles stays pending.                                *)
Fairness ==
  /\ WF_vars(LoopStep) /\ WF_vars(Sets) /\ SF_vars(Cancelled)
  /\ WF_vars(Tick) /\ WF_vars(CardEnds)

FairSpec == Spec /\ Fairness

-----------------------------------------------------------------------------
TypeOK ==
  /\ loop \in [at : {"select", "showing", "finishing", "stopping", "joining", "over"},
               quiet : 0 .. IdleTimeout + MaxSlow,
               ending : {"none", "quiet", "wedged", "closed"}]
  /\ inbox.events \in Seq(Events) /\ inbox.open \in BOOLEAN
  /\ DOMAIN tools \subseteq Tool /\ DOMAIN ran = DOMAIN tools
  /\ \A t \in DOMAIN tools : {tools[t], ran[t]} \subseteq 0 .. Longest
  /\ waiting \in 0 .. MaxEvents /\ {signing, status} \subseteq BOOLEAN
  /\ thinker \in [at : {"setting", "asleep", "gone"}, stop : BOOLEAN]
  /\ silence \in 0 .. Longest
  /\ used \in [events : 0 .. MaxEvents, slow : 0 .. MaxSlow, faults : 0 .. MaxFaults]

(* A turn that nothing was heard of for longer than the idle timeout, and     *)
(* that waits on nobody, has a tool at work; and no tool is given longer than *)
(* the ceiling and one more timeout, however often the node refines its card  *)
(* ("the start is stamped once, on first sighting", chat.rs:2020).           *)
SilenceIsNoticed ==
  Selecting /\ ~Due /\ silence > IdleTimeout =>
    \E t \in DOMAIN ran : \A u \in DOMAIN ran : ran[u] < ToolCeiling + IdleTimeout

(* When a turn is over nothing says that the agent is thinking, and nothing   *)
(* is going to, unless Slack did not take the call that clears it.           *)
StatusCleared == Over => Joined /\ (used.faults = 0 => ~status)

(* A turn that is said to have gone quiet was quiet for the whole timeout:    *)
(* nobody was waited on in it ("while any waits on a person the turn is not   *)
(* idle", chat.rs:1982).                                                     *)
QuietMeansQuiet == loop.ending = "quiet" => silence >= IdleTimeout

(* However silent the node is, the conversation's loop gets past the turn,    *)
(* unless a sign-in of that node stays pending.                              *)
TurnEnds == <>Over \/ <>[]signing

=============================================================================
