------------------------------- MODULE Cards -------------------------------
(***************************************************************************)
(* The cards a node's agent puts to people: tool approvals                 *)
(* (crates/murtaugh-gateway/src/approval.rs) and questions and plans       *)
(* (prompts.rs), from the event that raises them to the last redraw, with  *)
(* the clicks on them and the runs they belong to (chat.rs).               *)
(*                                                                         *)
(* A run is a turn, a stretch of background work, or a client's turn at    *)
(* the relay.  Its end dismisses the cards still waiting; each card lives  *)
(* in a task of its own.  Slack, the store and the link to the node may    *)
(* fail at every call.                                                     *)
(***************************************************************************)
CONSTANTS
  Call,       \* tool calls and questions, each of which raises one card
  Question,   \* those of them that are questions or plans
  Run,
  Background, \* the runs that are background work
  Client,     \* the runs a client's turn at the relay stands for
  User,
  Tool,
  RunOf,      \* Call -> the run that raises it
  ToolOf,     \* Call -> the tool it wants (of no meaning for a question)
  OwnerOf,    \* Run -> the owner of the node it runs on
  Admitted,   \* Call -> who may answer it, if it is a question
  Faults      \* whether Slack, the store and the link may fail

ASSUME CallAssumption ==
  /\ Question \subseteq Call
  /\ RunOf \in [Call -> Run]
  /\ ToolOf \in [Call -> Tool]
  /\ Admitted \in [Call -> SUBSET User]
ASSUME RunAssumption ==
  /\ Background \subseteq Run
  /\ Client \subseteq Run \ Background
  /\ OwnerOf \in [Run -> User]
ASSUME FaultsAssumption == Faults \in BOOLEAN

VARIABLES
  card,       \* Call -> the task of its card
  waiting,    \* the cards registered for a click
  shown,      \* Call -> what the card in Slack shows
  clicks,     \* Call -> the clicks that were taken, silently
  told,       \* Call -> what the node was told
  run,        \* Run -> the run
  guarded,    \* the cards whose guard is held: Turn::waiting counts them
  whitelist   \* <<owner, tool>> pairs in the store

vars == <<card, waiting, shown, clicks, told, run, guarded, whitelist>>

Choices  == {"once", "always", "deny", "answer"}
Outcomes == Choices \cup {"timedout", "dismissed", "unposted"}
Stages   == {"new", "listed", "unlisted", "spawned", "posting", "waiting", "chosen", "listing", "ruling",
             "settling", "leaving", "done"}
Decided  == {"chosen", "listing", "ruling", "settling", "leaving"}
NoChoice == "none"

Task  == [at      : Stages,
          heard   : Choices \cup {NoChoice},    \* what the oneshot holds
          outcome : Outcomes \cup {NoChoice}]
Flow  == [on   : BOOLEAN,
          done : BOOLEAN]       \* the agent completed
Click == [by : User, choice : Choices]

Verdicts == {"none", "lost", "allow", "deny", "answer", "noanswer"}

(* A question is taken from whoever its node's owner admits, an approval   *)
(* only from that owner.                                                   *)
Owner(c)    == OwnerOf[RunOf[c]]
Deciders(c) == IF c \in Question THEN Admitted[c] ELSE {Owner(c)}
Offered(c)  == IF c \in Question THEN {"answer"} ELSE {"once", "always", "deny"}

(* A bug's: what was not denied is allowed. *)
AllowsUnlessDenied(c, outcome) ==
  IF c \in Question
  THEN IF outcome = "answer" THEN "answer" ELSE "noanswer"
  ELSE IF outcome = "deny" THEN "deny" ELSE "allow"

(* What the node is told. *)
Decision(c, outcome) ==
  IF c \in Question
  THEN IF outcome = "answer" THEN "answer" ELSE "noanswer"
  ELSE IF outcome \in {"once", "always"} THEN "allow" ELSE "deny"

At(c, stage) == card[c].at = stage

Init ==
  /\ card = [c \in Call |-> [at |-> "new", heard |-> NoChoice, outcome |-> NoChoice]]
  /\ waiting = {}
  /\ shown  = [c \in Call |-> "nothing"]
  /\ clicks = [c \in Call |-> {}]
  /\ told   = [c \in Call |-> "none"]
  /\ run    = [r \in Run |-> [on |-> TRUE, done |-> FALSE]]
  /\ guarded = {}
  /\ whitelist = {}

----------------------------------------------------------------------------
(* Raising *)

Listed(c) == <<Owner(c), ToolOf[c]>> \in whitelist

(* A run's loop takes one event at a time: while it waits for the owner's  *)
(* rules, or for a verdict of its own to be sent, it does nothing else.    *)
Held(r) == \E c \in Call : RunOf[c] = r /\ card[c].at \in {"listed", "unlisted"}

Runs(r) == run[r].on /\ ~Held(r)

(* The agent wants a tool: the store answers whether its owner listed it.  *)
ReadsRules(c) ==
  /\ c \notin Question
  /\ At(c, "new")
  /\ Runs(RunOf[c])
  /\ card' = [card EXCEPT ![c].at = IF Listed(c) THEN "listed" ELSE "unlisted"]
  /\ UNCHANGED <<waiting, shown, clicks, told, run, guarded, whitelist>>

(* A bug's: the guard is taken by the card's task, once it runs. *)
GuardedLate(c) == guarded

(* The guard is taken before the card's task is spawned.  The relay, whose *)
(* runs do not idle out, takes none.                                       *)
Guarded(c) == IF RunOf[c] \in Client THEN guarded ELSE guarded \cup {c}

(* The run's loop spawns the card's task. *)
Raise(c) ==
  /\ \/ c \in Question /\ At(c, "new") /\ Runs(RunOf[c])
     \/ At(c, "unlisted")
  /\ card'    = [card EXCEPT ![c].at = "spawned"]
  /\ guarded' = Guarded(c)
  /\ UNCHANGED <<waiting, shown, clicks, told, run, whitelist>>

Registers(c) ==
  /\ At(c, "spawned")
  /\ card'    = [card EXCEPT ![c].at = "posting"]
  /\ waiting' = waiting \cup {c}
  /\ UNCHANGED <<shown, clicks, told, run, guarded, whitelist>>

(* A whitelisted tool is ruled in the run's loop, without a card. *)
RuleListed(c) ==
  /\ At(c, "listed")
  /\ card' = [card EXCEPT ![c].at = "done"]
  /\ \/ told' = [told EXCEPT ![c] = "allow"]
     \/ Faults /\ told' = [told EXCEPT ![c] = "lost"]
  /\ UNCHANGED <<waiting, shown, clicks, run, guarded, whitelist>>

(* The card is in Slack.  This may come after the call that posted it gave *)
(* up on the answer.                                                       *)
Appears(c) ==
  /\ shown[c] = "nothing"
  /\ At(c, "posting") \/ card[c].outcome = "unposted"
  /\ shown' = [shown EXCEPT ![c] = "pending"]
  /\ UNCHANGED <<card, waiting, clicks, told, run, guarded, whitelist>>

Posted(c) ==
  /\ At(c, "posting")
  /\ shown[c] = "pending"
  /\ card' = [card EXCEPT ![c].at = "waiting"]
  /\ UNCHANGED <<waiting, shown, clicks, told, run, guarded, whitelist>>

PostFails(c) ==
  /\ Faults
  /\ At(c, "posting")
  /\ card' = [card EXCEPT ![c].at = "chosen", ![c].outcome = "unposted"]
  /\ UNCHANGED <<waiting, shown, clicks, told, run, guarded, whitelist>>

----------------------------------------------------------------------------
(* Clicks *)

(* A bug's: the entry is read, not taken. *)
LeavesEntry(c) == waiting

Taken(c) == waiting \ {c}

(* A bug's: the click redraws the card. *)
RedrawnByClick(c, choice) == [shown EXCEPT ![c] = choice]

ShownAfterClick(c, choice) == shown

(* A click that counts: the clicker hears nothing more of it.  Its choice  *)
(* is lost if the card's task has stopped listening.  Every other click    *)
(* gets a note and changes nothing.                                        *)
Clicks(c, u, choice) ==
  /\ shown[c] # "nothing"
  /\ c \in waiting
  /\ u \in Deciders(c)
  /\ choice \in Offered(c)
  /\ waiting' = Taken(c)
  /\ clicks'  = [clicks EXCEPT ![c] = @ \cup {[by |-> u, choice |-> choice]}]
  /\ card' = [card EXCEPT ![c].heard =
                IF card[c].at \in {"posting", "waiting"} THEN choice ELSE @]
  /\ shown' = ShownAfterClick(c, choice)
  /\ UNCHANGED <<told, run, guarded, whitelist>>

----------------------------------------------------------------------------
(* The wait, and what follows *)

Chooses(c, outcome) ==
  /\ card' = [card EXCEPT ![c].at = "chosen", ![c].outcome = outcome]
  /\ UNCHANGED <<waiting, shown, clicks, told, run, guarded, whitelist>>

(* A bug's: a choice is read whether or not there is one. *)
HearsSilence(c) == At(c, "waiting") /\ Chooses(c, card[c].heard)

Hears(c) ==
  /\ At(c, "waiting")
  /\ card[c].heard # NoChoice
  /\ Chooses(c, card[c].heard)

(* A bug's: the wait for a click has no end. *)
NeverTimesOut(c) == FALSE

(* The three branches of the select are tried in no order: a click that is *)
(* there does not win over a timer that fired.                             *)
TimesOut(c) == At(c, "waiting") /\ Chooses(c, "timedout")

Dismissed(c) ==
  /\ At(c, "waiting")
  /\ ~run[RunOf[c]].on
  /\ Chooses(c, "dismissed")

(* A bug's: the node is told first. *)
ToldFirst(c) ==
  CASE At(c, "chosen")  -> "ruling"
    [] At(c, "ruling")  -> IF card[c].outcome = "always" THEN "listing"
                           ELSE IF card[c].outcome = "unposted" THEN "leaving"
                           ELSE "settling"
    [] At(c, "listing") -> "settling"

(* What comes next: the whitelist is written before the node is told. *)
After(c) ==
  CASE At(c, "chosen")  -> IF card[c].outcome = "always" THEN "listing" ELSE "ruling"
    [] At(c, "listing") -> "ruling"
    [] At(c, "ruling")  -> IF card[c].outcome = "unposted" THEN "leaving" ELSE "settling"

Proceeds(c) == card' = [card EXCEPT ![c].at = After(c)]

Unregisters(c) ==
  /\ At(c, "chosen")
  /\ waiting' = waiting \ {c}
  /\ Proceeds(c)
  /\ UNCHANGED <<shown, clicks, told, run, guarded, whitelist>>

(* A failure is logged. *)
Lists(c) ==
  /\ At(c, "listing")
  /\ \/ whitelist' = whitelist \cup {<<Owner(c), ToolOf[c]>>}
     \/ Faults /\ whitelist' = whitelist
  /\ Proceeds(c)
  /\ UNCHANGED <<waiting, shown, clicks, told, run, guarded>>

Rules(c) ==
  /\ At(c, "ruling")
  /\ \/ told' = [told EXCEPT ![c] = Decision(c, card[c].outcome)]
     \/ Faults /\ told' = [told EXCEPT ![c] = "lost"]
  /\ Proceeds(c)
  /\ UNCHANGED <<waiting, shown, clicks, run, guarded, whitelist>>

Settles(c) ==
  /\ At(c, "settling")
  /\ \/ shown' = [shown EXCEPT ![c] = card[c].outcome]
     \/ Faults /\ shown' = shown
  /\ card' = [card EXCEPT ![c].at = "leaving"]
  /\ UNCHANGED <<waiting, clicks, told, run, guarded, whitelist>>

(* A bug's: the guard is forgotten, not dropped. *)
GuardKept(c) == guarded

Unguarded(c) == guarded \ {c}

(* The guard is dropped with the card's task. *)
Leaves(c) ==
  /\ At(c, "leaving")
  /\ card' = [card EXCEPT ![c].at = "done"]
  /\ guarded' = Unguarded(c)
  /\ UNCHANGED <<waiting, shown, clicks, told, run, whitelist>>

----------------------------------------------------------------------------
(* Runs *)

(* The agent says it is done.  The stream of a turn ends with that; so do  *)
(* a turn whose link closed and a client's turn.                           *)
AgentCompletes(r) ==
  /\ r \in Background
  /\ Runs(r)
  /\ run' = [run EXCEPT ![r].done = TRUE]
  /\ UNCHANGED <<card, waiting, shown, clicks, told, guarded, whitelist>>

Ends(r) ==
  /\ run' = [run EXCEPT ![r].on = FALSE]
  /\ UNCHANGED <<card, waiting, shown, clicks, told, guarded, whitelist>>

TurnEnds(r) ==
  /\ r \notin Background
  /\ Runs(r)
  /\ Ends(r)

(* Turn::waiting *)
Waits(r) == \E c \in guarded : RunOf[c] = r

(* Background work ends once the agent is done and no card is left. *)
BackgroundEnds(r) ==
  /\ r \in Background
  /\ Runs(r)
  /\ run[r].done
  /\ ~Waits(r)
  /\ Ends(r)

(* A turn or background work in which nothing happened for long. *)
IdlesOut(r) ==
  /\ r \notin Client
  /\ Runs(r)
  /\ ~Waits(r)
  /\ Ends(r)

----------------------------------------------------------------------------
TaskStep(c) ==
  \/ Registers(c)
  \/ Posted(c)
  \/ PostFails(c)
  \/ Hears(c)
  \/ TimesOut(c)
  \/ Dismissed(c)
  \/ Unregisters(c)
  \/ Lists(c)
  \/ Rules(c)
  \/ Settles(c)
  \/ Leaves(c)

CallStep(c) ==
  \/ ReadsRules(c)
  \/ Raise(c)
  \/ RuleListed(c)
  \/ Appears(c)
  \/ TaskStep(c)
  \/ \E u \in User, choice \in Choices : Clicks(c, u, choice)

RunStep(r) ==
  \/ AgentCompletes(r)
  \/ TurnEnds(r)
  \/ BackgroundEnds(r)
  \/ IdlesOut(r)

Next ==
  \/ \E c \in Call : CallStep(c)
  \/ \E r \in Run : RunStep(r)

Spec == Init /\ [][Next]_vars

(* A run's loop goes on with the event it holds. *)
LoopStep(c) == RuleListed(c) \/ (At(c, "unlisted") /\ Raise(c))

(* Every await ends: the calls of Slack and of the node have timeouts, and *)
(* so has the wait for a click.  The agent need not complete, nor anybody  *)
(* click.                                                                  *)
FairSpec ==
  /\ Spec
  /\ \A c \in Call : WF_vars(TaskStep(c)) /\ WF_vars(LoopStep(c)) /\ WF_vars(Appears(c))
  /\ \A r \in Run : WF_vars(BackgroundEnds(r))

----------------------------------------------------------------------------
(* Properties *)

(* Every variable keeps its type, and a card that stopped waiting knows    *)
(* why.                                                                    *)
TypeOK ==
  /\ card \in [Call -> Task]
  /\ \A c \in Call : card[c].at \in Decided => card[c].outcome # NoChoice
  /\ waiting \subseteq Call
  /\ shown \in [Call -> Outcomes \cup {"nothing", "pending"}]
  /\ clicks \in [Call -> SUBSET Click]
  /\ told \in [Call -> Verdicts]
  /\ run \in [Run -> Flow]
  /\ guarded \subseteq Call
  /\ whitelist \subseteq User \X Tool

(* A tool runs only if the node's owner let this call through, or once     *)
(* chose "always" on another call of the same tool on a node of theirs:    *)
(* whatever timeouts, failures and other people's clicks cross it.         *)
LetThrough(c) ==
  \/ \E k \in clicks[c] : k.by = Owner(c) /\ k.choice \in {"once", "always"}
  \/ \E d \in Call \ Question :
       /\ Owner(d) = Owner(c)
       /\ ToolOf[d] = ToolOf[c]
       /\ [by |-> Owner(d), choice |-> "always"] \in clicks[d]

AllowedByOwner == \A c \in Call : told[c] = "allow" => LetThrough(c)

(* However many people press a card's buttons, at most one click is taken. *)
OneClick == \A c \in Call : \A j, k \in clicks[c] : j = k

(* What a settled card shows is what the node was told, if it could be     *)
(* told anything; a card never shows a decision before the node has it.    *)
CardTellsVerdict ==
  \A c \in Call : shown[c] \in Outcomes => told[c] \in {Decision(c, shown[c]), "lost"}

(* Background work never ends under a card: only a turn, whose agent is    *)
(* then gone, takes unanswered cards with it.                              *)
BackgroundStays ==
  \A c \in Call : RunOf[c] \in Background => card[c].outcome # "dismissed"

(* A call made after the node was told that its tool is always allowed is  *)
(* not put to the owner again, if no call fails.                           *)
NotAskedAgain ==
  [][\A c, d \in Call :
       /\ told[d] = "allow"
       /\ [by |-> Owner(d), choice |-> "always"] \in clicks[d]
       /\ Owner(c) = Owner(d)
       /\ ToolOf[c] = ToolOf[d]
       /\ At(c, "new") /\ c \notin Question
       => ~At(c, "unlisted")']_vars

(* Every card that is raised is settled one way or another, and background *)
(* work whose agent is done ends.                                          *)
EveryCardLeaves == \A c \in Call : At(c, "spawned") ~> At(c, "done")

BackgroundCloses ==
  \A r \in Background : run[r].done ~> ~run[r].on

(* The settled card says "who added *tool* to their whitelist. It won't    *)
(* ask again."                                                             *)
AlwaysIsListed ==
  \A c \in Call : shown[c] = "always" => <<Owner(c), ToolOf[c]>> \in whitelist

(* The card that timed out says "Nobody answered". *)
UnansweredMeansUnclicked ==
  \A c \in Call : shown[c] = "timedout" => clicks[c] = {}
=============================================================================
