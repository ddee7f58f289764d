------------------------------- MODULE SignIn ------------------------------
(***************************************************************************)
(* Sign-ins a node needs (crates/murtaugh-gateway/src/signin.rs): `raise`  *)
(* shows the owner a card, the node's reports (`settle`) and the owner's   *)
(* clicks move it on, and each of these redraws the card.                  *)
(*                                                                         *)
(* Stages change under a lock held for an instant; posts and redraws take  *)
(* a second lock, `drawing`, across calls of Slack.  So a stage may change *)
(* more than once while a redraw waits.                                    *)
(***************************************************************************)
CONSTANTS
  Id,         \* the sign-ins nodes ask for
  Node,
  Task,       \* what may be handling a report or a click at one time
  Nobody,     \* who holds the drawing lock when nobody does
  NodeOf,     \* Id -> the node that asks
  Commands,   \* the sign-ins that are a command to approve first
  Codes       \* the sign-ins that need a code pasted

ASSUME IdAssumption ==
  NodeOf \in [Id -> Node] /\ Commands \subseteq Id /\ Codes \subseteq Id
ASSUME TaskAssumption == Nobody \notin Task \cup Id /\ Task \cap Id = {}

VARIABLES
  raising,    \* Id -> how far `raise` got
  entries,    \* the sign-ins in `open`
  stage,      \* Id -> Open::stage
  shown,      \* Id -> the stage the owner's card was last drawn in
  asking,     \* the sign-ins still going on in their nodes
  drawing,    \* who holds the drawing lock
  task,       \* Task -> the handler it is, if any
  undrawn,    \* the open sign-ins whose last redraw failed
  revived     \* the sign-ins that went on after they had ended

vars == <<raising, entries, stage, shown, asking, drawing, task, undrawn, revived>>

Ended  == {"success", "denied", "timedout", "cancelled", "failed"}
Going  == {"approval", "starting", "pending", "working"}
Stage  == Going \cup Ended
Report == {"working", "ready", "confirming", "success", "failed", "timedout", "cancelled"}

Handler == [of   : {"none", "report", "click"},
            id   : Id \cup {Nobody},
            at   : {"free", "answering", "redrawing", "updating"},
            seen : Stage]    \* the stage a redraw in progress draws

Free == [of |-> "none", id |-> Nobody, at |-> "free", seen |-> "pending"]

First(i) == IF i \in Commands THEN "approval" ELSE "pending"

Init ==
  /\ raising = [i \in Id |-> "no"]
  /\ entries = {}
  /\ stage   = [i \in Id |-> First(i)]
  /\ shown   = [i \in Id |-> "nothing"]
  /\ asking  = Id
  /\ drawing = Nobody
  /\ task    = [t \in Task |-> Free]
  /\ undrawn = {}
  /\ revived = {}

Busy(n) == \E i \in entries : NodeOf[i] = n /\ stage[i] \in Going

----------------------------------------------------------------------------
(* `raise` *)

(* A bug's: posting takes no lock. *)
AnyMayDraw == TRUE

MayDraw == drawing = Nobody

Raise(i) ==
  /\ raising[i] = "no"
  /\ raising' = [raising EXCEPT ![i] = "waiting"]
  /\ UNCHANGED <<entries, stage, shown, asking, drawing, task, undrawn, revived>>

RaiseLocks(i) ==
  /\ raising[i] = "waiting"
  /\ MayDraw
  /\ drawing' = i
  /\ raising' = [raising EXCEPT ![i] = IF Busy(NodeOf[i]) THEN "refused" ELSE "free"]
  /\ UNCHANGED <<entries, stage, shown, asking, task, undrawn, revived>>

(* Registered before posting. *)
Registers(i) ==
  /\ raising[i] = "free"
  /\ raising' = [raising EXCEPT ![i] = "posting"]
  /\ entries' = entries \cup {i}
  /\ UNCHANGED <<stage, shown, asking, drawing, task, undrawn, revived>>

Appears(i) ==
  /\ raising[i] = "posting"
  /\ shown[i] = "nothing"
  /\ shown' = [shown EXCEPT ![i] = First(i)]
  /\ UNCHANGED <<raising, entries, stage, asking, drawing, task, undrawn, revived>>

(* Posted, or not: then the node is told so, and gives up. *)
RaiseEnds(i) ==
  /\ raising[i] \in {"posting", "refused"}
  /\ drawing' = Nobody
  /\ raising' = [raising EXCEPT ![i] = "over"]
  /\ \/ raising[i] = "posting" /\ shown[i] # "nothing"
        /\ UNCHANGED <<entries, asking>>
     \/ entries' = entries \ {i} /\ asking' = asking \ {i}
  /\ UNCHANGED <<stage, shown, task, undrawn, revived>>

----------------------------------------------------------------------------
(* Reports and clicks *)

Enters(t, of, i, at) ==
  /\ task[t].at = "free"
  /\ task' = [task EXCEPT ![t] =
                IF at = "free" THEN Free ELSE [@ EXCEPT !.of = of, !.id = i, !.at = at]]

(* The stage moves whatever it was. *)
Moves(i, to) ==
  /\ stage' = [stage EXCEPT ![i] = to]
  /\ revived' = IF stage[i] \in Ended /\ to \in Going THEN revived \cup {i} ELSE revived

(* A bug's: a report is taken for a stage. *)
ReportedStage(i, report) == report

After(i, report) ==
  CASE report = "confirming" -> stage[i]
    [] report = "ready"      -> "pending"
    [] OTHER                 -> report

(* A bug's: the end is noted, but not drawn. *)
NothingToDraw(report) ==
  IF report = "confirming" THEN "answering"
  ELSE IF report \in Ended THEN "free" ELSE "redrawing"

(* A report that asks for confirmation is answered first. *)
Then(report) == IF report = "confirming" THEN "answering" ELSE "redrawing"

(* The reports of one sign-in come in order, one at a time; a report of an *)
(* end is the last.                                                        *)
Settle(t, i, report) ==
  /\ i \in asking /\ raising[i] = "over"
  /\ ~\E u \in Task : task[u].of = "report" /\ task[u].id = i
  /\ asking' = IF report \in Ended THEN asking \ {i} ELSE asking
  /\ IF i \in entries
     THEN Enters(t, "report", i, Then(report)) /\ Moves(i, After(i, report))
     ELSE UNCHANGED <<task, stage, revived>>
  /\ UNCHANGED <<raising, entries, shown, drawing, undrawn>>

(* Each click answers the node, then redraws.  The buttons are those of    *)
(* the card as last drawn.                                                 *)
Approve(t, i) ==
  /\ shown[i] = "approval"
  /\ i \in entries /\ stage[i] = "approval"
  /\ Enters(t, "click", i, "answering")
  /\ Moves(i, "starting")
  /\ UNCHANGED <<raising, entries, shown, asking, drawing, undrawn>>

Deny(t, i) ==
  /\ shown[i] \in {"approval", "pending"}
  /\ i \in entries
  /\ Enters(t, "click", i, "answering")
  /\ Moves(i, "denied")
  /\ UNCHANGED <<raising, entries, shown, asking, drawing, undrawn>>

SubmitCode(t, i) ==
  /\ shown[i] = "pending"
  /\ i \in entries \cap Codes
  /\ Enters(t, "click", i, "answering")
  /\ Moves(i, "working")
  /\ UNCHANGED <<raising, entries, shown, asking, drawing, undrawn>>

Answered(t) ==
  /\ task[t].at = "answering"
  /\ task' = [task EXCEPT ![t].at = "redrawing"]
  /\ UNCHANGED <<raising, entries, stage, shown, asking, drawing, undrawn, revived>>

----------------------------------------------------------------------------
(* `redraw` *)

(* A bug's: what is drawn stays. *)
KeepsEnded(i) == entries

(* An ended sign-in is forgotten once it is to be drawn for the last time. *)
Remaining(i) == IF stage[i] \in Ended THEN entries \ {i} ELSE entries

Redraws(t) ==
  /\ task[t].at = "redrawing"
  /\ MayDraw
  /\ IF task[t].id \in entries
     THEN /\ drawing' = t
          /\ task' = [task EXCEPT ![t] = [@ EXCEPT !.at = "updating", !.seen = stage[task[t].id]]]
          /\ entries' = Remaining(task[t].id)
     ELSE /\ task' = [task EXCEPT ![t] = Free]
          /\ UNCHANGED <<drawing, entries>>
  /\ undrawn' = undrawn \ {task[t].id}
  /\ UNCHANGED <<raising, stage, shown, asking, revived>>

Updated(t) ==
  /\ task[t].at = "updating"
  /\ \/ /\ shown' = [shown EXCEPT ![task[t].id] = task[t].seen]
        /\ UNCHANGED undrawn
     \/ /\ undrawn' = undrawn \cup ({task[t].id} \cap entries)
        /\ UNCHANGED shown
  /\ task'  = [task EXCEPT ![t] = Free]
  /\ drawing' = Nobody
  /\ UNCHANGED <<raising, entries, stage, asking, revived>>

----------------------------------------------------------------------------
RaiseStep(i) == RaiseLocks(i) \/ Registers(i) \/ Appears(i) \/ RaiseEnds(i)

TaskStep(t) == Answered(t) \/ Redraws(t) \/ Updated(t)

Next ==
  \/ \E i \in Id : Raise(i) \/ RaiseStep(i)
  \/ \E t \in Task : TaskStep(t)
  \/ \E t \in Task, i \in Id :
       \/ \E report \in Report : Settle(t, i, report)
       \/ Approve(t, i)
       \/ Deny(t, i)
       \/ SubmitCode(t, i)

Spec == Init /\ [][Next]_vars

(* The drawing lock is fair, and calls of Slack and the node end.          *)
FairSpec ==
  /\ Spec
  /\ \A i \in Id : SF_vars(RaiseStep(i))
  /\ \A t \in Task : SF_vars(TaskStep(t))

----------------------------------------------------------------------------
(* Properties *)

(* Every variable keeps its type; a sign-in's stage is never a report. *)
TypeOK ==
  /\ raising \in [Id -> {"no", "waiting", "free", "refused", "posting", "over"}]
  /\ entries \subseteq Id
  /\ stage \in [Id -> Stage]
  /\ shown \in [Id -> Stage \cup {"nothing"}]
  /\ asking \subseteq Id
  /\ drawing \in Id \cup Task \cup {Nobody}
  /\ task \in [Task -> Handler]
  /\ undrawn \subseteq entries
  /\ revived \subseteq Id

(* A handler still owes a redraw of i. *)
Owed(i) == \E t \in Task : task[t].id = i /\ task[t].at \in {"answering", "redrawing"}

InProgress(i) == raising[i] \in {"free", "posting"} \/ \E t \in Task : task[t].id = i /\ task[t].at = "updating"

(* A redraw never overwrites a newer one: when none is owed or in progress, *)
(* the card shows the stage, unless Slack refused the last redraw.          *)
LatestShown ==
  \A i \in entries \ undrawn :
    ~Owed(i) /\ ~InProgress(i) => shown[i] = stage[i]

(* A sign-in that ended leaves the list, and so stops holding its node's   *)
(* turns open, as soon as it is drawn.                                     *)
EndIsDrawn == \A i \in entries : stage[i] \in Ended => Owed(i)

(* Every variable keeps its type, and what ended is drawn. *)
DrawnToTheEnd == TypeOK /\ EndIsDrawn

(* Two sign-ins of one node at a time only after one of them was revived.  *)
OneUnlessRevived ==
  \A i, j \in entries \ revived :
    NodeOf[i] = NodeOf[j] /\ stage[i] \in Going /\ stage[j] \in Going => i = j

(* What ended leaves the list, unless it is revived first. *)
EndsLeave ==
  \A i \in Id : (i \in entries /\ stage[i] \in Ended) ~> (i \notin entries \/ stage[i] \in Going)

(* "A node gets one sign-in at a time" *)
OneAtATime ==
  \A i, j \in entries :
    NodeOf[i] = NodeOf[j] /\ stage[i] \in Going /\ stage[j] \in Going => i = j

(* A sign-in that is over in its node and that nothing will draw again is  *)
(* not "still waiting on its owner".                                       *)
PendingIsPending ==
  \A i \in entries :
    i \notin asking /\ stage[i] \in Going => Owed(i) \/ InProgress(i)
=============================================================================
