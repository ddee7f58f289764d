------------------------------ MODULE MCEdges ------------------------------
(* Small instances of the parts that need no fairness, in one run: a       *)
(* behaviour moves one of them, `part`, and leaves the others as they      *)
(* start, for they share no state in the code either.                      *)
EXTENDS Naturals, Sequences, FiniteSets, TLC

CONSTANTS a1, a2    \* machines, tasks, calls or commands that may be swapped

VARIABLES
  part,
  \* Pins
  pin, home, alive, status, moved, orphaned, seat, mover, leaving, spoke,
  caughtUp, excused, promise, pinsUsed,
  \* Retries
  now, retries, trying, failures, owed, later, pressed,
  \* Socket
  conns, refreshing, down, up, pending, undelivered, timers, unsent, reader,
  answers, queue, seen, spawned, acked, budget,
  \* Workloads
  request, answer, started, runs, arriving, turns, barged, together, lapsed,
  forgotten,
  \* Panel
  rights, settings, token, rules, busy, tab, modal, redrawing, panelTask,
  answered, crossed, slipped, unseen, panelUsed,
  \* Lent
  fs, rooted, routes, open, buffer, dirty, disk, torn, call, lentFaults,
  \* Intake
  chatters, admits, seated, task, turn, behind, loop, reached, overheard, marked,
  steered, ever, intakeUsed,
  \* Threads
  thread, held, sender, told, threadReader, unsure, removed, threadsUsed,
  \* Service
  plist, staged, job, cmd, said, serviceFaults

pinVars == <<pin, home, alive, status, moved, orphaned, seat, mover, leaving,
             spoke, caughtUp, excused, promise, pinsUsed>>
retryVars == <<now, retries, trying, failures, owed, later, pressed>>
sockVars == <<conns, refreshing, down, up, pending, undelivered, timers,
              unsent, reader, answers, queue, seen, spawned, acked, budget>>
workVars == <<request, answer, started, runs, arriving, turns, barged,
              together, lapsed, forgotten>>
panelVars == <<rights, settings, token, rules, busy, tab, modal, redrawing,
               panelTask, answered, crossed, slipped, unseen, panelUsed>>
lentVars == <<fs, rooted, routes, open, buffer, dirty, disk, torn, call,
              lentFaults>>
intakeVars == <<chatters, admits, seated, task, turn, behind, loop, reached,
                overheard, marked, steered, ever, intakeUsed>>
threadVars == <<thread, held, sender, told, threadReader, unsure, removed,
                threadsUsed>>
serviceVars == <<plist, staged, job, cmd, said, serviceFaults>>
vars == <<part, pinVars, retryVars, sockVars, workVars, panelVars, lentVars,
          intakeVars, threadVars, serviceVars>>

Twins == {a1, a2}
Swap  == Permutations(Twins)

(* Two machines, or one, and one click on the menu at a time. *)
Pin == INSTANCE Pins WITH
  Node <- Twins, NoNode <- "no node", Mover <- {"click"}, used <- pinsUsed,
  MaxMessages <- 2, MaxMoves <- 1, MaxLosses <- 1, MaxFaults <- 1
Alone == INSTANCE Pins WITH
  Node <- {"n1"}, NoNode <- "no node", Mover <- {"click"}, used <- pinsUsed,
  MaxMessages <- 2, MaxMoves <- 1, MaxLosses <- 1, MaxFaults <- 1

(* Three messages of one person, an offer fewer. *)
Retry == INSTANCE Retries WITH
  Message <- 1 .. 3, User <- {"alice", "bob"}, AuthorOf <- [m \in 1 .. 3 |-> "alice"],
  RetriesMost <- 2, RetryTtl <- 4, MaxNow <- 5, MaxFailures <- 5

(* Two events, one of which is remembered at a time, or a form. *)
Sock == INSTANCE Socket WITH
  Envelope <- {"e1", "e2"}, KindOf <- [e \in {"e1", "e2"} |-> "event"],
  Remembered <- 1, MaxRetries <- 2, MaxConns <- 2, MaxCuts <- 1,
  MaxRefreshes <- 1, MaxSlow <- 1
Form == INSTANCE Socket WITH
  Envelope <- {"form"}, KindOf <- [e \in {"form"} |-> "view"],
  Remembered <- 1, MaxRetries <- 2, MaxConns <- 2, MaxCuts <- 1,
  MaxRefreshes <- 1, MaxSlow <- 1

(* Three requests, two of them with one key; the first starts a thread.    *)
Requests == {"q1", "q2", "q3"}
Work == INSTANCE Workloads WITH
  Request <- Requests, Thread <- {"thread"}, Key <- {"key"}, None <- "none",
  KeyOf <- [q \in Requests |-> IF q = "q3" THEN "none" ELSE "key"],
  TargetOf <- [q \in Requests |-> IF q = "q1" THEN "none" ELSE "thread"],
  crossed <- together

(* An admin, and the owner of a node; an admin on their own, who does two  *)
(* things at once, one of which may fail; or one who mints a credential.   *)
Two == INSTANCE Panel WITH
  Person <- {"alice", "bob"}, Admin <- "alice", Node <- {"node"}, Client <- {"client"},
  Tool <- {"tool"}, Nobody <- "nobody", Task <- Twins,
  OwnerOf <- ("node" :> "bob" @@ "client" :> "nobody"),
  MaxClicks <- 1, MaxOpens <- 1, MaxChanges <- 1, MaxFaults <- 0,
  task <- panelTask, used <- panelUsed
One == INSTANCE Panel WITH
  Person <- {"alice"}, Admin <- "alice", Node <- {"node"}, Client <- {"client"},
  Tool <- {"tool"}, Nobody <- "nobody", Task <- Twins,
  OwnerOf <- ("node" :> "alice" @@ "client" :> "alice"),
  MaxClicks <- 2, MaxOpens <- 0, MaxChanges <- 0, MaxFaults <- 1,
  task <- panelTask, used <- panelUsed
Mint == INSTANCE Panel WITH
  Person <- {"alice"}, Admin <- "alice", Node <- {"node"}, Client <- {"client"},
  Tool <- {}, Nobody <- "nobody", Task <- {"desk"},
  OwnerOf <- ("node" :> "nobody" @@ "client" :> "nobody"),
  MaxClicks <- 2, MaxOpens <- 1, MaxChanges <- 0, MaxFaults <- 2,
  task <- panelTask, used <- panelUsed

(* Two calls at one file: below a root, where edits of its two lines can   *)
(* follow each other, or not, and with a line that is there twice.         *)
Lend == INSTANCE Lent WITH
  Line <- {"l1", "l2"}, New <- {"x1"}, Typed <- {"y"}, Twice <- {},
  Call <- Twins, Person <- "person", Servers <- << {"read_text_file"} >>,
  Inside <- TRUE, MaxFaults <- 1, faults <- lentFaults
Beside == INSTANCE Lent WITH
  Line <- {"l1", "l3"}, New <- {"x1"}, Typed <- {"y"}, Twice <- {"l3"},
  Call <- Twins, Person <- "person", Servers <- << {"lint"} >>,
  Inside <- FALSE, MaxFaults <- 0, faults <- lentFaults

(* Two machines, each of which lets one person in: the words of the two,   *)
(* then commands.                                                          *)
LetIn == "n1" :> {"alice"} @@ "n2" :> {"bob"}
Wrote == <<"alice", "bob", "alice", "bob", "bob">>
Words == INSTANCE Intake WITH
  Person <- {"alice", "bob"}, Nobody <- "nobody", Node <- {"n1", "n2"},
  NoNode <- "no node", Message <- 1 .. 3, LetInFirst <- LetIn,
  AuthorOf <- SubSeq(Wrote, 1, 3), KindOf <- [m \in 1 .. 3 |-> "words"],
  MaxChanges <- 1, MaxMoves <- 1, MaxFaults <- 0, pin <- seated, used <- intakeUsed
Orders == INSTANCE Intake WITH
  Person <- {"alice", "bob"}, Nobody <- "nobody", Node <- {"n1", "n2"},
  NoNode <- "no node", Message <- 1 .. 5, LetInFirst <- LetIn, AuthorOf <- Wrote,
  KindOf <- <<"words", "stop", "slash", "node", "other">>,
  MaxChanges <- 0, MaxMoves <- 0, MaxFaults <- 1, pin <- seated, used <- intakeUsed

(* A file of the turn and one of a tool, a reply on a page. *)
Files == INSTANCE Threads WITH
  File <- {"f1", "f2"}, ByEvent <- {"f1"}, NoFile <- "no file", PageReplies <- 1,
  MaxRetries <- 1, MaxPosts <- 2, MaxDeletes <- 1, MaxFaults <- 1,
  reader <- threadReader, used <- threadsUsed

(* Three commands, two of them alike until they say what they are. *)
Daemon == INSTANCE Service WITH
  Command <- Twins \cup {"c3"}, NoCommand <- "no command", MaxFaults <- 1,
  faults <- serviceFaults

(* The constants of each part are what its module asks of them. *)
ASSUME EdgesFit ==
  /\ Pin!NodeAssumption /\ Pin!BoundsAssumption
  /\ Alone!NodeAssumption /\ Alone!BoundsAssumption
  /\ Retry!AuthorAssumption /\ Retry!LimitsAssumption
  /\ Sock!KindAssumption /\ Sock!BoundsAssumption
  /\ Form!KindAssumption /\ Form!BoundsAssumption
  /\ Work!RequestAssumption /\ Work!NoneAssumption
  /\ Two!PeopleAssumption /\ Two!TokenAssumption /\ Two!BoundsAssumption
  /\ One!PeopleAssumption /\ One!TokenAssumption /\ One!BoundsAssumption
  /\ Mint!PeopleAssumption /\ Mint!TokenAssumption /\ Mint!BoundsAssumption
  /\ Lend!LinesAssumption /\ Lend!BoundsAssumption
  /\ Beside!LinesAssumption /\ Beside!BoundsAssumption
  /\ Words!NullAssumption /\ Words!MessageAssumption /\ Words!KindAssumption
  /\ Words!LetAssumption /\ Words!BoundsAssumption
  /\ Orders!NullAssumption /\ Orders!MessageAssumption
  /\ Orders!KindAssumption /\ Orders!LetAssumption /\ Orders!BoundsAssumption
  /\ Files!FileAssumption /\ Files!PageAssumption /\ Files!BoundsAssumption
  /\ Daemon!CommandAssumption /\ Daemon!BoundsAssumption

Parts == {"pins", "alone", "retries", "socket", "form", "workloads", "two", "one",
          "mint", "lent", "beside", "words", "orders", "threads", "service"}

(* A part that stays off. *)
Off(v) == v = "off"
PinOff == /\ Off(pin) /\ Off(home) /\ Off(alive) /\ Off(status) /\ Off(moved)
          /\ Off(orphaned) /\ Off(seat) /\ Off(mover) /\ Off(leaving)
          /\ Off(spoke) /\ Off(caughtUp) /\ Off(excused) /\ Off(promise)
          /\ Off(pinsUsed)
RetryOff == /\ Off(now) /\ Off(retries) /\ Off(trying) /\ Off(failures)
            /\ Off(owed) /\ Off(later) /\ Off(pressed)
SockOff == /\ Off(conns) /\ Off(refreshing) /\ Off(down) /\ Off(up)
           /\ Off(pending) /\ Off(undelivered) /\ Off(timers)
           /\ Off(unsent) /\ Off(reader) /\ Off(answers) /\ Off(queue)
           /\ Off(seen) /\ Off(spawned) /\ Off(acked) /\ Off(budget)
WorkOff == /\ Off(request) /\ Off(answer) /\ Off(started) /\ Off(runs)
           /\ Off(arriving) /\ Off(turns) /\ Off(barged) /\ Off(together)
           /\ Off(lapsed) /\ Off(forgotten)
PanelOff == /\ Off(rights) /\ Off(settings) /\ Off(token) /\ Off(rules)
            /\ Off(busy) /\ Off(tab) /\ Off(modal) /\ Off(redrawing)
            /\ Off(panelTask) /\ Off(answered) /\ Off(crossed) /\ Off(slipped)
            /\ Off(unseen) /\ Off(panelUsed)
LentOff == /\ Off(fs) /\ Off(rooted) /\ Off(routes) /\ Off(open)
           /\ Off(buffer) /\ Off(dirty) /\ Off(disk) /\ Off(torn)
           /\ Off(call) /\ Off(lentFaults)
IntakeOff == /\ Off(chatters) /\ Off(admits) /\ Off(seated) /\ Off(task)
             /\ Off(turn) /\ Off(behind) /\ Off(loop) /\ Off(reached)
             /\ Off(overheard) /\ Off(marked) /\ Off(steered)
             /\ Off(ever) /\ Off(intakeUsed)
ThreadOff == /\ Off(thread) /\ Off(held) /\ Off(sender) /\ Off(told)
             /\ Off(threadReader) /\ Off(unsure) /\ Off(removed)
             /\ Off(threadsUsed)
ServiceOff == /\ Off(plist) /\ Off(staged) /\ Off(job) /\ Off(cmd)
              /\ Off(said) /\ Off(serviceFaults)

Init ==
  /\ part \in Parts
  /\ IF part = "alone" THEN Alone!Init ELSE IF part = "pins" THEN Pin!Init ELSE PinOff
  /\ IF part = "retries"   THEN Retry!Init  ELSE RetryOff
  /\ IF part = "form" THEN Form!Init ELSE IF part = "socket" THEN Sock!Init ELSE SockOff
  /\ IF part = "workloads" THEN Work!Init   ELSE WorkOff
  /\ IF part = "one" THEN One!Init ELSE IF part = "mint" THEN Mint!Init
     ELSE IF part = "two" THEN Two!Init ELSE PanelOff
  /\ IF part = "beside" THEN Beside!Init ELSE IF part = "lent" THEN Lend!Init ELSE LentOff
  /\ IF part = "orders" THEN Orders!Init ELSE IF part = "words" THEN Words!Init ELSE IntakeOff
  /\ IF part = "threads"   THEN Files!Init  ELSE ThreadOff
  /\ IF part = "service"   THEN Daemon!Init ELSE ServiceOff

(* One part moves, and the others stay as they are. *)
Only(p) ==
  /\ part = p /\ UNCHANGED part
  /\ IF p \in {"pins", "alone"} THEN TRUE ELSE UNCHANGED pinVars
  /\ IF p = "retries" THEN TRUE ELSE UNCHANGED retryVars
  /\ IF p \in {"socket", "form"} THEN TRUE ELSE UNCHANGED sockVars
  /\ IF p = "workloads" THEN TRUE ELSE UNCHANGED workVars
  /\ IF p \in {"two", "one", "mint"} THEN TRUE ELSE UNCHANGED panelVars
  /\ IF p \in {"lent", "beside"} THEN TRUE ELSE UNCHANGED lentVars
  /\ IF p \in {"words", "orders"} THEN TRUE ELSE UNCHANGED intakeVars
  /\ IF p = "threads" THEN TRUE ELSE UNCHANGED threadVars
  /\ IF p = "service" THEN TRUE ELSE UNCHANGED serviceVars

Next ==
  \/ Only("pins") /\ Pin!Next
  \/ Only("alone") /\ Alone!Next
  \/ Only("retries") /\ Retry!Next
  \/ Only("socket") /\ Sock!Next
  \/ Only("form") /\ Form!Next
  \/ Only("workloads") /\ Work!Next
  \/ Only("two") /\ Two!Next
  \/ Only("one") /\ One!Next
  \/ Only("mint") /\ Mint!Next
  \/ Only("lent") /\ Lend!Next
  \/ Only("beside") /\ Beside!Next
  \/ Only("words") /\ Words!Next
  \/ Only("orders") /\ Orders!Next
  \/ Only("threads") /\ Files!Next
  \/ Only("service") /\ Daemon!Next

Spec == Init /\ [][Next]_vars
-----------------------------------------------------------------------------
(* Properties *)

(* What an agent is told is so: it speaks in a session only with the       *)
(* thread behind it, reads the thread whole, and is told the truth about   *)
(* the file it sent.                                                       *)
AgentsKnow ==
  /\ part = "pins" => Pin!TypeOK /\ Pin!SpeaksInformed /\ Pin!MoveSticks
  /\ part = "alone" => Alone!SpeaksInformed /\ Alone!MoveSticks
  /\ part = "threads" => Files!TypeOK /\ Files!ToldTrue /\ Files!ReadsWhole



(* What a person had typed and not saved when an agent's edit began, and     *)
(* the lines an edit was not to touch, outlast it; what an agent was told is *)
(* written outlasts the edits that follow.  What is typed between an edit's  *)
(* read and its write does not (Lent!EditsKeepTyped).                        *)
FilesKept ==
  /\ part = "lent" => Lend!TypeOK /\ Lend!UnsavedKept /\ Lend!WrittenStays
                      /\ Lend!EditsKeepTheRest
  /\ part = "beside" => Beside!UnsavedKept /\ Beside!WrittenStays /\ Beside!EditsKeepTheRest

(* A decision holds: no credential that was revoked is valid again,        *)
(* whatever the admins and the owner of its node do at the same time.      *)
DecisionsStick == [][(part \in {"one", "two", "mint"} => Two!RevokedStays)]_panelVars

(* An offer to send a message again stays while fewer than RETRIES_MOST    *)
(* others failed since.                                                    *)
OffersStay == [][(part = "retries" => \A m \in Retry!Offered : Retry!GoesOnlyCrowded(m))]_retryVars

(* A command about the service keeps the plist it was not asked to replace *)
(* and says what it did.                                                   *)
ServiceKept == [][(part = "service" => Daemon!KeepsPlist /\ Daemon!SpeaksTrue)]_serviceVars
=============================================================================
