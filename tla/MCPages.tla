------------------------------ MODULE MCPages ------------------------------
(* Small instances of the pages agents write, in one run: a behaviour      *)
(* moves one of them, `part`, and leaves the others as they start, for     *)
(* they share no state in the code either.                                 *)
EXTENDS Naturals, Sequences, TLC

CONSTANTS a1, a2    \* agents that may be swapped

VARIABLES
  part,
  \* Canvas
  canvas, ids, edit, faults,
  \* CanvasText
  page, phase, left, parser, slack,
  \* Lists
  list, keeps, work, given, calls, upsets

canvasVars == <<canvas, ids, edit, faults>>
textVars   == <<page, phase, left, parser, slack>>
listVars   == <<list, keeps, work, given, calls, upsets>>
vars       == <<part, canvasVars, textVars, listVars>>

Agents == {a1, a2}
Swap   == Permutations(Agents)

(* A title, sections in sections and a table, and ids that end alike.      *)
Shape(level, fixed, text) == [level |-> level, fixed |-> fixed, text |-> text]

First ==
  <<Shape(1, FALSE, "title"), Shape(2, FALSE, "one"), Shape(0, FALSE, "a"),
    Shape(3, FALSE, "sub"), Shape(2, FALSE, "two"), Shape(0, TRUE, "table")>>

Written ==
  {<<Shape(1, FALSE, "new"), Shape(0, FALSE, "y")>>,
   <<Shape(2, FALSE, "three"), Shape(0, FALSE, "z")>>}

Digits ==
  << <<0, 0>>, <<0, 1>>, <<3, 0>>, <<0, 2>>, <<0, 3>>, <<3, 1>>, <<3, 2>>, <<1, 1>>,
     <<1, 2>>, <<1, 0>>, <<1, 3>>, <<2, 0>>, <<2, 1>>, <<2, 2>> >>

Ca == INSTANCE Canvas WITH
  Agent <- Agents, Ids <- Digits, FirstShapes <- First, Contents <- Written,
  MinAnchor <- 1, MaxFaults <- 1

(* Every kind of block, and those an emptied cell or a nested item makes.  *)
Text == INSTANCE CanvasText WITH
  canvas <- page, MaxBlocks <- 3,
  Blocks <-
    LET W(word) == [pad |-> 0, word |-> word]
        No      == [kind |-> "none", level |-> 0, style |-> "none", depth |-> 0,
                    checked |-> FALSE, text |-> <<>>, rows |-> <<>>]
        Made(kind, text) == [No EXCEPT !.kind = kind, !.text = text]
        Item(style, depth, checked, text) ==
          [Made("item", text) EXCEPT !.style = style, !.depth = depth, !.checked = checked]
    IN {[Made("heading", <<W("h")>>) EXCEPT !.level = 2],
        Made("paragraph", <<W("p")>>), Made("paragraph", <<>>),
        Made("code", <<[pad |-> 1, word |-> "c"], W(""), [pad |-> 1, word |-> "d"]>>),
        Made("quote", <<W("q")>>),
        Item("bullet", 0, FALSE, <<W("i")>>), Item("bullet", 2, FALSE, <<W("j")>>),
        Item("check", 1, TRUE, <<W("k")>>),
        [No EXCEPT !.kind = "table",
                   !.rows = << << <<W("a")>>, <<>> >>, << <<>>, <<W("b")>> >> >>],
        Made("rule", <<>>)}

(* Columns and options whose names differ in case, or make one key; words  *)
(* with space around them, links, and links shown under a name.            *)
Column(name, kind, multiple, labels) ==
  [name |-> name, kind |-> kind, multiple |-> multiple, labels |-> labels]

Small ==
  "Task" :> "task" @@ "Status" :> "status" @@ "status" :> "status" @@ "Open" :> "open"
    @@ "open" :> "open" @@ "To do" :> "to do" @@ "To-do" :> "to-do" @@ "Name" :> "name"
    @@ "See" :> "see" @@ "x.org" :> "x.org" @@ "y.org" :> "y.org"

Ids     == {"open", "open_2", "to_do", "to_do_2"}
Trimmed == (" Open" :> "Open" @@ "" :> "") @@ [w \in DOMAIN Small \cup Ids |-> w]
Is(word)      == [what |-> word, dressed |-> FALSE]
Dressed(word) == [what |-> word, dressed |-> TRUE]

Li == INSTANCE Lists WITH
  Agent <- Agents, Person <- "alice", Lower <- Small, Trim <- Trimmed,
  Wishes <-
    {<<Column("Task", "text", FALSE, <<>>),
       Column("Status", "select", TRUE, <<"Open", "To do", "To-do">>)>>,
     <<Column("Status", "select", FALSE, <<"Open", "open">>),
       Column("status", "text", FALSE, <<>>)>>,
     <<Column("See", "link", FALSE, <<>>)>>},
  Urls <- {"x.org", "y.org"},
  Values <- [kind \in {"text", "select"} |->
               {<<Is("To-do"), Is("Open")>>, <<Is(" Open")>>}]
         @@ "link" :> {<<Is("")>>, <<Dressed("x.org")>>},
  ByHand <- "text" :> {<<Dressed(" Open")>>}
         @@ "link" :> {<<Dressed("y.org")>>, <<Is("x.org"), Is("y.org")>>},
  Slug <- [Small EXCEPT !["To do"] = "to_do", !["To-do"] = "to_do"],
  PageRows <- 1, MaxCalls <- 3, MaxRows <- 2, MaxUpsets <- 1

(* The constants of each part are what its module asks of them. *)
ASSUME PagesFit ==
  /\ Ca!ContentsAssumption /\ Ca!BoundsAssumption /\ Ca!IdsAssumption
  /\ Text!BlocksAssumption
  /\ Li!WishesAssumption /\ Li!BoundsAssumption

(* A part that stays off. *)
Off(v) == v = "off"
CanvasOff == Off(canvas) /\ Off(ids) /\ Off(edit) /\ Off(faults)
TextOff   == Off(page) /\ Off(phase) /\ Off(left) /\ Off(parser) /\ Off(slack)
ListOff   == Off(list) /\ Off(keeps) /\ Off(work) /\ Off(given) /\ Off(calls) /\ Off(upsets)

Init ==
  /\ part \in {"canvas", "text", "list"}
  /\ IF part = "canvas" THEN Ca!Init   ELSE CanvasOff
  /\ IF part = "text"   THEN Text!Init ELSE TextOff
  /\ IF part = "list"   THEN Li!Init   ELSE ListOff

Next ==
  \/ part = "canvas" /\ Ca!Next /\ UNCHANGED <<part, textVars, listVars>>
  \/ part = "text" /\ Text!Next /\ UNCHANGED <<part, canvasVars, listVars>>
  \/ part = "list" /\ Li!Next /\ UNCHANGED <<part, canvasVars, textVars>>

Spec == Init /\ [][Next]_vars
-----------------------------------------------------------------------------
(* Properties *)

(* An edit does to a canvas what was asked, at the heading it was asked    *)
(* of, and where it stops halfway the old section or the new is there.     *)
CanvasKept ==
  part = "canvas" => Ca!TypeOK /\ Ca!DoesAsAsked /\ Ca!NeverNeither /\ Ca!AimsAtTheHeading

(* A canvas is read whole, and the Markdown of it written back is the      *)
(* same canvas.                                                            *)
TextKept == part = "text" => Text!TypeOK /\ Text!ReadsEveryBlock /\ Text!WritesBack

(* A List is made as Slack takes it and usable as the answer says, and     *)
(* its rows are added, paged and written back as the agents are told.      *)
ListsKept ==
  part = "list" =>
    /\ Li!TypeOK /\ Li!MakesWhatSlackTakes /\ Li!CreatedIsUsable
    /\ Li!MistakeAddsNothing /\ Li!PagesMissNothing /\ Li!ReadsAsItWrites
=============================================================================
