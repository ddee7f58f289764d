------------------------------ MODULE Canvas -------------------------------
(***************************************************************************)
(* The canvas tools (crates/murtaugh-gateway/src/tools/canvas: mod.rs,     *)
(* read.rs, edit.rs, and the anchors and sections of document.rs) over a   *)
(* canvas as the simulator keeps it (crates/slack-sim/src/canvas.rs).      *)
(*                                                                         *)
(* An edit loads the canvas, plans the `canvases.edit` calls it takes and  *)
(* makes them one by one; agents work on one canvas at a time.  A block is *)
(* its id, the level of the heading it is (0: none), whether Slack cannot  *)
(* remove it (a table or a divider), and its text.  How blocks are read    *)
(* and written is in module CanvasText.                                    *)
(***************************************************************************)
EXTENDS Naturals, Sequences, SequencesExt, FiniteSetsExt

CONSTANTS
  Agent,
  Ids,          \* the ids Slack gives to blocks, in order: sequences of digits
  FirstShapes,  \* the canvas at first
  Contents,     \* what agents write
  MinAnchor,    \* MIN_ANCHOR
  MaxFaults     \* bounds the calls of Slack that fail

ContentsAssumption == FirstShapes # <<>> /\ <<>> \notin Contents
BoundsAssumption ==
  /\ MinAnchor \in Nat \ {0} /\ MaxFaults \in Nat
IdsAssumption ==
  \A i, j \in DOMAIN Ids : Len(Ids[i]) = Len(Ids[j]) /\ (Ids[i] = Ids[j] => i = j)

VARIABLES
  canvas,   \* its blocks
  ids,      \* how many ids were given out
  edit,     \* Agent -> the edit it makes
  faults

vars == <<canvas, ids, edit, faults>>

Shape(b) == [level |-> b.level, fixed |-> b.fixed, text |-> b.text]
Shapes(blocks) == [i \in DOMAIN blocks |-> Shape(blocks[i])]

(* Blocks for the shapes, the first ids after n. *)
Born(shapes, n) ==
  [i \in DOMAIN shapes |-> [id |-> Ids[n + i], level |-> shapes[i].level,
                            fixed |-> shapes[i].fixed, text |-> shapes[i].text]]

IdsOf(blocks) == {blocks[i].id : i \in DOMAIN blocks}
NoId    == <<>>
Nothing == [anchor |-> NoId, id |-> NoId]

Idle == [at |-> "idle", op |-> "append", target |-> "edge", handle |-> Nothing,
         content |-> <<>>, before |-> <<>>, aimed |-> 0, changes |-> <<>>, done |-> 0,
         applied |-> 0, alone |-> TRUE, told |-> "nothing yet"]

Init ==
  /\ canvas = Born(FirstShapes, 0)
  /\ ids    = Len(FirstShapes)
  /\ edit   = [a \in Agent |-> Idle]
  /\ faults = 0

At(a, stage) == edit[a].at = stage

----------------------------------------------------------------------------
(* `Document`: anchors and sections *)

Headings(blocks) == {i \in DOMAIN blocks : blocks[i].level > 0}
EndOf(id, len)   == SubSeq(id, Max({0, Len(id) - len}) + 1, Len(id))
Apart(blocks, n) ==
  \A i, j \in Headings(blocks) : EndOf(blocks[i].id, n) = EndOf(blocks[j].id, n) => i = j

(* The fewest characters, of MinAnchor at least, that keep every heading   *)
(* apart.                                                                  *)
AnchorLen(blocks) ==
  Min({n \in MinAnchor .. Len(Ids[1]) : Apart(blocks, n)} \cup {Len(Ids[1])})

Anchors(blocks) ==
  LET n == AnchorLen(blocks)
  IN {[anchor |-> EndOf(blocks[i].id, n), id |-> blocks[i].id] : i \in Headings(blocks)}

EndsWith(id, tail) == Len(tail) <= Len(id) /\ EndOf(id, Len(tail)) = tail

(* A bug's: of the headings an anchor may name, the first is meant. *)
NamedFirst(blocks, anchor) ==
  LET named == {i \in Headings(blocks) : EndsWith(blocks[i].id, anchor)}
  IN IF named = {} THEN {} ELSE {Min(named)}

(* The headings an anchor names. *)
Named(blocks, anchor) == {i \in Headings(blocks) : EndsWith(blocks[i].id, anchor)}

(* A bug's: a section ends at the next heading of any level. *)
EndsAtNext(blocks, start, i) == blocks[i].level > 0

EndsAt(blocks, start, i) == blocks[i].level \in 1 .. blocks[start].level

(* `Span`: the index past the section that starts at a heading. *)
SpanEnd(blocks, start) ==
  Min({i \in start + 1 .. Len(blocks) : EndsAt(blocks, start, i)} \cup {Len(blocks) + 1})

----------------------------------------------------------------------------
(* `Target::resolve` and `plan` *)

Ops     == {"append", "prepend", "replace", "delete"}
Targets == {"edge", "section", "whole", "both"}

(* What may be asked of what: nothing is destroyed by omission. *)
Resolves(op, target) ==
  \/ target = "section"
  \/ target = "edge"  /\ op \in {"append", "prepend"}
  \/ target = "whole" /\ op = "replace"

Change(do, at, content) == [do |-> do, at |-> at, content |-> content]

Deletes(blocks) == [i \in DOMAIN blocks |-> Change("delete", blocks[i].id, <<>>)]

Title(content) == content[1].level = 1
HasTitle(blocks) == blocks # <<>> /\ blocks[1].level = 1
Untitled(content) == IF Title(content) THEN Tail(content) ELSE content

(* A bug's: what the section held goes before what it is to hold. *)
DeletesFirst(section, content) ==
  Append(Deletes(section), Change("end", NoId, content))

(* The new content goes in before the old is deleted. *)
InsertsFirst(section, content) ==
  <<Change("before", section[1].id, content)>> \o Deletes(section)

(* A bug's: a whole replace is thought to take the title too. *)
RewriteKeepsTitle(blocks, content) == <<Change("replace", NoId, content)>>

(* `replace_whole`: Slack keeps a canvas's title, which is replaced, or    *)
(* deleted, on its own.                                                    *)
Rewrite(blocks, content) ==
  IF ~HasTitle(blocks) THEN <<Change("replace", NoId, content)>>
  ELSE << Change("replace", NoId, Untitled(content)),
          IF Title(content) THEN Change("replace", blocks[1].id, <<content[1]>>)
          ELSE Change("delete", blocks[1].id, <<>>) >>

(* What is refused once the canvas is read: an anchor of no heading, or of *)
(* two; a section with something Slack cannot remove; a rewrite that is a  *)
(* title alone.                                                            *)
Refuses(e, blocks) ==
  \/ /\ e.target = "section"
     /\ LET named == Named(blocks, e.handle.anchor)
        IN \/ Cardinality(named) # 1
           \/ /\ e.op \in {"replace", "delete"}
              /\ \E i \in Min(named) .. SpanEnd(blocks, Min(named)) - 1 : blocks[i].fixed
  \/ /\ e.target = "whole"
     /\ HasTitle(blocks) /\ Untitled(e.content) = <<>>

(* The calls an edit takes, in order. *)
Plan(e, blocks) ==
  CASE e.target = "edge" ->
         <<Change(IF e.op = "prepend" THEN "start" ELSE "end", NoId, e.content)>>
    [] e.target = "whole" -> Rewrite(blocks, e.content)
    [] e.target = "section" ->
         LET start == Min(Named(blocks, e.handle.anchor))
             end   == SpanEnd(blocks, start)
             section == SubSeq(blocks, start, end - 1)
         IN CASE e.op = "append" ->
                   IF end > Len(blocks) THEN <<Change("end", NoId, e.content)>>
                   ELSE <<Change("before", blocks[end].id, e.content)>>
              [] e.op = "prepend" -> <<Change("after", section[1].id, e.content)>>
              [] e.op = "replace" -> InsertsFirst(section, e.content)
              [] e.op = "delete"  -> Deletes(section)

----------------------------------------------------------------------------
(* `canvases.edit`, as Slack applies one change *)

Position(blocks, id) == {i \in DOMAIN blocks : blocks[i].id = id}

(* The block it names is there: it names none, or any but a fixed one. *)
Applicable(c, blocks) == c.at # NoId => Position(blocks, c.at) # {}

Spliced(blocks, from, to, born) ==
  SubSeq(blocks, 1, from - 1) \o born \o SubSeq(blocks, to, Len(blocks))

(* `replace` on a block keeps its id, and a whole replace keeps the title. *)
Applied(c, blocks) ==
  LET born == Born(c.content, ids)
      at   == IF c.at = NoId THEN 0 ELSE Min(Position(blocks, c.at))
  IN CASE c.do = "start"   -> born \o blocks
       [] c.do = "end"     -> blocks \o born
       [] c.do = "before"  -> Spliced(blocks, at, at, born)
       [] c.do = "after"   -> Spliced(blocks, at + 1, at + 1, born)
       [] c.do = "delete"  -> Spliced(blocks, at, at + 1, <<>>)
       [] c.do = "replace" /\ c.at = NoId ->
            (IF HasTitle(blocks) THEN <<blocks[1]>> ELSE <<>>) \o born
       [] c.do = "replace" /\ c.at # NoId ->
            Spliced(blocks, at, at + 1, [born EXCEPT ![1].id = c.at])

----------------------------------------------------------------------------
(* The tools *)

(* `read_canvas`, or the new headings an earlier edit answered with: the   *)
(* agent takes an anchor from them.                                        *)
Reads(a, handle) ==
  /\ At(a, "idle")
  /\ edit' = [edit EXCEPT ![a].at = "reading", ![a].handle = handle]
  /\ UNCHANGED <<canvas, ids, faults>>

(* `edit_canvas` is asked for; what it cannot mean is refused unread. *)
Asks(a, op, target, content) ==
  /\ edit[a].at = IF target \in {"section", "both"} THEN "reading" ELSE "idle"
  /\ edit' = [edit EXCEPT ![a] = [@ EXCEPT
       !.at = IF Resolves(op, target) THEN "loading" ELSE "over",
       !.told = IF Resolves(op, target) THEN "nothing yet" ELSE "nothing changed",
       !.op = op, !.target = target, !.content = content]]
  /\ UNCHANGED <<canvas, ids, faults>>

(* `Canvas::load`, and the plan. *)
Loads(a) ==
  /\ At(a, "loading")
  /\ edit' = [edit EXCEPT ![a] =
       IF Refuses(edit[a], canvas)
       THEN [@ EXCEPT !.at = "over", !.told = "nothing changed", !.before = canvas]
       ELSE [@ EXCEPT !.at = "changing", !.before = canvas, !.changes = Plan(edit[a], canvas),
                      !.aimed = IF edit[a].target = "section"
                                THEN Min(Named(canvas, edit[a].handle.anchor)) ELSE 0]]
  /\ UNCHANGED <<canvas, ids, faults>>

CannotLoad(a) ==
  /\ At(a, "loading")
  /\ faults < MaxFaults
  /\ faults' = faults + 1
  /\ edit' = [edit EXCEPT ![a].at = "over", ![a].told = "nothing changed"]
  /\ UNCHANGED <<canvas, ids>>

ThisChange(a) == edit[a].changes[edit[a].done + 1]

(* The edit stops at a call that failed, and says so. *)
Stopped(e) ==
  [e EXCEPT !.at = "over", !.told = IF e.done = 0 THEN "nothing changed" ELSE "part-way"]

(* The others' edits are no longer of the canvas they read. *)
Interferes(a, of) ==
  [b \in Agent |-> IF b = a THEN of[b] ELSE [of[b] EXCEPT !.alone = FALSE]]

Advanced(e) ==
  [e EXCEPT !.done = @ + 1, !.applied = @ + 1,
            !.at = IF e.done + 1 = Len(e.changes) THEN "done" ELSE "changing"]

Changes(a) ==
  /\ At(a, "changing")
  /\ Applicable(ThisChange(a), canvas)
  /\ canvas' = Applied(ThisChange(a), canvas)
  /\ ids' = ids + Len(ThisChange(a).content)
  /\ edit' = Interferes(a, [edit EXCEPT ![a] = Advanced(@)])
  /\ UNCHANGED faults

(* "Invalid section ID": somebody else removed the block. *)
ChangeRefused(a) ==
  /\ At(a, "changing")
  /\ ~Applicable(ThisChange(a), canvas)
  /\ edit' = [edit EXCEPT ![a] = Stopped(@)]
  /\ UNCHANGED <<canvas, ids, faults>>

(* The call fails: Slack did not get it, or did and its answer was lost.   *)
ChangeFails(a) ==
  /\ At(a, "changing")
  /\ faults < MaxFaults
  /\ faults' = faults + 1
  /\ \/ UNCHANGED <<canvas, ids>> /\ edit' = [edit EXCEPT ![a] = Stopped(@)]
     \/ /\ Applicable(ThisChange(a), canvas)
        /\ canvas' = Applied(ThisChange(a), canvas)
        /\ ids' = ids + Len(ThisChange(a).content)
        /\ edit' = Interferes(a, [edit EXCEPT ![a] = [Stopped(@) EXCEPT !.applied = @ + 1]])

(* All of it was applied; the headings that are new are read back. *)
Finishes(a) ==
  /\ At(a, "done")
  /\ edit' = [edit EXCEPT ![a].at = "over", ![a].told = "done"]
  /\ UNCHANGED <<canvas, ids, faults>>

(* A delete has no content. *)
Next ==
  \E a \in Agent :
    \/ \E handle \in Anchors(canvas) : Reads(a, handle)
    \/ \E op \in Ops \ {"delete"}, target \in Targets, content \in Contents :
         Asks(a, op, target, content)
    \/ \E target \in Targets : Asks(a, "delete", target, <<>>)
    \/ Loads(a) \/ CannotLoad(a) \/ Changes(a) \/ ChangeRefused(a) \/ ChangeFails(a)
    \/ Finishes(a)

Spec == Init /\ [][Next]_vars

----------------------------------------------------------------------------
(* Properties *)

(* Every variable keeps its type, and a block's id is its own. *)
TypeOK ==
  /\ Shapes(canvas) \in Seq([level : 0 .. 3, fixed : BOOLEAN, text : STRING])
  /\ \A i, j \in DOMAIN canvas : canvas[i].id = canvas[j].id => i = j
  /\ ids \in Len(canvas) .. Len(Ids)
  /\ \A a \in Agent : edit[a].done <= edit[a].applied

(* The blocks of the section that starts at i, said another way: those     *)
(* with no heading of its level or above between.                          *)
Under(blocks, i) ==
  {j \in i .. Len(blocks) :
     \A k \in i + 1 .. j : blocks[k].level = 0 \/ blocks[k].level > blocks[i].level}

(* What an edit is to make of the canvas it read. *)
Asked(e) ==
  LET old   == Shapes(e.before)
      under == Under(e.before, e.aimed)
      upto  == SubSeq(old, 1, Max(under))
      above == SubSeq(old, 1, e.aimed - 1)
      rest  == SubSeq(old, Max(under) + 1, Len(old))
  IN CASE e.target = "whole" -> e.content
       [] e.target = "edge" -> IF e.op = "append" THEN old \o e.content ELSE e.content \o old
       [] e.target = "section" /\ e.op = "append"  -> upto \o e.content \o rest
       [] e.target = "section" /\ e.op = "prepend" ->
            Append(above, old[e.aimed]) \o e.content \o SubSeq(old, e.aimed + 1, Len(old))
       [] e.target = "section" /\ e.op = "replace" -> above \o e.content \o rest
       [] e.target = "section" /\ e.op = "delete"  -> above \o rest

(* An edit nobody else interfered with makes of the canvas what was asked: *)
(* the section with its subsections, and nothing beyond it; the whole      *)
(* canvas, its title too, although Slack keeps that.                       *)
DoesAsAsked ==
  \A a \in Agent :
    At(a, "done") /\ edit[a].alone => Shapes(canvas) = Asked(edit[a])

(* "a failure part-way leaves the old content beside the new rather than   *)
(* neither": wherever a replace stops, the section's old blocks are all    *)
(* there, or the new ones are.                                             *)
NeverNeither ==
  \A a \in Agent :
    edit[a].op = "replace" /\ edit[a].target = "section" /\ edit[a].alone
        /\ edit[a].changes # <<>> =>
      \/ \A j \in Under(edit[a].before, edit[a].aimed) :
           edit[a].before[j].id \in IdsOf(canvas)
      \/ ToSet(edit[a].content) \subseteq ToSet(Shapes(canvas))

(* An anchor an agent was told means the heading it was told for, however  *)
(* the canvas was edited since, or the edit is refused; unless that        *)
(* heading is gone, and a new one ends as it did.                          *)
AimsAtTheHeading ==
  \A a \in Agent :
    edit[a].aimed > 0 /\ edit[a].handle.id \in IdsOf(edit[a].before)
      => edit[a].before[edit[a].aimed].id = edit[a].handle.id

(* "Nothing was changed.": then nothing was. *)
NothingChangedIsTrue ==
  \A a \in Agent : edit[a].told = "nothing changed" => edit[a].applied = 0
=============================================================================
