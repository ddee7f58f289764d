-------------------------------- MODULE Lists -------------------------------
(***************************************************************************)
(* The List tools (crates/murtaugh-gateway/src/tools/lists) over a Slack   *)
(* List as the simulator keeps it (crates/slack-sim/src/lists.rs).         *)
(*                                                                         *)
(* Slack names columns and options by id; the tools let agents use names   *)
(* and labels, found in the columns as they are read for each call.  A     *)
(* value is the sequence of what a cell holds: words, which may be         *)
(* dressed, as a link is by the name it is shown under and a text by its   *)
(* formatting.  Of the kinds of columns, a select's values are translated, *)
(* a text and a link are read without their dress, and a column Slack      *)
(* fills in itself takes nothing; the others pass words through.  What a   *)
(* date, a number or an id must look like is left out.                     *)
(***************************************************************************)
EXTENDS Naturals, Sequences, SequencesExt, FiniteSetsExt, TLC

CONSTANTS
  Agent,
  Person,    \* who asked for the List
  Wishes,    \* the columns agents ask for: sequences of [name, kind, multiple, labels]
  Values,    \* kind -> what agents put in its cells: words, dressed or not
  ByHand,    \* kind -> what people put in its cells in Slack
  Urls,      \* the words that are links
  Trim,      \* a word without the space around it
  Lower,     \* a name in lower case
  Slug,      \* a name as a key
  PageRows,  \* how many rows a page has
  MaxCalls, MaxRows,  \* bounds of the model: calls, rows, and together
  MaxUpsets           \* the calls that fail and what others change

WishesAssumption ==
  \A wish \in Wishes : \A i \in DOMAIN wish : wish[i].name \in DOMAIN Slug \cap DOMAIN Lower
BoundsAssumption ==
  PageRows \in Nat \ {0} /\ MaxCalls \in Nat /\ MaxRows \in Nat
    /\ MaxUpsets \in Nat

VARIABLES
  list,    \* [made, columns, rows, access: Who -> level]
  keeps,   \* the access who hands a List over is left with
  work,    \* Agent -> the tool call it makes
  given,   \* ids of rows given out
  calls, upsets

vars == <<list, keeps, work, given, calls, upsets>>

Bot  == "bot"
Who  == {Bot, Person}
NoRow == 0

Idle == [tool |-> "none", at |-> "idle", wish |-> <<>>, schema |-> <<>>, rows |-> <<>>,
         parent |-> NoRow, ids |-> {}, added |-> <<>>, lost |-> FALSE, cursor |-> 1,
         there |-> {}, told |-> "nothing yet"]

Init ==
  /\ list   = [made |-> FALSE, columns |-> <<>>, rows |-> <<>>, access |-> [w \in Who |-> "none"]]
  /\ keeps \in {"none", "read", "write"}
  /\ work   = [a \in Agent |-> Idle]
  /\ given  = 0
  /\ calls  = 0
  /\ upsets = 0

At(a, tool, stage) == work[a].tool = tool /\ work[a].at = stage

----------------------------------------------------------------------------
(* Making columns: `columns_schema`, `unique` *)

(* `wanted`, or the first of wanted_2, wanted_3, ... that is not taken. *)
Suffixed(wanted, n) == IF n = 1 THEN wanted ELSE wanted \o "_" \o ToString(n)
Unique(taken, wanted) ==
  Suffixed(wanted, Min({n \in 1 .. Cardinality(taken) + 1 : Suffixed(wanted, n) \notin taken}))

Options(labels) ==
  FoldLeft(LAMBDA made, label :
             Append(made, [id |-> Unique({made[i].id : i \in DOMAIN made}, Slug[label]),
                           label |-> label]),
           <<>>, labels)

AskedColumn(name, kind, multiple, labels) ==
  [name |-> name, kind |-> kind, multiple |-> multiple, labels |-> labels]

(* A List with no text column gets one, named Name. *)
WithText(wish) ==
  IF \E i \in DOMAIN wish : wish[i].kind = "text" THEN wish
  ELSE <<AskedColumn("Name", "text", FALSE, <<>>)>> \o wish

(* What a cell may hold several of. *)
Several(asked) == asked.multiple /\ asked.kind \in {"select", "user", "channel"}

(* The first text column is the primary one. *)
Primary(asked) == Min({i \in DOMAIN asked : asked[i].kind = "text"})

MadeColumns(wish) ==
  LET asked == WithText(wish)
      Keyed == FoldLeft(LAMBDA keys, c : Append(keys, Unique(ToSet(keys), Slug[c.name])), <<>>, asked)
  IN [i \in DOMAIN asked |->
        [id |-> i, key |-> Keyed[i], name |-> asked[i].name, kind |-> asked[i].kind,
         multiple |-> Several(asked[i]), choices |-> Options(asked[i].labels),
         primary |-> i = Primary(asked)]]

----------------------------------------------------------------------------
(* Reading and writing cells: `Schema::column`, `read_cell`, `write_cell` *)

Firsts(S) == IF S = {} THEN {} ELSE {Min(S)}

(* The column a name means: a key, or else a name in whatever case. *)
Column(columns, wanted) ==
  LET byKey  == {i \in DOMAIN columns : columns[i].key = wanted}
      byName == {i \in DOMAIN columns : Lower[columns[i].name] = Lower[wanted]}
  IN Firsts(IF byKey # {} THEN byKey ELSE byName)

(* The option a label means: an id, or else a label in whatever case. *)
Choice(choices, wanted) ==
  LET byId    == {i \in DOMAIN choices : choices[i].id = wanted}
      byLabel == {i \in DOMAIN choices : Lower[choices[i].label] = Lower[wanted]}
  IN Firsts(IF byId # {} THEN byId ELSE byLabel)

Bare(word) == [what |-> word, dressed |-> FALSE]

(* `read_cell`: a select's options are read as their labels, a link as where  *)
(* it leads, a text as its words.                                            *)
Read(column, cell) ==
  LET Label(id) == column.choices[CHOOSE i \in DOMAIN column.choices : column.choices[i].id = id].label
  IN [i \in DOMAIN cell |->
        IF column.kind = "select" THEN Bare(Label(cell[i].what)) ELSE Bare(cell[i].what)]

(* A bug's: a list of one is taken for no list. *)
TooManyEver(column, value) == Len(value) > 1
TooMany(column, value)     == Len(value) > 1 /\ ~column.multiple
OneAtMost(column, value)   == TooMany(column, value)

(* `write_cell`: what is refused.  Only a link can be given dressed, with the *)
(* name to show, and no cell but a text can be emptied.                      *)
Refuses(column, value) ==
  \/ column.kind = "created_by"
  \/ value = <<>>
  \/ Len(value) = 1 /\ Trim[value[1].what] = "" /\ column.kind # "text"
  \/ OneAtMost(column, value)
  \/ column.kind # "link" /\ \E i \in DOMAIN value : value[i].dressed
  \/ column.kind = "link" /\ \E i \in DOMAIN value : Trim[value[i].what] \notin Urls
  \/ column.kind = "select" /\ \E i \in DOMAIN value :
       Choice(column.choices, Trim[value[i].what]) = {}

(* The cells a value may be written as: one, or none when it is refused.     *)
Write(column, value) ==
  IF Refuses(column, value) THEN {}
  ELSE {[i \in DOMAIN value |->
           IF column.kind = "select"
           THEN Bare(column.choices[Min(Choice(column.choices, Trim[value[i].what]))].id)
           ELSE [value[i] EXCEPT !.what = IF value[i].dressed THEN @ ELSE Trim[@]]]}

(* `write_row`: the cells for a row, [column name -> value], or none. *)
Written(columns, row) ==
  IF \E name \in DOMAIN row : Column(columns, name) = {}
                              \/ Write(columns[Min(Column(columns, name))], row[name]) = {}
  THEN {}
  ELSE {[id \in {columns[Min(Column(columns, name))].id : name \in DOMAIN row} |->
           LET name == CHOOSE n \in DOMAIN row : columns[Min(Column(columns, n))].id = id
           IN CHOOSE cell \in Write(columns[Min(Column(columns, name))], row[name]) : TRUE]}

----------------------------------------------------------------------------
(* Slack *)

BotReads  == list.made /\ list.access[Bot] # "none"
BotWrites == list.made /\ list.access[Bot] \in {"write", "owner"}

ColumnIds == {list.columns[i].id : i \in DOMAIN list.columns}
RowIds    == {list.rows[i].id : i \in DOMAIN list.rows}

(* Slack takes the cells: their columns are all there. *)
Takes(cells) == DOMAIN cells \subseteq ColumnIds

(* One user owns a List. *)
HandedOver ==
  [list.access EXCEPT ![Bot] = keeps, ![Person] = "owner"]

(* What a call of Slack comes to: done and answered, done with its answer  *)
(* lost, or not done.                                                      *)
Outcomes == {"answered", "lost", "failed"}
Fails(outcome) ==
  /\ outcome # "answered" => upsets < MaxUpsets
  /\ upsets' = IF outcome = "answered" THEN upsets ELSE upsets + 1

(* The call is over. *)
Told(a, told) ==
  [work EXCEPT ![a] = [@ EXCEPT !.at = "over", !.told = told, !.wish = <<>>, !.schema = <<>>,
                                !.rows = <<>>, !.parent = NoRow, !.ids = {}]]

----------------------------------------------------------------------------
(* `create_list` *)

Starts(a, call) ==
  /\ work[a].at \in {"idle", "over"} /\ calls < MaxCalls
  /\ calls' = calls + 1
  /\ work' = [work EXCEPT ![a] = call]
  /\ UNCHANGED <<list, keeps, given, upsets>>

AsksCreate(a, wish) ==
  /\ ~list.made /\ \A b \in Agent : work[b].tool # "create"
  /\ Starts(a, [Idle EXCEPT !.tool = "create", !.at = "creating", !.wish = wish])

Creates(a, outcome) ==
  /\ At(a, "create", "creating")
  /\ Fails(outcome)
  /\ list' = IF outcome = "failed" THEN list
             ELSE [list EXCEPT !.made = TRUE, !.columns = MadeColumns(work[a].wish),
                               !.access = [list.access EXCEPT ![Bot] = "owner"]]
  /\ work' = IF outcome = "answered" THEN [work EXCEPT ![a].at = "handing"]
             ELSE Told(a, "refused")
  /\ UNCHANGED <<keeps, given, calls>>

(* The person becomes the List's owner. *)
HandsOver(a, outcome) ==
  /\ At(a, "create", "handing")
  /\ Fails(outcome)
  /\ list' = IF outcome = "failed" THEN list ELSE [list EXCEPT !.access = HandedOver]
  /\ work' = IF outcome = "answered" THEN [work EXCEPT ![a].at = "probing"]
             ELSE Told(a, "only the bot sees it")
  /\ UNCHANGED <<keeps, given, calls>>

(* A bug's: access is taken for granted. *)
NeverWarns == "created"

(* What the answer says of the bot's access. *)
Warning == IF BotReads THEN "created" ELSE "created, access lost"

(* Whether the bot may still fill the List in is checked. *)
Probes(a, outcome) ==
  /\ At(a, "create", "probing")
  /\ Fails(outcome)
  /\ work' = Told(a, IF outcome = "answered" THEN Warning ELSE "created, access lost")
  /\ UNCHANGED <<list, keeps, given, calls>>

----------------------------------------------------------------------------
(* `add_list_items` and `update_list_items` *)

AsksAdd(a, rows, parent) ==
  Starts(a, [Idle EXCEPT !.tool = "add", !.at = "reading", !.rows = rows, !.parent = parent])

(* One cell of one row, as most updates are. *)
AsksUpdate(a, id, row) ==
  Starts(a, [Idle EXCEPT !.tool = "update", !.at = "reading", !.rows = <<row>>, !.ids = {id}])

(* A bug's: a row is checked when its turn comes. *)
ChecksFirst(columns, rows) == Written(columns, rows[1]) # {}

(* Every row is checked before the first is written. *)
ChecksAll(columns, rows) == \A i \in DOMAIN rows : Written(columns, rows[i]) # {}

(* The columns are read, and all that is to be written is checked. *)
ReadsColumns(a) ==
  /\ work[a].tool \in {"add", "update"} /\ work[a].at = "reading"
  /\ work' = IF BotReads /\ ChecksAll(list.columns, work[a].rows)
             THEN [work EXCEPT ![a].at = "writing", ![a].schema = list.columns]
             ELSE Told(a, "refused")
  /\ UNCHANGED <<list, keeps, given, calls, upsets>>

ThisRow(a) == work[a].rows[Len(work[a].added) + 1]
Cells(a)   == CHOOSE cells \in Written(work[a].schema, ThisRow(a)) : TRUE

(* One row is added; the others follow, or the agent is told which were.   *)
AddsRow(a, outcome) ==
  /\ At(a, "add", "writing")
  /\ given < MaxRows
  /\ Fails(outcome)
  /\ LET refused == \/ ~BotWrites
                    \/ work[a].parent # NoRow /\ work[a].parent \notin RowIds
                    \/ Written(work[a].schema, ThisRow(a)) = {} \/ ~Takes(Cells(a))
         done    == ~refused /\ outcome # "failed"
         added   == Append(work[a].added, given + 1)
         left    == Len(added) < Len(work[a].rows)
     IN /\ given' = IF done THEN given + 1 ELSE given
        /\ list' = IF done
                   THEN [list EXCEPT !.rows = Append(@, [id |-> given + 1, parent |-> work[a].parent,
                                                         cells |-> Cells(a)])]
                   ELSE list
        /\ work' = IF done /\ outcome = "answered"
                   THEN [IF left THEN work ELSE Told(a, "added") EXCEPT ![a].added = added]
                   ELSE [Told(a, IF work[a].added = <<>> THEN "refused" ELSE "some added")
                           EXCEPT ![a].lost = done]
  /\ UNCHANGED <<keeps, calls>>

(* All the cells of a call are changed, or none. *)
UpdatesCells(a, outcome) ==
  /\ At(a, "update", "writing")
  /\ Fails(outcome)
  /\ LET row     == Min(work[a].ids)
         refused == ~BotWrites \/ row \notin RowIds \/ ~Takes(Cells(a))
         done    == ~refused /\ outcome # "failed"
     IN /\ list' = IF done
                   THEN [list EXCEPT !.rows = [i \in DOMAIN @ |->
                           IF @[i].id = row THEN [@[i] EXCEPT !.cells = Cells(a) @@ @] ELSE @[i]]]
                   ELSE list
        /\ work' = [Told(a, IF done /\ outcome = "answered" THEN "changed" ELSE "refused")
                      EXCEPT ![a].lost = done /\ outcome = "lost"]
  /\ UNCHANGED <<keeps, given, calls>>

----------------------------------------------------------------------------
(* `delete_list_items` and `read_list` *)

AsksDelete(a, ids) == Starts(a, [Idle EXCEPT !.tool = "delete", !.at = "deleting", !.ids = ids])

(* Rows go with their subtasks; ids Slack does not know are passed over.   *)
Remaining(ids) ==
  SelectSeq(list.rows, LAMBDA row : row.id \notin ids /\ row.parent \notin ids)

(* Rows went while these agents were between two pages. *)
Disturbed(of) == [b \in Agent |-> IF of[b].tool = "read" THEN [of[b] EXCEPT !.lost = TRUE] ELSE of[b]]

Deletes(a, outcome) ==
  /\ At(a, "delete", "deleting")
  /\ Fails(outcome)
  /\ LET done == BotWrites /\ outcome # "failed"
     IN /\ list' = IF done THEN [list EXCEPT !.rows = Remaining(work[a].ids)] ELSE list
        /\ work' = Disturbed(Told(a, IF done /\ outcome = "answered" THEN "deleted" ELSE "refused"))
  /\ UNCHANGED <<keeps, given, calls>>

AsksRead(a) ==
  Starts(a, [Idle EXCEPT !.tool = "read", !.at = "paging", !.there = RowIds])

(* A bug's: a page starts past the row after the last one read. *)
SkipsOne(start) == start + PageRows + 1

NextPage(start) == start + PageRows

(* A page of rows, and where the next one starts; or it was the last.      *)
ReadsPage(a) ==
  /\ At(a, "read", "paging")
  /\ work' = IF ~BotReads THEN Told(a, "refused")
             ELSE LET start == work[a].cursor
                      page  == SubSeq(list.rows, start, Min({start + PageRows - 1, Len(list.rows)}))
                      last  == start + PageRows > Len(list.rows)
                  IN [IF last THEN Told(a, "read") ELSE work
                        EXCEPT ![a].added = @ \o [i \in DOMAIN page |-> page[i].id],
                               ![a].cursor = NextPage(start)]
  /\ UNCHANGED <<list, keeps, given, calls, upsets>>

----------------------------------------------------------------------------
(* Whoever has the List open in Slack *)

RemovesColumn(i) ==
  /\ list.made /\ upsets < MaxUpsets
  /\ ~list.columns[i].primary
  /\ upsets' = upsets + 1
  /\ list' = [list EXCEPT !.columns = RemoveAt(@, i)]
  /\ UNCHANGED <<keeps, work, given, calls>>

(* An option, all of them where there may be several, or what one types. *)
Picked(column) ==
  LET ids == [n \in DOMAIN column.choices |-> Bare(column.choices[n].id)]
  IN {<<ids[n]>> : n \in DOMAIN ids} \cup IF column.multiple THEN {ids} ELSE {}

FillsCell(r, i) ==
  /\ upsets < MaxUpsets
  /\ upsets' = upsets + 1
  /\ \E cell \in IF list.columns[i].kind = "select" THEN Picked(list.columns[i])
                 ELSE ByHand[list.columns[i].kind] :
       list' = [list EXCEPT !.rows[r].cells = (list.columns[i].id :> cell) @@ @]
  /\ UNCHANGED <<keeps, work, given, calls>>

----------------------------------------------------------------------------

(* What an agent writes in a row: a cell by its column's name. *)
OneCells ==
  UNION {{list.columns[i].name :> value : value \in Values[list.columns[i].kind]} :
           i \in DOMAIN list.columns}

Next ==
  \/ \E i \in DOMAIN list.columns :
       RemovesColumn(i) \/ \E r \in DOMAIN list.rows : FillsCell(r, i)
  \/ \E a \in Agent :
       \/ \E wish \in Wishes : AsksCreate(a, wish)
       \/ \E one \in OneCells, parent \in RowIds \cup {NoRow} : AsksAdd(a, <<one>>, parent)
       \/ \E one, two \in OneCells : AsksAdd(a, <<one, two>>, NoRow)
       \/ \E id \in 1 .. given, cell \in OneCells : AsksUpdate(a, id, cell)
       \/ \E ids \in SUBSET (1 .. given) \ {{}} : AsksDelete(a, ids)
       \/ list.made /\ AsksRead(a)
       \/ ReadsColumns(a) \/ ReadsPage(a)
       \/ \E outcome \in Outcomes :
            \/ Creates(a, outcome) \/ HandsOver(a, outcome) \/ Probes(a, outcome)
            \/ AddsRow(a, outcome) \/ UpdatesCells(a, outcome) \/ Deletes(a, outcome)

Spec == Init /\ [][Next]_vars

----------------------------------------------------------------------------
(* Properties *)

(* Every variable keeps its type; rows have ids of their own. *)
TypeOK ==
  /\ list.access \in [Who -> {"none", "read", "write", "owner"}]
  /\ \A i, j \in DOMAIN list.rows : list.rows[i].id = list.rows[j].id => i = j
  /\ RowIds \subseteq 1 .. given
  /\ \A a \in Agent : work[a].cursor \in Nat

(* What an agent asks for is a List Slack makes: "exactly one primary      *)
(* column, a text one", and a key for each column and option of its own.   *)
MakesWhatSlackTakes ==
  list.made =>
    /\ Cardinality({i \in DOMAIN list.columns : list.columns[i].primary}) = 1
    /\ \A i, j \in DOMAIN list.columns :
         /\ list.columns[i].primary => list.columns[i].kind = "text"
         /\ list.columns[i].key = list.columns[j].key => i = j
         /\ \A m, n \in DOMAIN list.columns[i].choices :
              list.columns[i].choices[m].id = list.columns[i].choices[n].id => m = n

(* A List said to be created is the person's, and the bot can fill it in   *)
(* unless the answer warns that it cannot, or Slack leaves it to read the  *)
(* List only: the check reads, and no more.                                *)
CreatedIsUsable ==
  \A a \in Agent :
    At(a, "create", "over") =>
      /\ work[a].told \in {"created", "created, access lost"} =>
           {w \in Who : list.access[w] = "owner"} = {Person}
      /\ work[a].told = "created" => BotReads /\ (BotWrites \/ keeps = "read")

(* "Handing a List over must leave the bot able to fill it in; Slack does  *)
(* not say whether it does, so this is checked rather than assumed"        *)
(* (create.rs:150).                                                        *)
CreatedIsChecked ==
  \A a \in Agent : At(a, "create", "over") /\ work[a].told = "created" => BotWrites

(* "Every row is checked before the first is written, so a mistake adds    *)
(* nothing": a call that added a row had no mistake in any, by the columns *)
(* it read, and what Slack then refuses is told apart from what it added.  *)
MistakeAddsNothing ==
  \A a \in Agent :
    work[a].tool = "add" /\ (work[a].added # <<>> \/ work[a].lost) =>
      \A i \in DOMAIN work[a].rows : Written(work[a].schema, work[a].rows[i]) # {}

(* Pages read one after the other give every row that was there from the   *)
(* first to the last, once, whatever is added meanwhile; if none is        *)
(* deleted.                                                                *)
PagesMissNothing ==
  \A a \in Agent :
    work[a].tool = "read" /\ work[a].told = "read" /\ ~work[a].lost =>
      /\ work[a].there \subseteq ToSet(work[a].added)
      /\ IsInjective(work[a].added)

(* Names and labels that cannot be taken for one another. *)
ToldApart(columns) ==
  /\ \A i, j \in DOMAIN columns :
       i # j => Lower[columns[i].name] # Lower[columns[j].name] /\ columns[i].key # columns[j].name
  /\ \A i \in DOMAIN columns : \A m, n \in DOMAIN columns[i].choices :
       m # n => /\ Lower[columns[i].choices[m].label] # Lower[columns[i].choices[n].label]
                /\ columns[i].choices[m].id # columns[i].choices[n].label

(* What the cells that were read are written back as, by their columns'    *)
(* names, is as Holds says.                                                *)
WritesBack(columns, row, Holds(_, _, _)) ==
  \A i \in DOMAIN columns :
    columns[i].id \in DOMAIN row.cells /\ columns[i].kind # "created_by" =>
      LET cell == row.cells[columns[i].id]
      IN Holds(columns[i], cell, Written(columns, columns[i].name :> Read(columns[i], cell)))

(* A cell without its dress and the space around it. *)
Plain(cell) == [i \in DOMAIN cell |-> Bare(Trim[cell[i].what])]
KeepsWords(column, cell, back) ==
  back = IF TooMany(column, cell) THEN {} ELSE {column.id :> Plain(cell)}

(* What one tool reads another can write, in the same row and column and   *)
(* with the same words, when the List's names can be told apart.  Lost are *)
(* the name a link is shown under, the formatting of a text and the space  *)
(* around it; and several values are refused where the tools take one.     *)
ReadsAsItWrites ==
  ToldApart(list.columns) =>
    \A i \in DOMAIN list.rows : WritesBack(list.columns, list.rows[i], KeepsWords)

(* "read cells back in the very shape they take them, so what one tool     *)
(* reads another can write" (mod.rs:2): whatever the columns are called,   *)
(* or whatever the cells hold.                                             *)
ReadsAsItWritesAny ==
  \A i \in DOMAIN list.rows : WritesBack(list.columns, list.rows[i], KeepsWords)
IsTaken(column, cell, back) == back # {}
WhatIsReadIsTaken ==
  ToldApart(list.columns) =>
    \A i \in DOMAIN list.rows : WritesBack(list.columns, list.rows[i], IsTaken)

(* "What was read can be written back unchanged" (mod.rs:714). *)
Unchanged(column, cell, back) == back = {column.id :> cell}
WrittenBackUnchanged ==
  ToldApart(list.columns) =>
    \A i \in DOMAIN list.rows :
      WritesBack(list.columns, list.rows[i],
        LAMBDA column, cell, back : TooMany(column, cell) \/ Unchanged(column, cell, back))
=============================================================================
