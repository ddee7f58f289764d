----------------------------- MODULE CanvasText -----------------------------
(***************************************************************************)
(* A canvas read and written back: the HTML Slack serves it as             *)
(* (crates/slack-sim/src/canvas.rs, `html`), the parser that makes blocks  *)
(* of it and the Markdown they are shown as (crates/murtaugh-gateway/src/  *)
(* tools/canvas/document.rs), and Slack's reading of that Markdown when an *)
(* agent writes it back (canvas.rs, `parse_markdown`).                     *)
(*                                                                         *)
(* A text is a sequence of lines, a line a word that may be indented.      *)
(* Markup within a line, entities and words that look like Markdown are    *)
(* left out; ids are in module Canvas.                                     *)
(***************************************************************************)
EXTENDS Naturals, Sequences, SequencesExt, FiniteSetsExt

CONSTANTS
  Blocks,    \* what canvases are made of
  MaxBlocks

BlocksAssumption == MaxBlocks \in Nat /\ Blocks # {}

VARIABLES
  canvas,  \* the blocks of the canvas
  phase,   \* "reading" the HTML, "writing" the Markdown back, "done"
  left,    \* the tokens, then the lines, that are left
  parser,  \* `Parser`
  slack    \* what Slack makes of the Markdown so far

vars == <<canvas, phase, left, parser, slack>>

Line(pad, word) == [pad |-> pad, word |-> word]
Blank           == Line(0, "")

NoBlock == [kind |-> "none", level |-> 0, style |-> "none", depth |-> 0, checked |-> FALSE,
            text |-> <<>>, rows |-> <<>>]
Heading(level, text) == [NoBlock EXCEPT !.kind = "heading", !.level = level, !.text = text]
Paragraph(text) == [NoBlock EXCEPT !.kind = "paragraph", !.text = text]
Code(text)      == [NoBlock EXCEPT !.kind = "code", !.text = text]
Quote(text)     == [NoBlock EXCEPT !.kind = "quote", !.text = text]
Item(style, depth, checked, text) ==
  [NoBlock EXCEPT !.kind = "item", !.style = style, !.depth = depth, !.checked = checked,
                  !.text = text]
Table(rows) == [NoBlock EXCEPT !.kind = "table", !.rows = rows]
Rule        == [NoBlock EXCEPT !.kind = "rule"]

Times(n, x) == [i \in 1 .. n |-> x]

----------------------------------------------------------------------------
(* The HTML Slack serves: a sequence of tokens *)

Tag(name)        == [name |-> name, level |-> 0, style |-> "none", checked |-> FALSE, line |-> Blank]
Word(line)       == [Tag("text") EXCEPT !.line = line]
Styled(name, style) == [Tag(name) EXCEPT !.style = style]

(* The lines of a text with a `<br>` between them. *)
TextTokens(text) ==
  FlattenSeq([i \in DOMAIN text |->
    (IF i > 1 THEN <<Tag("br")>> ELSE <<>>)
      \o (IF text[i] = Blank THEN <<>> ELSE <<Word(text[i])>>)])

SameList(blocks, i, j) ==
  /\ {i, j} \subseteq DOMAIN blocks
  /\ blocks[i].kind = "item" /\ blocks[j].kind = "item" /\ blocks[i].style = blocks[j].style

(* A run of items of one style is one list, nested as deep as they are.    *)
ItemTokens(blocks, i) ==
  LET b    == blocks[i]
      was  == IF SameList(blocks, i - 1, i) THEN blocks[i - 1].depth ELSE 0
  IN (IF SameList(blocks, i - 1, i) THEN <<>> ELSE <<Styled("div", b.style), Tag("ul")>>)
       \o (IF b.depth >= was THEN Times(b.depth - was, Tag("ul")) ELSE Times(was - b.depth, Tag("/ul")))
       \o <<[Tag("li") EXCEPT !.checked = b.checked], Tag("span")>> \o TextTokens(b.text)
       \o <<Tag("/span"), Tag("br"), Tag("/li")>>
       \o (IF SameList(blocks, i, i + 1) THEN <<>> ELSE Times(b.depth + 1, Tag("/ul")) \o <<Tag("/div")>>)

CellTokens(text) ==
  <<Tag("td")>> \o (IF text = <<>> THEN <<>> ELSE <<Tag("p")>> \o TextTokens(text) \o <<Tag("/p")>>)
    \o <<Tag("/td")>>

Html(blocks) ==
  FlattenSeq([i \in DOMAIN blocks |->
    LET b == blocks[i]
    IN CASE b.kind = "heading" ->
              <<[Tag("h") EXCEPT !.level = b.level]>> \o TextTokens(b.text) \o <<Tag("/h")>>
         [] b.kind = "paragraph" -> <<Tag("p")>> \o TextTokens(b.text) \o <<Tag("/p")>>
         [] b.kind = "code"  -> <<Styled("p", "code")>> \o TextTokens(b.text) \o <<Tag("/p")>>
         [] b.kind = "quote" ->
              <<Tag("blockquote"), Tag("p")>> \o TextTokens(b.text) \o <<Tag("/p"), Tag("/blockquote")>>
         [] b.kind = "item"  -> ItemTokens(blocks, i)
         [] b.kind = "table" ->
              <<Tag("table")>>
                \o FlattenSeq([r \in DOMAIN b.rows |->
                     <<Tag("tr")>> \o FlattenSeq([c \in DOMAIN b.rows[r] |-> CellTokens(b.rows[r][c])])
                       \o <<Tag("/tr")>>])
                \o <<Tag("/table")>>
         [] b.kind = "rule"  -> <<Tag("hr")>>])

----------------------------------------------------------------------------
(* `Parser` *)

NewLine == Line(0, "\n")

(* Where nothing is open, `open` is NoBlock; a cell is open as "cell".     *)
NoParser == [blocks |-> <<>>, open |-> NoBlock, text |-> <<>>, style |-> "none", depth |-> 0,
             quote |-> FALSE, table |-> <<>>, tabled |-> FALSE]

IsText(line) == line \notin {NewLine, Blank}

(* `trim_matches`: blank lines around a text go, and the indentation of    *)
(* its first line.                                                         *)
Trimmed(raw) ==
  LET words == {i \in DOMAIN raw : IsText(raw[i])}
  IN IF words = {} THEN <<>>
     ELSE [SubSeq(raw, Min(words), Max(words)) EXCEPT ![1].pad = 0]

(* The lines of what was collected. *)
Lines(raw) ==
  LET breaks == {i \in DOMAIN raw : raw[i] = NewLine}
      LineAfter(i) == IF i + 1 \in DOMAIN raw /\ raw[i + 1] # NewLine THEN raw[i + 1] ELSE Blank
  IN IF raw = <<>> THEN <<>>
     ELSE [n \in 1 .. Cardinality(breaks) + 1 |->
             LineAfter(IF n = 1 THEN 0
                       ELSE CHOOSE i \in breaks : Cardinality({j \in breaks : j <= i}) = n - 1)]

AddCell(p, text) ==
  [p EXCEPT !.table[Len(p.table)] = Append(@, text), !.open = NoBlock, !.text = <<>>]

(* The block being collected, if any, is put in the document. *)
Finish(p) ==
  LET text   == Lines(Trimmed(p.text))
      closed == [p EXCEPT !.open = NoBlock, !.text = <<>>]
      block  == CASE p.open.kind = "item" ->
                       Item(IF p.style = "none" THEN "bullet" ELSE p.style,
                            Max({p.depth, 1}) - 1, p.open.checked, text)
                  [] p.open.kind = "paragraph" /\ p.quote -> Quote(text)
                  [] OTHER -> [p.open EXCEPT !.text = text]
  IN IF p.open.kind = "none" \/ (block.kind = "paragraph" /\ text = <<>>) THEN closed
     ELSE IF p.open.kind = "cell" THEN AddCell(p, text)
     ELSE [closed EXCEPT !.blocks = Append(@, block)]

Opens(p, block) == [Finish(p) EXCEPT !.open = block]
InCell(p)       == p.open.kind = "cell"

(* A bug's: a list that ends leaves its depth behind. *)
LeavesList(p) == Finish(p)

EndsList(p) ==
  LET depth == Max({p.depth, 1}) - 1
  IN [Finish(p) EXCEPT !.depth = depth, !.style = IF depth = 0 THEN "none" ELSE @]

OpensTag(p, t) ==
  CASE t.name = "h"  -> Opens(p, Heading(t.level, <<>>))
    [] t.name = "p" /\ InCell(p)  -> p
    [] t.name = "p" /\ ~InCell(p) -> Opens(p, IF t.style = "code" THEN Code(<<>>) ELSE Paragraph(<<>>))
    [] t.name = "blockquote" -> [Finish(p) EXCEPT !.quote = TRUE]
    [] t.name = "div" -> [Finish(p) EXCEPT !.style = t.style, !.depth = 0]
    [] t.name = "ul"  -> [p EXCEPT !.depth = @ + 1, !.style = IF @ = "none" THEN "bullet" ELSE @]
    [] t.name = "li"  -> Opens(p, Item("none", 0, t.checked, <<>>))
    [] t.name = "table" -> [Finish(p) EXCEPT !.table = <<>>, !.tabled = TRUE]
    [] t.name = "tr" -> IF p.tabled THEN [p EXCEPT !.table = Append(@, <<>>)] ELSE p
    [] t.name = "td" -> [p EXCEPT !.open = [NoBlock EXCEPT !.kind = "cell"], !.text = <<>>]
    [] t.name = "hr" -> [Finish(p) EXCEPT !.blocks = Append(@, Rule)]
    [] t.name = "br" -> IF p.open = NoBlock THEN p ELSE [p EXCEPT !.text = Append(@, NewLine)]
    [] t.name = "span" -> p

ClosesTag(p, t) ==
  CASE t.name \in {"/h", "/p", "/li"} -> IF InCell(p) THEN p ELSE Finish(p)
    [] t.name = "/blockquote" -> [Finish(p) EXCEPT !.quote = FALSE]
    [] t.name = "/ul" -> EndsList(p)
    [] t.name = "/td" -> IF InCell(p) THEN AddCell(p, Lines(Trimmed(p.text))) ELSE p
    [] t.name = "/table" -> [p EXCEPT !.blocks = Append(@, Table(p.table)), !.table = <<>>,
                                      !.tabled = FALSE]
    [] t.name \in {"/span", "/div", "/tr"} -> p

(* Text outside any block is kept, as a paragraph. *)
TakesText(p, t) ==
  IF p.open = NoBlock THEN [p EXCEPT !.blocks = Append(@, Paragraph(<<[t.line EXCEPT !.pad = 0]>>))]
  ELSE [p EXCEPT !.text = Append(@, t.line)]

OpenTags == {"h", "p", "blockquote", "div", "ul", "li", "table", "tr", "td", "hr", "br", "span"}

Parsed(p, t) ==
  IF t.name = "text" THEN TakesText(p, t)
  ELSE IF t.name \in OpenTags THEN OpensTag(p, t) ELSE ClosesTag(p, t)

----------------------------------------------------------------------------
(* The Markdown: a sequence of lines, each with its mark *)

Mark(mark, line) == [mark |-> mark, nested |-> 0, level |-> 0, line |-> line, anchor |-> FALSE,
                     cells |-> <<>>]

(* A bug's: two spaces for each level, which Slack reads as none. *)
TwoSpaces(depth) == 0

(* Four spaces for each level. *)
Nested(depth) == depth

(* `write_block` *)
BlockLines(b) ==
  CASE b.kind = "heading" ->
         << [Mark("#", IF b.text = <<>> THEN Blank ELSE b.text[1])
               EXCEPT !.level = b.level, !.anchor = Len(b.text) <= 1] >>
           \o [i \in 1 .. Max({Len(b.text), 1}) - 1 |-> Mark("", b.text[i + 1])]
    [] b.kind = "paragraph" -> [i \in DOMAIN b.text |-> Mark("", b.text[i])]
    [] b.kind = "code" ->
         <<Mark("fence", Blank)>>
           \o [i \in 1 .. Max({Len(b.text), 1}) |-> Mark("", IF b.text = <<>> THEN Blank ELSE b.text[i])]
           \o <<Mark("fence", Blank)>>
    [] b.kind = "quote" -> [i \in DOMAIN b.text |-> Mark(">", b.text[i])]
    [] b.kind = "item" ->
         [i \in 1 .. Max({Len(b.text), 1}) |->
            IF i > 1 THEN Mark("", b.text[i])
            ELSE [Mark(CASE b.style = "bullet" -> "-" [] b.style = "ordered" -> "1."
                         [] b.style = "check" -> IF b.checked THEN "[x]" ELSE "[ ]",
                       IF b.text = <<>> THEN Blank ELSE b.text[1])
                    EXCEPT !.nested = Nested(b.depth)]]
    [] b.kind = "table" ->
         FlattenSeq([r \in DOMAIN b.rows |->
           <<[Mark("|", Blank) EXCEPT !.cells = b.rows[r]]>>
             \o (IF r = 1 THEN <<Mark("|-", Blank)>> ELSE <<>>)])
    [] b.kind = "rule" -> <<Mark("---", Blank)>>

(* `markdown_of`: a blank line between blocks, save the items of one list. *)
Markdown(blocks) ==
  FlattenSeq([i \in DOMAIN blocks |->
    (IF i > 1 /\ ~SameList(blocks, i - 1, i) THEN <<Mark("", Blank)>> ELSE <<>>)
      \o BlockLines(blocks[i])])

(* `strip_anchors`, before an agent's Markdown is written. *)
Stripped(lines) == [i \in DOMAIN lines |-> [lines[i] EXCEPT !.anchor = FALSE]]

----------------------------------------------------------------------------
(* What Slack makes of it: `parse_markdown` *)

NoSlack == [blocks |-> <<>>, paragraph |-> <<>>, code |-> <<>>, coding |-> FALSE, table |-> <<>>]

(* A line that is no more of the same ends a paragraph, or a table. *)
Flush(s) ==
  [s EXCEPT !.blocks = @ \o (IF s.paragraph = <<>> THEN <<>> ELSE <<Paragraph(s.paragraph)>>)
                         \o (IF s.table = <<>> THEN <<>> ELSE <<Table(s.table)>>),
            !.paragraph = <<>>, !.table = <<>>]

AddBlock(s, block) == [Flush(s) EXCEPT !.blocks = Append(@, block)]

TextOf(line) == IF line = Blank THEN <<>> ELSE <<[line EXCEPT !.pad = 0]>>

(* An anchor that was left is text like any other. *)
Anchored(m) == TextOf(m.line) \o (IF m.anchor THEN <<Line(0, "{#anchor}")>> ELSE <<>>)

Understood(s, m) ==
  CASE s.coding ->
         IF m.mark = "fence" THEN [AddBlock(s, Code(s.code)) EXCEPT !.coding = FALSE, !.code = <<>>]
         ELSE [s EXCEPT !.code = Append(@, m.line)]
    [] ~s.coding /\ m.mark = "fence" -> [Flush(s) EXCEPT !.coding = TRUE]
    [] ~s.coding /\ m.mark = "#"   -> AddBlock(s, Heading(m.level, Anchored(m)))
    [] ~s.coding /\ m.mark = "---" -> AddBlock(s, Rule)
    [] ~s.coding /\ m.mark = ">"   -> AddBlock(s, Quote(TextOf(m.line)))
    [] ~s.coding /\ m.mark = "-"   -> AddBlock(s, Item("bullet", m.nested, FALSE, TextOf(m.line)))
    [] ~s.coding /\ m.mark = "1."  -> AddBlock(s, Item("ordered", m.nested, FALSE, TextOf(m.line)))
    [] ~s.coding /\ m.mark = "[ ]" -> AddBlock(s, Item("check", m.nested, FALSE, TextOf(m.line)))
    [] ~s.coding /\ m.mark = "[x]" -> AddBlock(s, Item("check", m.nested, TRUE, TextOf(m.line)))
    [] ~s.coding /\ m.mark = "|"   ->
         IF \A c \in DOMAIN m.cells : m.cells[c] = <<>> THEN s
         ELSE [s EXCEPT !.table = Append(@, m.cells)]
    [] ~s.coding /\ m.mark = "|-"  -> s
    [] ~s.coding /\ m.mark = ""    ->
         IF m.line = Blank THEN Flush(s)
         ELSE [Flush([s EXCEPT !.paragraph = <<>>])
                 EXCEPT !.paragraph = Append(s.paragraph, [m.line EXCEPT !.pad = 0])]

----------------------------------------------------------------------------

Init ==
  /\ \E n \in 1 .. MaxBlocks : canvas \in [1 .. n -> Blocks]
  /\ phase  = "reading"
  /\ left   = Html(canvas)
  /\ parser = NoParser
  /\ slack  = NoSlack

(* `Parser::run` *)
ReadsToken ==
  /\ phase = "reading" /\ left # <<>>
  /\ parser' = Parsed(parser, Head(left))
  /\ left' = Tail(left)
  /\ UNCHANGED <<canvas, phase, slack>>

(* The agent is shown the Markdown, and writes it back. *)
Writes ==
  /\ phase = "reading" /\ left = <<>>
  /\ parser' = Finish(parser)
  /\ phase' = "writing"
  /\ left' = Stripped(Markdown(Finish(parser).blocks))
  /\ UNCHANGED <<canvas, slack>>

UnderstandsLine ==
  /\ phase = "writing" /\ left # <<>>
  /\ slack' = Understood(slack, Head(left))
  /\ left' = Tail(left)
  /\ UNCHANGED <<canvas, phase, parser>>

Ends ==
  /\ phase = "writing" /\ left = <<>>
  /\ slack' = Flush(slack)
  /\ phase' = "done"
  /\ UNCHANGED <<canvas, left, parser>>

Next == ReadsToken \/ Writes \/ UnderstandsLine \/ Ends

Spec == Init /\ [][Next]_vars

----------------------------------------------------------------------------
(* Properties *)

(* Every variable keeps its type. *)
TypeOK ==
  /\ phase \in {"reading", "writing", "done"}
  /\ parser.depth \in Nat /\ parser.quote \in BOOLEAN
  /\ \A i \in DOMAIN parser.blocks : DOMAIN parser.blocks[i] = DOMAIN NoBlock

(* What is read of a block: an empty paragraph is spacing, and a text      *)
(* starts with its first word.                                             *)
AsRead(b) ==
  [b EXCEPT !.text = LET words == {i \in DOMAIN b.text : b.text[i] # Blank}
                     IN IF words = {} THEN <<>>
                        ELSE [SubSeq(b.text, Min(words), Max(words)) EXCEPT ![1].pad = 0]]
Spacing(b) == b.kind = "paragraph" /\ AsRead(b).text = <<>>
Visible(blocks) == SelectSeq(blocks, LAMBDA b : ~Spacing(b))

(* Every block of a canvas is read as what it is, in whatever order blocks *)
(* follow one another: a list's style, depth and checks, a quote, a table  *)
(* with its emptied cells; and nothing is dropped.                         *)
ReadsEveryBlock ==
  phase # "reading" =>
    parser.blocks = [i \in DOMAIN Visible(canvas) |-> AsRead(Visible(canvas)[i])]

(* What comes back as it was: a text of one line, code as it stands, and a *)
(* table none of whose rows is empty.                                      *)
Plain(b) ==
  /\ b.kind \notin {"code", "table", "rule"} => Len(b.text) <= 1
  /\ b.kind = "quote" => b.text # <<>>
  /\ b.kind = "table" => \A r \in DOMAIN b.rows : \E c \in DOMAIN b.rows[r] : b.rows[r][c] # <<>>
  /\ b.kind = "code" => b.text # <<>>

(* "Removes the `{#anchor}` a heading was read with, so Markdown an agent  *)
(* copied back from a read does not write the anchor into the canvas as    *)
(* text": the Markdown of a canvas, written back, makes the same blocks.   *)
WritesBack ==
  phase = "done" /\ (\A i \in DOMAIN parser.blocks : Plain(parser.blocks[i]))
    => slack.blocks = parser.blocks
=============================================================================
