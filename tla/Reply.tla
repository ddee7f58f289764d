------------------------------- MODULE Reply -------------------------------
(***************************************************************************)
(* One turn's reply, streamed into its thread (crates/murtaugh-gateway/src *)
(* /reply.rs), read by the loop of `stream_turn` in chat.rs, with the      *)
(* messages tools have placed inside it (tools/replying.rs).               *)
(*                                                                         *)
(* What the agent says is the sequence 1, 2, ... of units, of which script *)
(* tells the kind: a word, a newline, or the marker that begins a code     *)
(* fence's line.  The gateway's own units are negative.  Sizes count       *)
(* units.  A reply that is `quiet` draws nothing and is left out.          *)
(*                                                                         *)
(* The task that owns the reply makes one call of Slack after another; an  *)
(* action is a piece of text, a part of a message, or one handler around   *)
(* the few calls it makes.  A call may fail, or be carried out and its     *)
(* answer lost: at most MaxFaults do.                                      *)
(***************************************************************************)
EXTENDS SlackThread, FiniteSets

CONSTANTS
  Scripts,       \* what the agent may have to say: sequences of kinds
  Tasks,         \* the tool calls it makes
  Tools,         \* the tools that have a message placed
  Budget,        \* STREAM_BUDGET, in units
  MinRoom,       \* STREAM_MIN_ROOM, in units
  FlushMin,      \* FLUSH_MIN_CHARS, in units
  MessageLimit,  \* MESSAGE_LIMIT, in units
  MaxFaults,     \* bounds the calls that go wrong
  MaxEnds        \* bounds the streams that Slack ends

(* An opener is a line, the room left after it enough to go on with, and a *)
(* closer fits above the budget.                                           *)
ASSUME SizeAssumption ==
  /\ {Budget, MinRoom, FlushMin, MessageLimit, MaxFaults, MaxEnds} \subseteq Nat
  /\ Budget - 2 >= MinRoom /\ MinRoom >= 1
  /\ MaxText >= Budget + 3
  /\ MessageLimit >= 1 /\ FlushMin >= 1

UnitKinds == {"word", "nl", "mark"}
Stages    == {"read", "break", "finish", "over"}

ASSUME ScriptsAssumption == Scripts \subseteq Seq(UnitKinds)
ASSUME NamesAssumption   == Tasks \cap Tools = {} /\ (Tasks \cup Tools) \cap Stages = {}

VARIABLES
  script,   \* what the agent has to say
  hosts,    \* whether the surface hosts streams
  said,     \* how many units the agent said
  thread,   \* the Slack thread
  reply,    \* the fields of Reply
  job,      \* what the task that owns the reply is doing
  beatOf,   \* Task -> how the agent last reported it, or "none"
  tool,     \* Tool -> where its message is
  asked,    \* the placements handed to the reply and not taken
  faults    \* the calls that failed, whether an answer was lost,
            \* the streams Slack ended, whether words were cut

vars == <<script, hosts, said, thread, reply, job, beatOf, tool, asked, faults>>

(* `complete` and `error` are drawn alike. *)
Statuses == {"in_progress", "settled"}
Settled(status) == status = "settled"

NL   == -1
MARK == -2
KindOf(u) == IF u = NL THEN "nl" ELSE IF u = MARK THEN "mark" ELSE script[u]

(* The fields of Reply: the stream being written (its index in the thread, *)
(* or 0) and what of it is spent; the fence; the beats and the open one.   *)
(* For a surface that hosts no streams: all the text of the message being  *)
(* written, the parts posted, and whether tools ran since.                 *)
NewReply ==
  [mode |-> "streaming", at |-> 0, spent |-> 0,
   pending |-> <<>>, flushed |-> FALSE,
   fenced |-> FALSE, partial |-> "empty",
   beats |-> <<>>, drawn |-> {}, open |-> 0, placed |-> FALSE,
   all |-> <<>>, posted |-> <<>>, broken |-> FALSE]

(* What is left to paint, the part being posted (or 0), and what comes     *)
(* after: back to reading, a task's card, a tool's message, the end.       *)
Reading == [rest |-> <<>>, part |-> 0, then |-> "read"]

Init ==
  /\ script \in Scripts
  /\ hosts  \in BOOLEAN
  /\ said   = 0
  /\ thread = <<>>
  /\ reply  = NewReply
  /\ job    = Reading
  /\ beatOf = [t \in Tasks |-> "none"]
  /\ tool   = [k \in Tools |-> [at |-> "idle", after |-> 0]]
  /\ asked  = <<>>
  /\ faults = [count |-> 0, lost |-> FALSE, ends |-> 0, cut |-> FALSE]

----------------------------------------------------------------------------
(* Calls.  A world is what the calls of one action change: the thread, the *)
(* reply, the job, what went wrong, and the last answer.                   *)

World == [th |-> thread, r |-> reply, j |-> job, f |-> faults, said |-> "ok"]

Becomes(w) == thread' = w.th /\ reply' = w.r /\ job' = w.j /\ faults' = w.f

(* `call`: answered; failed and not carried out; carried out, not heard.   *)
Called(w, a) ==
  LET failed == [w EXCEPT !.f.count = @ + 1, !.said = "failed"]
  IN  {[w EXCEPT !.th = a.th, !.said = a.said]}
      \cup IF w.f.count = MaxFaults THEN {}
           ELSE {failed}
                \cup IF a.said = "ok"
                     THEN {[failed EXCEPT !.th = a.th, !.f.lost = TRUE]}
                     ELSE {}

Closed(said_) == said_ = "message_not_in_streaming_state"

----------------------------------------------------------------------------
(* Text *)

(* Reads a unit as Fence::consume reads its characters: a whole line that  *)
(* starts with a marker opens or closes a fence.                           *)
Consume(fence, u) ==
  IF KindOf(u) = "nl"
    THEN [fenced |-> (fence.partial = "mark") # fence.fenced, partial |-> "empty"]
  ELSE IF fence.partial = "empty"
    THEN [fence EXCEPT !.partial = IF KindOf(u) = "mark" THEN "mark" ELSE "plain"]
  ELSE fence

Consumed(fence, text) ==
  LET after[n \in 0 .. Len(text)] == IF n = 0 THEN fence ELSE Consume(after[n - 1], text[n])
  IN  after[Len(text)]

LastIndexOf(text, kind) ==
  LET at == {i \in DOMAIN text : KindOf(text[i]) = kind}
  IN  IF at = {} THEN 0 ELSE CHOOSE i \in at : \A j \in at : j <= i

(* split_at_budget: everything, or after the last newline that has room,   *)
(* or as many units as have room.                                          *)
SplitAt(text, room) ==
  IF Len(text) <= room THEN Len(text)
  ELSE LET nl == LastIndexOf(SubSeq(text, 1, room), "nl")
       IN  IF nl > 0 THEN nl ELSE room

(* render::split: the first part's length, and where the next one starts. *)
PartEnd(text) ==
  IF Len(text) <= MessageLimit THEN Len(text)
  ELSE LET nl == LastIndexOf(SubSeq(text, 2, MessageLimit), "nl")
       IN  IF KindOf(text[MessageLimit + 1]) = "nl" \/ nl = 0
             THEN MessageLimit
             ELSE nl    \* the newline stands at nl + 1, and is left out

NextPart(text, end) ==
  LET words == {i \in end + 1 .. Len(text) : KindOf(text[i]) # "nl"}
  IN  IF words = {} THEN <<>>
      ELSE SubSeq(text, CHOOSE i \in words : \A j \in words : i <= j, Len(text))

Parts(text) ==
  LET parts[k \in 0 .. Len(text)] ==
        LET rest == IF k = 0 THEN text ELSE parts[k - 1].rest
            end  == PartEnd(rest)
        IN  [part |-> SubSeq(rest, 1, end),
             rest |-> IF end = Len(rest) THEN <<>> ELSE NextPart(rest, end)]
      count == IF parts[0].rest = <<>> THEN 1
               ELSE 1 + Cardinality({k \in 1 .. Len(text) : parts[k].part # <<>>})
  IN  [k \in 1 .. count |-> parts[k - 1].part]

(* paragraph_break: the newlines the text lacks to end with a blank line. *)
Break(text) ==
  LET words == {i \in DOMAIN text : KindOf(text[i]) # "nl"}
      had   == Len(text) - (IF words = {} THEN 0
                            ELSE CHOOSE i \in words : \A j \in words : j <= i)
  IN  IF words = {} THEN <<>>
      ELSE [i \in 1 .. (IF had >= 2 THEN 0 ELSE 2 - had) |-> NL]

Unled(text) ==
  LET words == {i \in DOMAIN text : KindOf(text[i]) # "nl"}
  IN  IF words = {} THEN <<>>
      ELSE SubSeq(text, CHOOSE i \in words : \A j \in words : i <= j, Len(text))

----------------------------------------------------------------------------
(* The stream *)

(* A surface that hosts no streams turns the reply into whole messages.    *)
Start(w, chunk) ==
  { IF v.said = "ok" THEN [v EXCEPT !.r.at = Len(v.th), !.r.spent = 0]
    ELSE IF v.said = "channel_type_not_supported"
      THEN [v EXCEPT !.r.mode = "buffered", !.r.all = chunk.text,
                     !.r.posted = <<>>, !.r.broken = FALSE,
                     !.j.part = 1, !.said = "ok"]
    ELSE v
    : v \in Called(w, StartStream(w.th, hosts, chunk)) }

Opener == <<MARK, NL>>
Closer == <<NL, MARK, NL>>

LeavesStream(w) ==
  IF w.r.mode # "streaming" \/ w.r.at = 0 THEN {w}
  ELSE {[v EXCEPT !.r.at = 0, !.r.spent = 0, !.r.partial = "empty"]
        : v \in Called(w, StopStream(w.th, w.r.at))}

(* Closes the fence, stops the stream, reopens the fence in a new one. *)
Rollover(w) ==
  IF w.r.mode # "streaming" \/ w.r.at = 0 THEN {w}
  ELSE
    LET at      == w.r.at
        fenced  == w.r.fenced
        closed  == IF fenced THEN Called(w, AppendStream(w.th, at, Words(Closer)))
                   ELSE {w}
        stopped == UNION {Called(v, StopStream(v.th, at)) : v \in closed}
        left    == {[v EXCEPT !.r.at = 0, !.r.spent = 0] : v \in stopped}
        opened  == {IF v.said = "ok" THEN [v EXCEPT !.r.spent = Len(Opener)] ELSE v
                    : v \in UNION {Start(v, Words(Opener)) : v \in left}}
    IN  {[v EXCEPT !.r.partial = "empty"] : v \in IF fenced THEN opened ELSE left}

TryAppend(w, chunk) == Called(w, AppendStream(w.th, w.r.at, chunk))

TriesTwice(w, chunk) ==
  IF w.r.mode # "streaming" THEN {[w EXCEPT !.said = "failed"]}
  ELSE IF w.r.at = 0 THEN Start(w, chunk)
  ELSE UNION {IF v.said = "ok" THEN {v} ELSE TryAppend(v, chunk) : v \in TryAppend(w, chunk)}

(* `append`: a stream that takes no more rolls over, and is tried again.   *)

AppendChunk(w, chunk) ==
  IF w.r.mode # "streaming" THEN {[w EXCEPT !.said = "failed"]}
  ELSE IF w.r.at = 0 THEN Start(w, chunk)
  ELSE UNION { IF ~Closed(v.said) /\ v.said # "msg_too_long" THEN {v}
               ELSE UNION { IF u.r.at = 0 THEN Start(u, chunk) ELSE TryAppend(u, chunk)
                            : u \in Rollover(v) }
               : v \in TryAppend(w, chunk) }

StaysUnderPlaced(w) == {[w EXCEPT !.r.placed = FALSE]}

(* What comes after a placed message starts a message of its own. *)
LeavePlaced(w) ==
  IF ~w.r.placed THEN {w}
  ELSE LET left == [w EXCEPT !.r.placed = FALSE]
       IN  IF w.r.mode = "streaming" THEN Rollover(left)
           ELSE {[left EXCEPT !.r.all = <<>>, !.r.posted = <<>>, !.r.broken = FALSE]}

(* `emit`: the first `cut` units that wait are to be written, and end the  *)
(* run of tool calls before them.                                          *)
Emit(w, cut) ==
  IF cut = 0 THEN {w}
  ELSE
    LET text == SubSeq(w.r.pending, 1, cut)
        out  == [w EXCEPT !.r.pending = SubSeq(@, cut + 1, Len(@)),
                          !.r.flushed = TRUE, !.r.open = 0]
        Joined(r) == IF r.broken /\ Unled(r.all) # <<>>
                     THEN r.all \o Break(r.all) \o Unled(text)
                     ELSE r.all \o text
    IN  { IF v.r.mode = "streaming" THEN [v EXCEPT !.j.rest = text]
          ELSE [v EXCEPT !.r.all = Joined(v.r), !.r.broken = FALSE, !.j.part = 1]
          : v \in LeavePlaced(out) }

At(stage) == job.then = stage /\ job.rest = <<>> /\ job.part = 0

(* Goes on to `then` once the first `cut` units that wait are written. *)
Writes(r, cut, then) ==
  \E w \in Emit([World EXCEPT !.r = r, !.j.then = then], cut) : Becomes(w)

(* One turn of the loop of `paint`. *)
Paint ==
  /\ job.rest # <<>> /\ job.part = 0
  /\ LET full == reply.spent > 0 /\ Budget - reply.spent < MinRoom
         room(w) == IF w.r.spent >= Budget THEN 0 ELSE Budget - w.r.spent
         Piece(w) ==
           LET cut   == SplitAt(job.rest, room(w))
               piece == SubSeq(job.rest, 1, cut)
           IN  { IF v.said = "ok"
                 THEN LET fence == Consumed([fenced |-> v.r.fenced, partial |-> v.r.partial], piece)
                      IN  [v EXCEPT !.r.spent = IF v.r.mode = "streaming" THEN @ + cut ELSE 0,
                                    !.r.fenced = fence.fenced, !.r.partial = fence.partial,
                                    !.j.rest = SubSeq(@, cut + 1, Len(@))]
                 ELSE [v EXCEPT !.j.rest = <<>>, !.f.cut = @ \/ v.r.mode = "buffered"]
                 : v \in AppendChunk(w, Words(piece)) }
     IN  \E u \in IF full THEN Rollover(World) ELSE {World} :
           \E w \in IF room(u) = 0 THEN Rollover(u) ELSE Piece(u) : Becomes(w)
  /\ UNCHANGED <<script, hosts, said, beatOf, tool, asked>>

(* One part of `repost`: as it was, updated, or new.  A part that cannot   *)
(* be posted ends it.                                                      *)
Repost ==
  /\ job.part # 0
  /\ LET parts == Parts(reply.all)
         i     == job.part
         known == i \in DOMAIN reply.posted
         next  == [World EXCEPT !.j.part = IF i < Len(parts) THEN i + 1 ELSE 0]
         Shown(v) == IF v.said = "ok" THEN [v EXCEPT !.r.posted[i].shown = parts[i]] ELSE v
         Added(v) == IF v.said = "ok"
                     THEN [v EXCEPT !.r.posted = Append(@, [at |-> Len(v.th), shown |-> parts[i]])]
                     ELSE [v EXCEPT !.j.part = 0]
     IN  \E w \in IF known /\ reply.posted[i].shown = parts[i] THEN {next}
                  ELSE IF known
                    THEN {Shown(v) : v \in Called(next, UpdateMessage(thread, reply.posted[i].at, parts[i]))}
                  ELSE {Added(v) : v \in Called(next, PostMessage(thread, "post", parts[i]))} :
           Becomes(w)
  /\ UNCHANGED <<script, hosts, said, beatOf, tool, asked>>

----------------------------------------------------------------------------
(* What the loop of `stream_turn` takes: the agent's words *)

Idle == At("read")

(* Where to cut: after the last space, or everything.  The last unit may   *)
(* be a word not finished yet.                                             *)
WordCuts(text) == {Len(text)} \cup (IF Len(text) > 1 THEN {Len(text) - 1} ELSE {})

(* `text`: the first words go out at once; then whole lines, or as many as *)
(* are worth a call, or after a while.                                     *)
Cuts(r) ==
  LET nl == LastIndexOf(r.pending, "nl")
  IN  IF ~r.flushed THEN {Len(r.pending)}
      ELSE IF nl > 0 THEN {nl}
      ELSE WordCuts(r.pending) \cup IF Len(r.pending) >= FlushMin THEN {} ELSE {0}

Says(n) ==
  /\ Idle
  /\ said + n <= Len(script)
  /\ said' = said + n
  /\ LET r == [reply EXCEPT !.pending = @ \o [i \in 1 .. n |-> said + i]]
     IN  \E cut \in Cuts(r) : Writes(r, cut, "read")
  /\ UNCHANGED <<script, hosts, beatOf, tool, asked>>

FlushDue ==
  /\ Idle
  /\ reply.pending # <<>>
  /\ \E cut \in WordCuts(reply.pending) : Writes(reply, cut, "read")
  /\ UNCHANGED <<script, hosts, said, beatOf, tool, asked>>

----------------------------------------------------------------------------
(* The agent's tool calls *)

BeatWith(t) == {b \in DOMAIN reply.beats : t \in DOMAIN reply.beats[b]}

(* Words that wait belong before this tool. *)
Reports(t, status) ==
  /\ Idle
  /\ ~Settled(beatOf[t])
  /\ beatOf' = [beatOf EXCEPT ![t] = status]
  /\ Writes(reply, Len(reply.pending), IF reply.mode = "streaming" THEN t ELSE "break")
  /\ UNCHANGED <<script, hosts, said, tool, asked>>

(* A surface without streams shows no tools. *)
Breaks ==
  /\ At("break")
  /\ reply' = [reply EXCEPT !.broken = TRUE]
  /\ job' = Reading
  /\ UNCHANGED <<script, hosts, said, thread, beatOf, tool, asked, faults>>

(* The tool joins the list it is on, the open one, or one of its own; its  *)
(* list is drawn, at once when it settles and else now and then.           *)
Draws(t) ==
  /\ At(t)
  /\ LET known == BeatWith(t)
         own   == known = {} /\ reply.open = 0
         b     == IF known # {} THEN CHOOSE k \in known : TRUE
                  ELSE IF own THEN Len(reply.beats) + 1 ELSE reply.open
         card  == [x \in {t} |-> beatOf[t]]
         Listed(w) ==
           [w EXCEPT !.r.open  = IF own THEN b ELSE @,
                     !.r.beats = IF own THEN Append(@, card)
                                 ELSE [w.r.beats EXCEPT ![b] = Redrawn(card, w.r.beats[b])]]
         Held(w)  == [w EXCEPT !.j = Reading]
         Drawn(w) == {Held(v) : v \in AppendChunk([w EXCEPT !.r.drawn = @ \cup {b}],
                                                  List(b, w.r.beats[b]))}
     IN  \E u \in IF own THEN LeavePlaced(World) ELSE {World} :
           LET w == Listed(u)
           IN  \E v \in Drawn(w) \cup (IF ~Settled(beatOf[t]) /\ b \in reply.drawn
                                       THEN {Held(w)} ELSE {}) :
                 Becomes(v)
  /\ UNCHANGED <<script, hosts, said, beatOf, tool, asked>>

----------------------------------------------------------------------------
(* The messages of tools (`Replying::place`) *)

(* To the reply being written, as long as its receiver lives. *)
Asks(k) ==
  /\ tool[k].at = "idle"
  /\ IF job.then = "over"
     THEN tool' = [tool EXCEPT ![k].at = "direct"] /\ UNCHANGED asked
     ELSE tool' = [tool EXCEPT ![k].at = "asked"] /\ asked' = Append(asked, k)
  /\ UNCHANGED <<script, hosts, said, thread, reply, job, beatOf, faults>>

Takes ==
  /\ Idle
  /\ asked # <<>>
  /\ asked' = Tail(asked)
  /\ Writes(reply, Len(reply.pending), Head(asked))
  /\ UNCHANGED <<script, hosts, said, beatOf, tool>>

ToldAnyway(k, v) ==
  tool' = [tool EXCEPT ![k] = [at |-> "told", after |-> said]]

Told(k, v) ==
  tool' = [tool EXCEPT ![k] = [at |-> IF v.said = "ok" THEN "told" ELSE "refused",
                               after |-> said]]

Places(k) ==
  /\ At(k)
  /\ \E v \in Called([World EXCEPT !.j = Reading], PostMessage(thread, "placed", <<k>>)) :
       /\ Becomes(IF v.said = "ok" THEN [v EXCEPT !.r.open = 0, !.r.placed = TRUE] ELSE v)
       /\ Told(k, v)
  /\ UNCHANGED <<script, hosts, said, beatOf, asked>>

(* No reply is written, or the one that was ended before it got to this. *)
PostsDirectly(k) ==
  /\ tool[k].at = "direct"
  /\ \E v \in Called(World, PostMessage(thread, "placed", <<k>>)) : Becomes(v) /\ Told(k, v)
  /\ UNCHANGED <<script, hosts, said, beatOf, asked>>

----------------------------------------------------------------------------
(* The end *)

EndsUnflushed ==
  /\ Idle
  /\ Writes(reply, 0, "finish")
  /\ UNCHANGED <<script, hosts, said, beatOf, tool, asked>>

StreamEnds ==
  /\ Idle
  /\ Writes(reply, Len(reply.pending), "finish")
  /\ UNCHANGED <<script, hosts, said, beatOf, tool, asked>>

(* `finish`, and the end of the function, where the receiver goes.         *)
Finishes ==
  /\ At("finish")
  /\ LET over == [World EXCEPT !.j.then = "over"]
     IN  \E v \in IF reply.mode = "streaming" /\ reply.at # 0
                   THEN Called(over, StopStream(thread, reply.at)) ELSE {over} :
           Becomes(v)
  /\ asked' = <<>>
  /\ tool' = [k \in Tools |-> IF tool[k].at = "asked" THEN [tool[k] EXCEPT !.at = "direct"]
                                                    ELSE tool[k]]
  /\ UNCHANGED <<script, hosts, said, beatOf>>

(* Slack itself. *)
Finalizes(i) ==
  /\ thread[i].state = "open"
  /\ faults.ends < MaxEnds
  /\ thread' = Finalized(thread, i)
  /\ faults' = [faults EXCEPT !.ends = @ + 1]
  /\ UNCHANGED <<script, hosts, said, reply, job, beatOf, tool, asked>>

Next ==
  \/ \E n \in 1 .. Len(script) : Says(n)
  \/ FlushDue
  \/ \E t \in Tasks, status \in Statuses : Reports(t, status)
  \/ \E k \in Tools : Asks(k)
  \/ Paint
  \/ Repost
  \/ Breaks
  \/ \E t \in Tasks : Draws(t)
  \/ Takes
  \/ \E k \in Tools : Places(k) \/ PostsDirectly(k)
  \/ StreamEnds
  \/ Finishes
  \/ \E i \in DOMAIN thread : Finalizes(i)

Spec == Init /\ [][Next]_vars

----------------------------------------------------------------------------
(* Properties *)

Ended     == job.then = "over"
WentWrong == faults.count > 0

(* Every variable keeps its type, and the reply writes into a stream.      *)
TypeOK ==
  /\ script \in Scripts /\ hosts \in BOOLEAN /\ said \in 0 .. Len(script)
  /\ \A i \in DOMAIN thread : thread[i].kind \in Kinds /\ thread[i].state \in States
  /\ reply.mode \in {"streaming", "buffered"}
  /\ reply.at # 0 => reply.at \in DOMAIN thread /\ thread[reply.at].kind = "stream"
  /\ reply.spent \in 0 .. MaxText
  /\ job.then \in Stages \cup Tasks \cup Tools
  /\ beatOf \in [Tasks -> Statuses \cup {"none"}]
  /\ tool \in [Tools -> [at : {"idle", "asked", "direct", "told", "refused"}, after : Nat]]
  /\ faults \in [count : 0 .. MaxFaults, lost : BOOLEAN, ends : 0 .. MaxEnds, cut : BOOLEAN]

(* Where in a message the agent's units are that a reader sees. *)
SaidIn(m)  == IF m.kind = "placed" THEN {} ELSE {p \in DOMAIN m.text : m.text[p] > 0}
UnitsOf(m) == {m.text[p] : p \in SaidIn(m)}

(* No message says again what one above it said, and none says it out of   *)
(* order, whatever calls fail on the way.  Only a whole message posted     *)
(* without the gateway hearing of it is posted again.                      *)
InOrder ==
  \/ ~hosts /\ WentWrong
  \/ \A i, j \in DOMAIN thread : \A p \in SaidIn(thread[i]), q \in SaidIn(thread[j]) :
       i < j \/ (i = j /\ p < q) => thread[i].text[p] < thread[j].text[q]

(* Whatever the agent said is in the thread once the turn ended, if every  *)
(* call was carried out.  Newlines at the seam of two messages are cut.    *)
Whole == \A u \in 1 .. said : script[u] # "nl" => \E i \in DOMAIN thread : u \in UnitsOf(thread[i])

(* Refuted, see README: the first words on a surface without streams are   *)
(* cut to one stream's budget, and the rest of them dropped.               *)
EverythingIsSaid == Ended /\ ~WentWrong => Whole

(* But for that, nothing the agent said is missing. *)
EverythingSaid == Ended /\ ~WentWrong /\ ~faults.cut => Whole

(* A tool's message stands where the reply had got to: under all that the  *)
(* agent said before and above all it says later.                          *)
PlacedWhereAsked ==
  \A i, j \in DOMAIN thread : \A u \in UnitsOf(thread[j]) :
    thread[i].kind = "placed" =>
      LET k == tool[thread[i].text[1]]
      IN  k.at = "told" => IF u <= k.after THEN j < i ELSE j > i

(* A tool is told that its message is there only if it is, and the message *)
(* is there twice only if somebody missed an answer - never because the    *)
(* reply ended under it.                                                   *)
PostedOnce ==
  \A k \in Tools :
    LET times == Cardinality({i \in DOMAIN thread : thread[i].kind = "placed" /\ thread[i].text = <<k>>})
    IN  /\ times <= 1
        /\ tool[k].at = "told" => times = 1
        /\ times = 1 /\ ~faults.lost => tool[k].at = "told"

(* The newest copy of a tool's list tells how the tool ended. *)
LastListTells ==
  Ended /\ ~WentWrong /\ hosts =>
    \A t \in Tasks : Settled(beatOf[t]) =>
      \E i \in DOMAIN thread : \E b \in DOMAIN thread[i].lists :
        /\ t \in DOMAIN thread[i].lists[b]
        /\ thread[i].lists[b][t] = beatOf[t]
        /\ \A j \in DOMAIN thread : b \in DOMAIN thread[j].lists => j <= i

(* "A tool already on a list settles there": refuted, see README. *)
SettlesInPlace ==
  Ended /\ ~WentWrong =>
    \A i \in DOMAIN thread : \A b \in DOMAIN thread[i].lists :
      \A t \in DOMAIN thread[i].lists[b] :
        Settled(beatOf[t]) => thread[i].lists[b][t] = beatOf[t]

(* A message renders on its own: the reply leaves none of its streams with *)
(* an open fence, unless Slack ended the stream or the message was cut in  *)
(* the line that opens or closes a fence.                                  *)
Fence(i) == Consumed([fenced |-> FALSE, partial |-> "empty"], thread[i].text)
Torn(i)  == \E p \in SaidIn(thread[i]) :
              /\ KindOf(thread[i].text[p]) = "mark"
              /\ \A q \in SaidIn(thread[i]) : q > p => KindOf(thread[i].text[q]) # "nl"
FencesClosed ==
  ~WentWrong =>
    \A i \in DOMAIN thread :
      \/ thread[i].state # "stopped"
      \/ Ended /\ i = reply.at
      \/ Torn(i)
      \/ ~Fence(i).fenced

(* Nothing the reply started is left open: Slack would go on showing that  *)
(* somebody writes there.                                                  *)
NoneLeftOpen ==
  ~WentWrong =>
    \A i \in DOMAIN thread : thread[i].state = "open" => ~Ended /\ i = reply.at

(* What the agent said is read in the thread as it said it: in order and   *)
(* once whatever fails, and all of it if nothing does.                     *)
ReadsAsSaid == TypeOK /\ InOrder /\ EverythingSaid

(* A tool's message is where the tool was called, and is told of truly.    *)
PlacedInPlace == PlacedWhereAsked /\ PostedOnce

(* Each message can be read on its own: its fences are closed, its stream  *)
(* ended, and the newest list of a tool tells how the tool ended.          *)
MessagesStandAlone == FencesClosed /\ NoneLeftOpen /\ LastListTells
=============================================================================
