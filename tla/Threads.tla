-------------------------------- MODULE Threads -------------------------------
(***************************************************************************)
(* How a Slack thread is read and given files through the Web API: `call`, *)
(* `upload_file`, `replies` and `delete_message` of                        *)
(* crates/murtaugh-slack/src/web.rs over crates/slack-sim, and the two     *)
(* ways an agent sends a file: the tool `attach` and the event of a turn.  *)
(* A call that Slack limits is made again; any other failure is final,     *)
(* though what was asked may have been done.                               *)
(*                                                                         *)
(* One thread, whose parent is its first message.  The bytes of a file are *)
(* whole or not.                                                           *)
(***************************************************************************)
EXTENDS Naturals, Sequences, FiniteSets, SequencesExt

CONSTANTS
  File,        \* the files the agent sends
  ByEvent,     \* those of a turn's events; the others are the tool's
  NoFile,
  PageReplies, \* replies on a page of the thread
  MaxRetries,  \* `max_retries`
  MaxPosts,    \* bounds the model: what others post,
  MaxDeletes,  \* messages of the bot that are deleted,
  MaxFaults    \* calls that fail

FileAssumption   == ByEvent \subseteq File /\ NoFile \notin File
PageAssumption   == PageReplies \in Nat \ {0}
BoundsAssumption == {MaxRetries, MaxPosts, MaxDeletes, MaxFaults} \subseteq Nat

VARIABLES
  thread,    \* the messages: [ts, bot, file]
  held,      \* File -> what Slack holds of it: nothing, a reservation, its bytes
  sender,    \* File -> [at, tries, whole: the bytes that are sent are]
  told,      \* File -> what its sender is told
  reader,    \* the task that reads the thread: [at, tries, cursor, out, saw]
  unsure,    \* the files whose sharing was done and its answer lost
  removed,   \* whether a message went while the thread was read
  used       \* [posts, deletes, faults]

vars == <<thread, held, sender, told, reader, unsure, removed, used>>

Counts(what) == used' = [used EXCEPT ![what] = @ + 1]
May(what)    ==
  used[what] < [posts |-> MaxPosts, deletes |-> MaxDeletes, faults |-> MaxFaults][what]
Fails        == May("faults") /\ Counts("faults")

Ids(messages) == {m.ts : m \in ToSet(messages)}
NextTs        == 2 + used.posts + Cardinality({f \in File : told[f] = "posted" \/ f \in unsure})
Posts(bot, f) == thread' = Append(thread, [ts |-> NextTs, bot |-> bot, file |-> f])
Shared(f)     == {i \in DOMAIN thread : thread[i].file = f}

-----------------------------------------------------------------------------
(* `call`: what becomes of one, by whoever makes it.  Limited by Slack, it    *)
(* waits and is made again.                                                  *)
MakesAgain(tries) == tries < MaxRetries
Outcomes          == {"done", "again", "refused", "lost", "limited"}

Outcome(o, tries) ==
  CASE o = "done"    -> UNCHANGED used
    [] o = "again"   -> MakesAgain(tries) /\ Fails
    [] o = "limited" -> ~MakesAgain(tries) /\ Fails
    [] OTHER         -> Fails            \* "lost": it was done and its answer lost

Did(o) == o \in {"done", "lost"}

At(f, stage)   == sender[f].at = stage
Goes(f, stage) == sender' = [sender EXCEPT ![f].at = stage, ![f].tries = 0]
Waits(f)       == sender' = [sender EXCEPT ![f].tries = @ + 1]
Ends(f, what)  == Goes(f, "over") /\ told' = [told EXCEPT ![f] = what]

(* What follows an answer: another try, the next stage, or the end. *)
Follows(f, o, next) ==
  CASE o = "again" -> Waits(f) /\ UNCHANGED told
    [] o = "done"  -> next
    [] OTHER       -> Ends(f, "failed")

-----------------------------------------------------------------------------
(* The bytes: claimed from the node's transfer, which arrives in time or not, *)
(* or read from it.  An event announces how many there are.                  *)
Announced(f, whole) == f \in ByEvent => whole
AnyLength(f, whole) == TRUE
Fits(f, whole)      == Announced(f, whole)

Claims(f) ==
  /\ At(f, "claiming")
  /\ \/ \E whole \in BOOLEAN :
          /\ f \notin ByEvent => whole
          /\ \/ Fits(f, whole)
                /\ sender' = [sender EXCEPT ![f].at = "reserving", ![f].whole = whole]
                /\ UNCHANGED told
             \/ ~Fits(f, whole) /\ Ends(f, "failed")
          /\ UNCHANGED used
     \/ Ends(f, "failed") /\ Fails
  /\ UNCHANGED <<thread, held, reader, unsure, removed>>

Reserves(f) ==
  /\ At(f, "reserving")
  /\ \E o \in Outcomes :
       /\ Outcome(o, sender[f].tries)
       /\ Follows(f, o, Goes(f, "sending") /\ UNCHANGED told)
       /\ held' = IF Did(o) THEN [held EXCEPT ![f] = "reserved"] ELSE held
  /\ UNCHANGED <<thread, reader, unsure, removed>>

(* The bytes go to the address Slack gave, once; nothing is made again.       *)
Sends(f) ==
  /\ At(f, "sending")
  /\ \E o \in {"done", "refused", "lost"} :
       /\ Outcome(o, 0)
       /\ Follows(f, o, Goes(f, "sharing") /\ UNCHANGED told)
       /\ held' = IF Did(o) THEN [held EXCEPT ![f] = "bytes"] ELSE held
  /\ UNCHANGED <<thread, reader, unsure, removed>>

(* Slack shares what it holds the bytes of, and holds it no more. *)
Shares(f) ==
  /\ At(f, "sharing")
  /\ \E o \in Outcomes :
       /\ Did(o) => held[f] = "bytes"
       /\ Outcome(o, sender[f].tries)
       /\ Follows(f, o, Ends(f, "posted"))
       /\ IF Did(o)
          THEN Posts(TRUE, f) /\ held' = [held EXCEPT ![f] = "nothing"]
          ELSE UNCHANGED <<thread, held>>
       /\ unsure' = IF o = "lost" THEN unsure \cup {f} ELSE unsure
  /\ UNCHANGED <<reader, removed>>

-----------------------------------------------------------------------------
(* People and the bot post; the bot deletes what it posted, and one already   *)
(* gone counts as deleted.                                                   *)
Writes(bot) ==
  /\ May("posts") /\ Counts("posts")
  /\ Posts(bot, NoFile)
  /\ UNCHANGED <<held, sender, told, reader, unsure, removed>>

Deletes(i) ==
  /\ i \in DOMAIN thread /\ i > 1 /\ thread[i].bot /\ thread[i].file = NoFile
  /\ May("deletes") /\ Counts("deletes")
  /\ thread' = RemoveAt(thread, i)
  /\ removed' = (removed \/ reader.at = "reading")
  /\ UNCHANGED <<held, sender, told, reader, unsure>>

-----------------------------------------------------------------------------
(* `replies`: page after page, the parent on each, taken once. *)
NoReader == [at |-> "idle", tries |-> 0, cursor |-> 0, out |-> <<>>, saw |-> {}]

Asks ==
  /\ reader.at = "idle"
  /\ reader' = [NoReader EXCEPT !.at = "reading", !.saw = Ids(thread)]
  /\ UNCHANGED <<thread, held, sender, told, unsure, removed, used>>

Replies   == Tail(thread)
EndOf(from) == IF from + PageReplies < Len(Replies) THEN from + PageReplies ELSE Len(Replies)
Page(from) == <<Head(thread)>> \o SubSeq(Replies, from + 1, EndOf(from))

TakesAll(out, page) == out \o page
TakesNew(out, page) ==
  LET taken[n \in 0 .. Len(page)] ==
        IF n = 0 THEN out
        ELSE IF page[n].ts \in Ids(taken[n - 1]) THEN taken[n - 1]
        ELSE Append(taken[n - 1], page[n])
  IN  taken[Len(page)]
Takes(out, page)    == TakesNew(out, page)

Reads ==
  /\ reader.at = "reading"
  /\ \E o \in Outcomes :
       /\ Outcome(o, reader.tries)
       /\ reader' =
            CASE o = "again" -> [reader EXCEPT !.tries = @ + 1]
              [] o = "done"  -> [reader EXCEPT !.at = IF EndOf(reader.cursor) < Len(Replies)
                                                      THEN "reading" ELSE "read",
                                               !.tries = 0,
                                               !.cursor = EndOf(@),
                                               !.out = Takes(@, Page(reader.cursor))]
              [] OTHER       -> [NoReader EXCEPT !.at = "failed"]
  /\ UNCHANGED <<thread, held, sender, told, unsure, removed>>

Init ==
  /\ thread  = <<[ts |-> 1, bot |-> FALSE, file |-> NoFile]>>
  /\ held    = [f \in File |-> "nothing"]
  /\ sender  = [f \in File |-> [at |-> "claiming", tries |-> 0, whole |-> FALSE]]
  /\ told    = [f \in File |-> "nothing"]
  /\ reader  = NoReader
  /\ unsure = {} /\ removed = FALSE
  /\ used    = [posts |-> 0, deletes |-> 0, faults |-> 0]

Next ==
  \/ \E f \in File : Claims(f) \/ Reserves(f) \/ Sends(f) \/ Shares(f)
  \/ \E bot \in BOOLEAN : Writes(bot)
  \/ \E i \in DOMAIN thread : Deletes(i)
  \/ Asks \/ Reads

Spec == Init /\ [][Next]_vars

-----------------------------------------------------------------------------
Stages == {"claiming", "reserving", "sending", "sharing", "over"}

TypeOK ==
  /\ ToSet(thread) \subseteq [ts : Nat, bot : BOOLEAN, file : File \cup {NoFile}]
  /\ held \in [File -> {"nothing", "reserved", "bytes"}]
  /\ sender \in [File -> [at : Stages, tries : 0 .. MaxRetries, whole : BOOLEAN]]
  /\ told \in [File -> {"nothing", "posted", "failed"}]
  /\ reader.at \in {"idle", "reading", "read", "failed"} /\ reader.tries \in 0 .. MaxRetries
  /\ reader.saw \subseteq Nat /\ unsure \subseteq File
  /\ removed \in BOOLEAN
  /\ used \in [posts : 0 .. MaxPosts, deletes : 0 .. MaxDeletes, faults : 0 .. MaxFaults]

(* A person is never told that a file arrived when it did not, whole          *)
(* (attach.rs:5), and a file is in the thread once at most; one that is said  *)
(* not to have arrived is there only if Slack's last answer was lost.         *)
ToldTrue ==
  \A f \in File :
    /\ Cardinality(Shared(f)) <= 1
    /\ told[f] = "posted" => Shared(f) # {}
    /\ told[f] # "posted" /\ Shared(f) # {} => f \in unsure
    /\ Shared(f) # {} => sender[f].whole

(* A thread that was read holds every message that stood when the reading     *)
(* began, each once and in order, if none was deleted meanwhile.              *)
ReadsWhole ==
  reader.at = "read" /\ ~removed =>
    /\ reader.saw \subseteq Ids(reader.out)
    /\ \A i, j \in DOMAIN reader.out : i < j => reader.out[i].ts < reader.out[j].ts

(* The same whatever goes meanwhile ("the whole thread, parent first",        *)
(* web.rs:454).                                                              *)
ReadsWholeAlways ==
  reader.at = "read" => reader.saw \cap Ids(thread) \subseteq Ids(reader.out)

=============================================================================
