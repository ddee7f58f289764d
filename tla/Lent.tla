-------------------------------- MODULE Lent --------------------------------
(***************************************************************************)
(* What an editor's session lends the agent (answer, tool, the file tools  *)
(* of crates/murtaugh-client/src/bridge.rs, over mcp.rs and local.rs): the *)
(* tools of its MCP servers and one file, read and written by every call   *)
(* in a task of its own while the person types in it.                      *)
(*                                                                         *)
(* A text is the set of the lines in it.  The editor has the file open:    *)
(* `buffer` is what the person sees, `disk` what is saved.  What an editor *)
(* does with its buffers, and what a server's tool does, are outside the   *)
(* repository.                                                             *)
(***************************************************************************)
EXTENDS Naturals, Sequences, FiniteSets

CONSTANTS
  Line, New,   \* the lines of the file at first and those calls put in
  Typed,       \* the lines the person types
  Twice,       \* the lines whose text is there more than once
  Call, Person,
  Servers,     \* the servers the editor names: the tools each one has
  Inside,      \* whether the path of the file is below a root
  MaxFaults    \* bounds the model: requests and file operations that fail

LinesAssumption ==
  Twice \subseteq Line /\ Person \notin Call /\ Line \cap (New \cup Typed) = {} /\ New \cap Typed = {}
BoundsAssumption == MaxFaults \in Nat /\ Inside \in BOOLEAN

VARIABLES
  fs,      \* what the editor's file system offers: [read, write]
  rooted,  \* whether a root is shared
  routes,  \* name -> who answers it
  open,    \* whether the session is open
  buffer,  \* what the person sees
  dirty,   \* whether they have not saved it
  disk,
  torn,    \* the local writes that have truncated the file and not filled it
  call,    \* Call -> what it is at
  faults

vars == <<fs, rooted, routes, open, buffer, dirty, disk, torn, call, faults>>

FileTools == {"read_text_file", "write_text_file", "edit_text_file"}
NoCall == [at |-> "none", name |-> "none", put |-> {}, drop |-> {}, text |-> {},
           had |-> {}, crossed |-> FALSE, over |-> FALSE]

At(c, stage)  == call[c].at = stage
Running       == {"read", "write", "fill", "server"}
Fails         == faults < MaxFaults /\ faults' = faults + 1

-----------------------------------------------------------------------------
(* `Lent::connect`: the servers that can be reached and listed, in the       *)
(* editor's order, then the file tools; a name that is taken stays taken.    *)
Offered(reads, writes) ==
  {n \in FileTools : /\ n = "write_text_file" \/ reads
                     /\ n = "read_text_file" \/ writes}
Adds(taken, names, who) ==
  [n \in (DOMAIN taken) \cup names |-> IF n \in DOMAIN taken THEN taken[n] ELSE who]

Connected(reached, reads, writes) ==
  LET after[i \in 0 .. Len(Servers)] ==
        IF i = 0 THEN <<>>
        ELSE IF i \in reached THEN Adds(after[i - 1], Servers[i], "server") ELSE after[i - 1]
  IN  Adds(after[Len(Servers)], Offered(reads, writes), "file")

Opens(reached) ==
  /\ ~open
  /\ routes' = Connected(reached, fs.read \/ rooted, fs.write \/ rooted)
  /\ open' = TRUE
  /\ UNCHANGED <<fs, rooted, buffer, dirty, disk, torn, call, faults>>

(* The session is closed; its calls under way go on. *)
Closes ==
  /\ open
  /\ open' = FALSE
  /\ routes' = <<>>
  /\ UNCHANGED <<fs, rooted, buffer, dirty, disk, torn, call, faults>>

-----------------------------------------------------------------------------
(* `tool`: a call of the agent, refused unless the session lends its name.   *)
(* A write brings the text; an edit the line to replace, and another.        *)
Answers(c, how) == call' = [call EXCEPT ![c].at = how]

Unsaved == IF dirty THEN (buffer \ disk) \cap Typed ELSE {}

Begins(c, stage, name, put, drop) ==
  call' = [call EXCEPT ![c] =
    [NoCall EXCEPT !.at = stage, !.name = name, !.put = put, !.drop = drop, !.had = Unsaved]]

Refuses(c, name) ==
  /\ At(c, "none")
  /\ ~open \/ name \notin DOMAIN routes
  /\ Begins(c, "fault", name, {}, {})
  /\ UNCHANGED <<fs, rooted, routes, open, buffer, dirty, disk, torn, faults>>

Routes(c, name) ==
  /\ At(c, "none")
  /\ open /\ name \in DOMAIN routes
  /\ \/ routes[name] = "server" /\ Begins(c, "server", name, {}, {})
     \/ routes[name] = "file" /\ name = "read_text_file" /\ Begins(c, "read", name, {}, {})
     \/ /\ routes[name] = "file" /\ name = "write_text_file"
        /\ \E x \in New : Begins(c, "write", name, {x}, {})
     \/ /\ routes[name] = "file" /\ name = "edit_text_file"
        /\ \E x \in New, old \in Line : Begins(c, "read", name, {x}, {old})
  /\ UNCHANGED <<fs, rooted, routes, open, buffer, dirty, disk, torn, faults>>

(* `mcp::call`: a tool that failed is an answer. *)
ServerAnswers(c) ==
  /\ At(c, "server")
  /\ \E how \in {"ok", "error"} : Answers(c, how)
  /\ UNCHANGED <<fs, rooted, routes, open, buffer, dirty, disk, torn, faults>>

(* `file`: Murtaugh reads a link the person sent.  Through the editor, it    *)
(* needs an open session.                                                    *)
ReadsLink(c) ==
  /\ At(c, "none")
  /\ IF (fs.read /\ ~open) \/ (~fs.read /\ ~rooted)
       THEN Begins(c, "fault", "link", {}, {})
       ELSE Begins(c, "read", "link", {}, {})
  /\ UNCHANGED <<fs, rooted, routes, open, buffer, dirty, disk, torn, faults>>

-----------------------------------------------------------------------------
(* `local::replace`: the line that goes is there once, and no more. *)
Replaced(text, c)       == (text \ call[c].drop) \cup call[c].put
ReplacesAny(text, old)  == old \cap Twice = {}
MayReplace(text, old)   == old \subseteq text /\ old \cap Twice = {}

(* `read_file`: as the editor has it when it offers reads, else from the     *)
(* disk, where a write of somebody else may be under way.                    *)
CanRead    == fs.read \/ (rooted /\ Inside)
FromDisk   == disk
ReadsSaved == FromDisk
ReadText   == IF fs.read THEN buffer ELSE FromDisk

Reads(c) ==
  /\ At(c, "read")
  /\ \/ /\ CanRead
        /\ call' = [call EXCEPT ![c] =
             IF @.name # "edit_text_file" THEN [@ EXCEPT !.at = "ok", !.text = ReadText]
             ELSE IF MayReplace(ReadText, @.drop)
               THEN [@ EXCEPT !.at = "write", !.text = ReadText]
               ELSE [@ EXCEPT !.at = "error"]]
        /\ UNCHANGED faults
     \/ ~CanRead /\ Answers(c, "error") /\ UNCHANGED faults
     \/ CanRead /\ Fails /\ Answers(c, "error")
  /\ UNCHANGED <<fs, rooted, routes, open, buffer, dirty, disk, torn>>

(* Somebody's write of the file crosses the calls under way.  It goes over    *)
(* those done before, unless it was an edit that crossed nobody.             *)
Orderly(calls, who) ==
  who \in Call /\ calls[who].name = "edit_text_file" /\ ~calls[who].crossed
Crossing(calls, who) ==
  [c \in Call |->
     IF c = who THEN calls[c]
     ELSE IF calls[c].at \in Running THEN [calls[c] EXCEPT !.crossed = TRUE]
     ELSE [calls[c] EXCEPT !.over = @ \/ ~Orderly(calls, who)]]

Content(c) == IF call[c].name = "edit_text_file" THEN Replaced(call[c].text, c) ELSE call[c].put
UnlessRooted == fs.write /\ ~rooted
Through      == fs.write

(* `write_file`: through the editor when it offers writes. *)
EditorWrites(c) ==
  /\ At(c, "write")
  /\ Through
  /\ \/ /\ buffer' = Content(c)
        /\ disk' \in {disk, Content(c)}
        /\ dirty' = (disk' # Content(c))
        /\ call' = Crossing([call EXCEPT ![c].at = "ok"], c)
        /\ UNCHANGED faults
     \/ Fails /\ Answers(c, "error") /\ UNCHANGED <<buffer, dirty, disk>>
  /\ UNCHANGED <<fs, rooted, routes, open, torn>>

(* To the disk: the file is emptied, and filled some time later. *)
Truncates(c) ==
  /\ At(c, "write")
  /\ ~Through
  /\ IF rooted /\ Inside
       THEN /\ disk' = {}
            /\ torn' = torn \cup {c}
            /\ call' = Crossing([call EXCEPT ![c].at = "fill"], c)
       ELSE Answers(c, "error") /\ UNCHANGED <<disk, torn>>
  /\ UNCHANGED <<fs, rooted, routes, open, buffer, dirty, faults>>

Fills(c) ==
  /\ At(c, "fill")
  /\ torn' = torn \ {c}
  /\ \/ disk' = Content(c) /\ call' = Crossing([call EXCEPT ![c].at = "ok"], c)
        /\ UNCHANGED faults
     \/ /\ Fails
        /\ UNCHANGED disk
        /\ call' = [d \in Call |-> IF d = c THEN [call[c] EXCEPT !.at = "error"]
                                           ELSE [call[d] EXCEPT !.over = TRUE]]
  /\ UNCHANGED <<fs, rooted, routes, open, buffer, dirty>>

-----------------------------------------------------------------------------
(* The person types, saves, and has the editor load what changed on disk.    *)
Types(x) ==
  /\ x \notin buffer
  /\ buffer' = buffer \cup {x}
  /\ dirty' = TRUE
  /\ UNCHANGED <<fs, rooted, routes, open, disk, torn, call, faults>>

Saves ==
  /\ dirty
  /\ dirty' = FALSE
  /\ disk' = buffer
  /\ call' = Crossing(call, Person)
  /\ UNCHANGED <<fs, rooted, routes, open, buffer, torn, faults>>

(* The editor loads a file that changed below a buffer that did not. *)
Reloads ==
  /\ buffer # disk
  /\ ~dirty /\ torn = {}
  /\ buffer' = disk
  /\ UNCHANGED <<fs, rooted, routes, open, dirty, disk, torn, call, faults>>

-----------------------------------------------------------------------------
Init ==
  /\ fs \in [read : BOOLEAN, write : BOOLEAN]
  /\ rooted \in BOOLEAN
  /\ routes = <<>>
  /\ open = FALSE
  /\ buffer = Line
  /\ dirty = FALSE
  /\ disk = Line
  /\ torn = {}
  /\ call = [c \in Call |-> NoCall]
  /\ faults = 0

Step(c) ==
  \/ \E n \in FileTools \cup UNION {Servers[i] : i \in DOMAIN Servers} :
       Refuses(c, n) \/ Routes(c, n)
  \/ ServerAnswers(c) \/ ReadsLink(c) \/ Reads(c)
  \/ EditorWrites(c) \/ Truncates(c) \/ Fills(c)

Next ==
  \/ \E reached \in SUBSET DOMAIN Servers : Opens(reached)
  \/ Closes
  \/ \E c \in Call : Step(c)
  \/ \E x \in Typed : Types(x)
  \/ Saves \/ Reloads

Spec == Init /\ [][Next]_vars

-----------------------------------------------------------------------------
Text == SUBSET (Line \cup New \cup Typed)

TypeOK ==
  /\ fs \in [read : BOOLEAN, write : BOOLEAN] /\ rooted \in BOOLEAN
  /\ open \in BOOLEAN /\ dirty \in BOOLEAN
  /\ \A n \in DOMAIN routes : routes[n] \in {"server", "file"}
  /\ buffer \in Text /\ disk \in Text
  /\ torn \subseteq Call
  /\ \A c \in Call : /\ call[c].at \in Running \cup {"none", "ok", "error", "fault"}
                     /\ {call[c].put, call[c].drop, call[c].text, call[c].had} \subseteq Text
  /\ faults \in 0 .. MaxFaults

(* A server's tool may have the name of an edit, and it puts nothing.        *)
Edited(c)    == At(c, "ok") /\ call[c].name = "edit_text_file" /\ call[c].put # {}
Overwrote(c) == At(c, "ok") /\ call[c].name = "write_text_file"

(* What the person had typed and not saved when an edit began they still     *)
(* have when it is done ("so unsaved changes count", bridge.rs:796).  What    *)
(* they type while the edit is under way is EditsKeepTyped's.  Left out are   *)
(* writes that cross each other, and an editor that offers writes and no     *)
(* reads.                                                                    *)
UnsavedKept ==
  fs.read \/ ~fs.write =>
    ((\A c \in Call : ~call[c].crossed) =>
       \A c \in Call : Edited(c) /\ ~call[c].over => call[c].had \subseteq buffer)

(* What the comment promises of all that is typed: with an editor that       *)
(* offers reads, an edit's write takes nothing from the person's buffer that *)
(* they had not saved.  The code does not keep it: `edit_file` reads         *)
(* (bridge.rs:840), replaces, and writes the whole text back (842), over     *)
(* what was typed in between.                                                *)
EditsKeepTyped ==
  [][\A c \in Call : /\ fs.read
                     /\ At(c, "write") /\ call[c].name = "edit_text_file" /\ At(c, "ok")'
                     => Unsaved \subseteq buffer']_vars

(* What the agent was told is written is where the person finds it: in the   *)
(* editor's buffer when the editor offers writes ("so its open buffers       *)
(* follow", bridge.rs:817), else on the disk; and it stays, whatever edits   *)
(* follow.  Left out are writes that cross each other, whole writes and the  *)
(* person's own, an editor that offers only one of reads and writes, and the *)
(* moment at which a write beside the editor has the file emptied.           *)
KeptByAll ==
  \A c \in Call : (Edited(c) \/ Overwrote(c)) /\ ~call[c].crossed /\ ~call[c].over =>
    call[c].put \subseteq (IF fs.write THEN buffer ELSE disk)
WrittenStays == fs.read = fs.write /\ torn = {} => KeptByAll

(* However edits cross each other, and whatever one reads while another      *)
(* write has the file emptied, a line that no edit was to replace is in the  *)
(* file when no write is under way, unless a file operation failed.          *)
Replaceable == UNION {call[c].drop : c \in Call}
EditsKeepTheRest ==
  torn = {} /\ faults = 0 /\ (\A c \in Call : call[c].name # "write_text_file") =>
    Line \ Replaceable \subseteq disk

=============================================================================
