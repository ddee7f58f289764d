-------------------------------- MODULE Intake --------------------------------
(***************************************************************************)
(* Whose words reach a machine and who may steer it (`on_event`,           *)
(* `message`, `shut_out_of`, `admitted`, `history`, `command`, `on_slash`  *)
(* of crates/murtaugh-gateway/src/chat.rs).  A machine belongs to an       *)
(* owner, who lets some people in.  The gate of a message looks at the     *)
(* machine its thread is pinned to; the machine a turn runs on is settled  *)
(* awaits later, and what the people wrote is then looked at again.  A     *)
(* machine that takes over a thread is also given what was written there   *)
(* before; what agents and bots wrote is left out.                         *)
(*                                                                         *)
(* One thread; its first message has no thread_ts.  What becomes of turns  *)
(* and of pins beyond this is in Turns and Pins.                           *)
(***************************************************************************)
EXTENDS Naturals, FiniteSets, FiniteSetsExt

CONSTANTS
  Person, Nobody, Node, NoNode,
  Message,     \* what Slack sends, by timestamp
  AuthorOf,    \* who wrote it
  KindOf,      \* and what it is
  LetInFirst,  \* Node -> the people its owner lets in, to begin with
  MaxChanges,  \* bounds the model: times an owner or an admin changes who may,
  MaxMoves,    \* times the thread's pin changes for other reasons,
  MaxFaults    \* calls of the store that fail

Kinds == {"words", "stop", "node", "slash", "other"}

NullAssumption    == NoNode \notin Node /\ Nobody \notin Person
MessageAssumption == Message \subseteq Nat /\ AuthorOf \in [Message -> Person]
KindAssumption    == KindOf \in [Message -> Kinds]
LetAssumption     == LetInFirst \in [Node -> SUBSET Person]
BoundsAssumption  == {MaxChanges, MaxMoves, MaxFaults} \subseteq Nat

VARIABLES
  chatters,  \* the people who may chat
  admits,    \* Node -> the people its owner lets in
  pin,       \* the machine the thread is pinned to, or NoNode
  task,      \* Message -> [at, saw: the machine its gate found]
  turn,      \* the thread's entry of `turns`: [on, queued, node: where its turn runs]
  behind,    \* why the next machine of the thread is to catch up
  loop,      \* the turn under way: [at, user: whom it is seated for, batch, node,
             \* let: whom that machine let in, fresh: it was newly picked,
             \* history: what it is to catch up on]
  reached,   \* <<m, n>>: n was prompted with m
  overheard, \* <<m, n>>: n was given m as what was written before
  marked,    \* the messages marked where they were written
  steered,   \* <<m, n>>: m interrupted or stopped a turn on n
  ever,      \* Node -> the people it let in at some time
  used       \* [changes, moves, faults]

vars == <<chatters, admits, pin, task, turn, behind, loop, reached, overheard,
          marked, steered, ever, used>>
given == <<reached, overheard>>
told  == <<given, marked>>
who   == <<chatters, admits, ever>>
where == <<pin, behind>>

Counts(what) == used' = [used EXCEPT ![what] = @ + 1]
May(what)    ==
  used[what] < [changes |-> MaxChanges, moves |-> MaxMoves, faults |-> MaxFaults][what]

At(m, stage) == task[m].at = stage
Goes(m, stage) == task' = [task EXCEPT ![m].at = stage]
Done(m) == Goes(m, "done")
Started  == \E m \in Message : KindOf[m] = "words" /\ ~At(m, "new")
Quiet    == [on |-> FALSE, queued |-> {}, node |-> NoNode]
NoLoop   == [at |-> "idle", user |-> Nobody, batch |-> {}, node |-> NoNode, let |-> {},
             fresh |-> FALSE, history |-> {}]

-----------------------------------------------------------------------------
(* An event of Slack.  Only a mention or a plain direct message is for the    *)
(* agent; of the first, nobody can have replied in its thread.               *)
Ignores(m) ==
  /\ At(m, "new") /\ KindOf[m] = "other"
  /\ Done(m)
  /\ UNCHANGED <<who, where, turn, loop, told, steered, used>>

(* They may chat, or are marked; a slash command is not a message to mark.    *)
Refused(m) ==
  /\ Done(m)
  /\ marked' = IF KindOf[m] = "slash" THEN marked ELSE marked \cup {m}

Arrives(m) ==
  /\ At(m, "new") /\ KindOf[m] # "other"
  /\ IF AuthorOf[m] \in chatters THEN Goes(m, "gating") /\ UNCHANGED marked ELSE Refused(m)
  /\ UNCHANGED <<who, where, turn, loop, given, steered, used>>

(* `shut_out_of`: the pin is read; a store that fails shuts nobody out.       *)
ShutOut(m, n) == n # NoNode /\ AuthorOf[m] \notin admits[n]
ShutOutOfNone(m, n) == FALSE
Bars(m, n) == ShutOut(m, n)

Gates(m) ==
  /\ At(m, "gating")
  /\ \E n \in {pin, NoNode} :
       /\ \/ n = pin /\ UNCHANGED used
          \/ n = NoNode /\ May("faults") /\ Counts("faults")
       /\ \/ Bars(m, n) /\ Refused(m)
          \/ ~Bars(m, n) /\ task' = [task EXCEPT ![m] = [at |-> "in", saw |-> n]] /\ UNCHANGED marked
  /\ UNCHANGED <<who, where, turn, loop, given, steered>>

(* What steers a turn that runs, or is being seated. *)
Steers(m) == steered' = IF turn.node = NoNode THEN steered ELSE steered \cup {<<m, turn.node>>}

(* `stop` and `/stop`: the queue goes, the turn is interrupted. *)
Stops(m) ==
  /\ At(m, "in") /\ KindOf[m] \in {"stop", "slash"}
  /\ Done(m)
  /\ \/ /\ ~turn.on \/ ~Started      \* a note, to the author only
        /\ UNCHANGED <<turn, steered>>
     \/ /\ turn.on
        /\ turn' = [turn EXCEPT !.queued = {}]
        /\ Steers(m)
  /\ UNCHANGED <<who, where, loop, given, marked, used>>

(* `/node` answers with a menu: only the machines this person would be        *)
(* assigned anyway.  What is chosen on it is a move.                         *)
Offers(m) ==
  /\ At(m, "in") /\ KindOf[m] = "node"
  /\ Done(m)
  /\ UNCHANGED <<who, where, turn, loop, given, marked, steered, used>>

(* Words find the thread idle, or queue behind its turn and interrupt it.     *)
Queues(m) ==
  /\ At(m, "in") /\ KindOf[m] = "words"
  /\ turn.on
  /\ turn' = [turn EXCEPT !.queued = @ \cup {m}]
  /\ Steers(m) /\ Done(m)
  /\ UNCHANGED <<who, where, loop, told, used>>

Begins(m) ==
  /\ At(m, "in") /\ KindOf[m] = "words"
  /\ ~turn.on
  /\ turn' = [Quiet EXCEPT !.on = TRUE]
  /\ loop' = [NoLoop EXCEPT !.at = "seating", !.user = AuthorOf[m], !.batch = {m}]
  /\ Done(m)
  /\ UNCHANGED <<who, where, told, steered, used>>

-----------------------------------------------------------------------------
(* `seat`: the machine of the thread, or one that lets in who wrote last.     *)
Takers == {n \in Node : loop.user \in admits[n]}

(* `history`: what is in the thread when it is read, but for the message that *)
(* is answered, of the people that machine lets in; the read may fail.  A     *)
(* message may be in the thread before its event is.                         *)
InThread(k) == {m \in Message : m <= k /\ KindOf[m] # "slash"}
Latest      == {k \in Message : \A m \in Message : At(m, "new") \/ m <= k}
Admitted(m, n) == AuthorOf[m] \in admits[n]
Anyone(m, n)   == TRUE
Tells(m, n)    == Admitted(m, n)
History(n) ==
  {{}} \cup {{m \in InThread(k) : m # Max(loop.batch) /\ Tells(m, n)} : k \in Latest}

SeatedOn(n, stage, history) ==
  /\ loop' = [loop EXCEPT !.at = stage, !.node = n, !.let = admits[n],
                          !.fresh = stage = "opening", !.history = history]
  /\ turn' = [turn EXCEPT !.node = n]

Resumes ==
  /\ loop.at = "seating" /\ pin # NoNode
  /\ \E history \in IF "moved" \in behind THEN History(pin) ELSE {{}} :
       SeatedOn(pin, "prompting", history)
  /\ behind' = behind \ {"moved"}
  /\ UNCHANGED <<who, pin, task, told, steered, used>>

(* No pin, or one that could not be read.  The machine is held as it was.     *)
Assigns ==
  /\ loop.at = "seating"
  /\ \/ pin = NoNode /\ UNCHANGED used
     \/ May("faults") /\ Counts("faults")
  /\ \E n \in Takers :
       \E history \in IF Max(loop.batch) # Min(Message) \/ "lost" \in behind
                      THEN History(n) ELSE {{}} :
         SeatedOn(n, "opening", history)
  /\ behind' = behind \ {"lost"}
  /\ UNCHANGED <<who, pin, task, told, steered>>

Over == loop' = [NoLoop EXCEPT !.at = "closing", !.user = loop.user]

(* The machine opens a session and the thread is pinned there, or the thread  *)
(* is told that it could not.                                                *)
Opens ==
  /\ loop.at = "opening"
  /\ \/ loop' = [loop EXCEPT !.at = "prompting"] /\ pin' = loop.node
     \/ Over /\ UNCHANGED pin
  /\ UNCHANGED <<who, behind, task, turn, told, steered, used>>

(* Nobody takes them: those shut out are marked, or all are told that no      *)
(* machine is up.                                                            *)
NobodyTakes ==
  /\ loop.at = "seating" /\ pin = NoNode /\ Takers = {}
  /\ marked' = marked \cup {m \in loop.batch : \A n \in Node : AuthorOf[m] \notin admits[n]}
  /\ Over
  /\ UNCHANGED <<who, where, task, turn, given, steered, used>>

(* `admitted`: what of the batch that machine's owner lets reach it; with     *)
(* nothing of it there is no prompt, and nothing to catch up for.            *)
All(batch)  == batch
LetIn(batch) == {m \in batch : AuthorOf[m] \in loop.let}
Kept(batch) == LetIn(batch)

Prompts ==
  /\ loop.at = "prompting"
  /\ reached' = reached \cup {<<m, loop.node>> : m \in Kept(loop.batch)}
  /\ marked'  = marked \cup (loop.batch \ Kept(loop.batch))
  /\ \/ Kept(loop.batch) = {} /\ Over /\ UNCHANGED overheard
     \/ /\ Kept(loop.batch) # {}
        /\ overheard' = overheard \cup (loop.history \X {loop.node})
        /\ loop' = [loop EXCEPT !.at = "running"]
  /\ UNCHANGED <<who, where, task, turn, steered, used>>

Answers ==
  /\ loop.at = "running"
  /\ Over
  /\ UNCHANGED <<who, where, task, turn, told, steered, used>>

(* The queue is the next batch, and who wrote last is whom it is seated for.  *)
SameUser(batch) == loop.user
WroteLast(batch) == AuthorOf[Max(batch)]
NextUser(batch) == WroteLast(batch)

TakesQueue ==
  /\ loop.at = "closing"
  /\ turn' = [Quiet EXCEPT !.on = turn.queued # {}]
  /\ loop' = IF turn.queued = {} THEN NoLoop
             ELSE [NoLoop EXCEPT !.at = "seating", !.user = NextUser(turn.queued),
                                 !.batch = turn.queued]
  /\ UNCHANGED <<who, where, task, told, steered, used>>

-----------------------------------------------------------------------------
(* An owner lets someone in or out, an admin changes who may chat; the thread *)
(* is moved, or loses its machine.                                           *)
Lets(n, p) ==
  /\ May("changes") /\ Counts("changes")
  /\ admits' = [admits EXCEPT ![n] = IF p \in @ THEN @ \ {p} ELSE @ \cup {p}]
  /\ ever' = [ever EXCEPT ![n] = @ \cup admits'[n]]
  /\ UNCHANGED <<chatters, where, task, turn, loop, told, steered>>

Silences(p) ==
  /\ May("changes") /\ Counts("changes")
  /\ chatters' = chatters \ {p}
  /\ UNCHANGED <<admits, ever, where, task, turn, loop, told, steered>>

Moves(n) ==
  /\ pin # NoNode /\ n # pin
  /\ May("moves") /\ Counts("moves")
  /\ pin' = n
  /\ behind' = behind \cup {IF n = NoNode THEN "lost" ELSE "moved"}
  /\ UNCHANGED <<who, task, turn, loop, told, steered>>

Init ==
  /\ chatters = Person
  /\ admits  = LetInFirst
  /\ pin     = NoNode
  /\ task    = [m \in Message |-> [at |-> "new", saw |-> NoNode]]
  /\ turn    = Quiet
  /\ behind  = {}
  /\ loop    = NoLoop
  /\ reached = {} /\ overheard = {} /\ marked = {} /\ steered = {}
  /\ ever    = admits
  /\ used    = [changes |-> 0, moves |-> 0, faults |-> 0]

Handles(m) ==
  Ignores(m) \/ Arrives(m) \/ Gates(m) \/ Stops(m) \/ Offers(m) \/ Queues(m) \/ Begins(m)

Loop == Resumes \/ Assigns \/ Opens \/ NobodyTakes \/ Prompts \/ Answers \/ TakesQueue

Next ==
  \/ \E m \in Message : Handles(m)
  \/ Loop
  \/ \E n \in Node, p \in Person : Lets(n, p)
  \/ \E p \in Person : Silences(p)
  \/ \E n \in Node \cup {NoNode} : Moves(n)

Spec == Init /\ [][Next]_vars

-----------------------------------------------------------------------------
TypeOK ==
  /\ chatters \subseteq Person
  /\ admits \in [Node -> SUBSET Person] /\ ever \in [Node -> SUBSET Person]
  /\ pin \in Node \cup {NoNode}
  /\ task \in [Message -> [at : {"new", "gating", "in", "done"}, saw : Node \cup {NoNode}]]
  /\ turn \in [on : BOOLEAN, queued : SUBSET Message, node : Node \cup {NoNode}]
  /\ loop \in [at : {"idle", "seating", "opening", "prompting", "running", "closing"},
               user : Person \cup {Nobody}, batch : SUBSET Message, node : Node \cup {NoNode},
               let : SUBSET Person, fresh : BOOLEAN, history : SUBSET Message]
  /\ behind \subseteq {"moved", "lost"}
  /\ {reached, overheard, steered} \subseteq SUBSET (Message \X Node)
  /\ {marked} \subseteq SUBSET Message
  /\ used \in [changes : 0 .. MaxChanges, moves : 0 .. MaxMoves, faults : 0 .. MaxFaults]

(* What someone wrote reaches no machine whose owner never let them in,       *)
(* neither as a prompt nor as what was written before it ("catching a machine *)
(* up never hands it words that could not have reached it directly",         *)
(* chat.rs:1366), whatever queue it waited in and however the thread moved;   *)
(* and what is marked as shut out where it was written prompts no machine.    *)
NeverReaches ==
  /\ \A r \in reached \cup overheard : AuthorOf[r[1]] \in ever[r[2]]
  /\ \A m \in marked : KindOf[m] = "words" => \A n \in Node : <<m, n>> \notin reached

(* Someone whom the owner never let in interrupts or stops a turn on that     *)
(* machine only when its gate found the thread elsewhere, or nowhere.         *)
SteersUnseen ==
  \A s \in steered : AuthorOf[s[1]] \in ever[s[2]] \/ task[s[1]].saw # s[2]

(* A machine that a thread is newly seated on takes something of what was     *)
(* written: it was picked for somebody whose words are among them.            *)
FreshSeatRuns == loop.at = "prompting" /\ loop.fresh => Kept(loop.batch) # {}

(* What the code says of words that are marked: they "never leave the         *)
(* gateway" (chat.rs:925).  The next machine of the thread is given them if   *)
(* its owner lets in who wrote them.                                         *)
MarkedStaysIn ==
  \A m \in marked : KindOf[m] = "words" => \A n \in Node : <<m, n>> \notin overheard

(* What the code says of the gate: "such a person cannot steer the thread     *)
(* either - interrupt, stop or move it" (chat.rs:909).                        *)
ShutOutCannotSteer == \A s \in steered : AuthorOf[s[1]] \in ever[s[2]]

=============================================================================
