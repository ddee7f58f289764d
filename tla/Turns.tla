------------------------------- MODULE Turns -------------------------------
(***************************************************************************)
(* The turn loop of the chat side (crates/murtaugh-gateway/src/chat.rs).   *)
(*                                                                         *)
(* Every Slack message is handled by a task of its own, `Chat::message`.   *)
(* The tasks meet in one map under a mutex, `turns`: the first message of  *)
(* an idle conversation inserts an entry and owns the conversation's loop; *)
(* a message that finds an entry leaves itself in the entry's queue,       *)
(* interrupts the turn under way and returns.  The owner takes the whole   *)
(* queue when its turn ends and runs it as the next turn.  A turn is       *)
(* cancelled by a detached task, which names the node's session only.      *)
(*                                                                         *)
(* A message is identified by its timestamp, so the queue is a set: the    *)
(* code sorts it by timestamp before it reads it.  Which node and session  *)
(* a turn is seated on is left open here: `seat` may fail, or give any     *)
(* session of the conversation.                                            *)
(***************************************************************************)
EXTENDS Naturals, FiniteSets

CONSTANTS
  Conversation,   \* Slack threads
  Message,        \* messages, by timestamp
  User,           \* who may write one
  Session,        \* sessions the nodes hold
  ThreadOf,       \* the thread a message is written in
  AuthorOf,       \* and who wrote it
  HomeOf,         \* the thread a session answers in
  Idle,           \* `turns` holds no entry for the conversation
  NoSession       \* the turn has not started, so there is nothing to cancel

ASSUME MessageAssumption == Message \subseteq Nat
ASSUME ThreadAssumption  == ThreadOf \in [Message -> Conversation]
ASSUME AuthorAssumption  == AuthorOf \in [Message -> User]
ASSUME HomeAssumption    == HomeOf \in [Session -> Conversation]
ASSUME NullAssumption    == NoSession \notin Session

VARIABLES
  turns,      \* Conversation -> the entry of the shared map, or Idle
  task,       \* Message -> the task that handles it
  prompts,    \* prompts on their way to a node
  cancels,    \* Session -> detached cancel_turn tasks not yet at the node
  running,    \* Session -> the words of the turn its node runs, {} when none
  fate,       \* what the people in the thread have seen become of a message
  issued,     \* Conversation -> cancels its turn under way was given by
              \* `interrupt` and `started`
  hushed      \* Conversation -> what a /stop of the turn under way was told

vars == <<turns, task, prompts, cancels, running, fate, issued, hushed>>

Markers == {"none", "interrupted", "stopped"}

(* `Running`: what the map holds of a conversation with a turn under way. *)
Running == [session : Session \cup {NoSession},
            queued  : SUBSET Message,
            marker  : Markers]

ASSUME IdleAssumption == Idle \notin Running

NewTurn == [session |-> NoSession, queued |-> {}, marker |-> "none"]

LoopStages == {"seating", "prompting", "streaming", "closing"}

(* A task's stage and, while it owns a loop, the locals of that loop: the  *)
(* batch being run, the part of it the node's owner lets in (`merged`),    *)
(* the session it was seated on, the reply to its prompt once there is     *)
(* one, and whether an unknown session was already retried.                *)
Task == [at      : {"new", "done"} \cup LoopStages,
         batch   : SUBSET Message,
         kept    : SUBSET Message,
         session : Session \cup {NoSession},
         reply   : {"none", "ok", "unknown", "busy", "error"},
         retried : BOOLEAN]

TaskAt(stage, batch) ==
  [at |-> stage, batch |-> batch, kept |-> {}, session |-> NoSession,
   reply |-> "none", retried |-> FALSE]

Fates == {"open",      \* nothing yet
          "refused",   \* marked with the reaction every refusal gets
          "answered",  \* a node accepted it
          "failed",    \* a card in the thread says it was not run
          "busy",      \* the card says the node is still busy
          "dropped",   \* /stop emptied the queue it waited in
          "unsaid"}    \* dropped, and nobody was told

Prompt == [session : Session, words : SUBSET Message]

Loops(m) == task[m].at \in LoopStages
Busy(c)  == turns[c] # Idle
LastOf(batch) == CHOOSE m \in batch : \A n \in batch : n <= m

Init ==
  /\ turns   = [c \in Conversation |-> Idle]
  /\ task    = [m \in Message |-> TaskAt("new", {})]
  /\ prompts = {}
  /\ cancels = [s \in Session |-> 0]
  /\ running = [s \in Session |-> {}]
  /\ fate    = [m \in Message |-> "open"]
  /\ issued  = [c \in Conversation |-> 0]
  /\ hushed  = [c \in Conversation |-> "nothing"]

----------------------------------------------------------------------------
(* Cancelling *)

(* `Running::interrupt`: the entry as it leaves it ...                     *)
Interrupted(entry, marker) ==
  IF entry.marker # "none" THEN entry ELSE [entry EXCEPT !.marker = marker]

(* As bugs would have it: it cancels at every message, or at none. *)
CancelsAgain(entry) == entry.session
CancelsNothing(entry) == NoSession

(* ... and the session it hands back to cancel: none when the turn was     *)
(* cancelled before, or has not started.                                   *)
ToCancel(entry) ==
  IF entry.marker # "none" THEN NoSession ELSE entry.session

(* `cancel_turn`: one more detached task with that session's id. *)
Spawned(s) ==
  IF s = NoSession THEN cancels ELSE [cancels EXCEPT ![s] = @ + 1]

(* Counts the cancels `interrupt` and `started` ask for. *)
Counted(c, s) ==
  IF s = NoSession THEN issued ELSE [issued EXCEPT ![c] = @ + 1]

CancelUnasked(s) ==
  /\ cancels' = [cancels EXCEPT ![s] = @ - 1]
  /\ running' = [running EXCEPT ![s] = {}]
  /\ UNCHANGED <<turns, task, prompts, fate, issued, hushed>>

(* The detached task's call arrives.  It ends whatever turn the node runs  *)
(* in that session by then.                                                *)
DeliverCancel(s) ==
  /\ cancels[s] > 0
  /\ cancels' = [cancels EXCEPT ![s] = @ - 1]
  /\ running' = [running EXCEPT ![s] = {}]
  /\ UNCHANGED <<turns, task, prompts, fate, issued, hushed>>

----------------------------------------------------------------------------
(* Messages and commands *)

(* The gate: the author may not chat, or is shut out of the machine the    *)
(* thread is pinned to.                                                    *)
Refuse(m) ==
  /\ task[m].at = "new"
  /\ task' = [task EXCEPT ![m] = TaskAt("done", {})]
  /\ fate' = [fate EXCEPT ![m] = "refused"]
  /\ UNCHANGED <<turns, prompts, cancels, running, issued, hushed>>

(* The first message of an idle conversation takes its loop. *)
StartLoop(m) ==
  /\ task[m].at = "new"
  /\ ~Busy(ThreadOf[m])
  /\ turns' = [turns EXCEPT ![ThreadOf[m]] = NewTurn]
  /\ task' = [task EXCEPT ![m] = TaskAt("seating", {m})]
  /\ UNCHANGED <<prompts, cancels, running, fate, issued, hushed>>

(* A bug's: the queue holds the newest message only. *)
JoinsAlone(entry, m) == [Interrupted(entry, "interrupted") EXCEPT !.queued = {m}]

(* The entry with one more message in its queue. *)
Joined(entry, m) ==
  [Interrupted(entry, "interrupted") EXCEPT !.queued = entry.queued \cup {m}]

(* A message that finds a turn waits behind it and interrupts it. *)
Enqueue(m) ==
  /\ task[m].at = "new"
  /\ Busy(ThreadOf[m])
  /\ LET c     == ThreadOf[m]
         entry == turns[c]
     IN /\ turns' = [turns EXCEPT ![c] = Joined(entry, m)]
        /\ cancels' = Spawned(ToCancel(entry))
        /\ issued' = Counted(c, ToCancel(entry))
  /\ task' = [task EXCEPT ![m] = TaskAt("done", {})]
  /\ UNCHANGED <<prompts, running, fate, hushed>>

(* `/stop`: the queue is emptied, the turn interrupted, and the person     *)
(* gets no note, because the notice after the turn's reply is to say it.   *)
(* (`/node` stops a turn the same way before it moves the thread.)         *)
Stop(c) ==
  /\ Busy(c)
  /\ LET entry == turns[c]
     IN /\ turns' = [turns EXCEPT ![c] =
                       [Interrupted(entry, "stopped") EXCEPT !.queued = {}]]
        /\ cancels' = Spawned(ToCancel(entry))
        /\ issued' = Counted(c, ToCancel(entry))
        /\ fate' = [m \in Message |->
                      IF m \in entry.queued THEN "dropped" ELSE fate[m]]
  /\ hushed' = [hushed EXCEPT ![c] = IF @ = "nothing" THEN "no note" ELSE @]
  /\ UNCHANGED <<task, prompts, running>>

----------------------------------------------------------------------------
(* The loop: `converse` of one batch *)

(* The turn is over for the gateway; what is left is clearing the status   *)
(* line and taking the queue.                                              *)
Close(m) == task' = [task EXCEPT ![m] = TaskAt("closing", task[m].batch)]

(* Every message of the batch is answered by one card in the thread, bar   *)
(* the ones already marked as refused.                                     *)
Carded(m, as) ==
  [b \in Message |-> IF b \in task[m].kept THEN as ELSE fate[b]]

(* `seat` finds no machine, or the machine opens no session: a card. *)
SeatFails(m) ==
  /\ task[m].at = "seating"
  /\ Close(m)
  /\ fate' = [b \in Message |-> IF b \in task[m].batch THEN "failed" ELSE fate[b]]
  /\ UNCHANGED <<turns, prompts, cancels, running, issued, hushed>>

(* Machines are up, and no owner lets the last author in.  The messages of *)
(* the people shut out are marked; nothing happens to the others.          *)
SeatShutsOut(m) ==
  /\ task[m].at = "seating"
  /\ \E shut \in SUBSET User :
       /\ AuthorOf[LastOf(task[m].batch)] \in shut
       /\ fate' = [b \in Message |->
                     IF b \notin task[m].batch THEN fate[b]
                     ELSE IF AuthorOf[b] \in shut \/ fate[b] = "refused"
                       THEN "refused" ELSE "unsaid"]
  /\ Close(m)
  /\ UNCHANGED <<turns, prompts, cancels, running, issued, hushed>>

(* Seated.  `admitted` marks what the node's owner does not let in; what   *)
(* is left goes on the link as one prompt, unless nothing is left or the   *)
(* link is closed.                                                         *)
SendPrompt(m) ==
  /\ task[m].at = "seating"
  /\ \E s \in Session, kept \in (SUBSET task[m].batch) \ {{}} :
       /\ HomeOf[s] = ThreadOf[m]
       /\ fate' = [b \in Message |->
                     IF b \in task[m].batch \ kept THEN "refused" ELSE fate[b]]
       /\ task' = [task EXCEPT ![m].at = "prompting", ![m].kept = kept,
                               ![m].session = s]
       /\ prompts' = prompts \cup {[session |-> s, words |-> kept]}
  /\ UNCHANGED <<turns, cancels, running, issued, hushed>>

PromptUnsent(m) ==
  /\ task[m].at = "seating"
  /\ \E kept \in SUBSET task[m].batch :
       fate' = [b \in Message |->
                  CASE b \notin task[m].batch -> fate[b]
                    [] b \in kept             -> "failed"
                    [] OTHER                  -> "refused"]
  /\ Close(m)
  /\ UNCHANGED <<turns, prompts, cancels, running, issued, hushed>>

(* PROMPT_TIMEOUT: the node said nothing.  The prompt is not withdrawn. *)
PromptTimesOut(m) ==
  /\ task[m].at = "prompting"
  /\ task[m].reply = "none"
  /\ Close(m)
  /\ fate' = Carded(m, "failed")
  /\ UNCHANGED <<turns, prompts, cancels, running, issued, hushed>>

(* A bug's: what came before the turn started is forgotten. *)
OwesNothing(entry) == NoSession

(* What a turn that starts owes whoever interrupted it before it did. *)
Owed(entry) == IF entry.marker # "none" THEN entry.session ELSE NoSession

(* The node accepted: `started` lets a message or /stop cancel the turn    *)
(* from now on, and cancels it at once if one already did.                 *)
Started(m) ==
  /\ task[m].at = "prompting"
  /\ task[m].reply = "ok"
  /\ LET c     == ThreadOf[m]
         entry == [turns[c] EXCEPT !.session = task[m].session]
     IN /\ turns' = [turns EXCEPT ![c] = entry]
        /\ cancels' = Spawned(Owed(entry))
        /\ issued' = Counted(c, Owed(entry))
  /\ task' = [task EXCEPT ![m].at = "streaming"]
  /\ fate' = Carded(m, "answered")
  /\ UNCHANGED <<prompts, running, hushed>>

(* The node no longer knows the session: the pin is forgotten and the      *)
(* conversation is seated once more, in another session.                   *)
Reseat(m) ==
  /\ task[m].at = "prompting"
  /\ task[m].reply = "unknown"
  /\ ~task[m].retried
  /\ task' = [task EXCEPT ![m] =
                [TaskAt("seating", task[m].batch) EXCEPT !.retried = TRUE]]
  /\ UNCHANGED <<turns, prompts, cancels, running, fate, issued, hushed>>

(* Any other answer ends the turn with a card. *)
PromptRefused(m) ==
  /\ task[m].at = "prompting"
  /\ \/ task[m].reply \in {"busy", "error"}
     \/ task[m].reply = "unknown" /\ task[m].retried
  /\ Close(m)
  /\ fate' = Carded(m, IF task[m].reply = "busy" THEN "busy" ELSE "failed")
  /\ UNCHANGED <<turns, prompts, cancels, running, issued, hushed>>

(* `stream` is over.  Why the turn ended follows its reply as a notice:    *)
(* the marker's words, if it was cancelled.                                *)
EndStream(m) ==
  LET c == ThreadOf[m]
  IN /\ Close(m)
     /\ hushed' = [hushed EXCEPT ![c] =
                     IF turns[c].marker = "stopped" THEN "told" ELSE @]

(* The node closed the turn's stream of events. *)
StreamEnds(m) ==
  /\ task[m].at = "streaming"
  /\ running[task[m].session] # task[m].kept
  /\ EndStream(m)
  /\ UNCHANGED <<turns, prompts, cancels, running, fate, issued>>

(* The link to the node is gone, and the stream with it. *)
LinkLost(m) ==
  /\ task[m].at = "streaming"
  /\ EndStream(m)
  /\ UNCHANGED <<turns, prompts, cancels, running, fate, issued>>

(* The agent went quiet, or a tool outran its ceiling: the gateway cancels *)
(* the turn itself.  The notice says that, whatever the marker.            *)
StreamStalls(m) ==
  /\ task[m].at = "streaming"
  /\ Close(m)
  /\ cancels' = Spawned(task[m].session)
  /\ UNCHANGED <<turns, prompts, running, fate, issued, hushed>>

(* As bugs would have it: the entry goes although the loop goes on; the    *)
(* queue is copied, not taken.                                             *)
EntryGone(queue) == Idle
EntryKept(queue) == IF queue = {} THEN Idle ELSE [NewTurn EXCEPT !.queued = queue]

(* What the owner leaves in the map once it has taken the queue. *)
EntryAfter(queue) == IF queue = {} THEN Idle ELSE NewTurn

(* The turn is over: the owner takes the queue, and leaves when there is   *)
(* none.                                                                   *)
TakeQueue(m) ==
  /\ task[m].at = "closing"
  /\ LET c     == ThreadOf[m]
         queue == turns[c].queued
     IN /\ turns' = [turns EXCEPT ![c] = EntryAfter(queue)]
        /\ task' = [task EXCEPT ![m] =
                      TaskAt(IF queue = {} THEN "done" ELSE "seating", queue)]
        /\ issued' = [issued EXCEPT ![c] = 0]
        /\ hushed' = [hushed EXCEPT ![c] = "nothing"]
  /\ UNCHANGED <<prompts, cancels, running, fate>>

----------------------------------------------------------------------------
(* The node, as the gateway's code relies on it *)

(* The node answers a prompt.  It runs one turn of a session at a time and *)
(* never queues a second.  The task may have given up on the answer.       *)
NodeAnswers(p) ==
  /\ p \in prompts
  /\ \E answer \in {"ok", "unknown", "busy", "error"} :
       /\ answer = "ok" => running[p.session] = {}
       /\ answer = "busy" => running[p.session] # {}
       /\ running' = IF answer = "ok"
                       THEN [running EXCEPT ![p.session] = p.words]
                       ELSE running
       /\ task' = [m \in Message |->
                     IF /\ task[m].at = "prompting"
                        /\ task[m].session = p.session
                        /\ task[m].kept = p.words
                       THEN [task[m] EXCEPT !.reply = answer]
                       ELSE task[m]]
  /\ prompts' = prompts \ {p}
  /\ UNCHANGED <<turns, cancels, fate, issued, hushed>>

(* The agent is done. *)
NodeFinishes(s) ==
  /\ running[s] # {}
  /\ running' = [running EXCEPT ![s] = {}]
  /\ UNCHANGED <<turns, task, prompts, cancels, fate, issued, hushed>>

----------------------------------------------------------------------------
(* Steps the owner of a loop takes by itself. *)
LoopStep(m) ==
  \/ SeatFails(m) \/ SeatShutsOut(m) \/ SendPrompt(m) \/ PromptUnsent(m)
  \/ PromptTimesOut(m) \/ Started(m) \/ Reseat(m) \/ PromptRefused(m)
  \/ StreamEnds(m) \/ TakeQueue(m)

Next ==
  \/ \E m \in Message : Refuse(m) \/ StartLoop(m) \/ Enqueue(m)
  \/ \E c \in Conversation : Stop(c)
  \/ \E m \in Message : LoopStep(m) \/ LinkLost(m) \/ StreamStalls(m)
  \/ \E s \in Session : DeliverCancel(s) \/ NodeFinishes(s)
  \/ \E p \in prompts : NodeAnswers(p)

Spec == Init /\ [][Next]_vars

(* The owner's own steps and the detached cancels happen: they are tokio   *)
(* tasks, and every wait in them is bounded (PROMPT_TIMEOUT, the HTTP      *)
(* client's timeout), but for a node that never answers `new_session`.     *)
(* Nothing makes an agent finish, answer a prompt, or go quiet, and nobody *)
(* has to write.                                                           *)
Fairness ==
  /\ \A m \in Message : WF_vars(LoopStep(m))
  /\ \A s \in Session : WF_vars(DeliverCancel(s))

FairSpec == Spec /\ Fairness
----------------------------------------------------------------------------
(* Properties *)

TypeOK ==
  /\ turns \in [Conversation -> Running \cup {Idle}]
  /\ task \in [Message -> Task]
  /\ prompts \subseteq Prompt
  /\ cancels \in [Session -> Nat]
  /\ running \in [Session -> SUBSET Message]
  /\ fate \in [Message -> Fates]
  /\ issued \in [Conversation -> Nat]
  /\ hushed \in [Conversation -> {"nothing", "no note", "told"}]

(* A conversation has an entry in `turns` exactly while one task, and only *)
(* one, loops over it: whatever the interleaving of a message arriving and *)
(* the owner taking the queue, two turns never run side by side in one     *)
(* thread, and no entry is left behind that nobody works off.              *)
OneLoop ==
  /\ \A m, n \in Message :
       Loops(m) /\ Loops(n) /\ ThreadOf[m] = ThreadOf[n] => m = n
  /\ \A c \in Conversation :
       Busy(c) <=> \E m \in Message : Loops(m) /\ ThreadOf[m] = c

(* No message is lost between the queue and the loop: once a message is    *)
(* handed in, as long as nothing was said of it, it waits in the queue of  *)
(* its thread or is in the batch being run there; it is never in both, and *)
(* by the time a turn closes each message of it has had its answer.        *)
Accounted ==
  \A m \in Message : task[m].at # "new" /\ fate[m] = "open" =>
    \/ Busy(ThreadOf[m]) /\ m \in turns[ThreadOf[m]].queued
    \/ \E n \in Message : /\ Loops(n)
                          /\ ThreadOf[n] = ThreadOf[m]
                          /\ m \in task[n].batch

BatchOK(n) ==
  /\ task[n].batch # {}
  /\ \A m \in task[n].batch : ThreadOf[m] = ThreadOf[n]
  /\ task[n].batch \cap turns[ThreadOf[n]].queued = {}
  /\ task[n].at = "closing" => \A m \in task[n].batch : fate[m] # "open"

NothingLost == Accounted /\ \A n \in Message : Loops(n) => BatchOK(n)

(* A turn that has started and was interrupted, by a message or /stop, by  *)
(* several of them, before it started or after, is cancelled by them       *)
(* exactly once; a turn nobody interrupted is not cancelled by them at all *)
(* (`interrupt` and `started` share this between them).                    *)
CancelledOnce ==
  \A c \in Conversation : Busy(c) =>
    issued[c] = IF turns[c].marker # "none" /\ turns[c].session # NoSession
                  THEN 1 ELSE 0

(* The loop implements the promise of module SerialThreads. *)
Batch(c) == UNION {task[m].batch : m \in {n \in Message : Loops(n) /\ ThreadOf[n] = c}}
Queue(c) == IF Busy(c) THEN turns[c].queued ELSE {}
Past == {m \in Message : /\ task[m].at # "new"
                         /\ m \notin Batch(ThreadOf[m])
                         /\ m \notin Queue(ThreadOf[m])}

Promise == INSTANCE SerialThreads WITH
             waiting <- [c \in Conversation |-> Queue(c)],
             batch   <- [c \in Conversation |-> Batch(c)],
             past    <- Past

Serial == Promise!Spec

(* An interrupted turn ends, even though nothing makes the agent finish,   *)
(* answer or go quiet by itself: the cancel `interrupt` or `started` sent  *)
(* finds the turn it was meant for.                                        *)
InterruptLands ==
  \A c \in Conversation :
    (Busy(c) /\ turns[c].marker # "none")
      ~> (~Busy(c) \/ turns[c].marker = "none")

(* So a message that was handed in is answered in the end, one way or the  *)
(* other, even behind a turn whose agent never stops by itself.            *)
EveryMessageSettles ==
  \A m \in Message : (task[m].at # "new") ~> (fate[m] # "open")

(* Claims of the code's comments and cards, checked by runs of their own.  *)

(* stop(): "No note once a turn is stopping: the notice after its reply    *)
(* says so": when a turn somebody stopped without a note is over, the      *)
(* thread was told.                                                        *)
StopIsSaid ==
  [][\A m \in Message :
       task[m].at = "closing" /\ task'[m].at # "closing"
         => hushed[ThreadOf[m]] # "no note"]_vars

(* The busy card: "Wait for the answer, or `/stop` the turn and send this  *)
(* again": while the node is still busy, /stop finds the turn.             *)
BusyCanBeStopped ==
  \A m \in Message :
    LET c == ThreadOf[m]
    IN  fate[m] = "busy" /\ (\E s \in Session : HomeOf[s] = c /\ running[s] # {})
          => Busy(c)

(* seat(): "no owner lets these people in: that is a refusal, not an       *)
(* outage, and says so the way every refusal does": no message of a batch  *)
(* that was turned away is left without a word.                            *)
NothingUnsaid == \A m \in Message : fate[m] # "unsaid"
=============================================================================
