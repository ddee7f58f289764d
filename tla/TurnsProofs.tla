---------------------------- MODULE TurnsProofs ----------------------------
(***************************************************************************)
(* Proofs about Turns, for any set of threads, messages, people and        *)
(* sessions.  The invariants are proved together: each step's effect on    *)
(* the map, the tasks and the fates is needed by all of them.  Then the    *)
(* turn loop implements SerialThreads: each of its steps is a step of the  *)
(* promise, or leaves what the promise speaks of alone.                    *)
(***************************************************************************)
EXTENDS Turns, TLAPS

(* What waits in a queue was handed in, for that thread, and nothing was   *)
(* said of it yet.                                                         *)
QueueOK ==
  \A c \in Conversation : Busy(c) =>
    \A m \in turns[c].queued :
      ThreadOf[m] = c /\ task[m].at = "done" /\ fate[m] = "open"

(* Where the loop is decides what is settled: what the machine's owner     *)
(* does not let in before the prompt is sent, the rest when it is taken.   *)
(* Only then does the entry name a session.                                *)
LoopOK(n) ==
  /\ \A m \in task[n].batch : task[m].at # "new"
  /\ task[n].kept \subseteq task[n].batch
  /\ task[n].at \in {"prompting", "streaming"} =>
       /\ task[n].session \in Session
       /\ \A m \in task[n].batch \ task[n].kept : fate[m] # "open"
  /\ task[n].at = "streaming" => \A m \in task[n].kept : fate[m] # "open"
  /\ task[n].at \in {"seating", "prompting"} =>
       turns[ThreadOf[n]].session = NoSession

StageOK == \A n \in Message : Loops(n) => LoopOK(n)

(* An idle conversation owes no cancel. *)
IdleOK == \A c \in Conversation : ~Busy(c) => issued[c] = 0

(* Nothing is said of a message before it is handed in. *)
NewOK == \A m \in Message : task[m].at = "new" => fate[m] = "open"

IInv == /\ TypeOK /\ OneLoop /\ NothingLost /\ CancelledOnce
        /\ QueueOK /\ StageOK /\ IdleOK /\ NewOK

----------------------------------------------------------------------------
(* What the helpers return. *)

(* A task set to a stage with a batch of messages is a task. *)
LEMMA TaskAtType ==
  ASSUME NEW stage \in {"new", "done"} \cup LoopStages,
         NEW batch \in SUBSET Message
  PROVE  TaskAt(stage, batch) \in Task
  BY DEF TaskAt, Task

(* The entry `message` makes for a thread without one is an entry. *)
LEMMA NewTurnType == NewTurn \in Running
  BY DEF NewTurn, Running, Markers

(* `interrupt` keeps an entry's session and queue, and the first marker. *)
LEMMA InterruptedType ==
  ASSUME NEW entry \in Running, NEW marker \in Markers \ {"none"}
  PROVE  /\ Interrupted(entry, marker) \in Running
         /\ Interrupted(entry, marker).session = entry.session
         /\ Interrupted(entry, marker).queued = entry.queued
         /\ Interrupted(entry, marker).marker # "none"
         /\ entry.marker # "none" => Interrupted(entry, marker).marker = entry.marker
         /\ ToCancel(entry) \in Session \cup {NoSession}
  BY DEF Interrupted, ToCancel, Running, Markers

(* `cancel_turn` keeps the counts of cancels, sent and on their way, numbers. *)
LEMMA SpawnedType ==
  ASSUME TypeOK, NEW s \in Session \cup {NoSession}, NEW c \in Conversation
  PROVE  /\ Spawned(s) \in [Session -> Nat]
         /\ Counted(c, s) \in [Conversation -> Nat]
<1>1. cancels \in [Session -> Nat] /\ issued \in [Conversation -> Nat]
  BY DEF TypeOK
<1>2. Spawned(s) \in [Session -> Nat]
  BY <1>1 DEF Spawned
<1>3. Counted(c, s) \in [Conversation -> Nat]
  BY <1>1 DEF Counted
<1> QED  BY <1>2, <1>3

(* The entry of a busy thread holds messages and, if any, a session. *)
LEMMA BusyType ==
  ASSUME TypeOK, NEW c \in Conversation, Busy(c)
  PROVE  /\ turns[c] \in Running
         /\ turns[c].queued \subseteq Message
         /\ turns[c].session \in Session \cup {NoSession}
  BY IdleAssumption DEF TypeOK, Busy, Running

(* A task's batch, and the part of it that is kept, are messages of a thread. *)
LEMMA TaskType ==
  ASSUME TypeOK, NEW m \in Message
  PROVE  /\ task[m] \in Task
         /\ task[m].batch \subseteq Message
         /\ task[m].kept \subseteq Message
         /\ ThreadOf[m] \in Conversation
  BY ThreadAssumption DEF TypeOK, Task

(* Closing a turn leaves every task a task. *)
LEMMA CloseType ==
  ASSUME TypeOK, NEW m \in Message, Close(m)
  PROVE  task' \in [Message -> Task]
<1>1. TaskAt("closing", task[m].batch) \in Task
  BY TaskType, TaskAtType DEF LoopStages
<1> QED  BY <1>1 DEF Close, TypeOK

----------------------------------------------------------------------------
(* Every variable has its type at the start. *)
LEMMA InitType == Init => TypeOK
<1> SUFFICES ASSUME Init PROVE TypeOK
  OBVIOUS
<1>1. task \in [Message -> Task]
  BY TaskAtType DEF Init
<1> QED  BY <1>1 DEF Init, TypeOK, Fates

(* The loop's owner has an entry in the map, and its stage a session. *)
LEMMA LoopFacts ==
  ASSUME IInv, NEW m \in Message, Loops(m)
  PROVE  /\ ThreadOf[m] \in Conversation
         /\ Busy(ThreadOf[m])
         /\ turns[ThreadOf[m]] \in Running
         /\ task[m].at \in {"prompting", "streaming"} => task[m].session \in Session
<1>1. TypeOK
  BY DEF IInv
<1>2. ThreadOf[m] \in Conversation /\ Busy(ThreadOf[m])
  BY <1>1, TaskType DEF IInv, OneLoop
<1> QED  BY <1>1, <1>2, BusyType DEF IInv, StageOK, LoopOK

(* No step takes a variable out of its type: one case per action. *)
LEMMA NextType == IInv /\ [Next]_vars => TypeOK'
<1> SUFFICES ASSUME IInv, [Next]_vars PROVE TypeOK'
  OBVIOUS
<1> TypeOK
  BY DEF IInv
<1>1. ASSUME NEW m \in Message, Refuse(m) PROVE TypeOK'
  <2>1. task' \in [Message -> Task]
    BY <1>1, TaskAtType DEF Refuse, TypeOK
  <2> QED  BY <1>1, <2>1 DEF Refuse, TypeOK, Fates
<1>2. ASSUME NEW m \in Message, StartLoop(m) PROVE TypeOK'
  <2>1. task' \in [Message -> Task]
    BY <1>2, TaskAtType DEF StartLoop, TypeOK, LoopStages
  <2>2. turns' \in [Conversation -> Running \cup {Idle}]
    BY <1>2, NewTurnType DEF StartLoop, TypeOK
  <2> QED  BY <1>2, <2>1, <2>2 DEF StartLoop, TypeOK
<1>3. ASSUME NEW m \in Message, Enqueue(m) PROVE TypeOK'
  <2> DEFINE c == ThreadOf[m]
             stopped == Interrupted(turns[c], "interrupted")
             entry == [stopped EXCEPT !.queued = turns[c].queued \cup {m}]
  <2>1. /\ c \in Conversation
        /\ turns[c] \in Running
        /\ turns[c].queued \subseteq Message
    BY <1>3, TaskType, BusyType DEF Enqueue
  <2>2. stopped \in Running /\ ToCancel(turns[c]) \in Session \cup {NoSession}
    BY <2>1, InterruptedType DEF Markers
  <2>3. entry \in Running
    BY <2>1, <2>2 DEF Running
  <2>4. turns' \in [Conversation -> Running \cup {Idle}]
    BY <1>3, <2>1, <2>3 DEF Enqueue, Joined, TypeOK
  <2>5. cancels' \in [Session -> Nat] /\ issued' \in [Conversation -> Nat]
    BY <1>3, <2>1, <2>2, SpawnedType DEF Enqueue
  <2>6. task' \in [Message -> Task]
    BY <1>3, TaskAtType DEF Enqueue, TypeOK
  <2> QED  BY <1>3, <2>4, <2>5, <2>6 DEF Enqueue, TypeOK
<1>4. ASSUME NEW c \in Conversation, Stop(c) PROVE TypeOK'
  <2> DEFINE stopped == Interrupted(turns[c], "stopped")
  <2>1. turns[c] \in Running
    BY <1>4, BusyType DEF Stop
  <2>2. stopped \in Running /\ ToCancel(turns[c]) \in Session \cup {NoSession}
    BY <2>1, InterruptedType DEF Markers
  <2>3. [stopped EXCEPT !.queued = {}] \in Running
    BY <2>2 DEF Running
  <2>4. turns' \in [Conversation -> Running \cup {Idle}]
    BY <1>4, <2>3 DEF Stop, TypeOK
  <2>5. cancels' \in [Session -> Nat] /\ issued' \in [Conversation -> Nat]
    BY <1>4, <2>2, SpawnedType DEF Stop
  <2>6. fate' \in [Message -> Fates]
    BY <1>4 DEF Stop, TypeOK, Fates
  <2> QED  BY <1>4, <2>4, <2>5, <2>6 DEF Stop, TypeOK
<1>5. ASSUME NEW m \in Message, SeatFails(m) PROVE TypeOK'
  BY <1>5, CloseType DEF SeatFails, TypeOK, Fates
<1>6. ASSUME NEW m \in Message, SeatShutsOut(m) PROVE TypeOK'
  <2>1. fate' \in [Message -> Fates]
    BY <1>6 DEF SeatShutsOut, TypeOK, Fates
  <2> QED  BY <1>6, <2>1, CloseType DEF SeatShutsOut, TypeOK
<1>7. ASSUME NEW m \in Message, SendPrompt(m) PROVE TypeOK'
  <2>1. PICK s \in Session, kept \in (SUBSET task[m].batch) \ {{}} :
          /\ fate' = [b \in Message |->
                        IF b \in task[m].batch \ kept THEN "refused" ELSE fate[b]]
          /\ task' = [task EXCEPT ![m].at = "prompting", ![m].kept = kept,
                                  ![m].session = s]
          /\ prompts' = prompts \cup {[session |-> s, words |-> kept]}
    BY <1>7 DEF SendPrompt
  <2>2. kept \in SUBSET Message /\ task[m] \in Task
    BY TaskType
  <2>3. [task[m] EXCEPT !.at = "prompting", !.kept = kept, !.session = s] \in Task
    BY <2>2 DEF Task, LoopStages
  <2>4. task' \in [Message -> Task]
    BY <2>1, <2>3 DEF TypeOK
  <2>5. fate' \in [Message -> Fates]
    BY <2>1 DEF TypeOK, Fates
  <2>6. prompts' \subseteq Prompt
    <3>1. [session |-> s, words |-> kept] \in Prompt
      BY <2>1, <2>2 DEF Prompt
    <3> QED  BY <2>1, <3>1 DEF TypeOK
  <2> QED  BY <1>7, <2>4, <2>5, <2>6 DEF SendPrompt, TypeOK
<1>8. ASSUME NEW m \in Message, PromptUnsent(m) PROVE TypeOK'
  <2>1. fate' \in [Message -> Fates]
    BY <1>8 DEF PromptUnsent, TypeOK, Fates
  <2> QED  BY <1>8, <2>1, CloseType DEF PromptUnsent, TypeOK
<1>9. ASSUME NEW m \in Message, PromptTimesOut(m) PROVE TypeOK'
  <2>1. fate' \in [Message -> Fates]
    BY <1>9 DEF PromptTimesOut, Carded, TypeOK, Fates
  <2> QED  BY <1>9, <2>1, CloseType DEF PromptTimesOut, TypeOK
<1>10. ASSUME NEW m \in Message, Started(m) PROVE TypeOK'
  <2> DEFINE c == ThreadOf[m]
             entry == [turns[c] EXCEPT !.session = task[m].session]
             now == Owed(entry)
  <2>1. c \in Conversation /\ turns[c] \in Running /\ task[m].session \in Session
    BY <1>10, LoopFacts DEF Started, Loops, LoopStages
  <2>2. entry \in Running /\ now \in Session \cup {NoSession}
    BY <2>1 DEF Running, Owed
  <2>3. turns' \in [Conversation -> Running \cup {Idle}]
    BY <1>10, <2>1, <2>2 DEF Started, TypeOK
  <2>4. cancels' \in [Session -> Nat] /\ issued' \in [Conversation -> Nat]
    BY <1>10, <2>1, <2>2, SpawnedType DEF Started
  <2>5. [task[m] EXCEPT !.at = "streaming"] \in Task
    BY TaskType DEF Task, LoopStages
  <2>6. task' \in [Message -> Task]
    BY <1>10, <2>5 DEF Started, TypeOK
  <2>7. fate' \in [Message -> Fates]
    BY <1>10 DEF Started, Carded, TypeOK, Fates
  <2> QED  BY <1>10, <2>3, <2>4, <2>6, <2>7 DEF Started, TypeOK
<1>11. ASSUME NEW m \in Message, Reseat(m) PROVE TypeOK'
  <2>1. [TaskAt("seating", task[m].batch) EXCEPT !.retried = TRUE] \in Task
    BY TaskType DEF TaskAt, LoopStages, Task
  <2>2. task' \in [Message -> Task]
    BY <1>11, <2>1 DEF Reseat, TypeOK
  <2> QED  BY <1>11, <2>2 DEF Reseat, TypeOK
<1>12. ASSUME NEW m \in Message, PromptRefused(m) PROVE TypeOK'
  <2>1. fate' \in [Message -> Fates]
    BY <1>12 DEF PromptRefused, Carded, TypeOK, Fates
  <2> QED  BY <1>12, <2>1, CloseType DEF PromptRefused, TypeOK
<1>13. ASSUME NEW m \in Message, EndStream(m),
              UNCHANGED <<turns, prompts, cancels, running, fate, issued>>
       PROVE  TypeOK'
  <2>1. hushed' \in [Conversation -> {"nothing", "no note", "told"}]
    BY <1>13 DEF EndStream, TypeOK
  <2> QED  BY <1>13, <2>1, CloseType DEF EndStream, TypeOK
<1>14. ASSUME NEW m \in Message, StreamStalls(m) PROVE TypeOK'
  <2>1. task[m].session \in Session /\ ThreadOf[m] \in Conversation
    BY <1>14, LoopFacts DEF StreamStalls, Loops, LoopStages
  <2>2. cancels' \in [Session -> Nat]
    BY <1>14, <2>1, SpawnedType DEF StreamStalls
  <2> QED  BY <1>14, <2>2, CloseType DEF StreamStalls, TypeOK
<1>15. ASSUME NEW m \in Message, TakeQueue(m) PROVE TypeOK'
  <2> DEFINE c == ThreadOf[m]
             queue == turns[c].queued
  <2>1. c \in Conversation /\ Busy(c)
    BY <1>15, LoopFacts DEF TakeQueue, Loops, LoopStages
  <2>2. queue \subseteq Message
    BY <2>1, BusyType
  <2>3. TaskAt(IF queue = {} THEN "done" ELSE "seating", queue) \in Task
    BY <2>2, TaskAtType DEF LoopStages
  <2>4. task' \in [Message -> Task]
    BY <1>15, <2>3 DEF TakeQueue, TypeOK
  <2>5. turns' \in [Conversation -> Running \cup {Idle}]
    BY <1>15, NewTurnType DEF TakeQueue, EntryAfter, TypeOK
  <2> QED  BY <1>15, <2>4, <2>5 DEF TakeQueue, TypeOK
<1>16. ASSUME NEW s \in Session, DeliverCancel(s) PROVE TypeOK'
  <2> cancels \in [Session -> Nat]
    BY DEF TypeOK
  <2>1. cancels[s] - 1 \in Nat
    BY <1>16 DEF DeliverCancel
  <2> QED  BY <1>16, <2>1 DEF DeliverCancel, TypeOK
<1>17. ASSUME NEW s \in Session, NodeFinishes(s) PROVE TypeOK'
  BY <1>17 DEF NodeFinishes, TypeOK
<1>18. ASSUME NEW p \in prompts, NodeAnswers(p) PROVE TypeOK'
  <2>1. p.session \in Session /\ p.words \in SUBSET Message
    BY DEF TypeOK, Prompt
  <2>2. running' \in [Session -> SUBSET Message]
    BY <1>18, <2>1 DEF NodeAnswers, TypeOK
  <2>3. task' \in [Message -> Task]
    <3>1. PICK answer \in {"ok", "unknown", "busy", "error"} :
            task' = [m \in Message |->
                       IF /\ task[m].at = "prompting"
                          /\ task[m].session = p.session
                          /\ task[m].kept = p.words
                         THEN [task[m] EXCEPT !.reply = answer]
                         ELSE task[m]]
      BY <1>18 DEF NodeAnswers
    <3>2. \A m \in Message : task[m] \in Task /\ [task[m] EXCEPT !.reply = answer] \in Task
      <4> TAKE m \in Message
      <4>1. task[m] \in Task
        BY TaskType
      <4> QED  BY <4>1 DEF Task
    <3> QED  BY <3>1, <3>2
  <2> QED  BY <1>18, <2>2, <2>3 DEF NodeAnswers, TypeOK
<1>19. CASE UNCHANGED vars
  BY <1>19 DEF vars, TypeOK
<1> QED
  BY <1>1, <1>2, <1>3, <1>4, <1>5, <1>6, <1>7, <1>8, <1>9, <1>10, <1>11, <1>12,
     <1>13, <1>14, <1>15, <1>16, <1>17, <1>18, <1>19
     DEF Next, LoopStep, StreamEnds, LinkLost

----------------------------------------------------------------------------
(* The steps, by what they do to the map and the loops. *)

(* Nothing but the node or the cancels in flight moves. *)
LEMMA AsideStep ==
  ASSUME IInv, TypeOK', UNCHANGED <<turns, task, fate, issued>>
  PROVE  IInv'
  BY DEF IInv, OneLoop, NothingLost, Accounted, BatchOK, CancelledOnce, QueueOK,
         StageOK, LoopOK, IdleOK, NewOK, Loops, Busy

(* The owner of a loop moves on with its batch, and messages of the batch  *)
(* are answered on the way: all that are left, if the turn closes.         *)
LEMMA LoopMove ==
  ASSUME IInv, TypeOK', UNCHANGED <<turns, issued>>,
         NEW m \in Message, Loops(m), Loops(m)', LoopOK(m)',
         task'[m].batch = task[m].batch,
         task'[m].at = "closing" => \A b \in task[m].batch : fate'[b] # "open",
         \A n \in Message : n # m => task'[n] = task[n],
         \A b \in Message : fate'[b] = "open" => fate[b] = "open",
         \A b \in Message \ task[m].batch : fate'[b] = fate[b]
  PROVE  IInv'
<1> USE DEF Loops, Busy
<1>1. task[m].at # "new" /\ task[m].at # "done" /\ task'[m].at # "new"
  BY DEF LoopStages
<1>2. \A n \in Message : task'[n].at \in LoopStages <=> task[n].at \in LoopStages
  OBVIOUS
<1>3. \A n \in Message : task'[n].batch = task[n].batch
  OBVIOUS
<1>4. \A n \in Message : task'[n].at # "new" <=> task[n].at # "new"
  BY <1>1
<1>5. OneLoop'
  BY <1>2 DEF IInv, OneLoop
<1>6. NothingLost'
  <2>1. Accounted'
    BY <1>2, <1>3, <1>4 DEF IInv, NothingLost, Accounted
  <2>2. ASSUME NEW n \in Message, task'[n].at \in LoopStages PROVE BatchOK(n)'
    <3>1. BatchOK(n) /\ task[n].batch \subseteq Message
      BY <1>2, <2>2, TaskType DEF IInv, NothingLost
    <3>2. task'[n].at = "closing" => \A b \in task[n].batch : fate'[b] # "open"
      BY <3>1 DEF BatchOK
    <3> QED  BY <1>3, <3>1, <3>2 DEF BatchOK
  <2> QED  BY <2>1, <2>2 DEF NothingLost
<1>7. QueueOK'
  <2> SUFFICES ASSUME NEW c \in Conversation, turns[c] # Idle,
                      NEW q \in turns[c].queued
               PROVE  ThreadOf[q] = c /\ task'[q].at = "done" /\ fate'[q] = "open"
    BY DEF QueueOK
  <2>1. ThreadOf[q] = c /\ task[q].at = "done" /\ fate[q] = "open" /\ q \in Message
    BY BusyType DEF IInv, QueueOK
  <2>2. q # m
    BY <1>1, <2>1
  <2>3. q \notin task[m].batch
    BY <2>1, TaskType DEF IInv, NothingLost, BatchOK
  <2> QED  BY <2>1, <2>2, <2>3
<1>8. StageOK'
  <2> SUFFICES ASSUME NEW n \in Message, task'[n].at \in LoopStages, n # m
               PROVE  LoopOK(n)'
    BY DEF StageOK
  <2>1. /\ task[n].at \in LoopStages /\ task'[n] = task[n]
        /\ task[n].batch \subseteq Message
    BY <1>2, TaskType DEF IInv
  <2>2. LoopOK(n)
    BY <2>1 DEF IInv, StageOK
  <2>3. task[n].kept \subseteq Message
    BY <2>1, TaskType DEF IInv
  <2> QED  BY <1>4, <2>1, <2>2, <2>3 DEF LoopOK
<1>9. CancelledOnce' /\ IdleOK'
  BY DEF IInv, CancelledOnce, IdleOK
<1>10. NewOK'
  <2> SUFFICES ASSUME NEW b \in Message, task'[b].at = "new" PROVE fate'[b] = "open"
    BY DEF NewOK
  <2>1. task[b].at = "new" /\ b \notin task[m].batch
    BY <1>1, TaskType DEF IInv, StageOK, LoopOK
  <2> QED  BY <2>1 DEF IInv, NewOK
<1> QED  BY <1>5, <1>6, <1>7, <1>8, <1>9, <1>10 DEF IInv

(* A turn ends for the gateway once each message of its batch is answered. *)
LEMMA CloseStep ==
  ASSUME IInv, TypeOK', UNCHANGED <<turns, issued>>,
         NEW m \in Message, Loops(m), Close(m),
         \A b \in task[m].batch : fate'[b] # "open",
         \A b \in Message \ task[m].batch : fate'[b] = fate[b]
  PROVE  IInv'
<1>1. /\ task'[m].at = "closing" /\ task'[m].batch = task[m].batch
      /\ task'[m].kept = {}
      /\ \A n \in Message : n # m => task'[n] = task[n]
  BY DEF Close, TaskAt, IInv, TypeOK
<1>2. \A b \in Message : fate'[b] = "open" => fate[b] = "open"
  OBVIOUS
<1>3. \A b \in task[m].batch : task'[b].at # "new"
  <2>1. \A b \in task[m].batch : task[b].at # "new" /\ b \in Message
    BY TaskType DEF IInv, StageOK, LoopOK
  <2> QED  BY <1>1, <2>1
<1>4. LoopOK(m)'
  BY <1>1, <1>3 DEF LoopOK
<1>5. Loops(m)'
  BY <1>1 DEF Loops, LoopStages
<1> QED  BY <1>1, <1>2, <1>4, <1>5, LoopMove

(* A node's answer touches nothing but the reply a task waits for. *)
LEMMA AnswerStep ==
  ASSUME IInv, TypeOK', NEW p \in prompts, NodeAnswers(p)
  PROVE  IInv'
<1>1. UNCHANGED <<turns, issued, fate>>
  BY DEF NodeAnswers
<1>2. \A n \in Message :
        /\ task'[n].at = task[n].at
        /\ task'[n].batch = task[n].batch
        /\ task'[n].kept = task[n].kept
        /\ task'[n].session = task[n].session
  <2> TAKE n \in Message
  <2>1. task[n] \in Task
    BY TaskType DEF IInv
  <2>2. task'[n] = task[n] \/ \E answer : task'[n] = [task[n] EXCEPT !.reply = answer]
    BY DEF NodeAnswers
  <2> QED  BY <2>1, <2>2 DEF Task
<1>3. OneLoop'
  BY <1>1, <1>2 DEF IInv, OneLoop, Loops, Busy
<1>4. NothingLost'
  <2>1. Accounted'
    BY <1>1, <1>2 DEF IInv, NothingLost, Accounted, Loops, Busy
  <2>2. ASSUME NEW n \in Message, Loops(n)' PROVE BatchOK(n)'
    BY <1>1, <1>2, <2>2 DEF IInv, NothingLost, BatchOK, Loops
  <2> QED  BY <2>1, <2>2 DEF NothingLost
<1>5. QueueOK'
  <2>1. \A c \in Conversation : Busy(c) => turns[c].queued \subseteq Message
    BY BusyType DEF IInv
  <2> QED  BY <1>1, <1>2, <2>1 DEF IInv, QueueOK, Busy
<1>6. StageOK'
  <2> SUFFICES ASSUME NEW n \in Message, Loops(n)' PROVE LoopOK(n)'
    BY DEF StageOK
  <2>1. LoopOK(n) /\ task[n].batch \subseteq Message
    BY <1>2, TaskType DEF IInv, StageOK, Loops
  <2> QED  BY <1>1, <1>2, <2>1 DEF LoopOK
<1>7. CancelledOnce' /\ IdleOK'
  BY <1>1 DEF IInv, CancelledOnce, IdleOK, Busy
<1>8. NewOK'
  BY <1>1, <1>2 DEF IInv, NewOK
<1> QED  BY <1>3, <1>4, <1>5, <1>6, <1>7, <1>8 DEF IInv

(* The node accepted: from here on the entry names the session, and a turn *)
(* interrupted before is cancelled now, for the first and only time.       *)
LEMMA StartedStep ==
  ASSUME IInv, TypeOK', NEW m \in Message, Started(m)
  PROVE  IInv'
<1> DEFINE c == ThreadOf[m]
<1>1. Loops(m) /\ task[m].at = "prompting"
  BY DEF Started, Loops, LoopStages
<1>2. /\ c \in Conversation /\ Busy(c) /\ turns[c] \in Running
      /\ task[m].session \in Session /\ task[m] \in Task
  BY <1>1, LoopFacts, TaskType DEF IInv
<1>3. LoopOK(m) /\ turns[c].session = NoSession
  BY <1>1 DEF IInv, StageOK, LoopOK
<1>4. /\ turns'[c].session = task[m].session
      /\ turns'[c].queued = turns[c].queued
      /\ turns'[c].marker = turns[c].marker
      /\ turns'[c] \in Running
      /\ \A d \in Conversation : d # c => turns'[d] = turns[d]
  BY <1>2 DEF Started, IInv, TypeOK, Running
<1>5. /\ task'[m].at = "streaming" /\ task'[m].batch = task[m].batch
      /\ task'[m].kept = task[m].kept /\ task'[m].session = task[m].session
      /\ \A n \in Message : n # m => task'[n] = task[n]
  BY <1>2 DEF Started, IInv, TypeOK, Task
<1>6. \A d \in Conversation : Busy(d)' <=> Busy(d)
  BY <1>2, <1>4, IdleAssumption DEF Busy
<1>7. \A n \in Message : Loops(n)' <=> Loops(n)
  BY <1>1, <1>5 DEF Loops, LoopStages
<1>8. /\ \A b \in task[m].kept : fate'[b] # "open"
      /\ \A b \in Message \ task[m].kept : fate'[b] = fate[b]
      /\ \A b \in Message : fate'[b] = "open" => fate[b] = "open"
  <2>1. task[m].kept \subseteq Message
    BY TaskType DEF IInv
  <2> QED  BY <2>1 DEF Started, Carded
<1>9. OneLoop'
  BY <1>6, <1>7 DEF IInv, OneLoop
<1>10. \A d \in Conversation : Busy(d) => turns'[d].queued = turns[d].queued
  BY <1>4
<1>11. NothingLost'
  <2>1. \A n \in Message : /\ ThreadOf[n] \in Conversation
                           /\ task'[n].batch = task[n].batch
                           /\ task'[n].at # "new" <=> task[n].at # "new"
    BY <1>1, <1>5, ThreadAssumption
  <2>2. Accounted'
    <3>1. Accounted
      BY DEF IInv, NothingLost
    <3> QED  BY <1>6, <1>7, <1>8, <1>10, <2>1, <3>1 DEF Accounted
  <2>3. ASSUME NEW n \in Message, Loops(n)' PROVE BatchOK(n)'
    <3>1. BatchOK(n) /\ task[n].batch \subseteq Message /\ Loops(n) /\ Busy(ThreadOf[n])
      BY <1>7, <2>3, TaskType, LoopFacts DEF IInv, NothingLost
    <3>2. task'[n].at = "closing" => task[n].at = "closing"
      BY <1>5
    <3> QED  BY <1>8, <1>10, <2>1, <3>1, <3>2 DEF BatchOK
  <2> QED  BY <2>2, <2>3 DEF NothingLost
<1>12. QueueOK'
  <2> SUFFICES ASSUME NEW d \in Conversation, Busy(d),
                      NEW q \in turns[d].queued
               PROVE  ThreadOf[q] = d /\ task'[q].at = "done" /\ fate'[q] = "open"
    BY <1>6, <1>10 DEF QueueOK
  <2>1. ThreadOf[q] = d /\ task[q].at = "done" /\ fate[q] = "open" /\ q \in Message
    BY BusyType DEF IInv, QueueOK
  <2>2. q # m
    BY <1>1, <2>1
  <2>3. q \notin task[m].batch
    <3>1. BatchOK(m)
      BY <1>1 DEF IInv, NothingLost
    <3> QED  BY <2>1, <3>1 DEF BatchOK
  <2>4. q \notin task[m].kept
    BY <1>3, <2>3 DEF LoopOK
  <2>5. fate'[q] = fate[q]
    BY <1>8, <2>1, <2>4
  <2>6. task'[q] = task[q]
    BY <1>5, <2>1, <2>2
  <2> QED  BY <2>1, <2>5, <2>6
<1>13. StageOK'
  <2> SUFFICES ASSUME NEW n \in Message, Loops(n) PROVE LoopOK(n)'
    BY <1>7 DEF StageOK
  <2>1. LoopOK(n) /\ task[n].batch \subseteq Message /\ task[n].kept \subseteq Message
    BY TaskType DEF IInv, StageOK
  <2>2. \A b \in Message : task[b].at # "new" => task'[b].at # "new"
    BY <1>5
  <2>3. CASE n = m
    <3>1. \A b \in task[n].batch : task'[b].at # "new"
      BY <2>1, <2>2 DEF LoopOK
    <3>2. \A b \in task[n].batch \ task[n].kept : fate'[b] # "open"
      BY <1>1, <1>8, <2>1, <2>3 DEF LoopOK
    <3>3. task[n].kept \subseteq task[n].batch
      BY <2>1 DEF LoopOK
    <3> QED  BY <1>2, <1>5, <1>8, <2>3, <3>1, <3>2, <3>3 DEF LoopOK
  <2>4. CASE n # m
    <3>1. ThreadOf[n] # c /\ task'[n] = task[n] /\ ThreadOf[n] \in Conversation
      BY <1>1, <1>5, <2>4, ThreadAssumption DEF IInv, OneLoop
    <3>2. turns'[ThreadOf[n]] = turns[ThreadOf[n]]
      BY <1>4, <3>1
    <3> QED  BY <1>8, <2>1, <2>2, <3>1, <3>2 DEF LoopOK
  <2> QED  BY <2>3, <2>4
<1>14. CancelledOnce' /\ IdleOK'
  <2>1. issued[c] = 0
    BY <1>2, <1>3 DEF IInv, CancelledOnce
  <2>2. task[m].session # NoSession
    BY <1>2, NullAssumption
  <2>3. /\ issued'[c] = IF turns[c].marker # "none" THEN 1 ELSE 0
        /\ \A d \in Conversation : d # c => issued'[d] = issued[d]
    <3>1. issued \in [Conversation -> Nat]
      BY DEF IInv, TypeOK
    <3>2. issued' = Counted(c, IF turns[c].marker # "none" THEN task[m].session
                                                           ELSE NoSession)
      BY <1>2 DEF Started, Owed, Running
    <3> QED  BY <1>2, <2>1, <2>2, <3>1, <3>2 DEF Counted
  <2> QED  BY <1>2, <1>4, <1>6, <2>2, <2>3 DEF IInv, CancelledOnce, IdleOK
<1>15. NewOK'
  <2> SUFFICES ASSUME NEW b \in Message, task'[b].at = "new" PROVE fate'[b] = "open"
    BY DEF NewOK
  <2>1. task[b].at = "new"
    BY <1>1, <1>5
  <2>2. b \notin task[m].kept
    BY <1>3, <2>1 DEF LoopOK
  <2> QED  BY <1>8, <2>1, <2>2 DEF IInv, NewOK
<1> QED  BY <1>9, <1>11, <1>12, <1>13, <1>14, <1>15 DEF IInv

(* The gate's refusal keeps the invariant: the refused message is in no queue. *)
LEMMA RefuseStep ==
  ASSUME IInv, TypeOK', NEW m \in Message, Refuse(m)
  PROVE  IInv'
<1>1. /\ task'[m].at = "done" /\ task[m].at = "new" /\ fate'[m] = "refused"
      /\ \A n \in Message : n # m => task'[n] = task[n] /\ fate'[n] = fate[n]
      /\ UNCHANGED <<turns, issued>>
  BY DEF Refuse, TaskAt, IInv, TypeOK
<1>2. ~Loops(m) /\ ~Loops(m)'
  BY <1>1 DEF Loops, LoopStages
<1>3. \A n \in Message : Loops(n)' <=> Loops(n)
  BY <1>1, <1>2 DEF Loops
<1>4. OneLoop'
  BY <1>1, <1>3 DEF IInv, OneLoop, Busy
<1>5. \A n \in Message : Loops(n) => task'[n] = task[n]
  BY <1>1, <1>2
<1>6. \A b \in Message : fate'[b] = "open" => fate[b] = "open"
  BY <1>1
<1>7. NothingLost'
  <2>1. Accounted'
    <3>1. Accounted
      BY DEF IInv, NothingLost
    <3> QED  BY <1>1, <1>3, <1>5, <3>1 DEF Accounted, Busy
  <2>2. ASSUME NEW n \in Message, Loops(n)' PROVE BatchOK(n)'
    <3>1. BatchOK(n) /\ task[n].batch \subseteq Message /\ task'[n] = task[n]
      BY <1>3, <1>5, <2>2, TaskType DEF IInv, NothingLost
    <3> QED  BY <1>1, <1>6, <3>1 DEF BatchOK
  <2> QED  BY <2>1, <2>2 DEF NothingLost
<1>8. QueueOK'
  <2> SUFFICES ASSUME NEW d \in Conversation, Busy(d), NEW q \in turns[d].queued
               PROVE  ThreadOf[q] = d /\ task'[q].at = "done" /\ fate'[q] = "open"
    BY <1>1 DEF QueueOK, Busy
  <2>1. ThreadOf[q] = d /\ task[q].at = "done" /\ fate[q] = "open" /\ q \in Message
    BY BusyType DEF IInv, QueueOK
  <2> QED  BY <1>1, <2>1
<1>9. StageOK'
  <2> SUFFICES ASSUME NEW n \in Message, Loops(n) PROVE LoopOK(n)'
    BY <1>3 DEF StageOK
  <2>1. /\ LoopOK(n) /\ task'[n] = task[n]
        /\ task[n].batch \subseteq Message /\ task[n].kept \subseteq Message
    BY <1>5, TaskType DEF IInv, StageOK
  <2>2. \A b \in Message : task[b].at # "new" => task'[b].at # "new"
    BY <1>1
  <2> QED  BY <1>1, <1>6, <2>1, <2>2 DEF LoopOK
<1>10. CancelledOnce' /\ IdleOK'
  BY <1>1 DEF IInv, CancelledOnce, IdleOK, Busy
<1>11. NewOK'
  BY <1>1 DEF IInv, NewOK
<1> QED  BY <1>4, <1>7, <1>8, <1>9, <1>10, <1>11 DEF IInv

(* Starting a loop keeps the invariant: no other task loops over the thread. *)
LEMMA StartLoopStep ==
  ASSUME IInv, TypeOK', NEW m \in Message, StartLoop(m)
  PROVE  IInv'
<1> DEFINE c == ThreadOf[m]
<1>1. /\ task'[m].at = "seating" /\ task'[m].batch = {m} /\ task'[m].kept = {}
      /\ task[m].at = "new"
      /\ \A n \in Message : n # m => task'[n] = task[n]
      /\ UNCHANGED <<fate, issued>>
  BY DEF StartLoop, TaskAt, IInv, TypeOK
<1>2. c \in Conversation /\ ~Busy(c)
  BY ThreadAssumption DEF StartLoop
<1>3. /\ turns'[c] = NewTurn
      /\ \A d \in Conversation : d # c => turns'[d] = turns[d]
  BY <1>2 DEF StartLoop, IInv, TypeOK
<1>4. Busy(c)' /\ \A d \in Conversation : d # c => (Busy(d)' <=> Busy(d))
  BY <1>2, <1>3, NewTurnType, IdleAssumption DEF Busy
<1>5. Loops(m)' /\ ~Loops(m) /\ \A n \in Message : n # m => (Loops(n)' <=> Loops(n))
  BY <1>1 DEF Loops, LoopStages
<1>6. \A n \in Message : Loops(n) => ThreadOf[n] # c /\ n # m /\ ThreadOf[n] \in Conversation
  BY <1>2, <1>5, ThreadAssumption DEF IInv, OneLoop
<1>7. OneLoop'
  <2>1. \A n, o \in Message :
          Loops(n)' /\ Loops(o)' /\ ThreadOf[n] = ThreadOf[o] => n = o
    BY <1>5, <1>6 DEF IInv, OneLoop
  <2>2. \A d \in Conversation :
          Busy(d)' <=> \E n \in Message : Loops(n)' /\ ThreadOf[n] = d
    BY <1>4, <1>5, <1>6 DEF IInv, OneLoop
  <2> QED  BY <2>1, <2>2 DEF OneLoop
<1>8. \A b \in Message : task[b].at # "new" => b # m /\ task'[b] = task[b]
  BY <1>1
<1>9. NothingLost'
  <2>1. ASSUME NEW b \in Message, task'[b].at # "new", fate'[b] = "open"
        PROVE  \/ Busy(ThreadOf[b])' /\ b \in turns'[ThreadOf[b]].queued
               \/ \E n \in Message : /\ Loops(n)'
                                     /\ ThreadOf[n] = ThreadOf[b]
                                     /\ b \in task'[n].batch
    <3>1. CASE b = m
      BY <1>1, <1>5, <3>1
    <3>2. CASE b # m
      <4>1. task[b].at # "new" /\ fate[b] = "open" /\ ThreadOf[b] \in Conversation
        BY <1>1, <2>1, <3>2, ThreadAssumption
      <4>2. CASE Busy(ThreadOf[b]) /\ b \in turns[ThreadOf[b]].queued
        BY <1>2, <1>3, <1>4, <4>1, <4>2
      <4>3. CASE \E n \in Message : /\ Loops(n)
                                    /\ ThreadOf[n] = ThreadOf[b]
                                    /\ b \in task[n].batch
        BY <1>1, <1>5, <1>6, <4>3
      <4> QED  BY <4>1, <4>2, <4>3 DEF IInv, NothingLost, Accounted
    <3> QED  BY <3>1, <3>2
  <2>2. ASSUME NEW n \in Message, Loops(n)' PROVE BatchOK(n)'
    <3>1. CASE n = m
      BY <1>1, <1>3, <3>1 DEF BatchOK, NewTurn
    <3>2. CASE n # m
      <4>1. /\ Loops(n) /\ BatchOK(n) /\ task'[n] = task[n]
            /\ turns'[ThreadOf[n]] = turns[ThreadOf[n]]
        BY <1>1, <1>3, <1>5, <1>6, <2>2, <3>2 DEF IInv, NothingLost
      <4> QED  BY <1>1, <4>1 DEF BatchOK
    <3> QED  BY <3>1, <3>2
  <2> QED  BY <2>1, <2>2 DEF NothingLost, Accounted
<1>10. QueueOK'
  <2> SUFFICES ASSUME NEW d \in Conversation, Busy(d)', NEW q \in turns'[d].queued
               PROVE  ThreadOf[q] = d /\ task'[q].at = "done" /\ fate'[q] = "open"
    BY DEF QueueOK
  <2>1. d # c
    BY <1>3 DEF NewTurn
  <2>2. ThreadOf[q] = d /\ task[q].at = "done" /\ fate[q] = "open" /\ q \in Message
    BY <1>3, <1>4, <2>1, BusyType DEF IInv, QueueOK
  <2> QED  BY <1>1, <1>8, <2>2
<1>11. StageOK'
  <2> SUFFICES ASSUME NEW n \in Message, Loops(n)' PROVE LoopOK(n)'
    BY DEF StageOK
  <2>1. CASE n = m
    BY <1>1, <1>3, <2>1 DEF LoopOK, NewTurn
  <2>2. CASE n # m
    <3>1. /\ Loops(n) /\ LoopOK(n) /\ task'[n] = task[n]
          /\ turns'[ThreadOf[n]] = turns[ThreadOf[n]]
          /\ task[n].batch \subseteq Message
      BY <1>1, <1>3, <1>5, <1>6, <2>2, TaskType DEF IInv, StageOK
    <3> QED  BY <1>1, <1>8, <3>1 DEF LoopOK
  <2> QED  BY <2>1, <2>2
<1>12. CancelledOnce' /\ IdleOK'
  BY <1>1, <1>2, <1>3, <1>4 DEF IInv, CancelledOnce, IdleOK, NewTurn
<1>13. NewOK'
  BY <1>1, <1>8 DEF IInv, NewOK
<1> QED  BY <1>7, <1>9, <1>10, <1>11, <1>12, <1>13 DEF IInv

(* A message joins the queue.  The turn is cancelled if it has started and *)
(* nobody cancelled it before.                                             *)
LEMMA EnqueueStep ==
  ASSUME IInv, TypeOK', NEW m \in Message, Enqueue(m)
  PROVE  IInv'
<1> DEFINE c == ThreadOf[m]
<1>1. /\ task'[m].at = "done" /\ task[m].at = "new"
      /\ \A n \in Message : n # m => task'[n] = task[n]
      /\ UNCHANGED fate
  BY DEF Enqueue, TaskAt, IInv, TypeOK
<1>2. /\ c \in Conversation /\ Busy(c) /\ turns[c] \in Running
      /\ turns[c].queued \subseteq Message
  BY ThreadAssumption, BusyType DEF Enqueue, IInv
<1>3. /\ turns'[c].session = turns[c].session
      /\ turns'[c].queued = turns[c].queued \cup {m}
      /\ turns'[c].marker # "none"
      /\ turns[c].marker # "none" => turns'[c].marker = turns[c].marker
      /\ turns'[c] \in Running
      /\ \A d \in Conversation : d # c => turns'[d] = turns[d]
  <2> DEFINE stopped == Interrupted(turns[c], "interrupted")
  <2>1. /\ stopped \in Running /\ stopped.session = turns[c].session
        /\ stopped.marker # "none"
        /\ turns[c].marker # "none" => stopped.marker = turns[c].marker
    BY <1>2, InterruptedType DEF Markers
  <2>2. turns' = [turns EXCEPT ![c] =
                    [stopped EXCEPT !.queued = turns[c].queued \cup {m}]]
    BY DEF Enqueue, Joined
  <2> HIDE DEF stopped
  <2>3. turns'[c] = [stopped EXCEPT !.queued = turns[c].queued \cup {m}]
    BY <1>2, <2>2 DEF IInv, TypeOK
  <2>4. \A d \in Conversation : d # c => turns'[d] = turns[d]
    BY <2>2 DEF IInv, TypeOK
  <2> QED  BY <1>2, <2>1, <2>3, <2>4 DEF Running
<1>4. \A d \in Conversation : Busy(d)' <=> Busy(d)
  BY <1>2, <1>3, IdleAssumption DEF Busy
<1>5. /\ ~Loops(m) /\ \A n \in Message : Loops(n)' <=> Loops(n)
      /\ \A n \in Message : Loops(n) => task'[n] = task[n] /\ ThreadOf[n] \in Conversation
  BY <1>1, ThreadAssumption DEF Loops, LoopStages
<1>6. OneLoop'
  BY <1>4, <1>5 DEF IInv, OneLoop
<1>7. \A n \in Message : Loops(n) => m \notin task[n].batch
  BY <1>1 DEF IInv, StageOK, LoopOK
<1>8. NothingLost'
  <2>1. ASSUME NEW b \in Message, task'[b].at # "new", fate'[b] = "open"
        PROVE  \/ Busy(ThreadOf[b])' /\ b \in turns'[ThreadOf[b]].queued
               \/ \E n \in Message : /\ Loops(n)'
                                     /\ ThreadOf[n] = ThreadOf[b]
                                     /\ b \in task'[n].batch
    <3>1. CASE b = m
      BY <1>2, <1>3, <1>4, <3>1
    <3>2. CASE b # m
      <4>1. task[b].at # "new" /\ fate[b] = "open" /\ ThreadOf[b] \in Conversation
        BY <1>1, <2>1, <3>2, ThreadAssumption
      <4>2. CASE Busy(ThreadOf[b]) /\ b \in turns[ThreadOf[b]].queued
        BY <1>3, <1>4, <4>1, <4>2
      <4>3. CASE \E n \in Message : /\ Loops(n)
                                    /\ ThreadOf[n] = ThreadOf[b]
                                    /\ b \in task[n].batch
        BY <1>5, <4>3
      <4> QED  BY <4>1, <4>2, <4>3 DEF IInv, NothingLost, Accounted
    <3> QED  BY <3>1, <3>2
  <2>2. ASSUME NEW n \in Message, Loops(n)' PROVE BatchOK(n)'
    <3>1. BatchOK(n) /\ task'[n] = task[n] /\ m \notin task[n].batch
      BY <1>5, <1>7, <2>2 DEF IInv, NothingLost
    <3>2. task[n].batch \cap turns'[ThreadOf[n]].queued = {}
      BY <1>3, <1>5, <2>2, <3>1 DEF BatchOK
    <3> QED  BY <1>1, <3>1, <3>2 DEF BatchOK
  <2> QED  BY <2>1, <2>2 DEF NothingLost, Accounted
<1>9. QueueOK'
  <2>1. fate[m] = "open"
    <3>1. task[m].at = "new" => fate[m] = "open"
      BY DEF IInv, NewOK
    <3> QED  BY <1>1, <3>1
  <2> SUFFICES ASSUME NEW d \in Conversation, Busy(d), NEW q \in turns'[d].queued
               PROVE  ThreadOf[q] = d /\ task'[q].at = "done" /\ fate'[q] = "open"
    BY <1>4 DEF QueueOK
  <2>2. CASE q = m /\ d = c
    BY <1>1, <2>1, <2>2
  <2>3. CASE q \in turns[d].queued
    <3>1. ThreadOf[q] = d /\ task[q].at = "done" /\ fate[q] = "open" /\ q \in Message
      BY <2>3, BusyType DEF IInv, QueueOK
    <3> QED  BY <1>1, <3>1
  <2> QED  BY <1>3, <2>2, <2>3
<1>10. StageOK'
  <2> SUFFICES ASSUME NEW n \in Message, Loops(n) PROVE LoopOK(n)'
    BY <1>5 DEF StageOK
  <2>1. /\ LoopOK(n) /\ task'[n] = task[n] /\ task[n].batch \subseteq Message
        /\ ThreadOf[n] \in Conversation
    BY <1>5, TaskType DEF IInv, StageOK
  <2>2. turns'[ThreadOf[n]].session = turns[ThreadOf[n]].session
    BY <1>3, <2>1
  <2>3. \A b \in Message : task[b].at # "new" => task'[b].at # "new"
    BY <1>1
  <2> QED  BY <1>1, <2>1, <2>2, <2>3 DEF LoopOK
<1>11. CancelledOnce' /\ IdleOK'
  <2>1. issued' = Counted(c, ToCancel(turns[c])) /\ issued \in [Conversation -> Nat]
    BY DEF Enqueue, IInv, TypeOK
  <2>2. \A d \in Conversation : d # c => issued'[d] = issued[d]
    BY <1>2, <2>1 DEF Counted
  <2>3. issued[c] = IF turns[c].marker # "none" /\ turns[c].session # NoSession
                      THEN 1 ELSE 0
    BY <1>2 DEF IInv, CancelledOnce
  <2>4. issued'[c] = IF turns[c].session # NoSession THEN 1 ELSE 0
    BY <1>2, <2>1, <2>3 DEF Counted, ToCancel
  <2> QED  BY <1>2, <1>3, <1>4, <2>2, <2>4 DEF IInv, CancelledOnce, IdleOK
<1>12. NewOK'
  BY <1>1 DEF IInv, NewOK
<1> QED  BY <1>6, <1>8, <1>9, <1>10, <1>11, <1>12 DEF IInv

(* /stop empties the queue and answers for what waited in it; the turn is  *)
(* cancelled as a waiting message would have cancelled it.                 *)
LEMMA StopStep ==
  ASSUME IInv, TypeOK', NEW c \in Conversation, Stop(c)
  PROVE  IInv'
<1>1. /\ Busy(c) /\ turns[c] \in Running /\ turns[c].queued \subseteq Message
      /\ UNCHANGED task
  BY BusyType DEF Stop, IInv
<1>2. /\ turns'[c].session = turns[c].session
      /\ turns'[c].queued = {}
      /\ turns'[c].marker # "none"
      /\ turns'[c] \in Running
      /\ \A d \in Conversation : d # c => turns'[d] = turns[d]
  <2> DEFINE stopped == Interrupted(turns[c], "stopped")
  <2>1. /\ stopped \in Running /\ stopped.session = turns[c].session
        /\ stopped.marker # "none"
    BY <1>1, InterruptedType DEF Markers
  <2>2. turns' = [turns EXCEPT ![c] = [stopped EXCEPT !.queued = {}]]
    BY DEF Stop
  <2> HIDE DEF stopped
  <2>3. turns'[c] = [stopped EXCEPT !.queued = {}]
    BY <2>2 DEF IInv, TypeOK
  <2>4. \A d \in Conversation : d # c => turns'[d] = turns[d]
    BY <2>2 DEF IInv, TypeOK
  <2> QED  BY <2>1, <2>3, <2>4 DEF Running
<1>3. \A b \in Message :
        fate'[b] = IF b \in turns[c].queued THEN "dropped" ELSE fate[b]
  BY DEF Stop
<1>4. \A b \in Message : fate'[b] = "open" => fate[b] = "open" /\ b \notin turns[c].queued
  BY <1>3
<1>5. \A d \in Conversation : Busy(d)' <=> Busy(d)
  BY <1>1, <1>2, IdleAssumption DEF Busy
<1>6. \A n \in Message : Loops(n)' <=> Loops(n)
  BY <1>1 DEF Loops
<1>7. OneLoop'
  BY <1>1, <1>5, <1>6 DEF IInv, OneLoop
<1>8. NothingLost'
  <2>1. ASSUME NEW b \in Message, task'[b].at # "new", fate'[b] = "open"
        PROVE  \/ Busy(ThreadOf[b])' /\ b \in turns'[ThreadOf[b]].queued
               \/ \E n \in Message : /\ Loops(n)'
                                     /\ ThreadOf[n] = ThreadOf[b]
                                     /\ b \in task'[n].batch
    <3>1. task[b].at # "new" /\ fate[b] = "open" /\ ThreadOf[b] \in Conversation
      BY <1>1, <1>4, <2>1, ThreadAssumption
    <3>2. CASE Busy(ThreadOf[b]) /\ b \in turns[ThreadOf[b]].queued
      BY <1>2, <1>4, <1>5, <2>1, <3>1, <3>2
    <3>3. CASE \E n \in Message : /\ Loops(n)
                                  /\ ThreadOf[n] = ThreadOf[b]
                                  /\ b \in task[n].batch
      BY <1>1, <1>6, <3>3
    <3> QED  BY <3>1, <3>2, <3>3 DEF IInv, NothingLost, Accounted
  <2>2. ASSUME NEW n \in Message, Loops(n)' PROVE BatchOK(n)'
    <3>1. BatchOK(n) /\ task[n].batch \subseteq Message /\ ThreadOf[n] \in Conversation
      BY <1>6, <2>2, TaskType DEF IInv, NothingLost
    <3>2. task[n].batch \cap turns'[ThreadOf[n]].queued = {}
      BY <1>2, <3>1 DEF BatchOK
    <3> QED  BY <1>1, <1>4, <3>1, <3>2 DEF BatchOK
  <2> QED  BY <2>1, <2>2 DEF NothingLost, Accounted
<1>9. QueueOK'
  <2> SUFFICES ASSUME NEW d \in Conversation, Busy(d), NEW q \in turns'[d].queued
               PROVE  ThreadOf[q] = d /\ task'[q].at = "done" /\ fate'[q] = "open"
    BY <1>5 DEF QueueOK
  <2>1. d # c /\ q \in turns[d].queued
    BY <1>2
  <2>2. ThreadOf[q] = d /\ task[q].at = "done" /\ fate[q] = "open" /\ q \in Message
    BY <2>1, BusyType DEF IInv, QueueOK
  <2>3. q \notin turns[c].queued
    BY <1>1, <2>1, <2>2 DEF IInv, QueueOK
  <2> QED  BY <1>1, <1>3, <2>2, <2>3
<1>10. StageOK'
  <2> SUFFICES ASSUME NEW n \in Message, Loops(n) PROVE LoopOK(n)'
    BY <1>6 DEF StageOK
  <2>1. /\ LoopOK(n) /\ task[n].batch \subseteq Message /\ task[n].kept \subseteq Message
        /\ ThreadOf[n] \in Conversation
    BY TaskType DEF IInv, StageOK
  <2>2. turns'[ThreadOf[n]].session = turns[ThreadOf[n]].session
    BY <1>2, <2>1
  <2> QED  BY <1>1, <1>4, <2>1, <2>2 DEF LoopOK
<1>11. CancelledOnce' /\ IdleOK'
  <2>1. issued' = Counted(c, ToCancel(turns[c])) /\ issued \in [Conversation -> Nat]
    BY DEF Stop, IInv, TypeOK
  <2>2. \A d \in Conversation : d # c => issued'[d] = issued[d]
    BY <2>1 DEF Counted
  <2>3. issued[c] = IF turns[c].marker # "none" /\ turns[c].session # NoSession
                      THEN 1 ELSE 0
    BY <1>1 DEF IInv, CancelledOnce
  <2>4. issued'[c] = IF turns[c].session # NoSession THEN 1 ELSE 0
    BY <1>1, <2>1, <2>3 DEF Counted, ToCancel
  <2> QED  BY <1>1, <1>2, <1>5, <2>2, <2>4 DEF IInv, CancelledOnce, IdleOK
<1>12. NewOK'
  <2> SUFFICES ASSUME NEW b \in Message, task[b].at = "new" PROVE fate'[b] = "open"
    BY <1>1 DEF NewOK
  <2>1. b \notin turns[c].queued
    BY <1>1 DEF IInv, QueueOK
  <2> QED  BY <1>3, <2>1 DEF IInv, NewOK
<1> QED  BY <1>7, <1>8, <1>9, <1>10, <1>11, <1>12 DEF IInv

(* The owner takes the queue: it becomes the batch, and the entry is that  *)
(* of a turn that has not started; or there is none, and the entry goes.   *)
LEMMA TakeQueueStep ==
  ASSUME IInv, TypeOK', NEW m \in Message, TakeQueue(m)
  PROVE  IInv'
<1> DEFINE c == ThreadOf[m]
           queue == turns[c].queued
<1>1. Loops(m) /\ task[m].at = "closing"
  BY DEF TakeQueue, Loops, LoopStages
<1>2. c \in Conversation /\ Busy(c) /\ queue \subseteq Message /\ BatchOK(m)
  BY <1>1, LoopFacts, BusyType DEF IInv, NothingLost
<1>3. /\ turns'[c] = IF queue = {} THEN Idle ELSE NewTurn
      /\ \A d \in Conversation : d # c => turns'[d] = turns[d]
      /\ issued'[c] = 0
      /\ \A d \in Conversation : d # c => issued'[d] = issued[d]
      /\ UNCHANGED fate
  BY <1>2 DEF TakeQueue, EntryAfter, IInv, TypeOK
<1>4. /\ task'[m].at = IF queue = {} THEN "done" ELSE "seating"
      /\ task'[m].batch = queue /\ task'[m].kept = {}
      /\ \A n \in Message : n # m => task'[n] = task[n]
  BY DEF TakeQueue, TaskAt, IInv, TypeOK
<1>5. /\ Busy(c)' <=> queue # {}
      /\ Loops(m)' <=> queue # {}
      /\ \A d \in Conversation : d # c => (Busy(d)' <=> Busy(d))
      /\ \A n \in Message : n # m => (Loops(n)' <=> Loops(n))
  BY <1>3, <1>4, NewTurnType, IdleAssumption DEF Busy, Loops, LoopStages
<1>6. \A n \in Message : Loops(n) /\ n # m => ThreadOf[n] # c /\ ThreadOf[n] \in Conversation
  BY <1>1, ThreadAssumption DEF IInv, OneLoop
<1>7. \A b \in queue : ThreadOf[b] = c /\ task[b].at = "done" /\ fate[b] = "open"
  BY <1>2 DEF IInv, QueueOK
<1>8. OneLoop'
  <2>1. \A n, o \in Message :
          Loops(n)' /\ Loops(o)' /\ ThreadOf[n] = ThreadOf[o] => n = o
    BY <1>5, <1>6 DEF IInv, OneLoop
  <2>2. \A d \in Conversation :
          Busy(d)' <=> \E n \in Message : Loops(n)' /\ ThreadOf[n] = d
    BY <1>5, <1>6 DEF IInv, OneLoop
  <2> QED  BY <2>1, <2>2 DEF OneLoop
<1>9. \A b \in Message : task[b].at # "new" <=> task'[b].at # "new"
  BY <1>1, <1>4
<1>10. NothingLost'
  <2>1. ASSUME NEW b \in Message, task'[b].at # "new", fate'[b] = "open"
        PROVE  \/ Busy(ThreadOf[b])' /\ b \in turns'[ThreadOf[b]].queued
               \/ \E n \in Message : /\ Loops(n)'
                                     /\ ThreadOf[n] = ThreadOf[b]
                                     /\ b \in task'[n].batch
    <3>1. task[b].at # "new" /\ fate[b] = "open" /\ ThreadOf[b] \in Conversation
      BY <1>3, <1>9, <2>1, ThreadAssumption
    <3>2. CASE Busy(ThreadOf[b]) /\ b \in turns[ThreadOf[b]].queued /\ ThreadOf[b] = c
      BY <1>4, <1>5, <3>2
    <3>3. CASE Busy(ThreadOf[b]) /\ b \in turns[ThreadOf[b]].queued /\ ThreadOf[b] # c
      BY <1>3, <1>5, <3>1, <3>3
    <3>4. CASE \E n \in Message : /\ Loops(n)
                                  /\ ThreadOf[n] = ThreadOf[b]
                                  /\ b \in task[n].batch
      <4>1. PICK n \in Message : /\ Loops(n)
                                 /\ ThreadOf[n] = ThreadOf[b]
                                 /\ b \in task[n].batch
        BY <3>4
      <4>2. n # m
        BY <1>1, <1>2, <3>1, <4>1 DEF BatchOK
      <4> QED  BY <1>4, <1>5, <4>1, <4>2
    <3> QED  BY <3>1, <3>2, <3>3, <3>4 DEF IInv, NothingLost, Accounted
  <2>2. ASSUME NEW n \in Message, Loops(n)' PROVE BatchOK(n)'
    <3>1. CASE n = m
      <4>1. queue # {}
        BY <1>5, <2>2, <3>1
      <4>2. turns'[c].queued = {}
        BY <1>3, <4>1 DEF NewTurn
      <4> QED  BY <1>4, <1>7, <3>1, <4>1, <4>2 DEF BatchOK
    <3>2. CASE n # m
      <4>1. /\ BatchOK(n) /\ task'[n] = task[n]
            /\ turns'[ThreadOf[n]] = turns[ThreadOf[n]]
        BY <1>3, <1>4, <1>5, <1>6, <2>2, <3>2 DEF IInv, NothingLost
      <4> QED  BY <1>3, <4>1 DEF BatchOK
    <3> QED  BY <3>1, <3>2
  <2> QED  BY <2>1, <2>2 DEF NothingLost, Accounted
<1>11. QueueOK'
  <2> SUFFICES ASSUME NEW d \in Conversation, Busy(d)', NEW q \in turns'[d].queued
               PROVE  ThreadOf[q] = d /\ task'[q].at = "done" /\ fate'[q] = "open"
    BY DEF QueueOK
  <2>1. d # c
    BY <1>3, <1>5 DEF NewTurn
  <2>2. ThreadOf[q] = d /\ task[q].at = "done" /\ fate[q] = "open" /\ q \in Message
    BY <1>3, <1>5, <2>1, BusyType DEF IInv, QueueOK
  <2> QED  BY <1>1, <1>3, <1>4, <2>2
<1>12. StageOK'
  <2> SUFFICES ASSUME NEW n \in Message, Loops(n)' PROVE LoopOK(n)'
    BY DEF StageOK
  <2>1. CASE n = m
    <3>1. queue # {} /\ task'[n].at = "seating" /\ turns'[c].session = NoSession
      BY <1>3, <1>4, <1>5, <2>1 DEF NewTurn
    <3>2. \A b \in queue : task'[b].at # "new"
      BY <1>2, <1>7, <1>9
    <3> QED  BY <1>4, <2>1, <3>1, <3>2 DEF LoopOK
  <2>2. CASE n # m
    <3>1. /\ LoopOK(n) /\ task'[n] = task[n] /\ turns'[ThreadOf[n]] = turns[ThreadOf[n]]
          /\ task[n].batch \subseteq Message
      BY <1>3, <1>4, <1>5, <1>6, <2>2, TaskType DEF IInv, StageOK
    <3> QED  BY <1>3, <1>9, <3>1 DEF LoopOK
  <2> QED  BY <2>1, <2>2
<1>13. CancelledOnce' /\ IdleOK'
  BY <1>3, <1>5 DEF IInv, CancelledOnce, IdleOK, NewTurn
<1>14. NewOK'
  BY <1>3, <1>9 DEF IInv, NewOK
<1> QED  BY <1>8, <1>10, <1>11, <1>12, <1>13, <1>14 DEF IInv

----------------------------------------------------------------------------
(* Init holds no entry and no loop, so the invariant has nothing to say.   *)
LEMMA InitIInv == Init => IInv
<1> SUFFICES ASSUME Init PROVE IInv
  OBVIOUS
<1>1. TypeOK
  BY InitType
<1>2. \A m \in Message : task[m].at = "new" /\ ~Loops(m)
  BY DEF Init, TaskAt, Loops, LoopStages
<1>3. \A c \in Conversation : ~Busy(c) /\ issued[c] = 0
  BY DEF Init, Busy
<1>4. \A m \in Message : fate[m] = "open"
  BY DEF Init
<1> QED
  BY <1>1, <1>2, <1>3, <1>4
     DEF IInv, OneLoop, NothingLost, Accounted, CancelledOnce, QueueOK, StageOK,
         IdleOK, NewOK

(* Every step keeps the invariant. *)
LEMMA NextIInv == IInv /\ [Next]_vars => IInv'
<1> SUFFICES ASSUME IInv, [Next]_vars PROVE IInv'
  OBVIOUS
<1> TypeOK'
  BY NextType
<1>1. ASSUME NEW m \in Message, SeatFails(m) PROVE IInv'
  <2>1. /\ \A b \in task[m].batch : fate'[b] # "open"
        /\ \A b \in Message \ task[m].batch : fate'[b] = fate[b]
    <3>1. task[m].batch \subseteq Message
      BY TaskType DEF IInv
    <3> QED  BY <1>1, <3>1 DEF SeatFails
  <2> QED  BY <1>1, <2>1, CloseStep DEF SeatFails, Loops, LoopStages
<1>2. ASSUME NEW m \in Message, SeatShutsOut(m) PROVE IInv'
  <2>1. \A b \in Message : /\ b \in task[m].batch => fate'[b] # "open"
                           /\ b \notin task[m].batch => fate'[b] = fate[b]
    BY <1>2 DEF SeatShutsOut
  <2>2. task[m].batch \subseteq Message
    BY TaskType DEF IInv
  <2>3. /\ \A b \in task[m].batch : fate'[b] # "open"
        /\ \A b \in Message \ task[m].batch : fate'[b] = fate[b]
    BY <2>1, <2>2
  <2>4. UNCHANGED <<turns, issued>> /\ Loops(m) /\ Close(m)
    BY <1>2 DEF SeatShutsOut, Loops, LoopStages
  <2> QED  BY <2>3, <2>4, CloseStep
<1>3. ASSUME NEW m \in Message, SendPrompt(m) PROVE IInv'
  <2>1. PICK s \in Session, kept \in (SUBSET task[m].batch) \ {{}} :
          /\ fate' = [b \in Message |->
                        IF b \in task[m].batch \ kept THEN "refused" ELSE fate[b]]
          /\ task' = [task EXCEPT ![m].at = "prompting", ![m].kept = kept,
                                  ![m].session = s]
    BY <1>3 DEF SendPrompt
  <2>2. Loops(m) /\ task[m] \in Task /\ LoopOK(m) /\ task[m].batch \subseteq Message
    BY <1>3, TaskType DEF SendPrompt, Loops, LoopStages, IInv, StageOK
  <2>3. /\ task'[m].at = "prompting" /\ task'[m].kept = kept
        /\ task'[m].session = s /\ task'[m].batch = task[m].batch
        /\ \A n \in Message : n # m => task'[n] = task[n]
    <3>1. task' = [task EXCEPT ![m] = [task[m] EXCEPT !.at = "prompting",
                                          !.kept = kept, !.session = s]]
      BY <2>1
    <3>2. task'[m] = [task[m] EXCEPT !.at = "prompting", !.kept = kept, !.session = s]
      BY <3>1 DEF IInv, TypeOK
    <3>3. \A n \in Message : n # m => task'[n] = task[n]
      BY <3>1 DEF IInv, TypeOK
    <3> QED  BY <2>2, <3>2, <3>3 DEF Task
  <2>4. UNCHANGED <<turns, issued>> /\ turns[ThreadOf[m]].session = NoSession
    BY <1>3, <2>2 DEF SendPrompt, LoopOK
  <2>5. \A b \in Message :
          /\ fate'[b] = "open" => fate[b] = "open"
          /\ b \notin task[m].batch => fate'[b] = fate[b]
          /\ b \in task[m].batch \ kept => fate'[b] # "open"
    BY <2>1
  <2>6. \A b \in task[m].batch : task'[b].at # "new"
    BY <2>2, <2>3 DEF LoopOK
  <2>7. LoopOK(m)'
    BY <2>2, <2>3, <2>4, <2>5, <2>6 DEF LoopOK
  <2>8. Loops(m)'
    BY <2>3 DEF Loops, LoopStages
  <2> QED  BY <2>2, <2>3, <2>4, <2>5, <2>7, <2>8, LoopMove
<1>4. ASSUME NEW m \in Message, PromptUnsent(m) PROVE IInv'
  <2>1. \A b \in Message : /\ b \in task[m].batch => fate'[b] # "open"
                           /\ b \notin task[m].batch => fate'[b] = fate[b]
    BY <1>4 DEF PromptUnsent
  <2>2. task[m].batch \subseteq Message
    BY TaskType DEF IInv
  <2> QED  BY <1>4, <2>1, <2>2, CloseStep DEF PromptUnsent, Loops, LoopStages
<1>5. ASSUME NEW m \in Message, task[m].at = "prompting", Close(m),
             UNCHANGED <<turns, issued>>,
             NEW as \in {"failed", "busy"}, fate' = Carded(m, as)
      PROVE  IInv'
  <2>1. Loops(m) /\ LoopOK(m) /\ task[m].batch \subseteq Message
    BY <1>5, TaskType DEF Loops, LoopStages, IInv, StageOK
  <2>2. /\ \A b \in task[m].batch : fate'[b] # "open"
        /\ \A b \in Message \ task[m].batch : fate'[b] = fate[b]
    BY <1>5, <2>1 DEF Carded, LoopOK
  <2> QED  BY <1>5, <2>1, <2>2, CloseStep
<1>6. ASSUME NEW m \in Message, task[m].at = "streaming", Close(m),
             UNCHANGED <<turns, issued, fate>>
      PROVE  IInv'
  <2>1. Loops(m) /\ LoopOK(m)
    BY <1>6 DEF Loops, LoopStages, IInv, StageOK
  <2>2. \A b \in task[m].batch : fate[b] # "open"
    BY <1>6, <2>1 DEF LoopOK
  <2> QED  BY <1>6, <2>1, <2>2, CloseStep
<1>7. ASSUME NEW m \in Message, Reseat(m) PROVE IInv'
  <2>1. Loops(m) /\ LoopOK(m) /\ task[m].batch \subseteq Message
    BY <1>7, TaskType DEF Reseat, Loops, LoopStages, IInv, StageOK
  <2>2. /\ task'[m].at = "seating" /\ task'[m].batch = task[m].batch
        /\ task'[m].kept = {}
        /\ \A n \in Message : n # m => task'[n] = task[n]
        /\ UNCHANGED <<turns, issued, fate>>
    BY <1>7 DEF Reseat, TaskAt, IInv, TypeOK
  <2>3. \A b \in task[m].batch : task'[b].at # "new"
    BY <2>1, <2>2 DEF LoopOK
  <2>4. LoopOK(m)' /\ Loops(m)'
    BY <1>7, <2>1, <2>2, <2>3 DEF LoopOK, Reseat, Loops, LoopStages
  <2> QED  BY <2>1, <2>2, <2>4, LoopMove
<1>8. ASSUME NEW m \in Message, PromptTimesOut(m) \/ PromptRefused(m) PROVE IInv'
  <2>1. /\ task[m].at = "prompting" /\ Close(m) /\ UNCHANGED <<turns, issued>>
        /\ \E as \in {"failed", "busy"} : fate' = Carded(m, as)
    BY <1>8 DEF PromptTimesOut, PromptRefused
  <2> QED  BY <1>5, <2>1
<1>9. ASSUME NEW m \in Message, StreamEnds(m) \/ LinkLost(m) \/ StreamStalls(m)
      PROVE  IInv'
  BY <1>6, <1>9 DEF StreamEnds, LinkLost, StreamStalls, EndStream
<1>10. ASSUME NEW s \in Session, DeliverCancel(s) \/ NodeFinishes(s) PROVE IInv'
  BY <1>10, AsideStep DEF DeliverCancel, NodeFinishes
<1>11. CASE UNCHANGED vars
  BY <1>11, AsideStep DEF vars
<1> QED
  BY <1>1, <1>2, <1>3, <1>4, <1>7, <1>8, <1>9, <1>10, <1>11, StopStep,
     TakeQueueStep, StartedStep, RefuseStep, StartLoopStep, EnqueueStep,
     AnswerStep DEF Next, LoopStep

(* The strengthened invariant holds throughout. *)
THEOREM Invariance == Spec => []IInv
  BY InitIInv, NextIInv, PTL DEF Spec

(* Every variable keeps its type, whatever the threads, messages, people   *)
(* and sessions are.                                                       *)
THEOREM TypeCorrect == Spec => []TypeOK
<1>1. IInv => TypeOK
  BY DEF IInv
<1> QED  BY <1>1, Invariance, PTL

(* At most one task works on a thread, and a thread has an entry in the    *)
(* map exactly while one does.                                             *)
THEOREM LoopExclusive == Spec => []OneLoop
<1>1. IInv => OneLoop
  BY DEF IInv
<1> QED  BY <1>1, Invariance, PTL

(* A message that was handed in and not answered yet waits in its thread's *)
(* queue or is being worked on, never both.                                *)
THEOREM NoMessageLost == Spec => []NothingLost
<1>1. IInv => NothingLost
  BY DEF IInv
<1> QED  BY <1>1, Invariance, PTL

(* However many messages and /stops interrupt a turn, and whenever they    *)
(* do, the turn is cancelled once if it starts, and never otherwise.       *)
THEOREM OneCancel == Spec => []CancelledOnce
<1>1. IInv => CancelledOnce
  BY DEF IInv
<1> QED  BY <1>1, Invariance, PTL

-----------------------------------------------------------------------------
(* Turns implements SerialThreads *)

Waiting == [c \in Conversation |-> Queue(c)]
Worked  == [c \in Conversation |-> Batch(c)]

(* What is worked on in a thread, message by message. *)
LEMMA InBatch ==
  \A c, b : b \in Batch(c) <=>
    \E n \in Message : Loops(n) /\ ThreadOf[n] = c /\ b \in task[n].batch
  BY DEF Batch

(* The one loop of a thread has the thread's batch. *)
LEMMA LoopBatch ==
  ASSUME IInv, NEW n \in Message, Loops(n)
  PROVE  Batch(ThreadOf[n]) = task[n].batch
<1>1. \A b : b \in Batch(ThreadOf[n]) <=> b \in task[n].batch
  BY InBatch DEF IInv, OneLoop
<1> QED  BY <1>1

(* A thread without an entry has nothing waiting and nothing worked on. *)
LEMMA IdleThread ==
  ASSUME IInv, NEW c \in Conversation, ~Busy(c)
  PROVE  Queue(c) = {} /\ Batch(c) = {}
<1>1. \A b : b \notin Batch(c)
  BY InBatch DEF IInv, OneLoop
<1> QED  BY <1>1 DEF Queue

(* A message nobody has handled yet is fresh for the promise. *)
LEMMA NewIsFresh ==
  ASSUME IInv, NEW m \in Message, task[m].at = "new"
  PROVE  /\ m \notin Past
         /\ m \notin Queue(ThreadOf[m])
         /\ m \notin Batch(ThreadOf[m])
<1>1. ThreadOf[m] \in Conversation
  BY ThreadAssumption
<1>2. m \notin Queue(ThreadOf[m])
  BY <1>1 DEF Queue, IInv, QueueOK
<1>3. m \notin Batch(ThreadOf[m])
  BY InBatch DEF IInv, StageOK, LoopOK
<1> QED  BY <1>2, <1>3 DEF Past

(* A step that leaves the queues, the loops and their batches alone is a   *)
(* step the promise does not see.                                          *)
LEMMA Unseen ==
  ASSUME IInv, \A c \in Conversation : Queue(c)' = Queue(c),
         \A n \in Message : /\ Loops(n)' <=> Loops(n)
                            /\ Loops(n) => task'[n].batch = task[n].batch
                            /\ task'[n].at = "new" <=> task[n].at = "new"
  PROVE  UNCHANGED <<Waiting, Worked, Past>>
<1>1. \A c \in Conversation : Batch(c)' = Batch(c)
  BY DEF Batch
<1>2. \A m \in Message : ThreadOf[m] \in Conversation
  BY ThreadAssumption
<1>3. Past' = Past
  BY <1>1, <1>2 DEF Past
<1> QED  BY <1>1, <1>3 DEF Waiting, Worked

(* The queues, seen from the map. *)
LEMMA SameQueues ==
  ASSUME UNCHANGED turns
  PROVE  \A c \in Conversation : Queue(c)' = Queue(c)
  BY DEF Queue, Busy

(* The owner moves on with its batch: nothing the promise sees. *)
LEMMA OwnerMoves ==
  ASSUME IInv, NEW m \in Message, Loops(m), Loops(m)',
         \A c \in Conversation : Queue(c)' = Queue(c),
         task'[m].batch = task[m].batch,
         \A n \in Message : n # m => task'[n] = task[n]
  PROVE  UNCHANGED <<Waiting, Worked, Past>>
<1>1. /\ task[m].at # "new" /\ task'[m].at # "new"
      /\ \A n \in Message : Loops(n)' <=> Loops(n)
  BY DEF Loops, LoopStages
<1> QED  BY <1>1, Unseen

(* The end of a turn changes nothing the promise speaks of. *)
LEMMA ClosingUnseen ==
  ASSUME IInv, NEW m \in Message, Loops(m), Close(m), UNCHANGED turns
  PROVE  UNCHANGED <<Waiting, Worked, Past>>
<1>1. /\ task'[m].at = "closing" /\ task'[m].batch = task[m].batch
      /\ \A n \in Message : n # m => task'[n] = task[n]
  BY DEF Close, TaskAt, IInv, TypeOK
<1>2. Loops(m)'
  BY <1>1 DEF Loops, LoopStages
<1> QED  BY <1>1, <1>2, OwnerMoves, SameQueues

(* The steps of the loop other than taking the queue. *)
LEMMA LoopUnseen ==
  ASSUME IInv, NEW m \in Message,
         \/ SeatFails(m) \/ SeatShutsOut(m) \/ SendPrompt(m) \/ PromptUnsent(m)
         \/ PromptTimesOut(m) \/ Started(m) \/ Reseat(m) \/ PromptRefused(m)
         \/ StreamEnds(m) \/ LinkLost(m) \/ StreamStalls(m)
  PROVE  UNCHANGED <<Waiting, Worked, Past>>
<1>1. Loops(m) /\ task[m] \in Task
  BY TaskType
     DEF SeatFails, SeatShutsOut, SendPrompt, PromptUnsent, PromptTimesOut,
         Started, Reseat, PromptRefused, StreamEnds, LinkLost, StreamStalls,
         Loops, LoopStages, IInv
<1>2. CASE Close(m) /\ UNCHANGED turns
  BY <1>1, <1>2, ClosingUnseen
<1>3. CASE SendPrompt(m)
  <2>1. /\ task'[m].at = "prompting" /\ task'[m].batch = task[m].batch
        /\ \A n \in Message : n # m => task'[n] = task[n]
        /\ UNCHANGED turns
    <3>1. PICK s \in Session, kept \in (SUBSET task[m].batch) \ {{}} :
            task' = [task EXCEPT ![m].at = "prompting", ![m].kept = kept,
                                 ![m].session = s]
      BY <1>3 DEF SendPrompt
    <3>2. task'[m] = [task[m] EXCEPT !.at = "prompting", !.kept = kept, !.session = s]
      BY <3>1 DEF IInv, TypeOK
    <3>3. \A n \in Message : n # m => task'[n] = task[n]
      BY <3>1 DEF IInv, TypeOK
    <3> QED  BY <1>1, <1>3, <3>2, <3>3 DEF Task, SendPrompt
  <2>2. Loops(m)'
    BY <2>1 DEF Loops, LoopStages
  <2> QED  BY <1>1, <2>1, <2>2, OwnerMoves, SameQueues
<1>4. CASE Started(m)
  <2>1. /\ task'[m].at = "streaming" /\ task'[m].batch = task[m].batch
        /\ \A n \in Message : n # m => task'[n] = task[n]
    BY <1>1, <1>4 DEF Started, IInv, TypeOK, Task
  <2>2. ThreadOf[m] \in Conversation /\ turns[ThreadOf[m]] \in Running /\ Busy(ThreadOf[m])
    BY <1>1, LoopFacts
  <2>3. LET entry == [turns[ThreadOf[m]] EXCEPT !.session = task[m].session]
        IN  turns' = [turns EXCEPT ![ThreadOf[m]] = entry]
    BY <1>4 DEF Started
  <2>4. /\ turns'[ThreadOf[m]] \in Running
        /\ turns'[ThreadOf[m]].queued = turns[ThreadOf[m]].queued
        /\ \A c \in Conversation : c # ThreadOf[m] => turns'[c] = turns[c]
    <3>1. task[m].session \in Session
      BY <1>1, <1>4, LoopFacts DEF Started
    <3> QED  BY <2>2, <2>3, <3>1 DEF IInv, TypeOK, Running
  <2>5. \A c \in Conversation : Queue(c)' = Queue(c)
    BY <2>2, <2>4, IdleAssumption DEF Queue, Busy
  <2>6. Loops(m)'
    BY <2>1 DEF Loops, LoopStages
  <2> QED  BY <1>1, <2>1, <2>5, <2>6, OwnerMoves
<1>5. CASE Reseat(m)
  <2>1. /\ task'[m].at = "seating" /\ task'[m].batch = task[m].batch
        /\ \A n \in Message : n # m => task'[n] = task[n]
        /\ UNCHANGED turns
    BY <1>5 DEF Reseat, TaskAt, IInv, TypeOK
  <2>2. Loops(m)'
    BY <2>1 DEF Loops, LoopStages
  <2> QED  BY <1>1, <2>1, <2>2, OwnerMoves, SameQueues
<1> QED
  BY <1>2, <1>3, <1>4, <1>5
     DEF SeatFails, SeatShutsOut, PromptUnsent, PromptTimesOut, PromptRefused,
         StreamEnds, LinkLost, StreamStalls, EndStream

(* What the node and the cancels in flight do is not seen either. *)
LEMMA AsideUnseen ==
  ASSUME IInv, UNCHANGED <<turns, task>>
  PROVE  UNCHANGED <<Waiting, Worked, Past>>
  BY Unseen, SameQueues DEF Loops

(* Nor does a node's answer to a prompt. *)
LEMMA AnswerUnseen ==
  ASSUME IInv, NEW p \in prompts, NodeAnswers(p)
  PROVE  UNCHANGED <<Waiting, Worked, Past>>
<1>1. UNCHANGED turns
  BY DEF NodeAnswers
<1>2. \A n \in Message : task'[n].at = task[n].at /\ task'[n].batch = task[n].batch
  <2> TAKE n \in Message
  <2>1. task[n] \in Task
    BY TaskType DEF IInv
  <2>2. task'[n] = task[n] \/ \E answer : task'[n] = [task[n] EXCEPT !.reply = answer]
    BY DEF NodeAnswers
  <2> QED  BY <2>1, <2>2 DEF Task
<1> QED  BY <1>1, <1>2, Unseen, SameQueues DEF Loops

----------------------------------------------------------------------------
(* The steps the promise sees. *)

(* The gate's refusal is the promise's TurnAway. *)
LEMMA RefuseTurnsAway ==
  ASSUME IInv, NEW m \in Message, Refuse(m)
  PROVE  Promise!TurnAway(m)
<1>1. /\ task[m].at = "new" /\ task'[m].at = "done"
      /\ \A n \in Message : n # m => task'[n] = task[n]
      /\ UNCHANGED turns
  BY DEF Refuse, TaskAt, IInv, TypeOK
<1>2. /\ \A n \in Message : Loops(n)' <=> Loops(n)
      /\ \A n \in Message : Loops(n) => task'[n] = task[n]
  BY <1>1 DEF Loops, LoopStages
<1>3. /\ \A c \in Conversation : Queue(c)' = Queue(c) /\ Batch(c)' = Batch(c)
      /\ \A b \in Message : ThreadOf[b] \in Conversation
  BY <1>1, <1>2, SameQueues, ThreadAssumption DEF Batch
<1>4. m \notin Past /\ m \notin Queue(ThreadOf[m]) /\ m \notin Batch(ThreadOf[m])
  BY <1>1, NewIsFresh
<1>5. Past' = Past \cup {m}
  BY <1>1, <1>3, <1>4 DEF Past
<1> QED  BY <1>3, <1>4, <1>5 DEF Promise!TurnAway, Promise!Fresh

(* A message to a thread at rest is the promise's Begin. *)
LEMMA StartLoopBegins ==
  ASSUME IInv, NEW m \in Message, StartLoop(m)
  PROVE  Promise!Begin(m)
<1> DEFINE c == ThreadOf[m]
<1>1. /\ task[m].at = "new" /\ task'[m].at = "seating" /\ task'[m].batch = {m}
      /\ \A n \in Message : n # m => task'[n] = task[n]
  BY DEF StartLoop, TaskAt, IInv, TypeOK
<1>2. c \in Conversation /\ ~Busy(c) /\ \A b \in Message : ThreadOf[b] \in Conversation
  BY ThreadAssumption DEF StartLoop
<1>3. turns'[c] = NewTurn /\ \A d \in Conversation : d # c => turns'[d] = turns[d]
  BY <1>2 DEF StartLoop, IInv, TypeOK
<1>4. Loops(m)' /\ ~Loops(m) /\ \A n \in Message : n # m => (Loops(n)' <=> Loops(n))
  BY <1>1 DEF Loops, LoopStages
<1>5. Queue(c) = {} /\ Batch(c) = {}
  BY <1>2, IdleThread
<1>6. \A n \in Message : Loops(n) => ThreadOf[n] # c
  BY <1>2 DEF IInv, OneLoop
<1>7. \A d \in Conversation : Queue(d)' = Queue(d)
  <2>1. Queue(c)' = {}
    BY <1>3 DEF Queue, NewTurn
  <2>2. \A d \in Conversation : d # c => Queue(d)' = Queue(d)
    BY <1>3 DEF Queue, Busy
  <2> QED  BY <1>5, <2>1, <2>2
<1>8. Batch(c)' = {m}
  <2>1. \A n \in Message : Loops(n)' /\ ThreadOf[n] = c <=> n = m
    BY <1>4, <1>6
  <2> QED  BY <1>1, <2>1 DEF Batch
<1>9. \A d \in Conversation : d # c => Batch(d)' = Batch(d)
  BY <1>1, <1>4 DEF Batch
<1>10. m \notin Past /\ m \notin Queue(c) /\ m \notin Batch(c)
  BY <1>1, NewIsFresh
<1>11. Past' = Past
  BY <1>1, <1>2, <1>5, <1>7, <1>8, <1>9, <1>10 DEF Past
<1>12. [d \in Conversation |-> Batch(d)]' = [Worked EXCEPT ![c] = {m}]
  BY <1>2, <1>8, <1>9 DEF Worked
<1> QED
  BY <1>2, <1>5, <1>7, <1>10, <1>11, <1>12 DEF Promise!Begin, Promise!Fresh, Worked

(* A message to a busy thread is the promise's Wait. *)
LEMMA EnqueueWaits ==
  ASSUME IInv, NEW m \in Message, Enqueue(m)
  PROVE  Promise!Wait(m)
<1> DEFINE c == ThreadOf[m]
<1>1. /\ task[m].at = "new" /\ task'[m].at = "done"
      /\ \A n \in Message : n # m => task'[n] = task[n]
  BY DEF Enqueue, TaskAt, IInv, TypeOK
<1>2. /\ c \in Conversation /\ Busy(c) /\ turns[c] \in Running
      /\ \A b \in Message : ThreadOf[b] \in Conversation
  BY ThreadAssumption, BusyType DEF Enqueue, IInv
<1>3. /\ turns'[c] # Idle
      /\ turns'[c].queued = turns[c].queued \cup {m}
      /\ \A d \in Conversation : d # c => turns'[d] = turns[d]
  <2> DEFINE stopped == Interrupted(turns[c], "interrupted")
  <2>1. stopped \in Running
    BY <1>2, InterruptedType DEF Markers
  <2>2. turns' = [turns EXCEPT ![c] =
                    [stopped EXCEPT !.queued = turns[c].queued \cup {m}]]
    BY DEF Enqueue, Joined
  <2> HIDE DEF stopped
  <2>3. turns'[c] = [stopped EXCEPT !.queued = turns[c].queued \cup {m}]
    BY <1>2, <2>2 DEF IInv, TypeOK
  <2>4. \A d \in Conversation : d # c => turns'[d] = turns[d]
    BY <2>2 DEF IInv, TypeOK
  <2>5. turns[c].queued \cup {m} \subseteq Message
    BY <1>2 DEF Running
  <2>6. [stopped EXCEPT !.queued = turns[c].queued \cup {m}] \in Running
    BY <2>1, <2>5 DEF Running
  <2>7. turns'[c].queued = turns[c].queued \cup {m}
    BY <2>1, <2>3 DEF Running
  <2> QED  BY <2>3, <2>4, <2>6, <2>7, IdleAssumption
<1>4. /\ \A n \in Message : Loops(n)' <=> Loops(n)
      /\ \A n \in Message : Loops(n) => task'[n] = task[n]
  BY <1>1 DEF Loops, LoopStages
<1>5. \A d \in Conversation : Batch(d)' = Batch(d)
  BY <1>4 DEF Batch
<1>6. Queue(c)' = Queue(c) \cup {m} /\ \A d \in Conversation : d # c => Queue(d)' = Queue(d)
  BY <1>2, <1>3 DEF Queue, Busy
<1>7. Batch(c) # {}
  <2>1. PICK n \in Message : Loops(n) /\ ThreadOf[n] = c
    BY <1>2 DEF IInv, OneLoop
  <2> QED  BY <2>1, LoopBatch DEF IInv, NothingLost, BatchOK
<1>8. m \notin Past /\ m \notin Queue(c) /\ m \notin Batch(c)
  BY <1>1, NewIsFresh
<1>9. Past' = Past
  BY <1>1, <1>2, <1>5, <1>6, <1>8 DEF Past
<1>10. [d \in Conversation |-> Queue(d)]' = [Waiting EXCEPT ![c] = @ \cup {m}]
  BY <1>2, <1>6 DEF Waiting
<1> QED
  BY <1>2, <1>5, <1>7, <1>8, <1>9, <1>10 DEF Promise!Wait, Promise!Fresh, Waiting

(* /stop is the promise's DropWaiting. *)
LEMMA StopDrops ==
  ASSUME IInv, NEW c \in Conversation, Stop(c)
  PROVE  Promise!DropWaiting(c)
<1>1. /\ Busy(c) /\ turns[c] \in Running /\ UNCHANGED task
      /\ \A b \in Message : ThreadOf[b] \in Conversation
  BY BusyType, ThreadAssumption DEF Stop, IInv
<1>2. /\ turns'[c] # Idle /\ turns'[c].queued = {}
      /\ \A d \in Conversation : d # c => turns'[d] = turns[d]
  <2> DEFINE stopped == Interrupted(turns[c], "stopped")
  <2>1. stopped \in Running
    BY <1>1, InterruptedType DEF Markers
  <2>2. turns' = [turns EXCEPT ![c] = [stopped EXCEPT !.queued = {}]]
    BY DEF Stop
  <2> HIDE DEF stopped
  <2>3. turns'[c] = [stopped EXCEPT !.queued = {}]
    BY <2>2 DEF IInv, TypeOK
  <2>4. \A d \in Conversation : d # c => turns'[d] = turns[d]
    BY <2>2 DEF IInv, TypeOK
  <2>5. [stopped EXCEPT !.queued = {}] \in Running
    BY <2>1 DEF Running
  <2> QED  BY <2>1, <2>3, <2>4, <2>5, IdleAssumption DEF Running
<1>3. \A d \in Conversation : Batch(d)' = Batch(d)
  BY <1>1 DEF Batch, Loops
<1>4. Queue(c)' = {} /\ \A d \in Conversation : d # c => Queue(d)' = Queue(d)
  BY <1>2 DEF Queue, Busy
<1>5. \A b \in Queue(c) : /\ b \in Message /\ ThreadOf[b] = c /\ task[b].at # "new"
                          /\ b \notin Batch(c)
  <2>1. PICK n \in Message : Loops(n) /\ ThreadOf[n] = c
    BY <1>1 DEF IInv, OneLoop
  <2>2. Batch(c) \cap Queue(c) = {}
    BY <1>1, <2>1, LoopBatch DEF Queue, IInv, NothingLost, BatchOK
  <2> QED  BY <1>1, <2>2, BusyType DEF Queue, IInv, QueueOK
<1>6. Past' = Past \cup Queue(c)
  BY <1>1, <1>3, <1>4, <1>5 DEF Past
<1>7. [d \in Conversation |-> Queue(d)]' = [Waiting EXCEPT ![c] = {}]
  BY <1>4 DEF Waiting
<1> QED  BY <1>3, <1>6, <1>7 DEF Promise!DropWaiting, Waiting

(* Taking the queue is the promise's NextBatch, or its end. *)
LEMMA TakeQueueIsNextBatch ==
  ASSUME IInv, NEW m \in Message, TakeQueue(m)
  PROVE  Promise!NextBatch(ThreadOf[m])
<1> DEFINE c == ThreadOf[m]
           queue == turns[c].queued
<1>1. Loops(m) /\ task[m].at = "closing" /\ \A b \in Message : ThreadOf[b] \in Conversation
  BY ThreadAssumption DEF TakeQueue, Loops, LoopStages
<1>2. c \in Conversation /\ Busy(c) /\ queue \subseteq Message /\ BatchOK(m)
  BY <1>1, LoopFacts, BusyType DEF IInv, NothingLost
<1>3. /\ turns'[c] = IF queue = {} THEN Idle ELSE NewTurn
      /\ \A d \in Conversation : d # c => turns'[d] = turns[d]
  BY <1>2 DEF TakeQueue, EntryAfter, IInv, TypeOK
<1>4. /\ task'[m].at = IF queue = {} THEN "done" ELSE "seating"
      /\ task'[m].batch = queue
      /\ \A n \in Message : n # m => task'[n] = task[n]
  BY DEF TakeQueue, TaskAt, IInv, TypeOK
<1>5. /\ Loops(m)' <=> queue # {}
      /\ \A n \in Message : n # m => (Loops(n)' <=> Loops(n))
      /\ \A n \in Message : task'[n].at # "new" <=> task[n].at # "new"
  BY <1>1, <1>4 DEF Loops, LoopStages
<1>6. \A n \in Message : Loops(n) /\ n # m => ThreadOf[n] # c
  BY <1>1 DEF IInv, OneLoop
<1>7. /\ Queue(c) = queue /\ Batch(c) = task[m].batch
      /\ Batch(c) # {} /\ Batch(c) \cap queue = {}
  BY <1>1, <1>2, LoopBatch DEF Queue, BatchOK
<1>8. Queue(c)' = {} /\ \A d \in Conversation : d # c => Queue(d)' = Queue(d)
  BY <1>3 DEF Queue, Busy, NewTurn
<1>9. Batch(c)' = queue
  <2>1. CASE queue = {}
    <3>1. \A n \in Message : Loops(n)' => ThreadOf[n] # c
      BY <1>5, <1>6, <2>1
    <3> QED  BY <2>1, <3>1 DEF Batch
  <2>2. CASE queue # {}
    <3>1. \A n \in Message : Loops(n)' /\ ThreadOf[n] = c <=> n = m
      BY <1>5, <1>6, <2>2
    <3> QED  BY <1>4, <3>1 DEF Batch
  <2> QED  BY <2>1, <2>2
<1>10. \A d \in Conversation : d # c => Batch(d)' = Batch(d)
  BY <1>4, <1>5 DEF Batch
<1>11. /\ \A b \in Batch(c) : b \in Message /\ ThreadOf[b] = c /\ task[b].at # "new"
       /\ \A b \in queue : ThreadOf[b] = c /\ task[b].at # "new"
  <2>1. task[m].batch \subseteq Message
    BY TaskType DEF IInv
  <2>2. \A b \in task[m].batch : task[b].at # "new"
    BY <1>1 DEF IInv, StageOK, LoopOK
  <2>3. \A b \in queue : ThreadOf[b] = c /\ task[b].at # "new"
    BY <1>2 DEF IInv, QueueOK
  <2> QED  BY <1>2, <1>7, <2>1, <2>2, <2>3 DEF BatchOK
<1>12. Past' = Past \cup Batch(c)
  BY <1>1, <1>5, <1>7, <1>8, <1>9, <1>10, <1>11 DEF Past
<1>13. [d \in Conversation |-> Batch(d)]' = [Worked EXCEPT ![c] = queue]
  BY <1>9, <1>10 DEF Worked
<1>14. [d \in Conversation |-> Queue(d)]' = [Waiting EXCEPT ![c] = {}]
  BY <1>8 DEF Waiting
<1> QED
  BY <1>2, <1>7, <1>12, <1>13, <1>14 DEF Promise!NextBatch, Waiting, Worked

----------------------------------------------------------------------------
(* The turn loop keeps the promise of SerialThreads: a thread works on one *)
(* batch at a time, what is written meanwhile is the next batch, whole,    *)
(* unless /stop drops it, and no message is worked on twice.               *)
THEOREM KeepsThePromise == Spec => Serial
<1>1. Init => Promise!Init
  <2> SUFFICES ASSUME Init PROVE Promise!Init
    OBVIOUS
  <2>1. \A m \in Message : task[m].at = "new" /\ ~Loops(m)
    BY DEF Init, TaskAt, Loops, LoopStages
  <2>2. \A c \in Conversation : Queue(c) = {} /\ Batch(c) = {}
    BY <2>1 DEF Init, Queue, Busy, Batch
  <2>3. Past = {}
    BY <2>1 DEF Past
  <2> QED  BY <2>2, <2>3 DEF Promise!Init
<1>2. IInv /\ [Next]_vars => [Promise!Next]_(Promise!vars)
  <2> SUFFICES ASSUME IInv, [Next]_vars
               PROVE  Promise!Next \/ UNCHANGED Promise!vars
    OBVIOUS
  <2>1. ASSUME UNCHANGED <<Waiting, Worked, Past>> PROVE UNCHANGED Promise!vars
    BY <2>1 DEF Promise!vars, Waiting, Worked
  <2>2. ASSUME NEW m \in Message, Refuse(m) \/ StartLoop(m) \/ Enqueue(m)
        PROVE  Promise!Next
    BY <2>2, RefuseTurnsAway, StartLoopBegins, EnqueueWaits DEF Promise!Next
  <2>3. ASSUME NEW c \in Conversation, Stop(c) PROVE Promise!Next
    BY <2>3, StopDrops DEF Promise!Next
  <2>4. ASSUME NEW m \in Message, TakeQueue(m) PROVE Promise!Next
    BY <2>4, TakeQueueIsNextBatch, ThreadAssumption DEF Promise!Next
  <2>5. ASSUME NEW m \in Message, LoopStep(m) \/ LinkLost(m) \/ StreamStalls(m),
               ~TakeQueue(m)
        PROVE  UNCHANGED Promise!vars
    BY <2>1, <2>5, LoopUnseen DEF LoopStep
  <2>6. ASSUME NEW s \in Session, DeliverCancel(s) \/ NodeFinishes(s)
        PROVE  UNCHANGED Promise!vars
    BY <2>1, <2>6, AsideUnseen DEF DeliverCancel, NodeFinishes
  <2>7. ASSUME NEW p \in prompts, NodeAnswers(p) PROVE UNCHANGED Promise!vars
    BY <2>1, <2>7, AnswerUnseen
  <2>8. CASE UNCHANGED vars
    BY <2>1, <2>8, AsideUnseen DEF vars
  <2> QED  BY <2>2, <2>3, <2>4, <2>5, <2>6, <2>7, <2>8 DEF Next
<1> QED  BY <1>1, <1>2, Invariance, PTL DEF Spec, Serial, Promise!Spec
=============================================================================
