--------------------------- MODULE SerialThreads ---------------------------
(***************************************************************************)
(* What a conversation promises the people in it, without the machinery:   *)
(* one batch of messages is worked on at a time; what is written meanwhile *)
(* waits, and is worked on next as one batch, whole, unless it is dropped; *)
(* and no message is worked on twice.                                      *)
(***************************************************************************)
CONSTANTS Conversation, Message, ThreadOf

VARIABLES
  waiting,   \* Conversation -> messages written during a turn
  batch,     \* Conversation -> messages being worked on, {} when idle
  past       \* messages done with

vars == <<waiting, batch, past>>

Fresh(m) ==
  /\ m \notin past
  /\ m \notin waiting[ThreadOf[m]]
  /\ m \notin batch[ThreadOf[m]]

Init ==
  /\ waiting = [c \in Conversation |-> {}]
  /\ batch   = [c \in Conversation |-> {}]
  /\ past    = {}

TurnAway(m) ==
  /\ Fresh(m)
  /\ past' = past \cup {m}
  /\ UNCHANGED <<waiting, batch>>

Begin(m) ==
  /\ Fresh(m)
  /\ batch[ThreadOf[m]] = {}
  /\ waiting[ThreadOf[m]] = {}
  /\ batch' = [batch EXCEPT ![ThreadOf[m]] = {m}]
  /\ UNCHANGED <<waiting, past>>

Wait(m) ==
  /\ Fresh(m)
  /\ batch[ThreadOf[m]] # {}
  /\ waiting' = [waiting EXCEPT ![ThreadOf[m]] = @ \cup {m}]
  /\ UNCHANGED <<batch, past>>

DropWaiting(c) ==
  /\ past' = past \cup waiting[c]
  /\ waiting' = [waiting EXCEPT ![c] = {}]
  /\ UNCHANGED batch

NextBatch(c) ==
  /\ batch[c] # {}
  /\ past' = past \cup batch[c]
  /\ batch' = [batch EXCEPT ![c] = waiting[c]]
  /\ waiting' = [waiting EXCEPT ![c] = {}]

Next ==
  \/ \E m \in Message : TurnAway(m) \/ Begin(m) \/ Wait(m)
  \/ \E c \in Conversation : DropWaiting(c) \/ NextBatch(c)

Spec == Init /\ [][Next]_vars
=============================================================================
