------------------------------- MODULE Pins --------------------------------
(***************************************************************************)
(* Where a thread runs (`seat`, `forget`, `move_thread`, `on_fleet` of     *)
(* crates/murtaugh-gateway/src/chat.rs, over the pins of the store): the   *)
(* thread's turns, one after another, the clicks on /node's menu and the   *)
(* departures of nodes, each a task of its own, read and write one pin     *)
(* with awaits in between.                                                 *)
(*                                                                         *)
(* One thread.  Its sessions are numbered as the nodes open them.  Whom a  *)
(* node admits is left out: every node takes the thread's people.          *)
(***************************************************************************)
EXTENDS Naturals, Sequences, FiniteSets

CONSTANTS
  Node,
  Mover,        \* the clicks that are being handled at one time
  NoNode,
  MaxMessages,  \* bounds the model: messages of the thread,
  MaxMoves,     \* choices made on the menu,
  MaxLosses,    \* nodes lost or disabled,
  MaxFaults     \* calls of the store, of Slack or of a node that fail

NodeAssumption == NoNode \notin Node
BoundsAssumption == {MaxMessages, MaxMoves, MaxLosses, MaxFaults} \subseteq Nat

VARIABLES
  pin,        \* the session the thread is pinned to, or NoSession
  home,       \* the node of each session
  alive,      \* the sessions their nodes know
  status,     \* Node -> how it stands
  moved,      \* the thread is to catch up in the session it was moved to
  orphaned,   \* the thread lost its machine
  seat,       \* the turn that is being seated
  mover,      \* Mover -> where the click's handler is
  leaving,    \* Node -> where the handler of its departure is
  spoke,      \* the sessions that accepted a prompt
  caughtUp,   \* the sessions that were given the thread, or were there from its start
  excused,    \* the sessions that something named below kept from it
  promise,    \* the session the people were told the thread runs in, undisturbed since
  used        \* [messages, moves, losses, faults]

vars == <<pin, home, alive, status, moved, orphaned, seat, mover, leaving,
          spoke, caughtUp, excused, promise, used>>

(* What people were promised, and what a session has been told. *)
ghosts == <<spoke, caughtUp, excused, promise>>

NoSession == 0
Sessions  == 1 .. Len(home)
HomeOf(s) == IF s = NoSession THEN NoNode ELSE home[s]

Statuses  == {"here", "off", "lost", "gone"}   \* off: disabled
Connected(n) == status[n] \in {"here", "off"}
Live(n)      == n # NoNode /\ status[n] = "here"

Idle  == [at |-> "idle", reply |-> FALSE, read |-> NoSession, node |-> NoNode,
          session |-> NoSession, history |-> FALSE, retried |-> FALSE, under |-> NoSession]
Still == [at |-> "idle", read |-> NoSession, node |-> NoNode, session |-> NoSession]
Stays == [at |-> "idle", saw |-> NoSession]

Counts(what)  == used' = [used EXCEPT ![what] = @ + 1]
MaySpend(what) ==
  used[what] < [messages |-> MaxMessages, moves |-> MaxMoves,
                losses |-> MaxLosses, faults |-> MaxFaults][what]

(* A call fails, or it does not. *)
Fails    == MaySpend("faults") /\ Counts("faults")
Succeeds == UNCHANGED used

Init ==
  /\ pin       = NoSession
  /\ home      = <<>>
  /\ alive     = {}
  /\ status    = [n \in Node |-> "here"]
  /\ moved     = FALSE
  /\ orphaned  = FALSE
  /\ seat      = Idle
  /\ mover     = [m \in Mover |-> Still]
  /\ leaving   = [n \in Node |-> Stays]
  /\ spoke     = {}
  /\ caughtUp  = {}
  /\ excused   = {}
  /\ promise   = NoSession
  /\ used      = [messages |-> 0, moves |-> 0, losses |-> 0, faults |-> 0]

SeatAt(stage)     == seat.at = stage
MoverAt(m, stage) == mover[m].at = stage

(* `open_session`: a connected node opens one. *)
Opens(n) ==
  /\ Connected(n)
  /\ home'  = Append(home, n)
  /\ alive' = alive \cup {Len(home')}

----------------------------------------------------------------------------
(* A turn takes its seat: `converse` and `seat` *)

(* A message starts the turn.  The first starts the thread: it has no      *)
(* thread_ts.                                                              *)
Takes ==
  /\ SeatAt("idle")
  /\ MaySpend("messages") /\ Counts("messages")
  /\ seat' = [Idle EXCEPT !.at = "reading", !.reply = used.messages > 0, !.under = promise]
  /\ UNCHANGED <<pin, home, alive, status, moved, orphaned, mover, leaving, ghosts>>

(* The session a mover pinned and is about to mark `moved` for. *)
Marking == {mover[m].session : m \in {o \in Mover : MoverAt(o, "marking")}}

(* The pin is read: none, if the store fails. *)
Reads ==
  /\ SeatAt("reading")
  /\ \/ /\ Succeeds /\ UNCHANGED promise
        /\ seat' = [seat EXCEPT !.at = "deciding", !.read = pin]
     \/ /\ Fails /\ promise' = NoSession
        /\ seat' = [seat EXCEPT !.at = "deciding", !.read = NoSession]
  /\ excused' = excused \cup Marking
  /\ UNCHANGED <<pin, home, alive, status, moved, orphaned, mover, leaving,
                 spoke, caughtUp>>

(* `history`: the thread, if it can be read. *)
History(wanted, got) ==
  \/ Succeeds /\ got = wanted
  \/ wanted /\ Fails /\ ~got

(* The pinned node is connected and enabled: the turn goes to its session, *)
(* with the thread if the thread was moved there.                          *)
Resumes ==
  /\ SeatAt("deciding")
  /\ Live(HomeOf(seat.read))
  /\ moved' = FALSE
  /\ \E got \in BOOLEAN :
       /\ History(moved, got)
       /\ seat' = [seat EXCEPT !.at = "prompting", !.node = HomeOf(seat.read),
                               !.session = seat.read, !.history = got]
  /\ excused' = IF moved /\ ~seat'.history THEN excused \cup {seat.read} ELSE excused
  /\ UNCHANGED <<pin, home, alive, status, orphaned, mover, leaving, spoke, caughtUp, promise>>

(* It is not: the pin, whichever it is by now, is removed. *)
Drops ==
  /\ SeatAt("deciding")
  /\ seat.read # NoSession
  /\ ~Live(HomeOf(seat.read))
  /\ \/ Succeeds /\ pin' = NoSession
     \/ Fails    /\ pin' = pin
  /\ orphaned' = TRUE
  /\ seat' = [seat EXCEPT !.at = "deciding", !.read = NoSession]
  /\ UNCHANGED <<home, alive, status, moved, mover, leaving, ghosts>>

CatchesUp == seat.reply \/ orphaned

(* `assign`, and the thread is read for the node. *)
Assigns ==
  /\ SeatAt("deciding")
  /\ seat.read = NoSession
  /\ \E n \in {o \in Node : Live(o)}, got \in BOOLEAN :
       /\ History(CatchesUp, got)
       /\ seat' = [seat EXCEPT !.at = "opening", !.node = n, !.history = got]
  /\ orphaned' = FALSE
  /\ UNCHANGED <<pin, home, alive, status, moved, mover, leaving, ghosts>>

NoMachine ==
  /\ SeatAt("deciding")
  /\ seat.read = NoSession
  /\ \A n \in Node : ~Live(n)
  /\ seat' = Idle
  /\ UNCHANGED <<pin, home, alive, status, moved, orphaned, mover, leaving, ghosts, used>>

SeatOpens ==
  /\ SeatAt("opening")
  /\ Opens(seat.node)
  /\ seat' = [seat EXCEPT !.at = "pinning", !.session = Len(home')]
  /\ excused' = IF seat.reply /\ ~seat.history THEN excused \cup {Len(home')} ELSE excused
  /\ UNCHANGED <<pin, status, moved, orphaned, mover, leaving, spoke, caughtUp, promise, used>>

SeatCannotOpen ==
  /\ SeatAt("opening")
  /\ \/ ~Connected(seat.node) /\ Succeeds
     \/ Fails
  /\ seat' = Idle
  /\ UNCHANGED <<pin, home, alive, status, moved, orphaned, mover, leaving, ghosts>>

SeatPins ==
  /\ SeatAt("pinning")
  /\ \/ Succeeds /\ pin' = seat.session
     \/ Fails    /\ pin' = pin
  /\ seat' = [seat EXCEPT !.at = "prompting"]
  /\ UNCHANGED <<home, alive, status, moved, orphaned, mover, leaving, ghosts>>

(* The prompt is accepted, with the thread if it was to have it. *)
Accepts ==
  /\ SeatAt("prompting")
  /\ Connected(seat.node)
  /\ seat.session \in alive
  /\ spoke' = spoke \cup {seat.session}
  /\ caughtUp' = IF seat.history \/ ~seat.reply
                 THEN caughtUp \cup {seat.session} ELSE caughtUp
  /\ seat' = Idle
  /\ UNCHANGED <<pin, home, alive, status, moved, orphaned, mover, leaving,
                 excused, promise, used>>

(* The node was restarted since: the pin is forgotten and the turn takes a *)
(* seat again, once.                                                       *)
Forgets ==
  /\ SeatAt("prompting")
  /\ Connected(seat.node)
  /\ seat.session \notin alive
  /\ ~seat.retried
  /\ \/ Succeeds /\ pin' = NoSession
     \/ Fails    /\ pin' = pin
  /\ seat' = [Idle EXCEPT !.at = "reading", !.reply = seat.reply, !.retried = TRUE,
                          !.under = seat.under]
  /\ UNCHANGED <<home, alive, status, moved, orphaned, mover, leaving, ghosts>>

(* The node went, refused the prompt again, or kept silent for             *)
(* PROMPT_TIMEOUT: the turn ends, and the session keeps the pin.           *)
NotTaken ==
  /\ SeatAt("prompting")
  /\ \/ ~Connected(seat.node) /\ Succeeds
     \/ Connected(seat.node) /\ seat.session \notin alive /\ seat.retried /\ Succeeds
     \/ Fails
  /\ excused' = IF seat.session \in spoke THEN excused ELSE excused \cup {seat.session}
  /\ seat' = Idle
  /\ UNCHANGED <<pin, home, alive, status, moved, orphaned, mover, leaving,
                 spoke, caughtUp, promise>>

----------------------------------------------------------------------------
(* /node's menu: `move_thread` *)

(* A node that is there is chosen, and the pin read. *)
Chooses(m, n) ==
  /\ MoverAt(m, "idle")
  /\ Live(n)
  /\ MaySpend("moves") /\ Counts("moves")
  /\ mover' = [mover EXCEPT ![m] =
                 [Still EXCEPT !.at = "reading", !.node = n]]
  /\ promise' = NoSession
  /\ UNCHANGED <<pin, home, alive, status, moved, orphaned, seat, leaving,
                 spoke, caughtUp, excused>>

(* "already running on" it, a store that fails, or the move goes on. *)
MoverReads(m) ==
  /\ MoverAt(m, "reading")
  /\ \/ /\ Succeeds
        /\ mover' = [mover EXCEPT ![m] =
             IF HomeOf(pin) = @.node THEN Still
             ELSE [@ EXCEPT !.at = IF pin = NoSession THEN "opening" ELSE "removing",
                            !.read = pin]]
     \/ /\ Fails
        /\ mover' = [mover EXCEPT ![m] = Still]
  /\ UNCHANGED <<pin, home, alive, status, moved, orphaned, seat, leaving, ghosts>>

MoverRemoves(m) ==
  /\ MoverAt(m, "removing")
  /\ \/ Succeeds /\ pin' = NoSession
     \/ Fails    /\ pin' = pin
  /\ mover' = [mover EXCEPT ![m].at = "opening"]
  /\ UNCHANGED <<home, alive, status, moved, orphaned, seat, leaving, ghosts>>

MoverOpens(m) ==
  /\ MoverAt(m, "opening")
  /\ Opens(mover[m].node)
  /\ mover' = [mover EXCEPT ![m].at = "pinning", ![m].session = Len(home')]
  /\ UNCHANGED <<pin, status, moved, orphaned, seat, leaving, ghosts, used>>

MoverCannotOpen(m) ==
  /\ MoverAt(m, "opening")
  /\ \/ ~Connected(mover[m].node) /\ Succeeds
     \/ Fails
  /\ mover' = [mover EXCEPT ![m] = Still]
  /\ UNCHANGED <<pin, home, alive, status, moved, orphaned, seat, leaving, ghosts>>

MoverPins(m) ==
  /\ MoverAt(m, "pinning")
  /\ \/ Succeeds /\ pin' = mover[m].session
     \/ Fails    /\ pin' = pin
  /\ mover' = [mover EXCEPT ![m].at = "marking"]
  /\ UNCHANGED <<home, alive, status, moved, orphaned, seat, leaving, ghosts>>

(* A bug's: a pinned thread is never caught up. *)
MarksNothing == moved

Marks == TRUE

(* No other task is about to write the pin. *)
Undisturbed(m) ==
  /\ SeatAt("idle")
  /\ \A o \in Mover \ {m} : MoverAt(o, "idle")
  /\ leaving[mover[m].node].at = "idle"
  /\ status[mover[m].node] = "here"
  /\ mover[m].session \in alive

(* The store's answer is in: the thread is to catch up, and the people are *)
(* told where it runs now.                                                 *)
MoverMarks(m) ==
  /\ MoverAt(m, "marking")
  /\ moved' = Marks
  /\ excused' = IF SeatAt("idle") THEN excused ELSE excused \cup {mover[m].session}
  /\ promise' = IF Undisturbed(m) /\ pin = mover[m].session THEN pin ELSE NoSession
  /\ mover' = [mover EXCEPT ![m] = Still]
  /\ UNCHANGED <<pin, home, alive, status, orphaned, seat, leaving, spoke, caughtUp, used>>

----------------------------------------------------------------------------
(* Nodes come and go.  The hub drops a node that stays away, and tells.    *)

Loses(n, to) ==
  /\ status[n] = "here"
  /\ MaySpend("losses") /\ Counts("losses")
  /\ status' = [status EXCEPT ![n] = to]
  /\ promise' = IF HomeOf(promise) = n THEN NoSession ELSE promise
  /\ UNCHANGED <<pin, home, alive, moved, orphaned, seat, mover, leaving,
                 spoke, caughtUp, excused>>

(* It comes back, with its sessions or restarted without. *)
Returns(n) ==
  /\ status[n] # "here"
  /\ status' = [status EXCEPT ![n] = "here"]
  /\ \/ UNCHANGED alive
     \/ status[n] # "off" /\ alive' = {s \in alive : home[s] # n}
  /\ UNCHANGED <<pin, home, moved, orphaned, seat, mover, leaving, ghosts, used>>

(* `on_fleet` is spawned for the departure. *)
Departs(n) ==
  /\ status[n] = "lost"
  /\ leaving[n] = Stays   \* bounds the model
  /\ status'  = [status EXCEPT ![n] = "gone"]
  /\ leaving' = [leaving EXCEPT ![n].at = "querying"]
  /\ UNCHANGED <<pin, home, alive, moved, orphaned, seat, mover, ghosts, used>>

(* `remove_pins_on`: the pins on the node are read, *)
Queries(n) ==
  /\ leaving[n].at = "querying"
  /\ \/ /\ Succeeds
        /\ leaving' = [leaving EXCEPT ![n] =
             IF HomeOf(pin) = n THEN [at |-> "deleting", saw |-> pin] ELSE Stays]
     \/ /\ Fails
        /\ leaving' = [leaving EXCEPT ![n] = Stays]
  /\ UNCHANGED <<pin, home, alive, status, moved, orphaned, seat, mover, ghosts>>

(* A bug's: the document is deleted whatever it holds by now. *)
DeletesAny(n) == TRUE

DeletesSame(n) == pin = leaving[n].saw

(* and each deleted unless it was written since.                           *)
Deletes(n) ==
  /\ leaving[n].at = "deleting"
  /\ IF DeletesSame(n)
     THEN /\ pin' = NoSession
          /\ leaving' = [leaving EXCEPT ![n].at = "orphaning"]
     ELSE UNCHANGED pin /\ leaving' = [leaving EXCEPT ![n] = Stays]
  /\ UNCHANGED <<home, alive, status, moved, orphaned, seat, mover, ghosts, used>>

Orphans(n) ==
  /\ leaving[n].at = "orphaning"
  /\ orphaned' = TRUE
  /\ leaving' = [leaving EXCEPT ![n] = Stays]
  /\ UNCHANGED <<pin, home, alive, status, moved, seat, mover, ghosts, used>>

----------------------------------------------------------------------------
SeatStep ==
  \/ Takes \/ Reads \/ Resumes \/ Drops \/ Assigns \/ NoMachine \/ SeatOpens
  \/ SeatCannotOpen \/ SeatPins \/ Accepts \/ Forgets \/ NotTaken

MoverStep(m) ==
  \/ \E n \in Node : Chooses(m, n)
  \/ MoverReads(m) \/ MoverRemoves(m) \/ MoverOpens(m) \/ MoverCannotOpen(m)
  \/ MoverPins(m) \/ MoverMarks(m)

NodeStep(n) ==
  \/ \E to \in {"lost", "off"} : Loses(n, to)
  \/ Returns(n) \/ Departs(n) \/ Queries(n) \/ Deletes(n) \/ Orphans(n)

Next ==
  \/ SeatStep
  \/ \E m \in Mover : MoverStep(m)
  \/ \E n \in Node : NodeStep(n)

Spec == Init /\ [][Next]_vars

----------------------------------------------------------------------------
(* Properties *)

(* Every variable keeps its type, and what is named of a session is of one *)
(* that was opened.                                                        *)
TypeOK ==
  /\ home \in Seq(Node)
  /\ pin \in Sessions \cup {NoSession}
  /\ alive \cup spoke \cup caughtUp \cup excused \subseteq Sessions
  /\ status \in [Node -> Statuses]
  /\ moved \in BOOLEAN /\ orphaned \in BOOLEAN
  /\ seat.session \in Sessions \cup {NoSession}
  /\ \A m \in Mover : mover[m].session \in Sessions \cup {NoSession}
  /\ promise \in Sessions \cup {NoSession}

(* A session speaks of the thread knowing it: whichever way the thread     *)
(* came to run there, the first prompt it accepted told it what was said   *)
(* before.  Excused are the sessions for which the thread could not be     *)
(* read or the first prompt failed, and those a mover pinned while a turn  *)
(* was being seated.                                                       *)
SpeaksInformed == spoke \subseteq caughtUp \cup excused

(* Once the people are told that the thread runs on a machine, with no     *)
(* turn being seated, no other move and no departure of the machine under  *)
(* way, a message sent after that is accepted there, while the machine     *)
(* stays and the store can be read: whatever the departure of another one, *)
(* handled late, takes away.                                               *)
MoveSticks ==
  SeatAt("prompting") /\ seat.under # NoSession /\ seat.under = promise
    => seat.session = promise

(* "It will catch up from the thread on your next message": a session the  *)
(* thread was moved to knows the thread when it accepts a prompt, if the   *)
(* thread could be read.  The violated run has no faults.                  *)
MovedCatchesUp ==
  \A s \in spoke : s \in caughtUp
=============================================================================
