----------------------------- MODULE Workloads -----------------------------
(***************************************************************************)
(* POST /api/v1/workloads (crates/murtaugh-gateway/src/workloads.rs, with  *)
(* `start_workload` and `is_busy` of chat.rs): a client's request starts a *)
(* run in a Slack thread, unless its Idempotency-Key names one.            *)
(*                                                                         *)
(* Requests are handled concurrently, each over several awaits; a client   *)
(* that goes away cancels its request's handler at one of them.  A run is  *)
(* named by the request that started it.                                   *)
(***************************************************************************)
CONSTANTS
  Request,
  Thread,
  Key,
  KeyOf,      \* Request -> its Idempotency-Key, or None
  TargetOf,   \* Request -> the thread to continue, or None for a new one
  None

RequestAssumption ==
  /\ KeyOf \in [Request -> Key \cup {None}]
  /\ TargetOf \in [Request -> Thread \cup {None}]
NoneAssumption == None \notin Key \cup Thread \cup Request

VARIABLES
  request,    \* Request -> where its handler is
  answer,     \* Request -> the run it was answered with
  started,    \* Key -> the run remembered for it
  runs,       \* the runs started
  arriving,   \* the runs whose message was not handed to its thread yet
  turns,      \* the threads with a turn under way
  barged,     \* the runs accepted into a thread with a turn under way
  crossed,    \* the keys that requests used at once
  lapsed,     \* the keys that IDEMPOTENCY_TTL passed for
  forgotten   \* the keys that a restart forgot

vars == <<request, answer, started, runs, arriving, turns, barged, crossed, lapsed, forgotten>>

(* What a key may have met by which it names no run, or two. *)
doubts == <<crossed, lapsed, forgotten>>

Stages == {"new", "checking", "posting", "accepted", "refused", "gone"}
Open   == {"checking", "posting"}

At(q, stage) == request[q] = stage
Moves(q, stage) == request' = [request EXCEPT ![q] = stage]

Init ==
  /\ request  = [q \in Request |-> "new"]
  /\ answer   = [q \in Request |-> None]
  /\ started  = [k \in Key |-> None]
  /\ runs     = {}
  /\ arriving = {}
  /\ turns    = {}
  /\ barged   = {}
  /\ crossed  = {}
  /\ lapsed   = {}
  /\ forgotten = {}

----------------------------------------------------------------------------
(* `accept` *)

(* The run the key names, within IDEMPOTENCY_TTL of its start. *)
Remembered(q) == IF KeyOf[q] = None THEN None ELSE started[KeyOf[q]]

Overlaps(q) == \E p \in Request : KeyOf[p] = KeyOf[q] /\ request[p] \in Open

(* A bug's: any request with a key is answered from it. *)
KnownByKey(q) == KeyOf[q] # None

(* A run was started for the key: it is the answer. *)
Known(q) == Remembered(q) # None

(* A token without the scope, a bad body: refused before anything else. *)
Receive(q) ==
  /\ At(q, "new")
  /\ \/ Known(q)  /\ Moves(q, "accepted")
     \/ ~Known(q) /\ Moves(q, "checking")
     \/ Moves(q, "refused")
  /\ answer' = IF request'[q] = "accepted"
               THEN [answer EXCEPT ![q] = Remembered(q)] ELSE answer
  /\ crossed' = IF KeyOf[q] # None /\ Overlaps(q)
                THEN crossed \cup {KeyOf[q]} ELSE crossed
  /\ UNCHANGED <<started, runs, arriving, turns, barged, lapsed, forgotten>>

IsBusy(q) == TargetOf[q] \in turns

(* A bug's: the key is taken before there is a run. *)
RememberedEarly(q) ==
  IF KeyOf[q] = None THEN started ELSE [started EXCEPT ![KeyOf[q]] = q]

RememberedWhenChecked(q) == started

(* Slack knew the target; the thread is not busy, and a node is there. *)
Checked(q) ==
  /\ At(q, "checking")
  /\ ~IsBusy(q)
  /\ Moves(q, "posting")
  /\ started' = RememberedWhenChecked(q)
  /\ UNCHANGED <<answer, runs, arriving, turns, barged, doubts>>

(* Any check fails, the busy one or another, or the post does. *)
Refuse(q) ==
  /\ request[q] \in Open
  /\ Moves(q, "refused")
  /\ UNCHANGED <<answer, started, runs, arriving, turns, barged, doubts>>

(* A bug's: nothing is remembered of a run in a new thread. *)
RemembersContinued(q) ==
  IF KeyOf[q] = None \/ TargetOf[q] = None THEN started
  ELSE [started EXCEPT ![KeyOf[q]] = q]

Remembers(q) ==
  IF KeyOf[q] = None THEN started ELSE [started EXCEPT ![KeyOf[q]] = q]

(* The opening message is posted: the run is spawned, remembered, and the  *)
(* client told, with no await in between.                                  *)
Start(q) ==
  /\ At(q, "posting")
  /\ runs'     = runs \cup {q}
  /\ arriving' = arriving \cup {q}
  /\ started'  = Remembers(q)
  /\ answer'   = [answer EXCEPT ![q] = q]
  /\ barged'   = IF IsBusy(q) THEN barged \cup {q} ELSE barged
  /\ Moves(q, "accepted")
  /\ UNCHANGED <<turns, doubts>>

ClientGoes(q) ==
  /\ request[q] \in Open
  /\ Moves(q, "gone")
  /\ UNCHANGED <<answer, started, runs, arriving, turns, barged, doubts>>

----------------------------------------------------------------------------
(* What goes on around it *)

(* The run's message reaches its thread: it starts a turn, or interrupts   *)
(* the one under way.                                                      *)
Arrives(q) ==
  /\ q \in arriving
  /\ arriving' = arriving \ {q}
  /\ turns' = IF TargetOf[q] = None THEN turns ELSE turns \cup {TargetOf[q]}
  /\ UNCHANGED <<request, answer, started, runs, barged, doubts>>

TurnBegins(t) ==
  /\ t \notin turns
  /\ turns' = turns \cup {t}
  /\ UNCHANGED <<request, answer, started, runs, arriving, barged, doubts>>

TurnEnds(t) ==
  /\ t \in turns
  /\ turns' = turns \ {t}
  /\ UNCHANGED <<request, answer, started, runs, arriving, barged, doubts>>

Expires(k) ==
  /\ started[k] # None
  /\ started'  = [started EXCEPT ![k] = None]
  /\ lapsed'   = lapsed \cup {k}
  /\ UNCHANGED <<request, answer, runs, arriving, turns, barged, crossed, forgotten>>

(* All of it is in memory only. *)
Restarts ==
  /\ request'  = [q \in Request |-> IF request[q] \in Open THEN "gone" ELSE request[q]]
  /\ started'  = [k \in Key |-> None]
  /\ arriving' = {}
  /\ turns'    = {}
  /\ forgotten' = forgotten \cup {k \in Key : started[k] # None}
  /\ UNCHANGED <<answer, runs, barged, crossed, lapsed>>

Next ==
  \/ \E q \in Request :
       Receive(q) \/ Checked(q) \/ Refuse(q) \/ Start(q) \/ ClientGoes(q) \/ Arrives(q)
  \/ \E t \in Thread : TurnBegins(t) \/ TurnEnds(t)
  \/ \E k \in Key : Expires(k)
  \/ Restarts

Spec == Init /\ [][Next]_vars

----------------------------------------------------------------------------
(* Properties *)

(* Every variable keeps its type, and who is answered with a run was       *)
(* accepted.                                                               *)
TypeOK ==
  /\ request \in [Request -> Stages]
  /\ answer \in [Request -> Request \cup {None}]
  /\ \A q \in Request : answer[q] # None <=> request[q] = "accepted"
  /\ started \in [Key -> Request \cup {None}]
  /\ runs \subseteq Request
  /\ arriving \subseteq runs
  /\ turns \subseteq Thread
  /\ barged \subseteq runs
  /\ crossed \cup lapsed \cup forgotten \subseteq Key

(* An accepted client is told of a run that did start, its own or one      *)
(* started with the same key: whatever posts failed or clients left.       *)
AnswerRan ==
  \A q \in Request : request[q] = "accepted" =>
    /\ answer[q] \in runs
    /\ answer[q] = q \/ (KeyOf[q] # None /\ KeyOf[answer[q]] = KeyOf[q])

(* A key starts one run, as long as its requests do not overlap and the    *)
(* gateway neither restarts nor is past the time it remembers it for.      *)
OneRunPerKey ==
  \A p, q \in runs :
    KeyOf[p] = KeyOf[q] /\ KeyOf[p] \notin crossed \cup lapsed \cup forgotten \cup {None}
      => p = q

(* "A repeated Idempotency-Key within 24 hours answers with the run it     *)
(* already started": requests that are neither at once nor a day apart are *)
(* answered with one run.                                                  *)
RepeatsAnswerTheRun ==
  \A p, q \in Request :
    ( /\ At(p, "accepted") /\ At(q, "accepted")
      /\ KeyOf[p] = KeyOf[q]
      /\ KeyOf[p] \notin crossed \cup lapsed \cup {None} )
    => answer[p] = answer[q]

(* "409 busy when the thread has a turn running": nobody is accepted then. *)
BusyIsRefused == barged = {}
=============================================================================
