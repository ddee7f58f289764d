--------------------------- MODULE SessionsProofs ---------------------------
(***************************************************************************)
(* Proofs about what is seen of a session and what its agent is told: its  *)
(* events drawn by Background, its turns and calls in an editor through    *)
(* Bridge, and the clocks of a turn in Watch; where Pins puts a thread,    *)
(* the files of Threads and of Lent, and the service whose commands        *)
(* Service runs.  For any number of sessions, tasks, events, calls, tools, *)
(* ticks, nodes, clicks, messages, files, commands, losses and failures.   *)
(***************************************************************************)
EXTENDS Background, WellFoundedInduction, SequenceTheorems, FiniteSetTheorems, TLAPS

(* The bridge to an editor, whose variables these are. *)
CONSTANTS Call, NoSession, MaxSaid, MaxResets, MaxLate
VARIABLES link, ready, pump, session, live, turn, call, resets, late
Bridged == INSTANCE Bridge WITH MaxSlow <- MaxLate, slow <- late

(* The clocks of a turn. *)
CONSTANTS Tool, IdleTimeout, ToolCeiling, MaxEvents, MaxSlow, MaxFaults
VARIABLES loop, inbox, tools, ran, waiting, signing, thinker, status, silence, used
Watched == INSTANCE Watch

----------------------------------------------------------------------------
(* The inductive invariant *)

Rising(q) == \A i, j \in DOMAIN q : i < j => q[i] < q[j]

(* A task that is there is a session's. *)
OfSession == \A w \in Task : ~At(w, "free") => task[w].of \in Session

(* What waits in a channel stands in the order it was sent. *)
Queued == \A w \in Task : Rising(channel[w])

(* What was drawn had been sent. *)
SentBefore == \A s \in Session : \A m \in ToSet(shown[s]) : m <= sent[s]

(* What waits was sent as well, and comes after all that was drawn. *)
Ahead ==
  \A s \in Session : backgrounds[s] # None =>
    \A n \in ToSet(channel[backgrounds[s]]) :
      n <= sent[s] /\ \A m \in ToSet(shown[s]) : m < n

BInv == DrawnInOrder /\ OfSession /\ Queued /\ SentBefore /\ Ahead

----------------------------------------------------------------------------
(* Sequences *)

(* What a longer sequence holds. *)
LEMMA AppendHolds ==
  ASSUME NEW q \in Seq(Nat), NEW n \in Nat
  PROVE  /\ Append(q, n) \in Seq(Nat)
         /\ ToSet(Append(q, n)) = ToSet(q) \cup {n}
<1>1. /\ Append(q, n) \in Seq(Nat) /\ Len(q) \in Nat
      /\ DOMAIN q = 1 .. Len(q) /\ DOMAIN Append(q, n) = 1 .. Len(q) + 1
      /\ \A i \in 1 .. Len(q) : Append(q, n)[i] = q[i]
      /\ Append(q, n)[Len(q) + 1] = n
  OBVIOUS
<1> QED  BY <1>1 DEF ToSet

(* What a sequence holds without its head. *)
LEMMA TailHolds ==
  ASSUME NEW q \in Seq(Nat), q # <<>>
  PROVE  /\ Tail(q) \in Seq(Nat)
         /\ Head(q) \in Nat
         /\ ToSet(q) = {Head(q)} \cup ToSet(Tail(q))
<1>1. /\ Tail(q) \in Seq(Nat) /\ Len(q) \in Nat \ {0} /\ Head(q) = q[1]
      /\ DOMAIN q = 1 .. Len(q) /\ DOMAIN Tail(q) = 1 .. Len(q) - 1
      /\ \A i \in 1 .. Len(q) - 1 : Tail(q)[i] = q[i + 1]
      /\ \A i \in 1 .. Len(q) : q[i] \in Nat
  OBVIOUS
<1>2. \A i \in 2 .. Len(q) : i - 1 \in 1 .. Len(q) - 1 /\ q[i] = Tail(q)[i - 1]
  BY <1>1
<1>3. ToSet(q) \subseteq {Head(q)} \cup ToSet(Tail(q))
  <2> SUFFICES ASSUME NEW i \in 1 .. Len(q)
               PROVE  q[i] = Head(q) \/ q[i] \in ToSet(Tail(q))
    BY <1>1 DEF ToSet
  <2>1. CASE i = 1
    BY <2>1, <1>1
  <2>2. CASE i # 1
    <3>1. i \in 2 .. Len(q)
      BY <2>2, <1>1
    <3> QED  BY <3>1, <1>1, <1>2 DEF ToSet
  <2> QED  BY <2>1, <2>2
<1>4. {Head(q)} \cup ToSet(Tail(q)) \subseteq ToSet(q)
  <2>1. \A i \in 1 .. Len(q) - 1 : i + 1 \in 1 .. Len(q)
    BY <1>1
  <2>2. 1 \in 1 .. Len(q)
    BY <1>1
  <2> QED  BY <1>1, <2>1, <2>2 DEF ToSet
<1> QED  BY <1>1, <1>3, <1>4

(* A rising sequence stays one when a greater number is put at its end. *)
LEMMA RisingAppend ==
  ASSUME NEW q \in Seq(Nat), NEW n \in Nat, Rising(q), \A m \in ToSet(q) : m < n
  PROVE  Rising(Append(q, n))
<1>1. /\ Len(q) \in Nat
      /\ DOMAIN q = 1 .. Len(q) /\ DOMAIN Append(q, n) = 1 .. Len(q) + 1
      /\ \A i \in 1 .. Len(q) : Append(q, n)[i] = q[i]
      /\ Append(q, n)[Len(q) + 1] = n
  OBVIOUS
<1>2. \A i \in 1 .. Len(q) : q[i] < n
  BY <1>1 DEF ToSet
<1>3. SUFFICES ASSUME NEW i \in 1 .. Len(q) + 1, NEW j \in 1 .. Len(q) + 1, i < j
               PROVE  Append(q, n)[i] < Append(q, n)[j]
  BY <1>1 DEF Rising
<1>4. i \in 1 .. Len(q)
  BY <1>1, <1>3
<1>5. CASE j = Len(q) + 1
  BY <1>1, <1>2, <1>4, <1>5
<1>6. CASE j # Len(q) + 1
  <2>1. j \in 1 .. Len(q)
    BY <1>1, <1>6
  <2> QED  BY <2>1, <1>1, <1>3, <1>4 DEF Rising
<1> QED  BY <1>5, <1>6

(* Without its head a rising sequence rises, above the head. *)
LEMMA RisingTail ==
  ASSUME NEW q \in Seq(Nat), q # <<>>, Rising(q)
  PROVE  Rising(Tail(q)) /\ \A n \in ToSet(Tail(q)) : Head(q) < n
<1>1. /\ Len(q) \in Nat \ {0} /\ Head(q) = q[1]
      /\ DOMAIN q = 1 .. Len(q) /\ DOMAIN Tail(q) = 1 .. Len(q) - 1
      /\ \A i \in 1 .. Len(q) - 1 : Tail(q)[i] = q[i + 1]
  OBVIOUS
<1>2. \A i \in 1 .. Len(q) - 1 : i + 1 \in 1 .. Len(q) /\ 1 \in 1 .. Len(q) /\ 1 < i + 1
  BY <1>1
<1>3. \A i \in 1 .. Len(q) - 1 : q[1] < q[i + 1]
  BY <1>1, <1>2 DEF Rising
<1>4. ASSUME NEW i \in 1 .. Len(q) - 1, NEW j \in 1 .. Len(q) - 1, i < j
      PROVE  q[i + 1] < q[j + 1]
  <2>1. i + 1 \in 1 .. Len(q) /\ j + 1 \in 1 .. Len(q) /\ i + 1 < j + 1
    BY <1>1, <1>4
  <2> QED  BY <2>1, <1>1 DEF Rising
<1>5. Rising(Tail(q))
  BY <1>1, <1>4 DEF Rising
<1> QED  BY <1>1, <1>3, <1>5 DEF ToSet

----------------------------------------------------------------------------
(* Steps *)

(* The session of a task that is there takes its events to that task. *)
LEMMA Owner ==
  ASSUME BInv, NEW w \in Task, ~At(w, "free")
  PROVE  /\ task[w].of \in Session /\ backgrounds[task[w].of] = w /\ w # None
         /\ \A s \in Session : backgrounds[s] = w => s = task[w].of
<1>1. task[w].of \in Session
  BY DEF BInv, OfSession
<1> QED  BY <1>1, TaskAssumption DEF BInv, DrawnInOrder, OneTask

(* A session's own task is there and runs for it. *)
LEMMA Owned ==
  ASSUME BInv, NEW s \in Session, backgrounds[s] # None
  PROVE  /\ backgrounds[s] \in Task /\ ~At(backgrounds[s], "free")
         /\ task[backgrounds[s]].of = s
<1>1. backgrounds[s] \in Task
  BY DEF BInv, DrawnInOrder, TypeOK
<1> QED  BY <1>1 DEF BInv, DrawnInOrder, OneTask

(* A task that only moves on disturbs nothing. *)
LEMMA MovesOn ==
  ASSUME BInv, NEW w \in Task, ~At(w, "free"), NEW run \in Run,
         run.of = task[w].of, run.at # "free",
         task' = [task EXCEPT ![w] = run],
         UNCHANGED <<sent, backgrounds, channel, shown, dropped>>
  PROVE  BInv'
<1>1. TypeOK'
  BY DEF BInv, DrawnInOrder, TypeOK, At
<1>2. \A v \in Task : (At(v, "free") <=> At(v, "free")') /\ task'[v].of = task[v].of
  BY DEF BInv, DrawnInOrder, TypeOK, At
<1>3. OneTask' /\ OfSession'
  BY <1>2 DEF BInv, DrawnInOrder, OneTask, OfSession
<1>4. NoneStranded' /\ InOrder' /\ Queued' /\ SentBefore' /\ Ahead'
  BY DEF BInv, DrawnInOrder, NoneStranded, InOrder, Queued, SentBefore, Ahead
<1> QED  BY <1>1, <1>3, <1>4 DEF BInv, DrawnInOrder

(* So it is with the steps that only change what a task is at. *)
LEMMA MovesInv ==
  ASSUME BInv, NEW w \in Task, ~At(w, "free"), NEW stage \in Stages \ {"free"},
         Moves(w, stage), UNCHANGED <<sent, backgrounds, channel, shown, dropped>>
  PROVE  BInv'
<1>1. task[w] \in Run
  BY DEF BInv, DrawnInOrder, TypeOK
<1>2. /\ [task[w] EXCEPT !.at = stage] \in Run
      /\ [task[w] EXCEPT !.at = stage].of = task[w].of
      /\ [task[w] EXCEPT !.at = stage].at = stage
  BY <1>1 DEF Run
<1>3. task' = [task EXCEPT ![w] = [task[w] EXCEPT !.at = stage]]
  BY DEF Moves
<1> QED  BY <1>2, <1>3, MovesOn

LEMMA PlacedInv ==
  ASSUME BInv, NEW w \in Task, Placed(w)
  PROVE  BInv'
<1>1. PICK stage \in {"showing", "draining"} :
        task' = [task EXCEPT ![w].at = stage, ![w].done = FALSE]
  BY DEF Placed
<1>2. ~At(w, "free")
  BY DEF Placed, At
<1>3. task[w] \in Run
  BY DEF BInv, DrawnInOrder, TypeOK
<1>4. /\ [task[w] EXCEPT !.at = stage, !.done = FALSE] \in Run
      /\ [task[w] EXCEPT !.at = stage, !.done = FALSE].of = task[w].of
      /\ [task[w] EXCEPT !.at = stage, !.done = FALSE].at = stage
  BY <1>3 DEF Run, Stages
<1>5. task' = [task EXCEPT ![w] = [task[w] EXCEPT !.at = stage, !.done = FALSE]]
  BY <1>1, <1>3 DEF BInv, DrawnInOrder, TypeOK
<1> QED  BY <1>2, <1>4, <1>5, MovesOn DEF Placed

LEMMA QuietInv ==
  ASSUME BInv, NEW w \in Task,
         Idles(w) \/ ShowEnds(w) \/ Finished(w) \/ Drained(w)
  PROVE  BInv'
<1>1. CASE Idles(w)
  BY <1>1, MovesInv DEF Idles, At, Stages
<1>2. CASE ShowEnds(w)
  BY <1>2, MovesInv DEF ShowEnds, EntryWhileFinishing, At, Stages
<1>3. CASE Finished(w)
  BY <1>3, MovesInv DEF Finished, At, Stages
<1>4. CASE Drained(w)
  BY <1>4, MovesInv DEF Drained, At, Stages
<1> QED  BY <1>1, <1>2, <1>3, <1>4

(* An event handed in is greater than all there was of its session. *)
LEMMA SendsNext ==
  ASSUME BInv, NEW s \in Session, Sends(s)
  PROVE  /\ sent' \in [Session -> Nat] /\ sent[s] \in Nat /\ sent'[s] = sent[s] + 1
         /\ \A r \in Session : sent[r] \in Nat /\ sent'[r] \in Nat /\ sent[r] <= sent'[r]
         /\ \A r \in Session \ {s} : sent'[r] = sent[r]
  BY DEF BInv, DrawnInOrder, TypeOK, Sends

LEMMA ToRunInv ==
  ASSUME BInv, NEW s \in Session, ToRun(s)
  PROVE  BInv'
<1> DEFINE w == backgrounds[s]
           n == sent'[s]
<1> USE DEF BInv, DrawnInOrder
<1>1. w \in Task /\ ~At(w, "free") /\ task[w].of = s
  BY Owned DEF ToRun
<1>0. /\ sent' \in [Session -> Nat] /\ sent[s] \in Nat /\ n = sent[s] + 1
      /\ \A r \in Session : sent[r] \in Nat /\ sent'[r] \in Nat /\ sent[r] <= sent'[r]
      /\ \A r \in Session \ {s} : sent'[r] = sent[r]
  BY SendsNext DEF ToRun
<1>2. \A r \in Session \ {s} : backgrounds[r] # w
  BY <1>1, Owner
<1>3. /\ channel[w] \in Seq(Nat) /\ n \in Nat
      /\ channel' = [channel EXCEPT ![w] = Append(channel[w], n)]
      /\ channel'[w] = Append(channel[w], n)
      /\ \A v \in Task \ {w} : channel'[v] = channel[v]
      /\ UNCHANGED <<backgrounds, task, shown, dropped>>
  BY <1>0, <1>1 DEF ToRun, TypeOK
<1>4. /\ channel'[w] \in Seq(Nat)
      /\ ToSet(channel'[w]) = ToSet(channel[w]) \cup {n}
  BY <1>3, AppendHolds
<1>5. \A m \in ToSet(channel[w]) : m \in Nat /\ m < n
  <2>1. \A m \in ToSet(channel[w]) : m <= sent[s]
    BY <1>1, TaskAssumption DEF Ahead
  <2>2. \A m \in ToSet(channel[w]) : m \in Nat
    BY <1>3 DEF ToSet
  <2> QED  BY <2>1, <2>2, <1>0
<1>6. TypeOK'
  BY <1>0, <1>1, <1>3, <1>4 DEF TypeOK, At
<1>7. OneTask' /\ InOrder' /\ OfSession'
  BY <1>3 DEF OneTask, InOrder, OfSession, At
<1>8. NoneStranded'
  <2> SUFFICES ASSUME NEW r \in Session, NEW m \in 1 .. sent'[r]
               PROVE  \/ m \in ToSet(shown[r]) \cup dropped[r]
                      \/ backgrounds[r] # None /\ m \in ToSet(channel'[backgrounds[r]])
    BY <1>3 DEF NoneStranded
  <2>1. CASE r = s /\ m = n
    BY <2>1, <1>4, <1>1, TaskAssumption
  <2>2. CASE ~(r = s /\ m = n)
    <3>1. m \in 1 .. sent[r]
      BY <2>2, <1>0
    <3>2. \/ m \in ToSet(shown[r]) \cup dropped[r]
          \/ backgrounds[r] # None /\ m \in ToSet(channel[backgrounds[r]])
      BY <3>1 DEF NoneStranded
    <3>3. CASE r = s
      BY <3>2, <3>3, <1>4
    <3>4. CASE r # s
      BY <3>2, <3>4, <1>2, <1>3, Owned
    <3> QED  BY <3>3, <3>4
  <2> QED  BY <2>1, <2>2
<1>9. Queued'
  <2>1. Rising(channel'[w])
    BY <1>1, <1>3, <1>5, RisingAppend DEF Queued
  <2> QED  BY <2>1, <1>3 DEF Queued
<1>10. SentBefore'
  <2>1. \A r \in Session : \A m \in ToSet(shown[r]) : m \in Nat
    BY DEF TypeOK, ToSet
  <2>2. ASSUME NEW r \in Session, NEW m \in ToSet(shown[r])
        PROVE  m <= sent'[r]
    <3>1. m <= sent[r]
      BY DEF SentBefore
    <3> QED  BY <3>1, <2>1, <1>0
  <2> QED  BY <2>2, <1>3 DEF SentBefore
<1>11. Ahead'
  <2> SUFFICES ASSUME NEW r \in Session, backgrounds[r] # None,
                      NEW m \in ToSet(channel'[backgrounds[r]])
               PROVE  m <= sent'[r] /\ \A k \in ToSet(shown[r]) : k < m
    BY <1>3 DEF Ahead
  <2>0. /\ \A k \in ToSet(shown[r]) : k \in Nat
        /\ \A k \in ToSet(channel[backgrounds[r]]) : k \in Nat
    <3>1. shown[r] \in Seq(Nat) /\ channel[backgrounds[r]] \in Seq(Nat)
      BY Owned DEF TypeOK
    <3> QED  BY ONLY <3>1 DEF ToSet
  <2>1. CASE r = s /\ m = n
    <3> HIDE DEF BInv, DrawnInOrder
    <3>1. \A k \in ToSet(shown[s]) : k <= sent[s]
      BY DEF BInv, SentBefore
    <3>2. \A k \in ToSet(shown[s]) : k \in Nat
      BY <2>0, <2>1
    <3>3. sent[s] \in Nat /\ n = sent[s] + 1
      BY <1>0
    <3>4. \A k \in ToSet(shown[s]) : k < n
      BY ONLY <3>1, <3>2, <3>3
    <3>5. sent'[r] = n /\ n \in Nat
      BY <2>1, <1>3
    <3>6. m <= sent'[r]
      BY <2>1, <3>5
    <3> QED  BY <3>4, <3>6, <2>1
  <2>2. CASE ~(r = s /\ m = n)
    <3>1. m \in ToSet(channel[backgrounds[r]])
      BY <2>2, <1>2, <1>3, <1>4, Owned
    <3>2. m <= sent[r] /\ \A k \in ToSet(shown[r]) : k < m
      BY <3>1 DEF Ahead
    <3> QED  BY <3>1, <3>2, <2>0, <1>0
  <2> QED  BY <2>1, <2>2
<1> QED  BY <1>6, <1>7, <1>8, <1>9, <1>10, <1>11

LEMMA StartsRunInv ==
  ASSUME BInv, NEW s \in Session, NEW w \in Task, StartsRun(s, w)
  PROVE  BInv'
<1> DEFINE n == sent'[s]
<1> USE DEF BInv, DrawnInOrder
<1>1. /\ sent' \in [Session -> Nat] /\ sent[s] \in Nat /\ n = sent[s] + 1
      /\ \A r \in Session : sent[r] \in Nat /\ sent'[r] \in Nat /\ sent[r] <= sent'[r]
      /\ \A r \in Session \ {s} : sent'[r] = sent[r]
  BY SendsNext DEF StartsRun
<1>2. At(w, "free") /\ backgrounds[s] = None /\ w # None
  BY TaskAssumption DEF StartsRun
<1>3. \A r \in Session : backgrounds[r] # w
  BY <1>2 DEF OneTask
<1>4. /\ <<n>> \in Seq(Nat) /\ ToSet(<<n>>) = {n} /\ Rising(<<n>>)
  <2>1. n \in Nat
    BY <1>1
  <2>2. <<n>> \in Seq(Nat) /\ DOMAIN <<n>> = {1} /\ <<n>>[1] = n
    BY <2>1
  <2> QED  BY <2>1, <2>2 DEF ToSet, Rising
<1>5. /\ channel' \in [Task -> Seq(Nat)] /\ channel'[w] = <<n>>
      /\ \A v \in Task \ {w} : channel'[v] = channel[v]
  BY <1>4 DEF StartsRun, TypeOK
<1>6. /\ backgrounds' \in [Session -> Task \cup {None}] /\ backgrounds'[s] = w
      /\ \A r \in Session \ {s} : backgrounds'[r] = backgrounds[r]
  BY DEF StartsRun, TypeOK
<1>7. /\ task' \in [Task -> Run]
      /\ task'[w] = [of |-> s, at |-> "placing", done |-> FALSE]
      /\ \A v \in Task \ {w} : task'[v] = task[v]
  <2>1. [of |-> s, at |-> "placing", done |-> FALSE] \in Run
    BY DEF Run, Stages
  <2> QED  BY <2>1 DEF StartsRun, TypeOK
<1>8. UNCHANGED <<shown, dropped>>
  BY DEF StartsRun
<1>9. ~At(w, "free")' /\ \A v \in Task \ {w} : At(v, "free")' <=> At(v, "free")
  BY <1>7 DEF At
<1>10. TypeOK'
  BY <1>1, <1>5, <1>6, <1>7, <1>8, <1>9 DEF TypeOK
<1>11. OneTask'
  <2> SUFFICES ASSUME NEW v \in Task, NEW r \in Session
               PROVE  backgrounds'[r] = v <=> ~At(v, "free")' /\ task'[v].of = r
    BY DEF OneTask
  <2>1. CASE v = w
    BY <2>1, <1>3, <1>6, <1>7, <1>9
  <2>2. CASE v # w /\ r = s
    BY <2>2, <1>2, <1>6, <1>7, <1>9, TaskAssumption DEF OneTask
  <2>3. CASE v # w /\ r # s
    BY <2>3, <1>6, <1>7, <1>9 DEF OneTask
  <2> QED  BY <2>1, <2>2, <2>3
<1>12. OfSession'
  BY <1>7, <1>9 DEF OfSession
<1>13. InOrder' /\ Queued'
  BY <1>4, <1>5, <1>8 DEF InOrder, Queued
<1>14. NoneStranded'
  <2> SUFFICES ASSUME NEW r \in Session, NEW m \in 1 .. sent'[r]
               PROVE  \/ m \in ToSet(shown[r]) \cup dropped[r]
                      \/ backgrounds'[r] # None /\ m \in ToSet(channel'[backgrounds'[r]])
    BY <1>8 DEF NoneStranded
  <2>1. CASE r = s /\ m = n
    BY <2>1, <1>2, <1>4, <1>5, <1>6
  <2>2. CASE ~(r = s /\ m = n)
    <3>1. m \in 1 .. sent[r]
      BY <2>2, <1>1
    <3>2. \/ m \in ToSet(shown[r]) \cup dropped[r]
          \/ backgrounds[r] # None /\ m \in ToSet(channel[backgrounds[r]])
      BY <3>1 DEF NoneStranded
    <3> QED  BY <3>2, <1>2, <1>3, <1>5, <1>6, Owned
  <2> QED  BY <2>1, <2>2
<1>15. \A r \in Session : \A m \in ToSet(shown[r]) : m \in Nat /\ m <= sent[r]
  BY DEF TypeOK, ToSet, SentBefore
<1>16. SentBefore'
  <2>1. ASSUME NEW r \in Session, NEW m \in ToSet(shown[r])
        PROVE  m <= sent'[r]
    BY <1>1, <1>15
  <2> QED  BY <2>1, <1>8 DEF SentBefore
<1>17. Ahead'
  <2> SUFFICES ASSUME NEW r \in Session, backgrounds'[r] # None,
                      NEW m \in ToSet(channel'[backgrounds'[r]])
               PROVE  m <= sent'[r] /\ \A k \in ToSet(shown[r]) : k < m
    BY <1>8 DEF Ahead
  <2>1. CASE r = s
    <3>1. m = n
      BY <2>1, <1>4, <1>5, <1>6
    <3> QED  BY <2>1, <3>1, <1>1, <1>15
  <2>2. CASE r # s
    <3>1. backgrounds[r] # None /\ m \in ToSet(channel[backgrounds[r]])
      BY <2>2, <1>3, <1>5, <1>6, Owned
    <3>2. m <= sent[r] /\ \A k \in ToSet(shown[r]) : k < m
      BY <3>1 DEF Ahead
    <3> QED  BY <2>2, <3>2, <1>1
  <2> QED  BY <2>1, <2>2
<1> QED  BY <1>10, <1>11, <1>12, <1>13, <1>14, <1>16, <1>17

(* A task that takes the head of its channel and draws it or drops it. *)
LEMMA TakesInv ==
  ASSUME BInv, NEW w \in Task, ~At(w, "free"), channel[w] # <<>>, Received(w),
         NEW run \in Run, run.of = task[w].of, run.at # "free",
         task' = [task EXCEPT ![w] = run],
         UNCHANGED <<sent, backgrounds>>,
         \/ /\ shown' = [shown EXCEPT ![task[w].of] = Append(@, Head(channel[w]))]
            /\ dropped' = dropped
         \/ /\ dropped' = [dropped EXCEPT ![task[w].of] = @ \cup {Head(channel[w])}]
            /\ shown' = shown
  PROVE  BInv'
<1> DEFINE s == task[w].of
           h == Head(channel[w])
<1> USE DEF BInv, DrawnInOrder
<1>1. s \in Session /\ backgrounds[s] = w /\ w # None
      /\ \A r \in Session : backgrounds[r] = w => r = s
  BY Owner
<1>2. /\ channel[w] \in Seq(Nat) /\ shown[s] \in Seq(Nat) /\ sent[s] \in Nat
      /\ \A r \in Session : shown[r] \in Seq(Nat) /\ sent[r] \in Nat
  BY <1>1 DEF TypeOK
<1>3. /\ Tail(channel[w]) \in Seq(Nat) /\ h \in Nat
      /\ ToSet(channel[w]) = {h} \cup ToSet(Tail(channel[w]))
  BY <1>2, TailHolds
<1>4. Rising(Tail(channel[w])) /\ \A n \in ToSet(Tail(channel[w])) : h < n
  BY <1>2, RisingTail DEF Queued
<1>5. h <= sent[s] /\ \A m \in ToSet(shown[s]) : m < h
  BY <1>1, <1>3 DEF Ahead
<1>6. /\ channel' \in [Task -> Seq(Nat)] /\ channel'[w] = Tail(channel[w])
      /\ \A v \in Task \ {w} : channel'[v] = channel[v]
  BY <1>3 DEF Received, TypeOK
<1>7. /\ task' \in [Task -> Run]
      /\ \A v \in Task : (At(v, "free")' <=> At(v, "free")) /\ task'[v].of = task[v].of
  BY DEF TypeOK, At
<1>8. /\ Append(shown[s], h) \in Seq(Nat)
      /\ ToSet(Append(shown[s], h)) = ToSet(shown[s]) \cup {h}
  BY <1>2, <1>3, AppendHolds
<1>9. Rising(Append(shown[s], h))
  <2>1. Rising(shown[s])
    BY <1>1 DEF InOrder, Rising
  <2> QED  BY <2>1, <1>2, <1>3, <1>5, RisingAppend
<1>10. /\ shown' \in [Session -> Seq(Nat)] /\ dropped' \in [Session -> SUBSET Nat]
       /\ shown'[s] \in {shown[s], Append(shown[s], h)}
       /\ h \in ToSet(shown'[s]) \cup dropped'[s]
       /\ dropped[s] \subseteq dropped'[s]
       /\ \A r \in Session \ {s} : shown'[r] = shown[r] /\ dropped'[r] = dropped[r]
  <2>1. CASE /\ shown' = [shown EXCEPT ![s] = Append(shown[s], h)]
             /\ dropped' = dropped
    <3>1. /\ shown' \in [Session -> Seq(Nat)] /\ shown'[s] = Append(shown[s], h)
          /\ \A r \in Session \ {s} : shown'[r] = shown[r]
      BY <2>1, <1>1, <1>8 DEF TypeOK
    <3> QED  BY <2>1, <3>1, <1>1, <1>8 DEF TypeOK
  <2>2. CASE /\ dropped' = [dropped EXCEPT ![s] = dropped[s] \cup {h}]
             /\ shown' = shown
    <3>1. /\ dropped' \in [Session -> SUBSET Nat] /\ dropped'[s] = dropped[s] \cup {h}
          /\ \A r \in Session \ {s} : dropped'[r] = dropped[r]
      BY <2>2, <1>1, <1>3 DEF TypeOK
    <3> QED  BY <2>2, <3>1, <1>1 DEF TypeOK
  <2> QED  BY <2>1, <2>2
<1>11. ToSet(shown[s]) \subseteq ToSet(shown'[s])
       /\ ToSet(shown'[s]) \subseteq ToSet(shown[s]) \cup {h}
  BY <1>8, <1>10
<1>12. TypeOK'
  BY <1>6, <1>7, <1>10 DEF TypeOK
<1>13. OneTask' /\ OfSession'
  BY <1>7 DEF OneTask, OfSession
<1>14. Queued'
  BY <1>4, <1>6 DEF Queued
<1>15. InOrder'
  <2>1. \A r \in Session : Rising(shown'[r])
    BY <1>9, <1>10 DEF InOrder, Rising
  <2> QED  BY <2>1 DEF InOrder, Rising
<1>16. NoneStranded'
  <2> SUFFICES ASSUME NEW r \in Session, NEW m \in 1 .. sent[r]
               PROVE  \/ m \in ToSet(shown'[r]) \cup dropped'[r]
                      \/ backgrounds[r] # None /\ m \in ToSet(channel'[backgrounds[r]])
    BY DEF NoneStranded
  <2>1. \/ m \in ToSet(shown[r]) \cup dropped[r]
        \/ backgrounds[r] # None /\ m \in ToSet(channel[backgrounds[r]])
    BY DEF NoneStranded
  <2>2. CASE r = s
    BY <2>1, <2>2, <1>1, <1>3, <1>6, <1>10, <1>11
  <2>3. CASE r # s
    BY <2>1, <2>3, <1>1, <1>6, <1>10, Owned
  <2> QED  BY <2>2, <2>3
<1>17. SentBefore'
  <2>1. ASSUME NEW r \in Session, NEW m \in ToSet(shown'[r])
        PROVE  m <= sent[r]
    <3>1. CASE r = s
      BY <3>1, <1>5, <1>11 DEF SentBefore
    <3>2. CASE r # s
      BY <3>2, <1>10 DEF SentBefore
    <3> QED  BY <3>1, <3>2
  <2> QED  BY <2>1 DEF SentBefore
<1>18. Ahead'
  <2> SUFFICES ASSUME NEW r \in Session, backgrounds[r] # None,
                      NEW n \in ToSet(channel'[backgrounds[r]])
               PROVE  n <= sent[r] /\ \A m \in ToSet(shown'[r]) : m < n
    BY DEF Ahead
  <2>1. CASE r = s
    <3>1. n \in ToSet(Tail(channel[w])) /\ n \in ToSet(channel[w])
      BY <2>1, <1>1, <1>3, <1>6
    <3>2. n <= sent[s] /\ \A m \in ToSet(shown[s]) : m < n
      BY <3>1, <1>1 DEF Ahead
    <3> QED  BY <2>1, <3>1, <3>2, <1>4, <1>11
  <2>2. CASE r # s
    <3>1. n \in ToSet(channel[backgrounds[r]])
      BY <2>2, <1>1, <1>6, Owned
    <3> QED  BY <3>1, <2>2, <1>10 DEF Ahead
  <2> QED  BY <2>1, <2>2
<1> QED  BY <1>12, <1>13, <1>14, <1>15, <1>16, <1>17, <1>18

LEMMA ShowsInv ==
  ASSUME BInv, NEW w \in Task, Shows(w)
  PROVE  BInv'
<1>1. ~At(w, "free")
  BY DEF Shows, At
<1>2. PICK completes \in BOOLEAN :
        task' = [task EXCEPT ![w].at = "showing", ![w].done = @ \/ completes]
  BY DEF Shows
<1> DEFINE run == [task[w] EXCEPT !.at = "showing", !.done = task[w].done \/ completes]
<1>3. task[w] \in Run
  BY DEF BInv, DrawnInOrder, TypeOK
<1>4. run \in Run /\ run.of = task[w].of /\ run.at = "showing"
  BY <1>3 DEF Run, Stages
<1>5. task' = [task EXCEPT ![w] = run]
  BY <1>2, <1>3 DEF BInv, DrawnInOrder, TypeOK
<1> HIDE DEF run
<1> QED  BY <1>1, <1>4, <1>5, TakesInv DEF Shows

LEMMA DrainsInv ==
  ASSUME BInv, NEW w \in Task, Drains(w)
  PROVE  BInv'
<1>1. ~At(w, "free") /\ task[w].at # "free"
  BY DEF Drains, At
<1>2. task[w] \in Run /\ task' = [task EXCEPT ![w] = task[w]]
  BY DEF BInv, DrawnInOrder, TypeOK, Drains
<1> QED  BY <1>1, <1>2, TakesInv DEF Drains

(* A task that leaves does so with an empty channel and its session's      *)
(* entry, so the next event starts another.                                *)
LEMMA CloseInv ==
  ASSUME BInv, NEW w \in Task, Close(w)
  PROVE  BInv'
<1> DEFINE s == task[w].of
<1>1. ~At(w, "free")
  BY DEF Close, At
<1>2. CASE channel[w] # <<>>
  <2>1. Moves(w, "placing") /\ UNCHANGED <<sent, backgrounds, channel, shown, dropped>>
    BY <1>2 DEF Close, NothingLeft
  <2> QED  BY <1>1, <2>1, MovesInv DEF Stages
<1>3. CASE channel[w] = <<>>
  <2> USE DEF BInv, DrawnInOrder
  <2>1. s \in Session /\ backgrounds[s] = w /\ w # None
        /\ \A r \in Session : backgrounds[r] = w => r = s
    BY <1>1, Owner
  <2>2. /\ backgrounds' = [backgrounds EXCEPT ![s] = None]
        /\ task' = [task EXCEPT ![w] = Free]
        /\ UNCHANGED <<sent, channel, shown, dropped>>
    BY <1>3 DEF Close, NothingLeft
  <2>3. /\ backgrounds' \in [Session -> Task \cup {None}] /\ backgrounds'[s] = None
        /\ \A r \in Session \ {s} : backgrounds'[r] = backgrounds[r]
    BY <2>1, <2>2 DEF TypeOK
  <2>4. /\ task' \in [Task -> Run] /\ task'[w] = Free
        /\ \A v \in Task \ {w} : task'[v] = task[v]
    BY <2>2 DEF TypeOK, Run, Free, Stages
  <2>5. At(w, "free")' /\ \A v \in Task \ {w} : At(v, "free")' <=> At(v, "free")
    BY <2>4 DEF At, Free
  <2>6. TypeOK'
    BY <1>3, <2>2, <2>3, <2>4, <2>5 DEF TypeOK
  <2>7. OneTask'
    <3> SUFFICES ASSUME NEW v \in Task, NEW r \in Session
                 PROVE  backgrounds'[r] = v <=> ~At(v, "free")' /\ task'[v].of = r
      BY DEF OneTask
    <3>1. CASE v = w
      BY <3>1, <2>1, <2>3, <2>5, TaskAssumption
    <3>2. CASE v # w /\ r = s
      BY <3>2, <2>1, <2>3, <2>4, <2>5, TaskAssumption DEF OneTask
    <3>3. CASE v # w /\ r # s
      BY <3>3, <2>3, <2>4, <2>5 DEF OneTask
    <3> QED  BY <3>1, <3>2, <3>3
  <2>8. OfSession'
    BY <2>4, <2>5 DEF OfSession
  <2>9. InOrder' /\ Queued' /\ SentBefore'
    BY <2>2 DEF InOrder, Queued, SentBefore
  <2>10. NoneStranded'
    <3>1. ToSet(channel[w]) = {}
      BY <1>3 DEF ToSet
    <3> SUFFICES ASSUME NEW r \in Session, NEW m \in 1 .. sent[r]
                 PROVE  \/ m \in ToSet(shown[r]) \cup dropped[r]
                        \/ backgrounds'[r] # None /\ m \in ToSet(channel[backgrounds'[r]])
      BY <2>2 DEF NoneStranded
    <3>2. \/ m \in ToSet(shown[r]) \cup dropped[r]
          \/ backgrounds[r] # None /\ m \in ToSet(channel[backgrounds[r]])
      BY DEF NoneStranded
    <3> QED  BY <3>1, <3>2, <2>1, <2>3
  <2>11. Ahead'
    BY <2>2, <2>3 DEF Ahead
  <2> QED  BY <2>6, <2>7, <2>8, <2>9, <2>10, <2>11
<1> QED  BY <1>2, <1>3

----------------------------------------------------------------------------
(* Theorems *)

LEMMA InitInv == Init => BInv
<1> SUFFICES ASSUME Init PROVE BInv
  OBVIOUS
<1>1. \A w \in Task : At(w, "free") /\ channel[w] = <<>>
  BY DEF Init, At, Free
<1>2. \A s \in Session : sent[s] = 0 /\ backgrounds[s] = None /\ shown[s] = <<>>
  BY DEF Init
<1>3. <<>> \in Seq(Nat) /\ ToSet(<<>>) = {} /\ Rising(<<>>)
  BY DEF ToSet, Rising
<1>4. TypeOK
  BY <1>1, <1>3 DEF Init, TypeOK, Run, Free, Stages
<1>5. OneTask /\ OfSession
  BY <1>1, <1>2, TaskAssumption DEF OneTask, OfSession
<1>6. InOrder /\ Queued /\ SentBefore /\ Ahead
  BY <1>1, <1>2, <1>3 DEF InOrder, Queued, SentBefore, Ahead
<1>7. NoneStranded
  BY <1>2 DEF NoneStranded
<1> QED  BY <1>4, <1>5, <1>6, <1>7 DEF BInv, DrawnInOrder

LEMMA NextInv == BInv /\ [Next]_vars => BInv'
<1> SUFFICES ASSUME BInv, [Next]_vars PROVE BInv'
  OBVIOUS
<1>1. ASSUME NEW s \in Session, ToRun(s) PROVE BInv'
  BY <1>1, ToRunInv
<1>2. ASSUME NEW s \in Session, NEW w \in Task, StartsRun(s, w) PROVE BInv'
  BY <1>2, StartsRunInv
<1>3. ASSUME NEW w \in Task, TaskStep(w) \/ Idles(w) \/ ShowEnds(w) PROVE BInv'
  BY <1>3, PlacedInv, ShowsInv, DrainsInv, CloseInv, QuietInv DEF TaskStep
<1>4. CASE UNCHANGED vars
  BY <1>4 DEF vars, BInv, DrawnInOrder, TypeOK, OneTask, NoneStranded, InOrder,
              OfSession, Queued, SentBefore, Ahead, At
<1> QED  BY <1>1, <1>2, <1>3, <1>4 DEF Next

(* For any number of sessions, tasks and events: what `on_background` is    *)
(* handed is drawn by one task per session, in the order the node sent it,  *)
(* and an event that comes while that task ends is drawn by it or the next. *)
THEOREM DrawnInOrderAlways == Spec => []DrawnInOrder
<1>1. BInv => DrawnInOrder
  BY DEF BInv
<1> QED  BY <1>1, InitInv, NextInv, PTL DEF Spec

----------------------------------------------------------------------------
(* The bridge to an editor *)

(* What the constants are. *)
BridgeConstants == Bridged!NoSessionAssumption /\ Bridged!CallAssumption /\ Bridged!BoundsAssumption

----------------------------------------------------------------------------
(* The messages in a stream. *)
Streamed == {"message", "complete", "error"} \cup Call
Messages(stream) == {i \in 1 .. Len(stream) : stream[i] = "message"}
Undrawn(stream)  == Cardinality(Messages(stream))

LEMMA MessagesCount ==
  ASSUME NEW stream \in Seq(Streamed)
  PROVE  IsFiniteSet(Messages(stream)) /\ Undrawn(stream) \in Nat
<1>1. IsFiniteSet(1 .. Len(stream))
  BY FS_Interval
<1>2. Messages(stream) \in SUBSET (1 .. Len(stream))
  BY DEF Messages
<1> QED  BY <1>1, <1>2, FS_Subset, FS_CardinalityType DEF Undrawn

LEMMA NoMessages == Undrawn(<<>>) = 0
<1>1. Messages(<<>>) = {}
  BY DEF Messages
<1> QED  BY <1>1, FS_EmptySet DEF Undrawn

LEMMA MessageSent ==
  ASSUME NEW stream \in Seq(Streamed), NEW event \in Streamed
  PROVE  /\ Append(stream, event) \in Seq(Streamed)
         /\ Undrawn(Append(stream, event)) = Undrawn(stream) + (IF event = "message" THEN 1 ELSE 0)
<1> DEFINE longer == Append(stream, event)
           n == Len(stream)
<1>1. /\ longer \in Seq(Streamed) /\ n \in Nat /\ Len(longer) = n + 1 /\ longer[n + 1] = event
      /\ \A i \in 1 .. n : longer[i] = stream[i]
  OBVIOUS
<1>2. IsFiniteSet(Messages(stream)) /\ Undrawn(stream) \in Nat
  BY MessagesCount
<1>3. n + 1 \notin Messages(stream)
  BY <1>1 DEF Messages
<1> HIDE DEF longer, n
<1>4. \A i : i \in Messages(longer) <=> (i \in Messages(stream) \/ (i = n + 1 /\ event = "message"))
  BY <1>1 DEF Messages, n
<1>5. CASE event = "message"
  <2>1. Messages(longer) = Messages(stream) \cup {n + 1}
    BY <1>4, <1>5
  <2> QED  BY <1>1, <1>2, <1>3, <1>5, <2>1, FS_AddElement DEF Undrawn, longer
<1>6. CASE event # "message"
  <2>1. Messages(longer) = Messages(stream)
    BY <1>4, <1>6
  <2> QED  BY <1>1, <1>2, <1>6, <2>1 DEF Undrawn, longer
<1> QED  BY <1>5, <1>6

LEMMA MessageTaken ==
  ASSUME NEW stream \in Seq(Streamed), stream # <<>>
  PROVE  /\ Tail(stream) \in Seq(Streamed) /\ Head(stream) \in Streamed
         /\ Undrawn(stream) = Undrawn(Tail(stream)) + (IF Head(stream) = "message" THEN 1 ELSE 0)
<1> DEFINE rest == Tail(stream)
           n == Len(stream)
           moved == {i \in Messages(stream) : i # 1}
<1>1. /\ rest \in Seq(Streamed) /\ n \in Nat /\ n > 0 /\ Len(rest) = n - 1 /\ Head(stream) = stream[1]
      /\ stream[1] \in Streamed /\ \A i \in 1 .. n - 1 : rest[i] = stream[i + 1]
  OBVIOUS
<1>2. /\ IsFiniteSet(Messages(stream)) /\ Undrawn(stream) \in Nat
      /\ IsFiniteSet(Messages(rest)) /\ Undrawn(rest) \in Nat
  BY <1>1, MessagesCount
<1> HIDE DEF rest, n
<1>3. \A i : i \in Messages(stream) => i \in 1 .. n /\ stream[i] = "message"
  BY DEF Messages, n
<1>4. \A i : i \in Messages(rest) <=> (i \in 1 .. n - 1 /\ stream[i + 1] = "message")
  BY <1>1 DEF Messages
<1>5. Cardinality(moved) = Cardinality(Messages(rest)) /\ IsFiniteSet(moved)
  <2> DEFINE f == [i \in Messages(rest) |-> i + 1]
  <2>1. \A i \in Messages(rest) : f[i] \in moved
    BY <1>1, <1>4 DEF Messages, n
  <2>2. \A i, j \in Messages(rest) : f[i] = f[j] => i = j
    BY <1>1, <1>4
  <2>3. \A k \in moved : k - 1 \in Messages(rest) /\ f[k - 1] = k
    <3>1. ASSUME NEW k \in moved PROVE k - 1 \in Messages(rest) /\ k - 1 + 1 = k
      <4>1. k \in 1 .. n /\ k # 1 /\ stream[k] = "message"
        BY <1>3
      <4>2. k - 1 \in 1 .. n - 1 /\ k - 1 + 1 = k
        BY <1>1, <4>1
      <4>3. stream[k - 1 + 1] = "message"
        BY <4>1, <4>2
      <4> QED  BY <1>4, <4>2, <4>3
    <3> QED  BY <3>1
  <2>4. f \in Bijection(Messages(rest), moved)
    <3>1. f \in [Messages(rest) -> moved]
      BY <2>1
    <3>2. \A k \in moved : \E i \in Messages(rest) : f[i] = k
      BY <2>3
    <3> HIDE DEF f
    <3> QED  BY <2>2, <3>1, <3>2 DEF Bijection, Injection, Surjection, IsInjective
  <2> HIDE DEF f
  <2>5. ExistsBijection(Messages(rest), moved)
    BY <2>4 DEF ExistsBijection
  <2> QED  BY <1>2, <2>5, FS_Bijection
<1>6. CASE Head(stream) = "message"
  <2>1. Messages(stream) = moved \cup {1} /\ 1 \notin moved
    BY <1>1, <1>6 DEF Messages, n
  <2>2. Cardinality(moved \cup {1}) = Cardinality(moved) + 1
    BY <1>5, <2>1, FS_AddElement
  <2> QED  BY <1>1, <1>2, <1>5, <1>6, <2>1, <2>2 DEF Undrawn, rest
<1>7. CASE Head(stream) # "message"
  <2>1. Messages(stream) = moved
    BY <1>1, <1>7 DEF Messages, n
  <2> HIDE DEF moved
  <2>2. Undrawn(stream) = Undrawn(rest)
    BY <1>5, <2>1 DEF Undrawn
  <2> QED  BY <1>1, <1>2, <1>7, <2>2 DEF rest
<1> QED  BY <1>6, <1>7, Zenon

Completed(stream) == \E i \in 1 .. Len(stream) : stream[i] = "complete"

LEMMA WordSent ==
  ASSUME NEW stream \in Seq(Streamed), NEW event \in Streamed
  PROVE  Completed(Append(stream, event)) => Completed(stream) \/ event = "complete"
  BY DEF Completed

LEMMA WordTaken ==
  ASSUME NEW stream \in Seq(Streamed), stream # <<>>
  PROVE  Head(stream) = "complete" \/ Completed(Tail(stream)) => Completed(stream)
<1>1. /\ Len(stream) \in Nat /\ Len(stream) > 0 /\ Len(Tail(stream)) = Len(stream) - 1
      /\ Head(stream) = stream[1] /\ \A i \in 1 .. Len(stream) - 1 : Tail(stream)[i] = stream[i + 1]
  OBVIOUS
<1>2. \A i \in 1 .. Len(stream) - 1 : i + 1 \in 1 .. Len(stream)
  BY <1>1
<1> QED  BY <1>1, <1>2 DEF Completed

----------------------------------------------------------------------------
(* A turn *)

Turns ==
  [at : {"none", "linking", "prompting", "running", "answered"},
   reply : {"none", "taken", "lost", "late"}, said : Nat, complete : BOOLEAN, closed : BOOLEAN,
   stream : Seq(Streamed), drawn : Nat, stop : BOOLEAN, failed : BOOLEAN,
   answer : {"none", "error", "end_turn"}]

(* All that was said is drawn or still in the stream; that it is complete  *)
(* is known only if it is, and then nothing comes behind; and who was told *)
(* that it ended has read its stream out.                                  *)
Told(t) ==
  /\ t.drawn + Undrawn(t.stream) = t.said
  /\ t.stop \/ Completed(t.stream) => t.complete
  /\ t.complete => t.closed
  /\ t.answer = "end_turn" => t.complete /\ t.stream = <<>>

(* What a step makes of a turn p: it goes on, or is answered with an       *)
(* error; it ended; Murtaugh says something in it; something of it is read.*)
TurnGoesOn(p, q) ==
  /\ q.drawn = p.drawn /\ q.said = p.said /\ q.stream = p.stream /\ q.stop = p.stop
  /\ q.complete = p.complete /\ (p.closed => q.closed) /\ q.answer \in {p.answer, "error"}
TurnEnded(p, q) ==
  /\ q.drawn = p.drawn /\ q.said = p.said /\ q.stream = p.stream /\ q.stop = p.stop
  /\ q.complete = p.complete /\ q.closed = p.closed
  /\ q.answer = "end_turn" => p.stream = <<>> /\ p.stop
IsSaid(p, q, event) ==
  /\ event \in Streamed /\ ~p.closed /\ q.stream = Append(p.stream, event)
  /\ q.said = p.said + (IF event = "message" THEN 1 ELSE 0)
  /\ q.drawn = p.drawn /\ q.stop = p.stop /\ q.answer = p.answer
  /\ \/ event \notin {"complete", "error"} /\ q.complete = p.complete /\ q.closed = p.closed
     \/ event \in {"complete", "error"} /\ q.complete = (event = "complete") /\ q.closed = TRUE
IsRead(p, q) ==
  /\ p.stream # <<>> /\ q.stream = Tail(p.stream)
  /\ q.stop = (Head(p.stream) = "complete" \/ p.stop)
  /\ q.drawn = p.drawn + (IF Head(p.stream) = "message" THEN 1 ELSE 0)
  /\ q.said = p.said /\ q.complete = p.complete /\ q.closed = p.closed /\ q.answer = p.answer

LEMMA TurnStays ==
  ASSUME NEW p \in Turns, NEW q \in Turns, Told(p),
         TurnGoesOn(p, q) \/ TurnEnded(p, q) \/ IsRead(p, q) \/ \E event : IsSaid(p, q, event)
  PROVE  Told(q)
<1>0. /\ p.stream \in Seq(Streamed) /\ p.drawn \in Nat /\ p.said \in Nat
      /\ q.drawn \in Nat /\ q.said \in Nat
      /\ {p.stop, q.stop, p.complete, q.complete, p.closed, q.closed} \subseteq BOOLEAN
      /\ p.answer \in {"none", "error", "end_turn"} /\ q.answer \in {"none", "error", "end_turn"}
  BY DEF Turns
<1>1. CASE TurnGoesOn(p, q)
  BY <1>0, <1>1 DEF TurnGoesOn, Told
<1>2. CASE TurnEnded(p, q)
  BY <1>0, <1>2 DEF TurnEnded, Told
<1>3. CASE IsRead(p, q)
  <2>1. /\ Undrawn(p.stream) = Undrawn(q.stream) + (IF Head(p.stream) = "message" THEN 1 ELSE 0)
        /\ Head(p.stream) = "complete" \/ Completed(q.stream) => Completed(p.stream)
        /\ q.stream \in Seq(Streamed)
    BY <1>0, <1>3, MessageTaken, WordTaken DEF IsRead
  <2>2. Undrawn(p.stream) \in Nat /\ Undrawn(q.stream) \in Nat
    BY <1>0, <2>1, MessagesCount
  <2>3. q.drawn + Undrawn(q.stream) = q.said
    BY <1>0, <1>3, <2>1, <2>2 DEF IsRead, Told
  <2> QED  BY <1>0, <1>3, <2>1, <2>3 DEF IsRead, Told
<1>4. ASSUME NEW event, IsSaid(p, q, event) PROVE Told(q)
  <2>1. /\ Undrawn(q.stream) = Undrawn(p.stream) + (IF event = "message" THEN 1 ELSE 0)
        /\ Completed(q.stream) => Completed(p.stream) \/ event = "complete"
        /\ Undrawn(p.stream) \in Nat
    BY <1>0, <1>4, MessageSent, WordSent, MessagesCount DEF IsSaid
  <2>2. q.drawn + Undrawn(q.stream) = q.said
    BY <1>0, <1>4, <2>1 DEF IsSaid, Told
  <2>3. ~p.complete /\ ~p.stop /\ ~Completed(p.stream) /\ p.answer # "end_turn" /\ q.answer # "end_turn"
    BY <1>0, <1>4 DEF IsSaid, Told
  <2> QED  BY <1>0, <1>4, <2>1, <2>2, <2>3 DEF IsSaid, Told
<1> QED  BY <1>1, <1>2, <1>3, <1>4

----------------------------------------------------------------------------
(* What holds of every state *)

Calls == [of : Session \cup {NoSession}, held : BOOLEAN, ask : {"none", "asking", "over"},
          person : {"none", "allow", "reject", "failed"}, ran : BOOLEAN]

TurnsTold == turn \in [Session -> Turns] /\ \A s \in Session : Told(turn[s])
CallsFit  == call \in [Call -> Calls]

(* Until it has caught up with the link's events the pump does not say     *)
(* that a link is ready, unless it was introduced.                         *)
LinkFits ==
  /\ link \in [at : {"undialled", "dialling", "up", "closed"}, introduced : BOOLEAN, fresh : Nat]
  /\ ready \in BOOLEAN
PumpFits ==
  /\ pump \in {"introducing", "lost"} => ~ready
  /\ pump = "introduced" /\ link.fresh = 0 /\ Bridged!Up => link.introduced

BridgeInv == TurnsTold /\ CallsFit /\ Bridged!RunsOnlyAllowed /\ LinkFits /\ PumpFits /\ Bridged!ReadyCatchesUp

(* A step that changes one turn. *)
LEMMA OneTurn ==
  ASSUME TurnsTold, NEW s \in Session, NEW q \in Turns, turn' = [turn EXCEPT ![s] = q],
         \/ TurnGoesOn(turn[s], q) \/ TurnEnded(turn[s], q) \/ IsRead(turn[s], q)
         \/ \E event : IsSaid(turn[s], q, event)
  PROVE  TurnsTold'
<1>1. turn \in [Session -> Turns] /\ \A r \in Session : Told(turn[r])
  BY DEF TurnsTold
<1>2. turn' \in [Session -> Turns] /\ turn'[s] = q /\ \A r \in Session \ {s} : turn'[r] = turn[r]
  BY <1>1
<1>3. Told(q)
  BY <1>1, TurnStays
<1> QED  BY <1>1, <1>2, <1>3 DEF TurnsTold

(* The turn's fields. *)
LEMMA TurnFields ==
  ASSUME TurnsTold, NEW s \in Session
  PROVE  /\ turn[s] \in Turns /\ Told(turn[s])
         /\ turn[s].stream \in Seq(Streamed) /\ turn[s].said \in Nat /\ turn[s].drawn \in Nat
         /\ {turn[s].complete, turn[s].closed, turn[s].stop, turn[s].failed} \subseteq BOOLEAN
  BY DEF TurnsTold, Turns

LEMMA SessionTurns ==
  ASSUME BridgeInv, NEW s \in Session,
         Bridged!AsksPrompt(s) \/ Bridged!PromptLinked(s) \/ Bridged!TakesPrompt(s) \/ Bridged!PromptAnswered(s)
         \/ Bridged!PromptTimesOut(s) \/ Bridged!ClosesSession(s) \/ Bridged!TurnEnds(s)
  PROVE  TurnsTold'
<1>0. TurnsTold /\ turn \in [Session -> Turns]
  BY DEF BridgeInv, TurnsTold
<1> DEFINE p == turn[s]
<1>1. p \in Turns
  BY <1>0, TurnFields
<1>2. ASSUME NEW q \in {[p EXCEPT !.at = "linking"], [p EXCEPT !.at = "prompting"], [p EXCEPT !.at = "running"],
                         [p EXCEPT !.reply = "taken"], [p EXCEPT !.reply = "lost"],
                         [p EXCEPT !.at = "answered", !.answer = "error"],
                         [[p EXCEPT !.at = "answered", !.answer = "error"] EXCEPT !.reply = "late"],
                         [p EXCEPT !.closed = TRUE], [p EXCEPT !.closed = @]}
      PROVE  q \in Turns /\ TurnGoesOn(p, q)
  <2>1. CASE q \in {[p EXCEPT !.at = "linking"], [p EXCEPT !.at = "prompting"], [p EXCEPT !.at = "running"]}
    BY <1>1, <2>1 DEF Turns, TurnGoesOn
  <2>2. CASE q \in {[p EXCEPT !.reply = "taken"], [p EXCEPT !.reply = "lost"]}
    BY <1>1, <2>2 DEF Turns, TurnGoesOn
  <2>3. CASE q = [p EXCEPT !.at = "answered", !.answer = "error"]
    BY <1>1, <2>3 DEF Turns, TurnGoesOn
  <2>4. CASE q = [[p EXCEPT !.at = "answered", !.answer = "error"] EXCEPT !.reply = "late"]
    BY <1>1, <2>4 DEF Turns, TurnGoesOn
  <2>5. CASE q \in {[p EXCEPT !.closed = TRUE], [p EXCEPT !.closed = @]}
    BY <1>1, <2>5 DEF Turns, TurnGoesOn
  <2> QED  BY <1>2, <2>1, <2>2, <2>3, <2>4, <2>5
<1>3. ASSUME NEW q, q = [p EXCEPT !.at = "answered", !.answer = Bridged!Outcome(p)], Bridged!TurnEnds(s)
      PROVE  q \in Turns /\ TurnEnded(p, q)
  <2>1. Bridged!Outcome(p) \in {"end_turn", "error"} /\ (Bridged!Outcome(p) = "end_turn" => p.stop)
    BY DEF Bridged!Outcome
  <2>2. q \in Turns /\ q.answer = Bridged!Outcome(p) /\ q.drawn = p.drawn /\ q.said = p.said
        /\ q.stream = p.stream /\ q.stop = p.stop /\ q.complete = p.complete /\ q.closed = p.closed
    BY <1>1, <1>3, <2>1 DEF Turns
  <2>3. p.stream = <<>>
    BY <1>3 DEF Bridged!TurnEnds
  <2> QED  BY <2>1, <2>2, <2>3 DEF TurnEnded
<1> HIDE DEF p
<1>4. CASE Bridged!AsksPrompt(s)
  <2>1. turn' = [turn EXCEPT ![s] = [p EXCEPT !.at = "linking"]]
    BY <1>4 DEF Bridged!AsksPrompt, p
  <2> QED  BY <1>0, <1>2, <2>1, OneTurn DEF p
<1>5. CASE Bridged!PromptLinked(s)
  <2>1. \/ turn' = [turn EXCEPT ![s] = [p EXCEPT !.at = "prompting"]]
        \/ turn' = [turn EXCEPT ![s] = [p EXCEPT !.at = "answered", !.answer = "error"]]
    BY <1>5 DEF Bridged!PromptLinked, Bridged!Answers, p
  <2> QED  BY <1>0, <1>2, <2>1, OneTurn DEF p
<1>6. CASE Bridged!TakesPrompt(s)
  <2>1. \/ turn' = [turn EXCEPT ![s] = [p EXCEPT !.reply = "taken"]]
        \/ turn' = [turn EXCEPT ![s] = [p EXCEPT !.reply = "lost"]]
    BY <1>6 DEF Bridged!TakesPrompt, p
  <2> QED  BY <1>0, <1>2, <2>1, OneTurn DEF p
<1>7. CASE Bridged!PromptAnswered(s)
  <2>1. \/ turn' = [turn EXCEPT ![s] = [p EXCEPT !.at = "running"]]
        \/ turn' = [turn EXCEPT ![s] = [p EXCEPT !.at = "answered", !.answer = "error"]]
    BY <1>7 DEF Bridged!PromptAnswered, Bridged!Answers, p
  <2> QED  BY <1>0, <1>2, <2>1, OneTurn DEF p
<1>8. CASE Bridged!PromptTimesOut(s)
  <2>1. turn' = [turn EXCEPT ![s] = [[p EXCEPT !.at = "answered", !.answer = "error"] EXCEPT !.reply = "late"]]
    BY <1>8 DEF Bridged!PromptTimesOut, Bridged!Answers, p
  <2> QED  BY <1>0, <1>2, <2>1, OneTurn DEF p
<1>9. CASE Bridged!ClosesSession(s)
  <2>1. \/ turn' = [turn EXCEPT ![s] = [p EXCEPT !.closed = TRUE]]
        \/ turn' = [turn EXCEPT ![s] = [p EXCEPT !.closed = @]]
    <3>1. turn' = [turn EXCEPT ![s] = [p EXCEPT !.closed = p.reply = "taken" \/ p.closed]]
      BY <1>9 DEF Bridged!ClosesSession, p
    <3>2. p.closed \in BOOLEAN
      BY <1>1 DEF Turns
    <3> QED  BY <3>1, <3>2
  <2> QED  BY <1>0, <1>2, <2>1, OneTurn DEF p
<1>10. CASE Bridged!TurnEnds(s)
  <2>1. turn' = [turn EXCEPT ![s] = [p EXCEPT !.at = "answered", !.answer = Bridged!Outcome(p)]]
    BY <1>10 DEF Bridged!TurnEnds, Bridged!Answers, p
  <2> QED  BY <1>0, <1>3, <1>10, <2>1, OneTurn DEF p
<1> QED  BY <1>4, <1>5, <1>6, <1>7, <1>8, <1>9, <1>10

LEMMA SaidTurns ==
  ASSUME BridgeConstants, BridgeInv, NEW s \in Session,
         Bridged!Says(s) \/ (\E c \in Call : Bridged!Holds(s, c)) \/ Bridged!Ends(s) \/ Bridged!Cancels(s) \/ Bridged!Receives(s)
  PROVE  TurnsTold'
<1>0. TurnsTold /\ turn \in [Session -> Turns]
  BY DEF BridgeInv, TurnsTold
<1> DEFINE p == turn[s]
<1>1. p \in Turns /\ p.stream \in Seq(Streamed) /\ p.said \in Nat /\ p.drawn \in Nat
      /\ p.stop \in BOOLEAN /\ p.failed \in BOOLEAN
  BY <1>0, TurnFields
<1>2. \A event \in Streamed : Append(p.stream, event) \in Seq(Streamed)
  BY <1>1, MessageSent
<1> HIDE DEF p
<1>3. CASE Bridged!Says(s)
  <2> DEFINE q == [p EXCEPT !.stream = Append(@, "message"), !.said = @ + 1]
  <2>1. "message" \in Streamed
    BY DEF Streamed
  <2>2. /\ q \in Turns /\ q.stream = Append(p.stream, "message") /\ q.said = p.said + 1 /\ q.drawn = p.drawn
        /\ q.stop = p.stop /\ q.answer = p.answer /\ q.complete = p.complete /\ q.closed = p.closed
    <3>1. p.said + 1 \in Nat /\ Append(p.stream, "message") \in Seq(Streamed)
      BY <1>1, <1>2, <2>1
    <3> QED  BY <1>1, <3>1 DEF Turns
  <2>3. turn' = [turn EXCEPT ![s] = q]
    BY <1>0, <1>3 DEF Bridged!Says, Bridged!Sends, p
  <2>4. ~p.closed
    BY <1>3 DEF Bridged!Says, Bridged!Working, p
  <2> HIDE DEF q
  <2>5. IsSaid(p, q, "message")
    BY <2>1, <2>2, <2>4 DEF IsSaid
  <2> QED  BY <1>0, <2>2, <2>3, <2>5, OneTurn DEF p
<1>4. ASSUME NEW c \in Call, Bridged!Holds(s, c) PROVE TurnsTold'
  <2> DEFINE q == [p EXCEPT !.stream = Append(@, c)]
  <2>1. c \in Streamed /\ c \notin {"message", "complete", "error"}
    BY <1>4 DEF Streamed, BridgeConstants, Bridged!CallAssumption
  <2>2. /\ q \in Turns /\ q.stream = Append(p.stream, c) /\ q.said = p.said /\ q.drawn = p.drawn
        /\ q.stop = p.stop /\ q.answer = p.answer /\ q.complete = p.complete /\ q.closed = p.closed
    <3>1. Append(p.stream, c) \in Seq(Streamed)
      BY <1>2, <2>1
    <3> QED  BY <1>1, <3>1 DEF Turns
  <2>3. turn' = [turn EXCEPT ![s] = q]
    BY <1>0, <1>4 DEF Bridged!Holds, Bridged!Sends, p
  <2>4. ~p.closed
    BY <1>4 DEF Bridged!Holds, Bridged!Working, p
  <2> HIDE DEF q
  <2>5. IsSaid(p, q, c)
    BY <1>1, <2>1, <2>2, <2>4 DEF IsSaid
  <2> QED  BY <1>0, <2>2, <2>3, <2>5, OneTurn DEF p
<1>5. ASSUME NEW how \in {"complete", "error"}, Bridged!Completes(s, how), ~p.closed
      PROVE  TurnsTold'
  <2> DEFINE q == [p EXCEPT !.stream = Append(@, how), !.complete = (how = "complete"), !.closed = TRUE]
  <2>1. how \in Streamed /\ how # "message"
    BY DEF Streamed
  <2>2. /\ q \in Turns /\ q.stream = Append(p.stream, how) /\ q.said = p.said /\ q.drawn = p.drawn
        /\ q.stop = p.stop /\ q.answer = p.answer /\ q.complete = (how = "complete") /\ q.closed = TRUE
    <3>1. Append(p.stream, how) \in Seq(Streamed)
      BY <1>2, <2>1
    <3> QED  BY <1>1, <3>1 DEF Turns
  <2>3. turn' = [turn EXCEPT ![s] = q]
    BY <1>0, <1>5 DEF Bridged!Completes, Bridged!Sends, p
  <2> HIDE DEF q
  <2>5. IsSaid(p, q, how)
    BY <1>1, <1>5, <2>1, <2>2 DEF IsSaid
  <2> QED  BY <1>0, <2>2, <2>3, <2>5, OneTurn DEF p
<1>6. CASE Bridged!Ends(s)
  <2>1. PICK how \in {"complete", "error"} : Bridged!Working(s) /\ Bridged!Completes(s, how)
    BY <1>6 DEF Bridged!Ends
  <2> QED  BY <1>5, <2>1 DEF Bridged!Working, p
<1>7. CASE Bridged!Cancels(s)
  BY <1>5, <1>7 DEF Bridged!Cancels, p
<1>8. CASE Bridged!Receives(s)
  <2> DEFINE e == Head(p.stream)
             q == [[p EXCEPT !.drawn = IF e = "message" THEN @ + 1 ELSE @] EXCEPT
                     !.stream = Tail(@), !.stop = (e = "complete") \/ @, !.failed = (e = "error") \/ @]
  <2>1. p.stream # <<>>
    BY <1>8 DEF Bridged!Receives, p
  <2>2. Tail(p.stream) \in Seq(Streamed)
    BY <1>1, <2>1, MessageTaken
  <2>3. turn' = [turn EXCEPT ![s] = q]
    BY <1>8 DEF Bridged!Receives, Bridged!Draws, p
  <2> HIDE DEF e
  <2>4. /\ q \in Turns /\ q.stream = Tail(p.stream) /\ q.stop = (e = "complete" \/ p.stop)
        /\ q.drawn = (IF e = "message" THEN p.drawn + 1 ELSE p.drawn)
        /\ q.said = p.said /\ q.complete = p.complete /\ q.closed = p.closed /\ q.answer = p.answer
    <3> DEFINE drew == [p EXCEPT !.drawn = IF e = "message" THEN @ + 1 ELSE @]
    <3>1. /\ drew \in Turns /\ drew.drawn = (IF e = "message" THEN p.drawn + 1 ELSE p.drawn)
          /\ drew.stream = p.stream /\ drew.stop = p.stop /\ drew.failed = p.failed
          /\ drew.said = p.said /\ drew.complete = p.complete /\ drew.closed = p.closed
          /\ drew.answer = p.answer
      <4>1. (IF e = "message" THEN p.drawn + 1 ELSE p.drawn) \in Nat
        BY <1>1
      <4> QED  BY <1>1, <4>1 DEF Turns
    <3>2. q = [drew EXCEPT !.stream = Tail(p.stream), !.stop = (e = "complete") \/ p.stop,
                           !.failed = (e = "error") \/ p.failed]
      BY <3>1
    <3> HIDE DEF drew, q
    <3>3. ((e = "complete") \/ p.stop) \in BOOLEAN /\ ((e = "error") \/ p.failed) \in BOOLEAN
      OBVIOUS
    <3> QED  BY <2>2, <3>1, <3>2, <3>3 DEF Turns
  <2> HIDE DEF q
  <2>5. IsRead(p, q)
    BY <1>1, <2>1, <2>4 DEF IsRead, e
  <2> QED  BY <1>0, <2>3, <2>4, <2>5, OneTurn DEF p
<1> QED  BY <1>3, <1>4, <1>6, <1>7, <1>8

LEMMA LosesTurns ==
  ASSUME BridgeInv, NEW at, NEW fresh, Bridged!Loses(at, fresh)
  PROVE  TurnsTold'
<1>0. TurnsTold /\ turn \in [Session -> Turns]
  BY DEF BridgeInv, TurnsTold
<1>1. ASSUME NEW s \in Session PROVE turn'[s] \in Turns /\ Told(turn'[s])
  <2> DEFINE p == turn[s]
  <2>1. p \in Turns /\ Told(p)
    BY <1>0, TurnFields
  <2>2. turn'[s] = [p EXCEPT !.reply = IF p.at = "prompting" /\ p.reply = "none" THEN "lost" ELSE p.reply,
                             !.closed = p.reply = "taken" \/ p.closed]
    BY <1>1 DEF Bridged!Loses
  <2> HIDE DEF p
  <2>3. turn'[s] \in Turns /\ TurnGoesOn(p, turn'[s])
    <3>1. /\ (IF p.at = "prompting" /\ p.reply = "none" THEN "lost" ELSE p.reply) \in {"none", "taken", "lost", "late"}
          /\ (p.reply = "taken" \/ p.closed) \in BOOLEAN
      BY <2>1 DEF Turns
    <3> QED  BY <2>1, <2>2, <3>1 DEF Turns, TurnGoesOn
  <2> QED  BY <2>1, <2>3, TurnStays
<1>2. turn' = [s \in Session |-> turn'[s]]
  BY DEF Bridged!Loses
<1> QED  BY <1>1, <1>2 DEF TurnsTold

(* Who is asked, and what runs. *)
LEMMA CallsStay ==
  ASSUME BridgeConstants, BridgeInv, Bridged!Next
  PROVE  CallsFit' /\ Bridged!RunsOnlyAllowed'
<1>0. call \in [Call -> Calls] /\ Bridged!RunsOnlyAllowed
  BY DEF BridgeInv, CallsFit
<1>1. ASSUME NEW calls, NEW c \in Call,
             calls = [call EXCEPT ![c] = calls[c]], calls[c] \in Calls,
             calls[c].ran => calls[c].person = "allow", call' = calls
      PROVE  CallsFit' /\ Bridged!RunsOnlyAllowed'
  BY <1>0, <1>1 DEF CallsFit, Bridged!RunsOnlyAllowed
<1>2. ASSUME call' = [c \in Call |-> call'[c]],
             \A c \in Call : call'[c] \in {call[c], [call[c] EXCEPT !.held = FALSE], [call[c] EXCEPT !.ask = "asking"]}
      PROVE  CallsFit' /\ Bridged!RunsOnlyAllowed'
  <2>1. ASSUME NEW c \in Call
        PROVE  call'[c] \in Calls /\ call'[c].ran = call[c].ran /\ call'[c].person = call[c].person
    <3>1. call[c] \in Calls
      BY <1>0
    <3>2. \A q \in {[call[c] EXCEPT !.held = FALSE], [call[c] EXCEPT !.ask = "asking"]} :
            q \in Calls /\ q.ran = call[c].ran /\ q.person = call[c].person
      BY <3>1 DEF Calls
    <3> QED  BY <1>2, <3>1, <3>2
  <2> QED  BY <1>0, <1>2, <2>1 DEF CallsFit, Bridged!RunsOnlyAllowed
<1>3. CASE UNCHANGED call
  BY <1>0, <1>3 DEF CallsFit, Bridged!RunsOnlyAllowed
<1>4. CASE Bridged!StartsOver \/ Bridged!LinkEnds \/ \E s \in Session : Bridged!ClosesSession(s) \/ Bridged!Cancels(s) \/ Bridged!Receives(s)
  BY <1>2, <1>4 DEF Bridged!StartsOver, Bridged!LinkEnds, Bridged!Loses, Bridged!ClosesSession,
       Bridged!Cancels, Bridged!Receives, Bridged!Asks
<1>5. ASSUME NEW s \in Session, NEW c \in Call, Bridged!Holds(s, c)
      PROVE  CallsFit' /\ Bridged!RunsOnlyAllowed'
  <2>1. call' = [call EXCEPT ![c] = [call[c] EXCEPT !.of = s, !.held = TRUE]] /\ call[c] = Bridged!NoCall
    BY <1>0, <1>5 DEF Bridged!Holds
  <2>2. /\ [call[c] EXCEPT !.of = s, !.held = TRUE] \in Calls
        /\ [call[c] EXCEPT !.of = s, !.held = TRUE].ran = FALSE
    <3>1. Bridged!NoCall \in Calls /\ Bridged!NoCall.ran = FALSE
      BY DEF Bridged!NoCall, Calls
    <3> QED  BY <2>1, <3>1 DEF Calls
  <2> QED  BY <1>0, <2>1, <2>2 DEF CallsFit, Bridged!RunsOnlyAllowed
<1>6. ASSUME NEW c \in Call, NEW choice \in {"allow", "reject", "failed"}, Bridged!PersonDecides(c, choice)
      PROVE  CallsFit' /\ Bridged!RunsOnlyAllowed'
  <2>1. call' = [call EXCEPT ![c] = [call[c] EXCEPT !.person = choice]] /\ call[c].person = "none"
    BY <1>0, <1>6 DEF Bridged!PersonDecides
  <2>2. call[c] \in Calls /\ ~call[c].ran
    BY <1>0, <2>1 DEF Bridged!RunsOnlyAllowed, Calls
  <2>3. [call[c] EXCEPT !.person = choice] \in Calls /\ [call[c] EXCEPT !.person = choice].ran = FALSE
    BY <2>2 DEF Calls
  <2> QED  BY <1>0, <2>1, <2>3 DEF CallsFit, Bridged!RunsOnlyAllowed
<1>7. ASSUME NEW c \in Call, Bridged!Decided(c) PROVE CallsFit' /\ Bridged!RunsOnlyAllowed'
  <2> DEFINE q == [call[c] EXCEPT !.ask = "over", !.held = FALSE,
                                  !.ran = call[c].held /\ Bridged!Allows(call[c].person)]
  <2>1. call' = [call EXCEPT ![c] = q]
    BY <1>0, <1>7 DEF Bridged!Decided
  <2>2. call[c] \in Calls
    BY <1>0
  <2>3. q \in Calls /\ (q.ran => q.person = "allow")
    BY <2>2 DEF Calls, Bridged!Allows
  <2> HIDE DEF q
  <2> QED  BY <1>0, <2>1, <2>3 DEF CallsFit, Bridged!RunsOnlyAllowed
<1>8. \/ UNCHANGED call
      \/ Bridged!StartsOver \/ Bridged!LinkEnds \/ \E s \in Session : Bridged!ClosesSession(s) \/ Bridged!Cancels(s) \/ Bridged!Receives(s)
      \/ \E s \in Session, c \in Call : Bridged!Holds(s, c)
      \/ \E c \in Call, choice \in {"allow", "reject", "failed"} : Bridged!PersonDecides(c, choice)
      \/ \E c \in Call : Bridged!Decided(c)
  BY DEF Bridged!Next, Bridged!Bridging, Bridged!PersonActs, Bridged!Turning, Bridged!Connects,
       Bridged!TakesIntroduction, Bridged!Introduces, Bridged!Introduced,
         Bridged!NotIntroduced, Bridged!PumpEnds, Bridged!SessionLinked,
         Bridged!SessionAnswered, Bridged!AsksSession, Bridged!Creates, Bridged!AsksPrompt,
         Bridged!TakesPrompt, Bridged!PromptTimesOut, Bridged!PromptLinked,
         Bridged!PromptAnswered, Bridged!TurnEnds, Bridged!Says, Bridged!Ends, Bridged!Completes
<1> QED  BY <1>3, <1>4, <1>5, <1>6, <1>7, <1>8

LEMMA TurnsStay ==
  ASSUME BridgeConstants, BridgeInv, Bridged!Next
  PROVE  TurnsTold'
<1>1. CASE UNCHANGED turn
  BY <1>1 DEF BridgeInv, TurnsTold
<1>2. \/ UNCHANGED turn
      \/ \E at \in {"up", "closed"}, fresh \in {0, 1} : Bridged!Loses(at, fresh)
      \/ \E s \in Session :
           \/ Bridged!AsksPrompt(s) \/ Bridged!PromptLinked(s) \/ Bridged!TakesPrompt(s) \/ Bridged!PromptAnswered(s)
           \/ Bridged!PromptTimesOut(s) \/ Bridged!ClosesSession(s) \/ Bridged!TurnEnds(s)
           \/ Bridged!Says(s) \/ (\E c \in Call : Bridged!Holds(s, c)) \/ Bridged!Ends(s) \/ Bridged!Cancels(s) \/ Bridged!Receives(s)
  BY DEF Bridged!Next, Bridged!Bridging, Bridged!PersonActs, Bridged!PersonDecides,
       Bridged!Decided, Bridged!Turning, Bridged!StartsOver, Bridged!LinkEnds, Bridged!Connects,
         Bridged!TakesIntroduction, Bridged!Introduces, Bridged!Introduced,
         Bridged!NotIntroduced, Bridged!PumpEnds, Bridged!SessionLinked,
         Bridged!SessionAnswered, Bridged!AsksSession, Bridged!Creates
<1> QED  BY <1>1, <1>2, SessionTurns, SaidTurns, LosesTurns

(* The pump and its link. *)
LEMMA PumpStays ==
  ASSUME BridgeConstants, BridgeInv, Bridged!Next
  PROVE  LinkFits' /\ PumpFits' /\ Bridged!ReadyCatchesUp'
<1>0. /\ link \in [at : {"undialled", "dialling", "up", "closed"}, introduced : BOOLEAN, fresh : Nat]
      /\ ready \in BOOLEAN /\ PumpFits /\ Bridged!ReadyCatchesUp
      /\ link.fresh \in Nat
  BY DEF BridgeInv, LinkFits
<1>1. CASE UNCHANGED <<link, ready, pump>>
  BY <1>0, <1>1 DEF LinkFits, PumpFits, Bridged!ReadyCatchesUp, Bridged!Up
<1>2. CASE Bridged!Connects
  <2>1. link' = [link EXCEPT !.at = "up", !.fresh = link.fresh + 1] /\ UNCHANGED <<ready, pump>>
    BY <1>2 DEF Bridged!Connects
  <2>2. /\ link'.fresh = link.fresh + 1
        /\ link' \in [at : {"undialled", "dialling", "up", "closed"}, introduced : BOOLEAN, fresh : Nat]
    <3>1. link.fresh + 1 \in Nat /\ link.fresh + 1 > 0
      BY <1>0
    <3> QED  BY <1>0, <2>1, <3>1
  <2> QED  BY <1>0, <2>1, <2>2 DEF LinkFits, PumpFits, Bridged!ReadyCatchesUp
<1>3. ASSUME NEW at \in {"up", "closed"}, NEW fresh \in {0, 1}, Bridged!Loses(at, fresh), at = "up" => fresh = 1
      PROVE  LinkFits' /\ PumpFits' /\ Bridged!ReadyCatchesUp'
  <2>1. /\ link' = [at |-> at, introduced |-> FALSE, fresh |-> link.fresh + fresh] /\ UNCHANGED ready
        /\ pump' = IF pump = "introducing" THEN "lost" ELSE pump
    BY <1>3 DEF Bridged!Loses
  <2>2. /\ link' \in [at : {"undialled", "dialling", "up", "closed"}, introduced : BOOLEAN, fresh : Nat]
        /\ link'.at = "up" => link'.fresh > 0
    BY <1>0, <1>3, <2>1
  <2> QED  BY <1>0, <2>1, <2>2 DEF LinkFits, PumpFits, Bridged!ReadyCatchesUp, Bridged!Up
<1>4. CASE Bridged!Introduces
  <2>1. link' = [link EXCEPT !.fresh = link.fresh - 1] /\ link.fresh > 0 /\ ready' = FALSE
        /\ pump' \in {"introducing", "lost"}
    BY <1>4 DEF Bridged!Introduces, Bridged!NotReady
  <2>2. link' \in [at : {"undialled", "dialling", "up", "closed"}, introduced : BOOLEAN, fresh : Nat]
    BY <1>0, <2>1
  <2> QED  BY <2>1, <2>2 DEF LinkFits, PumpFits, Bridged!ReadyCatchesUp
<1>5. CASE Bridged!TakesIntroduction
  <2>1. /\ link' = [link EXCEPT !.introduced = TRUE] /\ pump' = "introduced" /\ UNCHANGED ready
    BY <1>5 DEF Bridged!TakesIntroduction
  <2>2. /\ link' \in [at : {"undialled", "dialling", "up", "closed"}, introduced : BOOLEAN, fresh : Nat]
        /\ link'.introduced = TRUE
    BY <1>0, <2>1
  <2> QED  BY <1>0, <2>1, <2>2 DEF LinkFits, PumpFits, Bridged!ReadyCatchesUp
<1>6. CASE Bridged!Introduced
  BY <1>0, <1>6 DEF Bridged!Introduced, LinkFits, PumpFits, Bridged!ReadyCatchesUp, Bridged!Up
<1>7. CASE Bridged!NotIntroduced
  BY <1>0, <1>7 DEF Bridged!NotIntroduced, LinkFits, PumpFits, Bridged!ReadyCatchesUp,
       Bridged!Up
<1>8. CASE Bridged!PumpEnds
  BY <1>0, <1>8 DEF Bridged!PumpEnds, LinkFits, PumpFits, Bridged!ReadyCatchesUp, Bridged!Up
<1>9. ASSUME NEW s \in Session, Bridged!AsksSession(s)
      PROVE  LinkFits' /\ PumpFits' /\ Bridged!ReadyCatchesUp'
  <2>1. /\ UNCHANGED <<ready, pump>>
        /\ UNCHANGED link \/ link' = [link EXCEPT !.at = "dialling"]
    BY <1>9 DEF Bridged!AsksSession
  <2>2. CASE UNCHANGED link
    <3>1. UNCHANGED <<link, ready, pump>>
      BY <2>1, <2>2
    <3> QED  BY <1>1, <3>1
  <2>3. CASE link' = [link EXCEPT !.at = "dialling"]
    <3>1. /\ link' \in [at : {"undialled", "dialling", "up", "closed"}, introduced : BOOLEAN, fresh : Nat]
          /\ link'.at = "dialling"
      BY <1>0, <2>3
    <3> QED  BY <1>0, <2>1, <3>1 DEF LinkFits, PumpFits, Bridged!ReadyCatchesUp, Bridged!Up
  <2> QED  BY <2>1, <2>2, <2>3
<1>10. ASSUME NEW s \in Session,
              \/ Bridged!Creates(s) \/ Bridged!ClosesSession(s) \/ Bridged!AsksPrompt(s)
              \/ Bridged!TakesPrompt(s) \/ Bridged!PromptTimesOut(s) \/ Bridged!Turning(s)
              \/ Bridged!Says(s) \/ Bridged!Ends(s) \/ Bridged!Cancels(s)
              \/ Bridged!SessionLinked(s) \/ Bridged!SessionAnswered(s)
              \/ \E c \in Call : Bridged!Holds(s, c)
       PROVE  UNCHANGED <<link, ready, pump>>
  <2>1. CASE Bridged!Creates(s) \/ Bridged!ClosesSession(s)
    BY <2>1 DEF Bridged!Creates, Bridged!ClosesSession
  <2>2. CASE Bridged!AsksPrompt(s) \/ Bridged!TakesPrompt(s) \/ Bridged!PromptTimesOut(s)
    BY <2>2 DEF Bridged!AsksPrompt, Bridged!TakesPrompt, Bridged!PromptTimesOut
  <2>3. CASE Bridged!Turning(s)
    <3>1. CASE Bridged!PromptLinked(s)
      BY <3>1 DEF Bridged!PromptLinked
    <3>2. CASE Bridged!PromptAnswered(s)
      BY <3>2 DEF Bridged!PromptAnswered
    <3>3. CASE Bridged!Receives(s)
      BY <3>3 DEF Bridged!Receives
    <3>4. CASE Bridged!TurnEnds(s)
      BY <3>4 DEF Bridged!TurnEnds
    <3> QED  BY <2>3, <3>1, <3>2, <3>3, <3>4 DEF Bridged!Turning
  <2>4. CASE Bridged!Says(s) \/ Bridged!Ends(s) \/ Bridged!Cancels(s)
    BY <2>4 DEF Bridged!Says, Bridged!Ends, Bridged!Cancels, Bridged!Completes
  <2>5. CASE Bridged!SessionLinked(s) \/ Bridged!SessionAnswered(s)
    BY <2>5 DEF Bridged!SessionLinked, Bridged!SessionAnswered
  <2>6. CASE \E c \in Call : Bridged!Holds(s, c)
    BY <2>6 DEF Bridged!Holds
  <2> QED  BY <1>10, <2>1, <2>2, <2>3, <2>4, <2>5, <2>6
<1>11. CASE Bridged!PersonActs \/ \E c \in Call : Bridged!Decided(c)
  <2>1. UNCHANGED <<link, ready, pump>>
    BY <1>11 DEF Bridged!PersonActs, Bridged!PersonDecides, Bridged!Decided
  <2> QED  BY <1>1, <2>1
<1>12. Bridged!Loses("up", 1) = Bridged!StartsOver /\ Bridged!Loses("closed", 0) = Bridged!LinkEnds
  BY DEF Bridged!StartsOver, Bridged!LinkEnds
<1>13. CASE Bridged!StartsOver
  BY <1>3, <1>12, <1>13
<1>14. CASE Bridged!LinkEnds
  BY <1>3, <1>12, <1>14
<1>15. CASE Bridged!Bridging
  <2>1. ASSUME NEW s \in Session, Bridged!SessionLinked(s) \/ Bridged!SessionAnswered(s)
        PROVE  UNCHANGED <<link, ready, pump>>
    BY <1>10, <2>1
  <2> QED  BY <1>1, <1>4, <1>6, <1>7, <1>8, <1>15, <2>1 DEF Bridged!Bridging
<1>16. CASE \E s \in Session :
              \/ Bridged!AsksSession(s) \/ Bridged!Creates(s) \/ Bridged!ClosesSession(s)
              \/ Bridged!AsksPrompt(s) \/ Bridged!TakesPrompt(s) \/ Bridged!PromptTimesOut(s)
              \/ Bridged!Turning(s) \/ Bridged!Says(s) \/ Bridged!Ends(s) \/ Bridged!Cancels(s)
              \/ \E c \in Call : Bridged!Holds(s, c)
  <2>1. PICK s \in Session :
              \/ Bridged!AsksSession(s) \/ Bridged!Creates(s) \/ Bridged!ClosesSession(s)
              \/ Bridged!AsksPrompt(s) \/ Bridged!TakesPrompt(s) \/ Bridged!PromptTimesOut(s)
              \/ Bridged!Turning(s) \/ Bridged!Says(s) \/ Bridged!Ends(s) \/ Bridged!Cancels(s)
              \/ \E c \in Call : Bridged!Holds(s, c)
    BY <1>16
  <2>2. CASE Bridged!AsksSession(s)
    BY <1>9, <2>2
  <2>3. CASE ~Bridged!AsksSession(s)
    <3>1. UNCHANGED <<link, ready, pump>>
      BY <1>10, <2>1, <2>3
    <3> QED  BY <1>1, <3>1
  <2> QED  BY <2>2, <2>3
<1> QED  BY <1>2, <1>5, <1>11, <1>13, <1>14, <1>15, <1>16 DEF Bridged!Next

LEMMA InitBridge == ASSUME BridgeConstants, Bridged!Init PROVE BridgeInv
<1>1. TurnsTold
  <2>1. Bridged!NoTurn \in Turns /\ Bridged!NoTurn.stream = <<>>
    <3>1. <<>> \in Seq(Streamed)
      OBVIOUS
    <3> QED  BY <3>1 DEF Bridged!NoTurn, Turns
  <2>2. ~Completed(<<>>)
    BY DEF Completed
  <2>3. Told(Bridged!NoTurn)
    BY <2>1, <2>2, NoMessages DEF Bridged!NoTurn, Told
  <2> QED  BY <2>1, <2>3 DEF Bridged!Init, TurnsTold
<1>2. CallsFit /\ Bridged!RunsOnlyAllowed
  BY DEF Bridged!Init, CallsFit, Bridged!RunsOnlyAllowed, Bridged!NoCall, Calls
<1>3. LinkFits /\ PumpFits /\ Bridged!ReadyCatchesUp
  BY DEF Bridged!Init, LinkFits, PumpFits, Bridged!ReadyCatchesUp, Bridged!Up
<1> QED  BY <1>1, <1>2, <1>3 DEF BridgeInv

LEMMA EndsDrawn == ASSUME BridgeInv PROVE Bridged!EndedIsEnded
<1> SUFFICES ASSUME NEW s \in Session, turn[s].answer = "end_turn"
             PROVE  turn[s].complete /\ turn[s].drawn = turn[s].said
  BY DEF Bridged!EndedIsEnded
<1>1. turn[s] \in Turns /\ Told(turn[s])
  BY DEF BridgeInv, TurnsTold
<1> QED  BY <1>1, NoMessages DEF Told, Turns

(* A turn that the editor is told has ended was ended by Murtaugh and is   *)
(* drawn to its last message; a held call is run only if the person chose  *)
(* to allow it; and once the pump has caught up, a link that is said to be *)
(* ready was introduced (bridge.rs): for any sessions, calls and messages, *)
(* and a link that starts over and answers that come late at any moment.   *)
THEOREM BridgeKeepsWord ==
  ASSUME BridgeConstants
  PROVE  Bridged!Spec => [](Bridged!EndedIsEnded /\ Bridged!RunsOnlyAllowed /\ Bridged!ReadyCatchesUp)
<1>1. Bridged!Init => BridgeInv
  BY InitBridge
<1>2. BridgeInv /\ [Bridged!Next]_(Bridged!vars) => BridgeInv'
  <2>1. ASSUME BridgeInv, UNCHANGED Bridged!vars PROVE BridgeInv'
    BY <2>1 DEF Bridged!vars, BridgeInv, TurnsTold, CallsFit, Bridged!RunsOnlyAllowed,
         LinkFits, PumpFits, Bridged!ReadyCatchesUp, Bridged!Up
  <2>2. ASSUME BridgeInv, Bridged!Next PROVE BridgeInv'
    BY <2>2, TurnsStay, CallsStay, PumpStays DEF BridgeInv
  <2> QED  BY <2>1, <2>2
<1>3. BridgeInv => Bridged!EndedIsEnded /\ Bridged!RunsOnlyAllowed /\ Bridged!ReadyCatchesUp
  BY EndsDrawn DEF BridgeInv
<1> QED  BY <1>1, <1>2, <1>3, PTL DEF Bridged!Spec

----------------------------------------------------------------------------
(* The clocks of a turn *)

(* What the constants are. *)
WatchConstants == Watched!TimesAssumption /\ Watched!BoundsAssumption

----------------------------------------------------------------------------
(* What holds of every state *)

Ages   == [DOMAIN tools -> Nat]
LoopOf == [at : {"select", "showing", "finishing", "stopping", "joining", "over"}, quiet : Nat,
           ending : {"none", "quiet", "wedged", "closed"}]
ThinkerOf == [at : {"setting", "asleep", "gone"}, stop : BOOLEAN]
SpentOf    == [events : Nat, slow : Nat, faults : Nat]

WatchKinds ==
  /\ loop \in LoopOf /\ thinker \in ThinkerOf /\ used \in SpentOf
  /\ tools \in Ages /\ silence \in Nat
  /\ waiting \in Nat /\ signing \in BOOLEAN /\ status \in BOOLEAN

(* A tool is stamped when it starts to run; nothing is silent while a      *)
(* person is waited on; and a turn is silent for longer than its timer     *)
(* only because its tools were young when the timer last ran out.          *)
Young == DOMAIN tools # {} /\ \A t \in DOMAIN tools : tools[t] < ToolCeiling + loop.quiet
Clocks ==
  /\ tools = ran
  /\ Watched!Awaited => silence = 0
  /\ silence <= loop.quiet \/ Young

(* The loop is past its turn only when the status is gone for good. *)
StatusSettled == Watched!Over => thinker.at = "gone" /\ (used.faults = 0 => ~status)

WInv == WatchKinds /\ Clocks /\ StatusSettled

----------------------------------------------------------------------------
(* The steps *)

LEMMA LaterIs == ASSUME WatchConstants, NEW n \in Nat PROVE Watched!Later(n) \in Nat /\ Watched!Later(n) <= n + 1
BY DEF Watched!Later

LEMMA SpendsOne ==
  ASSUME WatchKinds, NEW what \in {"events", "slow", "faults"}, Watched!Counts(what)
  PROVE  used' \in SpentOf /\ (what # "faults" => used'.faults = used.faults)
                           /\ (what = "faults" => used'.faults # 0)
<1>1. used \in SpentOf /\ used' = [used EXCEPT ![what] = @ + 1]
  BY DEF WatchKinds, Watched!Counts
<1>2. used[what] + 1 \in Nat /\ used[what] + 1 # 0
  BY <1>1 DEF SpentOf
<1>3. CASE what = "events"
  BY <1>1, <1>2, <1>3 DEF SpentOf
<1>4. CASE what = "slow"
  BY <1>1, <1>2, <1>4 DEF SpentOf
<1>5. CASE what = "faults"
  BY <1>1, <1>2, <1>5 DEF SpentOf
<1> QED  BY <1>3, <1>4, <1>5

(* The node's and the persons' steps wait on nobody new. *)
LEMMA OutsideKeeps ==
  ASSUME WatchConstants, WInv, (\E e \in Watched!Events : Watched!Sends(e)) \/ Watched!Closes \/ Watched!CardEnds \/ Watched!SignInEnds
  PROVE  WInv'
<1>1. used' \in SpentOf /\ used'.faults = used.faults
  <2>1. CASE \E e \in Watched!Events : Watched!Sends(e)
    BY <2>1, SpendsOne DEF Watched!Sends, WInv
  <2>2. CASE Watched!Closes \/ Watched!CardEnds \/ Watched!SignInEnds
    BY <2>2 DEF Watched!Closes, Watched!CardEnds, Watched!SignInEnds, WInv, WatchKinds
  <2> QED  BY <2>1, <2>2
<1>2. UNCHANGED <<loop, tools, ran, thinker, status, silence>>
  BY DEF Watched!Sends, Watched!Closes, Watched!CardEnds, Watched!SignInEnds
<1>3. waiting' \in Nat /\ signing' \in BOOLEAN /\ (Watched!Awaited' => Watched!Awaited)
  <2>1. CASE Watched!CardEnds
    BY <2>1 DEF Watched!CardEnds, Watched!Drops, Watched!Awaited, WInv, WatchKinds
  <2>2. CASE Watched!SignInEnds
    BY <2>2 DEF Watched!SignInEnds, Watched!Awaited, WInv, WatchKinds
  <2>3. CASE (\E e \in Watched!Events : Watched!Sends(e)) \/ Watched!Closes
    BY <2>3 DEF Watched!Sends, Watched!Closes, Watched!Awaited, WInv, WatchKinds
  <2> QED  BY <2>1, <2>2, <2>3
<1> QED  BY <1>1, <1>2, <1>3 DEF WInv, WatchKinds, Clocks, StatusSettled, Ages, Young,
              Watched!Over

(* An event and a placement end the silence; an event may be a new tool. *)
LEMMA HeardKeeps ==
  ASSUME WatchConstants, WInv, Watched!Takes \/ Watched!Places
  PROVE  WInv'
<1>1. loop \in LoopOf /\ loop.at = "select" /\ silence' = 0 /\ UNCHANGED thinker
  BY DEF Watched!Takes, Watched!Places, Watched!Selecting, WInv, WatchKinds
<1>2. loop' \in LoopOf /\ loop'.at # "over" /\ loop'.quiet = 0
  <2>1. CASE Watched!Takes
    BY <1>1, <2>1 DEF Watched!Takes, LoopOf
  <2>2. CASE Watched!Places
    BY <1>1, <2>2 DEF Watched!Places, LoopOf
  <2> QED  BY <2>1, <2>2
<1>3. used' \in SpentOf
  BY SpendsOne DEF Watched!Takes, Watched!Places, WInv, WatchKinds
<1>4. waiting' \in Nat /\ signing' \in BOOLEAN /\ status' \in BOOLEAN
  <2>1. CASE Watched!Takes
    <3>1. /\ waiting' = waiting \/ waiting' = waiting + 1
          /\ signing' = signing \/ signing' = TRUE \/ signing' = FALSE
          /\ status' = status \/ status' = FALSE
      BY <2>1 DEF Watched!Takes
    <3>2. waiting \in Nat /\ waiting + 1 \in Nat
      BY DEF WInv, WatchKinds
    <3>3. signing \in BOOLEAN /\ status \in BOOLEAN
      BY DEF WInv, WatchKinds
    <3> QED  BY <3>1, <3>2, <3>3, Zenon
  <2>2. CASE Watched!Places
    BY <2>2 DEF Watched!Places, WInv, WatchKinds
  <2> QED  BY <2>1, <2>2
<1>5. tools' \in Ages' /\ tools' = ran'
  <2>1. tools \in [DOMAIN tools -> Nat] /\ tools = ran
    BY DEF WInv, WatchKinds, Clocks, Ages
  <2>2. CASE Watched!Places
    BY <2>1, <2>2 DEF Watched!Places, Ages
  <2>3. CASE Watched!Takes
    <3> DEFINE e == Head(inbox.events)
    <3>1. Watched!Folds(e)
      BY <2>3 DEF Watched!Takes
    <3> HIDE DEF e
    <3>2. tools' = tools \/ tools' = Watched!With(tools, e[2]) \/ tools' = Watched!Without(tools, e[2])
      BY <3>1 DEF Watched!Folds, Watched!Stamped
    <3>3. tools' = ran'
      BY <2>1, <3>1 DEF Watched!Folds, Watched!Stamped
    <3>4. \A t : Watched!With(tools, t) \in [DOMAIN tools \cup {t} -> Nat]
      BY <2>1 DEF Watched!With
    <3>5. \A t : Watched!Without(tools, t) \in [DOMAIN tools \ {t} -> Nat]
      BY <2>1 DEF Watched!Without
    <3>6. \A f, D : f \in [D -> Nat] => f \in [DOMAIN f -> Nat]
      OBVIOUS
    <3>7. tools' \in [DOMAIN tools' -> Nat]
      BY <2>1, <3>2, <3>4, <3>5, <3>6, Zenon
    <3> QED  BY <3>3, <3>7 DEF Ages
  <2> QED  BY <2>2, <2>3
<1> QED  BY <1>1, <1>2, <1>3, <1>4, <1>5 DEF WInv, WatchKinds, Clocks, StatusSettled,
              Watched!Over

(* The timer runs again only while a person is waited on or the tools are  *)
(* young.                                                                  *)
LEMMA GoesOnKeeps == ASSUME WatchConstants, WInv, Watched!GoesOn PROVE WInv'
<1>1. loop \in LoopOf /\ loop.at = "select" /\ tools \in [DOMAIN tools -> Nat] /\ ToolCeiling \in Nat
  BY DEF Watched!GoesOn, Watched!Due, Watched!Selecting, WInv, WatchKinds, Ages,
       WatchConstants, Watched!TimesAssumption
<1>2. loop' \in LoopOf /\ loop'.at = "select" /\ loop'.quiet = 0
  BY <1>1 DEF Watched!GoesOn, LoopOf
<1>3. UNCHANGED <<tools, ran, waiting, signing, thinker, status, silence, used>>
  BY DEF Watched!GoesOn
<1>4. silence' <= loop'.quiet \/ Young'
  <2>1. CASE Watched!Awaited
    BY <1>2, <1>3, <2>1 DEF WInv, Clocks
  <2>2. CASE Watched!Working
    BY <1>1, <1>2, <1>3, <2>2 DEF Watched!Working, Watched!LongestTool, Young
  <2> QED  BY <2>1, <2>2 DEF Watched!GoesOn
<1> QED  BY <1>2, <1>3, <1>4 DEF WInv, WatchKinds, Clocks, StatusSettled, Ages, Young,
              Watched!Awaited, Watched!Over

LEMMA LoopMoves ==
  ASSUME WatchConstants, WInv, Watched!Shown \/ Watched!GivesUp \/ Watched!StreamEnds \/ Watched!Finishes
  PROVE  WInv'
<1>1. loop \in LoopOf /\ waiting \in Nat /\ status \in BOOLEAN
  BY DEF WInv, WatchKinds
<1>2. \E stage \in {"select", "finishing", "stopping"}, ending \in {loop.ending, "quiet", "wedged", "closed"} :
        loop' = [loop EXCEPT !.at = stage, !.ending = ending]
  <2>1. loop = [loop EXCEPT !.ending = loop.ending]
    BY <1>1 DEF LoopOf
  <2>2. CASE Watched!Shown
    BY <1>1, <2>2 DEF Watched!Shown, LoopOf
  <2>3. CASE Watched!GivesUp \/ Watched!StreamEnds
    BY <1>1, <2>3 DEF Watched!GivesUp, Watched!StreamEnds, Watched!Leaves, LoopOf
  <2>4. CASE Watched!Finishes
    BY <1>1, <2>4 DEF Watched!Finishes, LoopOf
  <2> QED  BY <2>2, <2>3, <2>4
<1>3. loop' \in LoopOf /\ loop'.quiet = loop.quiet /\ loop'.at # "over"
  BY <1>1, <1>2 DEF LoopOf
<1>4. /\ UNCHANGED <<tools, ran, signing, thinker, silence, used>>
      /\ waiting' = waiting \/ waiting' = 0
      /\ status' = status \/ status' = FALSE
  BY DEF Watched!Shown, Watched!GivesUp, Watched!StreamEnds, Watched!Finishes
<1>5. waiting' \in Nat /\ status' \in BOOLEAN /\ (Watched!Awaited' => Watched!Awaited)
  <2>1. waiting' \in Nat
    BY <1>1, <1>4
  <2>2. status' \in BOOLEAN
    BY <1>1, <1>4, Zenon
  <2>3. Watched!Awaited' => Watched!Awaited
    BY <1>1, <1>4 DEF Watched!Awaited
  <2> QED  BY <2>1, <2>2, <2>3
<1> QED  BY <1>3, <1>4, <1>5 DEF WInv, WatchKinds, Clocks, StatusSettled, Ages, Young,
              Watched!Over

(* The status is set by its task alone, and cleared when that is gone. *)
LEMMA StatusKeeps ==
  ASSUME WatchConstants, WInv, Watched!Stops \/ Watched!Clears \/ Watched!ThinkerStep
  PROVE  WInv'
<1>1. /\ loop \in LoopOf /\ thinker \in ThinkerOf /\ used \in SpentOf /\ status \in BOOLEAN
      /\ UNCHANGED <<tools, ran, waiting, signing, silence>>
  BY DEF WInv, WatchKinds, Watched!Stops, Watched!Clears, Watched!ThinkerStep, Watched!Sets,
       Watched!Wakes, Watched!Cancelled
<1>2. used' \in SpentOf /\ (UNCHANGED used \/ used'.faults # 0)
  <2>1. UNCHANGED used \/ Watched!Counts("faults")
    BY DEF Watched!Stops, Watched!Clears, Watched!ThinkerStep, Watched!Sets, Watched!Wakes,
         Watched!Cancelled, Watched!Fails
  <2> QED  BY <1>1, <2>1, SpendsOne DEF WInv
<1>3. loop' \in LoopOf /\ loop'.quiet = loop.quiet
  <2>1. UNCHANGED loop \/ loop' = [loop EXCEPT !.at = "joining"] \/ loop' = [loop EXCEPT !.at = "over"]
    BY DEF Watched!Stops, Watched!Clears, Watched!ThinkerStep, Watched!Sets, Watched!Wakes,
         Watched!Cancelled
  <2> QED  BY <1>1, <2>1 DEF LoopOf
<1>4. thinker' \in ThinkerOf
  <2>1. \/ UNCHANGED thinker
        \/ \E stage \in {"setting", "asleep", "gone"} : thinker' = [thinker EXCEPT !.at = stage]
        \/ thinker' = [thinker EXCEPT !.stop = TRUE]
    BY DEF Watched!Stops, Watched!Clears, Watched!ThinkerStep, Watched!Sets, Watched!Wakes,
         Watched!Cancelled
  <2> QED  BY <1>1, <2>1 DEF ThinkerOf
<1>5. status' \in BOOLEAN
  BY <1>1 DEF Watched!Stops, Watched!Clears, Watched!ThinkerStep, Watched!Sets, Watched!Wakes,
       Watched!Cancelled
<1>6. StatusSettled'
  <2>1. CASE Watched!Stops
    BY <1>1, <2>1 DEF Watched!Stops, StatusSettled, Watched!Over, LoopOf
  <2>2. CASE Watched!Clears
    <3>1. UNCHANGED thinker /\ thinker.at = "gone" /\ (status' = FALSE \/ Watched!Counts("faults"))
      BY <2>2 DEF Watched!Clears, Watched!Joined, Watched!Fails
    <3> QED  BY <3>1, SpendsOne DEF StatusSettled, WInv
  <2>3. CASE Watched!ThinkerStep
    <3>1. ~Watched!Over /\ UNCHANGED loop
      BY <2>3 DEF Watched!ThinkerStep, Watched!Sets, Watched!Wakes, Watched!Cancelled, WInv,
           StatusSettled
    <3> QED  BY <3>1 DEF StatusSettled, Watched!Over
  <2> QED  BY <2>1, <2>2, <2>3
<1> QED  BY <1>1, <1>2, <1>3, <1>4, <1>5, <1>6 DEF WInv, WatchKinds, Clocks, Ages, Young,
              Watched!Awaited

LEMMA TickKeeps == ASSUME WatchConstants, WInv, Watched!Tick PROVE WInv'
<1>1. /\ loop \in LoopOf /\ tools \in [DOMAIN tools -> Nat] /\ tools = ran /\ silence \in Nat
      /\ ToolCeiling \in Nat /\ IdleTimeout \in Nat
      /\ loop' = [loop EXCEPT !.quiet = @ + 1]
      /\ tools' = [t \in DOMAIN tools |-> Watched!Later(tools[t])]
      /\ ran' = [t \in DOMAIN ran |-> Watched!Later(ran[t])]
      /\ silence' = IF Watched!Awaited THEN 0 ELSE Watched!Later(silence)
      /\ UNCHANGED <<waiting, signing, thinker, status>>
  BY DEF WInv, WatchKinds, Clocks, Ages, Watched!Tick, WatchConstants, Watched!TimesAssumption
<1>2. loop' \in LoopOf /\ loop'.quiet = loop.quiet + 1 /\ loop'.at = loop.at
  <2>1. loop.quiet + 1 \in Nat
    BY <1>1 DEF LoopOf
  <2> QED  BY <1>1, <2>1 DEF LoopOf
<1>3. loop.at # "over"
  BY DEF Watched!Tick, Watched!Selecting
<1>4. used' \in SpentOf
  BY SpendsOne DEF Watched!Tick, WInv, WatchKinds
<1>5. /\ tools' = ran' /\ DOMAIN tools' = DOMAIN tools
      /\ \A t \in DOMAIN tools : tools'[t] \in Nat /\ tools'[t] <= tools[t] + 1
  BY <1>1, LaterIs
<1>6. tools' \in Ages'
  BY <1>1, <1>5 DEF Ages
<1>7. silence' \in Nat /\ silence' <= silence + 1 /\ (Watched!Awaited' => silence' = 0)
  BY <1>1, LaterIs DEF Watched!Awaited
<1>8. silence' <= loop'.quiet \/ Young'
  <2>1. loop.quiet \in Nat
    BY <1>1 DEF LoopOf
  <2>2. CASE silence <= loop.quiet
    BY <1>1, <1>2, <1>7, <2>1, <2>2
  <2>3. CASE Young
    <3>1. \A t \in DOMAIN tools : tools[t] \in Nat /\ tools[t] < ToolCeiling + loop.quiet
      BY <1>1, <2>3 DEF Young
    <3>2. \A t \in DOMAIN tools : tools'[t] < ToolCeiling + (loop.quiet + 1)
      BY <1>1, <1>5, <2>1, <3>1
    <3> QED  BY <1>2, <1>5, <2>3, <3>2 DEF Young
  <2> QED  BY <2>2, <2>3 DEF WInv, Clocks
<1> QED  BY <1>1, <1>2, <1>3, <1>4, <1>5, <1>6, <1>7, <1>8
              DEF WInv, WatchKinds, Clocks, StatusSettled, Watched!Over

LEMMA InitWatched == ASSUME WatchConstants, Watched!Init PROVE WInv
<1>1. tools = <<>> /\ ran = <<>> /\ DOMAIN tools = {} /\ tools \in [DOMAIN tools -> Nat]
  BY DEF Watched!Init
<1>2. loop = [at |-> "select", quiet |-> 0, ending |-> "none"] /\ loop \in LoopOf
  BY DEF Watched!Init, LoopOf
<1>3. thinker \in ThinkerOf /\ used \in SpentOf /\ tools \in Ages
  BY <1>1 DEF Watched!Init, ThinkerOf, SpentOf, Ages
<1>4. silence = 0 /\ waiting = 0 /\ signing \in BOOLEAN /\ status \in BOOLEAN
  BY DEF Watched!Init
<1>5. Clocks /\ StatusSettled
  BY <1>1, <1>2, <1>4 DEF Clocks, StatusSettled, Watched!Over
<1> QED  BY <1>2, <1>3, <1>4, <1>5 DEF WInv, WatchKinds

LEMMA WatchedAlways == ASSUME WatchConstants PROVE Watched!Init /\ [][Watched!Next]_(Watched!vars) => []WInv
<1>1. Watched!Init => WInv
  BY InitWatched
<1>2. WInv /\ [Watched!Next]_(Watched!vars) => WInv'
  <2> SUFFICES ASSUME WInv, [Watched!Next]_(Watched!vars) PROVE WInv'
    OBVIOUS
  <2>1. CASE UNCHANGED Watched!vars
    BY <2>1 DEF Watched!vars, WInv, WatchKinds, Clocks, StatusSettled, Ages, Young,
         Watched!Awaited, Watched!Over
  <2> QED  BY <2>1, OutsideKeeps, HeardKeeps, GoesOnKeeps, LoopMoves, StatusKeeps, TickKeeps,
                Zenon
             DEF Watched!Next, Watched!LoopStep
<1> QED  BY <1>1, <1>2, PTL

(* Of the clocks of a turn (chat.rs `Turn`, `Thinking`): one that nothing  *)
(* was heard of for longer than the idle timeout, and that waits on        *)
(* nobody, has a tool at work that ran for less than the ceiling and one   *)
(* more timeout; and when it is over nothing says that the agent is        *)
(* thinking, or ever will, unless Slack failed: for any timeout, ceiling,  *)
(* tools, events and ticks.                                                *)
THEOREM WatchHolds ==
  ASSUME WatchConstants
  PROVE  Watched!Spec => [](Watched!SilenceIsNoticed /\ Watched!StatusCleared)
<1>1. WInv => Watched!SilenceIsNoticed
  <2> SUFFICES ASSUME WInv, Watched!Selecting, ~Watched!Due, silence > IdleTimeout
               PROVE  \E t \in DOMAIN ran : \A u \in DOMAIN ran : ran[u] < ToolCeiling + IdleTimeout
    BY DEF Watched!SilenceIsNoticed
  <2>1. /\ loop.quiet \in Nat /\ loop.quiet < IdleTimeout /\ silence \in Nat
        /\ IdleTimeout \in Nat /\ ToolCeiling \in Nat
    BY DEF WInv, WatchKinds, LoopOf, Watched!Due, WatchConstants, Watched!TimesAssumption
  <2>2. Young /\ tools = ran /\ tools \in [DOMAIN tools -> Nat]
    BY <2>1 DEF WInv, WatchKinds, Clocks, Ages
  <2>3. \A u \in DOMAIN ran : ran[u] < ToolCeiling + IdleTimeout
    BY <2>1, <2>2 DEF Young
  <2> QED  BY <2>2, <2>3 DEF Young
<1>2. WInv => Watched!StatusCleared
  BY DEF WInv, StatusSettled, Watched!StatusCleared, Watched!Joined
<1> QED  BY <1>1, <1>2, WatchedAlways, PTL DEF Watched!Spec

----------------------------------------------------------------------------
(* Where a thread is pinned, whose variables these are.                    *)
CONSTANTS Node, Mover, NoNode, MaxMessages, MaxMoves, MaxLosses, MaxMisses
VARIABLES pin, home, alive, standing, moved, orphaned, seat, mover, leaving, spoke, caughtUp,
          excused, promise, pinsUsed
Pinned == INSTANCE Pins WITH MaxFaults <- MaxMisses, status <- standing, used <- pinsUsed

(* The files put into a thread, whose variables these are. *)
CONSTANTS File, ByEvent, NoFile, PageReplies, MaxRetries, MaxPosts, MaxDeletes, MaxLimited
VARIABLES thread, held, sender, told, reader, unsure, removed, threadUsed
Files == INSTANCE Threads WITH MaxFaults <- MaxLimited, used <- threadUsed

(* The file that a session lends. *)
CONSTANTS Line, New, Typed, Twice, Person, Servers, Inside, MaxSpilt
VARIABLES fs, rooted, routes, open, buffer, dirty, disk, torn, edit, spilt
Lend == INSTANCE Lent WITH MaxFaults <- MaxSpilt, faults <- spilt, call <- edit

(* The commands about the service. *)
CONSTANTS Command, NoCommand, MaxBroken
VARIABLES plist, staged, job, cmd, said, broken
Daemon == INSTANCE Service WITH MaxFaults <- MaxBroken, faults <- broken

(* What the constants are. *)
PinsConstants == Pinned!NodeAssumption

----------------------------------------------------------------------------
(* The inductive invariant of Pins *)

Seat  == [at : {"idle", "reading", "deciding", "opening", "pinning", "prompting"},
          reply : BOOLEAN, read : Nat, node : Node \cup {NoNode}, session : Nat,
          history : BOOLEAN, retried : BOOLEAN, under : Nat]
Click == [at : {"idle", "reading", "removing", "opening", "pinning", "marking"},
          read : Nat, node : Node \cup {NoNode}, session : Nat]
Leave == [at : {"idle", "querying", "deleting", "orphaning"}, saw : Nat]

(* Every variable keeps its type. *)
Shapes ==
  /\ home \in Seq(Node)
  /\ {pin, promise, seat.read, seat.session} \subseteq Pinned!Sessions \cup {Pinned!NoSession}
  /\ alive \cup spoke \cup caughtUp \cup excused \subseteq Pinned!Sessions
  /\ standing \in [Node -> Pinned!Statuses]
  /\ moved \in BOOLEAN /\ orphaned \in BOOLEAN
  /\ seat \in Seat
  /\ mover \in [Mover -> Click]
  /\ leaving \in [Node -> Leave]

(* A session is opened on the node it is opened for. *)
Places ==
  /\ Pinned!SeatAt("opening") => seat.node \in Node
  /\ Pinned!SeatAt("pinning") \/ Pinned!SeatAt("prompting") => seat.session \in Pinned!Sessions
  /\ \A m \in Mover :
       /\ ~Pinned!MoverAt(m, "idle") => mover[m].node \in Node
       /\ mover[m].session \in Pinned!Sessions \cup {Pinned!NoSession}
       /\ mover[m].at \in {"pinning", "marking"} =>
            mover[m].session \in Pinned!Sessions /\ home[mover[m].session] = mover[m].node
  /\ \A n \in Node : leaving[n].at = "deleting" =>
       leaving[n].saw \in Pinned!Sessions /\ home[leaving[n].saw] = n

(* Nobody speaks in it without the thread: it has it, is excused, or is gone. *)
Safe(s) == s \in caughtUp \cup excused \/ s \notin alive

(* The turn has the thread for its session, if that has not. *)
SeatKnows ==
  Pinned!SeatAt("pinning") \/ Pinned!SeatAt("prompting") =>
           Safe(seat.session) \/ seat.history \/ ~seat.reply

(* What the turn read as its pin needs the thread only if it was moved. *)
ReadKnows ==
  Pinned!SeatAt("deciding") /\ seat.read # Pinned!NoSession /\ ~moved => Safe(seat.read)

(* What was pinned since is excused, or about to be. *)
PinnedSince ==
  Pinned!SeatAt("deciding") /\ seat.read # Pinned!NoSession /\ pin # Pinned!NoSession /\ pin # seat.read
           => Safe(pin) \/ pin \in Pinned!Marking

(* A pinned session needs the thread only if it was moved, unless it is    *)
(* being told.                                                             *)
PinKnows ==
  pin # Pinned!NoSession =>
    \/ moved \/ Safe(pin) \/ pin \in Pinned!Marking
    \/ Pinned!SeatAt("prompting") /\ pin = seat.session

(* While a promise stands nothing that could break it is under way.        *)
Promised ==
  promise # Pinned!NoSession =>
    /\ promise \in Pinned!Sessions /\ pin = promise /\ promise \in alive
    /\ standing[home[promise]] = "here" /\ leaving[home[promise]].at = "idle"
    /\ \A m \in Mover : Pinned!MoverAt(m, "idle")
    /\ ~Pinned!SeatAt("opening") /\ ~Pinned!SeatAt("pinning")
    /\ Pinned!SeatAt("deciding") => seat.read = promise
    /\ Pinned!SeatAt("prompting") => seat.session = promise

PInv ==
  /\ Shapes /\ Places
  /\ Pinned!SpeaksInformed /\ SeatKnows /\ ReadKnows /\ PinnedSince /\ PinKnows
  /\ Promised

----------------------------------------------------------------------------
(* Steps *)

(* A session more is opened. *)
LEMMA OpensOne ==
  ASSUME PinsConstants, home \in Seq(Node), alive \subseteq Pinned!Sessions, NEW n \in Node, Pinned!Opens(n)
  PROVE  /\ home' \in Seq(Node) /\ Len(home) \in Nat /\ Len(home') = Len(home) + 1
         /\ Pinned!Sessions' = Pinned!Sessions \cup {Len(home')} /\ Len(home') \notin Pinned!Sessions
         /\ home'[Len(home')] = n
         /\ \A s \in Pinned!Sessions : home'[s] = home[s]
         /\ alive' = alive \cup {Len(home')}
  BY DEF Pinned!Opens, Pinned!Sessions, Pinned!NoSession

(* Where a session runs. *)
LEMMA Home ==
  ASSUME PinsConstants, home \in Seq(Node), NEW s \in Pinned!Sessions \cup {Pinned!NoSession}
  PROVE  /\ Pinned!Sessions \subseteq Nat \ {0} /\ Pinned!NoSession = 0
         /\ s \in Pinned!Sessions => Pinned!HomeOf(s) = home[s] /\ Pinned!HomeOf(s) \in Node
         /\ s = Pinned!NoSession => Pinned!HomeOf(s) = NoNode
         /\ s \in Pinned!Sessions <=> s # Pinned!NoSession
  BY DEF PinsConstants, Pinned!NodeAssumption, Pinned!Sessions, Pinned!HomeOf, Pinned!NoSession

(* What a step of the turn leaves as it was. *)
LEMMA SeatOnly ==
  ASSUME Shapes, Places, UNCHANGED <<home, mover, leaving>>,
         Pinned!SeatAt("opening")' => seat'.node \in Node,
         (Pinned!SeatAt("pinning") \/ Pinned!SeatAt("prompting"))' => seat'.session \in Pinned!Sessions
  PROVE  Places' /\ Pinned!Sessions' = Pinned!Sessions /\ Pinned!Marking' = Pinned!Marking
         /\ \A s : Pinned!HomeOf(s)' = Pinned!HomeOf(s)
  BY DEF Places, Pinned!Sessions, Pinned!Marking, Pinned!MoverAt, Pinned!HomeOf, Pinned!NoSession

(* A seat is a record of its parts. *)
LEMMA SeatParts ==
  ASSUME NEW old \in Seat
  PROVE  /\ old.at \in {"idle", "reading", "deciding", "opening", "pinning", "prompting"}
         /\ {old.reply, old.history, old.retried} \subseteq BOOLEAN
         /\ {old.read, old.session, old.under} \subseteq Nat
         /\ old.node \in Node \cup {NoNode}
  BY DEF Seat

LEMMA IdleParts ==
  /\ Pinned!Idle \in Seat /\ Pinned!Idle.at = "idle" /\ Pinned!Idle.read = Pinned!NoSession /\ Pinned!Idle.session = Pinned!NoSession
  BY DEF Pinned!Idle, Seat, Pinned!NoSession

LEMMA PinsTakesInv == ASSUME PinsConstants, PInv, Pinned!Takes PROVE PInv'
<1> USE DEF PInv, Pinned!ghosts
<1>1. /\ UNCHANGED <<pin, home, alive, standing, moved, orphaned, mover, leaving, spoke, caughtUp, excused, promise>>
      /\ seat' \in Seat /\ seat'.at = "reading"
      /\ seat'.read = Pinned!NoSession /\ seat'.session = Pinned!NoSession
  <2>1. promise \in Nat
    BY Home DEF Shapes, Pinned!Sessions, Pinned!NoSession
  <2>2. seat' = [at |-> "reading", reply |-> pinsUsed.messages > 0, read |-> Pinned!NoSession,
                 node |-> NoNode, session |-> Pinned!NoSession, history |-> FALSE,
                 retried |-> FALSE, under |-> promise]
    BY DEF Pinned!Takes, Pinned!Idle
  <2>3. (pinsUsed.messages > 0) \in BOOLEAN
    OBVIOUS
  <2>4. seat' \in Seat
    <3> DEFINE reply == pinsUsed.messages > 0
    <3>1. reply \in BOOLEAN /\ seat'.reply = reply
      BY <2>2, <2>3
    <3> HIDE DEF reply
    <3> QED  BY <3>1, <2>1, <2>2 DEF Seat, Pinned!NoSession
  <2>5. seat'.at = "reading" /\ seat'.read = Pinned!NoSession /\ seat'.session = Pinned!NoSession
    BY <2>2
  <2> QED  BY <2>4, <2>5 DEF Pinned!Takes
<1>2. Places' /\ Pinned!Sessions' = Pinned!Sessions
  BY <1>1, SeatOnly DEF Pinned!SeatAt
<1>3. Shapes'
  BY <1>1, <1>2 DEF Shapes
<1>4. Pinned!SpeaksInformed' /\ SeatKnows' /\ ReadKnows' /\ PinnedSince'
  BY <1>1 DEF Pinned!SpeaksInformed, SeatKnows, ReadKnows, PinnedSince, Pinned!SeatAt
<1>5. PinKnows'
  BY <1>1, SeatOnly DEF Pinned!Takes, PinKnows, Pinned!SeatAt, Safe
<1>6. Promised'
  BY <1>1, <1>2 DEF Promised, Pinned!SeatAt, Pinned!MoverAt
<1> QED  BY <1>2, <1>3, <1>4, <1>5, <1>6

LEMMA ReadsInv == ASSUME PinsConstants, PInv, Pinned!Reads PROVE PInv'
<1> USE DEF PInv, Pinned!ghosts
<1>1. /\ UNCHANGED <<pin, home, alive, standing, moved, orphaned, mover, leaving, spoke, caughtUp>>
      /\ promise' \in {promise, Pinned!NoSession} /\ excused' = excused \cup Pinned!Marking
      /\ seat' \in Seat /\ seat'.at = "deciding" /\ seat'.session = seat.session
      /\ seat'.read \in {pin, Pinned!NoSession} /\ (promise' # Pinned!NoSession => seat'.read = pin)
      /\ seat.at = "reading"
  <2>1. pin \in Nat /\ Pinned!NoSession \in Nat
    BY Home DEF Shapes, Pinned!Sessions, Pinned!NoSession
  <2>2. \/ seat' = [seat EXCEPT !.at = "deciding", !.read = pin]
        \/ /\ seat' = [seat EXCEPT !.at = "deciding", !.read = Pinned!NoSession]
           /\ promise' = Pinned!NoSession
    BY DEF Pinned!Reads
  <2>3. seat \in Seat
    BY DEF Shapes
  <2>4. seat' \in Seat /\ seat'.at = "deciding" /\ seat'.session = seat.session
        /\ seat'.read \in {pin, Pinned!NoSession} /\ (promise' # Pinned!NoSession => seat'.read = pin)
    BY <2>1, <2>2, <2>3 DEF Seat
  <2> QED  BY <2>4 DEF Pinned!Reads, Pinned!SeatAt
<1>2. Places' /\ Pinned!Sessions' = Pinned!Sessions /\ Pinned!Marking' = Pinned!Marking
  BY <1>1, SeatOnly DEF Pinned!SeatAt
<1>3. Pinned!Marking \subseteq Pinned!Sessions
  BY DEF Places, Pinned!Marking, Pinned!MoverAt
<1>4. Shapes'
  BY <1>1, <1>2, <1>3 DEF Shapes
<1>5. Pinned!SpeaksInformed' /\ SeatKnows' /\ PinnedSince'
  BY <1>1, <1>2 DEF Pinned!SpeaksInformed, SeatKnows, PinnedSince, Pinned!SeatAt
<1>6. ReadKnows' /\ PinKnows'
  BY <1>1, <1>2 DEF PinKnows, ReadKnows, Pinned!SeatAt, Safe
<1>7. Promised'
  BY <1>1, <1>2 DEF Promised, Pinned!SeatAt, Pinned!MoverAt
<1> QED  BY <1>2, <1>4, <1>5, <1>6, <1>7

LEMMA ResumesInv == ASSUME PinsConstants, PInv, Pinned!Resumes PROVE PInv'
<1> USE DEF PInv, Pinned!ghosts
<1>1. /\ UNCHANGED <<pin, home, alive, standing, orphaned, mover, leaving, spoke, caughtUp, promise>>
      /\ moved' = FALSE /\ seat.at = "deciding" /\ Pinned!Live(Pinned!HomeOf(seat.read))
      /\ seat' \in Seat /\ seat'.at = "prompting"
      /\ seat'.read = seat.read /\ seat'.session = seat.read
      /\ moved \/ seat'.history \/ excused' = excused
      /\ moved /\ ~seat'.history => seat.read \in excused'
      /\ excused \subseteq excused' /\ excused' \subseteq excused \cup {seat.read}
  <2>1. PICK got \in BOOLEAN :
          seat' = [seat EXCEPT !.at = "prompting", !.node = Pinned!HomeOf(seat.read),
                               !.session = seat.read, !.history = got]
    BY DEF Pinned!Resumes
  <2>2. seat \in Seat /\ Pinned!HomeOf(seat.read) \in Node \cup {NoNode} /\ seat.read \in Nat
    <3>1. seat \in Seat /\ home \in Seq(Node) /\ seat.read \in Pinned!Sessions \cup {Pinned!NoSession}
      BY DEF Shapes
    <3> QED  BY <3>1, Home, SeatParts
  <2>3. /\ seat' \in Seat /\ seat'.at = "prompting"
        /\ seat'.read = seat.read /\ seat'.session = seat.read
    BY <2>1, <2>2 DEF Seat
  <2> QED  BY <2>3 DEF Pinned!Resumes, Pinned!SeatAt
<1>3. seat.read \in Pinned!Sessions /\ seat.read # Pinned!NoSession
  BY <1>1, Home DEF Shapes, Pinned!Live
<1>2. Places' /\ Pinned!Sessions' = Pinned!Sessions /\ Pinned!Marking' = Pinned!Marking
  BY <1>1, <1>3, SeatOnly DEF Pinned!SeatAt
<1>4. Shapes'
  BY <1>1, <1>2, <1>3 DEF Shapes
<1>5. Pinned!SpeaksInformed' /\ ReadKnows' /\ PinnedSince'
  BY <1>1 DEF Pinned!SpeaksInformed, ReadKnows, PinnedSince, Pinned!SeatAt
<1>6. SeatKnows'
  BY <1>1, <1>3 DEF SeatKnows, ReadKnows, Pinned!SeatAt, Safe
<1>7. PinKnows'
  BY <1>1, <1>2, <1>3 DEF PinKnows, PinnedSince, Pinned!SeatAt, Safe
<1>8. Promised'
  BY <1>1, <1>2 DEF Promised, Pinned!SeatAt, Pinned!MoverAt
<1> QED  BY <1>2, <1>4, <1>5, <1>6, <1>7, <1>8

LEMMA DropsInv == ASSUME PinsConstants, PInv, Pinned!Drops PROVE PInv'
<1> USE DEF PInv, Pinned!ghosts
<1>1. /\ UNCHANGED <<home, alive, standing, moved, mover, leaving, spoke, caughtUp, excused, promise>>
      /\ orphaned' = TRUE /\ pin' \in {pin, Pinned!NoSession}
      /\ seat' \in Seat /\ seat'.at = "deciding" /\ seat'.session = seat.session
      /\ seat'.read = Pinned!NoSession
      /\ seat.at = "deciding" /\ seat.read # Pinned!NoSession /\ ~Pinned!Live(Pinned!HomeOf(seat.read))
  <2>1. seat \in Seat
    BY DEF Shapes
  <2>2. seat' = [seat EXCEPT !.at = "deciding", !.read = Pinned!NoSession]
    BY DEF Pinned!Drops
  <2>3. /\ seat' \in Seat /\ seat'.at = "deciding" /\ seat'.session = seat.session
        /\ seat'.read = Pinned!NoSession
    BY <2>1, <2>2 DEF Seat, Pinned!NoSession
  <2> QED  BY <2>3 DEF Pinned!Drops, Pinned!SeatAt
<1>2. Places' /\ Pinned!Sessions' = Pinned!Sessions /\ Pinned!Marking' = Pinned!Marking
  BY <1>1, SeatOnly DEF Pinned!SeatAt
<1>3. promise = Pinned!NoSession
  BY <1>1, Home DEF Shapes, Promised, Pinned!SeatAt, Pinned!Live, PinsConstants, Pinned!NodeAssumption
<1>4. Shapes'
  BY <1>1, <1>2 DEF Shapes
<1>5. Pinned!SpeaksInformed' /\ SeatKnows' /\ ReadKnows' /\ PinnedSince'
  BY <1>1 DEF Pinned!SpeaksInformed, SeatKnows, ReadKnows, PinnedSince, Pinned!SeatAt
<1>6. PinKnows'
  BY <1>1, <1>2 DEF PinKnows, Pinned!SeatAt, Safe
<1>7. Promised'
  BY <1>1, <1>3 DEF Promised
<1> QED  BY <1>2, <1>4, <1>5, <1>6, <1>7

LEMMA AssignsInv == ASSUME PinsConstants, PInv, Pinned!Assigns PROVE PInv'
<1> USE DEF PInv, Pinned!ghosts
<1>1. /\ UNCHANGED <<pin, home, alive, standing, moved, mover, leaving, spoke, caughtUp, excused, promise>>
      /\ orphaned' = FALSE
      /\ seat' \in Seat /\ seat'.at = "opening" /\ seat'.session = seat.session
      /\ seat'.read = seat.read /\ seat'.node \in Node
      /\ seat.at = "deciding" /\ seat.read = Pinned!NoSession
  <2>1. seat \in Seat
    BY DEF Shapes
  <2>2. PICK n \in Node, got \in BOOLEAN :
          seat' = [seat EXCEPT !.at = "opening", !.node = n, !.history = got]
    BY DEF Pinned!Assigns
  <2>3. /\ seat' \in Seat /\ seat'.at = "opening" /\ seat'.session = seat.session
        /\ seat'.read = seat.read /\ seat'.node = n
    BY <2>1, <2>2 DEF Seat
  <2> QED  BY <2>3 DEF Pinned!Assigns, Pinned!SeatAt
<1>2. Places' /\ Pinned!Sessions' = Pinned!Sessions /\ Pinned!Marking' = Pinned!Marking
  BY <1>1, SeatOnly DEF Pinned!SeatAt
<1>3. promise = Pinned!NoSession
  BY <1>1, Home DEF Shapes, Promised, Pinned!SeatAt
<1>4. Shapes'
  BY <1>1, <1>2 DEF Shapes
<1>5. Pinned!SpeaksInformed' /\ SeatKnows' /\ ReadKnows' /\ PinnedSince'
  BY <1>1 DEF Pinned!SpeaksInformed, SeatKnows, ReadKnows, PinnedSince, Pinned!SeatAt
<1>6. PinKnows'
  BY <1>1, <1>2 DEF PinKnows, Pinned!SeatAt, Safe
<1>7. Promised'
  BY <1>1, <1>3 DEF Promised
<1> QED  BY <1>2, <1>4, <1>5, <1>6, <1>7

(* A turn that ends before its prompt leaves everything as it was. *)
LEMMA GivesUpInv ==
  ASSUME PinsConstants, PInv, Pinned!NoMachine \/ Pinned!SeatCannotOpen
  PROVE  PInv'
<1> USE DEF PInv, Pinned!ghosts
<1>1. /\ UNCHANGED <<pin, home, alive, standing, moved, orphaned, mover, leaving,
                     spoke, caughtUp, excused, promise>>
      /\ seat' = Pinned!Idle /\ seat.at \in {"deciding", "opening"}
  BY DEF Pinned!NoMachine, Pinned!SeatCannotOpen, Pinned!SeatAt
<1>2. Places' /\ Pinned!Sessions' = Pinned!Sessions /\ Pinned!Marking' = Pinned!Marking
  BY <1>1, SeatOnly, IdleParts DEF Pinned!SeatAt
<1>3. Shapes'
  BY <1>1, <1>2, IdleParts DEF Shapes
<1>4. Pinned!SpeaksInformed' /\ SeatKnows' /\ ReadKnows' /\ PinnedSince'
  BY <1>1, IdleParts DEF Pinned!SpeaksInformed, SeatKnows, ReadKnows, PinnedSince, Pinned!SeatAt
<1>5. PinKnows'
  BY <1>1, <1>2 DEF PinKnows, Pinned!SeatAt, Safe
<1>6. Promised'
  BY <1>1, <1>2, IdleParts DEF Promised, Pinned!SeatAt, Pinned!MoverAt
<1> QED  BY <1>2, <1>3, <1>4, <1>5, <1>6

LEMMA SeatOpensInv == ASSUME PinsConstants, PInv, Pinned!SeatOpens PROVE PInv'
<1> USE DEF PInv, Pinned!ghosts
<1>0. seat.at = "opening" /\ seat.node \in Node /\ promise = Pinned!NoSession
  BY DEF Pinned!SeatOpens, Pinned!SeatAt, Places, Promised
<1>1. /\ home' \in Seq(Node) /\ Len(home) \in Nat /\ Len(home') = Len(home) + 1
      /\ Pinned!Sessions' = Pinned!Sessions \cup {Len(home')} /\ Len(home') \notin Pinned!Sessions
      /\ \A s \in Pinned!Sessions : home'[s] = home[s]
      /\ alive' = alive \cup {Len(home')}
  BY <1>0, OpensOne DEF Pinned!SeatOpens, Shapes
<1>2. /\ UNCHANGED <<pin, standing, moved, orphaned, mover, leaving, spoke, caughtUp, promise>>
      /\ seat' \in Seat /\ seat'.at = "pinning" /\ seat'.session = Len(home')
      /\ seat'.read = seat.read
      /\ seat'.reply /\ ~seat'.history => seat'.session \in excused'
      /\ excused \subseteq excused' /\ excused' \subseteq excused \cup {Len(home')}
  <2>1. seat \in Seat
    BY DEF Shapes
  <2>2. seat' = [seat EXCEPT !.at = "pinning", !.session = Len(home')]
    BY DEF Pinned!SeatOpens
  <2>3. /\ seat' \in Seat /\ seat'.at = "pinning" /\ seat'.session = Len(home')
        /\ seat'.read = seat.read /\ seat'.reply = seat.reply /\ seat'.history = seat.history
    <3>1. Len(home') \in Nat
      BY <1>1
    <3> QED  BY <3>1, <2>1, <2>2 DEF Seat
  <2> QED  BY <2>3 DEF Pinned!SeatOpens
<1>3. Places' /\ Pinned!Marking' = Pinned!Marking
  BY <1>1, <1>2 DEF Places, Pinned!Marking, Pinned!SeatAt, Pinned!MoverAt
<1>4. Shapes'
  BY <1>1, <1>2 DEF Shapes
<1>5. Pinned!SpeaksInformed' /\ SeatKnows' /\ ReadKnows' /\ PinnedSince'
  BY <1>1, <1>2 DEF Pinned!SpeaksInformed, SeatKnows, ReadKnows, PinnedSince, Pinned!SeatAt, Safe
<1>6. PinKnows'
  <2>1. pin # Pinned!NoSession => pin \in Pinned!Sessions
    BY DEF Shapes
  <2> QED  BY <2>1, <1>0, <1>1, <1>2, <1>3 DEF PinKnows, Pinned!SeatAt, Safe
<1>7. Promised'
  BY <1>0, <1>2 DEF Promised
<1> QED  BY <1>3, <1>4, <1>5, <1>6, <1>7

LEMMA SeatPinsInv == ASSUME PinsConstants, PInv, Pinned!SeatPins PROVE PInv'
<1> USE DEF PInv, Pinned!ghosts
<1>1. /\ UNCHANGED <<home, alive, standing, moved, orphaned, mover, leaving,
                     spoke, caughtUp, excused, promise>>
      /\ pin' \in {pin, seat.session} /\ seat.at = "pinning"
      /\ seat' \in Seat /\ seat'.at = "prompting" /\ seat'.session = seat.session
      /\ seat'.read = seat.read /\ seat'.history = seat.history /\ seat'.reply = seat.reply
  <2>1. seat \in Seat
    BY DEF Shapes
  <2>2. seat' = [seat EXCEPT !.at = "prompting"]
    BY DEF Pinned!SeatPins
  <2>3. /\ seat' \in Seat /\ seat'.at = "prompting" /\ seat'.session = seat.session
        /\ seat'.read = seat.read /\ seat'.history = seat.history /\ seat'.reply = seat.reply
    BY <2>1, <2>2 DEF Seat
  <2> QED  BY <2>3 DEF Pinned!SeatPins, Pinned!SeatAt
<1>2. Places' /\ Pinned!Sessions' = Pinned!Sessions /\ Pinned!Marking' = Pinned!Marking
  BY <1>1, SeatOnly DEF Pinned!SeatAt, Places
<1>3. promise = Pinned!NoSession
  BY <1>1 DEF Promised, Pinned!SeatAt
<1>4. Shapes'
  BY <1>1, <1>2 DEF Shapes
<1>5. Pinned!SpeaksInformed' /\ SeatKnows' /\ ReadKnows' /\ PinnedSince'
  BY <1>1 DEF Pinned!SpeaksInformed, SeatKnows, ReadKnows, PinnedSince, Pinned!SeatAt, Safe
<1>6. PinKnows'
  BY <1>1, <1>2 DEF PinKnows, Pinned!SeatAt, Safe
<1>7. Promised'
  BY <1>1, <1>3 DEF Promised
<1> QED  BY <1>2, <1>4, <1>5, <1>6, <1>7

LEMMA AcceptsInv == ASSUME PinsConstants, PInv, Pinned!Accepts PROVE PInv'
<1> USE DEF PInv, Pinned!ghosts
<1>1. /\ UNCHANGED <<pin, home, alive, standing, moved, orphaned, mover, leaving, excused, promise>>
      /\ seat' = Pinned!Idle /\ seat.at = "prompting" /\ seat.session \in alive
      /\ spoke' = spoke \cup {seat.session}
      /\ seat.history \/ ~seat.reply => caughtUp' = caughtUp \cup {seat.session}
      /\ caughtUp' \in {caughtUp, caughtUp \cup {seat.session}}
  BY DEF Pinned!Accepts, Pinned!SeatAt
<1>2. Places' /\ Pinned!Sessions' = Pinned!Sessions /\ Pinned!Marking' = Pinned!Marking
  BY <1>1, SeatOnly, IdleParts DEF Pinned!SeatAt
<1>3. Shapes'
  BY <1>1, <1>2, IdleParts DEF Shapes
<1>4. seat.session \in caughtUp' \cup excused
  BY <1>1 DEF SeatKnows, Pinned!SeatAt, Safe
<1>5. Pinned!SpeaksInformed' /\ SeatKnows' /\ ReadKnows' /\ PinnedSince'
  BY <1>1, <1>4, IdleParts DEF Pinned!SpeaksInformed, SeatKnows, ReadKnows, PinnedSince, Pinned!SeatAt
<1>6. PinKnows'
  BY <1>1, <1>2, <1>4 DEF PinKnows, Pinned!SeatAt, Safe
<1>7. Promised'
  BY <1>1, <1>2, IdleParts DEF Promised, Pinned!SeatAt, Pinned!MoverAt
<1> QED  BY <1>2, <1>3, <1>5, <1>6, <1>7

LEMMA ForgetsInv == ASSUME PinsConstants, PInv, Pinned!Forgets PROVE PInv'
<1> USE DEF PInv, Pinned!ghosts
<1>1. /\ UNCHANGED <<home, alive, standing, moved, orphaned, mover, leaving,
                     spoke, caughtUp, excused, promise>>
      /\ pin' \in {pin, Pinned!NoSession} /\ seat.at = "prompting" /\ seat.session \notin alive
      /\ seat' \in Seat /\ seat'.at = "reading" /\ seat'.read = Pinned!NoSession
      /\ seat'.session = Pinned!NoSession
  <2>1. seat \in Seat
    BY DEF Shapes
  <2>2. seat' = [at |-> "reading", reply |-> seat.reply, read |-> Pinned!NoSession,
                 node |-> NoNode, session |-> Pinned!NoSession, history |-> FALSE,
                 retried |-> TRUE, under |-> seat.under]
    BY DEF Pinned!Forgets, Pinned!Idle
  <2>3. seat' \in Seat
    BY <2>1, <2>2, SeatParts DEF Seat, Pinned!NoSession
  <2>4. seat'.at = "reading" /\ seat'.read = Pinned!NoSession /\ seat'.session = Pinned!NoSession
    BY <2>2
  <2> QED  BY <2>3, <2>4 DEF Pinned!Forgets, Pinned!SeatAt
<1>2. Places' /\ Pinned!Sessions' = Pinned!Sessions /\ Pinned!Marking' = Pinned!Marking
  BY <1>1, SeatOnly DEF Pinned!SeatAt
<1>3. promise = Pinned!NoSession
  BY <1>1 DEF Promised, Pinned!SeatAt
<1>4. Shapes'
  BY <1>1, <1>2 DEF Shapes
<1>5. Pinned!SpeaksInformed' /\ SeatKnows' /\ ReadKnows' /\ PinnedSince'
  BY <1>1 DEF Pinned!SpeaksInformed, SeatKnows, ReadKnows, PinnedSince, Pinned!SeatAt
<1>6. PinKnows'
  BY <1>1, <1>2 DEF PinKnows, Pinned!SeatAt, Safe
<1>7. Promised'
  BY <1>1, <1>3 DEF Promised
<1> QED  BY <1>2, <1>4, <1>5, <1>6, <1>7

LEMMA NotTakenInv == ASSUME PinsConstants, PInv, Pinned!NotTaken PROVE PInv'
<1> USE DEF PInv, Pinned!ghosts
<1>1. /\ UNCHANGED <<pin, home, alive, standing, moved, orphaned, mover, leaving,
                     spoke, caughtUp, promise>>
      /\ seat' = Pinned!Idle /\ seat.at = "prompting"
      /\ excused' \in {excused, excused \cup {seat.session}}
      /\ seat.session \in spoke \cup excused'
  BY DEF Pinned!NotTaken, Pinned!SeatAt
<1>2. Places' /\ Pinned!Sessions' = Pinned!Sessions /\ Pinned!Marking' = Pinned!Marking
  BY <1>1, SeatOnly, IdleParts DEF Pinned!SeatAt
<1>3. seat.session \in Pinned!Sessions
  BY <1>1 DEF Pinned!SeatAt, Places
<1>4. Shapes'
  BY <1>1, <1>2, <1>3, IdleParts DEF Shapes
<1>5. Pinned!SpeaksInformed' /\ SeatKnows' /\ ReadKnows' /\ PinnedSince'
  BY <1>1, IdleParts DEF Pinned!SpeaksInformed, SeatKnows, ReadKnows, PinnedSince, Pinned!SeatAt
<1>6. PinKnows'
  BY <1>1, <1>2 DEF PinKnows, Pinned!SeatAt, Safe, Pinned!SpeaksInformed
<1>7. Promised'
  BY <1>1, <1>2, IdleParts DEF Promised, Pinned!SeatAt, Pinned!MoverAt
<1> QED  BY <1>2, <1>4, <1>5, <1>6, <1>7

(* A click is a record of its parts. *)
LEMMA ClickParts ==
  ASSUME NEW old \in Click
  PROVE  /\ old.at \in {"idle", "reading", "removing", "opening", "pinning", "marking"}
         /\ old.read \in Nat /\ old.session \in Nat /\ old.node \in Node \cup {NoNode}
  BY DEF Click

LEMMA StillParts ==
  Pinned!Still \in Click /\ Pinned!Still.at = "idle" /\ Pinned!Still.session = Pinned!NoSession
  BY DEF Pinned!Still, Click, Pinned!NoSession

(* What a step of one click leaves as it was. *)
LEMMA MoverOnly ==
  ASSUME Shapes, Places, UNCHANGED <<home, seat, leaving>>,
         NEW m \in Mover, NEW r \in Click, mover' = [mover EXCEPT ![m] = r],
         r.at # "idle" => r.node \in Node,
         r.session \in Pinned!Sessions \cup {Pinned!NoSession},
         r.at \in {"pinning", "marking"} => r.session \in Pinned!Sessions /\ home[r.session] = r.node
  PROVE  /\ Places' /\ Pinned!Sessions' = Pinned!Sessions
         /\ mover' \in [Mover -> Click]
         /\ mover'[m] = r /\ \A o \in Mover \ {m} : mover'[o] = mover[o]
         /\ r.at # "marking" /\ mover[m].at # "marking" => Pinned!Marking' = Pinned!Marking
         /\ r.at = "marking" /\ mover[m].at # "marking" => Pinned!Marking' = Pinned!Marking \cup {r.session}
         /\ Pinned!Marking \subseteq Pinned!Marking' \cup {mover[m].session}
<1>1. mover \in [Mover -> Click] /\ mover' \in [Mover -> Click]
      /\ mover'[m] = r /\ \A o \in Mover \ {m} : mover'[o] = mover[o]
  BY DEF Shapes
<1>2. Pinned!Sessions' = Pinned!Sessions /\ home' = home
  BY DEF Pinned!Sessions
<1>3. Places'
  BY <1>1, <1>2 DEF Places, Pinned!SeatAt, Pinned!MoverAt, Pinned!NoSession
<1>4. Pinned!Marking = {mover[o].session : o \in {x \in Mover : mover[x].at = "marking"}}
      /\ Pinned!Marking' = {mover'[o].session : o \in {x \in Mover : mover'[x].at = "marking"}}
  BY DEF Pinned!Marking, Pinned!MoverAt
<1> QED  BY <1>1, <1>2, <1>3, <1>4

(* A step that gives no session the thread's turn, and takes none's word. *)
LEMMA Quiet ==
  ASSUME PInv, UNCHANGED <<moved, seat, spoke, caughtUp, excused>>,
         alive' \subseteq alive, pin' \in {pin, Pinned!NoSession}, Pinned!Marking' = Pinned!Marking
  PROVE  Pinned!SpeaksInformed' /\ SeatKnows' /\ ReadKnows' /\ PinnedSince' /\ PinKnows'
  BY DEF PInv, Pinned!SpeaksInformed, SeatKnows, ReadKnows, PinnedSince, PinKnows, Pinned!SeatAt, Safe

LEMMA ChoosesInv ==
  ASSUME PinsConstants, PInv, NEW m \in Mover, NEW n \in Node, Pinned!Chooses(m, n)
  PROVE  PInv'
<1> USE DEF PInv, Pinned!ghosts
<1>1. /\ UNCHANGED <<pin, home, alive, standing, moved, orphaned, seat, leaving,
                     spoke, caughtUp, excused>>
      /\ promise' = Pinned!NoSession /\ mover[m].at = "idle"
  BY DEF Pinned!Chooses, Pinned!MoverAt
<1> DEFINE r == [Pinned!Still EXCEPT !.at = "reading", !.node = n]
<1>2. r \in Click /\ r.at = "reading" /\ r.node = n /\ r.session = Pinned!NoSession
  BY DEF Pinned!Still, Click, Pinned!NoSession
<1>3. mover' = [mover EXCEPT ![m] = r]
  BY DEF Pinned!Chooses
<1> HIDE DEF r
<1>4. Places' /\ Pinned!Sessions' = Pinned!Sessions /\ mover' \in [Mover -> Click] /\ Pinned!Marking' = Pinned!Marking
  BY <1>1, <1>2, <1>3, MoverOnly
<1>5. Pinned!SpeaksInformed' /\ SeatKnows' /\ ReadKnows' /\ PinnedSince' /\ PinKnows'
  BY <1>1, <1>4, Quiet
<1>6. Shapes' /\ Promised'
  BY <1>1, <1>4 DEF Shapes, Promised
<1> QED  BY <1>4, <1>5, <1>6

(* A click that reads the pin, removes it or cannot open. *)
LEMMA MoverQuietInv ==
  ASSUME PinsConstants, PInv, NEW m \in Mover,
         Pinned!MoverReads(m) \/ Pinned!MoverRemoves(m) \/ Pinned!MoverCannotOpen(m)
  PROVE  PInv'
<1> USE DEF PInv, Pinned!ghosts
<1>1. /\ UNCHANGED <<home, alive, standing, moved, orphaned, seat, leaving,
                     spoke, caughtUp, excused, promise>>
      /\ pin' \in {pin, Pinned!NoSession}
      /\ mover[m].at \in {"reading", "removing", "opening"}
  BY DEF Pinned!MoverReads, Pinned!MoverRemoves, Pinned!MoverCannotOpen, Pinned!MoverAt
<1>2. mover \in [Mover -> Click] /\ mover[m] \in Click /\ mover[m].node \in Node
      /\ mover[m].session \in Pinned!Sessions \cup {Pinned!NoSession} /\ pin \in Nat
  BY <1>1, Home DEF Shapes, Places, Pinned!MoverAt
<1>3. PICK r \in Click : /\ mover' = [mover EXCEPT ![m] = r]
                         /\ r.at \in {"idle", "opening", "removing"}
                         /\ r.at # "idle" => r.node \in Node
                         /\ r.session \in Pinned!Sessions \cup {Pinned!NoSession}
  <2> DEFINE r1 == [mover[m] EXCEPT !.at = "opening", !.read = pin]
             r2 == [mover[m] EXCEPT !.at = "removing", !.read = pin]
             r3 == [mover[m] EXCEPT !.at = "opening"]
  <2>1. /\ r1 \in Click /\ r1.at = "opening" /\ r1.node = mover[m].node
        /\ r1.session = mover[m].session
    BY <1>2 DEF Click
  <2>2. /\ r2 \in Click /\ r2.at = "removing" /\ r2.node = mover[m].node
        /\ r2.session = mover[m].session
    BY <1>2 DEF Click
  <2>3. /\ r3 \in Click /\ r3.at = "opening" /\ r3.node = mover[m].node
        /\ r3.session = mover[m].session
    BY <1>2 DEF Click
  <2>4. \E r \in {Pinned!Still, r1, r2, r3} : mover' = [mover EXCEPT ![m] = r]
    <3>1. CASE Pinned!MoverReads(m)
      BY <3>1, <1>2 DEF Pinned!MoverReads
    <3>2. CASE Pinned!MoverRemoves(m)
      BY <3>2, <1>2 DEF Pinned!MoverRemoves
    <3>3. CASE Pinned!MoverCannotOpen(m)
      BY <3>3 DEF Pinned!MoverCannotOpen
    <3> QED  BY <3>1, <3>2, <3>3
  <2> HIDE DEF r1, r2, r3
  <2> QED  BY <2>1, <2>2, <2>3, <2>4, <1>2, StillParts
<1>4. Places' /\ Pinned!Sessions' = Pinned!Sessions /\ mover' \in [Mover -> Click] /\ Pinned!Marking' = Pinned!Marking
  BY <1>1, <1>3, MoverOnly
<1>5. Pinned!SpeaksInformed' /\ SeatKnows' /\ ReadKnows' /\ PinnedSince' /\ PinKnows'
  BY <1>1, <1>4, Quiet
<1>6. promise = Pinned!NoSession
  BY <1>1 DEF Promised, Pinned!MoverAt
<1>7. Shapes' /\ Promised'
  BY <1>1, <1>4, <1>6 DEF Shapes, Promised
<1> QED  BY <1>4, <1>5, <1>7

LEMMA MoverOpensInv ==
  ASSUME PinsConstants, PInv, NEW m \in Mover, Pinned!MoverOpens(m)
  PROVE  PInv'
<1> USE DEF PInv, Pinned!ghosts
<1>1. /\ UNCHANGED <<pin, standing, moved, orphaned, seat, leaving,
                     spoke, caughtUp, excused, promise>>
      /\ mover[m].at = "opening" /\ mover[m].node \in Node
      /\ mover \in [Mover -> Click] /\ mover[m] \in Click
  BY DEF Pinned!MoverOpens, Pinned!MoverAt, Places, Shapes
<1>2. /\ home' \in Seq(Node) /\ Len(home) \in Nat /\ Len(home') = Len(home) + 1
      /\ Pinned!Sessions' = Pinned!Sessions \cup {Len(home')} /\ Len(home') \notin Pinned!Sessions
      /\ home'[Len(home')] = mover[m].node
      /\ \A s \in Pinned!Sessions : home'[s] = home[s]
      /\ alive' = alive \cup {Len(home')}
  BY <1>1, OpensOne DEF Pinned!MoverOpens, Shapes
<1> DEFINE r == [mover[m] EXCEPT !.at = "pinning", !.session = Len(home')]
<1>3. r \in Click /\ r.at = "pinning" /\ r.node = mover[m].node /\ r.session = Len(home')
  <2>1. Len(home') \in Nat
    BY <1>2
  <2> QED  BY <2>1, <1>1 DEF Click
<1>4. mover' = [mover EXCEPT ![m] = r]
  BY <1>1 DEF Pinned!MoverOpens
<1> HIDE DEF r
<1>5. mover' \in [Mover -> Click] /\ mover'[m] = r
      /\ \A o \in Mover \ {m} : mover'[o] = mover[o]
  BY <1>1, <1>3, <1>4
<1>6. Pinned!Marking' = Pinned!Marking
  BY <1>1, <1>3, <1>5 DEF Pinned!Marking, Pinned!MoverAt
<1>7. Places'
  BY <1>1, <1>2, <1>3, <1>5 DEF Places, Pinned!SeatAt, Pinned!MoverAt
<1>8. promise = Pinned!NoSession
  BY <1>1 DEF Promised, Pinned!MoverAt
<1>9. Shapes' /\ Promised'
  BY <1>1, <1>2, <1>5, <1>8 DEF Shapes, Promised
<1>10. \A s \in Pinned!Sessions : Safe(s) => Safe(s)'
  BY <1>1, <1>2 DEF Safe
<1>11. Pinned!Sessions \subseteq Nat \ {0} /\ {pin, seat.read, seat.session} \subseteq Pinned!Sessions \cup {Pinned!NoSession}
  BY Home DEF Shapes
<1>12. Pinned!SpeaksInformed' /\ SeatKnows' /\ ReadKnows' /\ PinnedSince' /\ PinKnows'
  BY <1>1, <1>6, <1>10, <1>11
     DEF Pinned!SpeaksInformed, SeatKnows, ReadKnows, PinnedSince, PinKnows, Pinned!SeatAt, Places
<1> QED  BY <1>7, <1>9, <1>12

LEMMA MoverPinsInv ==
  ASSUME PinsConstants, PInv, NEW m \in Mover, Pinned!MoverPins(m)
  PROVE  PInv'
<1> USE DEF PInv, Pinned!ghosts
<1>1. /\ UNCHANGED <<home, alive, standing, moved, orphaned, seat, leaving,
                     spoke, caughtUp, excused, promise>>
      /\ mover[m].at = "pinning" /\ pin' \in {pin, mover[m].session}
      /\ mover \in [Mover -> Click] /\ mover[m] \in Click
      /\ mover[m].session \in Pinned!Sessions /\ home[mover[m].session] = mover[m].node
      /\ mover[m].node \in Node
  BY DEF Pinned!MoverPins, Pinned!MoverAt, Places, Shapes
<1> DEFINE r == [mover[m] EXCEPT !.at = "marking"]
<1>2. /\ r \in Click /\ r.at = "marking" /\ r.node = mover[m].node
      /\ r.session = mover[m].session
  BY <1>1 DEF Click
<1>3. mover' = [mover EXCEPT ![m] = r]
  BY <1>1 DEF Pinned!MoverPins
<1> HIDE DEF r
<1>4. /\ Places' /\ Pinned!Sessions' = Pinned!Sessions /\ mover' \in [Mover -> Click]
      /\ Pinned!Marking' = Pinned!Marking \cup {mover[m].session}
  BY <1>1, <1>2, <1>3, MoverOnly
<1>5. promise = Pinned!NoSession
  BY <1>1 DEF Promised, Pinned!MoverAt
<1>6. Shapes' /\ Promised'
  BY <1>1, <1>4, <1>5 DEF Shapes, Promised
<1>7. Pinned!SpeaksInformed' /\ SeatKnows' /\ ReadKnows'
  BY <1>1 DEF Pinned!SpeaksInformed, SeatKnows, ReadKnows, Pinned!SeatAt, Safe
<1>8. PinnedSince' /\ PinKnows'
  BY <1>1, <1>4 DEF PinnedSince, PinKnows, Pinned!SeatAt, Safe
<1> QED  BY <1>4, <1>6, <1>7, <1>8

(* The thread is marked, and its people are told where it runs. *)
LEMMA MoverMarksInv ==
  ASSUME PinsConstants, PInv, NEW m \in Mover, Pinned!MoverMarks(m)
  PROVE  PInv'
<1> USE DEF PInv, Pinned!ghosts
<1>1. /\ UNCHANGED <<pin, home, alive, standing, orphaned, seat, leaving, spoke, caughtUp>>
      /\ moved' = TRUE /\ mover[m].at = "marking" /\ mover' = [mover EXCEPT ![m] = Pinned!Still]
      /\ mover[m].session \in Pinned!Sessions /\ home[mover[m].session] = mover[m].node
      /\ excused' \in {excused, excused \cup {mover[m].session}}
      /\ ~Pinned!SeatAt("idle") => mover[m].session \in excused'
  BY DEF Pinned!MoverMarks, Pinned!MoverAt, Places, Pinned!Marks
<1>2. /\ Places' /\ Pinned!Sessions' = Pinned!Sessions /\ mover' \in [Mover -> Click]
      /\ mover'[m] = Pinned!Still /\ \A o \in Mover \ {m} : mover'[o] = mover[o]
      /\ Pinned!Marking \subseteq Pinned!Marking' \cup {mover[m].session}
  BY <1>1, MoverOnly, StillParts
<1>3. promise' # Pinned!NoSession => /\ promise' = mover[m].session /\ pin = promise'
                                     /\ Pinned!Undisturbed(m)
  BY DEF Pinned!MoverMarks
<1>4. Shapes'
  BY <1>1, <1>2, <1>3 DEF Shapes
<1>5. Pinned!SpeaksInformed' /\ SeatKnows' /\ ReadKnows' /\ PinKnows'
  BY <1>1 DEF Pinned!SpeaksInformed, SeatKnows, ReadKnows, PinKnows, Pinned!SeatAt, Safe
<1>6. PinnedSince'
  BY <1>1, <1>2 DEF PinnedSince, Pinned!SeatAt, Safe
<1>7. Promised'
  BY <1>1, <1>2, <1>3, StillParts DEF Promised, Pinned!Undisturbed, Pinned!SeatAt, Pinned!MoverAt
<1> QED  BY <1>2, <1>4, <1>5, <1>6, <1>7

(* What a step of a node leaves as it was. *)
LEMMA NodeOnly ==
  ASSUME PInv, UNCHANGED <<home, moved, seat, mover, spoke, caughtUp, excused>>,
         alive' \subseteq alive, pin' \in {pin, Pinned!NoSession}
  PROVE  /\ Pinned!Sessions' = Pinned!Sessions /\ \A s : Pinned!HomeOf(s)' = Pinned!HomeOf(s)
         /\ Pinned!SpeaksInformed' /\ SeatKnows' /\ ReadKnows' /\ PinnedSince' /\ PinKnows'
<1>1. Pinned!Sessions' = Pinned!Sessions /\ Pinned!Marking' = Pinned!Marking /\ \A s : Pinned!HomeOf(s)' = Pinned!HomeOf(s)
  BY DEF Pinned!Sessions, Pinned!Marking, Pinned!MoverAt, Pinned!HomeOf, Pinned!NoSession
<1> QED  BY <1>1, Quiet

LEMMA LosesInv ==
  ASSUME PinsConstants, PInv, NEW n \in Node, NEW to \in {"lost", "off"}, Pinned!Loses(n, to)
  PROVE  PInv'
<1> USE DEF PInv, Pinned!ghosts
<1>1. /\ UNCHANGED <<pin, home, alive, moved, orphaned, seat, mover, leaving,
                     spoke, caughtUp, excused>>
      /\ promise' \in {promise, Pinned!NoSession}
      /\ standing' = [standing EXCEPT ![n] = to] /\ to \in Pinned!Statuses
      /\ promise' # Pinned!NoSession => Pinned!HomeOf(promise) # n
  BY DEF Pinned!Loses, Pinned!HomeOf, Pinned!Statuses
<1>2. /\ Pinned!Sessions' = Pinned!Sessions
      /\ Pinned!SpeaksInformed' /\ SeatKnows' /\ ReadKnows' /\ PinnedSince' /\ PinKnows'
  BY <1>1, NodeOnly
<1>3. Shapes' /\ Places'
  BY <1>1, <1>2 DEF Shapes, Places, Pinned!SeatAt, Pinned!MoverAt
<1>4. promise' # Pinned!NoSession => standing'[home[promise]] = "here"
  BY <1>1, Home DEF Shapes, Promised
<1>5. Promised'
  BY <1>1, <1>2, <1>4 DEF Promised, Pinned!SeatAt, Pinned!MoverAt
<1> QED  BY <1>2, <1>3, <1>5

LEMMA ReturnsInv ==
  ASSUME PinsConstants, PInv, NEW n \in Node, Pinned!Returns(n)
  PROVE  PInv'
<1> USE DEF PInv, Pinned!ghosts
<1>1. /\ UNCHANGED <<pin, home, moved, orphaned, seat, mover, leaving,
                     spoke, caughtUp, excused, promise>>
      /\ standing' = [standing EXCEPT ![n] = "here"] /\ standing[n] # "here"
      /\ alive' \in {alive, {s \in alive : home[s] # n}}
  BY DEF Pinned!Returns
<1>2. /\ Pinned!Sessions' = Pinned!Sessions
      /\ Pinned!SpeaksInformed' /\ SeatKnows' /\ ReadKnows' /\ PinnedSince' /\ PinKnows'
  BY <1>1, NodeOnly
<1>3. Shapes' /\ Places'
  BY <1>1, <1>2 DEF Shapes, Places, Pinned!SeatAt, Pinned!MoverAt, Pinned!Statuses
<1>4. promise # Pinned!NoSession => standing'[home[promise]] = "here" /\ home[promise] # n
  BY <1>1, Home DEF Shapes, Promised
<1>5. Promised'
  BY <1>1, <1>2, <1>4 DEF Promised, Pinned!SeatAt, Pinned!MoverAt
<1> QED  BY <1>2, <1>3, <1>5

(* What the handler of a departure writes. *)
LEMMA LeaveInv ==
  ASSUME PinsConstants, PInv, NEW n \in Node,
         Pinned!Departs(n) \/ Pinned!Queries(n) \/ Pinned!Deletes(n) \/ Pinned!Orphans(n)
  PROVE  PInv'
<1> USE DEF PInv, Pinned!ghosts
<1>1. /\ UNCHANGED <<home, alive, moved, seat, mover, spoke, caughtUp, excused, promise>>
      /\ orphaned' \in {orphaned, TRUE}
      /\ pin' \in {pin, Pinned!NoSession}
      /\ \/ standing' = standing
         \/ standing[n] = "lost" /\ standing' = [standing EXCEPT ![n] = "gone"]
      /\ standing[n] = "lost" \/ leaving[n].at # "idle"
      /\ pin' # pin => leaving[n].at = "deleting" /\ pin = leaving[n].saw
  BY DEF Pinned!Departs, Pinned!Queries, Pinned!Deletes, Pinned!Orphans, Pinned!DeletesSame
<1>2. leaving \in [Node -> Leave] /\ pin \in Nat /\ Pinned!NoSession \in Nat
      /\ pin \in Pinned!Sessions \cup {Pinned!NoSession} /\ home \in Seq(Node)
  BY Home DEF Shapes, Pinned!NoSession, Pinned!Sessions
<1>3. PICK r \in Leave : /\ leaving' = [leaving EXCEPT ![n] = r]
                         /\ r.at = "deleting" => r.saw \in Pinned!Sessions /\ home[r.saw] = n
  <2> DEFINE r1 == [leaving[n] EXCEPT !.at = "querying"]
             r2 == [at |-> "deleting", saw |-> pin]
             r3 == [leaving[n] EXCEPT !.at = "orphaning"]
  <2>1. r1 \in Leave /\ r1.at = "querying"
    BY <1>2 DEF Leave
  <2>2. r2 \in Leave /\ r2.at = "deleting" /\ r2.saw = pin
    BY <1>2 DEF Leave
  <2>3. r3 \in Leave /\ r3.at = "orphaning"
    BY <1>2 DEF Leave
  <2>4. Pinned!Stays \in Leave /\ Pinned!Stays.at = "idle"
    BY DEF Pinned!Stays, Leave, Pinned!NoSession
  <2>5. Pinned!HomeOf(pin) = n => pin \in Pinned!Sessions /\ home[pin] = n
    BY <1>2, Home DEF PinsConstants, Pinned!NodeAssumption
  <2>6. \E r \in {Pinned!Stays, r1, r2, r3} :
          /\ leaving' = [leaving EXCEPT ![n] = r]
          /\ r = r2 => Pinned!HomeOf(pin) = n \/ r # r2
    <3>1. CASE Pinned!Departs(n)
      BY <3>1, <1>2, <2>1, <2>2 DEF Pinned!Departs
    <3>2. CASE Pinned!Queries(n)
      BY <3>2, <2>2, <2>4 DEF Pinned!Queries
    <3>3. CASE Pinned!Deletes(n)
      BY <3>3, <1>2, <2>2, <2>3, <2>4 DEF Pinned!Deletes
    <3>4. CASE Pinned!Orphans(n)
      BY <3>4, <2>2, <2>4 DEF Pinned!Orphans
    <3> QED  BY <3>1, <3>2, <3>3, <3>4
  <2> HIDE DEF r1, r2, r3
  <2> QED  BY <2>1, <2>2, <2>3, <2>4, <2>5, <2>6
<1>4. leaving' \in [Node -> Leave] /\ leaving'[n] = r
      /\ \A o \in Node \ {n} : leaving'[o] = leaving[o]
  BY <1>2, <1>3
<1>5. /\ Pinned!Sessions' = Pinned!Sessions
      /\ Pinned!SpeaksInformed' /\ SeatKnows' /\ ReadKnows' /\ PinnedSince' /\ PinKnows'
  BY <1>1, NodeOnly
<1>6. Shapes'
  <2>1. standing' \in [Node -> Pinned!Statuses] /\ orphaned' \in BOOLEAN
    BY <1>1 DEF Shapes, Pinned!Statuses
  <2>2. {pin', promise', seat'.read, seat'.session} \subseteq Pinned!Sessions' \cup {Pinned!NoSession}
        /\ alive' \cup spoke' \cup caughtUp' \cup excused' \subseteq Pinned!Sessions'
    BY <1>1, <1>5 DEF Shapes
  <2>3. home' \in Seq(Node) /\ moved' \in BOOLEAN /\ seat' \in Seat /\ mover' \in [Mover -> Click]
    BY <1>1 DEF Shapes
  <2> QED  BY <2>1, <2>2, <2>3, <1>4 DEF Shapes
<1>7. Places'
  BY <1>1, <1>3, <1>4, <1>5 DEF Places, Pinned!SeatAt, Pinned!MoverAt
<1>8. promise # Pinned!NoSession => home[promise] \in Node /\ home[promise] # n /\ pin' = pin
  BY <1>1, Home DEF Shapes, Places, Promised
<1>9. Promised'
  BY <1>1, <1>2, <1>4, <1>5, <1>8 DEF Promised, Shapes, Pinned!SeatAt, Pinned!MoverAt
<1> QED  BY <1>5, <1>6, <1>7, <1>9

----------------------------------------------------------------------------
(* Theorems *)

LEMMA PinsInitInv == ASSUME PinsConstants, Pinned!Init PROVE PInv
<1>1. seat = Pinned!Idle /\ pin = 0 /\ home = <<>> /\ promise = 0
  BY DEF Pinned!Init, Pinned!NoSession
<1>2. Pinned!Stays \in Leave /\ Pinned!Stays.at = "idle"
  BY DEF Pinned!Stays, Leave, Pinned!NoSession
<1>3. Shapes
  <2>1. standing \in [Node -> Pinned!Statuses] /\ mover \in [Mover -> Click]
        /\ leaving \in [Node -> Leave]
    BY <1>2, StillParts DEF Pinned!Init, Pinned!Statuses
  <2>2. home \in Seq(Node) /\ alive \cup spoke \cup caughtUp \cup excused = {}
    BY DEF Pinned!Init
  <2>3. {pin, promise, seat.read, seat.session} \subseteq Pinned!Sessions \cup {Pinned!NoSession}
    BY <1>1, IdleParts DEF Pinned!NoSession
  <2>4. seat \in Seat /\ moved \in BOOLEAN /\ orphaned \in BOOLEAN
    BY <1>1, IdleParts DEF Pinned!Init
  <2> QED  BY <2>1, <2>2, <2>3, <2>4 DEF Shapes
<1>4. Places
  BY <1>1, <1>2, IdleParts, StillParts DEF Pinned!Init, Places, Pinned!SeatAt, Pinned!MoverAt
<1>5. Pinned!SpeaksInformed /\ SeatKnows /\ ReadKnows /\ PinnedSince /\ PinKnows /\ Promised
  BY <1>1, IdleParts
     DEF Pinned!Init, Pinned!SpeaksInformed, SeatKnows, ReadKnows, PinnedSince, PinKnows, Promised,
         Pinned!SeatAt, Pinned!NoSession
<1> QED  BY <1>3, <1>4, <1>5 DEF PInv

LEMMA PinsNextInv == ASSUME PinsConstants, PInv, [Pinned!Next]_(Pinned!vars) PROVE PInv'
<1>1. CASE Pinned!SeatStep
  BY <1>1, PinsTakesInv, ReadsInv, ResumesInv, DropsInv, AssignsInv, GivesUpInv,
     SeatOpensInv, SeatPinsInv, AcceptsInv, ForgetsInv, NotTakenInv DEF Pinned!SeatStep
<1>2. ASSUME NEW m \in Mover, Pinned!MoverStep(m) PROVE PInv'
  BY <1>2, ChoosesInv, MoverQuietInv, MoverOpensInv, MoverPinsInv, MoverMarksInv
     DEF Pinned!MoverStep
<1>3. ASSUME NEW n \in Node, Pinned!NodeStep(n) PROVE PInv'
  BY <1>3, LosesInv, ReturnsInv, LeaveInv DEF Pinned!NodeStep
<1>4. CASE UNCHANGED Pinned!vars
  <2>1. UNCHANGED <<pin, home, alive, standing, moved, orphaned, seat, mover, leaving,
                    spoke, caughtUp, excused, promise>>
    BY <1>4 DEF Pinned!vars
  <2>2. /\ Pinned!Sessions' = Pinned!Sessions
        /\ Pinned!SpeaksInformed' /\ SeatKnows' /\ ReadKnows' /\ PinnedSince' /\ PinKnows'
    BY <2>1, NodeOnly
  <2> QED  BY <2>1, <2>2 DEF PInv, Shapes, Places, Promised, Pinned!SeatAt, Pinned!MoverAt
<1> QED  BY <1>1, <1>2, <1>3, <1>4 DEF Pinned!Next

(* Wherever a thread goes, it is known and it stays: whichever way the     *)
(* thread came to run in a session (`seat`, `forget`, `move_thread` and    *)
(* `on_fleet` of chat.rs, in any order), the first prompt the session      *)
(* accepted told it what was said before, but for the faults               *)
(* SpeaksInformed names; and once people are told where it was moved to, a *)
(* message goes there until something MoveSticks names takes it away.      *)
THEOREM KnownAndKept ==
  ASSUME PinsConstants
  PROVE  Pinned!Spec => [](Pinned!SpeaksInformed /\ Pinned!MoveSticks)
<1>1. Pinned!Init => PInv
  BY PinsInitInv
<1>2. PInv /\ [Pinned!Next]_(Pinned!vars) => PInv'
  BY PinsNextInv
<1>3. PInv => Pinned!SpeaksInformed /\ Pinned!MoveSticks
  BY DEF PInv, Promised, Pinned!MoveSticks
<1> QED  BY <1>1, <1>2, <1>3, PTL DEF Pinned!Spec

----------------------------------------------------------------------------
(* Files in a thread *)

(* What the constants are. *)
ThreadConstants == Files!FileAssumption /\ Files!PageAssumption /\ Files!BoundsAssumption

----------------------------------------------------------------------------
(* What holds of every state *)

Posted == [ts : Nat, bot : BOOLEAN, file : File \cup {NoFile}]
Sending  == [at : Files!Stages, tries : Nat, whole : BOOLEAN]
Settled == {f \in File : told[f] = "posted" \/ f \in unsure}

ThreadShapes ==
  /\ thread \in Seq(Posted)
  /\ sender \in [File -> Sending] /\ told \in [File -> {"nothing", "posted", "failed"}]
  /\ unsure \subseteq File /\ IsFiniteSet(Settled)
  /\ threadUsed \in [posts : Nat, deletes : Nat, faults : Nat]

(* A file is in the thread once, and then its sender is done with it and   *)
(* was told so, or Slack's answer to it was lost; and only whole bytes are *)
(* sent.                                                                   *)
Unsettled(f) == sender[f].at # "over" => told[f] = "nothing" /\ f \notin unsure
FilePlaced(f) ==
  /\ \A i, j \in Files!Shared(f) : i = j
  /\ Files!Shared(f) # {} <=> (told[f] = "posted" \/ f \in unsure)
Entire(f) == sender[f].at \in {"reserving", "sending", "sharing"} \/ Files!Shared(f) # {} => sender[f].whole

FInv == ThreadShapes /\ \A f \in File : Unsettled(f) /\ FilePlaced(f) /\ Entire(f)

(* Files of a thread that grows, or that loses a message without a file.   *)
LEMMA SharedMore ==
  ASSUME ThreadShapes, NEW bot \in BOOLEAN, NEW f \in File \cup {NoFile}, Files!Posts(bot, f)
  PROVE  /\ thread' \in Seq(Posted)
         /\ \A g \in File : Files!Shared(g)' = Files!Shared(g) \cup (IF f = g THEN {Len(thread) + 1} ELSE {})
         /\ \A g \in File : Len(thread) + 1 \notin Files!Shared(g)
<1> DEFINE n == Len(thread)
           m == [ts |-> Files!NextTs, bot |-> bot, file |-> f]
<1>1. Files!NextTs \in Nat
  <2>1. Cardinality(Settled) \in Nat /\ threadUsed.posts \in Nat
    BY FS_CardinalityType DEF ThreadShapes
  <2>2. Files!Cardinality(Settled) = Cardinality(Settled)
    BY DEF Cardinality, Files!Cardinality
  <2> QED  BY <2>1, <2>2 DEF Files!NextTs, Settled
<1>2. m \in Posted /\ m.file = f
  BY <1>1 DEF Posted
<1>3. /\ n \in Nat /\ DOMAIN thread = 1 .. n /\ thread' \in Seq(Posted)
      /\ DOMAIN thread' = 1 .. n + 1 /\ thread'[n + 1] = m /\ \A i \in 1 .. n : thread'[i] = thread[i]
  <2> HIDE DEF m
  <2>1. thread' = Append(thread, m) /\ thread \in Seq(Posted)
    BY DEF Files!Posts, m, ThreadShapes
  <2> QED  BY <1>2, <2>1
<1> HIDE DEF n, m
<1>4. ASSUME NEW g \in File
      PROVE  /\ Files!Shared(g)' = Files!Shared(g) \cup (IF f = g THEN {n + 1} ELSE {})
             /\ n + 1 \notin Files!Shared(g)
  <2>1. n + 1 \notin 1 .. n /\ \A i : i \in 1 .. n + 1 <=> (i \in 1 .. n \/ i = n + 1)
    BY <1>3
  <2>2. \A i : i \in Files!Shared(g)' <=> (i \in 1 .. n + 1 /\ thread'[i].file = g)
    BY <1>3 DEF Files!Shared
  <2>3. \A i : i \in Files!Shared(g) <=> (i \in 1 .. n /\ thread[i].file = g)
    BY <1>3 DEF Files!Shared
  <2>4. \A i : i \in Files!Shared(g)' <=> (i \in Files!Shared(g) \/ (i = n + 1 /\ f = g))
    BY <1>2, <1>3, <2>1, <2>2, <2>3
  <2> QED  BY <2>1, <2>3, <2>4
<1> QED  BY <1>3, <1>4 DEF n

(* A thread without one of its messages. *)
LEMMA MessageGone ==
  ASSUME ThreadShapes, NEW i \in DOMAIN thread, thread' = RemoveAt(thread, i)
  PROVE  /\ thread' \in Seq(Posted) /\ Len(thread') = Len(thread) - 1
         /\ \A k \in 1 .. i - 1 : thread'[k] = thread[k]
         /\ \A k \in i .. Len(thread) - 1 : thread'[k] = thread[k + 1]
<1> DEFINE n == Len(thread)
           before == SubSeq(thread, 1, i - 1)
           behind == SubSeq(thread, i + 1, n)
<1>1. thread \in Seq(Posted) /\ n \in Nat /\ DOMAIN thread = 1 .. n /\ i \in 1 .. n
  BY DEF ThreadShapes
<1>2. /\ before \in Seq(Posted) /\ Len(before) = i - 1
      /\ \A k \in 1 .. i - 1 : before[k] = thread[k]
  <2>1. /\ before \in Seq(Posted) /\ Len(before) = IF 1 <= i - 1 THEN i - 1 - 1 + 1 ELSE 0
        /\ \A k \in 1 .. i - 1 - 1 + 1 : before[k] = thread[1 + k - 1]
    <3>1. 1 \in 1 .. n + 1 /\ i - 1 \in 0 .. n
      BY <1>1
    <3> QED  BY <1>1, <3>1, SubSeqProperties
  <2> QED  BY <1>1, <2>1
<1>3. /\ behind \in Seq(Posted) /\ Len(behind) = n - i
      /\ \A k \in 1 .. n - i : behind[k] = thread[k + i]
  <2>1. /\ behind \in Seq(Posted) /\ Len(behind) = IF i + 1 <= n THEN n - (i + 1) + 1 ELSE 0
        /\ \A k \in 1 .. n - (i + 1) + 1 : behind[k] = thread[i + 1 + k - 1]
    <3>1. i + 1 \in 1 .. n + 1
      BY <1>1
    <3> QED  BY <1>1, <3>1, SubSeqProperties
  <2> QED  BY <1>1, <2>1
<1>4. thread' = before \o behind
  BY DEF RemoveAt
<1> HIDE DEF before, behind, n
<1>5. /\ thread' \in Seq(Posted) /\ Len(thread') = n - 1
      /\ \A k \in 1 .. i - 1 : thread'[k] = thread[k]
      /\ \A k \in i .. n - 1 : thread'[k] = thread[k + 1]
  <2>1. /\ thread' \in Seq(Posted) /\ Len(thread') = Len(before) + Len(behind)
        /\ \A k \in 1 .. Len(before) : thread'[k] = before[k]
        /\ \A k \in Len(before) + 1 .. Len(before) + Len(behind) : thread'[k] = behind[k - Len(before)]
    <3>1. before \in Seq(Posted) /\ behind \in Seq(Posted)
      BY <1>2, <1>3
    <3>2. /\ before \o behind \in Seq(Posted) /\ Len(before \o behind) = Len(before) + Len(behind)
          /\ \A k \in 1 .. Len(before) + Len(behind) :
               (before \o behind)[k] = IF k <= Len(before) THEN before[k] ELSE behind[k - Len(before)]
      BY <3>1, ConcatProperties
    <3>3. Len(before) \in Nat /\ Len(behind) \in Nat
      BY <3>1
    <3>4. \A k \in 1 .. Len(before) : k \in 1 .. Len(before) + Len(behind) /\ k <= Len(before)
      BY <3>3
    <3>5. \A k \in Len(before) + 1 .. Len(before) + Len(behind) :
            k \in 1 .. Len(before) + Len(behind) /\ ~(k <= Len(before))
      BY <3>3
    <3> QED  BY <1>4, <3>2, <3>4, <3>5
  <2>2. \A k \in i .. n - 1 : k - (i - 1) \in 1 .. n - i /\ k - (i - 1) + i = k + 1
    BY <1>1
  <2>3. ASSUME NEW k \in i .. n - 1 PROVE thread'[k] = thread[k + 1]
    <3>1. thread'[k] = behind[k - (i - 1)]
      <4>1. Len(before) = i - 1 /\ Len(behind) = n - i
        BY <1>2, <1>3
      <4>2. k \in Len(before) + 1 .. Len(before) + Len(behind)
        BY <1>1, <4>1
      <4> QED  BY <2>1, <4>1, <4>2
    <3>2. behind[k - (i - 1)] = thread[k - (i - 1) + i]
      BY <1>3, <2>2
    <3> QED  BY <2>2, <3>1, <3>2
  <2> QED  BY <1>1, <1>2, <1>3, <2>1, <2>3
<1> QED  BY <1>5 DEF n

LEMMA SharedLess ==
  ASSUME ThreadShapes, NEW i \in DOMAIN thread, thread[i].file = NoFile, NoFile \notin File,
         thread' = RemoveAt(thread, i)
  PROVE  /\ thread' \in Seq(Posted)
         /\ \A g \in File : /\ (\A j, k \in Files!Shared(g) : j = k) => \A j, k \in Files!Shared(g)' : j = k
                            /\ Files!Shared(g)' # {} <=> Files!Shared(g) # {}
<1> DEFINE n == Len(thread)
<1>1. thread \in Seq(Posted) /\ n \in Nat /\ DOMAIN thread = 1 .. n /\ i \in 1 .. n
  BY DEF ThreadShapes
<1>5. /\ thread' \in Seq(Posted) /\ Len(thread') = n - 1
      /\ \A k \in 1 .. i - 1 : thread'[k] = thread[k]
      /\ \A k \in i .. n - 1 : thread'[k] = thread[k + 1]
  BY MessageGone
<1> HIDE DEF n
<1>6. ASSUME NEW g \in File
      PROVE  /\ (\A j, k \in Files!Shared(g) : j = k) => \A j, k \in Files!Shared(g)' : j = k
             /\ Files!Shared(g)' # {} <=> Files!Shared(g) # {}
  <2>1. \A k : k \in Files!Shared(g) <=> (k \in 1 .. n /\ thread[k].file = g)
    BY <1>1 DEF Files!Shared
  <2>2. \A k : k \in Files!Shared(g)' <=> (k \in 1 .. n - 1 /\ thread'[k].file = g)
    BY <1>5 DEF Files!Shared
  <2>3. i \notin Files!Shared(g)
    BY <2>1
  <2>4. \A k \in Files!Shared(g)' : \/ k < i /\ k \in Files!Shared(g)
                                    \/ k >= i /\ k + 1 \in Files!Shared(g)
    <3>1. ASSUME NEW k \in Files!Shared(g)', k < i PROVE k \in Files!Shared(g)
      BY <1>1, <1>5, <2>1, <2>2, <3>1
    <3>2. ASSUME NEW k \in Files!Shared(g)', k >= i PROVE k + 1 \in Files!Shared(g)
      <4>1. k \in i .. n - 1 /\ k + 1 \in 1 .. n /\ thread'[k].file = g
        BY <1>1, <2>2, <3>2
      <4> QED  BY <1>5, <2>1, <4>1
    <3>3. \A k \in Files!Shared(g)' : k < i \/ k >= i
      BY <1>1, <2>2
    <3> QED  BY <3>1, <3>2, <3>3
  <2>5. ASSUME NEW k \in Files!Shared(g) PROVE Files!Shared(g)' # {}
    <3>1. k \in 1 .. n /\ k # i /\ thread[k].file = g
      BY <2>1, <2>3, <2>5
    <3>2. CASE k < i
      <4>1. k \in 1 .. i - 1 /\ k \in 1 .. n - 1
        BY <1>1, <3>1, <3>2
      <4> QED  BY <1>5, <2>2, <3>1, <4>1
    <3>3. CASE k > i
      <4>1. k - 1 \in i .. n - 1 /\ k - 1 \in 1 .. n - 1 /\ k - 1 + 1 = k
        BY <1>1, <3>1, <3>3
      <4>2. thread'[k - 1] = thread[k - 1 + 1]
        BY <1>5, <4>1
      <4> QED  BY <2>2, <3>1, <4>1, <4>2
    <3> QED  BY <1>1, <3>1, <3>2, <3>3
  <2>6. ASSUME \A j, k \in Files!Shared(g) : j = k, NEW j \in Files!Shared(g)', NEW k \in Files!Shared(g)'
        PROVE  j = k
    <3>1. j \in Int /\ k \in Int /\ i \in Int
      BY <1>1, <2>2
    <3>2. \/ (j < i /\ j \in Files!Shared(g)) \/ (j >= i /\ j + 1 \in Files!Shared(g))
      BY <2>4
    <3>3. \/ (k < i /\ k \in Files!Shared(g)) \/ (k >= i /\ k + 1 \in Files!Shared(g))
      BY <2>4
    <3> QED  BY <2>6, <3>1, <3>2, <3>3
  <2> QED  BY <2>4, <2>5, <2>6
<1> QED  BY <1>5, <1>6

(* The number of the next message, which one that is posted takes. *)
Still == UNCHANGED thread /\ Files!NextTs' = Files!NextTs
Grown == \E bot \in BOOLEAN, f \in File \cup {NoFile} : Files!Posts(bot, f) /\ Files!NextTs' = Files!NextTs + 1

LEMMA NextNumber ==
  ASSUME ThreadShapes
  PROVE  Files!NextTs = 2 + threadUsed.posts + Cardinality(Settled) /\ Files!NextTs \in Nat
<1>1. Cardinality(Settled) \in Nat /\ threadUsed.posts \in Nat
  BY FS_CardinalityType DEF ThreadShapes
<1>2. Files!Cardinality(Settled) = Cardinality(Settled)
  BY DEF Cardinality, Files!Cardinality
<1> QED  BY <1>1, <1>2 DEF Files!NextTs, Settled


LEMMA NumberStays ==
  ASSUME UNCHANGED Settled, threadUsed'.posts = threadUsed.posts
  PROVE  Files!NextTs' = Files!NextTs
BY DEF Files!NextTs, Settled

LEMMA NumberGoesOn ==
  ASSUME ThreadShapes,
         \/ UNCHANGED Settled /\ threadUsed'.posts = threadUsed.posts + 1
         \/ \E f \in File \ Settled : Settled' = Settled \cup {f} /\ threadUsed'.posts = threadUsed.posts
  PROVE  Files!NextTs' = Files!NextTs + 1
<1>1. Cardinality(Settled) \in Nat /\ IsFiniteSet(Settled) /\ threadUsed.posts \in Nat
  BY FS_CardinalityType DEF ThreadShapes
<1>2. Cardinality(Settled') + threadUsed'.posts = Cardinality(Settled) + threadUsed.posts + 1
  <2>1. CASE UNCHANGED Settled /\ threadUsed'.posts = threadUsed.posts + 1
    BY <1>1, <2>1
  <2>2. ASSUME NEW f \in File \ Settled, Settled' = Settled \cup {f}, threadUsed'.posts = threadUsed.posts
        PROVE  Cardinality(Settled') + threadUsed'.posts = Cardinality(Settled) + threadUsed.posts + 1
    <3>1. Cardinality(Settled \cup {f}) = Cardinality(Settled) + 1
      BY <1>1, FS_AddElement
    <3> QED  BY <1>1, <2>2, <3>1
  <2> QED  BY <2>1, <2>2
<1>3. Files!NextTs' = 2 + threadUsed'.posts + Cardinality(Settled')
  BY DEF Files!NextTs, Settled, Cardinality, Files!Cardinality
<1>4. IsFiniteSet(Settled')
  BY <1>1, FS_AddElement
<1>5. Cardinality(Settled') \in Nat /\ threadUsed'.posts \in Nat
  BY <1>1, <1>4, FS_CardinalityType
<1> HIDE DEF Settled
<1> QED  BY <1>1, <1>2, <1>3, <1>5, NextNumber

----------------------------------------------------------------------------
(* A sender that goes on, or gives its file up, without sharing it. *)
LEMMA LimitedShape ==
  ASSUME ThreadConstants, ThreadShapes, NEW o \in Files!Outcomes, NEW tries, Files!Outcome(o, tries)
  PROVE  threadUsed' \in [posts : Nat, deletes : Nat, faults : Nat] /\ threadUsed'.posts = threadUsed.posts
<1>1. threadUsed \in [posts : Nat, deletes : Nat, faults : Nat]
  BY DEF ThreadShapes
<1>2. UNCHANGED threadUsed \/ threadUsed' = [threadUsed EXCEPT !["faults"] = @ + 1]
  BY DEF Files!Outcome, Files!Fails, Files!Counts, Files!Outcomes
<1>3. /\ [threadUsed EXCEPT !["faults"] = @ + 1] \in [posts : Nat, deletes : Nat, faults : Nat]
      /\ [threadUsed EXCEPT !["faults"] = @ + 1].posts = threadUsed.posts
  BY <1>1
<1> QED  BY <1>1, <1>2, <1>3

SenderGoes(f, q) ==
  /\ sender' = [sender EXCEPT ![f] = q] /\ q \in Sending
  /\ \/ q.at # "over" /\ UNCHANGED told
     \/ q.at = "over" /\ told' = [told EXCEPT ![f] = "failed"]
  /\ q.at \in {"reserving", "sending", "sharing"} => q.whole

LEMMA Unplaced ==
  ASSUME FInv, NEW f \in File, NEW q, SenderGoes(f, q), sender[f].at # "over", UNCHANGED <<thread, unsure>>,
         threadUsed' \in [posts : Nat, deletes : Nat, faults : Nat], threadUsed'.posts = threadUsed.posts
  PROVE  FInv' /\ Still
<1>1. /\ sender \in [File -> Sending] /\ told \in [File -> {"nothing", "posted", "failed"}]
      /\ told[f] = "nothing" /\ f \notin unsure /\ Files!Shared(f) = {}
  BY DEF FInv, ThreadShapes, Unsettled, FilePlaced
<1>2. /\ sender' \in [File -> Sending] /\ told' \in [File -> {"nothing", "posted", "failed"}]
      /\ sender'[f] = q /\ told'[f] # "posted" /\ (q.at # "over" => told'[f] = "nothing")
      /\ \A g \in File \ {f} : sender'[g] = sender[g] /\ told'[g] = told[g]
  BY <1>1 DEF SenderGoes
<1>3. UNCHANGED Settled /\ \A g \in File : UNCHANGED Files!Shared(g)
  BY <1>1, <1>2 DEF Settled, Files!Shared
<1>4. ThreadShapes'
  BY <1>2, <1>3 DEF FInv, ThreadShapes
<1>5. ASSUME NEW g \in File PROVE Unsettled(g)' /\ FilePlaced(g)' /\ Entire(g)'
  <2>1. CASE g = f
    BY <1>1, <1>2, <1>3, <2>1 DEF Unsettled, FilePlaced, Entire, SenderGoes
  <2>2. CASE g # f
    BY <1>2, <1>3, <2>2 DEF Unsettled, FilePlaced, Entire, FInv
  <2> QED  BY <2>1, <2>2
<1> QED  BY <1>3, <1>4, <1>5, NumberStays DEF FInv, Still

(* What follows an answer leads on, unless the file was shared. *)
LEMMA SenderLeads ==
  ASSUME FInv, NEW f \in File, NEW o \in Files!Outcomes \ {"done"}, NEW next, Files!Follows(f, o, next),
         sender[f].at \in {"reserving", "sending", "sharing"}
  PROVE  \E q : SenderGoes(f, q) /\ (o # "again" => q.at = "over")
<1>1. sender \in [File -> Sending] /\ sender[f] \in Sending /\ sender[f].whole
  BY DEF FInv, ThreadShapes, Entire
<1>2. CASE o = "again"
  <2> DEFINE q == [sender[f] EXCEPT !.tries = @ + 1]
  <2>1. sender' = [sender EXCEPT ![f] = q] /\ UNCHANGED told
    BY <1>1, <1>2 DEF Files!Follows, Files!Waits
  <2>2. q \in Sending /\ q.at = sender[f].at /\ q.whole = sender[f].whole
    <3>1. sender[f].tries + 1 \in Nat
      BY <1>1 DEF Sending
    <3> QED  BY <1>1, <3>1 DEF Sending
  <2> HIDE DEF q
  <2>3. SenderGoes(f, q)
    BY <1>1, <2>1, <2>2 DEF SenderGoes
  <2> QED  BY <1>2, <2>3
<1>3. CASE o # "again"
  <2> DEFINE q == [sender[f] EXCEPT !.at = "over", !.tries = 0]
  <2>1. sender' = [sender EXCEPT ![f] = q] /\ told' = [told EXCEPT ![f] = "failed"]
    BY <1>1, <1>3 DEF Files!Follows, Files!Ends, Files!Goes
  <2>2. q \in Sending /\ q.at = "over" /\ q.whole = sender[f].whole
    BY <1>1 DEF Sending, Files!Stages
  <2> HIDE DEF q
  <2>3. SenderGoes(f, q)
    BY <1>1, <2>1, <2>2 DEF SenderGoes
  <2> QED  BY <2>2, <2>3
<1> QED  BY <1>2, <1>3

LEMMA StageAhead ==
  ASSUME FInv, NEW f \in File, NEW stage \in {"sending", "sharing"}, Files!Goes(f, stage), UNCHANGED told,
         sender[f].at \in {"reserving", "sending"}
  PROVE  \E q : SenderGoes(f, q)
<1>1. sender \in [File -> Sending] /\ sender[f] \in Sending /\ sender[f].whole
  BY DEF FInv, ThreadShapes, Entire
<1> DEFINE q == [sender[f] EXCEPT !.at = stage, !.tries = 0]
<1>2. sender' = [sender EXCEPT ![f] = q]
  BY <1>1 DEF Files!Goes
<1>3. q \in Sending /\ q.at = stage /\ q.whole = sender[f].whole
  BY <1>1 DEF Sending, Files!Stages
<1> HIDE DEF q
<1>4. SenderGoes(f, q)
  BY <1>1, <1>2, <1>3 DEF SenderGoes
<1> QED  BY <1>4

LEMMA ClaimsKeep == ASSUME ThreadConstants, FInv, NEW f \in File, Files!Claims(f) PROVE FInv' /\ Still
<1>1. sender \in [File -> Sending] /\ sender[f] \in Sending /\ sender[f].at = "claiming"
  BY DEF FInv, ThreadShapes, Files!Claims, Files!At
<1>2. threadUsed \in [posts : Nat, deletes : Nat, faults : Nat]
  BY DEF FInv, ThreadShapes
<1>3. threadUsed' \in [posts : Nat, deletes : Nat, faults : Nat] /\ threadUsed'.posts = threadUsed.posts
  <2>1. UNCHANGED threadUsed \/ threadUsed' = [threadUsed EXCEPT !["faults"] = @ + 1]
    BY DEF Files!Claims, Files!Fails, Files!Counts
  <2>2. /\ [threadUsed EXCEPT !["faults"] = @ + 1] \in [posts : Nat, deletes : Nat, faults : Nat]
        /\ [threadUsed EXCEPT !["faults"] = @ + 1].posts = threadUsed.posts
    BY <1>2
  <2> QED  BY <1>2, <2>1, <2>2
<1>4. \E q : SenderGoes(f, q)
  <2>1. CASE Files!Ends(f, "failed")
    <3> DEFINE q == [sender[f] EXCEPT !.at = "over", !.tries = 0]
    <3>1. sender' = [sender EXCEPT ![f] = q] /\ told' = [told EXCEPT ![f] = "failed"]
      BY <1>1, <2>1 DEF Files!Ends, Files!Goes
    <3>2. q \in Sending /\ q.at = "over"
      BY <1>1 DEF Sending, Files!Stages
    <3> HIDE DEF q
    <3>3. SenderGoes(f, q)
      BY <3>1, <3>2 DEF SenderGoes
    <3> QED  BY <3>3
  <2>2. ASSUME NEW whole \in BOOLEAN, f \notin ByEvent => whole, Files!Fits(f, whole),
               sender' = [sender EXCEPT ![f].at = "reserving", ![f].whole = whole], UNCHANGED told
        PROVE  \E q : SenderGoes(f, q)
    <3> DEFINE q == [sender[f] EXCEPT !.at = "reserving", !.whole = whole]
    <3>1. sender' = [sender EXCEPT ![f] = q]
      BY <1>1, <2>2
    <3>2. whole
      BY <2>2 DEF Files!Fits, Files!Announced
    <3>3. q \in Sending /\ q.at = "reserving" /\ q.whole = TRUE
      BY <1>1, <3>2 DEF Sending, Files!Stages
    <3> HIDE DEF q
    <3>4. SenderGoes(f, q)
      BY <2>2, <3>1, <3>3 DEF SenderGoes
    <3> QED  BY <3>4
  <2> QED  BY <2>1, <2>2 DEF Files!Claims
<1> QED  BY <1>1, <1>3, <1>4, Unplaced DEF Files!Claims

LEMMA SendsKeep ==
  ASSUME ThreadConstants, FInv, NEW f \in File, Files!Reserves(f) \/ Files!Sends(f)
  PROVE  FInv' /\ Still
<1>1. \E o \in Files!Outcomes : \E tries : Files!Outcome(o, tries)
  BY DEF Files!Reserves, Files!Sends, Files!Outcomes
<1>2. \E q : SenderGoes(f, q)
  <2>1. CASE Files!Reserves(f)
    <3>1. PICK o \in Files!Outcomes : Files!Follows(f, o, Files!Goes(f, "sending") /\ UNCHANGED told)
      BY <2>1 DEF Files!Reserves
    <3>2. CASE o = "done"
      BY <2>1, <3>1, <3>2, StageAhead DEF Files!Follows, Files!Reserves, Files!At
    <3>3. CASE o # "done"
      BY <2>1, <3>1, <3>3, SenderLeads DEF Files!Reserves, Files!At
    <3> QED  BY <3>2, <3>3
  <2>2. CASE Files!Sends(f)
    <3>1. PICK o \in Files!Outcomes : Files!Follows(f, o, Files!Goes(f, "sharing") /\ UNCHANGED told)
      BY <2>2 DEF Files!Sends, Files!Outcomes
    <3>2. CASE o = "done"
      BY <2>2, <3>1, <3>2, StageAhead DEF Files!Follows, Files!Sends, Files!At
    <3>3. CASE o # "done"
      BY <2>2, <3>1, <3>3, SenderLeads DEF Files!Sends, Files!At
    <3> QED  BY <3>2, <3>3
  <2> QED  BY <2>1, <2>2
<1>3. sender[f].at # "over" /\ UNCHANGED <<thread, unsure>>
  BY DEF Files!Reserves, Files!Sends, Files!At
<1>4. ThreadShapes
  BY DEF FInv
<1> QED  BY <1>1, <1>2, <1>3, <1>4, LimitedShape, Unplaced

LEMMA SharesKeep == ASSUME ThreadConstants, FInv, NEW f \in File, Files!Shares(f) PROVE FInv' /\ (Still \/ Grown)
<1>1. PICK o \in Files!Outcomes :
        /\ Files!Outcome(o, sender[f].tries)
        /\ Files!Follows(f, o, Files!Ends(f, "posted"))
        /\ IF Files!Did(o) THEN Files!Posts(TRUE, f) ELSE UNCHANGED thread
        /\ unsure' = IF o = "lost" THEN unsure \cup {f} ELSE unsure
  BY DEF Files!Shares
<1>2. /\ sender \in [File -> Sending] /\ sender[f] \in Sending /\ sender[f].at = "sharing" /\ sender[f].whole
      /\ told \in [File -> {"nothing", "posted", "failed"}] /\ Files!Shared(f) = {} /\ ThreadShapes
      /\ unsure \subseteq File
  BY DEF FInv, ThreadShapes, Files!Shares, Files!At, Entire, Unsettled, FilePlaced
<1>3. threadUsed' \in [posts : Nat, deletes : Nat, faults : Nat] /\ threadUsed'.posts = threadUsed.posts
  BY <1>1, <1>2, LimitedShape
<1>4. CASE ~Files!Did(o)
  <2>1. \E q : SenderGoes(f, q)
    BY <1>1, <1>2, <1>4, SenderLeads DEF Files!Did
  <2> QED  BY <1>1, <1>2, <1>3, <1>4, <2>1, Unplaced DEF Files!Did
<1>5. CASE Files!Did(o)
  <2> DEFINE q == [sender[f] EXCEPT !.at = "over", !.tries = 0]
             what == IF o = "done" THEN "posted" ELSE "failed"
  <2>1. sender' = [sender EXCEPT ![f] = q] /\ told' = [told EXCEPT ![f] = what]
    BY <1>1, <1>2, <1>5 DEF Files!Did, Files!Follows, Files!Ends, Files!Goes
  <2>2. q \in Sending /\ q.at = "over" /\ q.whole
    BY <1>2 DEF Sending, Files!Stages
  <2>3. what \in {"posted", "failed"} /\ (what = "posted" \/ o = "lost")
    BY <1>5 DEF Files!Did
  <2> HIDE DEF q, what
  <2>4. /\ sender' \in [File -> Sending] /\ told' \in [File -> {"nothing", "posted", "failed"}]
        /\ sender'[f] = q /\ told'[f] = what
        /\ \A g \in File \ {f} : sender'[g] = sender[g] /\ told'[g] = told[g]
    BY <1>2, <2>1, <2>2, <2>3
  <2>5. /\ unsure' \subseteq File /\ (told'[f] = "posted" \/ f \in unsure')
        /\ \A g \in File \ {f} : g \in unsure' <=> g \in unsure
    BY <1>1, <1>2, <2>3, <2>4
  <2>6. Files!Posts(TRUE, f)
    BY <1>1, <1>5
  <2>7. /\ thread' \in Seq(Posted)
        /\ \A g \in File : Files!Shared(g)' = Files!Shared(g) \cup (IF f = g THEN {Len(thread) + 1} ELSE {})
    BY <1>2, <2>6, SharedMore
  <2>8. IsFiniteSet(Settled') /\ Files!NextTs' = Files!NextTs + 1
    <3>1. Settled' = Settled \cup {f} /\ f \in File \ Settled
      <4>1. f \notin Settled
        BY <1>2 DEF Settled, FInv, FilePlaced
      <4> QED  BY <1>2, <2>4, <2>5, <4>1 DEF Settled
    <3>2. IsFiniteSet(Settled')
      BY <1>2, <3>1, FS_AddElement DEF ThreadShapes
    <3> QED  BY <1>2, <1>3, <3>1, <3>2, NumberGoesOn
  <2>9. ThreadShapes'
    BY <1>3, <2>4, <2>5, <2>7, <2>8 DEF ThreadShapes
  <2>10. ASSUME NEW g \in File PROVE Unsettled(g)' /\ FilePlaced(g)' /\ Entire(g)'
    <3>1. CASE g = f
      <4>1. Files!Shared(f)' = {Len(thread) + 1}
        BY <1>2, <2>7
      <4> QED  BY <2>2, <2>4, <2>5, <3>1, <4>1 DEF Unsettled, FilePlaced, Entire
    <3>2. CASE g # f
      <4>1. Files!Shared(g)' = Files!Shared(g)
        BY <2>7, <3>2
      <4> QED  BY <2>4, <2>5, <3>2, <4>1 DEF Unsettled, FilePlaced, Entire, FInv
    <3> QED  BY <3>1, <3>2
  <2> QED  BY <2>6, <2>8, <2>9, <2>10 DEF FInv, Grown
<1> QED  BY <1>4, <1>5

(* A message is deleted. *)
Loses == \E i \in DOMAIN thread : Files!Deletes(i) /\ Files!NextTs' = Files!NextTs

LEMMA OthersKeep ==
  ASSUME ThreadConstants, FInv,
         (\E bot \in BOOLEAN : Files!Writes(bot)) \/ (\E i \in DOMAIN thread : Files!Deletes(i)) \/ Files!Asks \/ Files!Reads \/ UNCHANGED Files!vars
  PROVE  FInv' /\ (Still \/ Grown \/ Loses)
<1>0. /\ ThreadShapes /\ threadUsed \in [posts : Nat, deletes : Nat, faults : Nat] /\ NoFile \notin File
      /\ UNCHANGED <<sender, told, unsure>> /\ UNCHANGED Settled
  BY DEF FInv, ThreadShapes, ThreadConstants, Files!FileAssumption, Files!Writes,
       Files!Deletes, Files!Asks, Files!Reads, Files!vars, Settled
<1>1. ASSUME thread' \in Seq(Posted), threadUsed' \in [posts : Nat, deletes : Nat, faults : Nat],
             \A g \in File : /\ (\A j, k \in Files!Shared(g) : j = k) => \A j, k \in Files!Shared(g)' : j = k
                             /\ Files!Shared(g)' # {} <=> Files!Shared(g) # {}
      PROVE  FInv'
  <2>1. ThreadShapes'
    BY <1>0, <1>1 DEF ThreadShapes
  <2>2. ASSUME NEW g \in File PROVE Unsettled(g)' /\ FilePlaced(g)' /\ Entire(g)'
    BY <1>0, <1>1 DEF Unsettled, FilePlaced, Entire, FInv
  <2> QED  BY <2>1, <2>2 DEF FInv
<1>2. ASSUME NEW bot \in BOOLEAN, Files!Writes(bot) PROVE FInv' /\ Grown
  <2>1. Files!Posts(bot, NoFile) /\ threadUsed' = [threadUsed EXCEPT !["posts"] = @ + 1]
    BY <1>2 DEF Files!Writes, Files!Counts
  <2>2. /\ [threadUsed EXCEPT !["posts"] = @ + 1] \in [posts : Nat, deletes : Nat, faults : Nat]
        /\ [threadUsed EXCEPT !["posts"] = @ + 1].posts = threadUsed.posts + 1
    BY <1>0
  <2>3. thread' \in Seq(Posted) /\ \A g \in File : Files!Shared(g)' = Files!Shared(g)
    <3>1. /\ thread' \in Seq(Posted)
          /\ \A g \in File : Files!Shared(g)' = Files!Shared(g) \cup (IF NoFile = g THEN {Len(thread) + 1} ELSE {})
      BY <1>0, <2>1, SharedMore
    <3>2. \A g \in File : NoFile # g
      BY <1>0
    <3> QED  BY <3>1, <3>2
  <2>4. Files!NextTs' = Files!NextTs + 1
    BY <1>0, <2>1, <2>2, NumberGoesOn
  <2> QED  BY <1>1, <2>1, <2>2, <2>3, <2>4 DEF Grown
<1>3. ASSUME NEW i \in DOMAIN thread, Files!Deletes(i) PROVE FInv' /\ Loses
  <2>1. thread[i].file = NoFile /\ thread' = RemoveAt(thread, i) /\ threadUsed' = [threadUsed EXCEPT !["deletes"] = @ + 1]
    BY <1>3 DEF Files!Deletes, Files!Counts, RemoveAt, Files!RemoveAt
  <2>2. /\ [threadUsed EXCEPT !["deletes"] = @ + 1] \in [posts : Nat, deletes : Nat, faults : Nat]
        /\ [threadUsed EXCEPT !["deletes"] = @ + 1].posts = threadUsed.posts
    BY <1>0
  <2>3. Files!NextTs' = Files!NextTs
    BY <1>0, <2>1, <2>2, NumberStays
  <2> QED  BY <1>0, <1>1, <1>3, <2>1, <2>2, <2>3, SharedLess DEF Loses
<1>4. CASE Files!Asks \/ Files!Reads \/ UNCHANGED Files!vars
  <2>1. UNCHANGED thread /\ \A g \in File : Files!Shared(g)' = Files!Shared(g)
    BY <1>4 DEF Files!Asks, Files!Reads, Files!vars, Files!Shared
  <2>2. threadUsed' \in [posts : Nat, deletes : Nat, faults : Nat] /\ threadUsed'.posts = threadUsed.posts
    <3>1. CASE Files!Reads
      BY <1>0, <3>1, LimitedShape DEF Files!Reads
    <3>2. CASE ~Files!Reads
      BY <1>0, <1>4, <3>2 DEF Files!Asks, Files!vars
    <3> QED  BY <3>1, <3>2
  <2> QED  BY <1>0, <1>1, <2>1, <2>2, NumberStays DEF ThreadShapes, Still
<1> QED  BY <1>2, <1>3, <1>4

LEMMA InitThread == ASSUME ThreadConstants, Files!Init PROVE FInv
<1>1. /\ thread = <<[ts |-> 1, bot |-> FALSE, file |-> NoFile]>> /\ unsure = {}
      /\ told = [f \in File |-> "nothing"]
      /\ sender = [f \in File |-> [at |-> "claiming", tries |-> 0, whole |-> FALSE]]
      /\ threadUsed = [posts |-> 0, deletes |-> 0, faults |-> 0] /\ NoFile \notin File
  BY DEF Files!Init, ThreadConstants, Files!FileAssumption
<1>2. thread \in Seq(Posted) /\ DOMAIN thread = 1 .. 1 /\ thread[1].file = NoFile
  <2>1. [ts |-> 1, bot |-> FALSE, file |-> NoFile] \in Posted
    BY DEF Posted
  <2> QED  BY <1>1, <2>1
<1>3. \A f \in File : Files!Shared(f) = {}
  BY <1>1, <1>2 DEF Files!Shared
<1>4. Settled = {}
  BY <1>1 DEF Settled
<1>5. ThreadShapes
  BY <1>1, <1>2, <1>4, FS_EmptySet DEF ThreadShapes, Sending, Files!Stages
<1> QED  BY <1>1, <1>3, <1>5 DEF FInv, Unsettled, FilePlaced, Entire

LEMMA SettledTrue == ASSUME FInv PROVE Files!ToldTrue
<1> SUFFICES ASSUME NEW f \in File
             PROVE  /\ Cardinality(Files!Shared(f)) <= 1
                    /\ told[f] = "posted" => Files!Shared(f) # {}
                    /\ told[f] # "posted" /\ Files!Shared(f) # {} => f \in unsure
                    /\ Files!Shared(f) # {} => sender[f].whole
  <2>1. \A f \in File : Files!Cardinality(Files!Shared(f)) = Cardinality(Files!Shared(f))
    BY DEF Cardinality, Files!Cardinality
  <2> QED  BY <2>1 DEF Files!ToldTrue
<1>1. Cardinality(Files!Shared(f)) <= 1
  <2>1. CASE Files!Shared(f) = {}
    BY <2>1, FS_EmptySet
  <2>2. ASSUME NEW i \in Files!Shared(f) PROVE Cardinality(Files!Shared(f)) <= 1
    <3>1. Files!Shared(f) = {i}
      BY <2>2 DEF FInv, FilePlaced
    <3> QED  BY <3>1, FS_Singleton
  <2> QED  BY <2>1, <2>2
<1> QED  BY <1>1 DEF FInv, FilePlaced, Entire

(* Of files put into a thread (web.rs `upload_file`, attach.rs, chat.rs):  *)
(* whoever sends one is told that it arrived only if it did, whole and     *)
(* once, and that it did not only if it is not there, unless Slack's last  *)
(* answer was lost: for any files, retries, failures, posts and deletions. *)
THEOREM FilesToldTrue ==
  ASSUME ThreadConstants
  PROVE  Files!Spec => []Files!ToldTrue
<1>1. Files!Init => FInv
  BY InitThread
<1>2. FInv /\ [Files!Next]_(Files!vars) => FInv'
  BY ClaimsKeep, SendsKeep, SharesKeep, OthersKeep DEF Files!Next
<1>3. FInv => Files!ToldTrue
  BY SettledTrue
<1> QED  BY <1>1, <1>2, <1>3, PTL DEF Files!Spec

----------------------------------------------------------------------------
(* How a thread is read *)

LEMMA Least ==
  ASSUME NEW T \in SUBSET Nat, T # {}
  PROVE  \E x \in T : \A y \in T : x <= y
<1> DEFINE Less == {p \in Nat \X Nat : p[1] < p[2]}
<1>1. IsWellFoundedOn(Less, Nat)
  BY NatLessThanWellFounded DEF OpToRel
<1>2. \A x, y \in Nat : <<y, x>> \in Less <=> y < x
  OBVIOUS
<1> HIDE DEF Less
<1>3. PICK x \in T : \A y \in T : <<y, x>> \notin Less
  BY <1>1, WFMin
<1>4. \A y \in T : ~(y < x)
  BY <1>2, <1>3
<1> QED  BY <1>4

(* A set of numbers that holds 0, and with a number the next, holds all. *)
LEMMA Induct ==
  ASSUME NEW Holds \in SUBSET Nat, 0 \in Holds, \A n \in Nat : n \in Holds => n + 1 \in Holds
  PROVE  Holds = Nat
<1> SUFFICES ASSUME Nat \ Holds # {} PROVE FALSE
  OBVIOUS
<1>1. PICK x \in Nat \ Holds : \A y \in Nat \ Holds : x <= y
  BY Least
<1>2. x # 0 /\ x - 1 \in Nat /\ x - 1 \in Holds
  BY <1>1
<1> QED  BY <1>1, <1>2

(* The messages stand in the order they were posted, the next one behind   *)
(* them all; and what was taken of them while none went is their start.    *)
Ordered  == \A i, j \in DOMAIN thread : i < j => thread[i].ts < thread[j].ts
Earlier  == \A i \in DOMAIN thread : thread[i].ts < Files!NextTs
Sequential  == thread # <<>> /\ Ordered /\ Earlier

StartOf(out, n) == out \in Seq(Posted) /\ Len(out) = n /\ \A i \in 1 .. n : out[i] = thread[i]
TakenAt(cursor) == IF cursor = 0 THEN 0 ELSE cursor + 1
Taken(r) ==
  /\ r.saw \subseteq Files!Ids(thread) /\ r.cursor \in 0 .. Len(thread) - 1
  /\ StartOf(r.out, TakenAt(r.cursor))

AReader == reader = [at |-> reader.at, tries |-> reader.tries, cursor |-> reader.cursor,
                     out |-> reader.out, saw |-> reader.saw]
RInv ==
  /\ FInv /\ Sequential /\ AReader /\ removed \in BOOLEAN
  /\ reader.at = "reading" /\ ~removed => Taken(reader)
  /\ Files!ReadsWhole

(* What a page holds. *)
LEMMA PageHolds ==
  ASSUME ThreadConstants, ThreadShapes, thread # <<>>, NEW c \in 0 .. Len(thread) - 1
  PROVE  /\ Files!EndOf(c) \in c .. Len(thread) - 1
         /\ Files!EndOf(c) < Len(Files!Replies) => Files!EndOf(c) # 0
         /\ Len(Files!Replies) = Len(thread) - 1
         /\ Files!Page(c) \in Seq(Posted) /\ Len(Files!Page(c)) = 1 + Files!EndOf(c) - c
         /\ Files!Page(c)[1] = thread[1]
         /\ \A k \in 2 .. Len(Files!Page(c)) : Files!Page(c)[k] = thread[c + k]
<1> DEFINE n == Len(thread)
           e == Files!EndOf(c)
           rest == Tail(thread)
           some == SubSeq(rest, c + 1, e)
           head == <<Head(thread)>>
           p == Files!Page(c)
<1>1. thread \in Seq(Posted) /\ n \in Nat \ {0} /\ PageReplies \in Nat \ {0} /\ c \in Nat /\ c <= n - 1
  BY DEF ThreadShapes, ThreadConstants, Files!PageAssumption
<1>2. /\ rest \in Seq(Posted) /\ Len(rest) = n - 1 /\ \A k \in 1 .. n - 1 : rest[k] = thread[k + 1]
      /\ Head(thread) = thread[1] /\ Head(thread) \in Posted
  BY <1>1, HeadTailProperties
<1>3. Len(Files!Replies) = n - 1 /\ e = IF c + PageReplies < n - 1 THEN c + PageReplies ELSE n - 1
  BY <1>2 DEF Files!EndOf, Files!Replies
<1>4. p = head \o some
  BY DEF Files!Page, Files!Replies
<1> HIDE DEF n, e, rest, p
<1>5. e \in c .. n - 1 /\ (e < n - 1 => e # 0)
  BY <1>1, <1>3
<1>6. /\ some \in Seq(Posted) /\ Len(some) = e - c
      /\ \A k \in 1 .. e - c : some[k] = rest[c + k]
  <2>1. \A k \in c + 1 .. e : rest[k] \in Posted
    BY <1>1, <1>2, <1>5
  <2>2. /\ some \in Seq(Posted) /\ Len(some) = IF c + 1 <= e THEN e - (c + 1) + 1 ELSE 0
        /\ \A k \in 1 .. e - (c + 1) + 1 : some[k] = rest[c + 1 + k - 1]
    BY <1>1, <1>5, <2>1, SubSeqProperties
  <2> QED  BY <1>1, <1>5, <2>2
<1>7. head \in Seq(Posted) /\ Len(head) = 1 /\ head[1] = thread[1]
  BY <1>2
<1> HIDE DEF some, head
<1>8. /\ p \in Seq(Posted) /\ Len(p) = 1 + (e - c)
      /\ \A k \in 1 .. 1 + (e - c) : p[k] = IF k <= 1 THEN head[k] ELSE some[k - 1]
  <2>1. /\ head \o some \in Seq(Posted) /\ Len(head \o some) = Len(head) + Len(some)
        /\ \A k \in 1 .. Len(head) + Len(some) :
             (head \o some)[k] = IF k <= Len(head) THEN head[k] ELSE some[k - Len(head)]
    BY <1>6, <1>7, ConcatProperties
  <2> QED  BY <1>4, <1>6, <1>7, <2>1
<1>9. ASSUME NEW k \in 2 .. 1 + (e - c) PROVE p[k] = thread[c + k]
  <2>1. k - 1 \in 1 .. e - c /\ c + (k - 1) \in 1 .. n - 1 /\ c + (k - 1) + 1 = c + k /\ ~(k <= 1)
    BY <1>1, <1>5
  <2>2. p[k] = some[k - 1] /\ some[k - 1] = rest[c + (k - 1)] /\ rest[c + (k - 1)] = thread[c + (k - 1) + 1]
    BY <1>2, <1>6, <1>8, <2>1
  <2> QED  BY <2>1, <2>2
<1> QED
  <2>1. 1 + (e - c) = 1 + e - c /\ 1 \in 1 .. 1 + (e - c)
    BY <1>1, <1>5
  <2> QED  BY <1>3, <1>5, <1>7, <1>8, <1>9, <2>1 DEF n, e, p

(* The messages of a page that `out` has not, one after the other. *)
Kept(out, m) == IF m.ts \in Files!Ids(out) THEN out ELSE Append(out, m)
Keeping(a, out, page) ==
  a = [n \in 0 .. Len(page) |-> IF n = 0 THEN out ELSE Kept(a[n - 1], page[n])]

LEMMA KeepingExists ==
  ASSUME NEW out, NEW page \in Seq(Posted)
  PROVE  \E a : Keeping(a, out, page)
<1> DEFINE Up(a, n) == a = [k \in 0 .. n |-> IF k = 0 THEN out ELSE Kept(a[k - 1], page[k])]
           Holds == {n \in Nat : n <= Len(page) => \E a : Up(a, n)}
<1>1. 0 \in Holds
  <2> DEFINE a == [k \in 0 .. 0 |-> out]
  <2>1. Up(a, 0)
    OBVIOUS
  <2> HIDE DEF a, Up
  <2> QED  BY <2>1
<1>2. ASSUME NEW n \in Nat, n \in Holds PROVE n + 1 \in Holds
  <2> SUFFICES ASSUME n + 1 <= Len(page) PROVE \E b : Up(b, n + 1)
    OBVIOUS
  <2>1. PICK a : Up(a, n)
    <3> HIDE DEF Up
    <3> QED  BY <1>2
  <2>2. a = [k \in 0 .. n |-> IF k = 0 THEN out ELSE Kept(a[k - 1], page[k])]
    BY <2>1
  <2> DEFINE b == [k \in 0 .. n + 1 |-> IF k <= n THEN a[k] ELSE Kept(a[n], page[n + 1])]
             c == [k \in 0 .. n + 1 |-> IF k = 0 THEN out ELSE Kept(b[k - 1], page[k])]
  <2>3. ASSUME NEW k \in 0 .. n + 1
        PROVE  b[k] = IF k = 0 THEN out ELSE Kept(b[k - 1], page[k])
    <3>1. CASE k = 0
      BY <2>2, <3>1
    <3>2. CASE k # 0 /\ k <= n
      <4>1. k \in 0 .. n /\ k - 1 \in 0 .. n /\ k - 1 <= n /\ k - 1 \in 0 .. n + 1
        BY <3>2
      <4>2. b[k] = a[k] /\ b[k - 1] = a[k - 1]
        BY <3>2, <4>1
      <4>3. a[k] = Kept(a[k - 1], page[k])
        BY <2>2, <3>2, <4>1
      <4> QED  BY <3>2, <4>2, <4>3
    <3>3. CASE k = n + 1
      <4>1. b[k] = Kept(a[n], page[k]) /\ b[k - 1] = a[n] /\ k # 0
        BY <3>3
      <4> QED  BY <4>1
    <3> QED  BY <3>1, <3>2, <3>3
  <2>4. b = c
    <3>1. \A k \in 0 .. n + 1 : b[k] = c[k]
      BY <2>3
    <3>2. /\ DOMAIN b = 0 .. n + 1 /\ DOMAIN c = 0 .. n + 1
          /\ b = [k \in 0 .. n + 1 |-> b[k]] /\ c = [k \in 0 .. n + 1 |-> c[k]]
      OBVIOUS
    <3> HIDE DEF b, c
    <3> QED  BY <3>1, <3>2
  <2>5. Up(b, n + 1)
    BY <2>4
  <2> HIDE DEF b, Up
  <2> QED  BY <2>5
<1>3. Holds \in SUBSET Nat
  OBVIOUS
<1> HIDE DEF Holds
<1>4. Holds = Nat
  BY <1>1, <1>2, <1>3, Induct
<1>5. Len(page) \in Holds /\ Len(page) \in Nat
  BY <1>4
<1>6. PICK a : Up(a, Len(page))
  BY <1>5 DEF Holds
<1> QED  BY <1>6 DEF Keeping

LEMMA TakesKept ==
  ASSUME NEW out, NEW page \in Seq(Posted)
  PROVE  \E a : /\ a[0] = out /\ \A n \in 1 .. Len(page) : a[n] = Kept(a[n - 1], page[n])
               /\ Files!Takes(out, page) = a[Len(page)]
<1> DEFINE a == CHOOSE x : Keeping(x, out, page)
<1>1. Keeping(a, out, page)
  BY KeepingExists
<1>2. Files!Takes(out, page) = a[Len(page)]
  BY DEF Files!Takes, Files!TakesNew, Keeping, Kept
<1> HIDE DEF a
<1>3. a = [n \in 0 .. Len(page) |-> IF n = 0 THEN out ELSE Kept(a[n - 1], page[n])] /\ Len(page) \in Nat
  BY <1>1 DEF Keeping
<1>4. a[0] = out
  BY <1>3
<1>5. ASSUME NEW n \in 1 .. Len(page) PROVE a[n] = Kept(a[n - 1], page[n])
  <2>1. n \in 0 .. Len(page) /\ n # 0
    OBVIOUS
  <2> QED  BY <1>3, <2>1
<1> QED  BY <1>2, <1>4, <1>5

(* What is kept of the message behind those taken, and of one of them.     *)
LEMMA KeptNext ==
  ASSUME ThreadShapes, Ordered, NEW out, NEW n \in 0 .. Len(thread) - 1, StartOf(out, n)
  PROVE  StartOf(Kept(out, thread[n + 1]), n + 1)
<1>1. thread \in Seq(Posted) /\ Len(thread) \in Nat /\ DOMAIN thread = 1 .. Len(thread)
  BY DEF ThreadShapes
<1>2. n \in Nat /\ n + 1 \in 1 .. Len(thread) /\ thread[n + 1] \in Posted
  BY <1>1
<1>3. out \in Seq(Posted) /\ Len(out) = n /\ DOMAIN out = 1 .. n /\ \A i \in 1 .. n : out[i] = thread[i]
  BY DEF StartOf
<1>4. \A i \in 1 .. n : i < n + 1 /\ i \in 1 .. Len(thread) /\ thread[i] \in Posted
  BY <1>1, <1>2
<1>5. \A i \in 1 .. n : thread[i].ts < thread[n + 1].ts /\ thread[i].ts \in Nat
  BY <1>1, <1>2, <1>4 DEF Ordered, Posted
<1>6. thread[n + 1].ts \notin Files!Ids(out)
  <2>1. ASSUME thread[n + 1].ts \in Files!Ids(out) PROVE FALSE
    <3>1. PICK i \in 1 .. n : out[i].ts = thread[n + 1].ts
      BY <1>3, <2>1 DEF Files!Ids, Files!ToSet
    <3> QED  BY <1>2, <1>3, <1>5, <3>1 DEF Posted
  <2> QED  BY <2>1
<1>7. Kept(out, thread[n + 1]) = Append(out, thread[n + 1])
  BY <1>6 DEF Kept
<1>8. /\ Append(out, thread[n + 1]) \in Seq(Posted) /\ Len(Append(out, thread[n + 1])) = n + 1
      /\ \A i \in 1 .. n : Append(out, thread[n + 1])[i] = out[i]
      /\ Append(out, thread[n + 1])[n + 1] = thread[n + 1]
  BY <1>2, <1>3, AppendProperties
<1>9. \A i \in 1 .. n + 1 : i \in 1 .. n \/ i = n + 1
  BY <1>2
<1> QED  BY <1>3, <1>7, <1>8, <1>9 DEF StartOf

LEMMA KeptOnce ==
  ASSUME NEW out, NEW n \in Nat \ {0}, StartOf(out, n)
  PROVE  Kept(out, thread[1]) = out
<1>1. 1 \in DOMAIN out /\ out[1] = thread[1]
  BY DEF StartOf
<1>2. thread[1].ts \in Files!Ids(out)
  BY <1>1 DEF Files!Ids, Files!ToSet
<1> QED  BY <1>2 DEF Kept

(* With the next page, what was taken is the start of the thread still. *)
LEMMA PageTaken ==
  ASSUME ThreadConstants, ThreadShapes, Sequential, NEW c \in 0 .. Len(thread) - 1, NEW out, StartOf(out, TakenAt(c))
  PROVE  StartOf(Files!Takes(out, Files!Page(c)), Files!EndOf(c) + 1)
<1> DEFINE e == Files!EndOf(c)
           p == Files!Page(c)
<1>1. /\ e \in c .. Len(thread) - 1 /\ p \in Seq(Posted) /\ Len(p) = 1 + e - c /\ p[1] = thread[1]
      /\ \A k \in 2 .. Len(p) : p[k] = thread[c + k]
  BY PageHolds DEF Sequential
<1>2. Len(thread) \in Nat /\ c \in Nat /\ c <= e /\ e \in Nat /\ e <= Len(thread) - 1
  BY <1>1 DEF ThreadShapes
<1> HIDE DEF e, p
<1>3. PICK a : /\ a[0] = out /\ \A n \in 1 .. Len(p) : a[n] = Kept(a[n - 1], p[n])
               /\ Files!Takes(out, p) = a[Len(p)]
  BY <1>1, TakesKept
<1> DEFINE Holds == {n \in Nat : n + 1 <= Len(p) => StartOf(a[n + 1], c + (n + 1))}
<1>4. StartOf(a[1], c + 1)
  <2>1. a[1] = Kept(out, thread[1])
    <3>1. 1 \in 1 .. Len(p) /\ 1 - 1 = 0
      BY <1>1, <1>2
    <3> QED  BY <1>1, <1>3, <3>1
  <2>2. CASE c = 0
    <3>1. StartOf(out, 0) /\ 0 \in 0 .. Len(thread) - 1 /\ 0 + 1 = 1
      BY <1>2, <2>2 DEF TakenAt
    <3>2. StartOf(Kept(out, thread[0 + 1]), 0 + 1)
      BY <3>1, KeptNext DEF Sequential
    <3> QED  BY <2>1, <2>2, <3>1, <3>2
  <2>3. CASE c # 0
    <3>1. StartOf(out, c + 1) /\ c + 1 \in Nat \ {0}
      BY <1>2, <2>3 DEF TakenAt
    <3> QED  BY <2>1, <3>1, KeptOnce
  <2> QED  BY <2>2, <2>3
<1>5. 0 \in Holds
  BY <1>2, <1>4
<1>6. ASSUME NEW n \in Nat, n \in Holds PROVE n + 1 \in Holds
  <2> SUFFICES ASSUME (n + 1) + 1 <= Len(p) PROVE StartOf(a[(n + 1) + 1], c + ((n + 1) + 1))
    OBVIOUS
  <2> DEFINE k == (n + 1) + 1
  <2>1. StartOf(a[n + 1], c + (n + 1))
    BY <1>1, <1>2, <1>6
  <2>2. /\ k \in 1 .. Len(p) /\ k \in 2 .. Len(p) /\ k - 1 = n + 1 /\ c + (n + 1) \in 0 .. Len(thread) - 1
        /\ (c + (n + 1)) + 1 = c + k
    BY <1>1, <1>2
  <2> HIDE DEF k
  <2>3. a[k] = Kept(a[n + 1], thread[c + k])
    BY <1>1, <1>3, <2>2
  <2>4. StartOf(Kept(a[n + 1], thread[(c + (n + 1)) + 1]), (c + (n + 1)) + 1)
    BY <2>1, <2>2, KeptNext DEF Sequential
  <2>5. StartOf(a[k], c + k)
    BY <2>2, <2>3, <2>4
  <2> QED  BY <2>5 DEF k
<1>7. Holds \in SUBSET Nat
  OBVIOUS
<1>8. e - c \in Holds
  <2> HIDE DEF Holds
  <2>1. Holds = Nat
    BY <1>5, <1>6, <1>7, Induct
  <2> QED  BY <1>2, <2>1
<1>9. (e - c) + 1 = Len(p) /\ c + ((e - c) + 1) = e + 1
  BY <1>1, <1>2
<1>10. StartOf(a[Len(p)], e + 1)
  BY <1>2, <1>8, <1>9
<1> QED  BY <1>3, <1>10 DEF e, p

LEMMA OrderGrows ==
  ASSUME ThreadShapes, Sequential, Grown
  PROVE  /\ Sequential' /\ Len(thread') = Len(thread) + 1 /\ thread' \in Seq(Posted)
         /\ \A i \in DOMAIN thread : i \in DOMAIN thread' /\ thread'[i] = thread[i]
<1> DEFINE n == Len(thread)
           ts == Files!NextTs
<1>1. ts \in Nat /\ Files!NextTs' = ts + 1
  BY NextNumber DEF Grown
<1> HIDE DEF ts
<1>2. PICK m \in Posted : thread' = Append(thread, m) /\ m.ts = ts
  <2>1. PICK bot \in BOOLEAN, f \in File \cup {NoFile} : Files!Posts(bot, f)
    BY DEF Grown
  <2> DEFINE m == [ts |-> ts, bot |-> bot, file |-> f]
  <2>2. thread' = Append(thread, m)
    BY <2>1 DEF Files!Posts, ts
  <2>3. m \in Posted /\ m.ts = ts
    BY <1>1 DEF Posted
  <2> QED  BY <2>2, <2>3
<1>3. /\ thread \in Seq(Posted) /\ n \in Nat /\ DOMAIN thread = 1 .. n /\ thread' \in Seq(Posted)
      /\ Len(thread') = n + 1 /\ DOMAIN thread' = 1 .. n + 1
      /\ thread'[n + 1] = m /\ \A i \in 1 .. n : thread'[i] = thread[i]
  BY <1>2 DEF ThreadShapes
<1> HIDE DEF n
<1>4. \A i \in 1 .. n + 1 : i \in 1 .. n \/ i = n + 1
  BY <1>3
<1>5. \A i \in 1 .. n : thread[i].ts \in Nat /\ thread[i].ts < ts
  <2>1. \A i \in 1 .. n : thread[i] \in Posted
    BY <1>3
  <2> QED  BY <1>3, <2>1 DEF Sequential, Earlier, Posted, ts
<1>6. ASSUME NEW i \in 1 .. n + 1 PROVE thread'[i].ts < ts + 1
  BY <1>1, <1>2, <1>3, <1>4, <1>5
<1>7. ASSUME NEW i \in 1 .. n + 1, NEW j \in 1 .. n + 1, i < j PROVE thread'[i].ts < thread'[j].ts
  <2>1. i \in 1 .. n
    BY <1>3, <1>7
  <2>2. CASE j \in 1 .. n
    BY <1>3, <1>7, <2>1, <2>2 DEF Sequential, Ordered
  <2>3. CASE j = n + 1
    BY <1>2, <1>3, <1>5, <2>1, <2>3
  <2> QED  BY <1>4, <2>2, <2>3
<1>8. thread' # <<>>
  BY <1>3
<1> QED  BY <1>1, <1>3, <1>4, <1>6, <1>7, <1>8 DEF Sequential, Ordered, Earlier, n

(* It loses a message other than the first. *)
LEMMA OrderLoses ==
  ASSUME ThreadShapes, Sequential, NEW i \in DOMAIN thread, i > 1, thread' = RemoveAt(thread, i),
         Files!NextTs' = Files!NextTs
  PROVE  Sequential'
<1> DEFINE n == Len(thread)
           from(k) == IF k < i THEN k ELSE k + 1
<1>1. /\ thread \in Seq(Posted) /\ n \in Nat /\ DOMAIN thread = 1 .. n /\ i \in 1 .. n
      /\ thread' \in Seq(Posted) /\ Len(thread') = n - 1 /\ DOMAIN thread' = 1 .. n - 1
      /\ \A k \in 1 .. i - 1 : thread'[k] = thread[k]
      /\ \A k \in i .. n - 1 : thread'[k] = thread[k + 1]
  BY MessageGone DEF ThreadShapes
<1> HIDE DEF n
<1>2. ASSUME NEW k \in 1 .. n - 1 PROVE thread'[k] = thread[from(k)] /\ from(k) \in 1 .. n
  <2>1. CASE k < i
    <3>1. k \in 1 .. i - 1 /\ k \in 1 .. n
      BY <1>1, <2>1
    <3> QED  BY <1>1, <2>1, <3>1
  <2>2. CASE ~(k < i)
    <3>1. k \in i .. n - 1 /\ k + 1 \in 1 .. n
      BY <1>1, <2>2
    <3> QED  BY <1>1, <2>2, <3>1
  <2> QED  BY <2>1, <2>2
<1>3. \A j, k \in 1 .. n - 1 : j < k => from(j) < from(k)
  BY <1>1
<1> HIDE DEF from
<1>4. \A k \in 1 .. n - 1 : thread'[k].ts < Files!NextTs'
  BY <1>1, <1>2 DEF Sequential, Earlier
<1>5. \A j, k \in 1 .. n - 1 : j < k => thread'[j].ts < thread'[k].ts
  BY <1>1, <1>2, <1>3 DEF Sequential, Ordered
<1>6. thread' # <<>>
  BY <1>1
<1> QED  BY <1>1, <1>4, <1>5, <1>6 DEF Sequential, Ordered, Earlier

(* What was taken of a thread is its start when it has grown. *)
LEMMA TakenStays ==
  ASSUME ThreadShapes, ThreadShapes', Taken(reader), UNCHANGED reader, Len(thread) <= Len(thread'),
         \A i \in DOMAIN thread : i \in DOMAIN thread' /\ thread'[i] = thread[i]
  PROVE  Taken(reader)'
<1>1. /\ Len(thread) \in Nat /\ DOMAIN thread = 1 .. Len(thread) /\ Len(thread') \in Nat
      /\ reader.cursor \in 0 .. Len(thread) - 1 /\ reader.cursor \in 0 .. Len(thread') - 1
  BY DEF ThreadShapes, Taken
<1>2. Files!Ids(thread) \subseteq Files!Ids(thread')
  BY DEF Files!Ids, Files!ToSet
<1>3. TakenAt(reader.cursor) \in 0 .. Len(thread)
  BY <1>1 DEF TakenAt
<1>4. reader.out \in Seq(Posted) /\ Len(reader.out) = TakenAt(reader.cursor) /\ \A i \in 1 .. TakenAt(reader.cursor) : reader.out[i] = thread[i]
  BY DEF Taken, StartOf
<1>5. \A i \in 1 .. TakenAt(reader.cursor) : i \in DOMAIN thread
  BY <1>1, <1>3
<1>6. \A i \in 1 .. TakenAt(reader.cursor) : reader.out[i] = thread'[i]
  BY <1>4, <1>5
<1> QED  BY <1>1, <1>2, <1>4, <1>6 DEF Taken, StartOf, TakenAt

(* What was taken of all of a thread is all there was of it. *)
LEMMA WholeRead ==
  ASSUME ThreadShapes, Sequential, NEW out, StartOf(out, Len(thread)), NEW saw, saw \subseteq Files!Ids(thread)
  PROVE  saw \subseteq Files!Ids(out) /\ \A i, j \in DOMAIN out : i < j => out[i].ts < out[j].ts
<1>1. /\ DOMAIN thread = 1 .. Len(thread) /\ DOMAIN out = 1 .. Len(thread)
      /\ \A i \in 1 .. Len(thread) : out[i] = thread[i]
  BY DEF ThreadShapes, StartOf
<1>2. Files!Ids(out) = Files!Ids(thread)
  BY <1>1 DEF Files!Ids, Files!ToSet
<1> QED  BY <1>1, <1>2 DEF Sequential, Ordered

(* A reader whose state no step changes. *)
LEMMA ReaderWaits ==
  ASSUME RInv, FInv', Still \/ Grown \/ Loses, UNCHANGED reader,
         (UNCHANGED removed /\ ~Loses) \/ (\E i \in DOMAIN thread : Files!Deletes(i))
  PROVE  /\ AReader' /\ removed' \in BOOLEAN /\ Files!ReadsWhole'
         /\ reader'.at = "reading" /\ ~removed' => Taken(reader)'
<1>1. /\ ThreadShapes /\ ThreadShapes' /\ Sequential /\ AReader /\ removed \in BOOLEAN /\ Files!ReadsWhole
      /\ reader.at = "reading" /\ ~removed => Taken(reader)
  BY DEF RInv, FInv
<1>2. AReader'
  BY <1>1 DEF AReader
<1>3. removed' \in BOOLEAN /\ (removed => removed')
  BY <1>1 DEF Files!Deletes
<1>4. Files!ReadsWhole'
  BY <1>1, <1>3 DEF Files!ReadsWhole, Files!Ids, Files!ToSet
<1>5. ASSUME reader.at = "reading", ~removed' PROVE Taken(reader)'
  <2>1. UNCHANGED removed /\ ~Loses
    BY <1>5 DEF Files!Deletes
  <2>2. /\ Len(thread) <= Len(thread')
        /\ \A i \in DOMAIN thread : i \in DOMAIN thread' /\ thread'[i] = thread[i]
    <3>1. CASE Still
      <4>1. thread' = thread /\ Len(thread) \in Nat
        BY <1>1, <3>1 DEF Still, ThreadShapes
      <4> QED  BY <4>1
    <3>2. CASE Grown
      <4>1. Len(thread) \in Nat
        BY <1>1 DEF ThreadShapes
      <4> QED  BY <1>1, <3>2, <4>1, OrderGrows
    <3> QED  BY <2>1, <3>1, <3>2
  <2> QED  BY <1>1, <1>3, <1>5, <2>1, <2>2, TakenStays
<1> QED  BY <1>2, <1>3, <1>4, <1>5

LEMMA ReaderAsks ==
  ASSUME RInv, Files!Asks
  PROVE  /\ AReader' /\ removed' \in BOOLEAN /\ Files!ReadsWhole'
         /\ reader'.at = "reading" /\ ~removed' => Taken(reader)'
<1>1. /\ reader' = [at |-> "reading", tries |-> 0, cursor |-> 0, out |-> <<>>, saw |-> Files!Ids(thread)]
      /\ UNCHANGED <<thread, removed>>
  BY DEF Files!Asks, Files!NoReader
<1>2. /\ reader'.at = "reading" /\ reader'.tries = 0 /\ reader'.cursor = 0 /\ reader'.out = <<>>
      /\ reader'.saw = Files!Ids(thread)
  BY <1>1
<1>3. Len(thread) \in Nat /\ Len(thread) >= 1 /\ removed \in BOOLEAN
  BY DEF RInv, FInv, ThreadShapes, Sequential
<1>4. StartOf(<<>>, 0)'
  BY EmptySeq DEF StartOf
<1>5. Taken(reader)'
  BY <1>1, <1>2, <1>3, <1>4 DEF Taken, TakenAt, StartOf
<1> QED  BY <1>1, <1>2, <1>3, <1>5 DEF AReader, Files!ReadsWhole

(* A page more, or the last of them. *)
LEMMA ReaderReads ==
  ASSUME ThreadConstants, RInv, Files!Reads
  PROVE  /\ AReader' /\ removed' \in BOOLEAN /\ Files!ReadsWhole'
         /\ reader'.at = "reading" /\ ~removed' => Taken(reader)'
<1>1. /\ ThreadShapes /\ Sequential /\ AReader /\ removed \in BOOLEAN /\ reader.at = "reading"
      /\ ~removed => Taken(reader)
      /\ UNCHANGED <<thread, removed>>
  BY DEF RInv, FInv, Files!Reads
<1>2. PICK o \in Files!Outcomes :
        reader' =
          CASE o = "again" -> [reader EXCEPT !.tries = @ + 1]
            [] o = "done"  -> [reader EXCEPT !.at = IF Files!EndOf(reader.cursor) < Len(Files!Replies)
                                                    THEN "reading" ELSE "read",
                                             !.tries = 0,
                                             !.cursor = Files!EndOf(@),
                                             !.out = Files!Takes(@, Files!Page(reader.cursor))]
            [] OTHER       -> [Files!NoReader EXCEPT !.at = "failed"]
  BY DEF Files!Reads
<1>3. CASE o = "again"
  <2>1. reader' = [at |-> "reading", tries |-> reader.tries + 1, cursor |-> reader.cursor,
                   out |-> reader.out, saw |-> reader.saw]
    BY <1>1, <1>2, <1>3 DEF AReader
  <2>2. /\ reader'.at = "reading" /\ reader'.tries = reader.tries + 1 /\ reader'.cursor = reader.cursor
        /\ reader'.out = reader.out /\ reader'.saw = reader.saw
    BY <2>1
  <2>3. Taken(reader) => Taken(reader)'
    BY <1>1, <2>2 DEF Taken, StartOf, TakenAt, Files!Ids, Files!ToSet
  <2> QED  BY <1>1, <2>1, <2>2, <2>3 DEF AReader, Files!ReadsWhole
<1>4. CASE o = "done"
  <2> DEFINE c == reader.cursor
             e == Files!EndOf(c)
             out == Files!Takes(reader.out, Files!Page(c))
             at == IF e < Len(Files!Replies) THEN "reading" ELSE "read"
  <2>1. reader' = [at |-> at, tries |-> 0, cursor |-> e, out |-> out, saw |-> reader.saw]
    BY <1>1, <1>2, <1>4 DEF AReader
  <2>2. ASSUME ~removed
        PROVE  /\ e \in 0 .. Len(thread) - 1 /\ StartOf(out, e + 1) /\ reader.saw \subseteq Files!Ids(thread)
               /\ at = "reading" => e # 0
               /\ at = "read" => e + 1 = Len(thread)
    <3>1. c \in 0 .. Len(thread) - 1 /\ StartOf(reader.out, TakenAt(c)) /\ reader.saw \subseteq Files!Ids(thread)
      BY <1>1, <2>2 DEF Taken
    <3>2. StartOf(out, e + 1)
      BY <1>1, <3>1, PageTaken
    <3>3. /\ e \in c .. Len(thread) - 1 /\ (e < Len(Files!Replies) => e # 0)
          /\ Len(Files!Replies) = Len(thread) - 1
      BY <1>1, <3>1, PageHolds DEF Sequential
    <3>4. Len(thread) \in Nat
      BY <1>1 DEF ThreadShapes
    <3> HIDE DEF c, e, out
    <3> QED  BY <3>1, <3>2, <3>3, <3>4
  <2>3. at \in {"reading", "read"}
    OBVIOUS
  <2> HIDE DEF c, e, out, at
  <2>4. reader'.at = at /\ reader'.tries = 0 /\ reader'.cursor = e /\ reader'.out = out /\ reader'.saw = reader.saw
    BY <2>1
  <2>5. AReader'
    BY <2>1, <2>4 DEF AReader
  <2>6. ASSUME ~removed, at = "reading" PROVE Taken(reader)'
    <3>1. StartOf(out, TakenAt(e)) /\ e \in 0 .. Len(thread) - 1 /\ reader.saw \subseteq Files!Ids(thread)
      BY <2>2, <2>6 DEF TakenAt
    <3> QED  BY <1>1, <2>4, <3>1 DEF Taken, StartOf, TakenAt, Files!Ids, Files!ToSet
  <2>7. ASSUME ~removed, at = "read" PROVE Files!ReadsWhole'
    <3>1. StartOf(out, Len(thread)) /\ reader.saw \subseteq Files!Ids(thread)
      BY <2>2, <2>7
    <3>2. reader.saw \subseteq Files!Ids(out) /\ \A i, j \in DOMAIN out : i < j => out[i].ts < out[j].ts
      BY <1>1, <3>1, WholeRead
    <3> QED  BY <2>4, <3>2 DEF Files!ReadsWhole, Files!Ids, Files!ToSet
  <2>8. removed \/ at # "read" => Files!ReadsWhole'
    BY <1>1, <2>4 DEF Files!ReadsWhole
  <2> QED  BY <1>1, <2>3, <2>4, <2>5, <2>6, <2>7, <2>8
<1>5. CASE o \notin {"again", "done"}
  <2>1. reader' = [at |-> "failed", tries |-> 0, cursor |-> 0, out |-> <<>>, saw |-> {}]
    BY <1>2, <1>5 DEF Files!NoReader
  <2> QED  BY <1>1, <2>1 DEF AReader, Files!ReadsWhole
<1> QED  BY <1>3, <1>4, <1>5

LEMMA ReadingKeeps ==
  ASSUME ThreadConstants, RInv, [Files!Next]_(Files!vars)
  PROVE  RInv'
<1>1. FInv' /\ (Still \/ Grown \/ Loses)
  BY ClaimsKeep, SendsKeep, SharesKeep, OthersKeep DEF Files!Next, RInv
<1>2. ThreadShapes /\ Sequential
  BY DEF RInv, FInv
<1>3. Sequential'
  <2>1. CASE Still
    BY <1>2, <2>1 DEF Still, Sequential, Ordered, Earlier
  <2>2. CASE Grown
    BY <1>2, <2>2, OrderGrows
  <2>3. CASE Loses
    <3>1. PICK i \in DOMAIN thread : Files!Deletes(i) /\ Files!NextTs' = Files!NextTs
      BY <2>3 DEF Loses
    <3>2. i > 1 /\ thread' = RemoveAt(thread, i)
      BY <3>1 DEF Files!Deletes, RemoveAt, Files!RemoveAt
    <3> QED  BY <1>2, <3>1, <3>2, OrderLoses
  <2> QED  BY <1>1, <2>1, <2>2, <2>3
<1>4. /\ AReader' /\ removed' \in BOOLEAN /\ Files!ReadsWhole'
      /\ reader'.at = "reading" /\ ~removed' => Taken(reader)'
  <2>1. CASE Files!Asks
    BY <2>1, ReaderAsks
  <2>2. CASE Files!Reads
    BY <2>2, ReaderReads
  <2>3. CASE ~Files!Asks /\ ~Files!Reads
    <3>1. UNCHANGED reader
      BY <2>3 DEF Files!Next, Files!Claims, Files!Reserves, Files!Sends, Files!Shares, Files!Writes,
           Files!Deletes, Files!vars
    <3>2. (UNCHANGED removed /\ ~Loses) \/ (\E i \in DOMAIN thread : Files!Deletes(i))
      BY <2>3 DEF Files!Next, Files!Claims, Files!Reserves, Files!Sends, Files!Shares, Files!Writes, Files!vars, Loses
    <3> QED  BY <1>1, <3>1, <3>2, ReaderWaits
  <2> QED  BY <2>1, <2>2, <2>3
<1> QED  BY <1>1, <1>3, <1>4 DEF RInv

LEMMA InitReading == ASSUME ThreadConstants, Files!Init PROVE RInv
<1>1. FInv
  BY InitThread
<1>2. thread = <<[ts |-> 1, bot |-> FALSE, file |-> NoFile]>> /\ reader = Files!NoReader /\ removed = FALSE
  BY DEF Files!Init
<1>3. Settled = {} /\ threadUsed.posts = 0
  BY DEF Files!Init, Settled
<1>4. Files!NextTs = 2
  <2>1. Cardinality({}) = 0
    BY FS_EmptySet
  <2>2. ThreadShapes
    BY <1>1 DEF FInv
  <2> QED  BY <1>3, <2>1, <2>2, NextNumber
<1>5. DOMAIN thread = 1 .. 1 /\ thread[1].ts = 1 /\ thread # <<>>
  BY <1>2
<1>6. Sequential
  BY <1>4, <1>5 DEF Sequential, Ordered, Earlier
<1>7. AReader /\ reader.at = "idle"
  BY <1>2 DEF AReader, Files!NoReader
<1> QED  BY <1>1, <1>2, <1>6, <1>7 DEF RInv, Files!ReadsWhole

(* Of a thread that is read page after page (`replies` of web.rs), the     *)
(* parent on each of them: what was read holds every message that stood    *)
(* when the reading began, each once and in order, if none was deleted     *)
(* meanwhile; for pages of any size, however many post, share files and    *)
(* delete before and between, and whatever calls fail.                     *)
THEOREM ThreadReadWhole ==
  ASSUME ThreadConstants
  PROVE  Files!Spec => []Files!ReadsWhole
<1>1. Files!Init => RInv
  BY InitReading
<1>2. RInv /\ [Files!Next]_(Files!vars) => RInv'
  BY ReadingKeeps
<1>3. RInv => Files!ReadsWhole
  BY DEF RInv
<1> QED  BY <1>1, <1>2, <1>3, PTL DEF Files!Spec

----------------------------------------------------------------------------
(* The file that a session lends *)

(* What the constants are. *)
LentConstants == Lend!LinesAssumption /\ Lend!BoundsAssumption

----------------------------------------------------------------------------
(* What holds of every state *)

ToolNames  == Lend!FileTools \cup {"none", "link"} \cup UNION {Servers[i] : i \in DOMAIN Servers}
CallStages == Lend!Running \cup {"none", "ok", "error", "fault"}
CallOf == [at : CallStages, name : ToolNames, put : SUBSET New, drop : SUBSET Line, text : Lend!Text,
           had : SUBSET Typed, crossed : BOOLEAN, over : BOOLEAN]

(* What a call carries at each stage. *)
AnEdit(p) == p.name = "edit_text_file"
Fit(p) ==
  /\ p.at \in {"none", "fault", "server"} => p.put = {}
  /\ p.at = "none" => p.drop = {} /\ p.name = "none"
  /\ p.at = "read" => IF AnEdit(p) THEN p.put # {} /\ p.drop # {} ELSE p.put = {}
  /\ p.at \in {"write", "fill"} => p.put # {} /\ p.name \in {"edit_text_file", "write_text_file"}

LentKinds ==
  /\ edit \in [Call -> CallOf] /\ buffer \in Lend!Text /\ disk \in Lend!Text /\ spilt \in Nat
  /\ \A c \in Call : Fit(edit[c])

(* An editor that takes writes is written through, and what it shows is    *)
(* saved or dirty.                                                         *)
Disks ==
  /\ torn = {c \in Call : Lend!At(c, "fill")}
  /\ fs.write => torn = {} /\ (~dirty => disk = buffer)

(* The calls whose text stays, and those about to write what they read.    *)
Wrote(p)    == p.at = "ok" /\ p.put # {} /\ ~p.crossed /\ ~p.over
Editing(p) == p.at \in {"write", "fill"} /\ AnEdit(p)
WrittenTo      == IF fs.write THEN buffer ELSE disk
Emptied    == WrittenTo = {} /\ \E e \in Call : Lend!At(e, "fill") /\ ~edit[e].crossed

PutStays(c) ==
  fs.read = fs.write /\ Wrote(edit[c]) =>
    /\ edit[c].put \subseteq WrittenTo \/ Emptied
    /\ \A d \in Call : Editing(edit[d]) /\ ~edit[d].crossed => edit[c].put \subseteq edit[d].text

(* What the person had typed is in the buffer, or in what will be. *)
Counted(p) == p.at \in {"read", "write", "fill", "ok"} /\ AnEdit(p) /\ p.put # {} /\ ~p.crossed /\ ~p.over
HadIn(p)   == IF fs.write /\ p.at = "write" THEN p.text ELSE buffer
Unsoiled(c) ==
  fs.read \/ ~fs.write =>
    /\ Counted(edit[c]) =>
         /\ edit[c].had \subseteq HadIn(edit[c])
         /\ edit[c].had # {} => dirty \/ fs.write
    /\ fs.write /\ Wrote(edit[c]) /\ AnEdit(edit[c]) =>
         \A d \in Call : Editing(edit[d]) /\ ~edit[d].crossed => edit[c].had \subseteq edit[d].text

(* While nothing failed and nobody wrote the whole file. *)
NoWholeWrite       == spilt = 0 /\ \A c \in Call : edit[c].name # "write_text_file"
Rest(text) == Line \ Lend!Replaceable \subseteq text
RestKept ==
  NoWholeWrite => /\ Rest(buffer)
                  /\ Rest(disk) \/ (disk = {} /\ torn # {})
                  /\ \A d \in Call : Editing(edit[d]) => Rest(edit[d].text)

LInv == LentKinds /\ Disks /\ RestKept /\ \A c \in Call : PutStays(c) /\ Unsoiled(c)

----------------------------------------------------------------------------
(* A call begins *)

LEMMA CallBegun ==
  ASSUME LentConstants, LInv, NEW c \in Call, Lend!At(c, "none"),
         NEW stage \in {"fault", "server", "read", "write"}, NEW name \in ToolNames,
         NEW put \in SUBSET New, NEW drop \in SUBSET Line,
         stage \in {"fault", "server"} => put = {},
         stage = "read" => IF name = "edit_text_file" THEN put # {} /\ drop # {} ELSE put = {},
         stage = "write" => name = "write_text_file" /\ put # {},
         Lend!Begins(c, stage, name, put, drop), UNCHANGED <<fs, buffer, dirty, disk, torn, spilt>>
  PROVE  LInv'
<1> DEFINE p == edit[c]
           r == [Lend!NoCall EXCEPT !.at = stage, !.name = name, !.put = put, !.drop = drop, !.had = Lend!Unsaved]
<1>1. Lend!Unsaved \subseteq Typed /\ Lend!Unsaved \subseteq buffer /\ (Lend!Unsaved # {} => dirty)
  BY DEF Lend!Unsaved
<1>2. /\ r \in CallOf /\ r.at = stage /\ r.name = name /\ r.put = put /\ r.drop = drop /\ r.had = Lend!Unsaved
      /\ ~r.crossed /\ ~r.over
  BY <1>1 DEF Lend!NoCall, CallOf, CallStages, Lend!Running, Lend!Text
<1>3. edit \in [Call -> CallOf] /\ edit' = [edit EXCEPT ![c] = r]
  BY DEF LInv, LentKinds, Lend!Begins
<1>4. p.at = "none" /\ p.drop = {} /\ p.name = "none" /\ p \in CallOf
  BY <1>3 DEF Lend!At, LInv, LentKinds, Fit
<1> HIDE DEF r, p
<1>5. /\ edit' \in [Call -> CallOf] /\ edit'[c] = r
      /\ \A d \in Call \ {c} : edit'[d] = edit[d]
  BY <1>2, <1>3
<1>6. Fit(r) /\ ~Wrote(r) /\ ~Editing(r)
  BY <1>2 DEF Fit, AnEdit, Wrote, Editing
<1>7. LentKinds'
  BY <1>5, <1>6 DEF LInv, LentKinds
<1>8. \A d \in Call : Lend!At(d, "fill")' <=> Lend!At(d, "fill")
  BY <1>2, <1>4, <1>5 DEF Lend!At, p
<1>9. Disks'
  BY <1>8 DEF LInv, Disks
<1>10. UNCHANGED WrittenTo /\ (Emptied => Emptied')
  BY <1>4, <1>5 DEF WrittenTo, Emptied, Lend!At, p
<1>11. ASSUME NEW d \in Call PROVE PutStays(d)' /\ Unsoiled(d)'
  <2>1. CASE d = c
    <3>1. ~Wrote(edit[d])'
      BY <1>5, <1>6, <2>1
    <3>2. Counted(edit[d])' => (edit[d].had \subseteq HadIn(edit[d]) /\ (edit[d].had # {} => dirty \/ fs.write))'
      BY <1>1, <1>2, <1>5, <2>1 DEF Counted, HadIn, AnEdit
    <3> QED  BY <3>1, <3>2 DEF PutStays, Unsoiled
  <2>2. CASE d # c
    <3>1. edit'[d] = edit[d] /\ PutStays(d) /\ Unsoiled(d)
      BY <1>5, <2>2 DEF LInv
    <3>2. \A e \in Call : Editing(edit'[e]) => edit'[e] = edit[e]
      BY <1>5, <1>6
    <3>3. PutStays(d)'
      BY <1>10, <3>1, <3>2 DEF PutStays
    <3>4. Unsoiled(d)'
      BY <3>1, <3>2 DEF Unsoiled, HadIn
    <3> QED  BY <3>3, <3>4
  <2> QED  BY <2>1, <2>2
<1>12. RestKept'
  <2>1. Lend!Replaceable \subseteq Lend!Replaceable'
    BY <1>4, <1>5 DEF Lend!Replaceable, p
  <2>2. NoWholeWrite' => NoWholeWrite
    BY <1>4, <1>5 DEF NoWholeWrite, p
  <2>3. \A e \in Call : Editing(edit'[e]) => edit'[e] = edit[e]
    BY <1>5, <1>6
  <2> QED  BY <2>1, <2>2, <2>3 DEF LInv, RestKept, Rest
<1> QED  BY <1>7, <1>9, <1>11, <1>12 DEF LInv

----------------------------------------------------------------------------
(* A call goes on, and writes nothing *)

LEMMA CallGoesOn ==
  ASSUME LentConstants, LInv, NEW c \in Call, NEW r \in CallOf, edit' = [edit EXCEPT ![c] = r],
         Fit(r), ~Wrote(r), r.at # "fill", edit[c].at # "fill",
         r.name = edit[c].name, r.drop = edit[c].drop,
         Counted(r) => Counted(edit[c]) /\ r.had = edit[c].had /\ edit[c].at = "read",
         r.at = "write" => r.text = (IF fs.read THEN buffer ELSE disk)
                           /\ r.drop # {} /\ r.drop \subseteq r.text,
         UNCHANGED <<fs, buffer, dirty, disk, torn>>, spilt' \in Nat, spilt' = 0 => spilt = 0
  PROVE  LInv'
<1>1. /\ edit' \in [Call -> CallOf] /\ edit'[c] = r
      /\ \A d \in Call \ {c} : edit'[d] = edit[d]
  BY DEF LInv, LentKinds
<1>2. LentKinds'
  BY <1>1 DEF LInv, LentKinds
<1>3. \A d \in Call : Lend!At(d, "fill")' <=> Lend!At(d, "fill")
  BY <1>1 DEF Lend!At
<1>4. Disks'
  BY <1>3 DEF LInv, Disks
<1>5. UNCHANGED WrittenTo /\ (Emptied => Emptied')
  BY <1>1 DEF WrittenTo, Emptied, Lend!At
<1>6. \A e \in Call : Editing(edit'[e]) => edit'[e] = edit[e] \/ (e = c /\ r.at = "write")
  BY <1>1 DEF Editing
<1>7. ASSUME NEW d \in Call, Wrote(edit[d]), edit'[d] = edit[d] PROVE PutStays(d)'
  <2>1. SUFFICES ASSUME fs.read = fs.write
                 PROVE  /\ edit[d].put \subseteq WrittenTo \/ Emptied
                        /\ \A e \in Call : Editing(edit'[e]) /\ ~edit'[e].crossed => edit[d].put \subseteq edit'[e].text
    BY <1>5, <1>7 DEF PutStays
  <2>2. edit[d].put \subseteq WrittenTo \/ Emptied
    BY <1>7, <2>1 DEF LInv, PutStays
  <2>3. r.at = "write" => edit[d].put \subseteq r.text
    BY <2>1, <2>2 DEF WrittenTo, Emptied
  <2> QED  BY <1>1, <1>6, <1>7, <2>1, <2>2, <2>3 DEF LInv, PutStays
<1>8. ASSUME NEW d \in Call PROVE PutStays(d)'
  <2>1. CASE Wrote(edit'[d])
    BY <1>1, <1>7, <2>1
  <2>2. CASE ~Wrote(edit'[d])
    BY <2>2 DEF PutStays
  <2> QED  BY <2>1, <2>2
<1>9. ASSUME NEW d \in Call PROVE Unsoiled(d)'
  <2>1. SUFFICES ASSUME fs.read \/ ~fs.write
                 PROVE  /\ Counted(edit'[d]) =>
                             /\ edit'[d].had \subseteq HadIn(edit[d])'
                             /\ edit'[d].had # {} => dirty \/ fs.write
                        /\ fs.write /\ Wrote(edit'[d]) /\ AnEdit(edit'[d]) =>
                             \A e \in Call : Editing(edit'[e]) /\ ~edit'[e].crossed =>
                               edit'[d].had \subseteq edit'[e].text
    BY DEF Unsoiled
  <2>2. CASE d = c
    <3>1. ASSUME Counted(r)
          PROVE  r.had \subseteq HadIn(edit[c])' /\ (r.had # {} => dirty \/ fs.write)
      <4>1. r.had = edit[c].had /\ edit[c].had \subseteq buffer /\ (edit[c].had # {} => dirty \/ fs.write)
        BY <2>1, <3>1 DEF LInv, Unsoiled, HadIn
      <4>2. HadIn(edit[c])' = buffer
        BY <1>1, <2>1 DEF HadIn
      <4> QED  BY <4>1, <4>2
    <3> QED  BY <1>1, <2>2, <3>1
  <2>3. CASE d # c
    <3>1. edit'[d] = edit[d] /\ HadIn(edit[d])' = HadIn(edit[d])
      BY <1>1, <2>3 DEF HadIn
    <3>2. ASSUME fs.write, Wrote(edit[d]), AnEdit(edit[d]), NEW e \in Call, Editing(edit'[e]), ~edit'[e].crossed
          PROVE  edit[d].had \subseteq edit'[e].text
      <4>1. CASE edit'[e] = edit[e]
        BY <2>1, <3>2, <4>1 DEF LInv, Unsoiled
      <4>2. CASE e = c /\ r.at = "write"
        <5>1. edit[d].had \subseteq buffer
          BY <2>1, <3>2 DEF LInv, Unsoiled, HadIn, Counted, Wrote
        <5> QED  BY <1>1, <2>1, <3>2, <4>2, <5>1
      <4> QED  BY <1>6, <3>2, <4>1, <4>2
    <3> QED  BY <2>1, <3>1, <3>2 DEF LInv, Unsoiled
  <2> QED  BY <2>2, <2>3
<1>10. RestKept'
  <2>1. Lend!Replaceable' = Lend!Replaceable
    <3>1. \A d \in Call : edit'[d].drop = edit[d].drop
      BY <1>1
    <3> QED  BY <3>1 DEF Lend!Replaceable
  <2>2. NoWholeWrite' => NoWholeWrite
    <3>1. \A d \in Call : edit'[d].name = edit[d].name
      BY <1>1
    <3> QED  BY <3>1 DEF NoWholeWrite
  <2>3. ASSUME NoWholeWrite, r.at = "write" PROVE Rest(r.text)
    <3>1. Rest(buffer) /\ (Rest(disk) \/ disk = {})
      BY <2>3 DEF LInv, RestKept
    <3> QED  BY <2>3, <3>1 DEF Rest
  <2>4. UNCHANGED Lend!Replaceable /\ \A text : Rest(text)' <=> Line \ Lend!Replaceable \subseteq text'
    BY <2>1 DEF Rest
  <2>5. ASSUME NoWholeWrite', NEW d \in Call, Editing(edit'[d])
        PROVE  Line \ Lend!Replaceable \subseteq edit'[d].text
    BY <1>1, <1>6, <2>2, <2>3, <2>5 DEF LInv, RestKept, Rest
  <2> QED  BY <2>1, <2>2, <2>5 DEF LInv, RestKept, Rest
<1> QED  BY <1>2, <1>4, <1>8, <1>9, <1>10 DEF LInv

----------------------------------------------------------------------------
(* Somebody writes the file: the calls it crosses, and those it goes over *)

SameCall(p, q) == q.at = p.at /\ q.name = p.name /\ q.put = p.put /\ q.drop = p.drop
                              /\ q.text = p.text /\ q.had = p.had
CallPast(p, q, tidy) ==
  /\ SameCall(p, q)
  /\ p.at \in Lend!Running => q.crossed
  /\ ~q.crossed => ~p.crossed
  /\ ~q.over => ~p.over /\ (p.at \notin Lend!Running => tidy)

LEMMA Crosses ==
  ASSUME NEW calls \in [Call -> CallOf], NEW who
  PROVE  /\ Lend!Crossing(calls, who) \in [Call -> CallOf]
         /\ \A d \in Call : IF d = who THEN Lend!Crossing(calls, who)[d] = calls[d]
                            ELSE CallPast(calls[d], Lend!Crossing(calls, who)[d], Lend!Orderly(calls, who))
<1> DEFINE tidy == Lend!Orderly(calls, who)
           q(d) == IF d = who THEN calls[d]
                   ELSE IF calls[d].at \in Lend!Running THEN [calls[d] EXCEPT !.crossed = TRUE]
                   ELSE [calls[d] EXCEPT !.over = @ \/ ~tidy]
           C == Lend!Crossing(calls, who)
<1>1. C = [d \in Call |-> C[d]] /\ \A d \in Call : C[d] = q(d)
  BY DEF Lend!Crossing
<1> HIDE DEF C
<1> HIDE DEF tidy
<1>2. ASSUME NEW d \in Call PROVE q(d) \in CallOf /\ (d # who => CallPast(calls[d], q(d), tidy))
  <2>1. calls[d] \in CallOf
    OBVIOUS
  <2>2. CASE d = who
    BY <2>1, <2>2
  <2>3. CASE d # who /\ calls[d].at \in Lend!Running
    <3>1. q(d) = [calls[d] EXCEPT !.crossed = TRUE]
      BY <2>3
    <3>2. [calls[d] EXCEPT !.crossed = TRUE] \in CallOf
      BY <2>1 DEF CallOf
    <3>3. CallPast(calls[d], [calls[d] EXCEPT !.crossed = TRUE], tidy)
      BY <2>1, <2>3 DEF CallOf, CallPast, SameCall
    <3> QED  BY <3>1, <3>2, <3>3
  <2>4. CASE d # who /\ calls[d].at \notin Lend!Running
    <3> DEFINE o == calls[d].over \/ ~tidy
    <3>1. q(d) = [calls[d] EXCEPT !.over = o]
      BY <2>1, <2>4 DEF CallOf
    <3>2. o \in BOOLEAN /\ (~o => ~calls[d].over /\ tidy)
      OBVIOUS
    <3> HIDE DEF o
    <3>3. [calls[d] EXCEPT !.over = o] \in CallOf
      BY <2>1, <3>2 DEF CallOf
    <3>4. CallPast(calls[d], [calls[d] EXCEPT !.over = o], tidy)
      BY <2>1, <2>4, <3>2 DEF CallOf, CallPast, SameCall
    <3> QED  BY <3>1, <3>3, <3>4
  <2> QED  BY <2>2, <2>3, <2>4
<1>3. \A d \in Call : C[d] \in CallOf /\ (d # who => CallPast(calls[d], C[d], tidy)) /\ (d = who => C[d] = calls[d])
  <2> SUFFICES ASSUME NEW d \in Call
               PROVE  C[d] \in CallOf /\ (d # who => CallPast(calls[d], C[d], tidy)) /\ (d = who => C[d] = calls[d])
    OBVIOUS
  <2>1. d = who => q(d) = calls[d]
    OBVIOUS
  <2>2. C[d] = q(d)
    BY <1>1
  <2> HIDE DEF q
  <2> QED  BY <1>2, <2>1, <2>2
<1> HIDE DEF q
<1> QED  BY <1>1, <1>3 DEF C, tidy

(* What it does to the calls of a state, when one of them writes. *)
TidyEdit(p) == AnEdit(p) /\ ~p.crossed
WriterMoved(p, q, to) == /\ q.at = to /\ q.name = p.name /\ q.put = p.put /\ q.drop = p.drop
                         /\ q.text = p.text /\ q.had = p.had /\ q.crossed = p.crossed /\ q.over = p.over

LEMMA Written ==
  ASSUME LentConstants, LInv, NEW c \in Call, edit[c].at \in {"write", "fill"}, NEW to \in {"fill", "ok"},
         edit' = Lend!Crossing([edit EXCEPT ![c].at = to], c)
  PROVE  /\ edit' \in [Call -> CallOf] /\ \A d \in Call : Fit(edit'[d])
         /\ WriterMoved(edit[c], edit'[c], to)
         /\ \A d \in Call \ {c} : CallPast(edit[d], edit'[d], TidyEdit(edit[c]))
         /\ Lend!Replaceable' = Lend!Replaceable /\ \A d \in Call : edit'[d].name = edit[d].name
<1> DEFINE p == edit[c]
           r == [p EXCEPT !.at = to]
           calls == [edit EXCEPT ![c] = r]
<1>1. edit \in [Call -> CallOf] /\ p \in CallOf /\ p.at \in {"write", "fill"} /\ \A d \in Call : Fit(edit[d])
  BY DEF LInv, LentKinds
<1>2. edit' = Lend!Crossing(calls, c)
  BY <1>1
<1>3. r \in CallOf /\ WriterMoved(p, r, to)
  BY <1>1 DEF CallOf, WriterMoved, CallStages, Lend!Running
<1> HIDE DEF r
<1>4. /\ calls \in [Call -> CallOf] /\ calls[c] = r
      /\ \A d \in Call \ {c} : calls[d] = edit[d]
  BY <1>1, <1>3
<1>5. Lend!Orderly(calls, c) <=> TidyEdit(p)
  BY <1>3, <1>4 DEF Lend!Orderly, TidyEdit, WriterMoved, AnEdit
<1> HIDE DEF calls, p
<1>6. edit' \in [Call -> CallOf] /\ edit'[c] = r
  BY <1>2, <1>4, Crosses
<1>7. ASSUME NEW d \in Call \ {c} PROVE CallPast(edit[d], edit'[d], TidyEdit(p))
  <2>1. CallPast(calls[d], edit'[d], Lend!Orderly(calls, c))
    BY <1>2, <1>4, Crosses
  <2> QED  BY <1>4, <1>5, <2>1 DEF CallPast
<1>8. \A d \in Call : edit'[d].name = edit[d].name /\ edit'[d].drop = edit[d].drop
  <2> SUFFICES ASSUME NEW d \in Call PROVE edit'[d].name = edit[d].name /\ edit'[d].drop = edit[d].drop
    OBVIOUS
  <2>1. CASE d = c
    BY <1>3, <1>6, <2>1 DEF WriterMoved, p
  <2>2. CASE d # c
    <3>1. CallPast(edit[d], edit'[d], TidyEdit(p))
      BY <1>7, <2>2
    <3> QED  BY <3>1 DEF CallPast, SameCall
  <2> QED  BY <2>1, <2>2
<1>9. Lend!Replaceable' = Lend!Replaceable
  BY <1>8 DEF Lend!Replaceable
<1>10. ASSUME NEW d \in Call PROVE Fit(edit'[d])
  <2>1. CASE d = c
    BY <1>1, <1>3, <1>6, <2>1 DEF Fit, WriterMoved, AnEdit, p
  <2>2. CASE d # c
    <3>1. SameCall(edit[d], edit'[d]) /\ Fit(edit[d])
      BY <1>1, <1>7, <2>2 DEF CallPast
    <3> QED  BY <3>1 DEF Fit, SameCall, AnEdit
  <2> QED  BY <2>1, <2>2
<1> QED  BY <1>3, <1>6, <1>7, <1>8, <1>9, <1>10 DEF p

(* Of the others, those still counted had ended, and a tidy edit wrote. *)
LEMMA OthersAfter ==
  ASSUME NEW p \in CallOf, NEW q \in CallOf, NEW tidy, CallPast(p, q, tidy)
  PROVE  /\ Wrote(q) => Wrote(p) /\ tidy
         /\ Counted(q) => Counted(p) /\ p.at = "ok" /\ tidy
         /\ Editing(q) => q.crossed
         /\ q.put = p.put /\ q.had = p.had /\ q.at = p.at /\ AnEdit(q) = AnEdit(p)
         /\ (Editing(q) <=> Editing(p)) /\ q.text = p.text
BY DEF CallPast, SameCall, Wrote, Counted, Editing, AnEdit, Lend!Running, CallOf

CallAfter(d, c) ==
  /\ Wrote(edit'[d]) => Wrote(edit[d]) /\ TidyEdit(edit[c])
  /\ Counted(edit'[d]) => Counted(edit[d]) /\ edit[d].at = "ok" /\ TidyEdit(edit[c])
  /\ Editing(edit'[d]) => edit'[d].crossed
  /\ edit'[d].put = edit[d].put /\ edit'[d].had = edit[d].had /\ edit'[d].at = edit[d].at
  /\ AnEdit(edit'[d]) = AnEdit(edit[d])
  /\ (Editing(edit'[d]) <=> Editing(edit[d])) /\ edit'[d].text = edit[d].text

LEMMA WrittenOver ==
  ASSUME LentConstants, LInv, NEW c \in Call, edit[c].at \in {"write", "fill"}, NEW to \in {"fill", "ok"},
         edit' = Lend!Crossing([edit EXCEPT ![c].at = to], c)
  PROVE  \A d \in Call \ {c} : CallAfter(d, c)
<1> SUFFICES ASSUME NEW d \in Call \ {c} PROVE CallAfter(d, c)
  OBVIOUS
<1>1. edit[d] \in CallOf
  BY DEF LInv, LentKinds
<1>2. edit'[d] \in CallOf /\ CallPast(edit[d], edit'[d], TidyEdit(edit[c]))
  BY Written
<1> QED  BY <1>1, <1>2, OthersAfter DEF CallAfter

(* What a call writes: what it put, and what it read but for the line it   *)
(* was to replace.                                                         *)
LEMMA Contents ==
  ASSUME LentConstants, LInv, NEW c \in Call, edit[c].at \in {"write", "fill"}
  PROVE  /\ Lend!Content(c) \in Lend!Text /\ edit[c].put \subseteq Lend!Content(c)
         /\ AnEdit(edit[c]) => Lend!Content(c) = Lend!Replaced(edit[c].text, c)
         /\ \A kept : AnEdit(edit[c]) /\ kept \subseteq edit[c].text /\ kept \cap Line = {} => kept \subseteq Lend!Content(c)
         /\ NoWholeWrite => Rest(Lend!Content(c))
<1>1. edit[c] \in CallOf /\ Fit(edit[c])
  BY DEF LInv, LentKinds
<1>2. /\ edit[c].put \subseteq New /\ edit[c].drop \subseteq Line /\ edit[c].text \in Lend!Text
      /\ ~AnEdit(edit[c]) => edit[c].name = "write_text_file"
  BY <1>1 DEF CallOf, Fit, AnEdit
<1>3. Lend!Content(c) = IF AnEdit(edit[c]) THEN (edit[c].text \ edit[c].drop) \cup edit[c].put ELSE edit[c].put
  BY DEF Lend!Content, AnEdit, Lend!Replaced
<1>4. Lend!Content(c) \in Lend!Text /\ edit[c].put \subseteq Lend!Content(c)
  BY <1>2, <1>3 DEF Lend!Text
<1>5. \A kept : AnEdit(edit[c]) /\ kept \subseteq edit[c].text /\ kept \cap Line = {} => kept \subseteq Lend!Content(c)
  BY <1>2, <1>3
<1>6. ASSUME NoWholeWrite PROVE Rest(Lend!Content(c))
  <2>1. AnEdit(edit[c])
    BY <1>2, <1>6 DEF NoWholeWrite
  <2>2. Line \ Lend!Replaceable \subseteq edit[c].text
    BY <1>6, <2>1 DEF LInv, RestKept, Editing, Rest
  <2>3. edit[c].drop \subseteq Lend!Replaceable
    BY DEF Lend!Replaceable
  <2> QED  BY <1>3, <2>1, <2>2, <2>3 DEF Rest
<1> QED  BY <1>3, <1>4, <1>5, <1>6 DEF AnEdit, Lend!Content

(* What is owed to the calls that are done is in what a tidy edit writes.  *)
LEMMA OwedIsWritten ==
  ASSUME LentConstants, LInv, NEW c \in Call, edit[c].at \in {"write", "fill"}, TidyEdit(edit[c]),
         NEW d \in Call, Wrote(edit[d])
  PROVE  /\ fs.read = fs.write => edit[d].put \subseteq Lend!Content(c)
         /\ fs.read /\ fs.write /\ AnEdit(edit[d]) => edit[d].had \subseteq Lend!Content(c)
<1>1. AnEdit(edit[c]) /\ ~edit[c].crossed /\ Editing(edit[c])
  BY DEF TidyEdit, Editing
<1>2. edit[d].put \subseteq New /\ edit[d].had \subseteq Typed
  BY DEF LInv, LentKinds, CallOf
<1>3. edit[d].put \cap Line = {} /\ edit[d].had \cap Line = {}
  BY <1>2 DEF LentConstants, Lend!LinesAssumption
<1>4. fs.read = fs.write => edit[d].put \subseteq edit[c].text
  BY <1>1 DEF LInv, PutStays
<1>5. fs.read /\ fs.write /\ AnEdit(edit[d]) => edit[d].had \subseteq edit[c].text
  BY <1>1 DEF LInv, Unsoiled
<1>6. \A kept : kept \subseteq edit[c].text /\ kept \cap Line = {} => kept \subseteq Lend!Content(c)
  BY <1>1, Contents
<1> QED  BY <1>3, <1>4, <1>5, <1>6

LEMMA EditorKeeps ==
  ASSUME LentConstants, LInv, NEW c \in Call, edit[c].at = "write", fs.write,
         buffer' = Lend!Content(c), disk' \in {disk, Lend!Content(c)}, dirty' = (disk' # Lend!Content(c)),
         edit' = Lend!Crossing([edit EXCEPT ![c].at = "ok"], c), UNCHANGED <<fs, torn, spilt>>
  PROVE  LInv'
<1>1. /\ edit' \in [Call -> CallOf] /\ \A d \in Call : Fit(edit'[d])
      /\ WriterMoved(edit[c], edit'[c], "ok")
      /\ \A d \in Call \ {c} : CallPast(edit[d], edit'[d], TidyEdit(edit[c]))
      /\ Lend!Replaceable' = Lend!Replaceable /\ \A d \in Call : edit'[d].name = edit[d].name
  BY Written
<1>2. \A d \in Call : edit[d] \in CallOf /\ edit'[d] \in CallOf
  BY <1>1 DEF LInv, LentKinds
<1>3. Lend!Content(c) \in Lend!Text /\ edit[c].put \subseteq Lend!Content(c) /\ (NoWholeWrite => Rest(Lend!Content(c)))
  BY Contents
<1>4. LentKinds'
  BY <1>1, <1>3 DEF LInv, LentKinds
<1>5. torn = {} /\ \A d \in Call : ~Lend!At(d, "fill")
  BY DEF LInv, Disks
<1>11. \A d \in Call \ {c} : CallAfter(d, c)
  BY WrittenOver
<1>6. \A d \in Call : ~Lend!At(d, "fill")'
  <2>1. edit'[c].at = "ok"
    BY <1>1 DEF WriterMoved
  <2>2. \A d \in Call \ {c} : edit'[d].at = edit[d].at
    BY <1>11 DEF CallAfter
  <2> QED  BY <1>5, <2>1, <2>2 DEF Lend!At
<1>7. Disks'
  BY <1>5, <1>6 DEF Disks
<1>8. \A d \in Call : Editing(edit'[d]) => edit'[d].crossed
  <2>1. ~Editing(edit'[c])
    BY <1>1 DEF Editing, WriterMoved
  <2> QED  BY <2>1, <1>11 DEF CallAfter
<1>9. RestKept'
  <2>1. NoWholeWrite' => NoWholeWrite
    BY <1>1 DEF NoWholeWrite
  <2>2. \A text : Rest(text)' <=> Line \ Lend!Replaceable \subseteq text'
    BY <1>1 DEF Rest
  <2>3. \A d \in Call : Editing(edit'[d]) => Editing(edit[d]) /\ edit'[d].text = edit[d].text
    <3>1. ~Editing(edit'[c])
      BY <1>1 DEF Editing, WriterMoved
    <3> QED  BY <3>1, <1>11 DEF CallAfter
  <2>4. torn = {}
    BY <1>5
  <2> QED  BY <1>1, <1>3, <2>1, <2>3, <2>4 DEF LInv, RestKept, Rest
<1>10. ASSUME NEW d \in Call PROVE PutStays(d)' /\ Unsoiled(d)'
  <2>1. SUFFICES ASSUME TRUE
                 PROVE  /\ fs.read = fs.write /\ Wrote(edit'[d]) => edit'[d].put \subseteq Lend!Content(c)
                        /\ fs.read /\ Counted(edit'[d]) => edit'[d].had \subseteq Lend!Content(c)
    <3>1. WrittenTo' = Lend!Content(c)
      BY DEF WrittenTo
    <3>2. Counted(edit'[d]) => HadIn(edit[d])' = Lend!Content(c)
      <4>1. Counted(edit'[d]) => edit'[d].at = "ok"
        <5>1. CASE d = c
          BY <1>1, <5>1 DEF WriterMoved
        <5>2. CASE d # c
          BY <1>11, <5>2 DEF CallAfter
        <5> QED  BY <5>1, <5>2
      <4> QED  BY <4>1 DEF HadIn
    <3> QED  BY <1>8, <3>1, <3>2 DEF PutStays, Unsoiled
  <2>2. CASE d = c
    <3>1. edit'[d].put = edit[c].put /\ edit'[d].had = edit[c].had
      BY <1>1, <2>2 DEF WriterMoved
    <3>2. ASSUME fs.read, Counted(edit'[c]) PROVE edit[c].had \subseteq Lend!Content(c)
      <4>1. Counted(edit[c]) /\ AnEdit(edit[c])
        BY <1>1, <3>2 DEF WriterMoved, Counted, AnEdit
      <4>2. edit[c].had \subseteq edit[c].text
        BY <3>2, <4>1 DEF LInv, Unsoiled, HadIn
      <4>3. edit[c].had \cap Line = {}
        BY <1>2 DEF CallOf, LentConstants, Lend!LinesAssumption
      <4> QED  BY <4>1, <4>2, <4>3, Contents
    <3> QED  BY <1>3, <2>2, <3>1, <3>2
  <2>3. CASE d # c
    <3>1. /\ Wrote(edit'[d]) => Wrote(edit[d]) /\ TidyEdit(edit[c])
          /\ Counted(edit'[d]) => Counted(edit[d]) /\ edit[d].at = "ok" /\ TidyEdit(edit[c])
          /\ edit'[d].put = edit[d].put /\ edit'[d].had = edit[d].had
      BY <1>11, <2>3 DEF CallAfter
    <3>2. Counted(edit[d]) /\ edit[d].at = "ok" => Wrote(edit[d]) /\ AnEdit(edit[d])
      BY DEF Counted, Wrote
    <3> QED  BY <3>1, <3>2, OwedIsWritten
  <2> QED  BY <2>2, <2>3
<1> QED  BY <1>4, <1>7, <1>9, <1>10 DEF LInv

(* A local write empties the file, and fills it. *)
LEMMA TruncateKeeps ==
  ASSUME LentConstants, LInv, NEW c \in Call, edit[c].at = "write", ~fs.write,
         disk' = {}, torn' = torn \cup {c}, edit' = Lend!Crossing([edit EXCEPT ![c].at = "fill"], c),
         UNCHANGED <<fs, buffer, dirty, spilt>>
  PROVE  LInv'
<1>1. /\ edit' \in [Call -> CallOf] /\ \A d \in Call : Fit(edit'[d])
      /\ WriterMoved(edit[c], edit'[c], "fill")
      /\ Lend!Replaceable' = Lend!Replaceable /\ \A d \in Call : edit'[d].name = edit[d].name
  BY Written
<1>2. \A d \in Call \ {c} : CallAfter(d, c)
  BY WrittenOver
<1>3. LentKinds'
  BY <1>1 DEF LInv, LentKinds, Lend!Text
<1>4. Disks'
  <2>1. \A d \in Call : Lend!At(d, "fill")' <=> (Lend!At(d, "fill") \/ d = c)
    BY <1>1, <1>2 DEF Lend!At, WriterMoved, CallAfter
  <2> QED  BY <2>1 DEF LInv, Disks
<1>5. \A d \in Call : (Editing(edit'[d]) <=> Editing(edit[d])) /\ edit'[d].text = edit[d].text
  <2>1. (Editing(edit'[c]) <=> Editing(edit[c])) /\ edit'[c].text = edit[c].text
    BY <1>1 DEF Editing, AnEdit, WriterMoved
  <2> QED  BY <1>2, <2>1 DEF CallAfter
<1>6. RestKept'
  <2>1. NoWholeWrite' => NoWholeWrite
    BY <1>1 DEF NoWholeWrite
  <2>2. torn' # {}
    OBVIOUS
  <2> QED  BY <1>1, <1>5, <2>1, <2>2 DEF LInv, RestKept, Rest
<1>7. Wrote(edit'[c]) = FALSE /\ WrittenTo' = {}
  BY <1>1 DEF Wrote, WriterMoved, WrittenTo
<1>8. ASSUME NEW d \in Call PROVE PutStays(d)'
  <2>1. SUFFICES ASSUME fs.read = fs.write, Wrote(edit'[d])
                 PROVE  /\ Emptied'
                        /\ \A e \in Call : Editing(edit'[e]) /\ ~edit'[e].crossed => edit'[d].put \subseteq edit'[e].text
    BY DEF PutStays
  <2>2. d # c
    BY <1>7, <2>1
  <2>3. Wrote(edit[d]) /\ TidyEdit(edit[c]) /\ edit'[d].put = edit[d].put
    BY <1>2, <2>1, <2>2 DEF CallAfter
  <2>4. ~edit'[c].crossed /\ Lend!At(c, "fill")'
    BY <1>1, <2>3 DEF WriterMoved, TidyEdit, Lend!At
  <2>5. Emptied'
    BY <1>7, <2>4 DEF Emptied
  <2>6. ASSUME NEW e \in Call, Editing(edit'[e]), ~edit'[e].crossed
        PROVE  edit[d].put \subseteq edit'[e].text
    <3>1. e = c
      BY <1>2, <2>6 DEF CallAfter
    <3>2. ~edit[c].crossed /\ Editing(edit[c])
      BY <1>5, <2>3, <2>6, <3>1 DEF TidyEdit
    <3> QED  BY <1>5, <2>1, <2>3, <3>1, <3>2 DEF LInv, PutStays
  <2> QED  BY <2>3, <2>5, <2>6
<1>9. ASSUME NEW d \in Call PROVE Unsoiled(d)'
  <2>1. SUFFICES ASSUME Counted(edit'[d])
                 PROVE  edit'[d].had \subseteq buffer /\ (edit'[d].had # {} => dirty)
    BY DEF Unsoiled, HadIn
  <2>2. Counted(edit[d]) /\ edit'[d].had = edit[d].had
    <3>1. CASE d = c
      BY <1>1, <2>1, <3>1 DEF WriterMoved, Counted, AnEdit
    <3>2. CASE d # c
      BY <1>2, <2>1, <3>2 DEF CallAfter
    <3> QED  BY <3>1, <3>2
  <2> QED  BY <2>2 DEF LInv, Unsoiled, HadIn
<1> QED  BY <1>3, <1>4, <1>6, <1>8, <1>9 DEF LInv

LEMMA FillKeeps ==
  ASSUME LentConstants, LInv, NEW c \in Call, edit[c].at = "fill",
         disk' = Lend!Content(c), torn' = torn \ {c}, edit' = Lend!Crossing([edit EXCEPT ![c].at = "ok"], c),
         UNCHANGED <<fs, buffer, dirty, spilt>>
  PROVE  LInv'
<1>1. /\ edit' \in [Call -> CallOf] /\ \A d \in Call : Fit(edit'[d])
      /\ WriterMoved(edit[c], edit'[c], "ok")
      /\ Lend!Replaceable' = Lend!Replaceable /\ \A d \in Call : edit'[d].name = edit[d].name
  BY Written
<1>2. \A d \in Call \ {c} : CallAfter(d, c)
  BY WrittenOver
<1>3. Lend!Content(c) \in Lend!Text /\ edit[c].put \subseteq Lend!Content(c) /\ (NoWholeWrite => Rest(Lend!Content(c)))
  BY Contents
<1>4. LentKinds'
  BY <1>1, <1>3 DEF LInv, LentKinds
<1>5. ~fs.write
  BY DEF LInv, Disks, Lend!At
<1>6. Disks'
  <2>1. \A d \in Call : Lend!At(d, "fill")' <=> (Lend!At(d, "fill") /\ d # c)
    BY <1>1, <1>2 DEF Lend!At, WriterMoved, CallAfter
  <2> QED  BY <1>5, <2>1 DEF LInv, Disks
<1>7. ~Editing(edit'[c])
  BY <1>1 DEF Editing, WriterMoved
<1>8. RestKept'
  <2>1. NoWholeWrite' => NoWholeWrite
    BY <1>1 DEF NoWholeWrite
  <2>2. \A d \in Call : Editing(edit'[d]) => Editing(edit[d]) /\ edit'[d].text = edit[d].text
    BY <1>2, <1>7 DEF CallAfter
  <2> QED  BY <1>1, <1>3, <2>1, <2>2 DEF LInv, RestKept, Rest
<1>9. ASSUME NEW d \in Call PROVE PutStays(d)'
  <2>1. SUFFICES ASSUME fs.read = fs.write, Wrote(edit'[d]) PROVE edit'[d].put \subseteq Lend!Content(c)
    <3>1. WrittenTo' = Lend!Content(c)
      BY <1>5 DEF WrittenTo
    <3>2. \A e \in Call : ~(Editing(edit'[e]) /\ ~edit'[e].crossed)
      BY <1>2, <1>7 DEF CallAfter
    <3> QED  BY <3>1, <3>2 DEF PutStays
  <2>2. CASE d = c
    BY <1>1, <1>3, <2>2 DEF WriterMoved
  <2>3. CASE d # c
    <3>1. Wrote(edit[d]) /\ TidyEdit(edit[c]) /\ edit'[d].put = edit[d].put
      BY <1>2, <2>1, <2>3 DEF CallAfter
    <3> QED  BY <2>1, <3>1, OwedIsWritten
  <2> QED  BY <2>2, <2>3
<1>10. ASSUME NEW d \in Call PROVE Unsoiled(d)'
  <2>1. SUFFICES ASSUME Counted(edit'[d])
                 PROVE  edit'[d].had \subseteq buffer /\ (edit'[d].had # {} => dirty)
    BY <1>5 DEF Unsoiled, HadIn
  <2>2. Counted(edit[d]) /\ edit'[d].had = edit[d].had
    <3>1. CASE d = c
      BY <1>1, <2>1, <3>1 DEF WriterMoved, Counted, AnEdit
    <3>2. CASE d # c
      BY <1>2, <2>1, <3>2 DEF CallAfter
    <3> QED  BY <3>1, <3>2
  <2> QED  BY <1>5, <2>2 DEF LInv, Unsoiled, HadIn
<1> QED  BY <1>4, <1>6, <1>8, <1>9, <1>10 DEF LInv

(* A fill that fails goes over everybody. *)
LEMMA SpillKeeps ==
  ASSUME LentConstants, LInv, NEW c \in Call, edit[c].at = "fill", torn' = torn \ {c},
         edit' = [d \in Call |-> IF d = c THEN [edit[c] EXCEPT !.at = "error"]
                                          ELSE [edit[d] EXCEPT !.over = TRUE]],
         spilt' = spilt + 1, UNCHANGED <<fs, buffer, dirty, disk>>
  PROVE  LInv'
<1>1. edit \in [Call -> CallOf] /\ spilt \in Nat
  BY DEF LInv, LentKinds
<1>2. /\ edit'[c] = [edit[c] EXCEPT !.at = "error"]
      /\ \A d \in Call \ {c} : edit'[d] = [edit[d] EXCEPT !.over = TRUE]
      /\ edit' = [d \in Call |-> edit'[d]]
  OBVIOUS
<1>3. edit'[c] \in CallOf /\ edit'[c].at = "error"
  <2>1. edit[c] \in CallOf
    BY <1>1
  <2> QED  BY <1>2, <2>1 DEF CallOf, CallStages
<1>4. ASSUME NEW d \in Call \ {c}
      PROVE  edit'[d] \in CallOf /\ SameCall(edit[d], edit'[d]) /\ edit'[d].over
  <2>1. edit[d] \in CallOf /\ edit'[d] = [edit[d] EXCEPT !.over = TRUE]
    BY <1>1, <1>2
  <2> QED  BY <2>1 DEF CallOf, SameCall
<1>5. \A d \in Call : Fit(edit'[d])
  BY <1>3, <1>4 DEF LInv, LentKinds, Fit, SameCall, AnEdit
<1>6. edit' \in [Call -> CallOf]
  <2>1. \A d \in Call : edit'[d] \in CallOf
    BY <1>3, <1>4
  <2> QED  BY <1>2, <2>1
<1>7. LentKinds'
  BY <1>1, <1>5, <1>6 DEF LInv, LentKinds
<1>8. Disks'
  <2>1. \A d \in Call : Lend!At(d, "fill")' <=> (Lend!At(d, "fill") /\ d # c)
    BY <1>3, <1>4 DEF Lend!At, SameCall
  <2>2. ~fs.write
    BY DEF LInv, Disks, Lend!At
  <2> QED  BY <2>1, <2>2 DEF LInv, Disks
<1>9. RestKept'
  BY <1>1 DEF RestKept, NoWholeWrite
<1>10. \A d \in Call : ~Wrote(edit'[d]) /\ ~Counted(edit'[d])
  BY <1>3, <1>4 DEF Wrote, Counted
<1> QED  BY <1>7, <1>8, <1>9, <1>10 DEF LInv, PutStays, Unsoiled

----------------------------------------------------------------------------
(* The person *)

LEMMA SavesKeep == ASSUME LentConstants, LInv, Lend!Saves PROVE LInv'
<1>1. /\ edit \in [Call -> CallOf] /\ buffer \in Lend!Text /\ spilt \in Nat /\ Person \notin Call
      /\ \A d \in Call : Fit(edit[d])
  BY DEF LInv, LentKinds, LentConstants, Lend!LinesAssumption
<1>2. ~Lend!Orderly(edit, Person) /\ edit' = Lend!Crossing(edit, Person)
  BY <1>1 DEF Lend!Orderly, Lend!Saves
<1>3. edit' \in [Call -> CallOf] /\ \A d \in Call : CallPast(edit[d], edit'[d], Lend!Orderly(edit, Person))
  BY <1>1, <1>2, Crosses
<1>4. ASSUME NEW d \in Call
      PROVE  /\ ~Wrote(edit'[d]) /\ ~Counted(edit'[d]) /\ SameCall(edit[d], edit'[d])
             /\ (Editing(edit'[d]) <=> Editing(edit[d])) /\ edit'[d].text = edit[d].text
  <2>1. edit[d] \in CallOf /\ edit'[d] \in CallOf /\ CallPast(edit[d], edit'[d], Lend!Orderly(edit, Person))
    BY <1>1, <1>3
  <2> QED  BY <1>2, <2>1, OthersAfter DEF CallPast
<1>5. LentKinds'
  <2>1. \A d \in Call : Fit(edit'[d])
    BY <1>1, <1>4 DEF Fit, SameCall, AnEdit
  <2> QED  BY <1>1, <1>3, <2>1 DEF LentKinds, Lend!Saves
<1>6. Disks'
  <2>1. \A d \in Call : Lend!At(d, "fill")' <=> Lend!At(d, "fill")
    BY <1>4 DEF Lend!At, SameCall
  <2> QED  BY <2>1 DEF LInv, Disks, Lend!Saves
<1>7. RestKept'
  <2>1. \A d \in Call : edit'[d].name = edit[d].name /\ edit'[d].drop = edit[d].drop
    BY <1>4 DEF SameCall
  <2>2. Lend!Replaceable' = Lend!Replaceable /\ (NoWholeWrite' => NoWholeWrite)
    BY <2>1 DEF Lend!Replaceable, NoWholeWrite, Lend!Saves
  <2> QED  BY <1>4, <2>2 DEF LInv, RestKept, Rest, Lend!Saves
<1> QED  BY <1>4, <1>5, <1>6, <1>7 DEF LInv, PutStays, Unsoiled

LEMMA BufferKeeps ==
  ASSUME LentConstants, LInv, (\E x \in Typed : Lend!Types(x)) \/ Lend!Reloads
  PROVE  LInv'
<1>1. UNCHANGED <<fs, disk, torn, edit, spilt>> /\ UNCHANGED Lend!Replaceable /\ UNCHANGED NoWholeWrite
  BY DEF Lend!Types, Lend!Reloads, Lend!Replaceable, NoWholeWrite
<1>2. CASE \E x \in Typed : Lend!Types(x)
  <2>1. PICK x \in Typed : buffer' = buffer \cup {x} /\ dirty' = TRUE
    BY <1>2 DEF Lend!Types
  <2>2. LentKinds'
    BY <1>1, <2>1 DEF LInv, LentKinds, Lend!Text
  <2>3. Disks'
    BY <1>1, <2>1 DEF LInv, Disks, Lend!At
  <2>4. RestKept'
    BY <1>1, <2>1 DEF LInv, RestKept, Rest
  <2>5. WrittenTo \subseteq WrittenTo' /\ (Emptied => Emptied')
    BY <1>1, <2>1 DEF WrittenTo, Emptied, Lend!At, LInv, Disks
  <2>6. ASSUME NEW d \in Call PROVE PutStays(d)' /\ Unsoiled(d)'
    <3>1. PutStays(d) /\ Unsoiled(d) /\ HadIn(edit[d]) \subseteq HadIn(edit[d])'
      BY <1>1, <2>1 DEF LInv, HadIn
    <3>2. PutStays(d)'
      BY <1>1, <2>5, <3>1 DEF PutStays
    <3>3. Unsoiled(d)'
      BY <1>1, <2>1, <3>1 DEF Unsoiled
    <3> QED  BY <3>2, <3>3
  <2> QED  BY <2>2, <2>3, <2>4, <2>6 DEF LInv
<1>3. CASE Lend!Reloads
  <2>1. ~dirty /\ dirty' = dirty /\ torn = {} /\ buffer' = disk /\ ~fs.write
    BY <1>3 DEF Lend!Reloads, LInv, Disks
  <2>2. LentKinds' /\ Disks'
    BY <1>1, <2>1 DEF LInv, LentKinds, Disks, Lend!At
  <2>3. RestKept'
    BY <1>1, <2>1 DEF LInv, RestKept, Rest
  <2>4. ASSUME NEW d \in Call PROVE PutStays(d)' /\ Unsoiled(d)'
    <3>1. PutStays(d)'
      <4>1. UNCHANGED WrittenTo /\ UNCHANGED Emptied
        BY <1>1, <2>1 DEF WrittenTo, Emptied, Lend!At
      <4> QED  BY <1>1, <4>1 DEF LInv, PutStays
    <3>2. Unsoiled(d)'
      BY <1>1, <2>1 DEF LInv, Unsoiled
    <3> QED  BY <3>1, <3>2
  <2> QED  BY <2>2, <2>3, <2>4 DEF LInv
<1> QED  BY <1>2, <1>3

----------------------------------------------------------------------------
(* The steps *)

LEMMA AnswersIs ==
  ASSUME LInv, NEW c \in Call, NEW at \in {"ok", "error"}, Lend!Answers(c, at)
  PROVE  \E r \in CallOf : /\ edit' = [edit EXCEPT ![c] = r] /\ r.at = at /\ r.name = edit[c].name
                          /\ r.put = edit[c].put /\ r.drop = edit[c].drop
<1> DEFINE r == [edit[c] EXCEPT !.at = at]
<1>1. edit[c] \in CallOf /\ edit' = [edit EXCEPT ![c] = r]
  BY DEF LInv, LentKinds, Lend!Answers
<1>2. r \in CallOf /\ r.at = at /\ r.name = edit[c].name /\ r.put = edit[c].put /\ r.drop = edit[c].drop
  BY <1>1 DEF CallOf, CallStages
<1> HIDE DEF r
<1> QED  BY <1>1, <1>2

(* An answer that leaves nothing written. *)
LEMMA AnswersKeep ==
  ASSUME LentConstants, LInv, NEW c \in Call, NEW at \in {"ok", "error"}, Lend!Answers(c, at),
         edit[c].at # "fill", at = "ok" => edit[c].put = {},
         UNCHANGED <<fs, buffer, dirty, disk, torn>>, spilt' \in Nat, spilt' = 0 => spilt = 0
  PROVE  LInv'
<1>1. PICK r \in CallOf : /\ edit' = [edit EXCEPT ![c] = r] /\ r.at = at /\ r.name = edit[c].name
                         /\ r.put = edit[c].put /\ r.drop = edit[c].drop
  BY AnswersIs
<1>2. Fit(r) /\ ~Wrote(r) /\ ~Counted(r) /\ r.at # "fill" /\ r.at # "write"
  BY <1>1 DEF Fit, Wrote, Counted, AnEdit
<1> QED  BY <1>1, <1>2, CallGoesOn

LEMMA FaultsGrow == ASSUME LInv, Lend!Fails PROVE spilt' \in Nat /\ spilt' # 0
BY DEF LInv, LentKinds, Lend!Fails

LEMMA BeginsKeep ==
  ASSUME LentConstants, LInv, NEW c \in Call,
         Lend!ReadsLink(c) \/ \E n \in Lend!FileTools \cup UNION {Servers[i] : i \in DOMAIN Servers} : Lend!Refuses(c, n) \/ Lend!Routes(c, n)
  PROVE  LInv'
<1>1. CASE Lend!ReadsLink(c)
  <2>1. Lend!At(c, "none") /\ \E stage \in {"fault", "read"} : Lend!Begins(c, stage, "link", {}, {})
    BY <1>1 DEF Lend!ReadsLink
  <2>2. UNCHANGED <<fs, buffer, dirty, disk, torn, spilt>> /\ "link" \in ToolNames
    BY <1>1 DEF Lend!ReadsLink, ToolNames
  <2> QED  BY <2>1, <2>2, CallBegun
<1>2. ASSUME NEW n \in Lend!FileTools \cup UNION {Servers[i] : i \in DOMAIN Servers}, Lend!Refuses(c, n)
      PROVE  LInv'
  <2>1. Lend!At(c, "none") /\ Lend!Begins(c, "fault", n, {}, {}) /\ n \in ToolNames
    BY <1>2 DEF Lend!Refuses, ToolNames
  <2>2. UNCHANGED <<fs, buffer, dirty, disk, torn, spilt>>
    BY <1>2 DEF Lend!Refuses
  <2> QED  BY <2>1, <2>2, CallBegun
<1>3. ASSUME NEW n \in Lend!FileTools \cup UNION {Servers[i] : i \in DOMAIN Servers}, Lend!Routes(c, n)
      PROVE  LInv'
  <2>1. Lend!At(c, "none") /\ n \in ToolNames /\ UNCHANGED <<fs, buffer, dirty, disk, torn, spilt>>
    BY <1>3 DEF Lend!Routes, ToolNames
  <2>2. CASE Lend!Begins(c, "server", n, {}, {})
    BY <2>1, <2>2, CallBegun
  <2>3. CASE n = "read_text_file" /\ Lend!Begins(c, "read", n, {}, {})
    BY <2>1, <2>3, CallBegun
  <2>4. ASSUME n = "write_text_file", NEW x \in New, Lend!Begins(c, "write", n, {x}, {})
        PROVE  LInv'
    BY <2>1, <2>4, CallBegun
  <2>5. ASSUME n = "edit_text_file", NEW x \in New, NEW old \in Line, Lend!Begins(c, "read", n, {x}, {old})
        PROVE  LInv'
    BY <2>1, <2>5, CallBegun
  <2> QED  BY <1>3, <2>2, <2>3, <2>4, <2>5 DEF Lend!Routes
<1> QED  BY <1>1, <1>2, <1>3

LEMMA ServerKeeps == ASSUME LentConstants, LInv, NEW c \in Call, Lend!ServerAnswers(c) PROVE LInv'
<1>1. edit[c].at = "server" /\ edit[c].put = {} /\ spilt \in Nat
  BY DEF Lend!ServerAnswers, Lend!At, LInv, LentKinds, Fit
<1>2. PICK at \in {"ok", "error"} : Lend!Answers(c, at)
  BY DEF Lend!ServerAnswers
<1> QED  BY <1>1, <1>2, AnswersKeep DEF Lend!ServerAnswers

LEMMA ReadsKeep == ASSUME LentConstants, LInv, NEW c \in Call, Lend!Reads(c) PROVE LInv'
<1>1. /\ edit[c] \in CallOf /\ edit[c].at = "read" /\ Fit(edit[c]) /\ spilt \in Nat
      /\ buffer \in Lend!Text /\ disk \in Lend!Text
      /\ UNCHANGED <<fs, buffer, dirty, disk, torn>>
  BY DEF Lend!Reads, Lend!At, LInv, LentKinds
<1>2. CASE Lend!Answers(c, "error") /\ (UNCHANGED spilt \/ Lend!Fails)
  BY <1>1, <1>2, AnswersKeep, FaultsGrow
<1> DEFINE read == [edit[c] EXCEPT !.at = "ok", !.text = Lend!ReadText]
           goes == [edit[c] EXCEPT !.at = "write", !.text = Lend!ReadText]
           nots == [edit[c] EXCEPT !.at = "error"]
<1>3. Lend!ReadText \in Lend!Text /\ Lend!ReadText = IF fs.read THEN buffer ELSE disk
  BY <1>1 DEF Lend!ReadText, Lend!FromDisk
<1>4. CASE /\ UNCHANGED spilt
           /\ edit' = [edit EXCEPT ![c] = IF ~AnEdit(edit[c]) THEN read
                                          ELSE IF Lend!MayReplace(Lend!ReadText, edit[c].drop) THEN goes ELSE nots]
  <2>1. /\ read \in CallOf /\ read.at = "ok" /\ read.name = edit[c].name /\ read.put = edit[c].put
        /\ read.drop = edit[c].drop
    BY <1>1, <1>3 DEF CallOf, CallStages
  <2>2. /\ goes \in CallOf /\ goes.at = "write" /\ goes.name = edit[c].name /\ goes.put = edit[c].put
        /\ goes.drop = edit[c].drop /\ goes.had = edit[c].had /\ goes.text = Lend!ReadText
        /\ goes.crossed = edit[c].crossed /\ goes.over = edit[c].over
    BY <1>1, <1>3 DEF CallOf, CallStages, Lend!Running
  <2>3. nots \in CallOf /\ nots.at = "error" /\ nots.name = edit[c].name /\ nots.put = edit[c].put /\ nots.drop = edit[c].drop
    BY <1>1 DEF CallOf, CallStages
  <2> HIDE DEF read, goes, nots
  <2>4. CASE ~AnEdit(edit[c])
    <3>1. Fit(read) /\ ~Wrote(read) /\ ~Counted(read)
      BY <1>1, <2>1, <2>4 DEF Fit, Wrote, Counted, AnEdit
    <3> QED  BY <1>1, <1>4, <2>1, <2>4, <3>1, CallGoesOn
  <2>5. CASE AnEdit(edit[c]) /\ Lend!MayReplace(Lend!ReadText, edit[c].drop)
    <3>1. Fit(goes) /\ ~Wrote(goes) /\ (Counted(goes) => Counted(edit[c]))
      BY <1>1, <2>2, <2>5 DEF Fit, Wrote, Counted, AnEdit
    <3>2. goes.drop # {} /\ goes.drop \subseteq goes.text
      BY <1>1, <2>2, <2>5 DEF Fit, Lend!MayReplace
    <3> QED  BY <1>1, <1>3, <1>4, <2>2, <2>5, <3>1, <3>2, CallGoesOn
  <2>6. CASE AnEdit(edit[c]) /\ ~Lend!MayReplace(Lend!ReadText, edit[c].drop)
    <3>1. Fit(nots) /\ ~Wrote(nots) /\ ~Counted(nots)
      BY <1>1, <2>3, <2>6 DEF Fit, Wrote, Counted, AnEdit
    <3> QED  BY <1>1, <1>4, <2>3, <2>6, <3>1, CallGoesOn
  <2> QED  BY <2>4, <2>5, <2>6
<1>5. \/ /\ UNCHANGED spilt
         /\ edit' = [edit EXCEPT ![c] = IF ~AnEdit(edit[c]) THEN read
                                        ELSE IF Lend!MayReplace(Lend!ReadText, edit[c].drop) THEN goes ELSE nots]
      \/ Lend!Answers(c, "error") /\ (UNCHANGED spilt \/ Lend!Fails)
  BY <1>1 DEF Lend!Reads, AnEdit, LInv, LentKinds
<1> QED  BY <1>2, <1>4, <1>5

LEMMA WritesKeep ==
  ASSUME LentConstants, LInv, NEW c \in Call, Lend!EditorWrites(c) \/ Lend!Truncates(c) \/ Lend!Fills(c)
  PROVE  LInv'
<1>1. CASE Lend!EditorWrites(c)
  <2>1. edit[c].at = "write" /\ fs.write /\ UNCHANGED <<fs, torn>>
    BY <1>1 DEF Lend!EditorWrites, Lend!At, Lend!Through
  <2>2. CASE Lend!Fails /\ Lend!Answers(c, "error") /\ UNCHANGED <<buffer, dirty, disk>>
    BY <2>1, <2>2, AnswersKeep, FaultsGrow
  <2>3. CASE ~(Lend!Fails /\ Lend!Answers(c, "error") /\ UNCHANGED <<buffer, dirty, disk>>)
    <3>1. /\ buffer' = Lend!Content(c) /\ disk' \in {disk, Lend!Content(c)} /\ dirty' = (disk' # Lend!Content(c))
          /\ edit' = Lend!Crossing([edit EXCEPT ![c].at = "ok"], c) /\ UNCHANGED spilt
      BY <1>1, <2>3 DEF Lend!EditorWrites
    <3> QED  BY <2>1, <3>1, EditorKeeps
  <2> QED  BY <2>2, <2>3
<1>2. CASE Lend!Truncates(c)
  <2>1. edit[c].at = "write" /\ ~fs.write /\ UNCHANGED <<fs, buffer, dirty, spilt>> /\ spilt \in Nat
    BY <1>2 DEF Lend!Truncates, Lend!At, Lend!Through, LInv, LentKinds
  <2>2. CASE rooted /\ Inside
    <3>1. disk' = {} /\ torn' = torn \cup {c} /\ edit' = Lend!Crossing([edit EXCEPT ![c].at = "fill"], c)
      BY <1>2, <2>2 DEF Lend!Truncates
    <3> QED  BY <2>1, <3>1, TruncateKeeps
  <2>3. CASE ~(rooted /\ Inside)
    BY <1>2, <2>1, <2>3, AnswersKeep DEF Lend!Truncates
  <2> QED  BY <2>2, <2>3
<1>3. CASE Lend!Fills(c)
  <2>1. edit[c].at = "fill" /\ torn' = torn \ {c} /\ UNCHANGED <<fs, buffer, dirty>>
    BY <1>3 DEF Lend!Fills, Lend!At
  <2>2. CASE disk' = Lend!Content(c) /\ edit' = Lend!Crossing([edit EXCEPT ![c].at = "ok"], c) /\ UNCHANGED spilt
    BY <2>1, <2>2, FillKeeps
  <2>3. CASE /\ Lend!Fails
             /\ UNCHANGED disk
             /\ edit' = [d \in Call |-> IF d = c THEN [edit[c] EXCEPT !.at = "error"]
                                                ELSE [edit[d] EXCEPT !.over = TRUE]]
    BY <2>1, <2>3, SpillKeeps DEF Lend!Fails
  <2> QED  BY <1>3, <2>2, <2>3 DEF Lend!Fills
<1> QED  BY <1>1, <1>2, <1>3

LEMMA SessionKeeps ==
  ASSUME LInv, (\E reached \in SUBSET DOMAIN Servers : Lend!Opens(reached)) \/ Lend!Closes \/ UNCHANGED Lend!vars
  PROVE  LInv'
<1>1. UNCHANGED <<fs, buffer, dirty, disk, torn, edit, spilt>>
  BY DEF Lend!Opens, Lend!Closes, Lend!vars
<1>2. LentKinds' /\ Disks' /\ RestKept'
  BY <1>1 DEF LInv, LentKinds, Disks, RestKept, NoWholeWrite, Rest, Lend!Replaceable, Lend!At
<1>3. UNCHANGED WrittenTo /\ UNCHANGED Emptied /\ \A d \in Call : UNCHANGED HadIn(edit[d])
  BY <1>1 DEF WrittenTo, Emptied, Lend!At, HadIn
<1> QED  BY <1>1, <1>2, <1>3 DEF LInv, PutStays, Unsoiled

LEMMA InitLent == ASSUME LentConstants, Lend!Init PROVE LInv
<1>1. /\ edit = [c \in Call |-> Lend!NoCall] /\ buffer = Line /\ disk = Line /\ torn = {} /\ spilt = 0 /\ dirty = FALSE
  BY DEF Lend!Init
<1>2. Lend!NoCall \in CallOf /\ Fit(Lend!NoCall) /\ Lend!NoCall.at = "none"
  BY DEF Lend!NoCall, CallOf, CallStages, Lend!Text, ToolNames, Fit, AnEdit
<1>3. LentKinds
  BY <1>1, <1>2 DEF LentKinds, Lend!Text
<1>4. Disks /\ RestKept
  BY <1>1, <1>2 DEF Disks, Lend!At, RestKept, Rest, Editing
<1>5. \A c \in Call : ~Wrote(edit[c]) /\ ~Counted(edit[c])
  BY <1>1, <1>2 DEF Wrote, Counted
<1> QED  BY <1>3, <1>4, <1>5 DEF LInv, PutStays, Unsoiled

(* Of a file that a session lends and its person types in (bridge.rs       *)
(* `file`, `tool`; local.rs): an edit takes nothing from the person that   *)
(* they had typed when it began; what the agent was told is written is in  *)
(* the editor, or else on the disk, when no write is under way; and no     *)
(* edit loses a line but the one it replaces: for any lines, calls,        *)
(* servers, editors and failures.                                          *)
THEOREM FilesKeptByAll ==
  ASSUME LentConstants
  PROVE  Lend!Spec => [](Lend!UnsavedKept /\ Lend!WrittenStays /\ Lend!EditsKeepTheRest)
<1>1. Lend!Init => LInv
  BY InitLent
<1>2. LInv /\ [Lend!Next]_(Lend!vars) => LInv'
  <2> SUFFICES ASSUME LInv, [Lend!Next]_(Lend!vars) PROVE LInv'
    OBVIOUS
  <2>1. ASSUME NEW c \in Call, Lend!Step(c) PROVE LInv'
    BY <2>1, BeginsKeep, ServerKeeps, ReadsKeep, WritesKeep, Zenon DEF Lend!Step
  <2> QED  BY <2>1, SessionKeeps, SavesKeep, BufferKeeps, Zenon DEF Lend!Next
<1>3. LInv => Lend!UnsavedKept
  <2> SUFFICES ASSUME LInv, fs.read \/ ~fs.write, \A c \in Call : ~edit[c].crossed,
                      NEW c \in Call, Lend!Edited(c), ~edit[c].over
               PROVE  edit[c].had \subseteq buffer
    BY DEF Lend!UnsavedKept
  <2>1. Counted(edit[c]) /\ HadIn(edit[c]) = buffer
    BY DEF Counted, Lend!Edited, AnEdit, Lend!At, HadIn
  <2> QED  BY <2>1 DEF LInv, Unsoiled
<1>4. LInv => Lend!WrittenStays
  <2> SUFFICES ASSUME LInv, fs.read = fs.write, torn = {}, NEW c \in Call, Lend!Edited(c) \/ Lend!Overwrote(c),
                      ~edit[c].crossed, ~edit[c].over
               PROVE  edit[c].put \subseteq WrittenTo
    BY DEF Lend!WrittenStays, Lend!KeptByAll, WrittenTo
  <2>1. CASE edit[c].put = {}
    BY <2>1
  <2>2. CASE edit[c].put # {}
    <3>1. Wrote(edit[c]) /\ ~Emptied
      BY <2>2 DEF Wrote, Lend!Edited, Lend!Overwrote, Lend!At, Emptied, LInv, Disks
    <3> QED  BY <3>1 DEF LInv, PutStays
  <2> QED  BY <2>1, <2>2
<1>5. LInv => Lend!EditsKeepTheRest
  BY DEF LInv, RestKept, NoWholeWrite, Rest, Lend!EditsKeepTheRest
<1> QED  BY <1>1, <1>2, <1>3, <1>4, <1>5, PTL DEF Lend!Spec

----------------------------------------------------------------------------
(* The service *)

(* What the constants are. *)
ServiceConstants == Daemon!CommandAssumption /\ Daemon!BoundsAssumption

----------------------------------------------------------------------------
(* What a plist is, and a command. *)
PlistOf == [of : Command \cup {NoCommand}, whole : BOOLEAN]
HalfWritten(c)  == [of |-> c, whole |-> FALSE]
AllWritten(c) == [of |-> c, whole |-> TRUE]
PlistShapes ==
  /\ plist \in PlistOf /\ staged \in PlistOf
  /\ cmd \in [Command -> [verb : Daemon!Verbs, at : Daemon!Places, was : BOOLEAN, alone : BOOLEAN]]
  /\ said \in [Command -> Daemon!Answers]

(* Nobody finds a file of a command's that has staged none yet. *)
Unwritten ==
  \A c \in Command : cmd[c].at \in {"new", "staging"} => plist.of # c /\ staged.of # c

(* What a command that no other crossed found when it began still is so,   *)
(* and what it wrote is there.                                             *)
NobodyElse(c) ==
  /\ cmd[c].at \in {"staging", "writing", "renaming"} /\ Daemon!Verb(c) = "install" => plist = Daemon!None
  /\ cmd[c].at = "writing"  => staged = HalfWritten(c) /\ plist.of # c
  /\ cmd[c].at = "renaming" => staged = AllWritten(c)
  /\ cmd[c].at = "linting"  => plist = AllWritten(c)
  /\ cmd[c].at = "remove"   => job = "off"
AloneFits == \A c \in Command : cmd[c].alone => NobodyElse(c)

(* What every step of a command's keeps. *)
SInv == PlistShapes /\ Unwritten /\ AloneFits

(* Whom a step of c's moves. *)
LEMMA MovesOne ==
  ASSUME PlistShapes, NEW c \in Command, NEW entry, Daemon!Moved(c, entry)
  PROVE  /\ cmd'[c] = [entry EXCEPT !.alone = @ /\ Daemon!Others(c) = {}]
         /\ \A d \in Command \ {c} :
              /\ cmd'[d].at = cmd[d].at /\ cmd'[d].verb = cmd[d].verb
              /\ cmd'[d].alone => cmd[d].alone /\ cmd[d].at \in {"new", "over"}
              /\ cmd'[d] \in [verb : Daemon!Verbs, at : Daemon!Places, was : BOOLEAN, alone : BOOLEAN]
<1>1. cmd' = [d \in Command |->
            IF d = c THEN [entry EXCEPT !.alone = @ /\ Daemon!Others(c) = {}]
            ELSE IF d \in Daemon!Others(c) THEN [cmd[d] EXCEPT !.alone = FALSE] ELSE cmd[d]]
  BY DEF Daemon!Moved
<1>2. ASSUME NEW d \in Command \ {c}
      PROVE  /\ cmd'[d].at = cmd[d].at /\ cmd'[d].verb = cmd[d].verb
             /\ cmd'[d].alone => cmd[d].alone /\ cmd[d].at \in {"new", "over"}
             /\ cmd'[d] \in [verb : Daemon!Verbs, at : Daemon!Places, was : BOOLEAN, alone : BOOLEAN]
  <2>1. cmd[d] \in [verb : Daemon!Verbs, at : Daemon!Places, was : BOOLEAN, alone : BOOLEAN]
    BY DEF PlistShapes
  <2>2. CASE d \in Daemon!Others(c)
    <3>1. cmd'[d] = [cmd[d] EXCEPT !.alone = FALSE]
      BY <1>1, <2>2
    <3> QED  BY <2>1, <3>1
  <2>3. CASE d \notin Daemon!Others(c)
    <3>1. cmd'[d] = cmd[d]
      BY <1>1, <2>3
    <3>2. cmd[d].at \in {"new", "over"}
      BY <2>3 DEF Daemon!Others
    <3> QED  BY <2>1, <3>1, <3>2
  <2> QED  BY <2>2, <2>3
<1> QED  BY <1>1, <1>2

(* A step that leads to a stage, and an answer. *)
LEMMA CommandGoing ==
  ASSUME PlistShapes, NEW c \in Command, NEW stage \in Daemon!Places, NEW was \in BOOLEAN,
         Daemon!Moved(c, [cmd[c] EXCEPT !.at = stage, !.was = was])
  PROVE  /\ cmd'[c].at = stage /\ cmd'[c].verb = cmd[c].verb /\ cmd'[c].was = was
         /\ cmd'[c].alone => cmd[c].alone /\ Daemon!Others(c) = {}
         /\ \A d \in Command \ {c} :
              /\ cmd'[d].at = cmd[d].at /\ cmd'[d].verb = cmd[d].verb
              /\ cmd'[d].alone => cmd[d].alone /\ cmd[d].at \in {"new", "over"}
         /\ cmd' \in [Command -> [verb : Daemon!Verbs, at : Daemon!Places, was : BOOLEAN, alone : BOOLEAN]]
<1> DEFINE entry == [cmd[c] EXCEPT !.at = stage, !.was = was]
<1>1. cmd[c] \in [verb : Daemon!Verbs, at : Daemon!Places, was : BOOLEAN, alone : BOOLEAN]
  BY DEF PlistShapes
<1>2. /\ entry \in [verb : Daemon!Verbs, at : Daemon!Places, was : BOOLEAN, alone : BOOLEAN]
      /\ entry.at = stage /\ entry.was = was /\ entry.verb = cmd[c].verb /\ entry.alone = cmd[c].alone
  BY <1>1
<1>3. Daemon!Moved(c, entry)
  OBVIOUS
<1> HIDE DEF entry
<1>4. cmd'[c] = [entry EXCEPT !.alone = @ /\ Daemon!Others(c) = {}]
  BY <1>3, MovesOne
<1>5. /\ cmd'[c] \in [verb : Daemon!Verbs, at : Daemon!Places, was : BOOLEAN, alone : BOOLEAN]
      /\ cmd'[c].at = stage /\ cmd'[c].was = was /\ cmd'[c].verb = cmd[c].verb
      /\ cmd'[c].alone = (cmd[c].alone /\ Daemon!Others(c) = {})
  BY <1>2, <1>4
<1>6. cmd' = [d \in Command |-> cmd'[d]]
  BY <1>3 DEF Daemon!Moved
<1>7. \A d \in Command : cmd'[d] \in [verb : Daemon!Verbs, at : Daemon!Places, was : BOOLEAN, alone : BOOLEAN]
  BY <1>3, <1>5, MovesOne
<1> QED  BY <1>3, <1>5, <1>6, <1>7, MovesOne

LEMMA Stepping ==
  ASSUME PlistShapes, NEW c \in Command, NEW stage \in Daemon!Places, Daemon!Moved(c, [cmd[c] EXCEPT !.at = stage])
  PROVE  Daemon!Moved(c, [cmd[c] EXCEPT !.at = stage, !.was = cmd[c].was]) /\ cmd[c].was \in BOOLEAN
<1>1. cmd[c] \in [verb : Daemon!Verbs, at : Daemon!Places, was : BOOLEAN, alone : BOOLEAN]
  BY DEF PlistShapes
<1>2. [cmd[c] EXCEPT !.at = stage] = [cmd[c] EXCEPT !.at = stage, !.was = cmd[c].was]
  BY <1>1
<1> QED  BY <1>1, <1>2

(* What a step of c's to a stage has to do for the others to be kept. *)
CommandLeads(c, stage) ==
  /\ cmd'[c].at = stage /\ cmd'[c].verb = cmd[c].verb
  /\ cmd'[c].alone => cmd[c].alone /\ Daemon!Others(c) = {}
  /\ \A d \in Command \ {c} :
       /\ cmd'[d].at = cmd[d].at /\ cmd'[d].verb = cmd[d].verb
       /\ cmd'[d].alone => cmd[d].alone /\ cmd[d].at \in {"new", "over"}
  /\ cmd' \in [Command -> [verb : Daemon!Verbs, at : Daemon!Places, was : BOOLEAN, alone : BOOLEAN]]

LEMMA LeadsOn ==
  ASSUME PlistShapes, NEW c \in Command, NEW stage \in Daemon!Places, NEW was \in BOOLEAN,
         \/ Daemon!Moved(c, [cmd[c] EXCEPT !.at = stage])
         \/ Daemon!Moved(c, [cmd[c] EXCEPT !.at = stage, !.was = was])
  PROVE  CommandLeads(c, stage)
<1>1. PICK old \in BOOLEAN : Daemon!Moved(c, [cmd[c] EXCEPT !.at = stage, !.was = old])
  BY Stepping
<1> QED  BY <1>1, CommandGoing DEF CommandLeads

LEMMA CommandKeeps ==
  ASSUME SInv, NEW c \in Command, NEW stage \in Daemon!Places, CommandLeads(c, stage), stage # "new",
         plist' \in PlistOf, staged' \in PlistOf, said' \in [Command -> Daemon!Answers],
         {plist'.of, staged'.of} \subseteq {plist.of, staged.of, c, NoCommand},
         NoCommand \notin Command,
         stage = "staging" => plist'.of # c /\ staged'.of # c,
         cmd'[c].alone => NobodyElse(c)'
  PROVE  SInv'
<1>1. PlistShapes'
  BY DEF PlistShapes, CommandLeads
<1>2. Unwritten'
  <2>1. ASSUME NEW d \in Command, cmd'[d].at \in {"new", "staging"}
        PROVE  plist'.of # d /\ staged'.of # d
    <3>1. CASE d = c
      BY <2>1, <3>1 DEF CommandLeads
    <3>2. CASE d # c
      <4>1. plist.of # d /\ staged.of # d
        BY <2>1, <3>2 DEF CommandLeads, SInv, Unwritten
      <4> QED  BY <3>2, <4>1
    <3> QED  BY <3>1, <3>2
  <2> QED  BY <2>1 DEF Unwritten
<1>3. AloneFits'
  <2>1. ASSUME NEW d \in Command, cmd'[d].alone PROVE NobodyElse(d)'
    <3>1. CASE d = c
      BY <2>1, <3>1
    <3>2. CASE d # c
      <4>1. cmd'[d].at \in {"new", "over"}
        BY <2>1, <3>2 DEF CommandLeads
      <4> QED  BY <4>1 DEF NobodyElse
    <3> QED  BY <3>1, <3>2
  <2> QED  BY <2>1 DEF AloneFits
<1> QED  BY <1>1, <1>2, <1>3 DEF SInv

----------------------------------------------------------------------------
(* What each step does *)

(* What it says is so, and the plist it leaves is whole. *)
Truthful(c) ==
  /\ \A d \in Command \ {c} : said'[d] = said[d]
  /\ said'[c] # said[c] =>
       /\ said'[c] \in {"started", "restarted"} => job' = "kept"
       /\ said'[c] = "stopped" => job' = "off"
       /\ cmd'[c].alone /\ said'[c] = "uninstalled" => plist' = Daemon!None /\ job' = "off"
       /\ cmd'[c].alone /\ said'[c] = "installed" => plist' = AllWritten(c)
TidyCommand(c) ==
  /\ \A d \in Command \ {c} : cmd'[d].at = cmd[d].at
  /\ plist' # plist /\ plist' # Daemon!None =>
       ~cmd'[c].alone \/ (plist'.whole /\ (Daemon!Verb(c) = "install" => plist = Daemon!None))

(* What a step that ends a command has to do. *)
LEMMA CommandEnds ==
  ASSUME ServiceConstants, SInv, NEW c \in Command, NEW what \in Daemon!Answers, Daemon!Says(c, what),
         plist' \in {plist, Daemon!None}, UNCHANGED staged,
         what \in {"started", "restarted"} => job' = "kept",
         what = "stopped" => job' = "off",
         cmd[c].alone /\ what = "uninstalled" => plist' = Daemon!None /\ job' = "off",
         cmd[c].alone /\ what = "installed" => plist' = AllWritten(c)
  PROVE  SInv' /\ Truthful(c) /\ TidyCommand(c)
<1>1. CommandLeads(c, "over") /\ "over" \in Daemon!Places
  BY LeadsOn DEF Daemon!Says, SInv, Daemon!Places
<1>2. said' = [said EXCEPT ![c] = what]
  BY DEF Daemon!Says
<1>3. said \in [Command -> Daemon!Answers] /\ plist \in PlistOf /\ staged \in PlistOf
  BY DEF SInv, PlistShapes
<1>4. Daemon!None \in PlistOf /\ Daemon!None.of = NoCommand
  BY DEF Daemon!None, PlistOf
<1>5. said'[c] = what /\ \A d \in Command \ {c} : said'[d] = said[d]
  BY <1>2, <1>3
<1>6. Truthful(c)
  BY <1>1, <1>5 DEF Truthful, CommandLeads
<1>7. TidyCommand(c)
  BY <1>1 DEF TidyCommand, CommandLeads
<1>8. NobodyElse(c)'
  BY <1>1 DEF CommandLeads, NobodyElse
<1>9. SInv'
  <2>1. said' \in [Command -> Daemon!Answers]
    BY <1>2, <1>3
  <2>2. plist' \in PlistOf /\ {plist'.of, staged'.of} \subseteq {plist.of, staged.of, c, NoCommand}
    BY <1>3, <1>4
  <2> QED  BY <1>1, <1>3, <1>8, <2>1, <2>2, CommandKeeps
                DEF ServiceConstants, Daemon!CommandAssumption
<1> QED  BY <1>6, <1>7, <1>9

(* What a step that goes on has to do. *)
LEMMA CommandGoesOn ==
  ASSUME ServiceConstants, SInv, NEW c \in Command, NEW stage \in Daemon!Places \ {"new"}, CommandLeads(c, stage),
         UNCHANGED said, plist' \in PlistOf, staged' \in PlistOf,
         {plist'.of, staged'.of} \subseteq {plist.of, staged.of, c, NoCommand},
         stage = "staging" => plist'.of # c /\ staged'.of # c,
         cmd[c].alone => NobodyElse(c)',
         cmd[c].alone /\ plist' # plist => plist'.whole /\ (Daemon!Verb(c) = "install" => plist = Daemon!None)
  PROVE  SInv' /\ Truthful(c) /\ TidyCommand(c)
<1>1. SInv'
  BY CommandKeeps DEF SInv, PlistShapes, ServiceConstants, Daemon!CommandAssumption,
       CommandLeads
<1> QED  BY <1>1 DEF Truthful, TidyCommand, CommandLeads

LEMMA InstallSteps ==
  ASSUME ServiceConstants, SInv, NEW c \in Command,
         Daemon!Looks(c) \/ Daemon!Stages(c) \/ Daemon!Writes(c) \/ Daemon!Stops(c) \/ Daemon!Renames(c) \/ Daemon!Lints(c)
  PROVE  SInv' /\ Truthful(c) /\ TidyCommand(c)
<1>0. /\ plist \in PlistOf /\ staged \in PlistOf /\ NoCommand \notin Command
      /\ {"staging", "writing", "renaming", "linting"} \subseteq Daemon!Places \ {"new"}
      /\ {"failed", "exists", "installed"} \subseteq Daemon!Answers
      /\ cmd[c].alone => NobodyElse(c)
  BY DEF SInv, PlistShapes, AloneFits, ServiceConstants, Daemon!CommandAssumption,
       Daemon!Places, Daemon!Answers
<1>1. CASE Daemon!Looks(c)
  <2>1. CASE Daemon!Declines(c)
    BY <1>0, <1>1, <2>1, CommandEnds DEF Daemon!Looks
  <2>2. CASE ~Daemon!Declines(c)
    <3>1. CommandLeads(c, "staging")
      <4>1. Daemon!Installed \in BOOLEAN
        BY DEF Daemon!Installed
      <4> QED  BY <1>0, <1>1, <2>2, <4>1, LeadsOn DEF Daemon!Looks, SInv
    <3>2. plist.of # c /\ staged.of # c
      BY <1>1 DEF Daemon!Looks, Daemon!At, SInv, Unwritten
    <3>3. NobodyElse(c)'
      <4>1. Daemon!Verb(c) = "install" => plist = Daemon!None
        BY <2>2 DEF Daemon!Declines, Daemon!Installed
      <4> QED  BY <1>1, <3>1, <4>1 DEF NobodyElse, CommandLeads, Daemon!Looks, Daemon!Verb
    <3> QED  BY <1>0, <1>1, <2>2, <3>1, <3>2, <3>3, CommandGoesOn DEF Daemon!Looks
  <2> QED  BY <2>1, <2>2
<1>2. CASE Daemon!Stages(c)
  <2>1. CommandLeads(c, "writing")
    BY <1>0, <1>2, LeadsOn DEF Daemon!Stages, Daemon!Goes, SInv
  <2>2. staged' = HalfWritten(c) /\ HalfWritten(c) \in PlistOf /\ HalfWritten(c).of = c
    BY <1>2 DEF Daemon!Stages, HalfWritten, PlistOf
  <2>3. plist.of # c
    BY <1>2 DEF Daemon!Stages, Daemon!At, SInv, Unwritten
  <2>4. ASSUME cmd[c].alone PROVE NobodyElse(c)'
    BY <1>0, <1>2, <2>1, <2>2, <2>3, <2>4 DEF NobodyElse, CommandLeads, Daemon!Stages,
         Daemon!At, Daemon!Verb
  <2> QED  BY <1>0, <1>2, <2>1, <2>2, <2>4, CommandGoesOn DEF Daemon!Stages, Daemon!Goes
<1>3. CASE Daemon!Writes(c)
  <2>1. CommandLeads(c, "renaming")
    BY <1>0, <1>3, LeadsOn DEF Daemon!Writes, Daemon!Goes, SInv
  <2>2. /\ staged' = (IF staged = HalfWritten(c) THEN AllWritten(c) ELSE staged)
        /\ plist' = (IF plist = HalfWritten(c) THEN AllWritten(c) ELSE plist)
        /\ HalfWritten(c).of = c /\ AllWritten(c) \in PlistOf /\ AllWritten(c).of = c
    BY <1>3 DEF Daemon!Writes, HalfWritten, AllWritten, PlistOf
  <2>3. ASSUME cmd[c].alone PROVE staged' = AllWritten(c) /\ UNCHANGED plist
    BY <1>0, <1>3, <2>2, <2>3 DEF Daemon!Writes, Daemon!At, NobodyElse
  <2>4. ASSUME cmd[c].alone PROVE NobodyElse(c)'
    BY <1>0, <1>3, <2>1, <2>3, <2>4 DEF NobodyElse, CommandLeads, Daemon!Writes, Daemon!At,
         Daemon!Verb
  <2>5. plist' \in PlistOf /\ staged' \in PlistOf /\ {plist'.of, staged'.of} \subseteq {plist.of, staged.of, c, NoCommand}
    BY <1>0, <2>2
  <2> QED  BY <1>0, <1>3, <2>1, <2>3, <2>4, <2>5, CommandGoesOn DEF Daemon!Writes, Daemon!Goes
<1>4. CASE Daemon!Stops(c)
  BY <1>0, <1>4, CommandEnds DEF Daemon!Stops, Daemon!GivesUp
<1>5. CASE Daemon!Renames(c)
  <2>1. CASE staged = Daemon!None
    BY <1>0, <1>5, <2>1, CommandEnds DEF Daemon!Renames
  <2>2. CASE staged # Daemon!None
    <3>1. CommandLeads(c, "linting")
      BY <1>0, <1>5, <2>2, LeadsOn DEF Daemon!Renames, Daemon!Goes, SInv
    <3>2. plist' = staged /\ staged' = Daemon!None /\ Daemon!None \in PlistOf /\ Daemon!None.of = NoCommand
      BY <1>5, <2>2 DEF Daemon!Renames, Daemon!None, PlistOf
    <3>3. ASSUME cmd[c].alone
          PROVE  plist' = AllWritten(c) /\ AllWritten(c).whole /\ (Daemon!Verb(c) = "install" => plist = Daemon!None)
      BY <1>0, <1>5, <3>2, <3>3 DEF Daemon!Renames, Daemon!At, NobodyElse, AllWritten
    <3>4. ASSUME cmd[c].alone PROVE NobodyElse(c)'
      BY <3>1, <3>3, <3>4 DEF NobodyElse, CommandLeads
    <3> QED  BY <1>0, <1>5, <2>2, <3>1, <3>2, <3>3, <3>4, CommandGoesOn
                  DEF Daemon!Renames, Daemon!Goes
  <2> QED  BY <2>1, <2>2
<1>6. CASE Daemon!Lints(c)
  <2>1. cmd[c].alone => plist = AllWritten(c)
    BY <1>0, <1>6 DEF Daemon!Lints, Daemon!At, NobodyElse
  <2>2. PICK what \in {"installed", "failed"} : Daemon!Says(c, what)
    BY <1>6 DEF Daemon!Lints
  <2> QED  BY <1>0, <1>6, <2>1, <2>2, CommandEnds DEF Daemon!Lints
<1> QED  BY <1>1, <1>2, <1>3, <1>4, <1>5, <1>6

LEMMA ActingSteps ==
  ASSUME ServiceConstants, SInv, NEW c \in Command,
         Daemon!AsksLaunchd(c) \/ Daemon!Bootstraps(c) \/ Daemon!Kicks(c) \/ Daemon!Bootouts(c) \/ Daemon!Removes(c)
  PROVE  SInv' /\ Truthful(c) /\ TidyCommand(c)
<1>0. /\ plist \in PlistOf /\ staged \in PlistOf /\ NoCommand \notin Command
      /\ {"bootstrap", "kick", "kill", "bootout", "remove"} \subseteq Daemon!Places \ {"new", "staging"}
      /\ {"failed", "not installed", "already up", "already down", "started", "restarted",
           "stopped", "uninstalled"} \subseteq Daemon!Answers
      /\ cmd[c].alone => NobodyElse(c)
      /\ cmd[c].verb \in Daemon!Verbs
  BY DEF SInv, PlistShapes, AloneFits, ServiceConstants, Daemon!CommandAssumption,
       Daemon!Places, Daemon!Answers
<1>1. CASE Daemon!AsksLaunchd(c)
  <2>1. CASE Daemon!Says(c, "not installed") \/ Daemon!GivesUp(c)
    BY <1>0, <1>1, <2>1, CommandEnds DEF Daemon!AsksLaunchd, Daemon!GivesUp
  <2> DEFINE next == Daemon!Wanted(Daemon!Verb(c), Daemon!Loaded)
  <2>2. /\ next \in {"already up", "already down", "bootstrap", "kill", "bootout", "remove"}
        /\ next = "remove" => job = "off"
    BY <1>1 DEF Daemon!AsksLaunchd, Daemon!Acting, Daemon!Wanted, Daemon!Plan, Daemon!Verb,
         Daemon!Loaded
  <2>3. \/ Daemon!Says(c, "not installed") \/ Daemon!GivesUp(c)
        \/ next \in {"already up", "already down"} /\ Daemon!Says(c, next)
        \/ /\ next \in {"bootstrap", "kill", "bootout", "remove"}
           /\ Daemon!Moved(c, [cmd[c] EXCEPT !.at = next, !.was = Daemon!Loaded]) /\ UNCHANGED said
    BY <1>1, <2>2 DEF Daemon!AsksLaunchd
  <2> HIDE DEF next
  <2>4. CASE next \in {"already up", "already down"} /\ Daemon!Says(c, next)
    BY <1>0, <1>1, <2>4, CommandEnds DEF Daemon!AsksLaunchd
  <2>5. CASE /\ next \in {"bootstrap", "kill", "bootout", "remove"}
             /\ Daemon!Moved(c, [cmd[c] EXCEPT !.at = next, !.was = Daemon!Loaded]) /\ UNCHANGED said
    <3>1. CommandLeads(c, next)
      <4>1. Daemon!Loaded \in BOOLEAN
        BY DEF Daemon!Loaded
      <4> QED  BY <1>0, <2>5, <4>1, LeadsOn DEF SInv
    <3>2. NobodyElse(c)'
      BY <1>1, <2>2, <2>5, <3>1 DEF NobodyElse, CommandLeads, Daemon!AsksLaunchd
    <3> QED  BY <1>0, <1>1, <2>5, <3>1, <3>2, CommandGoesOn DEF Daemon!AsksLaunchd
  <2> QED  BY <2>1, <2>3, <2>4, <2>5
<1>2. CASE Daemon!Bootstraps(c)
  <2>1. CASE Daemon!Says(c, "failed")
    BY <1>0, <1>2, <2>1, CommandEnds DEF Daemon!Bootstraps
  <2>2. CASE Daemon!Goes(c, "kick")
    <3>1. CommandLeads(c, "kick")
      BY <1>0, <2>2, LeadsOn DEF Daemon!Goes, SInv
    <3>2. NobodyElse(c)'
      BY <3>1 DEF NobodyElse, CommandLeads
    <3> QED  BY <1>0, <1>2, <2>2, <3>1, <3>2, CommandGoesOn DEF Daemon!Bootstraps, Daemon!Goes
  <2> QED  BY <1>2, <2>1, <2>2 DEF Daemon!Bootstraps, Daemon!GivesUp
<1>3. CASE Daemon!Kicks(c)
  <2>1. CASE Daemon!Says(c, "failed")
    BY <1>0, <1>3, <2>1, CommandEnds DEF Daemon!Kicks
  <2>2. CASE job' = "kept" /\ Daemon!Says(c, Daemon!Ended(c))
    <3>1. Daemon!Ended(c) \in {"started", "restarted"}
      BY DEF Daemon!Ended
    <3> QED  BY <1>0, <1>3, <2>2, <3>1, CommandEnds DEF Daemon!Kicks
  <2> QED  BY <1>3, <2>1, <2>2 DEF Daemon!Kicks, Daemon!GivesUp
<1>4. CASE Daemon!Bootouts(c)
  <2>1. CASE Daemon!Says(c, "failed")
    BY <1>0, <1>4, <2>1, CommandEnds DEF Daemon!Bootouts
  <2>2. CASE job' = "off" /\ Daemon!Says(c, "stopped")
    BY <1>0, <1>4, <2>2, CommandEnds DEF Daemon!Bootouts
  <2>3. CASE job' = "off" /\ Daemon!After(c) # "over" /\ Daemon!Goes(c, Daemon!After(c))
    <3>1. Daemon!After(c) \in {"remove", "bootstrap"}
      BY <2>3 DEF Daemon!After
    <3>2. CommandLeads(c, Daemon!After(c))
      BY <1>0, <2>3, <3>1, LeadsOn DEF Daemon!Goes, SInv
    <3>3. NobodyElse(c)'
      BY <2>3, <3>1, <3>2 DEF NobodyElse, CommandLeads
    <3> QED  BY <1>0, <1>4, <2>3, <3>1, <3>2, <3>3, CommandGoesOn
                  DEF Daemon!Bootouts, Daemon!Goes
  <2> QED  BY <1>4, <2>1, <2>2, <2>3 DEF Daemon!Bootouts, Daemon!GivesUp
<1>5. CASE Daemon!Removes(c)
  <2>1. CASE Daemon!Says(c, "failed")
    BY <1>0, <1>5, <2>1, CommandEnds DEF Daemon!Removes
  <2>2. CASE plist' = Daemon!None /\ Daemon!Says(c, "uninstalled")
    <3>1. cmd[c].alone => job = "off"
      BY <1>0, <1>5 DEF Daemon!Removes, Daemon!At, NobodyElse
    <3> QED  BY <1>0, <1>5, <2>2, <3>1, CommandEnds DEF Daemon!Removes
  <2> QED  BY <1>5, <2>1, <2>2 DEF Daemon!Removes, Daemon!GivesUp
<1> QED  BY <1>1, <1>2, <1>3, <1>4, <1>5

LEMMA NextSays ==
  ASSUME ServiceConstants, SInv, Daemon!Next
  PROVE  SInv' /\ Daemon!KeepsPlist /\ Daemon!SpeaksTrue
<1>1. PICK c \in Command : Daemon!Step(c)
  BY DEF Daemon!Next
<1>2. SInv' /\ Truthful(c) /\ TidyCommand(c)
  BY <1>1, InstallSteps, ActingSteps DEF Daemon!Step
<1>3. Daemon!KeepsPlist
  BY <1>2 DEF Daemon!KeepsPlist, TidyCommand
<1>4. Daemon!SpeaksTrue
  BY <1>2 DEF Daemon!SpeaksTrue, Truthful, AllWritten
<1> QED  BY <1>2, <1>3, <1>4

LEMMA InitInstalls == ASSUME ServiceConstants, Daemon!Init PROVE SInv
<1>1. plist \in {Daemon!None, Daemon!Earlier} /\ staged = Daemon!None /\ said = [c \in Command |-> "nothing"]
  BY DEF Daemon!Init
<1>2. {Daemon!None, Daemon!Earlier} \subseteq PlistOf /\ Daemon!None.of = NoCommand /\ Daemon!Earlier.of = NoCommand
  BY DEF Daemon!None, Daemon!Earlier, PlistOf
<1>3. /\ \A c \in Command : cmd[c].at = "new"
      /\ cmd \in [Command -> [verb : Daemon!Verbs, at : Daemon!Places, was : BOOLEAN, alone : BOOLEAN]]
  <2> DEFINE fresh == {[verb |-> v, at |-> "new", was |-> FALSE, alone |-> TRUE] : v \in Daemon!Verbs}
  <2>1. ASSUME NEW e \in fresh
        PROVE  e.at = "new" /\ e \in [verb : Daemon!Verbs, at : Daemon!Places, was : BOOLEAN, alone : BOOLEAN]
    <3>1. PICK v \in Daemon!Verbs : e = [verb |-> v, at |-> "new", was |-> FALSE, alone |-> TRUE]
      OBVIOUS
    <3> QED  BY <3>1 DEF Daemon!Places
  <2>2. cmd \in [Command -> fresh]
    BY DEF Daemon!Init
  <2> HIDE DEF fresh
  <2> QED  BY <2>1, <2>2
<1>4. PlistShapes
  BY <1>1, <1>2, <1>3 DEF PlistShapes, Daemon!Answers
<1>5. Unwritten
  BY <1>1, <1>2 DEF Unwritten, ServiceConstants, Daemon!CommandAssumption
<1>6. AloneFits
  BY <1>3 DEF AloneFits, NobodyElse
<1> QED  BY <1>4, <1>5, <1>6 DEF SInv

(* What `murtaugh service` says it did it did, and it leaves a plist that  *)
(* is whole and is its own (launchd.rs): for any commands in any number of *)
(* terminals, whichever of their steps fail.                               *)
THEOREM ServiceTellsTrue ==
  ASSUME ServiceConstants
  PROVE  Daemon!Spec => Daemon!PlistKept /\ Daemon!SaysWhatItDid
<1>1. Daemon!Init => SInv
  BY InitInstalls
<1>2. SInv /\ [Daemon!Next]_(Daemon!vars) => SInv'
  <2>1. ASSUME SInv, UNCHANGED Daemon!vars PROVE SInv'
    BY <2>1 DEF Daemon!vars, SInv, PlistShapes, Unwritten, AloneFits, NobodyElse, Daemon!Verb
  <2> QED  BY <2>1, NextSays
<1>3. SInv /\ [Daemon!Next]_(Daemon!vars) => [Daemon!KeepsPlist]_(Daemon!vars) /\ [Daemon!SpeaksTrue]_(Daemon!vars)
  BY NextSays
<1> QED  BY <1>1, <1>2, <1>3, PTL DEF Daemon!Spec, Daemon!PlistKept, Daemon!SaysWhatItDid
=============================================================================
